---------------------------- MODULE GrantsProofs ----------------------------
(***************************************************************************)
(* The safety properties of Grants, for any windows, runs, commands and    *)
(* limits of the registries.                                               *)
(*                                                                         *)
(* The invariant says of every token, selection and picker who drew it and *)
(* who may still act on it. A token that is drawn is unknown to everybody  *)
(* but its opening (NewInv); a command that will revoke for a token finds  *)
(* it gone (TokenInv); a selection about to be granted was not revoked     *)
(* (ExportInv); a lease, a place or a listing has one owner (LeaseInv,     *)
(* PlaceInv, ListInv). Each conjunct is kept by a step of a command on the *)
(* command itself (the lemmas in Act), and on what it works on because     *)
(* only a few steps touch that registry (Frame). From what a step may do   *)
(* to one token (the operators in Move) it follows at the end that a token *)
(* is spent once.                                                          *)
(***************************************************************************)
EXTENDS Grants, FiniteSetTheorems, TLAPS

\* The steps of a task that works on a selection, and of one without a token.
Selecting == {"picking", "checked", "unpick", "exporting", "leased", "unlease",
              "writing", "panicked", "cleanup"}
Tokenless == {"list", "choosing"}

\* What a task works with was drawn before, and what it gives up is gone.
TaskDrawn(t) ==
  task[t] # None =>
    /\ task[t].token \in 0 .. opened
    /\ task[t].pc \notin Tokenless => task[t].token # 0
    /\ task[t].pc \in Selecting => task[t].number \in 1 .. selected
    /\ task[t].pc = "choosing" => task[t].number \in 1 .. picked
    /\ task[t].pc = "replace" => task[t].number \in 1 .. opened /\ reads[task[t].number] = None
    /\ task[t].pc = "revoke" => reads[task[t].token] = None

ReadDrawn(s) == reads[s] # None => s <= opened /\ s \notin revoked
ExportDrawn(x) == exports[x] # None => x <= selected /\ exports[x].token <= opened

TokenInv ==
  /\ \A t \in Tasks : TaskDrawn(t)
  /\ \A s \in releasing \cup revoked : s <= opened
  /\ \A s \in Opens : ReadDrawn(s)
  /\ \A x \in Selections : ExportDrawn(x)

\* The token of an opening is nobody else's until it is issued.
Apart(u, s) ==
  task[u] # None => task[u].token # s /\ (task[u].pc = "replace" => task[u].number # s)
TokenFresh(t) ==
  At(t, "open") =>
    /\ reads[task[t].token] = None
    /\ task[t].token \notin releasing \cup revoked
    /\ \A u \in Tasks \ {t} : Apart(u, task[t].token)
    /\ \A x \in Selections : exports[x] # None => exports[x].token # task[t].token

NewInv == \A t \in Tasks : TokenFresh(t)

\* The close of the window is being handled, its exports are about to be revoked.
Revoking(w) == closing # None /\ closing.window = w /\ closing.step = "revoke"
Barred(w) == w \in closed /\ ~Revoking(w)

\* A task works on a selection of its own window and token; the selection it is
\* about to grant is of a result that was not given up.
Picks(t) == task[t] # None /\ task[t].pc \in {"picking", "checked", "unpick"}
Sole(t) == Picks(t) => \A u \in Tasks \ {t} : Picks(u) => task[u].number # task[t].number
Matched(t) ==
  task[t] # None /\ task[t].pc \in Selecting /\ exports[task[t].number] # None =>
    /\ exports[task[t].number].token = task[t].token
    /\ exports[task[t].number].window = task[t].window
    /\ Picks(t) => exports[task[t].number].stage = "pending"
    /\ task[t].pc = "checked" => task[t].token \notin revoked /\ ~Barred(task[t].window)
Stopped(x) ==
  exports[x] # None /\ (exports[x].token \in revoked \/ Barred(exports[x].window)) =>
    exports[x].stage = "pending" \/ exports[x].cancelled

ExportInv == (\A t \in Tasks : Matched(t) /\ Sole(t)) /\ (\A x \in Selections : Stopped(x))

\* A result is busy for one task, or for the destructor's task of one that ended.
LeaseSteps == {"reading", "leased", "unlease", "writing", "panicked"}
Leases(t, s) == task[t] # None /\ task[t].pc \in LeaseSteps /\ task[t].token = s
LeasedBy(s) ==
  reads[s] # None =>
    /\ reads[s].busy => s \in releasing \/ \E t \in Tasks : Leases(t, s)
    /\ s \in releasing => reads[s].busy /\ \A t \in Tasks : ~Leases(t, s)
    /\ \A t \in Tasks : Leases(t, s) =>
         reads[s].busy /\ \A u \in Tasks \ {t} : ~Leases(u, s)

LeaseInv == \A s \in Opens : LeasedBy(s)

\* A window has one listing at most, and its count is the number of them.
Lists(t, w) == At(t, "list") /\ task[t].window = w
Listed(w) ==
  /\ listings[w] \in {0, 1}
  /\ listings[w] = 1 <=> \E t \in Tasks : Lists(t, w)
  /\ \A t, u \in Tasks : Lists(t, w) /\ Lists(u, w) => t = u

ListInv == \A w \in Windows : Listed(w)

\* A picker that is open gave no root yet; if it is still awaited, then by the
\* window that opened it.
Awaiting(t) ==
  At(t, "choosing") =>
    /\ roots[task[t].number] = None
    /\ \A w \in Windows \ {task[t].window} : picking[w] # task[t].number
    /\ \A u \in Tasks \ {t} : At(u, "choosing") => task[u].number # task[t].number

RootInv ==
  /\ stale \subseteq 1 .. picked
  /\ \A w \in Windows : picking[w] <= picked /\ picking[w] \notin stale
  /\ \A p \in Pickers : roots[p] # None => p <= picked /\ p \notin stale
  /\ \A t \in Tasks : Awaiting(t)

\* A place that is taken belongs to a task, or to a destructor's task.
Opened(s) ==
  pending[s] # None =>
    s \in dropping \/ \E t \in Tasks : task[t] # None /\ task[t].token = s
                          /\ task[t].pc \in {"open", "dropOpen"}
Worked(x) ==
  /\ exports[x] # None /\ exports[x].stage = "pending" =>
       \E t \in Tasks : task[t] # None /\ task[t].number = x
                          /\ task[t].pc \in {"picking", "checked", "unpick"}
  /\ exports[x] # None /\ exports[x].stage = "running" =>
       \E t \in Tasks : task[t] # None /\ task[t].number = x
                          /\ task[t].pc \in {"writing", "panicked", "cleanup"}

PlaceInv == (\A s \in Opens : Opened(s)) /\ (\A x \in Selections : Worked(x))

\* The opening of a task is of its own window.
Asked(t) ==
  At(t, "open") /\ pending[task[t].token] # None =>
    pending[task[t].token].window = task[t].window

AskedInv == \A t \in Tasks : Asked(t)

\* A window has one token for a run.
OneEach == \A s, p \in Opens :
  reads[s] # None /\ reads[p] # None /\ reads[s].window = reads[p].window
    /\ reads[s].run = reads[p].run => s = p

\* The window holds a result or opens one.
Holds(w) == \E k \in Opens : (reads[k] # None /\ reads[k].window = w)
                               \/ (pending[k] # None /\ pending[k].window = w)
HoldsNothing == \A w \in Windows : Gone(w) => ~Holds(w)

Inv ==
  /\ TypeOK /\ TokenInv /\ NewInv /\ ExportInv /\ LeaseInv /\ ListInv /\ RootInv
  /\ PlaceInv /\ AskedInv /\ OneEach /\ HoldsNothing

\* A step of this task.
Acts(t) == OpenStep(t) \/ ReadStep(t) \/ ExportStep(t) \/ RootStep(t)

\* Every limit of the registries of scan_service.rs, and every bound of the
\* model, is a number.
LEMMA Bounds ==
  /\ MaxReads \in Nat /\ MaxReadsOf \in Nat /\ MaxExports \in Nat /\ MaxExportsOf \in Nat
  /\ MaxRoots \in Nat /\ MaxListings \in Nat /\ MaxOpens \in Nat /\ MaxSelections \in Nat
  /\ MaxPickers \in Nat /\ MaxCloses \in Nat
  BY BoundsAssumption

\* None stands for an empty slot of a registry: it is none of the records a
\* slot can hold.
LEMMA Names ==
  /\ None \notin Pending /\ None \notin Grant /\ None \notin Export
  /\ None \notin Task /\ None \notin Closing /\ None \notin Root
  BY NoneAssumption

CloseOK ==
  /\ closed \subseteq Windows /\ cleanups \subseteq Windows
  /\ closing \in Closing \cup {None} /\ events \in [Windows -> 0 .. MaxCloses]
ReadsOK ==
  /\ opened \in 0 .. MaxOpens /\ pending \in [Opens -> Pending \cup {None}]
  /\ reads \in [Opens -> Grant \cup {None}] /\ dropping \subseteq Opens /\ releasing \subseteq Opens
ExportsOK ==
  /\ selected \in 0 .. MaxSelections /\ exports \in [Selections -> Export \cup {None}]
RootsOK ==
  /\ listings \in [Windows -> Nat] /\ picked \in 0 .. MaxPickers
  /\ picking \in [Windows -> 0 .. MaxPickers] /\ roots \in [Pickers -> Root \cup {None}]
GhostsOK == revoked \subseteq Opens /\ stale \subseteq Pickers
TasksOK == task \in [Tasks -> Task \cup {None}]

\* The types come in one part for each registry of scan_service.rs.
LEMMA TypeParts ==
  TypeOK <=> CloseOK /\ ReadsOK /\ ExportsOK /\ RootsOK /\ GhostsOK /\ TasksOK
  BY DEF TypeOK, CloseOK, ReadsOK, ExportsOK, RootsOK, GhostsOK, TasksOK

\* The steps a command goes through, as members of Step.
LEMMA StepNames ==
  /\ "open" \in Step /\ "dropOpen" \in Step /\ "replace" \in Step
  /\ "issued" \in Step /\ "reading" \in Step /\ "check" \in Step
  /\ "revokeLease" \in Step /\ "close" \in Step /\ "revoke" \in Step
  /\ "bound" \in Step /\ "picking" \in Step /\ "checked" \in Step
  /\ "unpick" \in Step /\ "exporting" \in Step /\ "leased" \in Step
  /\ "unlease" \in Step /\ "writing" \in Step /\ "panicked" \in Step
  /\ "cleanup" \in Step /\ "list" \in Step /\ "choosing" \in Step
  BY DEF Step

-----------------------------------------------------------------------------
\* What a step of a task changes of it.
Moved(t, pc, number) ==
  /\ TasksOK' /\ task'[t] \in Task /\ task'[t] # None
  /\ task'[t].pc = pc /\ task'[t].number = number
  /\ task'[t].window = task[t].window /\ task'[t].token = task[t].token
  /\ task'[t].opens = task[t].opens
  /\ \A u \in Tasks \ {t} : task'[u] = task[u]

Tokens  == Opens \cup {0}
Numbers == Opens \cup Selections \cup Pickers \cup {0}

\* Tokens, selections and pickers are numbered from one; zero stands for none
\* of them.
LEMMA Counting ==
  /\ 0 \in Tokens /\ 0 \in Numbers /\ 0 \notin Opens
  /\ \A s \in Opens : s \in Tokens /\ s \in Numbers /\ s \in Nat /\ s > 0
  /\ \A x \in Selections : x \in Numbers /\ x \in Nat /\ x > 0
  /\ \A p \in Pickers : p \in Numbers /\ p \in Nat /\ p > 0
  BY Bounds DEF Tokens, Numbers, Opens, Selections, Pickers

\* The next number a registry draws (next_open_sequence,
\* next_selection_sequence) is a number, and one of the model's while the
\* model's bound allows it.
LEMMA Drawing ==
  ASSUME ReadsOK, ExportsOK, RootsOK
  PROVE  /\ opened \in Nat /\ (opened < MaxOpens => opened + 1 \in Opens)
         /\ selected \in Nat /\ (selected < MaxSelections => selected + 1 \in Selections)
         /\ picked \in Nat /\ (picked < MaxPickers => picked + 1 \in Pickers)
  BY Bounds DEF ReadsOK, ExportsOK, RootsOK, Opens, Selections, Pickers

\* A command in progress carries a step, a window, a token and a number of the
\* right kinds.
LEMMA TaskFields ==
  ASSUME TasksOK, NEW t \in Tasks, task[t] # None
  PROVE  /\ task[t] \in Task /\ task[t].pc \in Step /\ task[t].window \in Windows
         /\ task[t].token \in Tokens /\ task[t].opens \in BOOLEAN
         /\ task[t].number \in Numbers
  BY DEF TasksOK, Task, Tokens, Numbers

\* Goto moves a command to its next step and leaves all else of it, and every
\* other command, alone.
LEMMA Going ==
  ASSUME TasksOK, NEW t \in Tasks, task[t] # None, NEW step \in Step, Goto(t, step)
  PROVE  Moved(t, step, task[t].number)
  <1>1. task[t] \in Task /\ [task[t] EXCEPT !.pc = step] \in Task
    BY TaskFields DEF Task, Tokens, Numbers
  <1> QED
    BY <1>1, Names DEF TasksOK, Goto, Moved, Task

\* Renumber moves a command to its next step with another number, and leaves
\* every other command alone.
LEMMA Renumbering ==
  ASSUME TasksOK, NEW t \in Tasks, task[t] # None, NEW step \in Step,
         NEW n \in Numbers, Renumber(t, step, n)
  PROVE  Moved(t, step, n)
  <1>1. task[t] \in Task /\ [task[t] EXCEPT !.pc = step, !.number = n] \in Task
    BY TaskFields DEF Task, Tokens, Numbers
  <1> QED
    BY <1>1, Names DEF TasksOK, Renumber, Moved, Task

Ended(t) ==
  /\ TasksOK' /\ task'[t] = None /\ \A u \in Tasks \ {t} : task'[u] = task[u]

\* Done ends one command and leaves every other command alone.
LEMMA Ending ==
  ASSUME TasksOK, NEW t \in Tasks, Done(t)
  PROVE  Ended(t)
  BY DEF TasksOK, Done, Ended

Begun(t, step, w, token, number) ==
  /\ TasksOK' /\ task'[t] \in Task /\ task'[t] # None
  /\ task'[t].pc = step /\ task'[t].number = number
  /\ task'[t].window = w /\ task'[t].token = token /\ task'[t].opens = (step = "open")
  /\ \A u \in Tasks \ {t} : task'[u] = task[u]

\* Begin starts one command with what it was called with and leaves every other
\* command alone.
LEMMA Beginning ==
  ASSUME TasksOK, NEW t \in Tasks, NEW step \in Step, NEW w \in Windows,
         NEW token \in Tokens, NEW n \in Numbers,
         Begin(t, step, w, token, n)
  PROVE  Begun(t, step, w, token, n)
  <1> DEFINE k == [pc |-> step, window |-> w, token |-> token, number |-> n,
                   opens |-> step = "open"]
  <1>1. k \in Task
    BY DEF Task, Tokens, Numbers
  <1>2. task' = [task EXCEPT ![t] = k]
    BY DEF Begin
  <1>3. k # None
    BY <1>1, Names
  <1>4. k.pc = step /\ k.number = n /\ k.window = w /\ k.token = token /\ k.opens = (step = "open")
    OBVIOUS
  <1> HIDE DEF k
  <1> QED
    BY <1>1, <1>2, <1>3, <1>4 DEF TasksOK, Begun

ReadsTyped == reads \in [Opens -> Grant \cup {None}]

\* A result token carries a window, a run and its two flags.
LEMMA GrantFields ==
  ASSUME ReadsTyped, NEW s \in Opens, reads[s] # None
  PROVE  /\ reads[s] \in Grant /\ reads[s].window \in Windows /\ reads[s].run \in Runs
         /\ reads[s].busy \in BOOLEAN /\ reads[s].late \in BOOLEAN
  BY DEF ReadsTyped, Grant

\* What happens to one result token.
Remade(s, busy, late) ==
  /\ ReadsTyped' /\ \A p \in Opens \ {s} : reads'[p] = reads[p]
  /\ reads'[s] # None /\ reads'[s].window = reads[s].window /\ reads'[s].run = reads[s].run
  /\ (reads'[s].busy <=> busy) /\ (reads'[s].late <=> late)
Lost(s) ==
  /\ ReadsTyped' /\ reads'[s] = None /\ \A p \in Opens \ {s} : reads'[p] = reads[p]

\* Setting in_flight of one token changes nothing else of it, and no other
\* token.
LEMMA Remaking ==
  ASSUME ReadsTyped, NEW s \in Opens, reads[s] # None, NEW b \in BOOLEAN,
         reads' = [reads EXCEPT ![s].busy = b]
  PROVE  Remade(s, b, reads[s].late)
  <1>1. reads[s] \in Grant /\ [reads[s] EXCEPT !.busy = b] \in Grant
    BY GrantFields DEF Grant
  <1> QED
    BY <1>1, Names DEF ReadsTyped, Remade, Grant

\* begin_result_read_at sets in_flight of one token.
LEMMA TakingLease ==
  ASSUME ReadsTyped, NEW s \in Opens, reads[s] # None, Lease(s)
  PROVE  Remade(s, TRUE, reads[s].late)
  BY Remaking DEF Lease

\* The end of its time changes nothing else of a token.
LEMMA Ageing ==
  ASSUME ReadsTyped, NEW s \in Opens, AgeRead(s)
  PROVE  reads[s] # None /\ Remade(s, reads[s].busy, TRUE)
  <1>1. reads[s] # None
    BY DEF AgeRead, Present
  <1>2. reads[s] \in Grant /\ [reads[s] EXCEPT !.late = TRUE] \in Grant
    BY <1>1, GrantFields DEF Grant
  <1> QED
    BY <1>1, <1>2, Names DEF ReadsTyped, Remade, Grant, AgeRead

\* Clearing in_flight of a token that is gone does nothing
\* (release_result_read).
LEMMA Unleasing ==
  ASSUME ReadsTyped, NEW s \in Opens, reads' = Unleased(s)
  PROVE  IF reads[s] = None THEN reads' = reads ELSE Remade(s, FALSE, reads[s].late)
  BY Remaking DEF Unleased

\* Removing a token leaves the others alone.
LEMMA Forgetting ==
  ASSUME ReadsTyped, NEW s \in Opens, Forget(s)
  PROVE  Lost(s)
  BY DEF ReadsTyped, Forget, Lost

\* Pruning the expired tokens removes some and changes none.
LEMMA Pruning ==
  ASSUME ReadsTyped
  PROVE  /\ Fresh(reads) \in [Opens -> Grant \cup {None}]
         /\ \A s \in Opens : Fresh(reads)[s] = None \/ Fresh(reads)[s] = reads[s]
  BY DEF ReadsTyped, Fresh

\* A selection or export carries a window, a token, a stage and its cancel
\* flag.
LEMMA ExportFields ==
  ASSUME ExportsOK, NEW x \in Selections, exports[x] # None
  PROVE  /\ exports[x] \in Export /\ exports[x].window \in Windows /\ exports[x].token \in Opens
         /\ exports[x].stage \in {"pending", "granted", "running"}
         /\ exports[x].cancelled \in BOOLEAN
  BY DEF ExportsOK, Export

Staged(x, stage, cancelled) ==
  /\ exports' \in [Selections -> Export \cup {None}]
  /\ \A y \in Selections \ {x} : exports'[y] = exports[y]
  /\ exports'[x] # None /\ exports'[x].window = exports[x].window
  /\ exports'[x].token = exports[x].token
  /\ exports'[x].stage = stage /\ (exports'[x].cancelled <=> cancelled)

\* A change of stage keeps the window, the token and the cancel flag of an
\* export and leaves the others alone.
LEMMA Staging ==
  ASSUME ExportsOK, NEW x \in Selections, exports[x] # None,
         NEW stage \in {"pending", "granted", "running"}, SetStage(x, stage)
  PROVE  Staged(x, stage, exports[x].cancelled)
  <1>1. exports[x] \in Export /\ [exports[x] EXCEPT !.stage = stage] \in Export
    BY ExportFields DEF Export
  <1> QED
    BY <1>1, Names DEF ExportsOK, Staged, Export, SetStage

\* cancel_history_export of a running export sets its flag and leaves the
\* others alone.
LEMMA Cancelling ==
  ASSUME ExportsOK, NEW x \in Selections, exports[x] # None, Cancel(x)
  PROVE  Staged(x, exports[x].stage, TRUE)
  <1>1. exports[x] \in Export /\ [exports[x] EXCEPT !.cancelled = TRUE] \in Export
    BY ExportFields DEF Export
  <1> QED
    BY <1>1, Names DEF ExportsOK, Staged, Export, Cancel

\* What a revocation does to one export.
Revoked(x, hit) ==
  /\ x \notin hit => exports'[x] = exports[x]
  /\ x \in hit /\ exports[x].stage # "running" => exports'[x] = None
  /\ x \in hit /\ exports[x].stage = "running" =>
       /\ exports'[x] # None /\ exports'[x].window = exports[x].window
       /\ exports'[x].token = exports[x].token
       /\ exports'[x].stage = "running" /\ exports'[x].cancelled

\* A revocation removes the pending selections and export tokens it hits, tells
\* the running exports it hits to stop, and leaves the others alone
\* (revoke_history_exports_for_result_token, revoke_history_exports_for_owner).
LEMMA Revocation ==
  ASSUME ExportsOK, NEW hit, hit \subseteq Present(exports), Revoke(hit)
  PROVE  exports' \in [Selections -> Export \cup {None}] /\ \A x \in Selections : Revoked(x, hit)
  <1>1. ASSUME NEW x \in Selections, x \in hit
        PROVE  /\ GivenUp(exports[x]) \in Export \cup {None}
               /\ exports[x].stage # "running" => GivenUp(exports[x]) = None
               /\ exports[x].stage = "running" =>
                    /\ GivenUp(exports[x]) # None
                    /\ GivenUp(exports[x]).window = exports[x].window
                    /\ GivenUp(exports[x]).token = exports[x].token
                    /\ GivenUp(exports[x]).stage = "running"
                    /\ GivenUp(exports[x]).cancelled
    <2>1. exports[x] # None
      BY <1>1 DEF Present
    <2>2. exports[x] \in Export /\ [exports[x] EXCEPT !.cancelled = TRUE] \in Export
      BY <2>1, <1>1, ExportFields DEF Export
    <2> QED
      BY <2>2, Names DEF GivenUp, Export
  <1>2. ASSUME NEW x \in Selections PROVE Revoked(x, hit)
    BY <1>1, <1>2 DEF Revoke, Revoked
  <1> QED
    BY <1>1, <1>2 DEF Revoke, ExportsOK

\* A pending opening carries a window and a run.
LEMMA PendingFields ==
  ASSUME ReadsOK, NEW s \in Opens, pending[s] # None
  PROVE  pending[s] \in Pending /\ pending[s].window \in Windows /\ pending[s].run \in Runs
  BY DEF ReadsOK, Pending

\* What a command at this step works with is a token, a selection or a picker
\* that was drawn.
LEMMA Drawn ==
  ASSUME ReadsOK, ExportsOK, RootsOK, TasksOK, TokenInv, NEW t \in Tasks, task[t] # None
  PROVE  /\ task[t].window \in Windows /\ task[t].number \in Numbers
         /\ task[t].pc \notin Tokenless => task[t].token \in Opens
         /\ task[t].pc \in Selecting => task[t].number \in Selections
         /\ task[t].pc = "choosing" => task[t].number \in Pickers
         /\ task[t].pc = "replace" => task[t].number \in Opens
  BY TaskFields, Bounds DEF TokenInv, TaskDrawn, ReadsOK, ExportsOK, RootsOK, Opens,
     Selections, Pickers, Tokens

\* What a step leaves of a selection or an export, or the new one it makes.
ExportMove(y) ==
  exports'[y] # None =>
    \/ /\ exports[y] # None /\ exports'[y].token = exports[y].token
       /\ exports'[y].window = exports[y].window
       /\ exports[y].cancelled => exports'[y].cancelled
       /\ \/ exports'[y].stage = exports[y].stage
          \/ \E t \in Tasks : GrantExport(t) /\ task[t].number = y
          \/ exports[y].stage = "granted" /\ exports'[y].stage = "running"
    \/ \E t \in Tasks :
         /\ Reserve(t) /\ y = selected + 1 /\ selected' = selected + 1
         /\ exports'[y].token = task[t].token /\ exports'[y].window = task[t].window
         /\ exports'[y].stage = "pending"

\* The task is about to revoke the exports of this token.
GivesUp(t, k) ==
  /\ task[t] # None
  /\ \/ task[t].pc = "replace" /\ task[t].number = k
     \/ task[t].pc = "revoke" /\ task[t].token = k

\* How a token came to be one whose exports were revoked.
RevokedFrom(k) ==
  \/ k \in revoked
  \/ k <= opened /\ reads[k] = None /\ reads' = reads /\ \E t \in Tasks : GivesUp(t, k)

\* How a lease came to be one that a task of its own is to release.
ReleasedFrom(k) ==
  \/ k \in releasing
  \/ \E t \in Tasks : task[t] # None /\ task[t].pc \in {"unlease", "panicked"} /\ task[t].token = k

\* What is left of an export that is given up in this step.
Told(y) == exports'[y].stage = "running" /\ exports'[y].cancelled

\* A selection is picked for by the same task, or is new.
PickedFor(t) ==
  Picks(t)' => \/ Picks(t) /\ task'[t].number = task[t].number
               \/ Reserve(t) /\ task'[t].number = selected + 1

\* What a step of a task does to the lease on a token: it takes it, gives it
\* back, leaves that to another task, or does nothing to it.
LeaseMove(t, k) ==
  \/ reads'[k] = None
  \/ /\ reads[k] # None /\ (reads'[k].busy <=> reads[k].busy) /\ (Leases(t, k)' <=> Leases(t, k))
     /\ k \in releasing' <=> k \in releasing
  \/ /\ reads[k] # None /\ ~reads[k].busy /\ reads'[k].busy /\ Leases(t, k)'
     /\ k \in releasing' <=> k \in releasing
  \/ /\ reads[k] # None /\ ~reads'[k].busy /\ Leases(t, k) /\ ~Leases(t, k)'
     /\ k \in releasing' <=> k \in releasing
  \/ /\ reads[k] # None /\ (reads'[k].busy <=> reads[k].busy) /\ Leases(t, k) /\ ~Leases(t, k)'
     /\ k \in releasing'
  \/ /\ At(t, "open") /\ task[t].token = k /\ ~reads'[k].busy /\ ~Leases(t, k)'
     /\ releasing' = releasing

\* A step that is of no task.
Aside == Spawned \/ WindowStep \/ Clock \/ UNCHANGED vars

\* What a step that is of no task does to the lease on a token.
LeaseLeft(k) ==
  \/ reads'[k] = None
  \/ /\ reads[k] # None /\ (reads'[k].busy <=> reads[k].busy)
     /\ k \in releasing' <=> k \in releasing
  \/ reads[k] # None /\ k \in releasing /\ k \notin releasing' /\ ~reads'[k].busy

\* A step of a task leaves the listings or the pickers alone, or is one of theirs.
ListQuiet(t) ==
  \/ EndListing(t) \/ \E w \in Windows : BeginListing(t, w)
  \/ listings' = listings /\ ~At(t, "list") /\ ~At(t, "list")'
RootQuiet(t) ==
  \/ EndPick(t) \/ \E w \in Windows : BeginPick(t, w)
  \/ UNCHANGED <<rootVars, stale>> /\ ~At(t, "choosing") /\ ~At(t, "choosing")'

\* What a step leaves of a result token and of an opening.
KeptMove(k) ==
  reads'[k] # None =>
    \/ reads[k] # None /\ reads'[k].window = reads[k].window /\ reads'[k].run = reads[k].run
    \/ \E t \in Tasks : Issue(t) /\ task[t].token = k
PendingMove(k) ==
  pending'[k] # None =>
    \/ pending'[k] = pending[k]
    \/ \E t \in Tasks, w \in Windows, r \in Runs :
         /\ BeginOpen(t, w, r) /\ OpenAdmitted(w, r) /\ k = opened + 1 /\ opened' = k
         /\ pending'[k].window = w /\ pending'[k].run = r

\* The task is at its opening.
OpensAt(t, s) == task[t] # None /\ task[t].token = s /\ task[t].pc \in {"open", "dropOpen"}
OpenMove(t, s) ==
  \/ pending'[s] = None \/ s \in dropping' \/ OpensAt(t, s)'
  \/ pending[s] # None /\ (s \in dropping => s \in dropping') /\ ~OpensAt(t, s)
OpenLeft(s) ==
  \/ pending'[s] = None
  \/ pending[s] # None /\ (s \in dropping => s \in dropping')

\* The task is at the picking for its selection, or at its export.
PicksFor(t, x) == task[t] # None /\ task[t].number = x /\ task[t].pc \in {"picking", "checked", "unpick"}
RunsFor(t, x) == task[t] # None /\ task[t].number = x /\ task[t].pc \in {"writing", "panicked", "cleanup"}
WorkMove(t, x) ==
  \/ exports'[x] = None \/ exports'[x].stage = "granted"
  \/ exports'[x].stage = "pending" /\ PicksFor(t, x)'
  \/ exports'[x].stage = "running" /\ RunsFor(t, x)'
  \/ /\ exports[x] # None /\ exports'[x].stage = exports[x].stage
     /\ PicksFor(t, x) => PicksFor(t, x)'
     /\ RunsFor(t, x) => RunsFor(t, x)'
WorkLeft(x) ==
  exports'[x] = None \/ (exports[x] # None /\ exports'[x].stage = exports[x].stage)
-----------------------------------------------------------------------------
\* The steps that work on the close of a window, on a result token, on an opening, on
\* a lease left behind, on a selection or an export, on a listing or a folder picker,
\* and those that are remembered.
CloseWork ==
  \/ \E w \in Windows : CloseEvent(w) \/ RemoveLater(w)
  \/ CloseMark \/ CloseRevoke \/ CloseRemove
ReadWork ==
  \/ \E t \in Tasks :
       \/ Issue(t) \/ RefuseOpen(t) \/ CloseOpened(t) \/ BeginSummary(t)
       \/ FinishRead(t) \/ RevokeLease(t) \/ Validate(t) \/ LeaseExport(t)
       \/ EndWriting(t) \/ DropLease(t)
       \/ \E s \in Opens : CloseToken(t, s) \/ BeginRead(t, s) \/ BeginSelection(t, s)
       \/ \E w \in Windows, r \in Runs : BeginOpen(t, w, r)
  \/ \E s \in Opens : ReleaseLater(s) \/ AgeRead(s)
  \/ \E w \in Windows : RemoveLater(w)
  \/ CloseRemove
PendingWork ==
  \/ \E t \in Tasks :
       \/ Issue(t) \/ DropOpen(t)
       \/ \E w \in Windows, r \in Runs : BeginOpen(t, w, r)
  \/ \E s \in Opens : DropLater(s)
  \/ \E w \in Windows : RemoveLater(w)
  \/ CloseRemove
ReleaseWork ==
  \/ \E t \in Tasks :
       \/ DropLease(t)
  \/ \E s \in Opens : ReleaseLater(s)
ExportWork ==
  \/ \E t \in Tasks :
       \/ RevokeReplaced(t) \/ RevokeClosed(t) \/ Reserve(t) \/ GrantExport(t)
       \/ Unpick(t) \/ RunExport(t) \/ Cleanup(t)
  \/ \E x \in Selections : CancelExport(x) \/ AgeExport(x)
  \/ CloseRevoke
PickWork ==
  \/ \E t \in Tasks :
       \/ EndListing(t) \/ EndPick(t)
       \/ \E w \in Windows : BeginListing(t, w) \/ BeginPick(t, w)
  \/ \E w \in Windows : CloseEvent(w)
  \/ \E p \in Pickers : ConsumeRoot(p)
GhostWork ==
  \/ \E t \in Tasks :
       \/ RevokeReplaced(t) \/ RevokeClosed(t)
  \/ \E w \in Windows : CloseEvent(w)

\* Each registry is changed by the commands and tasks that take its lock, and
\* by no other step.
LEMMA Frame ==
  ASSUME [Next]_vars
  PROVE  /\ CloseWork \/ UNCHANGED closeVars
         /\ ReadWork \/ UNCHANGED reads
         /\ PendingWork \/ UNCHANGED <<opened, pending, dropping>>
         /\ ReleaseWork \/ UNCHANGED releasing
         /\ ExportWork \/ UNCHANGED exportVars
         /\ PickWork \/ UNCHANGED <<listings, rootVars>>
         /\ GhostWork \/ UNCHANGED ghosts
  <1> USE DEF vars, closeVars, readVars, exportVars, rootVars, ghosts
  <1> DEFINE Framed == /\ CloseWork \/ UNCHANGED closeVars
                       /\ ReadWork \/ UNCHANGED reads
                       /\ PendingWork \/ UNCHANGED <<opened, pending, dropping>>
                       /\ ReleaseWork \/ UNCHANGED releasing
                       /\ ExportWork \/ UNCHANGED exportVars
                       /\ PickWork \/ UNCHANGED <<listings, rootVars>>
                       /\ GhostWork \/ UNCHANGED ghosts
  <1>0. SUFFICES Framed
    OBVIOUS
  <1>1. ASSUME NEW t \in Tasks, NEW w \in Windows, NEW r \in Runs, BeginOpen(t, w, r)
        PROVE  Framed
    BY <1>1 DEF BeginOpen, ReadWork, PendingWork
  <1>2. ASSUME NEW t \in Tasks, Issue(t) PROVE Framed
    BY <1>2 DEF Issue, ReadWork, PendingWork
  <1>3. ASSUME NEW t \in Tasks, RefuseOpen(t) PROVE Framed
    BY <1>3 DEF RefuseOpen, ReadWork
  <1>4. ASSUME NEW t \in Tasks, DropOpen(t) PROVE Framed
    BY <1>4 DEF DropOpen, PendingWork
  <1>5. ASSUME NEW t \in Tasks, RevokeReplaced(t) PROVE Framed
    BY <1>5 DEF RevokeReplaced, ExportWork, GhostWork
  <1>6. ASSUME NEW t \in Tasks, BeginSummary(t) PROVE Framed
    BY <1>6 DEF BeginSummary, ReadWork
  <1>7. ASSUME NEW t \in Tasks, CheckOpened(t) PROVE Framed
    BY <1>7 DEF CheckOpened
  <1>8. ASSUME NEW t \in Tasks, CloseOpened(t) PROVE Framed
    BY <1>8 DEF CloseOpened, ReadWork
  <1>9. ASSUME NEW t \in Tasks, FinishRead(t) PROVE Framed
    BY <1>9 DEF FinishRead, ReadWork
  <1>10. ASSUME NEW t \in Tasks, RevokeLease(t) PROVE Framed
    BY <1>10 DEF RevokeLease, ReadWork
  <1>11. ASSUME NEW t \in Tasks, RevokeClosed(t) PROVE Framed
    BY <1>11 DEF RevokeClosed, ExportWork, GhostWork
  <1>12. ASSUME NEW t \in Tasks, Reserve(t) PROVE Framed
    BY <1>12 DEF Reserve, ExportWork
  <1>13. ASSUME NEW t \in Tasks, Validate(t) PROVE Framed
    BY <1>13 DEF Validate, ReadWork
  <1>14. ASSUME NEW t \in Tasks, GrantExport(t) PROVE Framed
    BY <1>14 DEF GrantExport, ExportWork
  <1>15. ASSUME NEW t \in Tasks, Unpick(t) PROVE Framed
    BY <1>15 DEF Unpick, ExportWork
  <1>16. ASSUME NEW t \in Tasks, LeaseExport(t) PROVE Framed
    BY <1>16 DEF LeaseExport, ReadWork
  <1>17. ASSUME NEW t \in Tasks, RunExport(t) PROVE Framed
    BY <1>17 DEF RunExport, ExportWork
  <1>18. ASSUME NEW t \in Tasks, EndWriting(t) PROVE Framed
    BY <1>18 DEF EndWriting, ReadWork
  <1>19. ASSUME NEW t \in Tasks, DropLease(t) PROVE Framed
    BY <1>19 DEF DropLease, ReadWork, ReleaseWork
  <1>20. ASSUME NEW t \in Tasks, Cleanup(t) PROVE Framed
    BY <1>20 DEF Cleanup, ExportWork
  <1>21. ASSUME NEW t \in Tasks, EndListing(t) PROVE Framed
    BY <1>21 DEF EndListing, PickWork
  <1>22. ASSUME NEW t \in Tasks, EndPick(t) PROVE Framed
    BY <1>22 DEF EndPick, PickWork
  <1>23. ASSUME NEW t \in Tasks, NEW s \in Opens, BeginRead(t, s) PROVE Framed
    BY <1>23 DEF BeginRead, ReadWork
  <1>24. ASSUME NEW t \in Tasks, NEW s \in Opens, CloseToken(t, s) PROVE Framed
    BY <1>24 DEF CloseToken, ReadWork
  <1>25. ASSUME NEW t \in Tasks, NEW s \in Opens, BeginSelection(t, s) PROVE Framed
    BY <1>25 DEF BeginSelection, ReadWork
  <1>26. ASSUME NEW t \in Tasks, NEW x \in Selections, BeginExport(t, x) PROVE Framed
    BY <1>26 DEF BeginExport
  <1>27. ASSUME NEW t \in Tasks, NEW w \in Windows, BeginListing(t, w) PROVE Framed
    BY <1>27 DEF BeginListing, PickWork
  <1>28. ASSUME NEW t \in Tasks, NEW w \in Windows, BeginPick(t, w) PROVE Framed
    BY <1>28 DEF BeginPick, PickWork
  <1>29. ASSUME NEW s \in Opens, DropLater(s) PROVE Framed
    BY <1>29 DEF DropLater, PendingWork
  <1>30. ASSUME NEW s \in Opens, ReleaseLater(s) PROVE Framed
    BY <1>30 DEF ReleaseLater, ReadWork, ReleaseWork
  <1>31. ASSUME NEW w \in Windows, RemoveLater(w) PROVE Framed
    BY <1>31 DEF RemoveLater, CloseWork, ReadWork, PendingWork
  <1>32. ASSUME NEW w \in Windows, CloseEvent(w) PROVE Framed
    BY <1>32 DEF CloseEvent, CloseWork, PickWork, GhostWork
  <1>33. CASE CloseMark
    BY <1>33 DEF CloseMark, CloseWork
  <1>34. CASE CloseRevoke
    BY <1>34 DEF CloseRevoke, CloseWork, ExportWork
  <1>35. CASE CloseRemove
    BY <1>35 DEF CloseRemove, CloseWork, ReadWork, PendingWork
  <1>36. ASSUME NEW x \in Selections, CancelExport(x) PROVE Framed
    BY <1>36 DEF CancelExport, ExportWork
  <1>37. ASSUME NEW p \in Pickers, ConsumeRoot(p) PROVE Framed
    BY <1>37 DEF ConsumeRoot, PickWork
  <1>38. ASSUME NEW s \in Opens, AgeRead(s) PROVE Framed
    BY <1>38 DEF AgeRead, ReadWork
  <1>39. ASSUME NEW x \in Selections, AgeExport(x) PROVE Framed
    BY <1>39 DEF AgeExport, ExportWork
  <1>40. CASE UNCHANGED vars
    BY <1>40
  <1> HIDE DEF Framed
  <1> QED
    BY <1>1, <1>2, <1>3, <1>4, <1>5, <1>6, <1>7, <1>8, <1>9, <1>10, <1>11, <1>12, <1>13,
       <1>14, <1>15, <1>16, <1>17, <1>18, <1>19, <1>20, <1>21, <1>22, <1>23, <1>24, <1>25,
       <1>26, <1>27, <1>28, <1>29, <1>30, <1>31, <1>32, <1>33, <1>34, <1>35, <1>36, <1>37,
       <1>38, <1>39, <1>40
       DEF Next, OpenStep, ReadStep, ExportStep, RootStep, Spawned, WindowStep, Clock

\* What the close of a window keeps of itself stays of its type
\* (cancel_for_window_close).
LEMMA CloseStep ==
  ASSUME CloseOK, [Next]_vars
  PROVE  CloseOK'
  <1> USE Bounds, Names DEF CloseOK, Closing, vars, closeVars, readVars, exportVars,
      rootVars, ghosts, At
  <1>1. ASSUME NEW w \in Windows, RemoveLater(w) PROVE CloseOK'
    BY <1>1
       DEF RemoveLater, RemoveFor, OfWindow, Present
  <1>2. ASSUME NEW w \in Windows, CloseEvent(w) PROVE CloseOK'
    BY <1>2
       DEF CloseEvent, OfWindow, Present
  <1>3. CASE CloseMark
    BY <1>3
       DEF CloseMark
  <1>4. CASE CloseRevoke
    BY <1>4, Revocation
       DEF CloseRevoke, OfWindow, Present, Revoked
  <1>5. CASE CloseRemove
    BY <1>5
       DEF CloseRemove, RemoveFor, OfWindow, Present
  <1>6. CASE UNCHANGED closeVars
    BY <1>6
  <1> QED
    BY Frame, <1>6, <1>1, <1>2, <1>3, <1>4, <1>5
       DEF CloseWork

\* The table of result tokens, the pending openings and the work left to
\* spawned tasks keep their types.
LEMMA ReadsStep ==
  ASSUME CloseOK, ReadsOK, ReadsTyped, ExportsOK, RootsOK, TasksOK, TokenInv, [Next]_vars
  PROVE  ReadsOK'
  <1> USE Names, Counting, Drawn, StepNames, PendingFields DEF ReadsOK, ReadsTyped,
      Tokenless, Selecting, vars, closeVars, readVars, exportVars, rootVars, ghosts, At
  <1>1. ASSUME NEW t \in Tasks, NEW w \in Windows, NEW r \in Runs, BeginOpen(t, w, r)
        PROVE  ReadsOK'
    <2>1. CASE OpenAdmitted(w, r)
      <3>1. opened' = opened + 1 /\ opened' \in Opens
        BY <1>1, <2>1, Drawing DEF BeginOpen
      <3>2. [window |-> w, run |-> r] \in Pending
        BY DEF Pending
      <3> QED
        BY <1>1, <2>1, <3>1, <3>2, Pruning DEF BeginOpen, Opens
    <2> QED
      BY <1>1, <2>1, Pruning DEF BeginOpen
  <1>2. ASSUME NEW t \in Tasks, Issue(t) PROVE ReadsOK'
    <2>1. opened' = opened /\ dropping' = dropping /\ releasing' = releasing
      BY <1>2 DEF Issue
    <2> DEFINE s == task[t].token
               old == Replaced(Fresh(reads), task[t].window, pending[s].run)
    <2>2. /\ s \in Opens /\ pending[s] # None /\ pending' = [pending EXCEPT ![s] = None]
          /\ reads' = [p \in Opens |->
               IF p = s THEN [window |-> task[t].window, run |-> pending[s].run,
                              busy |-> FALSE, late |-> FALSE]
               ELSE IF p \in old THEN None ELSE Fresh(reads)[p]]
      BY <1>2, TaskFields DEF Issue, TokenInv, Tokenless
    <2>3. [window |-> task[t].window, run |-> pending[s].run, busy |-> FALSE, late |-> FALSE]
            \in Grant
      BY <1>2, <2>2, TaskFields DEF Issue, Grant, Pending
    <2> QED
      BY <2>1, <2>2, <2>3, Pruning DEF ReadsTyped
  <1>3. ASSUME NEW t \in Tasks, RefuseOpen(t) PROVE ReadsOK'
    BY <1>3, Pruning, Going
       DEF RefuseOpen, Moved
  <1>4. ASSUME NEW t \in Tasks, DropOpen(t) PROVE ReadsOK'
    BY <1>4, Ending
       DEF DropOpen, Ended
  <1>5. ASSUME NEW t \in Tasks, BeginSummary(t) PROVE ReadsOK'
    BY <1>5, TakingLease, Going, Forgetting
       DEF BeginSummary, Readable, Expired, Authorised, OfWindow, Present, Remade, Moved, Lost
  <1>6. ASSUME NEW t \in Tasks, CloseOpened(t) PROVE ReadsOK'
    BY <1>6, Beginning, Ending
       DEF CloseOpened, CloseRead, OfWindow, Present, Begun, Ended
  <1>7. ASSUME NEW t \in Tasks, FinishRead(t) PROVE ReadsOK'
    BY <1>7, Going, Forgetting, Unleasing, Ending
       DEF FinishRead, Finish, AfterRead, Moved, Lost, Remade, Ended
  <1>8. ASSUME NEW t \in Tasks, RevokeLease(t) PROVE ReadsOK'
    BY <1>8, Forgetting, Going, Ending
       DEF RevokeLease, Lost, Moved, Ended
  <1>9. ASSUME NEW t \in Tasks, Validate(t) PROVE ReadsOK'
    BY <1>9, Going, Forgetting
       DEF Validate, Authorised, Expired, OfWindow, Present, Moved, Lost
  <1>10. ASSUME NEW t \in Tasks, LeaseExport(t) PROVE ReadsOK'
    BY <1>10, TakingLease, Going, Forgetting, Ending
       DEF LeaseExport, Readable, Expired, Authorised, OfWindow, Present, Remade, Moved,
           Lost, Ended
  <1>11. ASSUME NEW t \in Tasks, EndWriting(t) PROVE ReadsOK'
    BY <1>11, Going, Forgetting, Unleasing
       DEF EndWriting, Finish, Moved, Lost, Remade
  <1>12. ASSUME NEW t \in Tasks, DropLease(t) PROVE ReadsOK'
    BY <1>12, Ending, Going, Unleasing
       DEF DropLease, Ended, Moved, Remade
  <1>13. ASSUME NEW t \in Tasks, NEW s \in Opens, BeginRead(t, s) PROVE ReadsOK'
    BY <1>13, TakingLease, Beginning, Forgetting
       DEF BeginRead, Present, Readable, Expired, Authorised, OfWindow, Remade, Begun, Lost
  <1>14. ASSUME NEW t \in Tasks, NEW s \in Opens, CloseToken(t, s) PROVE ReadsOK'
    BY <1>14, Beginning, Ending
       DEF CloseToken, Present, CloseRead, OfWindow, Begun, Ended
  <1>15. ASSUME NEW t \in Tasks, NEW s \in Opens, BeginSelection(t, s) PROVE ReadsOK'
    BY <1>15, Beginning, Forgetting
       DEF BeginSelection, Present, Authorised, Expired, OfWindow, Begun, Lost
  <1>16. ASSUME NEW s \in Opens, DropLater(s) PROVE ReadsOK'
    BY <1>16
       DEF DropLater
  <1>17. ASSUME NEW s \in Opens, ReleaseLater(s) PROVE ReadsOK'
    BY <1>17, Unleasing
       DEF ReleaseLater, Remade
  <1>18. ASSUME NEW w \in Windows, RemoveLater(w) PROVE ReadsOK'
    BY <1>18
       DEF RemoveLater, RemoveFor, OfWindow, Present
  <1>19. CASE CloseRemove
    BY <1>19
       DEF CloseRemove, RemoveFor, OfWindow, Present
  <1>20. ASSUME NEW s \in Opens, AgeRead(s) PROVE ReadsOK'
    BY <1>20, Ageing DEF AgeRead, Remade
  <1>21. CASE UNCHANGED <<reads, opened, pending, dropping, releasing>>
    BY <1>21
  <1> QED
    BY Frame, <1>21, <1>1, <1>2, <1>3, <1>4, <1>5, <1>6, <1>7, <1>8, <1>9, <1>10, <1>11,
       <1>12, <1>13, 
       <1>14, <1>15, <1>16, <1>17, <1>18, <1>19, <1>20
       DEF ReadWork, PendingWork, ReleaseWork

\* The table of selections and exports keeps its type.
LEMMA ExportsStep ==
  ASSUME ReadsOK, ReadsTyped, ExportsOK, RootsOK, TasksOK, TokenInv, [Next]_vars
  PROVE  ExportsOK'
  <1> USE Names, Counting, Drawn, StepNames, ExportFields DEF ExportsOK, Tokenless,
      Selecting, vars, closeVars, readVars, exportVars, rootVars, ghosts, At
  <1>1. ASSUME NEW t \in Tasks, RevokeReplaced(t) PROVE ExportsOK'
    BY <1>1, Renumbering, Revocation
       DEF RevokeReplaced, RevokeFor, Present, Moved, Revoked
  <1>2. ASSUME NEW t \in Tasks, RevokeClosed(t) PROVE ExportsOK'
    BY <1>2, Ending, Revocation
       DEF RevokeClosed, RevokeFor, Present, Ended, Revoked
  <1>3. ASSUME NEW t \in Tasks, Reserve(t) PROVE ExportsOK'
    <2>1. CASE SelectionRoom(exports, task[t].window)
      <3> DEFINE e == [window |-> task[t].window, token |-> task[t].token, stage |-> "pending",
                       cancelled |-> FALSE]
      <3>1. e \in Export
        BY <1>3 DEF Reserve, Export
      <3>2. selected' \in Selections /\ exports' = [exports EXCEPT ![selected'] = e]
        BY <1>3, <2>1, Drawing DEF Reserve
      <3> HIDE DEF e
      <3> QED
        BY <3>1, <3>2 DEF Selections
    <2> QED
      BY <1>3, <2>1 DEF Reserve
  <1>4. ASSUME NEW t \in Tasks, GrantExport(t) PROVE ExportsOK'
    BY <1>4, Staging, Ending, Going
       DEF GrantExport, Staged, Ended, Moved
  <1>5. ASSUME NEW t \in Tasks, Unpick(t) PROVE ExportsOK'
    BY <1>5, Ending
       DEF Unpick, Ended
  <1>6. ASSUME NEW t \in Tasks, RunExport(t) PROVE ExportsOK'
    BY <1>6, Staging, Going
       DEF RunExport, Granted, Staged, Moved
  <1>7. ASSUME NEW t \in Tasks, Cleanup(t) PROVE ExportsOK'
    BY <1>7, Ending
       DEF Cleanup, Ended
  <1>8. CASE CloseRevoke
    BY <1>8, Revocation
       DEF CloseRevoke, OfWindow, Present, Revoked
  <1>9. ASSUME NEW x \in Selections, CancelExport(x) PROVE ExportsOK'
    BY <1>9, Cancelling
       DEF CancelExport, Granted, Staged
  <1>10. ASSUME NEW x \in Selections, AgeExport(x) PROVE ExportsOK'
    BY <1>10
       DEF AgeExport, Granted
  <1>11. CASE UNCHANGED exportVars
    BY <1>11
  <1> QED
    BY Frame, <1>11, <1>1, <1>2, <1>3, <1>4, <1>5, <1>6, <1>7, <1>8, <1>9, <1>10
       DEF ExportWork

\* The listings, the pickers and the root tokens keep their types.
LEMMA RootsStep ==
  ASSUME ReadsOK, ReadsTyped, ExportsOK, RootsOK, TasksOK, TokenInv, [Next]_vars
  PROVE  RootsOK'
  <1> USE Names, Counting, Drawn, StepNames DEF RootsOK, Tokenless, Selecting, vars,
      closeVars, readVars, exportVars, rootVars, ghosts, At
  <1>1. ASSUME NEW t \in Tasks, EndListing(t) PROVE RootsOK'
    BY <1>1, Ending
       DEF EndListing, Ended
  <1>2. ASSUME NEW t \in Tasks, EndPick(t) PROVE RootsOK'
    <2>1. [window |-> task[t].window] \in Root
      BY <1>2 DEF EndPick, Root
    <2>2. 0 \in 0 .. MaxPickers
      BY Bounds
    <2> QED
      BY <1>2, <2>1, <2>2 DEF EndPick
  <1>3. ASSUME NEW t \in Tasks, NEW w \in Windows, BeginListing(t, w) PROVE RootsOK'
    BY <1>3, Beginning
       DEF BeginListing, Begun
  <1>4. ASSUME NEW t \in Tasks, NEW w \in Windows, BeginPick(t, w) PROVE RootsOK'
    <2>1. picked' = picked + 1 /\ picked' \in Pickers
      BY <1>4, Drawing DEF BeginPick
    <2> QED
      BY <1>4, <2>1 DEF BeginPick, Pickers
  <1>5. ASSUME NEW w \in Windows, CloseEvent(w) PROVE RootsOK'
    <2>1. 0 \in 0 .. MaxPickers
      BY Bounds
    <2> QED
      BY <1>5, <2>1 DEF CloseEvent
  <1>6. ASSUME NEW p \in Pickers, ConsumeRoot(p) PROVE RootsOK'
    BY <1>6
       DEF ConsumeRoot, Present
  <1>7. CASE UNCHANGED <<listings, rootVars>>
    BY <1>7
  <1> QED
    BY Frame, <1>7, <1>1, <1>2, <1>3, <1>4, <1>5, <1>6
       DEF PickWork

\* What the model remembers of revocations and closes keeps its type.
LEMMA GhostsStep ==
  ASSUME GhostsOK, ReadsOK, ReadsTyped, ExportsOK, RootsOK, TasksOK, TokenInv, [Next]_vars
  PROVE  GhostsOK'
  <1> USE Names, Counting, Drawn, StepNames DEF GhostsOK, Tokenless, Selecting, vars,
      closeVars, readVars, exportVars, rootVars, ghosts, At
  <1>1. ASSUME NEW t \in Tasks, RevokeReplaced(t) PROVE GhostsOK'
    BY <1>1, Renumbering, Revocation
       DEF RevokeReplaced, RevokeFor, Present, Moved, Revoked
  <1>2. ASSUME NEW t \in Tasks, RevokeClosed(t) PROVE GhostsOK'
    BY <1>2, Ending, Revocation
       DEF RevokeClosed, RevokeFor, Present, Ended, Revoked
  <1>3. ASSUME NEW w \in Windows, CloseEvent(w) PROVE GhostsOK'
    BY <1>3
       DEF CloseEvent, OfWindow, Present
  <1>4. CASE UNCHANGED ghosts
    BY <1>4
  <1> QED
    BY Frame, <1>4, <1>1, <1>2, <1>3
       DEF GhostWork

\* The commands in progress keep their type: every step hands the next one what
\* it needs.
LEMMA TasksStep ==
  ASSUME ReadsOK, ReadsTyped, ExportsOK, RootsOK, TasksOK, TokenInv, [Next]_vars
  PROVE  TasksOK'
  <1> USE Names, Counting, Drawn, StepNames, Drawing, GrantFields, ExportFields DEF
      Tokenless, Selecting, vars, closeVars, readVars, exportVars, rootVars, ghosts, At
  <1>1. ASSUME NEW t \in Tasks, NEW w \in Windows, NEW r \in Runs, BeginOpen(t, w, r)
        PROVE  TasksOK'
    <2>1. CASE OpenAdmitted(w, r)
      <3>1. opened' \in Opens /\ Begin(t, "open", w, opened', 0)
        BY <1>1, <2>1, Drawing DEF BeginOpen
      <3> QED
        BY <3>1, Beginning DEF Begun
    <2> QED
      BY <1>1, <2>1 DEF BeginOpen, TasksOK
  <1>2. ASSUME NEW t \in Tasks, Issue(t) PROVE TasksOK'
    <2>1. CASE Goto(t, "issued")
      BY <1>2, <2>1, Going DEF Issue, Moved
    <2>2. ASSUME NEW p \in Opens, Renumber(t, "replace", p) PROVE TasksOK'
      BY <1>2, <2>2, Renumbering DEF Issue, Moved
    <2> QED
      BY <1>2, <2>1, <2>2, Pruning DEF Issue, Replaced, Present
  <1>3. ASSUME NEW t \in Tasks, RefuseOpen(t) PROVE TasksOK'
    BY <1>3, Pruning, Going
       DEF RefuseOpen, Moved
  <1>4. ASSUME NEW t \in Tasks, DropOpen(t) PROVE TasksOK'
    BY <1>4, Ending
       DEF DropOpen, Ended
  <1>5. ASSUME NEW t \in Tasks, RevokeReplaced(t) PROVE TasksOK'
    BY <1>5, Renumbering, Revocation
       DEF RevokeReplaced, RevokeFor, Present, Moved, Revoked
  <1>6. ASSUME NEW t \in Tasks, BeginSummary(t) PROVE TasksOK'
    BY <1>6, TakingLease, Going, Forgetting
       DEF BeginSummary, Readable, Expired, Authorised, OfWindow, Present, Remade, Moved, Lost
  <1>7. ASSUME NEW t \in Tasks, CheckOpened(t) PROVE TasksOK'
    BY <1>7, Ending, Going
       DEF CheckOpened, Ended, Moved
  <1>8. ASSUME NEW t \in Tasks, CloseOpened(t) PROVE TasksOK'
    BY <1>8, Beginning, Ending
       DEF CloseOpened, CloseRead, OfWindow, Present, Begun, Ended
  <1>9. ASSUME NEW t \in Tasks, FinishRead(t) PROVE TasksOK'
    BY <1>9, Going, Forgetting, Unleasing, Ending
       DEF FinishRead, Finish, AfterRead, Moved, Lost, Remade, Ended
  <1>10. ASSUME NEW t \in Tasks, RevokeLease(t) PROVE TasksOK'
    BY <1>10, Forgetting, Going, Ending
       DEF RevokeLease, Lost, Moved, Ended
  <1>11. ASSUME NEW t \in Tasks, RevokeClosed(t) PROVE TasksOK'
    BY <1>11, Ending, Revocation
       DEF RevokeClosed, RevokeFor, Present, Ended, Revoked
  <1>12. ASSUME NEW t \in Tasks, Reserve(t) PROVE TasksOK'
    BY <1>12, Renumbering, Ending
       DEF Reserve, Present, OfWindow, Moved, Ended
  <1>13. ASSUME NEW t \in Tasks, Validate(t) PROVE TasksOK'
    BY <1>13, Going, Forgetting
       DEF Validate, Authorised, Expired, OfWindow, Present, Moved, Lost
  <1>14. ASSUME NEW t \in Tasks, GrantExport(t) PROVE TasksOK'
    BY <1>14, Staging, Ending, Going
       DEF GrantExport, Staged, Ended, Moved
  <1>15. ASSUME NEW t \in Tasks, Unpick(t) PROVE TasksOK'
    BY <1>15, Ending
       DEF Unpick, Ended
  <1>16. ASSUME NEW t \in Tasks, LeaseExport(t) PROVE TasksOK'
    BY <1>16, TakingLease, Going, Forgetting, Ending
       DEF LeaseExport, Readable, Expired, Authorised, OfWindow, Present, Remade, Moved,
           Lost, Ended
  <1>17. ASSUME NEW t \in Tasks, RunExport(t) PROVE TasksOK'
    BY <1>17, Staging, Going
       DEF RunExport, Granted, Staged, Moved
  <1>18. ASSUME NEW t \in Tasks, EndWriting(t) PROVE TasksOK'
    BY <1>18, Going, Forgetting, Unleasing
       DEF EndWriting, Finish, Moved, Lost, Remade
  <1>19. ASSUME NEW t \in Tasks, DropLease(t) PROVE TasksOK'
    BY <1>19, Ending, Going, Unleasing
       DEF DropLease, Ended, Moved, Remade
  <1>20. ASSUME NEW t \in Tasks, Cleanup(t) PROVE TasksOK'
    BY <1>20, Ending
       DEF Cleanup, Ended
  <1>21. ASSUME NEW t \in Tasks, EndListing(t) PROVE TasksOK'
    BY <1>21, Ending
       DEF EndListing, Ended
  <1>22. ASSUME NEW t \in Tasks, EndPick(t) PROVE TasksOK'
    BY <1>22, Ending
       DEF EndPick, Awaited, Present, Ended
  <1>23. ASSUME NEW t \in Tasks, NEW s \in Opens, BeginRead(t, s) PROVE TasksOK'
    <2>1. CASE task' = task
      BY <2>1 DEF TasksOK
    <2>2. CASE task' # task
      BY <1>23, <2>2, Beginning DEF BeginRead, Readable, Authorised, OfWindow, Present, Begun
    <2> QED
      BY <2>1, <2>2
  <1>24. ASSUME NEW t \in Tasks, NEW s \in Opens, CloseToken(t, s) PROVE TasksOK'
    BY <1>24, Beginning, Ending
       DEF CloseToken, Present, CloseRead, OfWindow, Begun, Ended
  <1>25. ASSUME NEW t \in Tasks, NEW s \in Opens, BeginSelection(t, s) PROVE TasksOK'
    <2>1. CASE task' = task
      BY <2>1 DEF TasksOK
    <2>2. CASE task' # task
      BY <1>25, <2>2, Beginning DEF BeginSelection, Authorised, OfWindow, Present, Begun
    <2> QED
      BY <2>1, <2>2
  <1>26. ASSUME NEW t \in Tasks, NEW x \in Selections, BeginExport(t, x) PROVE TasksOK'
    BY <1>26, Beginning
       DEF BeginExport, Granted, Begun
  <1>27. ASSUME NEW t \in Tasks, NEW w \in Windows, BeginListing(t, w) PROVE TasksOK'
    BY <1>27, Beginning
       DEF BeginListing, Begun
  <1>28. ASSUME NEW t \in Tasks, NEW w \in Windows, BeginPick(t, w) PROVE TasksOK'
    BY <1>28, Beginning
       DEF BeginPick, Present, Begun
  <1>29. ASSUME NEW s \in Opens, DropLater(s) PROVE TasksOK'
    BY <1>29 DEF DropLater, TasksOK
  <1>30. ASSUME NEW s \in Opens, ReleaseLater(s) PROVE TasksOK'
    BY <1>30 DEF ReleaseLater, TasksOK
  <1>31. ASSUME NEW w \in Windows, RemoveLater(w) PROVE TasksOK'
    BY <1>31 DEF RemoveLater, TasksOK
  <1>32. ASSUME NEW w \in Windows, CloseEvent(w) PROVE TasksOK'
    BY <1>32 DEF CloseEvent, TasksOK
  <1>33. CASE CloseMark
    BY <1>33 DEF CloseMark, TasksOK
  <1>34. CASE CloseRevoke
    BY <1>34 DEF CloseRevoke, TasksOK
  <1>35. CASE CloseRemove
    BY <1>35 DEF CloseRemove, TasksOK
  <1>36. ASSUME NEW x \in Selections, CancelExport(x) PROVE TasksOK'
    BY <1>36 DEF CancelExport, TasksOK
  <1>37. ASSUME NEW p \in Pickers, ConsumeRoot(p) PROVE TasksOK'
    BY <1>37 DEF ConsumeRoot, TasksOK
  <1>38. ASSUME NEW s \in Opens, AgeRead(s) PROVE TasksOK'
    BY <1>38 DEF AgeRead, TasksOK
  <1>39. ASSUME NEW x \in Selections, AgeExport(x) PROVE TasksOK'
    BY <1>39 DEF AgeExport, TasksOK
  <1>40. CASE UNCHANGED vars
    BY <1>40 DEF TasksOK
  <1> QED
    BY <1>1, <1>2, <1>3, <1>4, <1>5, <1>6, <1>7, <1>8, <1>9, <1>10, <1>11, <1>12, <1>13,
       <1>14, <1>15, <1>16, <1>17, <1>18, <1>19, <1>20, <1>21, <1>22, <1>23, <1>24, <1>25,
       <1>26, <1>27, <1>28, <1>29, <1>30, <1>31, <1>32, <1>33, <1>34, <1>35, <1>36, <1>37,
       <1>38, <1>39, <1>40
       DEF Next, OpenStep, ReadStep, ExportStep, RootStep, Spawned, WindowStep, Clock

\* A token comes to the table of result tokens only when the opening that drew
\* it issues it (issue_result_read_at).
LEMMA NoneNew ==
  ASSUME ReadsOK, ReadsTyped, ExportsOK, RootsOK, TasksOK, TokenInv, NEW k \in Opens,
         reads[k] = None, \A t \in Tasks : Issue(t) => task[t].token # k, [Next]_vars
  PROVE  reads'[k] = None
  <1> USE Names, Counting, Drawn DEF Tokenless, Selecting, ReadsTyped, vars, closeVars,
      readVars, exportVars, rootVars, ghosts, At
  <1>1. ASSUME NEW t \in Tasks, NEW w \in Windows, NEW r \in Runs, BeginOpen(t, w, r)
        PROVE  reads'[k] = None
    BY <1>1, Pruning, Beginning
       DEF BeginOpen, Present, SameRun, Replaced, OfWindow, Begun
  <1>2. ASSUME NEW t \in Tasks, Issue(t) PROVE reads'[k] = None
    BY <1>2, Pruning, Going, Renumbering
       DEF Issue, Replaced, Present, SameRun, OfWindow, Moved
  <1>3. ASSUME NEW t \in Tasks, RefuseOpen(t) PROVE reads'[k] = None
    BY <1>3, Pruning, Going
       DEF RefuseOpen, Moved
  <1>4. ASSUME NEW t \in Tasks, BeginSummary(t) PROVE reads'[k] = None
    BY <1>4, TakingLease, Going, Forgetting
       DEF BeginSummary, Readable, Expired, Authorised, OfWindow, Present, Remade, Moved, Lost
  <1>5. ASSUME NEW t \in Tasks, CloseOpened(t) PROVE reads'[k] = None
    BY <1>5, Beginning, Ending
       DEF CloseOpened, CloseRead, OfWindow, Present, Begun, Ended
  <1>6. ASSUME NEW t \in Tasks, FinishRead(t) PROVE reads'[k] = None
    BY <1>6, Going, Forgetting, Unleasing, Ending
       DEF FinishRead, Finish, AfterRead, Moved, Lost, Remade, Ended
  <1>7. ASSUME NEW t \in Tasks, RevokeLease(t) PROVE reads'[k] = None
    BY <1>7, Forgetting, Going, Ending
       DEF RevokeLease, Lost, Moved, Ended
  <1>8. ASSUME NEW t \in Tasks, Validate(t) PROVE reads'[k] = None
    BY <1>8, Going, Forgetting
       DEF Validate, Authorised, Expired, OfWindow, Present, Moved, Lost
  <1>9. ASSUME NEW t \in Tasks, LeaseExport(t) PROVE reads'[k] = None
    BY <1>9, TakingLease, Going, Forgetting, Ending
       DEF LeaseExport, Readable, Expired, Authorised, OfWindow, Present, Remade, Moved,
           Lost, Ended
  <1>10. ASSUME NEW t \in Tasks, EndWriting(t) PROVE reads'[k] = None
    BY <1>10, Going, Forgetting, Unleasing
       DEF EndWriting, Finish, Moved, Lost, Remade
  <1>11. ASSUME NEW t \in Tasks, DropLease(t) PROVE reads'[k] = None
    BY <1>11, Ending, Going, Unleasing
       DEF DropLease, Ended, Moved, Remade
  <1>12. ASSUME NEW t \in Tasks, NEW s \in Opens, BeginRead(t, s) PROVE reads'[k] = None
    BY <1>12, TakingLease, Beginning, Forgetting
       DEF BeginRead, Present, Readable, Expired, Authorised, OfWindow, Remade, Begun, Lost
  <1>13. ASSUME NEW t \in Tasks, NEW s \in Opens, CloseToken(t, s) PROVE reads'[k] = None
    BY <1>13, Beginning, Ending
       DEF CloseToken, Present, CloseRead, OfWindow, Begun, Ended
  <1>14. ASSUME NEW t \in Tasks, NEW s \in Opens, BeginSelection(t, s) PROVE reads'[k] = None
    BY <1>14, Beginning, Forgetting
       DEF BeginSelection, Present, Authorised, Expired, OfWindow, Begun, Lost
  <1>15. ASSUME NEW s \in Opens, ReleaseLater(s) PROVE reads'[k] = None
    BY <1>15, Unleasing
       DEF ReleaseLater, Remade
  <1>16. ASSUME NEW w \in Windows, RemoveLater(w) PROVE reads'[k] = None
    BY <1>16
       DEF RemoveLater, RemoveFor, OfWindow, Present
  <1>17. CASE CloseRemove
    BY <1>17
       DEF CloseRemove, RemoveFor, OfWindow, Present
  <1>18. ASSUME NEW s \in Opens, AgeRead(s) PROVE reads'[k] = None
    BY <1>18, Ageing DEF Remade, ReadsTyped
  <1>19. CASE UNCHANGED reads
    BY <1>19
  <1> QED
    BY Frame, <1>19, <1>1, <1>2, <1>3, <1>4, <1>5, <1>6, <1>7, <1>8, <1>9, <1>10, <1>11,
       <1>12, <1>13, 
       <1>14, <1>15, <1>16, <1>17, <1>18
       DEF ReadWork

\* A step of one command changes no other command.
LEMMA OthersStay ==
  ASSUME ReadsOK, ReadsTyped, ExportsOK, RootsOK, TasksOK, TokenInv, NEW t \in Tasks, Acts(t)
  PROVE  \A u \in Tasks \ {t} : task'[u] = task[u]
  <1> USE Names, Counting, Drawn, StepNames, Drawing, GrantFields, ExportFields DEF
      Tokenless, Selecting, vars, closeVars, readVars, exportVars, rootVars, ghosts, At
  <1>1. ASSUME NEW w \in Windows, NEW r \in Runs, BeginOpen(t, w, r)
        PROVE  \A u \in Tasks \ {t} : task'[u] = task[u]
    BY <1>1, Pruning, Beginning
       DEF BeginOpen, Present, SameRun, Replaced, OfWindow, Begun
  <1>2. CASE Issue(t)
    BY <1>2, Pruning, Going, Renumbering
       DEF Issue, Replaced, Present, SameRun, OfWindow, Moved
  <1>3. CASE RefuseOpen(t)
    BY <1>3, Pruning, Going
       DEF RefuseOpen, Moved
  <1>4. CASE DropOpen(t)
    BY <1>4, Ending
       DEF DropOpen, Ended
  <1>5. CASE RevokeReplaced(t)
    BY <1>5, Renumbering, Revocation
       DEF RevokeReplaced, RevokeFor, Present, Moved, Revoked
  <1>6. CASE BeginSummary(t)
    BY <1>6, TakingLease, Going, Forgetting
       DEF BeginSummary, Readable, Expired, Authorised, OfWindow, Present, Remade, Moved, Lost
  <1>7. CASE CheckOpened(t)
    BY <1>7, Ending, Going
       DEF CheckOpened, Ended, Moved
  <1>8. CASE CloseOpened(t)
    BY <1>8, Beginning, Ending
       DEF CloseOpened, CloseRead, OfWindow, Present, Begun, Ended
  <1>9. CASE FinishRead(t)
    BY <1>9, Going, Forgetting, Unleasing, Ending
       DEF FinishRead, Finish, AfterRead, Moved, Lost, Remade, Ended
  <1>10. CASE RevokeLease(t)
    BY <1>10, Forgetting, Going, Ending
       DEF RevokeLease, Lost, Moved, Ended
  <1>11. CASE RevokeClosed(t)
    BY <1>11, Ending, Revocation
       DEF RevokeClosed, RevokeFor, Present, Ended, Revoked
  <1>12. CASE Reserve(t)
    BY <1>12, Renumbering, Ending
       DEF Reserve, Present, OfWindow, Moved, Ended
  <1>13. CASE Validate(t)
    BY <1>13, Going, Forgetting
       DEF Validate, Authorised, Expired, OfWindow, Present, Moved, Lost
  <1>14. CASE GrantExport(t)
    BY <1>14, Staging, Ending, Going
       DEF GrantExport, Staged, Ended, Moved
  <1>15. CASE Unpick(t)
    BY <1>15, Ending
       DEF Unpick, Ended
  <1>16. CASE LeaseExport(t)
    BY <1>16, TakingLease, Going, Forgetting, Ending
       DEF LeaseExport, Readable, Expired, Authorised, OfWindow, Present, Remade, Moved,
           Lost, Ended
  <1>17. CASE RunExport(t)
    BY <1>17, Staging, Going
       DEF RunExport, Granted, Staged, Moved
  <1>18. CASE EndWriting(t)
    BY <1>18, Going, Forgetting, Unleasing
       DEF EndWriting, Finish, Moved, Lost, Remade
  <1>19. CASE DropLease(t)
    BY <1>19, Ending, Going, Unleasing
       DEF DropLease, Ended, Moved, Remade
  <1>20. CASE Cleanup(t)
    BY <1>20, Ending
       DEF Cleanup, Ended
  <1>21. CASE EndListing(t)
    BY <1>21, Ending
       DEF EndListing, Ended
  <1>22. CASE EndPick(t)
    BY <1>22, Ending
       DEF EndPick, Awaited, Present, Ended
  <1>23. ASSUME NEW s \in Opens, BeginRead(t, s)
         PROVE  \A u \in Tasks \ {t} : task'[u] = task[u]
    BY <1>23, TakingLease, Beginning, Forgetting
       DEF BeginRead, Present, Readable, Expired, Authorised, OfWindow, Remade, Begun, Lost
  <1>24. ASSUME NEW s \in Opens, CloseToken(t, s)
         PROVE  \A u \in Tasks \ {t} : task'[u] = task[u]
    BY <1>24, Beginning, Ending
       DEF CloseToken, Present, CloseRead, OfWindow, Begun, Ended
  <1>25. ASSUME NEW s \in Opens, BeginSelection(t, s)
         PROVE  \A u \in Tasks \ {t} : task'[u] = task[u]
    BY <1>25, Beginning, Forgetting
       DEF BeginSelection, Present, Authorised, Expired, OfWindow, Begun, Lost
  <1>26. ASSUME NEW x \in Selections, BeginExport(t, x)
         PROVE  \A u \in Tasks \ {t} : task'[u] = task[u]
    BY <1>26, Beginning
       DEF BeginExport, Granted, Begun
  <1>27. ASSUME NEW w \in Windows, BeginListing(t, w)
         PROVE  \A u \in Tasks \ {t} : task'[u] = task[u]
    BY <1>27, Beginning
       DEF BeginListing, Begun
  <1>28. ASSUME NEW w \in Windows, BeginPick(t, w)
         PROVE  \A u \in Tasks \ {t} : task'[u] = task[u]
    BY <1>28, Beginning
       DEF BeginPick, Present, Begun
  <1> QED
    BY <1>1, <1>2, <1>3, <1>4, <1>5, <1>6, <1>7, <1>8, <1>9, <1>10, <1>11, <1>12, <1>13,
       <1>14, <1>15, <1>16, <1>17, <1>18, <1>19, <1>20, <1>21, <1>22, <1>23, <1>24, <1>25,
       <1>26, <1>27, <1>28
       DEF Acts, OpenStep, ReadStep, ExportStep, RootStep

\* A step that is of no command changes no command.
LEMMA Steps ==
  ASSUME [Next]_vars
  PROVE  (\E t \in Tasks : Acts(t)) \/ task' = task
  <1> USE DEF vars, closeVars, readVars, exportVars, rootVars, ghosts
  <1>1. ASSUME Spawned PROVE task' = task
    BY <1>1 DEF Spawned, DropLater, ReleaseLater, RemoveLater
  <1>2. ASSUME WindowStep PROVE task' = task
    BY <1>2 DEF WindowStep, CloseEvent, CloseMark, CloseRevoke, CloseRemove, CancelExport,
       ConsumeRoot
  <1>3. ASSUME Clock PROVE task' = task
    BY <1>3 DEF Clock, AgeRead, AgeExport
  <1> QED
    BY <1>1, <1>2, <1>3 DEF Next, Acts

\* A command changes by steps of its own only.
LEMMA StillTask ==
  ASSUME ReadsOK, ReadsTyped, ExportsOK, RootsOK, TasksOK, TokenInv, [Next]_vars,
         NEW q \in Tasks, ~Acts(q)
  PROVE  task'[q] = task[q]
  BY Steps, OthersStay

\* No number is drawn twice: the sequences of the registries only grow.
LEMMA Onward ==
  ASSUME ReadsOK, ReadsTyped, ExportsOK, RootsOK, TasksOK, TokenInv, [Next]_vars
  PROVE  opened <= opened' /\ selected <= selected' /\ picked <= picked'
  <1>1. ASSUME PendingWork PROVE opened <= opened'
    <2>1. ASSUME NEW t \in Tasks, NEW w \in Windows, NEW r \in Runs, BeginOpen(t, w, r)
          PROVE  opened <= opened'
      BY <2>1, Drawing DEF BeginOpen
    <2>2. ASSUME NEW t \in Tasks, Issue(t) \/ DropOpen(t) PROVE opened <= opened'
      BY <2>2, Drawing DEF Issue, DropOpen
    <2> QED
      BY <1>1, <2>1, <2>2, Drawing DEF PendingWork, DropLater, CloseRemove, RemoveLater
  <1>2. ASSUME ExportWork PROVE selected <= selected'
    BY <1>2, Drawing DEF ExportWork, RevokeReplaced, RevokeClosed, Reserve, GrantExport,
       Unpick, 
                         RunExport, Cleanup, CancelExport, CloseRevoke, AgeExport
  <1>3. ASSUME PickWork PROVE picked <= picked'
    <2>1. ASSUME NEW t \in Tasks, NEW w \in Windows, BeginPick(t, w) \/ BeginListing(t, w)
          PROVE  picked <= picked'
      BY <2>1, Drawing DEF BeginPick, BeginListing, rootVars
    <2>2. ASSUME NEW t \in Tasks, EndPick(t) \/ EndListing(t) PROVE picked <= picked'
      BY <2>2, Drawing DEF EndPick, EndListing, rootVars
    <2> QED
      BY <1>3, <2>1, <2>2, Drawing DEF PickWork, CloseEvent, ConsumeRoot
  <1> QED
    BY <1>1, <1>2, <1>3, Frame, Drawing DEF exportVars, rootVars

\* A step of a command leaves it with numbers that were drawn, and what it is
\* about to revoke for is gone from the table.
LEMMA DrawnAct ==
  ASSUME ReadsOK, ReadsTyped, ExportsOK, RootsOK, TasksOK, TokenInv, NEW t \in Tasks, Acts(t),
         NewInv, TaskDrawn(t)
  PROVE  TaskDrawn(t)'
  <1> USE Names, Counting, Drawn, StepNames, Drawing, GrantFields, ExportFields DEF
      TaskDrawn, Tokenless, Selecting, vars, closeVars, readVars, exportVars, rootVars,
      ghosts, At
  <1>1. ASSUME NEW w \in Windows, NEW r \in Runs, BeginOpen(t, w, r) PROVE TaskDrawn(t)'
    BY <1>1, Pruning, Beginning
       DEF BeginOpen, Present, SameRun, Replaced, OfWindow, Begun
  <1>2. CASE Issue(t)
    <2>1. CASE Goto(t, "issued")
      BY <1>2, <2>1, Going DEF Issue, Moved
    <2>2. ASSUME NEW p \in Opens, p \in Replaced(Fresh(reads), task[t].window, pending[task[t].token].run),
                 Renumber(t, "replace", p)
          PROVE  TaskDrawn(t)'
      <3>1. reads[p] # None /\ p # task[t].token
        BY <2>2, <1>2, Pruning DEF Replaced, Present, Issue, NewInv, TokenFresh
      <3>2. p \in 1 .. opened
        BY <3>1 DEF TokenInv, ReadDrawn
      <3>3. reads'[p] = None /\ opened' = opened
        BY <1>2, <2>2, <3>1 DEF Issue
      <3> QED
        BY <1>2, <2>2, <3>1, <3>2, <3>3, Renumbering DEF Moved, Issue
    <2> QED
      BY <1>2, <2>1, <2>2, Pruning DEF Issue, Replaced, Present
  <1>3. CASE RefuseOpen(t)
    BY <1>3, Pruning, Going
       DEF RefuseOpen, Moved
  <1>4. CASE DropOpen(t)
    BY <1>4, Ending
       DEF DropOpen, Ended
  <1>5. CASE RevokeReplaced(t)
    BY <1>5, Renumbering, Revocation
       DEF RevokeReplaced, RevokeFor, Present, Moved, Revoked
  <1>6. CASE BeginSummary(t)
    BY <1>6, TakingLease, Going, Forgetting
       DEF BeginSummary, Readable, Expired, Authorised, OfWindow, Present, Remade, Moved, Lost
  <1>7. CASE CheckOpened(t)
    BY <1>7, Ending, Going
       DEF CheckOpened, Ended, Moved
  <1>8. CASE CloseOpened(t)
    BY <1>8, Beginning, Ending
       DEF CloseOpened, CloseRead, OfWindow, Present, Begun, Ended
  <1>9. CASE FinishRead(t)
    BY <1>9, Going, Forgetting, Unleasing, Ending
       DEF FinishRead, Finish, AfterRead, Moved, Lost, Remade, Ended
  <1>10. CASE RevokeLease(t)
    BY <1>10, Forgetting, Going, Ending
       DEF RevokeLease, Lost, Moved, Ended
  <1>11. CASE RevokeClosed(t)
    BY <1>11, Ending, Revocation
       DEF RevokeClosed, RevokeFor, Present, Ended, Revoked
  <1>12. CASE Reserve(t)
    BY <1>12, Renumbering, Ending
       DEF Reserve, Present, OfWindow, Moved, Ended
  <1>13. CASE Validate(t)
    BY <1>13, Going, Forgetting
       DEF Validate, Authorised, Expired, OfWindow, Present, Moved, Lost
  <1>14. CASE GrantExport(t)
    BY <1>14, Staging, Ending, Going
       DEF GrantExport, Staged, Ended, Moved
  <1>15. CASE Unpick(t)
    BY <1>15, Ending
       DEF Unpick, Ended
  <1>16. CASE LeaseExport(t)
    BY <1>16, TakingLease, Going, Forgetting, Ending
       DEF LeaseExport, Readable, Expired, Authorised, OfWindow, Present, Remade, Moved,
           Lost, Ended
  <1>17. CASE RunExport(t)
    BY <1>17, Staging, Going
       DEF RunExport, Granted, Staged, Moved
  <1>18. CASE EndWriting(t)
    BY <1>18, Going, Forgetting, Unleasing
       DEF EndWriting, Finish, Moved, Lost, Remade
  <1>19. CASE DropLease(t)
    BY <1>19, Ending, Going, Unleasing
       DEF DropLease, Ended, Moved, Remade
  <1>20. CASE Cleanup(t)
    BY <1>20, Ending
       DEF Cleanup, Ended
  <1>21. CASE EndListing(t)
    BY <1>21, Ending
       DEF EndListing, Ended
  <1>22. CASE EndPick(t)
    BY <1>22, Ending
       DEF EndPick, Awaited, Present, Ended
  <1>23. ASSUME NEW s \in Opens, BeginRead(t, s) PROVE TaskDrawn(t)'
    BY <1>23, TakingLease, Beginning, Forgetting
       DEF BeginRead, Present, Readable, Expired, Authorised, OfWindow, Remade, Begun, Lost,
           TokenInv, ReadDrawn
  <1>24. ASSUME NEW s \in Opens, CloseToken(t, s) PROVE TaskDrawn(t)'
    BY <1>24, Beginning, Ending
       DEF CloseToken, Present, CloseRead, OfWindow, Begun, Ended, TokenInv, ReadDrawn
  <1>25. ASSUME NEW s \in Opens, BeginSelection(t, s) PROVE TaskDrawn(t)'
    BY <1>25, Beginning, Forgetting
       DEF BeginSelection, Present, Authorised, Expired, OfWindow, Begun, Lost, TokenInv,
           ReadDrawn
  <1>26. ASSUME NEW x \in Selections, BeginExport(t, x) PROVE TaskDrawn(t)'
    <2>1. exports[x] # None /\ exports[x].token \in Opens /\ exports[x].token <= opened /\ x <= selected
      BY <1>26, ExportFields DEF BeginExport, Granted, TokenInv, ExportDrawn
    <2>2. Begun(t, "exporting", exports[x].window, exports[x].token, x)
      BY <1>26, <2>1, Beginning, ExportFields DEF BeginExport
    <2> QED
      BY <1>26, <2>1, <2>2 DEF BeginExport, Begun
  <1>27. ASSUME NEW w \in Windows, BeginListing(t, w) PROVE TaskDrawn(t)'
    BY <1>27, Beginning
       DEF BeginListing, Begun
  <1>28. ASSUME NEW w \in Windows, BeginPick(t, w) PROVE TaskDrawn(t)'
    BY <1>28, Beginning
       DEF BeginPick, Present, Begun
  <1> QED
    BY <1>1, <1>2, <1>3, <1>4, <1>5, <1>6, <1>7, <1>8, <1>9, <1>10, <1>11, <1>12, <1>13,
       <1>14, <1>15, <1>16, <1>17, <1>18, <1>19, <1>20, <1>21, <1>22, <1>23, <1>24, <1>25,
       <1>26, <1>27, <1>28
       DEF Acts, OpenStep, ReadStep, ExportStep, RootStep

\* A command that is about to revoke the exports of a token finds it gone from
\* the table, whatever came in between: nobody issues it again.
LEMMA DrawnStep ==
  ASSUME ReadsOK, ReadsTyped, ExportsOK, RootsOK, TasksOK, TokenInv, NewInv, ReadsOK',
         ExportsOK', RootsOK', NEW q \in Tasks, [Next]_vars
  PROVE  TaskDrawn(q)'
  <1>1. CASE Acts(q)
    BY <1>1, DrawnAct DEF TokenInv
  <1>2. CASE ~Acts(q)
    <2>1. task'[q] = task[q]
      BY <1>2, StillTask
    <2>2. ASSUME NEW k \in Opens, reads[k] = None, task[q] # None,
                 \/ task[q].pc = "replace" /\ k = task[q].number
                 \/ task[q].pc = "revoke" /\ k = task[q].token
          PROVE  reads'[k] = None
      <3>1. ASSUME NEW t \in Tasks, Issue(t) PROVE task[t].token # k
        <4>1. t # q /\ At(t, "open")
          BY <1>2, <3>1 DEF Acts, OpenStep, Issue
        <4> QED
          BY <2>2, <4>1 DEF NewInv, TokenFresh, Apart
      <3> QED
        BY <2>2, <3>1, NoneNew
    <2>3. TaskDrawn(q)
      BY DEF TokenInv
    <2>4. task[q] # None => /\ task[q].pc = "replace" => task[q].number \in Opens
                            /\ task[q].pc = "revoke" => task[q].token \in Opens
      BY Drawn DEF Tokenless
    <2>5. opened \in Nat /\ opened' \in Nat /\ selected \in Nat /\ selected' \in Nat /\ picked \in Nat /\ picked' \in Nat
      BY Bounds DEF ReadsOK, ExportsOK, RootsOK
    <2>6. 0 .. opened \subseteq 0 .. opened' /\ 1 .. opened \subseteq 1 .. opened'
          /\ 1 .. selected \subseteq 1 .. selected' /\ 1 .. picked \subseteq 1 .. picked'
      BY <2>5, Onward
    <2>7. task[q] # None => /\ task[q].pc = "replace" => reads'[task[q].number] = None
                            /\ task[q].pc = "revoke" => reads'[task[q].token] = None
      <3>1. ASSUME task[q] # None, task[q].pc = "replace" PROVE reads'[task[q].number] = None
        BY <2>2, <2>3, <2>4, <3>1 DEF TaskDrawn
      <3>2. ASSUME task[q] # None, task[q].pc = "revoke" PROVE reads'[task[q].token] = None
        BY <2>2, <2>3, <2>4, <3>2 DEF TaskDrawn
      <3> QED
        BY <3>1, <3>2
    <2> QED
      BY <2>1, <2>3, <2>6, <2>7 DEF TaskDrawn
  <1> QED
    BY <1>1, <1>2

\* Exports are revoked for a token only by the command that removed or replaced
\* it, once it is gone.
LEMMA RevokedMove ==
  ASSUME ReadsOK, ReadsTyped, ExportsOK, RootsOK, TasksOK, TokenInv, NEW k \in revoked',
         [Next]_vars
  PROVE  RevokedFrom(k)
  <1> USE Names, Counting, Drawn, StepNames DEF Tokenless, Selecting, GivesUp, RevokedFrom,
      vars, closeVars, readVars, exportVars, rootVars, ghosts, At
  <1>1. ASSUME NEW t \in Tasks, RevokeReplaced(t) PROVE RevokedFrom(k)
    <2>1. /\ task[t] # None /\ task[t].pc = "replace" /\ reads' = reads
          /\ revoked' = revoked \cup {task[t].number}
      BY <1>1 DEF RevokeReplaced, RevokeFor
    <2>2. task[t].number <= opened /\ reads[task[t].number] = None
      BY <2>1, Drawing DEF TokenInv, TaskDrawn
    <2> QED
      BY <2>1, <2>2
  <1>2. ASSUME NEW t \in Tasks, RevokeClosed(t) PROVE RevokedFrom(k)
    BY <1>2, Ending, Revocation
       DEF RevokeClosed, RevokeFor, Present, Ended, Revoked, TokenInv, TaskDrawn
  <1>3. ASSUME NEW w \in Windows, CloseEvent(w) PROVE RevokedFrom(k)
    BY <1>3
       DEF CloseEvent, OfWindow, Present
  <1>4. CASE UNCHANGED ghosts
    BY <1>4
  <1> QED
    BY Frame, <1>4, <1>1, <1>2, <1>3
       DEF GhostWork

\* A lease is left to a task of its own by the destructor of the command that
\* took it (ResultReadLeaseCleanup).
LEMMA ReleasingMove ==
  ASSUME ReadsOK, ReadsTyped, ExportsOK, RootsOK, TasksOK, TokenInv, NEW k \in releasing',
         [Next]_vars
  PROVE  ReleasedFrom(k)
  <1> USE Names, Counting, Drawn, StepNames DEF ReleasedFrom, vars, closeVars, readVars,
      exportVars, rootVars, ghosts, At
  <1>1. ASSUME NEW t \in Tasks, DropLease(t) PROVE ReleasedFrom(k)
    BY <1>1, Ending, Going, Unleasing
       DEF DropLease, Ended, Moved, Remade
  <1>2. ASSUME NEW s \in Opens, ReleaseLater(s) PROVE ReleasedFrom(k)
    BY <1>2, Unleasing
       DEF ReleaseLater, Remade
  <1>3. CASE UNCHANGED releasing
    BY <1>3
  <1> QED
    BY Frame, <1>3, <1>1, <1>2
       DEF ReleaseWork

\* A token in the table was drawn, and its exports were not revoked yet.
LEMMA ReadDrawnStep ==
  ASSUME ReadsOK, ReadsTyped, ExportsOK, RootsOK, TasksOK, TokenInv, NewInv, ReadsOK',
         NEW k \in Opens, [Next]_vars
  PROVE  ReadDrawn(k)'
  <1>1. opened \in Nat /\ opened' \in Nat /\ k \in Nat /\ opened <= opened'
    BY Bounds, Onward, Counting DEF ReadsOK
  <1>2. CASE reads[k] # None
    <2>1. k <= opened /\ k \notin revoked
      BY <1>2 DEF TokenInv, ReadDrawn
    <2>2. k \notin revoked'
      BY <1>2, <2>1, RevokedMove DEF RevokedFrom
    <2> QED
      BY <1>1, <2>1, <2>2 DEF ReadDrawn
  <1>3. CASE reads[k] = None
    <2>1. SUFFICES ASSUME reads'[k] # None PROVE ReadDrawn(k)'
      BY DEF ReadDrawn
    <2>2. PICK t \in Tasks : Issue(t) /\ task[t].token = k
      BY <1>3, <2>1, NoneNew
    <2>3. k <= opened /\ k \notin revoked
      BY <2>2 DEF TokenInv, TaskDrawn, NewInv, TokenFresh, Issue, At
    <2>4. revoked' = revoked
      BY <2>2 DEF Issue, ghosts
    <2> QED
      BY <1>1, <2>3, <2>4 DEF ReadDrawn
  <1> QED
    BY <1>2, <1>3

\* A step keeps the token and the window of an export, never takes back its
\* cancel flag, grants and runs it in order, or makes a new selection under the
\* next number.
LEMMA ExportsMove ==
  ASSUME ReadsOK, ReadsTyped, ExportsOK, RootsOK, TasksOK, TokenInv, NEW y \in Selections,
         [Next]_vars
  PROVE  ExportMove(y)
  <1> USE Names, Counting, Drawn, StepNames, ExportFields DEF ExportMove, Tokenless,
      Selecting, vars, closeVars, readVars, exportVars, rootVars, ghosts, At
  <1>1. ASSUME NEW t \in Tasks, RevokeReplaced(t) PROVE ExportMove(y)
    BY <1>1, Renumbering, Revocation
       DEF RevokeReplaced, RevokeFor, Present, Moved, Revoked
  <1>2. ASSUME NEW t \in Tasks, RevokeClosed(t) PROVE ExportMove(y)
    BY <1>2, Ending, Revocation
       DEF RevokeClosed, RevokeFor, Present, Ended, Revoked
  <1>3. ASSUME NEW t \in Tasks, Reserve(t) PROVE ExportMove(y)
    <2>1. CASE SelectionRoom(exports, task[t].window)
      <3> DEFINE e == [window |-> task[t].window, token |-> task[t].token, stage |-> "pending",
                       cancelled |-> FALSE]
      <3>1. selected' = selected + 1 /\ exports' = [exports EXCEPT ![selected'] = e] /\ selected' \in Selections
        BY <1>3, <2>1, Drawing DEF Reserve
      <3>2. exports'[y] = IF y = selected' THEN e ELSE exports[y]
        BY <3>1 DEF ExportsOK
      <3>3. e.window = task[t].window /\ e.token = task[t].token /\ e.stage = "pending"
        OBVIOUS
      <3> HIDE DEF e
      <3> QED
        BY <1>3, <3>1, <3>2, <3>3
    <2> QED
      BY <1>3, <2>1 DEF Reserve
  <1>4. ASSUME NEW t \in Tasks, GrantExport(t) PROVE ExportMove(y)
    BY <1>4, Staging, Ending, Going
       DEF GrantExport, Staged, Ended, Moved
  <1>5. ASSUME NEW t \in Tasks, Unpick(t) PROVE ExportMove(y)
    BY <1>5, Ending
       DEF Unpick, Ended
  <1>6. ASSUME NEW t \in Tasks, RunExport(t) PROVE ExportMove(y)
    BY <1>6, Staging, Going
       DEF RunExport, Granted, Staged, Moved
  <1>7. ASSUME NEW t \in Tasks, Cleanup(t) PROVE ExportMove(y)
    BY <1>7, Ending
       DEF Cleanup, Ended
  <1>8. CASE CloseRevoke
    BY <1>8, Revocation
       DEF CloseRevoke, OfWindow, Present, Revoked
  <1>9. ASSUME NEW x \in Selections, CancelExport(x) PROVE ExportMove(y)
    <2>1. CASE Granted(x) /\ exports' = [exports EXCEPT ![x] = None]
      BY <2>1 DEF ExportsOK
    <2>2. CASE exports[x] # None /\ Cancel(x)
      <3>1. Staged(x, exports[x].stage, TRUE)
        BY <2>2, Cancelling
      <3>2. CASE y = x
        BY <2>2, <3>1, <3>2 DEF Staged
      <3>3. CASE y # x
        BY <3>1, <3>3 DEF Staged
      <3> QED
        BY <3>2, <3>3
    <2> QED
      BY <1>9, <2>1, <2>2 DEF CancelExport
  <1>10. ASSUME NEW x \in Selections, AgeExport(x) PROVE ExportMove(y)
    BY <1>10
       DEF AgeExport, Granted
  <1>11. CASE UNCHANGED exportVars
    BY <1>11
  <1> QED
    BY Frame, <1>11, <1>1, <1>2, <1>3, <1>4, <1>5, <1>6, <1>7, <1>8, <1>9, <1>10
       DEF ExportWork

\* A selection has a number that was drawn, and a token that was.
LEMMA ExportDrawnStep ==
  ASSUME ReadsOK, ReadsTyped, ExportsOK, RootsOK, TasksOK, TokenInv, ReadsOK', ExportsOK',
         NEW y \in Selections, [Next]_vars
  PROVE  ExportDrawn(y)'
  <1>1. SUFFICES ASSUME exports'[y] # None PROVE ExportDrawn(y)'
    BY DEF ExportDrawn
  <1>2. /\ opened \in Nat /\ opened' \in Nat /\ opened <= opened'
        /\ selected \in Nat /\ selected' \in Nat /\ selected <= selected'
    BY Bounds, Onward DEF ReadsOK, ExportsOK
  <1>3. CASE exports[y] # None /\ exports'[y].token = exports[y].token
    <2>1. y <= selected /\ exports[y].token <= opened
      BY <1>3 DEF TokenInv, ExportDrawn
    <2>2. exports[y].token \in Nat
      BY <1>3, ExportFields, Counting
    <2> QED
      BY <1>2, <1>3, <2>1, <2>2, Counting DEF ExportDrawn
  <1>4. ASSUME NEW t \in Tasks, Reserve(t), y = selected + 1, selected' = selected + 1,
               exports'[y].token = task[t].token
        PROVE  ExportDrawn(y)'
    <2>1. task[t].token \in 0 .. opened
      BY <1>4 DEF TokenInv, TaskDrawn, Reserve, At
    <2> QED
      BY <1>2, <1>4, <2>1 DEF ExportDrawn
  <1> QED
    BY <1>1, <1>3, <1>4, ExportsMove DEF ExportMove

\* A token that begin_result_open draws is new: no command, no export, no
\* spawned task and no revocation knows it.
LEMMA FreshAct ==
  ASSUME ReadsOK, ReadsTyped, ExportsOK, RootsOK, TasksOK, TokenInv, NEW t \in Tasks, Acts(t),
         NewInv
  PROVE  TokenFresh(t)'
  <1> USE Names, Counting, Drawn, StepNames, Drawing, GrantFields, ExportFields DEF
      TokenFresh, Tokenless, Selecting, vars, closeVars, readVars, exportVars, rootVars,
      ghosts, At
  <1>1. ASSUME NEW w \in Windows, NEW r \in Runs, BeginOpen(t, w, r) PROVE TokenFresh(t)'
    <2>1. CASE OpenAdmitted(w, r)
      <3>0. PICK s \in Opens : s = opened + 1
        BY <1>1, Drawing DEF BeginOpen
      <3>1. opened' = s /\ Begin(t, "open", w, s, 0)
        BY <1>1, <2>1, <3>0 DEF BeginOpen
      <3>2. Begun(t, "open", w, s, 0)
        BY <3>1, Beginning
      <3>3. opened \in Nat
        BY Drawing
      <3>4. reads'[s] = None
        BY <1>1, <3>0, <3>1, <3>3, Pruning DEF BeginOpen, TokenInv, ReadDrawn
      <3>5. s \notin releasing' \cup revoked'
        BY <1>1, <3>0, <3>3 DEF BeginOpen, TokenInv
      <3>6. ASSUME NEW u \in Tasks \ {t} PROVE Apart(u, s)'
        BY <3>0, <3>2, <3>3, <3>6 DEF Begun, Apart, TokenInv, TaskDrawn
      <3>7. ASSUME NEW x \in Selections, exports'[x] # None PROVE exports'[x].token # s
        BY <1>1, <3>0, <3>3, <3>7 DEF BeginOpen, TokenInv, ExportDrawn
      <3> QED
        BY <3>2, <3>4, <3>5, <3>6, <3>7 DEF Begun, TokenFresh
    <2> QED
      BY <1>1, <2>1 DEF BeginOpen, TokenFresh
  <1>2. CASE Issue(t)
    BY <1>2, Pruning, Going, Renumbering
       DEF Issue, Replaced, Present, SameRun, OfWindow, Moved
  <1>3. CASE RefuseOpen(t)
    BY <1>3, Pruning, Going
       DEF RefuseOpen, Moved
  <1>4. CASE DropOpen(t)
    BY <1>4, Ending
       DEF DropOpen, Ended
  <1>5. CASE RevokeReplaced(t)
    BY <1>5, Renumbering, Revocation
       DEF RevokeReplaced, RevokeFor, Present, Moved, Revoked
  <1>6. CASE BeginSummary(t)
    BY <1>6, TakingLease, Going, Forgetting
       DEF BeginSummary, Readable, Expired, Authorised, OfWindow, Present, Remade, Moved, Lost
  <1>7. CASE CheckOpened(t)
    BY <1>7, Ending, Going
       DEF CheckOpened, Ended, Moved
  <1>8. CASE CloseOpened(t)
    BY <1>8, Beginning, Ending
       DEF CloseOpened, CloseRead, OfWindow, Present, Begun, Ended
  <1>9. CASE FinishRead(t)
    BY <1>9, Going, Forgetting, Unleasing, Ending
       DEF FinishRead, Finish, AfterRead, Moved, Lost, Remade, Ended
  <1>10. CASE RevokeLease(t)
    BY <1>10, Forgetting, Going, Ending
       DEF RevokeLease, Lost, Moved, Ended
  <1>11. CASE RevokeClosed(t)
    BY <1>11, Ending, Revocation
       DEF RevokeClosed, RevokeFor, Present, Ended, Revoked
  <1>12. CASE Reserve(t)
    BY <1>12, Renumbering, Ending
       DEF Reserve, Present, OfWindow, Moved, Ended
  <1>13. CASE Validate(t)
    BY <1>13, Going, Forgetting
       DEF Validate, Authorised, Expired, OfWindow, Present, Moved, Lost
  <1>14. CASE GrantExport(t)
    BY <1>14, Staging, Ending, Going
       DEF GrantExport, Staged, Ended, Moved
  <1>15. CASE Unpick(t)
    BY <1>15, Ending
       DEF Unpick, Ended
  <1>16. CASE LeaseExport(t)
    BY <1>16, TakingLease, Going, Forgetting, Ending
       DEF LeaseExport, Readable, Expired, Authorised, OfWindow, Present, Remade, Moved,
           Lost, Ended
  <1>17. CASE RunExport(t)
    BY <1>17, Staging, Going
       DEF RunExport, Granted, Staged, Moved
  <1>18. CASE EndWriting(t)
    BY <1>18, Going, Forgetting, Unleasing
       DEF EndWriting, Finish, Moved, Lost, Remade
  <1>19. CASE DropLease(t)
    BY <1>19, Ending, Going, Unleasing
       DEF DropLease, Ended, Moved, Remade
  <1>20. CASE Cleanup(t)
    BY <1>20, Ending
       DEF Cleanup, Ended
  <1>21. CASE EndListing(t)
    BY <1>21, Ending
       DEF EndListing, Ended
  <1>22. CASE EndPick(t)
    BY <1>22, Ending
       DEF EndPick, Awaited, Present, Ended
  <1>23. ASSUME NEW s \in Opens, BeginRead(t, s) PROVE TokenFresh(t)'
    BY <1>23, TakingLease, Beginning, Forgetting
       DEF BeginRead, Present, Readable, Expired, Authorised, OfWindow, Remade, Begun, Lost
  <1>24. ASSUME NEW s \in Opens, CloseToken(t, s) PROVE TokenFresh(t)'
    BY <1>24, Beginning, Ending
       DEF CloseToken, Present, CloseRead, OfWindow, Begun, Ended
  <1>25. ASSUME NEW s \in Opens, BeginSelection(t, s) PROVE TokenFresh(t)'
    BY <1>25, Beginning, Forgetting
       DEF BeginSelection, Present, Authorised, Expired, OfWindow, Begun, Lost
  <1>26. ASSUME NEW x \in Selections, BeginExport(t, x) PROVE TokenFresh(t)'
    BY <1>26, Beginning
       DEF BeginExport, Granted, Begun
  <1>27. ASSUME NEW w \in Windows, BeginListing(t, w) PROVE TokenFresh(t)'
    BY <1>27, Beginning
       DEF BeginListing, Begun
  <1>28. ASSUME NEW w \in Windows, BeginPick(t, w) PROVE TokenFresh(t)'
    BY <1>28, Beginning
       DEF BeginPick, Present, Begun
  <1> QED
    BY <1>1, <1>2, <1>3, <1>4, <1>5, <1>6, <1>7, <1>8, <1>9, <1>10, <1>11, <1>12, <1>13,
       <1>14, <1>15, <1>16, <1>17, <1>18, <1>19, <1>20, <1>21, <1>22, <1>23, <1>24, <1>25,
       <1>26, <1>27, <1>28
       DEF Acts, OpenStep, ReadStep, ExportStep, RootStep

\* A step of a command never turns it to a token that is not in the table and
\* not its own.
LEMMA ApartAct ==
  ASSUME ReadsOK, ReadsTyped, ExportsOK, RootsOK, TasksOK, TokenInv, NEW t \in Tasks, Acts(t),
         NEW k \in Opens, k <= opened, reads[k] = None,
         \A x \in Selections : exports[x] # None => exports[x].token # k, Apart(t, k)
  PROVE  Apart(t, k)'
  <1> USE Names, Counting, Drawn, StepNames, Drawing, GrantFields, ExportFields DEF Apart,
      Tokenless, Selecting, vars, closeVars, readVars, exportVars, rootVars, ghosts, At
  <1>1. ASSUME NEW w \in Windows, NEW r \in Runs, BeginOpen(t, w, r) PROVE Apart(t, k)'
    BY <1>1, Pruning, Beginning
       DEF BeginOpen, Present, SameRun, Replaced, OfWindow, Begun
  <1>2. CASE Issue(t)
    BY <1>2, Pruning, Going, Renumbering
       DEF Issue, Replaced, Present, SameRun, OfWindow, Moved
  <1>3. CASE RefuseOpen(t)
    BY <1>3, Pruning, Going
       DEF RefuseOpen, Moved
  <1>4. CASE DropOpen(t)
    BY <1>4, Ending
       DEF DropOpen, Ended
  <1>5. CASE RevokeReplaced(t)
    BY <1>5, Renumbering, Revocation
       DEF RevokeReplaced, RevokeFor, Present, Moved, Revoked
  <1>6. CASE BeginSummary(t)
    BY <1>6, TakingLease, Going, Forgetting
       DEF BeginSummary, Readable, Expired, Authorised, OfWindow, Present, Remade, Moved, Lost
  <1>7. CASE CheckOpened(t)
    BY <1>7, Ending, Going
       DEF CheckOpened, Ended, Moved
  <1>8. CASE CloseOpened(t)
    BY <1>8, Beginning, Ending
       DEF CloseOpened, CloseRead, OfWindow, Present, Begun, Ended
  <1>9. CASE FinishRead(t)
    BY <1>9, Going, Forgetting, Unleasing, Ending
       DEF FinishRead, Finish, AfterRead, Moved, Lost, Remade, Ended
  <1>10. CASE RevokeLease(t)
    BY <1>10, Forgetting, Going, Ending
       DEF RevokeLease, Lost, Moved, Ended
  <1>11. CASE RevokeClosed(t)
    BY <1>11, Ending, Revocation
       DEF RevokeClosed, RevokeFor, Present, Ended, Revoked
  <1>12. CASE Reserve(t)
    BY <1>12, Renumbering, Ending
       DEF Reserve, Present, OfWindow, Moved, Ended
  <1>13. CASE Validate(t)
    BY <1>13, Going, Forgetting
       DEF Validate, Authorised, Expired, OfWindow, Present, Moved, Lost
  <1>14. CASE GrantExport(t)
    BY <1>14, Staging, Ending, Going
       DEF GrantExport, Staged, Ended, Moved
  <1>15. CASE Unpick(t)
    BY <1>15, Ending
       DEF Unpick, Ended
  <1>16. CASE LeaseExport(t)
    BY <1>16, TakingLease, Going, Forgetting, Ending
       DEF LeaseExport, Readable, Expired, Authorised, OfWindow, Present, Remade, Moved,
           Lost, Ended
  <1>17. CASE RunExport(t)
    BY <1>17, Staging, Going
       DEF RunExport, Granted, Staged, Moved
  <1>18. CASE EndWriting(t)
    BY <1>18, Going, Forgetting, Unleasing
       DEF EndWriting, Finish, Moved, Lost, Remade
  <1>19. CASE DropLease(t)
    BY <1>19, Ending, Going, Unleasing
       DEF DropLease, Ended, Moved, Remade
  <1>20. CASE Cleanup(t)
    BY <1>20, Ending
       DEF Cleanup, Ended
  <1>21. CASE EndListing(t)
    BY <1>21, Ending
       DEF EndListing, Ended
  <1>22. CASE EndPick(t)
    BY <1>22, Ending
       DEF EndPick, Awaited, Present, Ended
  <1>23. ASSUME NEW s \in Opens, BeginRead(t, s) PROVE Apart(t, k)'
    BY <1>23, TakingLease, Beginning, Forgetting
       DEF BeginRead, Present, Readable, Expired, Authorised, OfWindow, Remade, Begun, Lost
  <1>24. ASSUME NEW s \in Opens, CloseToken(t, s) PROVE Apart(t, k)'
    BY <1>24, Beginning, Ending
       DEF CloseToken, Present, CloseRead, OfWindow, Begun, Ended
  <1>25. ASSUME NEW s \in Opens, BeginSelection(t, s) PROVE Apart(t, k)'
    BY <1>25, Beginning, Forgetting
       DEF BeginSelection, Present, Authorised, Expired, OfWindow, Begun, Lost
  <1>26. ASSUME NEW x \in Selections, BeginExport(t, x) PROVE Apart(t, k)'
    BY <1>26, Beginning
       DEF BeginExport, Granted, Begun
  <1>27. ASSUME NEW w \in Windows, BeginListing(t, w) PROVE Apart(t, k)'
    BY <1>27, Beginning
       DEF BeginListing, Begun
  <1>28. ASSUME NEW w \in Windows, BeginPick(t, w) PROVE Apart(t, k)'
    BY <1>28, Beginning
       DEF BeginPick, Present, Begun
  <1> QED
    BY <1>1, <1>2, <1>3, <1>4, <1>5, <1>6, <1>7, <1>8, <1>9, <1>10, <1>11, <1>12, <1>13,
       <1>14, <1>15, <1>16, <1>17, <1>18, <1>19, <1>20, <1>21, <1>22, <1>23, <1>24, <1>25,
       <1>26, <1>27, <1>28
       DEF Acts, OpenStep, ReadStep, ExportStep, RootStep

\* Until it is issued, the token of an opening stays unknown to everybody else.
LEMMA FreshStep ==
  ASSUME ReadsOK, ReadsTyped, ExportsOK, RootsOK, TasksOK, TokenInv, NewInv, NEW q \in Tasks,
         [Next]_vars
  PROVE  TokenFresh(q)'
  <1>1. CASE Acts(q)
    BY <1>1, FreshAct
  <1>2. CASE ~Acts(q)
    <2>1. task'[q] = task[q]
      BY <1>2, StillTask
    <2>2. SUFFICES ASSUME At(q, "open") PROVE TokenFresh(q)'
      BY <2>1 DEF TokenFresh, At
    <2>0. PICK k \in Opens : k = task[q].token
      BY <2>2, Drawn DEF At, Tokenless
    <2>3. /\ reads[k] = None /\ k \notin releasing \cup revoked
          /\ \A u \in Tasks \ {q} : Apart(u, k)
          /\ \A x \in Selections : exports[x] # None => exports[x].token # k
      BY <2>0, <2>2 DEF NewInv, TokenFresh
    <2>4. k \in Opens /\ k <= opened
      BY <2>0, <2>2, Drawn, Bounds DEF At, Tokenless, TokenInv, TaskDrawn, ReadsOK
    <2>5. reads'[k] = None
      <3>1. ASSUME NEW t \in Tasks, Issue(t) PROVE task[t].token # k
        <4>1. t # q /\ At(t, "open")
          BY <1>2, <3>1 DEF Acts, OpenStep, Issue
        <4> QED
          BY <2>3, <4>1 DEF Apart, At
      <3> QED
        BY <2>3, <2>4, <3>1, NoneNew
    <2>6. k \notin releasing'
      BY <2>0, <2>2, <2>3, ReleasingMove DEF Apart, At, ReleasedFrom
    <2>7. k \notin revoked'
      BY <2>0, <2>2, <2>3, RevokedMove DEF Apart, At, GivesUp, RevokedFrom
    <2>8. ASSUME NEW u \in Tasks \ {q} PROVE Apart(u, k)'
      <3>1. CASE Acts(u)
        BY <2>3, <2>4, <2>8, <3>1, ApartAct
      <3>2. CASE ~Acts(u)
        BY <2>3, <2>4, <2>8, <3>2, StillTask DEF Apart
      <3> QED
        BY <3>1, <3>2
    <2>9. ASSUME NEW x \in Selections, exports'[x] # None PROVE exports'[x].token # k
      <3>1. ASSUME NEW t \in Tasks, Reserve(t) PROVE task[t].token # k
        <4>1. t # q /\ At(t, "bound")
          BY <2>2, <3>1 DEF Reserve, At
        <4> QED
          BY <2>3, <4>1 DEF Apart, At
      <3> QED
        BY <2>3, <2>9, <3>1, ExportsMove DEF ExportMove
    <2> QED
      BY <2>0, <2>1, <2>5, <2>6, <2>7, <2>8, <2>9 DEF TokenFresh
  <1> QED
    BY <1>1, <1>2

\* The step that revokes for a token tells the running exports of it to stop
\* and leaves no other.
LEMMA RevokedTold ==
  ASSUME ReadsOK, ReadsTyped, ExportsOK, RootsOK, TasksOK, TokenInv, NEW y \in Selections,
         exports'[y] # None, exports'[y].token \in revoked', exports'[y].token \notin revoked,
         ExportMove(y), [Next]_vars
  PROVE  Told(y)
  <1> USE Names, Counting, Drawn, ExportFields DEF Told, Tokenless, Selecting, vars,
      closeVars, readVars, exportVars, rootVars, ghosts, At
  <1>1. ASSUME NEW t \in Tasks, RevokeReplaced(t) PROVE Told(y)
    <2> DEFINE hit == {x \in Present(exports) : exports[x].token = task[t].number}
    <2>1. Revoke(hit) /\ revoked' = revoked \cup {task[t].number}
      BY <1>1 DEF RevokeReplaced, RevokeFor
    <2>2. hit \subseteq Present(exports)
      OBVIOUS
    <2>3. Revoked(y, hit)
      BY <2>1, <2>2, Revocation
    <2>4. CASE y \in hit
      BY <2>3, <2>4 DEF Revoked
    <2>5. CASE y \notin hit
      <3>1. exports'[y] = exports[y] /\ exports'[y].token = task[t].number
        BY <2>1, <2>3, <2>5 DEF Revoked
      <3> QED
        BY <2>5, <3>1 DEF Present, ExportsOK
    <2> QED
      BY <2>4, <2>5
  <1>2. ASSUME NEW t \in Tasks, RevokeClosed(t) PROVE Told(y)
    <2> DEFINE hit == {x \in Present(exports) : exports[x].token = task[t].token}
    <2>1. Revoke(hit) /\ revoked' = revoked \cup {task[t].token}
      BY <1>2 DEF RevokeClosed, RevokeFor
    <2>2. hit \subseteq Present(exports)
      OBVIOUS
    <2>3. Revoked(y, hit)
      BY <2>1, <2>2, Revocation
    <2>4. CASE y \in hit
      BY <2>3, <2>4 DEF Revoked
    <2>5. CASE y \notin hit
      <3>1. exports'[y] = exports[y] /\ exports'[y].token = task[t].token
        BY <2>1, <2>3, <2>5 DEF Revoked
      <3> QED
        BY <2>5, <3>1 DEF Present, ExportsOK
    <2> QED
      BY <2>4, <2>5
  <1>3. ASSUME NEW w \in Windows, CloseEvent(w) PROVE Told(y)
    BY <1>3
       DEF CloseEvent, OfWindow, Present
  <1>4. CASE UNCHANGED ghosts
    BY <1>4
  <1> QED
    BY Frame, <1>4, <1>1, <1>2, <1>3
       DEF GhostWork

\* The step after which a closed window's exports count as revoked has told the
\* running ones to stop and left no other.
LEMMA BarredTold ==
  ASSUME CloseOK, ReadsOK, ReadsTyped, ExportsOK, RootsOK, TasksOK, TokenInv,
         NEW y \in Selections, NEW v \in Windows, exports'[y] # None, 
         exports'[y].window = v, Barred(v)', ~Barred(v), ExportMove(y), [Next]_vars
  PROVE  Told(y)
  <1> USE Names, Counting, Drawn, ExportFields DEF Told, Barred, Revoking, vars, closeVars,
      readVars, exportVars, rootVars, ghosts, At
  <1>1. ASSUME NEW w \in Windows, RemoveLater(w) PROVE Told(y)
    BY <1>1
       DEF RemoveLater, RemoveFor, OfWindow, Present
  <1>2. ASSUME NEW w \in Windows, CloseEvent(w) PROVE Told(y)
    BY <1>2
       DEF CloseEvent, OfWindow, Present, CloseOK
  <1>3. CASE CloseMark
    <2>1. closing \in Closing /\ closing' = [closing EXCEPT !.step = "revoke"]
      BY <1>3 DEF CloseMark, CloseOK
    <2>2. closing' \in Closing /\ closing'.window = closing.window /\ closing'.step = "revoke"
      BY <2>1 DEF Closing
    <2> QED
      BY <1>3, <2>1, <2>2 DEF CloseMark
  <1>4. CASE CloseRevoke
    <2> DEFINE hit == OfWindow(exports, closing.window)
    <2>1. closing \in Closing /\ closing' = [closing EXCEPT !.step = "remove"] /\ Revoke(hit)
      BY <1>4 DEF CloseRevoke, CloseOK
    <2>2. closing' \in Closing /\ closing'.window = closing.window /\ closing'.step = "remove"
      BY <2>1 DEF Closing
    <2>3. v = closing.window
      BY <1>4, <2>1, <2>2 DEF CloseRevoke
    <2>4. hit \subseteq Present(exports)
      BY DEF OfWindow
    <2>5. Revoked(y, hit)
      BY <2>1, <2>4, Revocation
    <2>6. CASE y \in hit
      BY <2>5, <2>6 DEF Revoked
    <2>7. CASE y \notin hit
      BY <2>3, <2>5, <2>7 DEF Revoked, OfWindow, Present, ExportsOK
    <2> QED
      BY <2>6, <2>7
  <1>5. CASE CloseRemove
    BY <1>5
       DEF CloseRemove, RemoveFor, OfWindow, Present, CloseOK
  <1>6. CASE UNCHANGED closeVars
    BY <1>6
  <1> QED
    BY Frame, <1>6, <1>1, <1>2, <1>3, <1>4, <1>5
       DEF CloseWork

\* A command works on its own selection until it leaves it, or has just made a
\* new one (begin_history_export_selection).
LEMMA PickedAct ==
  ASSUME ReadsOK, ReadsTyped, ExportsOK, RootsOK, TasksOK, TokenInv, NEW t \in Tasks, Acts(t)
  PROVE  PickedFor(t)
  <1> USE Names, Counting, Drawn, StepNames, Drawing, GrantFields, ExportFields DEF
      PickedFor, Picks, Tokenless, Selecting, vars, closeVars, readVars, exportVars,
      rootVars, ghosts, At
  <1>1. ASSUME NEW w \in Windows, NEW r \in Runs, BeginOpen(t, w, r) PROVE PickedFor(t)
    BY <1>1, Pruning, Beginning
       DEF BeginOpen, Present, SameRun, Replaced, OfWindow, Begun
  <1>2. CASE Issue(t)
    BY <1>2, Pruning, Going, Renumbering
       DEF Issue, Replaced, Present, SameRun, OfWindow, Moved
  <1>3. CASE RefuseOpen(t)
    BY <1>3, Pruning, Going
       DEF RefuseOpen, Moved
  <1>4. CASE DropOpen(t)
    BY <1>4, Ending
       DEF DropOpen, Ended
  <1>5. CASE RevokeReplaced(t)
    BY <1>5, Renumbering, Revocation
       DEF RevokeReplaced, RevokeFor, Present, Moved, Revoked
  <1>6. CASE BeginSummary(t)
    BY <1>6, TakingLease, Going, Forgetting
       DEF BeginSummary, Readable, Expired, Authorised, OfWindow, Present, Remade, Moved, Lost
  <1>7. CASE CheckOpened(t)
    BY <1>7, Ending, Going
       DEF CheckOpened, Ended, Moved
  <1>8. CASE CloseOpened(t)
    BY <1>8, Beginning, Ending
       DEF CloseOpened, CloseRead, OfWindow, Present, Begun, Ended
  <1>9. CASE FinishRead(t)
    BY <1>9, Going, Forgetting, Unleasing, Ending
       DEF FinishRead, Finish, AfterRead, Moved, Lost, Remade, Ended
  <1>10. CASE RevokeLease(t)
    BY <1>10, Forgetting, Going, Ending
       DEF RevokeLease, Lost, Moved, Ended
  <1>11. CASE RevokeClosed(t)
    BY <1>11, Ending, Revocation
       DEF RevokeClosed, RevokeFor, Present, Ended, Revoked
  <1>12. CASE Reserve(t)
    BY <1>12, Renumbering, Ending
       DEF Reserve, Present, OfWindow, Moved, Ended
  <1>13. CASE Validate(t)
    BY <1>13, Going, Forgetting
       DEF Validate, Authorised, Expired, OfWindow, Present, Moved, Lost
  <1>14. CASE GrantExport(t)
    BY <1>14, Staging, Ending, Going
       DEF GrantExport, Staged, Ended, Moved
  <1>15. CASE Unpick(t)
    BY <1>15, Ending
       DEF Unpick, Ended
  <1>16. CASE LeaseExport(t)
    BY <1>16, TakingLease, Going, Forgetting, Ending
       DEF LeaseExport, Readable, Expired, Authorised, OfWindow, Present, Remade, Moved,
           Lost, Ended
  <1>17. CASE RunExport(t)
    BY <1>17, Staging, Going
       DEF RunExport, Granted, Staged, Moved
  <1>18. CASE EndWriting(t)
    BY <1>18, Going, Forgetting, Unleasing
       DEF EndWriting, Finish, Moved, Lost, Remade
  <1>19. CASE DropLease(t)
    BY <1>19, Ending, Going, Unleasing
       DEF DropLease, Ended, Moved, Remade
  <1>20. CASE Cleanup(t)
    BY <1>20, Ending
       DEF Cleanup, Ended
  <1>21. CASE EndListing(t)
    BY <1>21, Ending
       DEF EndListing, Ended
  <1>22. CASE EndPick(t)
    BY <1>22, Ending
       DEF EndPick, Awaited, Present, Ended
  <1>23. ASSUME NEW s \in Opens, BeginRead(t, s) PROVE PickedFor(t)
    BY <1>23, TakingLease, Beginning, Forgetting
       DEF BeginRead, Present, Readable, Expired, Authorised, OfWindow, Remade, Begun, Lost
  <1>24. ASSUME NEW s \in Opens, CloseToken(t, s) PROVE PickedFor(t)
    BY <1>24, Beginning, Ending
       DEF CloseToken, Present, CloseRead, OfWindow, Begun, Ended
  <1>25. ASSUME NEW s \in Opens, BeginSelection(t, s) PROVE PickedFor(t)
    BY <1>25, Beginning, Forgetting
       DEF BeginSelection, Present, Authorised, Expired, OfWindow, Begun, Lost
  <1>26. ASSUME NEW x \in Selections, BeginExport(t, x) PROVE PickedFor(t)
    BY <1>26, Beginning
       DEF BeginExport, Granted, Begun
  <1>27. ASSUME NEW w \in Windows, BeginListing(t, w) PROVE PickedFor(t)
    BY <1>27, Beginning
       DEF BeginListing, Begun
  <1>28. ASSUME NEW w \in Windows, BeginPick(t, w) PROVE PickedFor(t)
    BY <1>28, Beginning
       DEF BeginPick, Present, Begun
  <1> QED
    BY <1>1, <1>2, <1>3, <1>4, <1>5, <1>6, <1>7, <1>8, <1>9, <1>10, <1>11, <1>12, <1>13,
       <1>14, <1>15, <1>16, <1>17, <1>18, <1>19, <1>20, <1>21, <1>22, <1>23, <1>24, <1>25,
       <1>26, <1>27, <1>28
       DEF Acts, OpenStep, ReadStep, ExportStep, RootStep

\* A step of a command keeps it on a selection of its own window and token, and
\* a selection that passed validate_result_export_binding is of a token whose
\* exports were not revoked.
LEMMA MatchedAct ==
  ASSUME ReadsOK, ReadsTyped, ExportsOK, RootsOK, TasksOK, TokenInv, NEW t \in Tasks, Acts(t),
         Matched(t)
  PROVE  Matched(t)'
  <1> USE Names, Counting, Drawn, StepNames, Drawing, GrantFields, ExportFields DEF Matched,
      Picks, Tokenless, Selecting, Barred, Revoking, vars, closeVars, readVars, exportVars,
      rootVars, ghosts, At
  <1>1. ASSUME NEW w \in Windows, NEW r \in Runs, BeginOpen(t, w, r) PROVE Matched(t)'
    BY <1>1, Pruning, Beginning
       DEF BeginOpen, Present, SameRun, Replaced, OfWindow, Begun
  <1>2. CASE Issue(t)
    BY <1>2, Pruning, Going, Renumbering
       DEF Issue, Replaced, Present, SameRun, OfWindow, Moved
  <1>3. CASE RefuseOpen(t)
    BY <1>3, Pruning, Going
       DEF RefuseOpen, Moved
  <1>4. CASE DropOpen(t)
    BY <1>4, Ending
       DEF DropOpen, Ended
  <1>5. CASE RevokeReplaced(t)
    BY <1>5, Renumbering, Revocation
       DEF RevokeReplaced, RevokeFor, Present, Moved, Revoked
  <1>6. CASE BeginSummary(t)
    BY <1>6, TakingLease, Going, Forgetting
       DEF BeginSummary, Readable, Expired, Authorised, OfWindow, Present, Remade, Moved, Lost
  <1>7. CASE CheckOpened(t)
    BY <1>7, Ending, Going
       DEF CheckOpened, Ended, Moved
  <1>8. CASE CloseOpened(t)
    BY <1>8, Beginning, Ending
       DEF CloseOpened, CloseRead, OfWindow, Present, Begun, Ended
  <1>9. CASE FinishRead(t)
    BY <1>9, Going, Forgetting, Unleasing, Ending
       DEF FinishRead, Finish, AfterRead, Moved, Lost, Remade, Ended
  <1>10. CASE RevokeLease(t)
    BY <1>10, Forgetting, Going, Ending
       DEF RevokeLease, Lost, Moved, Ended
  <1>11. CASE RevokeClosed(t)
    BY <1>11, Ending, Revocation
       DEF RevokeClosed, RevokeFor, Present, Ended, Revoked
  <1>12. CASE Reserve(t)
    <2>1. CASE SelectionRoom(exports, task[t].window)
      <3> DEFINE e == [window |-> task[t].window, token |-> task[t].token, stage |-> "pending",
                       cancelled |-> FALSE]
      <3>1. PICK n \in Selections : n = selected'
        BY <1>12, <2>1, Drawing DEF Reserve
      <3>2. exports' = [exports EXCEPT ![n] = e] /\ Renumber(t, "picking", n)
        BY <1>12, <2>1, <3>1 DEF Reserve
      <3>3. exports'[n].window = task[t].window /\ exports'[n].token = task[t].token
            /\ exports'[n].stage = "pending"
        BY <3>2 DEF ExportsOK
      <3>4. Moved(t, "picking", n)
        BY <1>12, <3>2, Renumbering DEF Reserve
      <3> QED
        BY <3>3, <3>4 DEF Moved
    <2> QED
      BY <1>12, <2>1, Ending DEF Reserve, Ended
  <1>13. CASE Validate(t)
    BY <1>13, Going, Forgetting
       DEF Validate, Authorised, Expired, OfWindow, Present, Moved, Lost, TokenInv, ReadDrawn
  <1>14. CASE GrantExport(t)
    BY <1>14, Staging, Ending, Going
       DEF GrantExport, Staged, Ended, Moved
  <1>15. CASE Unpick(t)
    BY <1>15, Ending
       DEF Unpick, Ended
  <1>16. CASE LeaseExport(t)
    BY <1>16, TakingLease, Going, Forgetting, Ending
       DEF LeaseExport, Readable, Expired, Authorised, OfWindow, Present, Remade, Moved,
           Lost, Ended
  <1>17. CASE RunExport(t)
    BY <1>17, Staging, Going
       DEF RunExport, Granted, Staged, Moved
  <1>18. CASE EndWriting(t)
    BY <1>18, Going, Forgetting, Unleasing
       DEF EndWriting, Finish, Moved, Lost, Remade
  <1>19. CASE DropLease(t)
    BY <1>19, Ending, Going, Unleasing
       DEF DropLease, Ended, Moved, Remade
  <1>20. CASE Cleanup(t)
    BY <1>20, Ending
       DEF Cleanup, Ended
  <1>21. CASE EndListing(t)
    BY <1>21, Ending
       DEF EndListing, Ended
  <1>22. CASE EndPick(t)
    BY <1>22, Ending
       DEF EndPick, Awaited, Present, Ended
  <1>23. ASSUME NEW s \in Opens, BeginRead(t, s) PROVE Matched(t)'
    BY <1>23, TakingLease, Beginning, Forgetting
       DEF BeginRead, Present, Readable, Expired, Authorised, OfWindow, Remade, Begun, Lost
  <1>24. ASSUME NEW s \in Opens, CloseToken(t, s) PROVE Matched(t)'
    BY <1>24, Beginning, Ending
       DEF CloseToken, Present, CloseRead, OfWindow, Begun, Ended
  <1>25. ASSUME NEW s \in Opens, BeginSelection(t, s) PROVE Matched(t)'
    BY <1>25, Beginning, Forgetting
       DEF BeginSelection, Present, Authorised, Expired, OfWindow, Begun, Lost
  <1>26. ASSUME NEW x \in Selections, BeginExport(t, x) PROVE Matched(t)'
    BY <1>26, Beginning
       DEF BeginExport, Granted, Begun
  <1>27. ASSUME NEW w \in Windows, BeginListing(t, w) PROVE Matched(t)'
    BY <1>27, Beginning
       DEF BeginListing, Begun
  <1>28. ASSUME NEW w \in Windows, BeginPick(t, w) PROVE Matched(t)'
    BY <1>28, Beginning
       DEF BeginPick, Present, Begun
  <1> QED
    BY <1>1, <1>2, <1>3, <1>4, <1>5, <1>6, <1>7, <1>8, <1>9, <1>10, <1>11, <1>12, <1>13,
       <1>14, <1>15, <1>16, <1>17, <1>18, <1>19, <1>20, <1>21, <1>22, <1>23, <1>24, <1>25,
       <1>26, <1>27, <1>28
       DEF Acts, OpenStep, ReadStep, ExportStep, RootStep

\* No two commands pick a file for the same selection.
LEMMA SoleStep ==
  ASSUME ReadsOK, ReadsTyped, ExportsOK, RootsOK, TasksOK, TokenInv, CloseOK, ExportInv,
         NEW q \in Tasks, [Next]_vars
  PROVE  Sole(q)'
  <1>1. SUFFICES ASSUME Picks(q)', NEW u \in Tasks \ {q}, Picks(u)'
                 PROVE  task'[u].number # task'[q].number
    BY DEF Sole
  <1>2. ASSUME NEW t \in Tasks, Picks(t)
        PROVE  task[t].number \in Nat /\ task[t].number <= selected
    BY <1>2, Drawing DEF Picks, Selecting, TokenInv, TaskDrawn
  <1>3. ASSUME NEW t \in Tasks, Picks(t)'
        PROVE  \/ Picks(t) /\ task'[t].number = task[t].number
               \/ Acts(t) /\ task'[t].number = selected + 1
    <2>1. CASE Acts(t)
      BY <1>3, <2>1, PickedAct DEF PickedFor
    <2>2. CASE ~Acts(t)
      BY <1>3, <2>2, StillTask DEF Picks
    <2> QED
      BY <2>1, <2>2
  <1>4. ASSUME NEW t \in Tasks, Acts(t), NEW o \in Tasks \ {t} PROVE task'[o] = task[o]
    BY <1>4, OthersStay
  <1>5. selected \in Nat
    BY Drawing
  <1>6. CASE Picks(q) /\ task'[q].number = task[q].number
    <2>1. CASE Picks(u) /\ task'[u].number = task[u].number
      BY <1>1, <1>6, <2>1 DEF ExportInv, Sole
    <2>2. CASE Acts(u) /\ task'[u].number = selected + 1
      BY <1>2, <1>5, <1>6, <2>2
    <2> QED
      BY <1>1, <1>3, <2>1, <2>2
  <1>7. CASE Acts(q) /\ task'[q].number = selected + 1
    <2>1. task'[u] = task[u]
      BY <1>1, <1>4, <1>7
    <2> QED
      BY <1>1, <1>2, <1>5, <1>7, <2>1 DEF Picks
  <1> QED
    BY <1>1, <1>3, <1>6, <1>7

\* A selection that a command works on stays of its window and token, and one
\* it is about to grant was not revoked in between: a revocation would have
\* removed it (finish_history_export_selection looks for it under the lock).
LEMMA MatchedStep ==
  ASSUME ReadsOK, ReadsTyped, ExportsOK, RootsOK, TasksOK, TokenInv, CloseOK, ExportInv,
         NEW q \in Tasks, [Next]_vars
  PROVE  Matched(q)'
  <1>1. CASE Acts(q)
    BY <1>1, MatchedAct DEF ExportInv
  <1>2. CASE ~Acts(q)
    <2>1. task'[q] = task[q]
      BY <1>2, StillTask
    <2>2. SUFFICES ASSUME task[q] # None, task[q].pc \in Selecting, exports'[task[q].number] # None
                   PROVE  Matched(q)'
      BY <2>1 DEF Matched
    <2>3. PICK y \in Selections : y = task[q].number
      BY <2>2, Drawn
    <2>4. y <= selected /\ y \in Nat /\ selected \in Nat
      BY <2>2, <2>3, Drawing DEF TokenInv, TaskDrawn
    <2>5. ExportMove(y)
      BY ExportsMove
    <2>6. /\ exports[y] # None /\ exports'[y].token = exports[y].token
          /\ exports'[y].window = exports[y].window
          /\ \/ exports'[y].stage = exports[y].stage
             \/ \E t \in Tasks : GrantExport(t) /\ task[t].number = y
             \/ exports[y].stage = "granted" /\ exports'[y].stage = "running"
      BY <2>2, <2>3, <2>4, <2>5 DEF ExportMove
    <2>7. /\ exports[y].token = task[q].token /\ exports[y].window = task[q].window
          /\ Picks(q) => exports[y].stage = "pending"
          /\ task[q].pc = "checked" => task[q].token \notin revoked /\ ~Barred(task[q].window)
      BY <2>2, <2>3, <2>6 DEF ExportInv, Matched
    <2>8. ASSUME Picks(q) PROVE exports'[y].stage = "pending"
      <3>1. ASSUME NEW t \in Tasks, GrantExport(t) PROVE task[t].number # y
        <4>1. t # q /\ Picks(t)
          BY <1>2, <3>1 DEF Acts, ExportStep, GrantExport, At, Picks
        <4> QED
          BY <2>3, <2>8, <4>1 DEF ExportInv, Sole
      <3> QED
        BY <2>6, <2>7, <2>8, <3>1
    <2>9. ASSUME task[q].pc = "checked"
          PROVE  task[q].token \notin revoked' /\ ~Barred(task[q].window)'
      <3>1. exports'[y].stage = "pending"
        BY <2>2, <2>8, <2>9 DEF Picks
      <3>2. ~Told(y)
        BY <3>1 DEF Told
      <3>3. task[q].token \notin revoked'
        BY <2>2, <2>3, <2>5, <2>6, <2>7, <2>9, <3>2, RevokedTold
      <3>4. PICK v \in Windows : v = task[q].window
        BY <2>2, Drawn
      <3>5. ~Barred(v)'
        BY <2>2, <2>3, <2>5, <2>6, <2>7, <2>9, <3>2, <3>4, BarredTold
      <3>6. ~Barred(task[q].window)'
        BY <2>1, <3>4, <3>5 DEF Barred, Revoking
      <3> QED
        BY <3>3, <3>6
    <2> QED
      BY <2>1, <2>2, <2>3, <2>6, <2>7, <2>8, <2>9 DEF Matched, Picks, Barred, Revoking
  <1> QED
    BY <1>1, <1>2

\* Once the exports of a token or window were revoked, none of them runs untold
\* and none is left to be started, whatever the commands between two of their
\* steps do next.
LEMMA StoppedStep ==
  ASSUME ReadsOK, ReadsTyped, ExportsOK, RootsOK, TasksOK, TokenInv, CloseOK, ExportInv,
         ExportsOK', NEW y \in Selections, [Next]_vars
  PROVE  Stopped(y)'
  <1>1. SUFFICES ASSUME exports'[y] # None, exports'[y].token \in revoked' \/ Barred(exports[y].window)'
                 PROVE  exports'[y].stage = "pending" \/ exports'[y].cancelled
    BY DEF Stopped, Barred, Revoking
  <1>2. ExportMove(y)
    BY ExportsMove
  <1>3. PICK v \in Windows : v = exports'[y].window
    BY <1>1, ExportFields DEF ExportsOK, Export
  <1>4. Barred(exports[y].window)' => Barred(v)'
    BY <1>3 DEF Barred, Revoking
  <1>5. CASE \E t \in Tasks : Reserve(t) /\ exports'[y].stage = "pending"
    BY <1>5
  <1>6. CASE /\ exports[y] # None /\ exports'[y].token = exports[y].token
             /\ exports'[y].window = exports[y].window
             /\ exports[y].cancelled => exports'[y].cancelled
             /\ \/ exports'[y].stage = exports[y].stage
                \/ \E t \in Tasks : GrantExport(t) /\ task[t].number = y
                \/ exports[y].stage = "granted" /\ exports'[y].stage = "running"
    <2>1. CASE exports[y].token \in revoked \/ Barred(v)
      <3>1. exports[y].stage = "pending" \/ exports[y].cancelled
        BY <1>3, <1>6, <2>1 DEF ExportInv, Stopped
      <3>2. ASSUME NEW t \in Tasks, GrantExport(t), task[t].number = y PROVE FALSE
        BY <1>3, <1>6, <2>1, <3>2 DEF ExportInv, Matched, GrantExport, At, Selecting
      <3> QED
        BY <1>6, <3>1, <3>2
    <2>2. CASE ~(exports[y].token \in revoked \/ Barred(v))
      BY <1>1, <1>2, <1>3, <1>4, <1>6, <2>2, RevokedTold, BarredTold DEF Told
    <2> QED
      BY <2>1, <2>2
  <1> QED
    BY <1>1, <1>2, <1>5, <1>6 DEF ExportMove

\* A step of a command takes the lease on a free token, gives its own back,
\* leaves that to a task of its own, or does nothing to it.
LEMMA LeaseAct ==
  ASSUME ReadsOK, ReadsTyped, ExportsOK, RootsOK, TasksOK, TokenInv, NEW t \in Tasks, Acts(t),
         NEW k \in Opens, NewInv
  PROVE  LeaseMove(t, k)
  <1> USE Names, Counting, Drawn, StepNames, Drawing, GrantFields, ExportFields DEF
      LeaseMove, Leases, LeaseSteps, Tokenless, Selecting, vars, closeVars, readVars,
      exportVars, rootVars, ghosts, At
  <1>1. ASSUME NEW w \in Windows, NEW r \in Runs, BeginOpen(t, w, r) PROVE LeaseMove(t, k)
    BY <1>1, Pruning, Beginning
       DEF BeginOpen, Present, SameRun, Replaced, OfWindow, Begun
  <1>2. CASE Issue(t)
    <2>1. CASE task[t].token = k
      <3>1. reads'[k] = [window |-> task[t].window, run |-> pending[k].run, busy |-> FALSE, late |-> FALSE]
        BY <1>2, <2>1 DEF Issue
      <3>2. task'[t].pc \in {"issued", "replace"}
        BY <1>2, Pruning, Going, Renumbering DEF Issue, Moved, Replaced, Present
      <3> QED
        BY <1>2, <2>1, <3>1, <3>2 DEF Issue
    <2>2. CASE task[t].token # k
      <3>1. reads'[k] = None \/ reads'[k] = reads[k]
        BY <1>2, <2>2, Pruning DEF Issue
      <3>2. task'[t] # None /\ task'[t].token = task[t].token
        BY <1>2, Pruning, Going, Renumbering DEF Issue, Moved, Replaced, Present
      <3> QED
        BY <1>2, <2>2, <3>1, <3>2 DEF Issue
    <2> QED
      BY <2>1, <2>2
  <1>3. CASE RefuseOpen(t)
    BY <1>3, Pruning, Going
       DEF RefuseOpen, Moved
  <1>4. CASE DropOpen(t)
    BY <1>4, Ending
       DEF DropOpen, Ended
  <1>5. CASE RevokeReplaced(t)
    BY <1>5, Renumbering, Revocation
       DEF RevokeReplaced, RevokeFor, Present, Moved, Revoked
  <1>6. CASE BeginSummary(t)
    BY <1>6, TakingLease, Going, Forgetting
       DEF BeginSummary, Readable, Expired, Authorised, OfWindow, Present, Remade, Moved, Lost
  <1>7. CASE CheckOpened(t)
    BY <1>7, Ending, Going
       DEF CheckOpened, Ended, Moved
  <1>8. CASE CloseOpened(t)
    <2> DEFINE c == task[t].token
    <2>1. CASE c \in OfWindow(reads, task[t].window)
      <3>1. reads' = [reads EXCEPT ![c] = None] /\ Begin(t, "revoke", task[t].window, c, 0)
        BY <1>8, <2>1 DEF CloseOpened, CloseRead
      <3>2. c \in Opens /\ task[t].window \in Windows
        BY <1>8, <2>1, TaskFields, GrantFields DEF OfWindow, Present, ReadsTyped, CloseOpened
      <3>3. Begun(t, "revoke", task[t].window, c, 0)
        BY <3>1, <3>2, Beginning
      <3>4. CASE k = c
        BY <3>1, <3>4 DEF ReadsTyped
      <3>5. CASE k # c
        <4>1. reads'[k] = reads[k] /\ releasing' = releasing
          BY <1>8, <3>1, <3>5 DEF ReadsTyped, CloseOpened
        <4>2. ~Leases(t, k) /\ ~Leases(t, k)'
          BY <1>8, <3>3 DEF CloseOpened, Begun
        <4> QED
          BY <4>1, <4>2
      <3> QED
        BY <3>4, <3>5
    <2>2. CASE c \notin OfWindow(reads, task[t].window)
      BY <1>8, <2>2, Ending DEF CloseOpened, CloseRead, Ended
    <2> QED
      BY <2>1, <2>2
  <1>9. CASE FinishRead(t)
    BY <1>9, Going, Forgetting, Unleasing, Ending
       DEF FinishRead, Finish, AfterRead, Moved, Lost, Remade, Ended
  <1>10. CASE RevokeLease(t)
    BY <1>10, Forgetting, Going, Ending
       DEF RevokeLease, Lost, Moved, Ended
  <1>11. CASE RevokeClosed(t)
    BY <1>11, Ending, Revocation
       DEF RevokeClosed, RevokeFor, Present, Ended, Revoked
  <1>12. CASE Reserve(t)
    BY <1>12, Renumbering, Ending
       DEF Reserve, Present, OfWindow, Moved, Ended
  <1>13. CASE Validate(t)
    BY <1>13, Going, Forgetting
       DEF Validate, Authorised, Expired, OfWindow, Present, Moved, Lost
  <1>14. CASE GrantExport(t)
    BY <1>14, Staging, Ending, Going
       DEF GrantExport, Staged, Ended, Moved
  <1>15. CASE Unpick(t)
    BY <1>15, Ending
       DEF Unpick, Ended
  <1>16. CASE LeaseExport(t)
    BY <1>16, TakingLease, Going, Forgetting, Ending
       DEF LeaseExport, Readable, Expired, Authorised, OfWindow, Present, Remade, Moved,
           Lost, Ended
  <1>17. CASE RunExport(t)
    BY <1>17, Staging, Going
       DEF RunExport, Granted, Staged, Moved
  <1>18. CASE EndWriting(t)
    BY <1>18, Going, Forgetting, Unleasing
       DEF EndWriting, Finish, Moved, Lost, Remade
  <1>19. CASE DropLease(t)
    BY <1>19, Ending, Going, Unleasing
       DEF DropLease, Ended, Moved, Remade
  <1>20. CASE Cleanup(t)
    BY <1>20, Ending
       DEF Cleanup, Ended
  <1>21. CASE EndListing(t)
    BY <1>21, Ending
       DEF EndListing, Ended
  <1>22. CASE EndPick(t)
    BY <1>22, Ending
       DEF EndPick, Awaited, Present, Ended
  <1>23. ASSUME NEW s \in Opens, BeginRead(t, s) PROVE LeaseMove(t, k)
    BY <1>23, TakingLease, Beginning, Forgetting
       DEF BeginRead, Present, Readable, Expired, Authorised, OfWindow, Remade, Begun, Lost
  <1>24. ASSUME NEW s \in Opens, CloseToken(t, s) PROVE LeaseMove(t, k)
    <2> DEFINE c == s
    <2>1. CASE c \in OfWindow(reads, reads[s].window)
      <3>1. reads' = [reads EXCEPT ![c] = None] /\ Begin(t, "revoke", reads[s].window, c, 0)
        BY <1>24, <2>1 DEF CloseToken, CloseRead
      <3>2. c \in Opens /\ reads[s].window \in Windows
        BY <1>24, <2>1, TaskFields, GrantFields DEF OfWindow, Present, ReadsTyped, CloseToken
      <3>3. Begun(t, "revoke", reads[s].window, c, 0)
        BY <3>1, <3>2, Beginning
      <3>4. CASE k = c
        BY <3>1, <3>4 DEF ReadsTyped
      <3>5. CASE k # c
        <4>1. reads'[k] = reads[k] /\ releasing' = releasing
          BY <1>24, <3>1, <3>5 DEF ReadsTyped, CloseToken
        <4>2. ~Leases(t, k) /\ ~Leases(t, k)'
          BY <1>24, <3>3 DEF CloseToken, Begun
        <4> QED
          BY <4>1, <4>2
      <3> QED
        BY <3>4, <3>5
    <2>2. CASE c \notin OfWindow(reads, reads[s].window)
      BY <1>24, <2>2, Ending DEF CloseToken, CloseRead, Ended
    <2> QED
      BY <2>1, <2>2
  <1>25. ASSUME NEW s \in Opens, BeginSelection(t, s) PROVE LeaseMove(t, k)
    BY <1>25, Beginning, Forgetting
       DEF BeginSelection, Present, Authorised, Expired, OfWindow, Begun, Lost
  <1>26. ASSUME NEW x \in Selections, BeginExport(t, x) PROVE LeaseMove(t, k)
    BY <1>26, Beginning
       DEF BeginExport, Granted, Begun
  <1>27. ASSUME NEW w \in Windows, BeginListing(t, w) PROVE LeaseMove(t, k)
    BY <1>27, Beginning
       DEF BeginListing, Begun
  <1>28. ASSUME NEW w \in Windows, BeginPick(t, w) PROVE LeaseMove(t, k)
    BY <1>28, Beginning
       DEF BeginPick, Present, Begun
  <1> QED
    BY <1>1, <1>2, <1>3, <1>4, <1>5, <1>6, <1>7, <1>8, <1>9, <1>10, <1>11, <1>12, <1>13,
       <1>14, <1>15, <1>16, <1>17, <1>18, <1>19, <1>20, <1>21, <1>22, <1>23, <1>24, <1>25,
       <1>26, <1>27, <1>28
       DEF Acts, OpenStep, ReadStep, ExportStep, RootStep

\* Every step is of one command, or of none.
LEMMA Kinds ==
  ASSUME [Next]_vars
  PROVE  (\E t \in Tasks : Acts(t)) \/ Aside
  BY DEF Next, Acts, Aside

\* A close, a cancellation, a spawned task and the clock change no command.
LEMMA AsideTasks ==
  ASSUME Aside
  PROVE  task' = task
  <1> USE DEF vars, closeVars, readVars, exportVars, rootVars, ghosts
  <1>1. ASSUME Spawned PROVE task' = task
    BY <1>1 DEF Spawned, DropLater, ReleaseLater, RemoveLater
  <1>2. ASSUME WindowStep PROVE task' = task
    BY <1>2 DEF WindowStep, CloseEvent, CloseMark, CloseRevoke, CloseRemove, CancelExport,
       ConsumeRoot
  <1>3. ASSUME Clock PROVE task' = task
    BY <1>3 DEF Clock, AgeRead, AgeExport
  <1> QED
    BY <1>1, <1>2, <1>3 DEF Aside

\* A step that is of no command removes a token, gives back a lease that was
\* left behind, or leaves the lease alone.
LEMMA LeaseAside ==
  ASSUME ReadsOK, ReadsTyped, ExportsOK, RootsOK, TasksOK, TokenInv, Aside, NEW k \in Opens
  PROVE  LeaseLeft(k)
  <1> USE Names, Counting DEF LeaseLeft, vars, closeVars, readVars, exportVars, rootVars,
      ghosts, At
  <1>1. ASSUME NEW s \in Opens, DropLater(s) PROVE LeaseLeft(k)
    BY <1>1
       DEF DropLater
  <1>2. ASSUME NEW s \in Opens, ReleaseLater(s) PROVE LeaseLeft(k)
    BY <1>2, Unleasing
       DEF ReleaseLater, Remade
  <1>3. ASSUME NEW w \in Windows, RemoveLater(w) PROVE LeaseLeft(k)
    BY <1>3
       DEF RemoveLater, RemoveFor, OfWindow, Present
  <1>4. ASSUME NEW w \in Windows, CloseEvent(w) PROVE LeaseLeft(k)
    BY <1>4
       DEF CloseEvent, OfWindow, Present
  <1>5. CASE CloseMark
    BY <1>5
       DEF CloseMark
  <1>6. CASE CloseRevoke
    BY <1>6, Revocation
       DEF CloseRevoke, OfWindow, Present, Revoked
  <1>7. CASE CloseRemove
    BY <1>7
       DEF CloseRemove, RemoveFor, OfWindow, Present
  <1>8. ASSUME NEW x \in Selections, CancelExport(x) PROVE LeaseLeft(k)
    BY <1>8, Cancelling
       DEF CancelExport, Granted, Staged
  <1>9. ASSUME NEW p \in Pickers, ConsumeRoot(p) PROVE LeaseLeft(k)
    BY <1>9
       DEF ConsumeRoot, Present
  <1>10. ASSUME NEW s \in Opens, AgeRead(s) PROVE LeaseLeft(k)
    BY <1>10
       DEF AgeRead, Present
  <1>11. ASSUME NEW x \in Selections, AgeExport(x) PROVE LeaseLeft(k)
    BY <1>11
       DEF AgeExport, Granted
  <1>12. CASE UNCHANGED vars
    BY <1>12
  <1> QED
    BY <1>1, <1>2, <1>3, <1>4, <1>5, <1>6, <1>7, <1>8, <1>9, <1>10, <1>11, <1>12
       DEF Aside, Spawned, WindowStep, Clock

\* A token is busy for exactly one command, or for exactly one destructor's
\* task: release_result_read clears in_flight only for the lease that set it.
LEMMA LeaseStep ==
  ASSUME ReadsOK, ReadsTyped, ExportsOK, RootsOK, TasksOK, TokenInv, LeaseInv, NewInv,
         NEW k \in Opens, [Next]_vars
  PROVE  LeasedBy(k)'
  <1>0. LeasedBy(k)
    BY DEF LeaseInv
  <1>1. ASSUME NEW t \in Tasks, Acts(t) PROVE LeasedBy(k)'
    <2>1. ASSUME NEW u \in Tasks \ {t} PROVE Leases(u, k)' <=> Leases(u, k)
      BY <1>1, <2>1, OthersStay DEF Leases
    <2>2. ASSUME At(t, "open"), task[t].token = k
          PROVE  k \notin releasing /\ \A u \in Tasks \ {t} : ~Leases(u, k)
      BY <2>2 DEF NewInv, TokenFresh, Apart, Leases
    <2>3. LeaseMove(t, k)
      BY <1>1, LeaseAct
    <2> HIDE DEF Leases
    <2>4. CASE reads[k] # None
      BY <1>0, <2>1, <2>2, <2>3, <2>4 DEF LeaseMove, LeasedBy
    <2>5. CASE reads[k] = None
      BY <1>0, <2>1, <2>2, <2>3, <2>5 DEF LeaseMove, LeasedBy
    <2> QED
      BY <2>4, <2>5
  <1>2. ASSUME Aside PROVE LeasedBy(k)'
    <2>1. LeaseLeft(k)
      BY <1>2, LeaseAside
    <2>2. ASSUME NEW u \in Tasks PROVE Leases(u, k)' <=> Leases(u, k)
      BY <1>2, AsideTasks DEF Leases
    <2> HIDE DEF Leases
    <2> QED
      BY <1>0, <2>1, <2>2 DEF LeaseLeft, LeasedBy
  <1> QED
    BY <1>1, <1>2, Kinds

\* Only the commands of listings touch a listing, only those of folder pickers
\* touch a picker or a root token.
LEMMA QuietAct ==
  ASSUME ReadsOK, ReadsTyped, ExportsOK, RootsOK, TasksOK, TokenInv, NEW t \in Tasks, Acts(t)
  PROVE  ListQuiet(t) /\ RootQuiet(t)
  <1> USE Names, Counting, Drawn, StepNames, Drawing, GrantFields, ExportFields DEF
      ListQuiet, RootQuiet, Tokenless, Selecting, vars, closeVars, readVars, exportVars,
      rootVars, ghosts, At
  <1>1. ASSUME NEW w \in Windows, NEW r \in Runs, BeginOpen(t, w, r)
        PROVE  ListQuiet(t) /\ RootQuiet(t)
    BY <1>1, Pruning, Beginning
       DEF BeginOpen, Present, SameRun, Replaced, OfWindow, Begun
  <1>2. CASE Issue(t)
    BY <1>2, Pruning, Going, Renumbering
       DEF Issue, Replaced, Present, SameRun, OfWindow, Moved
  <1>3. CASE RefuseOpen(t)
    BY <1>3, Pruning, Going
       DEF RefuseOpen, Moved
  <1>4. CASE DropOpen(t)
    BY <1>4, Ending
       DEF DropOpen, Ended
  <1>5. CASE RevokeReplaced(t)
    BY <1>5, Renumbering, Revocation
       DEF RevokeReplaced, RevokeFor, Present, Moved, Revoked
  <1>6. CASE BeginSummary(t)
    BY <1>6, TakingLease, Going, Forgetting
       DEF BeginSummary, Readable, Expired, Authorised, OfWindow, Present, Remade, Moved, Lost
  <1>7. CASE CheckOpened(t)
    BY <1>7, Ending, Going
       DEF CheckOpened, Ended, Moved
  <1>8. CASE CloseOpened(t)
    BY <1>8, Beginning, Ending
       DEF CloseOpened, CloseRead, OfWindow, Present, Begun, Ended
  <1>9. CASE FinishRead(t)
    BY <1>9, Going, Forgetting, Unleasing, Ending
       DEF FinishRead, Finish, AfterRead, Moved, Lost, Remade, Ended
  <1>10. CASE RevokeLease(t)
    BY <1>10, Forgetting, Going, Ending
       DEF RevokeLease, Lost, Moved, Ended
  <1>11. CASE RevokeClosed(t)
    BY <1>11, Ending, Revocation
       DEF RevokeClosed, RevokeFor, Present, Ended, Revoked
  <1>12. CASE Reserve(t)
    BY <1>12, Renumbering, Ending
       DEF Reserve, Present, OfWindow, Moved, Ended
  <1>13. CASE Validate(t)
    BY <1>13, Going, Forgetting
       DEF Validate, Authorised, Expired, OfWindow, Present, Moved, Lost
  <1>14. CASE GrantExport(t)
    BY <1>14, Staging, Ending, Going
       DEF GrantExport, Staged, Ended, Moved
  <1>15. CASE Unpick(t)
    BY <1>15, Ending
       DEF Unpick, Ended
  <1>16. CASE LeaseExport(t)
    BY <1>16, TakingLease, Going, Forgetting, Ending
       DEF LeaseExport, Readable, Expired, Authorised, OfWindow, Present, Remade, Moved,
           Lost, Ended
  <1>17. CASE RunExport(t)
    BY <1>17, Staging, Going
       DEF RunExport, Granted, Staged, Moved
  <1>18. CASE EndWriting(t)
    BY <1>18, Going, Forgetting, Unleasing
       DEF EndWriting, Finish, Moved, Lost, Remade
  <1>19. CASE DropLease(t)
    BY <1>19, Ending, Going, Unleasing
       DEF DropLease, Ended, Moved, Remade
  <1>20. CASE Cleanup(t)
    BY <1>20, Ending
       DEF Cleanup, Ended
  <1>21. CASE EndListing(t)
    BY <1>21, Ending DEF EndListing, Ended
  <1>22. CASE EndPick(t)
    BY <1>22, Ending DEF EndPick, Ended
  <1>23. ASSUME NEW s \in Opens, BeginRead(t, s) PROVE ListQuiet(t) /\ RootQuiet(t)
    BY <1>23, TakingLease, Beginning, Forgetting
       DEF BeginRead, Present, Readable, Expired, Authorised, OfWindow, Remade, Begun, Lost
  <1>24. ASSUME NEW s \in Opens, CloseToken(t, s) PROVE ListQuiet(t) /\ RootQuiet(t)
    BY <1>24, Beginning, Ending
       DEF CloseToken, Present, CloseRead, OfWindow, Begun, Ended
  <1>25. ASSUME NEW s \in Opens, BeginSelection(t, s) PROVE ListQuiet(t) /\ RootQuiet(t)
    BY <1>25, Beginning, Forgetting
       DEF BeginSelection, Present, Authorised, Expired, OfWindow, Begun, Lost
  <1>26. ASSUME NEW x \in Selections, BeginExport(t, x) PROVE ListQuiet(t) /\ RootQuiet(t)
    BY <1>26, Beginning
       DEF BeginExport, Granted, Begun
  <1>27. ASSUME NEW w \in Windows, BeginListing(t, w) PROVE ListQuiet(t) /\ RootQuiet(t)
    <2>1. ~At(t, "choosing")
      BY <1>27 DEF BeginListing
    <2>2. Begun(t, "list", w, 0, 0)
      BY <1>27, Beginning DEF BeginListing
    <2> QED
      BY <1>27, <2>1, <2>2 DEF BeginListing, Begun
  <1>28. ASSUME NEW w \in Windows, BeginPick(t, w) PROVE ListQuiet(t) /\ RootQuiet(t)
    <2>1. ~At(t, "list")
      BY <1>28 DEF BeginPick
    <2>0. PICK p \in Pickers : p = picked'
      BY <1>28, Drawing DEF BeginPick
    <2>2. Begun(t, "choosing", w, 0, p)
      BY <1>28, <2>0, Beginning DEF BeginPick
    <2> QED
      BY <1>28, <2>1, <2>2 DEF BeginPick, Begun
  <1> QED
    BY <1>1, <1>2, <1>3, <1>4, <1>5, <1>6, <1>7, <1>8, <1>9, <1>10, <1>11, <1>12, <1>13,
       <1>14, <1>15, <1>16, <1>17, <1>18, <1>19, <1>20, <1>21, <1>22, <1>23, <1>24, <1>25,
       <1>26, <1>27, <1>28
       DEF Acts, OpenStep, ReadStep, ExportStep, RootStep

\* A window has one listing at most, and its count is the number of them
\* (begin_history_read and its permit).
LEMMA ListStep ==
  ASSUME ReadsOK, ReadsTyped, ExportsOK, RootsOK, TasksOK, TokenInv, ListInv,
         NEW v \in Windows, [Next]_vars
  PROVE  Listed(v)'
  <1>0. Listed(v) /\ listings \in [Windows -> Nat]
    BY DEF ListInv, RootsOK
  <1>1. ASSUME NEW t \in Tasks, Acts(t) PROVE Listed(v)'
    <2>1. ASSUME NEW u \in Tasks \ {t} PROVE Lists(u, v)' <=> Lists(u, v)
      BY <1>1, <2>1, OthersStay DEF Lists, At
    <2>2. ListQuiet(t)
      BY <1>1, QuietAct
    <2>3. CASE listings' = listings /\ ~At(t, "list") /\ ~At(t, "list")'
      <3>1. ~Lists(t, v) /\ ~Lists(t, v)'
        BY <2>3 DEF Lists
      <3> QED
        BY <1>0, <2>1, <2>3, <3>1 DEF Listed
    <2>4. ASSUME NEW w \in Windows, BeginListing(t, w) PROVE Listed(v)'
      <3>1. Begun(t, "list", w, 0, 0) /\ task[t] = None /\ listings[w] = 0
            /\ listings' = [listings EXCEPT ![w] = @ + 1]
        BY <2>4, Beginning, StepNames, Counting DEF BeginListing
      <3>2. ~Lists(t, v) /\ (Lists(t, v)' <=> v = w)
        BY <3>1 DEF Begun, Lists, At
      <3>3. listings'[v] = IF v = w THEN 1 ELSE listings[v]
        BY <1>0, <3>1
      <3> HIDE DEF Lists
      <3> QED
        BY <1>0, <2>1, <3>1, <3>2, <3>3 DEF Listed
    <2>5. CASE EndListing(t)
      <3>1. Ended(t) /\ At(t, "list")
            /\ listings' = [listings EXCEPT ![task[t].window] = IF @ > 0 THEN @ - 1 ELSE 0]
        BY <2>5, Ending DEF EndListing
      <3>2. ~Lists(t, v)' /\ (Lists(t, v) <=> v = task[t].window)
        BY <3>1 DEF Ended, Lists, At
      <3>3. listings'[v] = IF v = task[t].window THEN IF listings[v] > 0 THEN listings[v] - 1 ELSE 0
                           ELSE listings[v]
        BY <1>0, <3>1
      <3> HIDE DEF Lists
      <3> QED
        BY <1>0, <2>1, <3>2, <3>3 DEF Listed
    <2> QED
      BY <2>2, <2>3, <2>4, <2>5 DEF ListQuiet
  <1>2. ASSUME Aside PROVE Listed(v)'
    <2>1. listings' = listings
      BY <1>2 DEF Aside, Spawned, WindowStep, Clock, DropLater, ReleaseLater, RemoveLater,
         CloseEvent, 
                  CloseMark, CloseRevoke, CloseRemove, CancelExport, ConsumeRoot, AgeRead, AgeExport, vars
    <2> QED
      BY <1>0, <1>2, <2>1, AsideTasks DEF Listed, Lists, At
  <1> QED
    BY <1>1, <1>2, Kinds

\* A step leaves the window and the run of a token as they were, or issues the
\* token.
LEMMA KeptStep ==
  ASSUME ReadsOK, ReadsTyped, ExportsOK, RootsOK, TasksOK, TokenInv, NEW k \in Opens,
         [Next]_vars
  PROVE  KeptMove(k)
  <1> USE Names, Counting, Drawn DEF KeptMove, Tokenless, Selecting, vars, closeVars,
      readVars, exportVars, rootVars, ghosts, At
  <1>1. ASSUME NEW t \in Tasks, NEW w \in Windows, NEW r \in Runs, BeginOpen(t, w, r)
        PROVE  KeptMove(k)
    BY <1>1, Pruning, Beginning
       DEF BeginOpen, Present, SameRun, Replaced, OfWindow, Begun
  <1>2. ASSUME NEW t \in Tasks, Issue(t) PROVE KeptMove(k)
    BY <1>2, Pruning DEF Issue
  <1>3. ASSUME NEW t \in Tasks, RefuseOpen(t) PROVE KeptMove(k)
    BY <1>3, Pruning, Going
       DEF RefuseOpen, Moved
  <1>4. ASSUME NEW t \in Tasks, BeginSummary(t) PROVE KeptMove(k)
    BY <1>4, TakingLease, Going, Forgetting
       DEF BeginSummary, Readable, Expired, Authorised, OfWindow, Present, Remade, Moved, Lost
  <1>5. ASSUME NEW t \in Tasks, CloseOpened(t) PROVE KeptMove(k)
    BY <1>5 DEF CloseOpened, CloseRead, ReadsTyped
  <1>6. ASSUME NEW t \in Tasks, FinishRead(t) PROVE KeptMove(k)
    BY <1>6, Going, Forgetting, Unleasing, Ending
       DEF FinishRead, Finish, AfterRead, Moved, Lost, Remade, Ended
  <1>7. ASSUME NEW t \in Tasks, RevokeLease(t) PROVE KeptMove(k)
    BY <1>7, Forgetting, Going, Ending
       DEF RevokeLease, Lost, Moved, Ended
  <1>8. ASSUME NEW t \in Tasks, Validate(t) PROVE KeptMove(k)
    BY <1>8, Going, Forgetting
       DEF Validate, Authorised, Expired, OfWindow, Present, Moved, Lost
  <1>9. ASSUME NEW t \in Tasks, LeaseExport(t) PROVE KeptMove(k)
    BY <1>9, TakingLease, Going, Forgetting, Ending
       DEF LeaseExport, Readable, Expired, Authorised, OfWindow, Present, Remade, Moved,
           Lost, Ended
  <1>10. ASSUME NEW t \in Tasks, EndWriting(t) PROVE KeptMove(k)
    BY <1>10, Going, Forgetting, Unleasing
       DEF EndWriting, Finish, Moved, Lost, Remade
  <1>11. ASSUME NEW t \in Tasks, DropLease(t) PROVE KeptMove(k)
    BY <1>11, Ending, Going, Unleasing
       DEF DropLease, Ended, Moved, Remade
  <1>12. ASSUME NEW t \in Tasks, NEW s \in Opens, BeginRead(t, s) PROVE KeptMove(k)
    BY <1>12, TakingLease, Beginning, Forgetting
       DEF BeginRead, Present, Readable, Expired, Authorised, OfWindow, Remade, Begun, Lost
  <1>13. ASSUME NEW t \in Tasks, NEW s \in Opens, CloseToken(t, s) PROVE KeptMove(k)
    BY <1>13 DEF CloseToken, CloseRead, ReadsTyped
  <1>14. ASSUME NEW t \in Tasks, NEW s \in Opens, BeginSelection(t, s) PROVE KeptMove(k)
    BY <1>14, Beginning, Forgetting
       DEF BeginSelection, Present, Authorised, Expired, OfWindow, Begun, Lost
  <1>15. ASSUME NEW s \in Opens, ReleaseLater(s) PROVE KeptMove(k)
    BY <1>15, Unleasing
       DEF ReleaseLater, Remade
  <1>16. ASSUME NEW w \in Windows, RemoveLater(w) PROVE KeptMove(k)
    BY <1>16
       DEF RemoveLater, RemoveFor, OfWindow, Present
  <1>17. CASE CloseRemove
    BY <1>17
       DEF CloseRemove, RemoveFor, OfWindow, Present
  <1>18. ASSUME NEW s \in Opens, AgeRead(s) PROVE KeptMove(k)
    BY <1>18
       DEF AgeRead, Present
  <1>19. CASE UNCHANGED reads
    BY <1>19
  <1> QED
    BY Frame, <1>19, <1>1, <1>2, <1>3, <1>4, <1>5, <1>6, <1>7, <1>8, <1>9, <1>10, <1>11,
       <1>12, <1>13, 
       <1>14, <1>15, <1>16, <1>17, <1>18
       DEF ReadWork

\* A step leaves a pending opening as it was, removes it, or begins it.
LEMMA PendingStep ==
  ASSUME ReadsOK, ReadsTyped, ExportsOK, RootsOK, TasksOK, TokenInv, NEW k \in Opens,
         [Next]_vars
  PROVE  PendingMove(k)
  <1> USE Names, Counting, Drawn DEF PendingMove, Tokenless, Selecting, vars, closeVars,
      readVars, exportVars, rootVars, ghosts, At
  <1>1. ASSUME NEW t \in Tasks, NEW w \in Windows, NEW r \in Runs, BeginOpen(t, w, r)
        PROVE  PendingMove(k)
    <2>1. CASE OpenAdmitted(w, r)
      <3>0. PICK s \in Opens : s = opened + 1
        BY <1>1, Drawing DEF BeginOpen
      <3>1. opened' = s /\ pending' = [pending EXCEPT ![s] = [window |-> w, run |-> r]]
        BY <1>1, <2>1, <3>0 DEF BeginOpen
      <3>2. CASE k = s
        <4>1. pending'[k] = [window |-> w, run |-> r]
          BY <3>1, <3>2 DEF ReadsOK
        <4>2. pending'[k].window = w /\ pending'[k].run = r
          BY <4>1
        <4> QED
          BY <1>1, <2>1, <3>0, <3>1, <3>2, <4>2
      <3>3. CASE k # s
        BY <3>1, <3>3 DEF ReadsOK
      <3> QED
        BY <3>2, <3>3
    <2>2. CASE ~OpenAdmitted(w, r)
      BY <1>1, <2>2 DEF BeginOpen
    <2> QED
      BY <2>1, <2>2
  <1>2. ASSUME NEW t \in Tasks, Issue(t) PROVE PendingMove(k)
    BY <1>2 DEF Issue, ReadsOK
  <1>3. ASSUME NEW t \in Tasks, DropOpen(t) PROVE PendingMove(k)
    BY <1>3 DEF DropOpen, ReadsOK
  <1>4. ASSUME NEW s \in Opens, DropLater(s) PROVE PendingMove(k)
    BY <1>4 DEF DropLater, ReadsOK
  <1>5. ASSUME NEW w \in Windows, RemoveLater(w) PROVE PendingMove(k)
    BY <1>5 DEF RemoveLater, RemoveFor
  <1>6. CASE CloseRemove
    BY <1>6 DEF CloseRemove, RemoveFor
  <1>7. CASE UNCHANGED <<opened, pending, dropping>>
    BY <1>7
  <1> QED
    BY Frame, <1>7, <1>1, <1>2, <1>3, <1>4, <1>5, <1>6
       DEF PendingWork

\* A command that leaves its opening behind takes the pending record with it,
\* issues the token, or leaves the record to a task of its own
\* (ResultOpenPermit's destructor).
LEMMA OpenAct ==
  ASSUME ReadsOK, ReadsTyped, ExportsOK, RootsOK, TasksOK, TokenInv, NEW t \in Tasks, Acts(t),
         NEW k \in Opens
  PROVE  OpenMove(t, k)
  <1> USE Names, Counting, Drawn, StepNames, Drawing DEF OpenMove, OpensAt, Tokenless,
      Selecting, vars, closeVars, readVars, exportVars, rootVars, ghosts, At
  <1>1. ASSUME NEW w \in Windows, NEW r \in Runs, BeginOpen(t, w, r) PROVE OpenMove(t, k)
    <2>1. CASE OpenAdmitted(w, r)
      <3>0. PICK s \in Opens : s = opened + 1
        BY <1>1, Drawing DEF BeginOpen
      <3>1. opened' = s /\ pending' = [pending EXCEPT ![s] = [window |-> w, run |-> r]]
            /\ Begin(t, "open", w, s, 0)
        BY <1>1, <2>1, <3>0 DEF BeginOpen
      <3>2. Begun(t, "open", w, s, 0)
        BY <3>1, Beginning
      <3>3. CASE k = s
        BY <3>2, <3>3 DEF Begun
      <3>4. CASE k # s
        BY <1>1, <3>1, <3>4 DEF ReadsOK, BeginOpen
      <3> QED
        BY <3>3, <3>4
    <2>2. CASE ~OpenAdmitted(w, r)
      BY <1>1, <2>2 DEF BeginOpen
    <2> QED
      BY <2>1, <2>2
  <1>2. CASE Issue(t)
    <2>1. CASE k = task[t].token
      BY <1>2, <2>1 DEF Issue, ReadsOK
    <2>2. CASE k # task[t].token
      BY <1>2, <2>2 DEF Issue, ReadsOK
    <2> QED
      BY <2>1, <2>2
  <1>3. CASE RefuseOpen(t)
    BY <1>3, Pruning, Going
       DEF RefuseOpen, Moved
  <1>4. CASE DropOpen(t)
    <2>1. CASE k = task[t].token
      BY <1>4, <2>1 DEF DropOpen, ReadsOK
    <2>2. CASE k # task[t].token
      BY <1>4, <2>2 DEF DropOpen, ReadsOK
    <2> QED
      BY <2>1, <2>2
  <1>5. CASE RevokeReplaced(t)
    BY <1>5, Renumbering, Revocation
       DEF RevokeReplaced, RevokeFor, Present, Moved, Revoked
  <1>6. CASE BeginSummary(t)
    BY <1>6, TakingLease, Going, Forgetting
       DEF BeginSummary, Readable, Expired, Authorised, OfWindow, Present, Remade, Moved, Lost
  <1>7. CASE CheckOpened(t)
    BY <1>7, Ending, Going
       DEF CheckOpened, Ended, Moved
  <1>8. CASE CloseOpened(t)
    BY <1>8, Beginning, Ending
       DEF CloseOpened, CloseRead, OfWindow, Present, Begun, Ended
  <1>9. CASE FinishRead(t)
    BY <1>9, Going, Forgetting, Unleasing, Ending
       DEF FinishRead, Finish, AfterRead, Moved, Lost, Remade, Ended
  <1>10. CASE RevokeLease(t)
    BY <1>10, Forgetting, Going, Ending
       DEF RevokeLease, Lost, Moved, Ended
  <1>11. CASE RevokeClosed(t)
    BY <1>11, Ending, Revocation
       DEF RevokeClosed, RevokeFor, Present, Ended, Revoked
  <1>12. CASE Reserve(t)
    BY <1>12, Renumbering, Ending
       DEF Reserve, Present, OfWindow, Moved, Ended
  <1>13. CASE Validate(t)
    BY <1>13, Going, Forgetting
       DEF Validate, Authorised, Expired, OfWindow, Present, Moved, Lost
  <1>14. CASE GrantExport(t)
    BY <1>14, Staging, Ending, Going
       DEF GrantExport, Staged, Ended, Moved
  <1>15. CASE Unpick(t)
    BY <1>15, Ending
       DEF Unpick, Ended
  <1>16. CASE LeaseExport(t)
    BY <1>16, TakingLease, Going, Forgetting, Ending
       DEF LeaseExport, Readable, Expired, Authorised, OfWindow, Present, Remade, Moved,
           Lost, Ended
  <1>17. CASE RunExport(t)
    BY <1>17, Staging, Going
       DEF RunExport, Granted, Staged, Moved
  <1>18. CASE EndWriting(t)
    BY <1>18, Going, Forgetting, Unleasing
       DEF EndWriting, Finish, Moved, Lost, Remade
  <1>19. CASE DropLease(t)
    BY <1>19, Ending, Going, Unleasing
       DEF DropLease, Ended, Moved, Remade
  <1>20. CASE Cleanup(t)
    BY <1>20, Ending
       DEF Cleanup, Ended
  <1>21. CASE EndListing(t)
    BY <1>21, Ending
       DEF EndListing, Ended
  <1>22. CASE EndPick(t)
    BY <1>22, Ending
       DEF EndPick, Awaited, Present, Ended
  <1>23. ASSUME NEW s \in Opens, BeginRead(t, s) PROVE OpenMove(t, k)
    BY <1>23, TakingLease, Beginning, Forgetting
       DEF BeginRead, Present, Readable, Expired, Authorised, OfWindow, Remade, Begun, Lost
  <1>24. ASSUME NEW s \in Opens, CloseToken(t, s) PROVE OpenMove(t, k)
    BY <1>24, Beginning, Ending
       DEF CloseToken, Present, CloseRead, OfWindow, Begun, Ended
  <1>25. ASSUME NEW s \in Opens, BeginSelection(t, s) PROVE OpenMove(t, k)
    BY <1>25, Beginning, Forgetting
       DEF BeginSelection, Present, Authorised, Expired, OfWindow, Begun, Lost
  <1>26. ASSUME NEW x \in Selections, BeginExport(t, x) PROVE OpenMove(t, k)
    BY <1>26, Beginning
       DEF BeginExport, Granted, Begun
  <1>27. ASSUME NEW w \in Windows, BeginListing(t, w) PROVE OpenMove(t, k)
    BY <1>27, Beginning
       DEF BeginListing, Begun
  <1>28. ASSUME NEW w \in Windows, BeginPick(t, w) PROVE OpenMove(t, k)
    BY <1>28, Beginning
       DEF BeginPick, Present, Begun
  <1> QED
    BY <1>1, <1>2, <1>3, <1>4, <1>5, <1>6, <1>7, <1>8, <1>9, <1>10, <1>11, <1>12, <1>13,
       <1>14, <1>15, <1>16, <1>17, <1>18, <1>19, <1>20, <1>21, <1>22, <1>23, <1>24, <1>25,
       <1>26, <1>27, <1>28
       DEF Acts, OpenStep, ReadStep, ExportStep, RootStep

\* A step that is of no command removes a pending opening, or leaves it to the
\* task that is to remove it.
LEMMA OpenAside ==
  ASSUME ReadsOK, ReadsTyped, ExportsOK, RootsOK, TasksOK, TokenInv, Aside, NEW k \in Opens
  PROVE  OpenLeft(k)
  <1> USE Names, Counting DEF OpenLeft, vars, closeVars, readVars, exportVars, rootVars,
      ghosts, At
  <1>1. ASSUME NEW s \in Opens, DropLater(s) PROVE OpenLeft(k)
    BY <1>1 DEF DropLater, ReadsOK
  <1>2. ASSUME NEW s \in Opens, ReleaseLater(s) PROVE OpenLeft(k)
    BY <1>2, Unleasing
       DEF ReleaseLater, Remade
  <1>3. ASSUME NEW w \in Windows, RemoveLater(w) PROVE OpenLeft(k)
    BY <1>3 DEF RemoveLater, RemoveFor
  <1>4. ASSUME NEW w \in Windows, CloseEvent(w) PROVE OpenLeft(k)
    BY <1>4
       DEF CloseEvent, OfWindow, Present
  <1>5. CASE CloseMark
    BY <1>5
       DEF CloseMark
  <1>6. CASE CloseRevoke
    BY <1>6, Revocation
       DEF CloseRevoke, OfWindow, Present, Revoked
  <1>7. CASE CloseRemove
    BY <1>7 DEF CloseRemove, RemoveFor
  <1>8. ASSUME NEW x \in Selections, CancelExport(x) PROVE OpenLeft(k)
    BY <1>8, Cancelling
       DEF CancelExport, Granted, Staged
  <1>9. ASSUME NEW p \in Pickers, ConsumeRoot(p) PROVE OpenLeft(k)
    BY <1>9
       DEF ConsumeRoot, Present
  <1>10. ASSUME NEW s \in Opens, AgeRead(s) PROVE OpenLeft(k)
    BY <1>10
       DEF AgeRead, Present
  <1>11. ASSUME NEW x \in Selections, AgeExport(x) PROVE OpenLeft(k)
    BY <1>11
       DEF AgeExport, Granted
  <1>12. CASE UNCHANGED vars
    BY <1>12
  <1> QED
    BY <1>1, <1>2, <1>3, <1>4, <1>5, <1>6, <1>7, <1>8, <1>9, <1>10, <1>11, <1>12
       DEF Aside, Spawned, WindowStep, Clock

\* A pending opening belongs to the command that opens, or to a destructor's
\* task.
LEMMA PlacesKept ==
  ASSUME ReadsOK, ReadsTyped, ExportsOK, RootsOK, TasksOK, TokenInv, PlaceInv,
         NEW k \in Opens, [Next]_vars
  PROVE  Opened(k)'
  <1>0. Opened(k)
    BY DEF PlaceInv
  <1>1. ASSUME NEW t \in Tasks, Acts(t) PROVE Opened(k)'
    <2>1. ASSUME NEW u \in Tasks \ {t} PROVE OpensAt(u, k)' <=> OpensAt(u, k)
      BY <1>1, <2>1, OthersStay DEF OpensAt
    <2>2. OpenMove(t, k)
      BY <1>1, OpenAct
    <2>3. Opened(k) <=> (pending[k] # None => k \in dropping \/ \E u \in Tasks : OpensAt(u, k))
      BY DEF Opened, OpensAt
    <2>4. Opened(k)' <=> (pending'[k] # None => k \in dropping' \/ \E u \in Tasks : OpensAt(u, k)')
      BY DEF Opened, OpensAt
    <2> HIDE DEF OpensAt
    <2> QED
      BY <1>0, <2>1, <2>2, <2>3, <2>4 DEF OpenMove
  <1>2. ASSUME Aside PROVE Opened(k)'
    <2>1. OpenLeft(k)
      BY <1>2, OpenAside
    <2> QED
      BY <1>0, <1>2, <2>1, AsideTasks DEF OpenLeft, Opened
  <1> QED
    BY <1>1, <1>2, Kinds

\* A command that leaves its selection or its export grants it, takes it away,
\* or hands it to its own next step (the destructors of
\* HistoryExportSelectionPermit and HistoryExportRunCleanup).
LEMMA WorkAct ==
  ASSUME ReadsOK, ReadsTyped, ExportsOK, RootsOK, TasksOK, TokenInv, NEW t \in Tasks, Acts(t),
         NEW y \in Selections, ExportInv,
         \A x \in Selections : exports[x] # None => x <= selected
  PROVE  WorkMove(t, y)
  <1> USE Names, Counting, Drawn, StepNames, Drawing, ExportFields DEF WorkMove, PicksFor,
      RunsFor, Tokenless, Selecting, vars, closeVars, readVars, exportVars, rootVars, ghosts,
      At
  <1>1. ASSUME NEW w \in Windows, NEW r \in Runs, BeginOpen(t, w, r) PROVE WorkMove(t, y)
    BY <1>1, Pruning, Beginning
       DEF BeginOpen, Present, SameRun, Replaced, OfWindow, Begun
  <1>2. CASE Issue(t)
    BY <1>2, Pruning, Going, Renumbering
       DEF Issue, Replaced, Present, SameRun, OfWindow, Moved
  <1>3. CASE RefuseOpen(t)
    BY <1>3, Pruning, Going
       DEF RefuseOpen, Moved
  <1>4. CASE DropOpen(t)
    BY <1>4, Ending
       DEF DropOpen, Ended
  <1>5. CASE RevokeReplaced(t)
    BY <1>5, Renumbering, Revocation
       DEF RevokeReplaced, RevokeFor, Present, Moved, Revoked
  <1>6. CASE BeginSummary(t)
    BY <1>6, TakingLease, Going, Forgetting
       DEF BeginSummary, Readable, Expired, Authorised, OfWindow, Present, Remade, Moved, Lost
  <1>7. CASE CheckOpened(t)
    BY <1>7, Ending, Going
       DEF CheckOpened, Ended, Moved
  <1>8. CASE CloseOpened(t)
    BY <1>8, Beginning, Ending
       DEF CloseOpened, CloseRead, OfWindow, Present, Begun, Ended
  <1>9. CASE FinishRead(t)
    BY <1>9, Going, Forgetting, Unleasing, Ending
       DEF FinishRead, Finish, AfterRead, Moved, Lost, Remade, Ended
  <1>10. CASE RevokeLease(t)
    BY <1>10, Forgetting, Going, Ending
       DEF RevokeLease, Lost, Moved, Ended
  <1>11. CASE RevokeClosed(t)
    BY <1>11, Ending, Revocation
       DEF RevokeClosed, RevokeFor, Present, Ended, Revoked
  <1>12. CASE Reserve(t)
    <2>1. CASE SelectionRoom(exports, task[t].window)
      <3> DEFINE e == [window |-> task[t].window, token |-> task[t].token, stage |-> "pending",
                       cancelled |-> FALSE]
      <3>1. PICK n \in Selections : n = selected'
        BY <1>12, <2>1, Drawing DEF Reserve
      <3>2. exports' = [exports EXCEPT ![n] = e] /\ Renumber(t, "picking", n)
        BY <1>12, <2>1, <3>1 DEF Reserve
      <3>3. Moved(t, "picking", n)
        BY <1>12, <3>2, Renumbering DEF Reserve
      <3>4. CASE y = n
        <4>1. exports'[y].stage = "pending"
          BY <3>2, <3>4 DEF ExportsOK
        <4>2. PicksFor(t, y)'
          BY <3>3, <3>4 DEF Moved
        <4> QED
          BY <4>1, <4>2
      <3>5. CASE y # n
        <4>1. exports'[y] = exports[y]
          BY <3>2, <3>5 DEF ExportsOK
        <4>2. ~PicksFor(t, y) /\ ~RunsFor(t, y)
          BY <1>12 DEF Reserve
        <4> QED
          BY <4>1, <4>2
      <3> QED
        BY <3>4, <3>5
    <2>2. CASE ~SelectionRoom(exports, task[t].window)
      BY <1>12, <2>2, Ending DEF Reserve, Ended
    <2> QED
      BY <2>1, <2>2
  <1>13. CASE Validate(t)
    BY <1>13, Going, Forgetting
       DEF Validate, Authorised, Expired, OfWindow, Present, Moved, Lost
  <1>14. CASE GrantExport(t)
    BY <1>14, Staging, Ending, Going
       DEF GrantExport, Staged, Ended, Moved
  <1>15. CASE Unpick(t)
    <2>1. PICK x \in Selections : x = task[t].number
      BY <1>15 DEF Unpick
    <2>2. exports' = [exports EXCEPT ![x] = None] /\ Ended(t)
      BY <1>15, <2>1, Ending DEF Unpick
    <2>3. CASE y = x
      BY <2>2, <2>3 DEF ExportsOK
    <2>4. CASE y # x
      <3>1. exports'[y] = exports[y]
        BY <2>2, <2>4 DEF ExportsOK
      <3>2. ~PicksFor(t, y) /\ ~RunsFor(t, y)
        BY <2>1, <2>4
      <3> QED
        BY <3>1, <3>2
    <2> QED
      BY <2>3, <2>4
  <1>16. CASE LeaseExport(t)
    BY <1>16, TakingLease, Going, Forgetting, Ending
       DEF LeaseExport, Readable, Expired, Authorised, OfWindow, Present, Remade, Moved,
           Lost, Ended
  <1>17. CASE RunExport(t)
    BY <1>17, Staging, Going
       DEF RunExport, Granted, Staged, Moved
  <1>18. CASE EndWriting(t)
    BY <1>18, Going, Forgetting, Unleasing
       DEF EndWriting, Finish, Moved, Lost, Remade
  <1>19. CASE DropLease(t)
    BY <1>19, Ending, Going, Unleasing
       DEF DropLease, Ended, Moved, Remade
  <1>20. CASE Cleanup(t)
    <2>1. PICK x \in Selections : x = task[t].number
      BY <1>20 DEF Cleanup
    <2>2. exports' = [exports EXCEPT ![x] = None] /\ Ended(t)
      BY <1>20, <2>1, Ending DEF Cleanup
    <2>3. CASE y = x
      BY <2>2, <2>3 DEF ExportsOK
    <2>4. CASE y # x
      <3>1. exports'[y] = exports[y]
        BY <2>2, <2>4 DEF ExportsOK
      <3>2. ~PicksFor(t, y) /\ ~RunsFor(t, y)
        BY <2>1, <2>4
      <3> QED
        BY <3>1, <3>2
    <2> QED
      BY <2>3, <2>4
  <1>21. CASE EndListing(t)
    BY <1>21, Ending
       DEF EndListing, Ended
  <1>22. CASE EndPick(t)
    BY <1>22, Ending
       DEF EndPick, Awaited, Present, Ended
  <1>23. ASSUME NEW s \in Opens, BeginRead(t, s) PROVE WorkMove(t, y)
    BY <1>23, TakingLease, Beginning, Forgetting
       DEF BeginRead, Present, Readable, Expired, Authorised, OfWindow, Remade, Begun, Lost
  <1>24. ASSUME NEW s \in Opens, CloseToken(t, s) PROVE WorkMove(t, y)
    BY <1>24, Beginning, Ending
       DEF CloseToken, Present, CloseRead, OfWindow, Begun, Ended
  <1>25. ASSUME NEW s \in Opens, BeginSelection(t, s) PROVE WorkMove(t, y)
    BY <1>25, Beginning, Forgetting
       DEF BeginSelection, Present, Authorised, Expired, OfWindow, Begun, Lost
  <1>26. ASSUME NEW x \in Selections, BeginExport(t, x) PROVE WorkMove(t, y)
    BY <1>26, Beginning
       DEF BeginExport, Granted, Begun
  <1>27. ASSUME NEW w \in Windows, BeginListing(t, w) PROVE WorkMove(t, y)
    BY <1>27, Beginning
       DEF BeginListing, Begun
  <1>28. ASSUME NEW w \in Windows, BeginPick(t, w) PROVE WorkMove(t, y)
    BY <1>28, Beginning
       DEF BeginPick, Present, Begun
  <1> QED
    BY <1>1, <1>2, <1>3, <1>4, <1>5, <1>6, <1>7, <1>8, <1>9, <1>10, <1>11, <1>12, <1>13,
       <1>14, <1>15, <1>16, <1>17, <1>18, <1>19, <1>20, <1>21, <1>22, <1>23, <1>24, <1>25,
       <1>26, <1>27, <1>28
       DEF Acts, OpenStep, ReadStep, ExportStep, RootStep

\* A step that is of no command removes a selection or an export, or leaves its
\* stage alone.
LEMMA WorkAside ==
  ASSUME ReadsOK, ReadsTyped, ExportsOK, RootsOK, TasksOK, TokenInv, Aside,
         NEW y \in Selections
  PROVE  WorkLeft(y)
  <1> USE Names, Counting, ExportFields DEF WorkLeft, vars, closeVars, readVars, exportVars,
      rootVars, ghosts, At
  <1>1. ASSUME NEW s \in Opens, DropLater(s) PROVE WorkLeft(y)
    BY <1>1
       DEF DropLater
  <1>2. ASSUME NEW s \in Opens, ReleaseLater(s) PROVE WorkLeft(y)
    BY <1>2, Unleasing
       DEF ReleaseLater, Remade
  <1>3. ASSUME NEW w \in Windows, RemoveLater(w) PROVE WorkLeft(y)
    BY <1>3
       DEF RemoveLater, RemoveFor, OfWindow, Present
  <1>4. ASSUME NEW w \in Windows, CloseEvent(w) PROVE WorkLeft(y)
    BY <1>4
       DEF CloseEvent, OfWindow, Present
  <1>5. CASE CloseMark
    BY <1>5
       DEF CloseMark
  <1>6. CASE CloseRevoke
    BY <1>6, Revocation
       DEF CloseRevoke, OfWindow, Present, Revoked
  <1>7. CASE CloseRemove
    BY <1>7
       DEF CloseRemove, RemoveFor, OfWindow, Present
  <1>8. ASSUME NEW x \in Selections, CancelExport(x) PROVE WorkLeft(y)
    <2>1. CASE Granted(x) /\ exports' = [exports EXCEPT ![x] = None]
      BY <2>1 DEF ExportsOK
    <2>2. CASE exports[x] # None /\ Cancel(x)
      <3>1. Staged(x, exports[x].stage, TRUE)
        BY <2>2, Cancelling
      <3>2. CASE y = x
        BY <2>2, <3>1, <3>2 DEF Staged
      <3>3. CASE y # x
        BY <3>1, <3>3 DEF Staged
      <3> QED
        BY <3>2, <3>3
    <2> QED
      BY <1>8, <2>1, <2>2 DEF CancelExport
  <1>9. ASSUME NEW p \in Pickers, ConsumeRoot(p) PROVE WorkLeft(y)
    BY <1>9
       DEF ConsumeRoot, Present
  <1>10. ASSUME NEW s \in Opens, AgeRead(s) PROVE WorkLeft(y)
    BY <1>10
       DEF AgeRead, Present
  <1>11. ASSUME NEW x \in Selections, AgeExport(x) PROVE WorkLeft(y)
    BY <1>11
       DEF AgeExport, Granted
  <1>12. CASE UNCHANGED vars
    BY <1>12
  <1> QED
    BY <1>1, <1>2, <1>3, <1>4, <1>5, <1>6, <1>7, <1>8, <1>9, <1>10, <1>11, <1>12
       DEF Aside, Spawned, WindowStep, Clock

\* A step of a command keeps the pending record it works on of its own window.
LEMMA AskedAct ==
  ASSUME ReadsOK, ReadsTyped, ExportsOK, RootsOK, TasksOK, TokenInv, NEW t \in Tasks, Acts(t),
         Asked(t)
  PROVE  Asked(t)'
  <1> USE Names, Counting, Drawn, StepNames, Drawing, GrantFields, ExportFields DEF Asked,
      Tokenless, Selecting, vars, closeVars, readVars, exportVars, rootVars, ghosts, At
  <1>1. ASSUME NEW w \in Windows, NEW r \in Runs, BeginOpen(t, w, r) PROVE Asked(t)'
    <2>1. CASE OpenAdmitted(w, r)
      <3>0. PICK s \in Opens : s = opened + 1
        BY <1>1, Drawing DEF BeginOpen
      <3>1. opened' = s /\ pending' = [pending EXCEPT ![s] = [window |-> w, run |-> r]]
            /\ Begin(t, "open", w, s, 0)
        BY <1>1, <2>1, <3>0 DEF BeginOpen
      <3>2. Begun(t, "open", w, s, 0)
        BY <3>1, Beginning
      <3>3. pending'[s].window = w
        BY <3>1 DEF ReadsOK
      <3> QED
        BY <3>2, <3>3 DEF Begun
    <2>2. CASE ~OpenAdmitted(w, r)
      BY <1>1, <2>2 DEF BeginOpen
    <2> QED
      BY <2>1, <2>2
  <1>2. CASE Issue(t)
    BY <1>2, Pruning, Going, Renumbering
       DEF Issue, Replaced, Present, SameRun, OfWindow, Moved
  <1>3. CASE RefuseOpen(t)
    BY <1>3, Pruning, Going
       DEF RefuseOpen, Moved
  <1>4. CASE DropOpen(t)
    BY <1>4, Ending
       DEF DropOpen, Ended
  <1>5. CASE RevokeReplaced(t)
    BY <1>5, Renumbering, Revocation
       DEF RevokeReplaced, RevokeFor, Present, Moved, Revoked
  <1>6. CASE BeginSummary(t)
    BY <1>6, TakingLease, Going, Forgetting
       DEF BeginSummary, Readable, Expired, Authorised, OfWindow, Present, Remade, Moved, Lost
  <1>7. CASE CheckOpened(t)
    BY <1>7, Ending, Going
       DEF CheckOpened, Ended, Moved
  <1>8. CASE CloseOpened(t)
    BY <1>8, Beginning, Ending
       DEF CloseOpened, CloseRead, OfWindow, Present, Begun, Ended
  <1>9. CASE FinishRead(t)
    BY <1>9, Going, Forgetting, Unleasing, Ending
       DEF FinishRead, Finish, AfterRead, Moved, Lost, Remade, Ended
  <1>10. CASE RevokeLease(t)
    BY <1>10, Forgetting, Going, Ending
       DEF RevokeLease, Lost, Moved, Ended
  <1>11. CASE RevokeClosed(t)
    BY <1>11, Ending, Revocation
       DEF RevokeClosed, RevokeFor, Present, Ended, Revoked
  <1>12. CASE Reserve(t)
    BY <1>12, Renumbering, Ending
       DEF Reserve, Present, OfWindow, Moved, Ended
  <1>13. CASE Validate(t)
    BY <1>13, Going, Forgetting
       DEF Validate, Authorised, Expired, OfWindow, Present, Moved, Lost
  <1>14. CASE GrantExport(t)
    BY <1>14, Staging, Ending, Going
       DEF GrantExport, Staged, Ended, Moved
  <1>15. CASE Unpick(t)
    BY <1>15, Ending
       DEF Unpick, Ended
  <1>16. CASE LeaseExport(t)
    BY <1>16, TakingLease, Going, Forgetting, Ending
       DEF LeaseExport, Readable, Expired, Authorised, OfWindow, Present, Remade, Moved,
           Lost, Ended
  <1>17. CASE RunExport(t)
    BY <1>17, Staging, Going
       DEF RunExport, Granted, Staged, Moved
  <1>18. CASE EndWriting(t)
    BY <1>18, Going, Forgetting, Unleasing
       DEF EndWriting, Finish, Moved, Lost, Remade
  <1>19. CASE DropLease(t)
    BY <1>19, Ending, Going, Unleasing
       DEF DropLease, Ended, Moved, Remade
  <1>20. CASE Cleanup(t)
    BY <1>20, Ending
       DEF Cleanup, Ended
  <1>21. CASE EndListing(t)
    BY <1>21, Ending
       DEF EndListing, Ended
  <1>22. CASE EndPick(t)
    BY <1>22, Ending
       DEF EndPick, Awaited, Present, Ended
  <1>23. ASSUME NEW s \in Opens, BeginRead(t, s) PROVE Asked(t)'
    BY <1>23, TakingLease, Beginning, Forgetting
       DEF BeginRead, Present, Readable, Expired, Authorised, OfWindow, Remade, Begun, Lost
  <1>24. ASSUME NEW s \in Opens, CloseToken(t, s) PROVE Asked(t)'
    BY <1>24, Beginning, Ending
       DEF CloseToken, Present, CloseRead, OfWindow, Begun, Ended
  <1>25. ASSUME NEW s \in Opens, BeginSelection(t, s) PROVE Asked(t)'
    BY <1>25, Beginning, Forgetting
       DEF BeginSelection, Present, Authorised, Expired, OfWindow, Begun, Lost
  <1>26. ASSUME NEW x \in Selections, BeginExport(t, x) PROVE Asked(t)'
    BY <1>26, Beginning
       DEF BeginExport, Granted, Begun
  <1>27. ASSUME NEW w \in Windows, BeginListing(t, w) PROVE Asked(t)'
    BY <1>27, Beginning
       DEF BeginListing, Begun
  <1>28. ASSUME NEW w \in Windows, BeginPick(t, w) PROVE Asked(t)'
    BY <1>28, Beginning
       DEF BeginPick, Present, Begun
  <1> QED
    BY <1>1, <1>2, <1>3, <1>4, <1>5, <1>6, <1>7, <1>8, <1>9, <1>10, <1>11, <1>12, <1>13,
       <1>14, <1>15, <1>16, <1>17, <1>18, <1>19, <1>20, <1>21, <1>22, <1>23, <1>24, <1>25,
       <1>26, <1>27, <1>28
       DEF Acts, OpenStep, ReadStep, ExportStep, RootStep

\* A pending selection belongs to the command that picks for it, a running
\* export to the command that writes.
LEMMA WorkStep ==
  ASSUME ReadsOK, ReadsTyped, ExportsOK, RootsOK, TasksOK, TokenInv, PlaceInv, ExportInv,
         NEW y \in Selections, [Next]_vars
  PROVE  Worked(y)'
  <1>0. Worked(y)
    BY DEF PlaceInv
  <1>1. ASSUME NEW t \in Tasks, Acts(t) PROVE Worked(y)'
    <2>1. ASSUME NEW u \in Tasks \ {t}
          PROVE  (PicksFor(u, y)' <=> PicksFor(u, y)) /\ (RunsFor(u, y)' <=> RunsFor(u, y))
      BY <1>1, <2>1, OthersStay DEF PicksFor, RunsFor
    <2>2. WorkMove(t, y)
      BY <1>1, WorkAct DEF TokenInv, ExportDrawn
    <2>3. Worked(y) <=> /\ exports[y] # None /\ exports[y].stage = "pending" =>
                             \E u \in Tasks : PicksFor(u, y)
                        /\ exports[y] # None /\ exports[y].stage = "running" =>
                             \E u \in Tasks : RunsFor(u, y)
      BY DEF Worked, PicksFor, RunsFor
    <2>4. Worked(y)' <=> /\ exports'[y] # None /\ exports'[y].stage = "pending" =>
                              \E u \in Tasks : PicksFor(u, y)'
                         /\ exports'[y] # None /\ exports'[y].stage = "running" =>
                              \E u \in Tasks : RunsFor(u, y)'
      BY DEF Worked, PicksFor, RunsFor
    <2> HIDE DEF PicksFor, RunsFor
    <2> QED
      BY <1>0, <2>1, <2>2, <2>3, <2>4 DEF WorkMove
  <1>2. ASSUME Aside PROVE Worked(y)'
    <2>1. WorkLeft(y)
      BY <1>2, WorkAside
    <2> QED
      BY <1>0, <1>2, <2>1, AsideTasks DEF WorkLeft, Worked
  <1> QED
    BY <1>1, <1>2, Kinds

\* The pending record an opening is to turn into a token stays of its window.
LEMMA AskedStep ==
  ASSUME ReadsOK, ReadsTyped, ExportsOK, RootsOK, TasksOK, TokenInv, AskedInv,
         NEW q \in Tasks, [Next]_vars
  PROVE  Asked(q)'
  <1>1. CASE Acts(q)
    BY <1>1, AskedAct DEF AskedInv
  <1>2. CASE ~Acts(q)
    <2>1. task'[q] = task[q]
      BY <1>2, StillTask
    <2>2. SUFFICES ASSUME At(q, "open"), pending'[task[q].token] # None
                   PROVE  pending'[task[q].token].window = task[q].window
      BY <2>1 DEF Asked, At
    <2>3. PICK k \in Opens : k = task[q].token
      BY <2>2, Drawn DEF At, Tokenless
    <2>4. k <= opened /\ k \in Nat /\ opened \in Nat
      BY <2>2, <2>3, Drawing, Counting DEF TokenInv, TaskDrawn, At
    <2>5. pending'[k] = pending[k]
      BY <2>2, <2>3, <2>4, PendingStep DEF PendingMove
    <2> QED
      BY <2>2, <2>3, <2>5 DEF AskedInv, Asked
  <1> QED
    BY <1>1, <1>2

\* Of the steps that are of no command, the close of a window and the use of a
\* root token touch the root tokens.
LEMMA RootsAside ==
  ASSUME Aside
  PROVE  \/ \E w \in Windows : CloseEvent(w)
         \/ \E p \in Pickers : ConsumeRoot(p)
         \/ UNCHANGED <<rootVars, stale>>
  BY DEF Aside, Spawned, WindowStep, Clock, DropLater, ReleaseLater, RemoveLater, CloseMark,
         CloseRevoke, CloseRemove, CancelExport, AgeRead, AgeExport, vars, rootVars, ghosts

\* A picker that was open when its window was told to close is awaited by no
\* window and gives no root token, whatever picker the window opens next
\* (finish_scan_root_selection compares the sequence number).
LEMMA PickersStep ==
  ASSUME ReadsOK, ReadsTyped, ExportsOK, RootsOK, TasksOK, TokenInv, RootInv, RootsOK',
         [Next]_vars
  PROVE  RootInv'
  <1> USE DEF At
  <1>0. /\ picked \in Nat /\ picking \in [Windows -> 0 .. MaxPickers]
        /\ roots \in [Pickers -> Root \cup {None}]
        /\ \A w \in Windows : picking[w] \in Nat
    BY Drawing, Bounds DEF RootsOK
  <1>1. /\ \A k \in stale : k \in Nat /\ 1 <= k /\ k <= picked
        /\ \A w \in Windows : picking[w] <= picked /\ picking[w] \notin stale
        /\ \A p \in Pickers : roots[p] # None => p <= picked /\ p \notin stale
        /\ \A t \in Tasks : Awaiting(t)
    BY <1>0 DEF RootInv
  <1>2. ASSUME NEW t \in Tasks, At(t, "choosing")
        PROVE  /\ task[t].number \in Pickers /\ task[t].number \in Nat
               /\ 1 <= task[t].number /\ task[t].number <= picked
               /\ task[t].window \in Windows
    BY <1>0, <1>2, Drawn DEF TokenInv, TaskDrawn
  <1>3. ASSUME \A k \in stale' : k \in Nat /\ 1 <= k /\ k <= picked',
               \A w \in Windows : picking'[w] <= picked' /\ picking'[w] \notin stale',
               \A p \in Pickers : roots'[p] # None => p <= picked' /\ p \notin stale',
               \A t \in Tasks : Awaiting(t)'
        PROVE  RootInv'
    BY <1>3, Bounds DEF RootInv, RootsOK
  <1>4. ASSUME NEW t \in Tasks, NEW w \in Windows, BeginPick(t, w)
        PROVE  RootInv'
    <2>1. PICK n \in Pickers : n = picked + 1
      BY <1>4, Drawing DEF BeginPick
    <2>2. /\ picked' = n /\ picking' = [picking EXCEPT ![w] = n] /\ roots' = roots
          /\ stale' = stale /\ Begun(t, "choosing", w, 0, n)
      BY <1>4, <2>1, Beginning, StepNames, Counting DEF BeginPick, ghosts
    <2>3. \A v \in Windows : picking'[v] = IF v = w THEN n ELSE picking[v]
      BY <1>0, <2>2
    <2>4. ASSUME NEW q \in Tasks, At(q, "choosing")' PROVE Awaiting(q)'
      <3>1. CASE q = t
        BY <1>0, <1>1, <1>2, <2>1, <2>2, <2>3, <3>1 DEF Awaiting, Begun
      <3>2. CASE q # t
        <4>1. task'[q] = task[q] /\ task[q].number <= picked /\ task[q].number \in Nat
          BY <1>2, <2>2, <2>4, <3>2 DEF Begun
        <4>2. \A u \in Tasks \ {t} : task'[u] = task[u]
          BY <2>2 DEF Begun
        <4>3. task'[t].number = n
          BY <2>2 DEF Begun
        <4> QED
          BY <1>0, <1>1, <2>1, <2>2, <2>3, <2>4, <4>1, <4>2, <4>3 DEF Awaiting
      <3> QED
        BY <3>1, <3>2
    <2>5. \A v \in Windows : picking'[v] <= picked' /\ picking'[v] \notin stale'
      BY <1>0, <1>1, <2>1, <2>2, <2>3
    <2>6. \A k \in stale' : k \in Nat /\ 1 <= k /\ k <= picked'
      BY <1>0, <1>1, <2>1, <2>2
    <2>7. \A p \in Pickers : roots'[p] # None => p <= picked' /\ p \notin stale'
      BY <1>0, <1>1, <2>1, <2>2, Counting
    <2> QED
      BY <1>3, <2>4, <2>5, <2>6, <2>7 DEF Awaiting
  <1>5. ASSUME NEW t \in Tasks, EndPick(t) PROVE RootInv'
    <2>1. PICK w \in Windows, p \in Pickers : w = task[t].window /\ p = task[t].number
      BY <1>2, <1>5 DEF EndPick
    <2>2. /\ At(t, "choosing") /\ Ended(t) /\ picked' = picked /\ stale' = stale
      BY <1>5, Ending DEF EndPick, ghosts
    <2>3. \A u \in Tasks \ {t} : task'[u] = task[u]
      BY <2>2 DEF Ended
    <2>4. /\ \A v \in Windows : picking'[v] = picking[v] \/ picking'[v] = 0
          /\ \A k \in Pickers : roots'[k] = roots[k] \/ (k = p /\ picking[w] = p)
      BY <1>0, <1>5, <2>1 DEF EndPick, Awaited
    <2>5. 0 \notin stale
      BY <1>1
    <2>6. ASSUME NEW q \in Tasks, At(q, "choosing")' PROVE Awaiting(q)'
      <3>1. q # t /\ task'[q] = task[q]
        BY <2>2, <2>3, <2>6 DEF Ended
      <3>2. PICK n \in Pickers : n = task[q].number
        BY <1>2, <2>6, <3>1
      <3>3. roots[n] = None /\ n # p /\ \A v \in Windows \ {task[q].window} : picking[v] # n
        BY <1>1, <2>1, <2>2, <2>6, <3>1, <3>2 DEF Awaiting
      <3>4. roots'[n] = None /\ \A v \in Windows \ {task[q].window} : picking'[v] # n
        BY <2>4, <3>2, <3>3, Counting
      <3>5. \A u \in Tasks \ {q} : At(u, "choosing")' => task'[u].number # n
        BY <1>1, <2>2, <2>3, <2>6, <3>1, <3>2 DEF Awaiting, Ended
      <3> QED
        BY <3>1, <3>2, <3>4, <3>5 DEF Awaiting
    <2>7. \A v \in Windows : picking'[v] <= picked' /\ picking'[v] \notin stale'
      BY <1>0, <1>1, <2>2, <2>4, <2>5
    <2>8. \A k \in Pickers : roots'[k] # None => k <= picked' /\ k \notin stale'
      BY <1>1, <2>2, <2>4
    <2> QED
      BY <1>1, <1>3, <2>2, <2>6, <2>7, <2>8 DEF Awaiting
  <1>6. ASSUME Aside, NEW w \in Windows, CloseEvent(w) PROVE RootInv'
    <2>1. task' = task
      BY <1>6, AsideTasks
    <2>2. /\ picked' = picked
          /\ \A v \in Windows : picking'[v] = IF v = w THEN 0 ELSE picking[v]
          /\ \A k \in Pickers : roots'[k] = None \/ roots'[k] = roots[k]
      BY <1>0, <1>6 DEF CloseEvent
    <2>3. ASSUME NEW k \in stale'
          PROVE  \/ k \in stale
               \/ \E u \in Tasks : At(u, "choosing") /\ task[u].window = w /\ task[u].number = k
      BY <1>6, <2>3 DEF CloseEvent
    <2>4. \A k \in stale' : k \in Nat /\ 1 <= k /\ k <= picked'
      BY <1>1, <1>2, <2>2, <2>3
    <2>5. \A v \in Windows : picking'[v] <= picked' /\ picking'[v] \notin stale'
      <3>1. ASSUME NEW v \in Windows, v = w
            PROVE  picking'[v] <= picked' /\ picking'[v] \notin stale'
        BY <1>0, <2>2, <2>4, <3>1
      <3>2. ASSUME NEW v \in Windows, v # w
            PROVE  picking'[v] <= picked' /\ picking'[v] \notin stale'
        BY <1>1, <2>2, <2>3, <3>2 DEF Awaiting
      <3> QED
        BY <3>1, <3>2
    <2>6. \A k \in Pickers : roots'[k] # None => k <= picked' /\ k \notin stale'
      BY <1>1, <2>2, <2>3 DEF Awaiting
    <2>7. \A q \in Tasks : Awaiting(q)'
      <3>1. ASSUME NEW q \in Tasks, At(q, "choosing") PROVE Awaiting(q)'
        BY <1>1, <1>2, <2>1, <2>2, <3>1 DEF Awaiting
      <3> QED
        BY <2>1, <3>1 DEF Awaiting
    <2> QED
      BY <1>3, <2>4, <2>5, <2>6, <2>7
  <1>7. ASSUME Aside, NEW p \in Pickers, ConsumeRoot(p) PROVE RootInv'
    <2>1. task' = task /\ picked' = picked /\ picking' = picking /\ stale' = stale
          /\ \A k \in Pickers : roots'[k] = None \/ roots'[k] = roots[k]
      BY <1>0, <1>7, AsideTasks DEF ConsumeRoot, ghosts
    <2>2. \A q \in Tasks : Awaiting(q)'
      BY <1>1, <1>2, <2>1 DEF Awaiting
    <2> QED
      BY <1>1, <1>3, <2>1, <2>2
  <1>8. ASSUME UNCHANGED <<rootVars, stale>>,
               \A q \in Tasks : (At(q, "choosing")' <=> At(q, "choosing"))
                              /\ (At(q, "choosing") => task'[q] = task[q])
        PROVE  RootInv'
    <2>1. \A q \in Tasks : Awaiting(q)'
      BY <1>1, <1>8 DEF Awaiting, rootVars
    <2> QED
      BY <1>1, <1>3, <1>8, <2>1 DEF rootVars
  <1>9. ASSUME NEW t \in Tasks, Acts(t) PROVE RootInv'
    <2>1. RootQuiet(t) /\ \A u \in Tasks \ {t} : task'[u] = task[u]
      BY <1>9, QuietAct, OthersStay
    <2>2. CASE UNCHANGED <<rootVars, stale>> /\ ~At(t, "choosing") /\ ~At(t, "choosing")'
      BY <1>8, <2>1, <2>2
    <2> QED
      BY <1>4, <1>5, <2>1, <2>2 DEF RootQuiet
  <1>10. ASSUME Aside PROVE RootInv'
    <2>1. CASE UNCHANGED <<rootVars, stale>>
      BY <1>8, <1>10, <2>1, AsideTasks
    <2> QED
      BY <1>6, <1>7, <1>10, <2>1, RootsAside
  <1> QED
    BY <1>9, <1>10, Kinds

\* A window keeps one token for a run at most: issuing a token replaces the
\* earlier one under the same lock (issue_result_read_at).
LEMMA OneStep ==
  ASSUME ReadsOK, ReadsTyped, ExportsOK, RootsOK, TasksOK, TokenInv, OneEach, [Next]_vars
  PROVE  OneEach'
  <1>1. ASSUME NEW k \in Opens, reads'[k] # None
        PROVE  \/ reads[k] # None /\ reads'[k].window = reads[k].window /\ reads'[k].run = reads[k].run
               \/ \E t \in Tasks : Issue(t) /\ task[t].token = k
    BY <1>1, KeptStep DEF KeptMove
  <1>2. ASSUME NEW t \in Tasks, Issue(t) PROVE OneEach'
    <2> DEFINE r == pending[task[t].token].run
               old == Replaced(Fresh(reads), task[t].window, r)
    <2>1. PICK s \in Opens : s = task[t].token
      BY <1>2, Drawn DEF Issue, At, Tokenless
    <2>2. ASSUME NEW p \in Opens
          PROVE  reads'[p] = IF p = s
                   THEN [window |-> task[t].window, run |-> r, busy |-> FALSE, late |-> FALSE]
                   ELSE IF p \in old THEN None ELSE Fresh(reads)[p]
      BY <1>2, <2>1 DEF Issue
    <2>3. reads'[s].window = task[t].window /\ reads'[s].run = r
      BY <2>2
    <2>4. ASSUME NEW p \in Opens, p # s, reads'[p] # None
          PROVE  /\ reads'[p] = reads[p] /\ reads[p] # None
                 /\ ~(reads[p].window = task[t].window /\ reads[p].run = r)
      <3>1. p \notin old /\ reads'[p] = Fresh(reads)[p]
        BY <2>2, <2>4
      <3>2. Fresh(reads)[p] = reads[p] /\ DOMAIN Fresh(reads) = Opens
        BY <2>4, <3>1, Pruning
      <3> QED
        BY <2>4, <3>1, <3>2 DEF Replaced, Present, SameRun
    <2> HIDE DEF r, old
    <2> QED
      BY <2>1, <2>3, <2>4 DEF OneEach
  <1>3. ASSUME \A t \in Tasks : ~Issue(t) PROVE OneEach'
    BY <1>1, <1>3 DEF OneEach
  <1> QED
    BY <1>2, <1>3

\* No command changes what is kept of the close of a window.
LEMMA ClosedTasks ==
  ASSUME NEW t \in Tasks, Acts(t)
  PROVE  UNCHANGED closeVars
  BY DEF Acts, OpenStep, ReadStep, ExportStep, RootStep, BeginOpen, Issue, RefuseOpen,
     DropOpen, 
         RevokeReplaced, BeginSummary, CheckOpened, CloseOpened, BeginRead, CloseToken, FinishRead,
         RevokeLease, RevokeClosed, BeginSelection, Reserve, Validate, GrantExport, Unpick,
         BeginExport, LeaseExport, RunExport, EndWriting, DropLease, Cleanup, BeginListing, BeginPick,
         EndListing, EndPick

\* The step that finishes the close of a window leaves no token and no opening
\* of it, or leaves that to a spawned task and the close is not finished.
LEMMA GoneMove ==
  ASSUME CloseOK, ReadsOK, ReadsTyped, ExportsOK, RootsOK, TasksOK, TokenInv, Aside,
         NEW v \in Windows, Gone(v)'
  PROVE  Gone(v) \/ (~Holds(v))'
  <1> USE Names, Counting DEF Gone, Holds, CloseOK, Closing, vars, closeVars, readVars,
      exportVars, rootVars, ghosts, At
  <1>1. ASSUME NEW s \in Opens, DropLater(s) PROVE Gone(v) \/ (~Holds(v))'
    BY <1>1
       DEF DropLater
  <1>2. ASSUME NEW s \in Opens, ReleaseLater(s) PROVE Gone(v) \/ (~Holds(v))'
    BY <1>2, Unleasing
       DEF ReleaseLater, Remade
  <1>3. ASSUME NEW w \in Windows, RemoveLater(w) PROVE Gone(v) \/ (~Holds(v))'
    <2>1. CASE v = w
      BY <1>3, <2>1 DEF RemoveLater, RemoveFor, OfWindow, Present, ReadsOK
    <2>2. CASE v # w
      BY <1>3, <2>2 DEF RemoveLater
    <2> QED
      BY <2>1, <2>2
  <1>4. ASSUME NEW w \in Windows, CloseEvent(w) PROVE Gone(v) \/ (~Holds(v))'
    BY <1>4
       DEF CloseEvent, OfWindow, Present
  <1>5. CASE CloseMark
    <2>1. closing' \in Closing /\ closing'.window = closing.window /\ closed' = closed \cup {closing.window}
          /\ cleanups' = cleanups
      BY <1>5 DEF CloseMark
    <2> QED
      BY <1>5, <2>1 DEF CloseMark
  <1>6. CASE CloseRevoke
    <2>1. closing' \in Closing /\ closing'.window = closing.window /\ closed' = closed
          /\ cleanups' = cleanups
      BY <1>6 DEF CloseRevoke
    <2> QED
      BY <1>6, <2>1 DEF CloseRevoke
  <1>7. CASE CloseRemove
    <2>1. CASE v = closing.window
      BY <1>7, <2>1 DEF CloseRemove, RemoveFor, OfWindow, Present, ReadsOK
    <2>2. CASE v # closing.window
      BY <1>7, <2>2 DEF CloseRemove
    <2> QED
      BY <2>1, <2>2
  <1>8. ASSUME NEW x \in Selections, CancelExport(x) PROVE Gone(v) \/ (~Holds(v))'
    BY <1>8, Cancelling
       DEF CancelExport, Granted, Staged
  <1>9. ASSUME NEW p \in Pickers, ConsumeRoot(p) PROVE Gone(v) \/ (~Holds(v))'
    BY <1>9
       DEF ConsumeRoot, Present
  <1>10. ASSUME NEW s \in Opens, AgeRead(s) PROVE Gone(v) \/ (~Holds(v))'
    BY <1>10
       DEF AgeRead, Present
  <1>11. ASSUME NEW x \in Selections, AgeExport(x) PROVE Gone(v) \/ (~Holds(v))'
    BY <1>11
       DEF AgeExport, Granted
  <1>12. CASE UNCHANGED vars
    BY <1>12
  <1> QED
    BY <1>1, <1>2, <1>3, <1>4, <1>5, <1>6, <1>7, <1>8, <1>9, <1>10, <1>11, <1>12
       DEF Aside, Spawned, WindowStep, Clock

\* A window whose close was finished gets no token and no opening:
\* begin_result_open and issue_result_read_at look at the closed flag under the
\* lock.
LEMMA HoldsStep ==
  ASSUME ReadsOK, ReadsTyped, ExportsOK, RootsOK, TasksOK, TokenInv, CloseOK, HoldsNothing,
         NEW v \in Windows, Gone(v)', [Next]_vars
  PROVE  (~Holds(v))'
  <1>1. ASSUME Gone(v), v \in closed, ~Holds(v) PROVE (~Holds(v))'
    <2>1. ASSUME NEW k \in Opens, reads'[k] # None PROVE reads'[k].window # v
      <3>1. ASSUME NEW t \in Tasks, Issue(t), task[t].token = k PROVE reads'[k].window # v
        <4>1. reads'[k].window = task[t].window /\ task[t].window \notin closed
          BY <3>1 DEF Issue
        <4> QED
          BY <1>1, <4>1
      <3> QED
        BY <1>1, <2>1, <3>1, KeptStep DEF KeptMove, Holds
    <2>2. ASSUME NEW k \in Opens, pending'[k] # None PROVE pending'[k].window # v
      <3>1. ASSUME NEW t \in Tasks, NEW w \in Windows, NEW r \in Runs, BeginOpen(t, w, r)
            PROVE  w # v
        BY <1>1, <3>1 DEF BeginOpen
      <3> QED
        BY <1>1, <2>2, <3>1, PendingStep DEF PendingMove, Holds
    <2> QED
      BY <2>1, <2>2 DEF Holds
  <1>2. ASSUME NEW t \in Tasks, Acts(t) PROVE Gone(v)
    BY <1>2, ClosedTasks DEF Gone, closeVars
  <1>3. CASE Aside
    <2>1. Gone(v) \/ (~Holds(v))'
      BY <1>3, GoneMove
    <2> QED
      BY <1>1, <2>1 DEF Gone, HoldsNothing
  <1> QED
    BY <1>1, <1>2, <1>3, Kinds DEF Gone, HoldsNothing

\* A lease left behind, and a token whose exports were revoked, were drawn.
LEMMA NumbersStep ==
  ASSUME ReadsOK, ReadsTyped, ExportsOK, RootsOK, TasksOK, TokenInv, ReadsOK', GhostsOK',
         [Next]_vars, 
         NEW k \in releasing' \cup revoked'
  PROVE  k <= opened'
  <1>1. k \in Opens /\ k \in Nat /\ opened \in Nat /\ opened' \in Nat /\ opened <= opened'
    BY Onward, Bounds, Counting DEF ReadsOK, GhostsOK
  <1>2. CASE k \in releasing'
    <2>1. k <= opened
      BY <1>1, <1>2, ReleasingMove DEF ReleasedFrom, TokenInv, TaskDrawn
    <2> QED
      BY <1>1, <2>1
  <1>3. CASE k \in revoked'
    <2>1. k <= opened
      BY <1>3, RevokedMove DEF RevokedFrom, TokenInv
    <2> QED
      BY <1>1, <2>1
  <1> QED
    BY <1>2, <1>3

\* With nothing opened, picked or closed, the invariant holds.
LEMMA InitInv == Init => Inv
  <1> SUFFICES ASSUME Init PROVE Inv
    OBVIOUS
  <1> USE DEF Init
  <1>1. TypeOK
    BY Bounds DEF TypeOK
  <1>2. TokenInv
    BY DEF TokenInv, TaskDrawn, ReadDrawn, ExportDrawn
  <1>3. NewInv /\ AskedInv
    BY DEF NewInv, TokenFresh, AskedInv, Asked, At
  <1>4. ExportInv
    BY DEF ExportInv, Matched, Sole, Picks, Stopped
  <1>5. LeaseInv
    BY DEF LeaseInv, LeasedBy
  <1>6. ListInv
    BY DEF ListInv, Listed, Lists, At
  <1>7. RootInv
    BY DEF RootInv, Awaiting, At
  <1>8. PlaceInv
    BY DEF PlaceInv, Opened, Worked
  <1>9. OneEach /\ HoldsNothing
    BY DEF OneEach, HoldsNothing, Holds
  <1> QED
    BY <1>1, <1>2, <1>3, <1>4, <1>5, <1>6, <1>7, <1>8, <1>9 DEF Inv

\* Every step of every command, spawned task, close and of the clock keeps the
\* invariant; one conjunct at a time.
LEMMA InvStep ==
  ASSUME Inv, [Next]_vars
  PROVE  Inv'
  <1>1. /\ CloseOK /\ ReadsOK /\ ReadsTyped /\ ExportsOK /\ RootsOK /\ GhostsOK /\ TasksOK
        /\ TokenInv /\ NewInv /\ ExportInv /\ LeaseInv /\ ListInv /\ RootInv /\ PlaceInv
        /\ AskedInv /\ OneEach /\ HoldsNothing
    BY TypeParts DEF Inv, ReadsOK, ReadsTyped
  <1>2. CloseOK' /\ ReadsOK' /\ ExportsOK' /\ RootsOK' /\ GhostsOK' /\ TasksOK'
    BY <1>1, CloseStep, ReadsStep, ExportsStep, RootsStep, GhostsStep, TasksStep
  <1>3. TypeOK'
    BY <1>2 DEF TypeOK, CloseOK, ReadsOK, ExportsOK, RootsOK, GhostsOK, TasksOK
  <1>4. TokenInv'
    <2>1. \A q \in Tasks : TaskDrawn(q)'
      BY <1>1, <1>2, DrawnStep
    <2>2. \A k \in (releasing \cup revoked)' : k <= opened'
      BY <1>1, <1>2, NumbersStep
    <2>3. \A k \in Opens : ReadDrawn(k)'
      BY <1>1, <1>2, ReadDrawnStep
    <2>4. \A y \in Selections : ExportDrawn(y)'
      BY <1>1, <1>2, ExportDrawnStep
    <2> QED
      BY <2>1, <2>2, <2>3, <2>4 DEF TokenInv
  <1>5. NewInv'
    BY <1>1, FreshStep DEF NewInv
  <1>6. ExportInv'
    <2>1. \A q \in Tasks : Matched(q)' /\ Sole(q)'
      BY <1>1, MatchedStep, SoleStep
    <2>2. \A y \in Selections : Stopped(y)'
      BY <1>1, <1>2, StoppedStep
    <2> QED
      BY <2>1, <2>2 DEF ExportInv
  <1>7. LeaseInv'
    BY <1>1, LeaseStep DEF LeaseInv
  <1>8. ListInv'
    BY <1>1, ListStep DEF ListInv
  <1>9. RootInv'
    BY <1>1, <1>2, PickersStep
  <1>10. PlaceInv'
    BY <1>1, PlacesKept, WorkStep DEF PlaceInv
  <1>11. AskedInv'
    BY <1>1, AskedStep DEF AskedInv
  <1>12. OneEach'
    BY <1>1, OneStep
  <1>13. HoldsNothing'
    <2>1. ASSUME NEW v \in Windows, Gone(v)' PROVE (~Holds(v))'
      BY <1>1, <2>1, HoldsStep
    <2> QED
      BY <2>1 DEF HoldsNothing
  <1> QED
    BY <1>3, <1>4, <1>5, <1>6, <1>7, <1>8, <1>9, <1>10, <1>11, <1>12, <1>13 DEF Inv

\* The invariant holds in every state the commands of any number of windows can
\* reach.
LEMMA InvHolds == Spec => []Inv
  <1>1. Inv /\ [Next]_vars => Inv'
    BY InvStep
  <1> QED
    BY InitInv, <1>1, PTL DEF Spec

-----------------------------------------------------------------------------
\* The numbers the model can draw are finitely many.
LEMMA Finite ==
  IsFiniteSet(Opens) /\ IsFiniteSet(Selections) /\ IsFiniteSet(Pickers)
  BY Bounds, FS_Interval DEF Opens, Selections, Pickers

\* A part of a finite set is finite and no larger.
LEMMA Smaller ==
  ASSUME NEW S, IsFiniteSet(S), NEW T, T \subseteq S
  PROVE  IsFiniteSet(T) /\ Cardinality(T) \in Nat /\ Cardinality(S) \in Nat
         /\ Cardinality(T) <= Cardinality(S)
  BY FS_Subset, FS_CardinalityType

\* One more element makes a finite set larger by one at most.
LEMMA OneMore ==
  ASSUME NEW S, IsFiniteSet(S), NEW x, NEW T, T \subseteq S \cup {x}
  PROVE  IsFiniteSet(T) /\ Cardinality(T) \in Nat /\ Cardinality(T) <= Cardinality(S) + 1
  <1>1. IsFiniteSet(S \cup {x}) /\ Cardinality(S \cup {x}) <= Cardinality(S) + 1
        /\ Cardinality(S) \in Nat /\ Cardinality(S \cup {x}) \in Nat
    BY FS_AddElement, FS_CardinalityType
  <1> QED
    BY <1>1, FS_Subset, FS_CardinalityType

\* A finite set has no more images than elements.
LEMMA Counted ==
  ASSUME NEW S, IsFiniteSet(S), NEW f
  PROVE  IsFiniteSet({f[x] : x \in S}) /\ Cardinality({f[x] : x \in S}) \in Nat
         /\ Cardinality(S) \in Nat /\ Cardinality({f[x] : x \in S}) <= Cardinality(S)
  <1> DEFINE T == {f[x] : x \in S}
             g == [x \in S |-> f[x]]
  <1>1. g \in Surjection(S, T)
    BY DEF Surjection
  <1>2. IsFiniteSet(T) /\ Cardinality(T) <= Cardinality(S)
    BY <1>1, FS_Surjection
  <1> QED
    BY <1>2, FS_CardinalityType

\* One element and two finite sets whose bounds add up to less than a limit
\* stay within the limit: the sum that begin_result_open compares with
\* MAX_RESULT_READ_TOKENS.
LEMMA OnePlusBoth ==
  ASSUME NEW A, IsFiniteSet(A), NEW a \in Nat, Cardinality(A) <= a,
         NEW B, IsFiniteSet(B), NEW b \in Nat, Cardinality(B) <= b,
         NEW x, NEW U, U \subseteq {x} \cup A \cup B, NEW max \in Nat, a + b < max
  PROVE  IsFiniteSet(U) /\ Cardinality(U) \in Nat /\ Cardinality(U) <= max
  <1>1. U \subseteq (A \cup B) \cup {x}
    OBVIOUS
  <1>2. IsFiniteSet(A \cup B) /\ Cardinality(A \cup B) \in Nat
        /\ Cardinality(A \cup B) <= Cardinality(A) + Cardinality(B)
        /\ Cardinality(A) \in Nat /\ Cardinality(B) \in Nat
    <2>1. IsFiniteSet(A \cap B) /\ Cardinality(A \cap B) \in Nat
          /\ Cardinality(A) \in Nat /\ Cardinality(B) \in Nat
      BY FS_Intersection, FS_CardinalityType
    <2>2. IsFiniteSet(A \cup B)
          /\ Cardinality(A \cup B) = Cardinality(A) + Cardinality(B) - Cardinality(A \cap B)
      BY FS_Union
    <2>3. Cardinality(A \cup B) \in Nat
      BY <2>2, FS_CardinalityType
    <2> QED
      BY <2>1, <2>2, <2>3
  <1>3. IsFiniteSet(U) /\ Cardinality(U) \in Nat /\ Cardinality(U) <= Cardinality(A \cup B) + 1
    BY <1>1, <1>2, OneMore
  <1> QED
    BY <1>2, <1>3

\* The invariant says of each place who gives it back; counting one place, one
\* listing and one lease each gives the sums of the registries.
LEMMA PlacesAccounted ==
  ASSUME Inv
  PROVE  Accounted
  <1>1. ASSUME NEW s \in Present(pending)
        PROVE  s \in dropping \/ \E t \in Tasks : task[t] # None /\ task[t].token = s
                                   /\ task[t].pc \in {"open", "dropOpen"}
    BY DEF Inv, PlaceInv, Opened, Present, TypeOK
  <1>2. ASSUME NEW x \in Present(exports), exports[x].stage # "granted"
        PROVE  \E t \in Tasks : task[t] # None /\ task[t].number = x /\ task[t].pc \in
                 (IF exports[x].stage = "pending" THEN {"picking", "checked", "unpick"}
                  ELSE {"writing", "panicked", "cleanup"})
    <2>1. x \in Selections /\ exports[x] # None
      BY DEF Inv, TypeOK, Present
    <2>2. exports[x].stage \in {"pending", "running"} /\ Worked(x)
      BY <1>2, <2>1, ExportFields, TypeParts DEF Inv, PlaceInv
    <2> QED
      BY <2>1, <2>2 DEF Worked
  <1>3. ASSUME NEW w \in Windows
        PROVE  listings[w] = Cardinality({t \in Listing : task[t].window = w})
    <2> DEFINE L == {t \in Listing : task[t].window = w}
    <2>1. \A t \in Tasks : t \in L <=> Lists(t, w)
      BY DEF Listing, Lists
    <2>2. L \subseteq Tasks /\ Listed(w)
      BY DEF Listing, Inv, ListInv
    <2> HIDE DEF L
    <2>3. CASE listings[w] = 0
      <3>1. L = {}
        BY <2>1, <2>2, <2>3 DEF Listed
      <3> QED
        BY <2>3, <3>1, FS_EmptySet DEF L
    <2>4. CASE listings[w] = 1
      <3>1. PICK t \in Tasks : Lists(t, w)
        BY <2>2, <2>4 DEF Listed
      <3>2. L = {t}
        BY <2>1, <2>2, <3>1 DEF Listed
      <3> QED
        BY <2>4, <3>2, FS_Singleton DEF L
    <2> QED
      BY <2>2, <2>3, <2>4 DEF Listed
  <1>4. ASSUME NEW s \in Present(reads)
        PROVE  Cardinality(Leasing(s)) + (IF s \in releasing THEN 1 ELSE 0)
                 = (IF reads[s].busy THEN 1 ELSE 0)
    <2>1. s \in Opens /\ reads[s] # None
      BY DEF Inv, TypeOK, Present
    <2>2. Leasing(s) \subseteq Tasks /\ \A t \in Tasks : t \in Leasing(s) <=> Leases(t, s)
      BY DEF Leasing, Leases, LeaseSteps, At
    <2>3. LeasedBy(s)
      BY <2>1 DEF Inv, LeaseInv
    <2> HIDE DEF Leases
    <2>4. CASE s \in releasing
      <3>1. reads[s].busy /\ Leasing(s) = {}
        BY <2>1, <2>2, <2>3, <2>4 DEF LeasedBy
      <3> QED
        BY <2>4, <3>1, FS_EmptySet
    <2>5. CASE s \notin releasing /\ reads[s].busy
      <3>1. PICK t \in Tasks : Leases(t, s)
        BY <2>1, <2>3, <2>5 DEF LeasedBy
      <3>2. Leasing(s) = {t}
        BY <2>1, <2>2, <2>3, <3>1 DEF LeasedBy
      <3>3. Cardinality(Leasing(s)) = 1
        BY <3>2, FS_Singleton
      <3> QED
        BY <2>5, <3>3
    <2>6. CASE s \notin releasing /\ ~reads[s].busy
      <3>1. Leasing(s) = {}
        BY <2>1, <2>2, <2>3, <2>6 DEF LeasedBy
      <3> QED
        BY <2>6, <3>1, FS_EmptySet
    <2> QED
      BY <2>4, <2>5, <2>6
  <1> QED
    BY <1>1, <1>2, <1>3, <1>4 DEF Accounted

\* A result that is open in a window or being opened there.
Key(w, r) ==
  \E k \in Opens : \/ reads[k] # None /\ reads[k].window = w /\ reads[k].run = r
                   \/ pending[k] # None /\ pending[k].window = w /\ pending[k].run = r
Keys == UNION {{w} \X Results(w) : w \in Windows}

\* A result of a window, open or being opened, is a token or a pending opening
\* of it.
LEMMA KeysAre ==
  ASSUME ReadsOK
  PROVE  /\ \A w \in Windows : \A r : r \in Results(w) <=> Key(w, r)
         /\ \A k : k \in Keys <=> \E w \in Windows : \E r \in Runs : Key(w, r) /\ k = <<w, r>>
  <1>1. ASSUME NEW w \in Windows, NEW r PROVE r \in Results(w) <=> Key(w, r)
    BY DEF Results, OfWindow, Present, Key, ReadsOK
  <1>2. ASSUME NEW w \in Windows, NEW r, Key(w, r) PROVE r \in Runs
    BY <1>2, GrantFields, PendingFields DEF Key, ReadsOK, ReadsTyped
  <1>3. ASSUME NEW k
        PROVE  k \in Keys <=> \E w \in Windows : \E r \in Runs : Key(w, r) /\ k = <<w, r>>
    <2>1. k \in Keys <=> \E w \in Windows : \E r \in Results(w) : k = <<w, r>>
      BY DEF Keys
    <2> QED
      BY <1>1, <1>2, <2>1
  <1> QED
    BY <1>1, <1>3

\* After a step too, a result of a window is a token or a pending opening of
\* it.
LEMMA KeysWillBe ==
  ASSUME ReadsOK'
  PROVE  /\ \A w \in Windows : \A r : r \in Results(w)' <=> Key(w, r)'
         /\ \A k : k \in Keys' <=> \E w \in Windows : \E r \in Runs : Key(w, r)' /\ k = <<w, r>>
  <1>1. ASSUME NEW w \in Windows, NEW r PROVE r \in Results(w)' <=> Key(w, r)'
    BY DEF Results, OfWindow, Present, Key, ReadsOK
  <1>2. ASSUME NEW w \in Windows, NEW r, Key(w, r)' PROVE r \in Runs
    BY <1>2 DEF Key, ReadsOK, Grant, Pending
  <1>3. ASSUME NEW k
        PROVE  k \in Keys' <=> \E w \in Windows : \E r \in Runs : Key(w, r)' /\ k = <<w, r>>
    <2>1. k \in Keys' <=> \E w \in Windows : \E r \in Results(w)' : k = <<w, r>>
      BY DEF Keys
    <2> QED
      BY <1>1, <1>2, <2>1
  <1> QED
    BY <1>1, <1>3

\* Only an admitted opening adds a result to those of a window: issuing a token
\* turns the pending opening into it.
LEMMA KeyStep ==
  ASSUME ReadsOK, ReadsTyped, ExportsOK, RootsOK, TasksOK, TokenInv, AskedInv, [Next]_vars,
         NEW w \in Windows, NEW r, Key(w, r)',
         \A t \in Tasks : \A v \in Windows, q \in Runs : BeginOpen(t, v, q) => ~OpenAdmitted(v, q)
  PROVE  Key(w, r)
  <1>1. PICK k \in Opens : \/ reads'[k] # None /\ reads'[k].window = w /\ reads'[k].run = r
                           \/ pending'[k] # None /\ pending'[k].window = w /\ pending'[k].run = r
    BY DEF Key
  <1>2. CASE reads'[k] # None /\ reads'[k].window = w /\ reads'[k].run = r
    <2>1. ASSUME NEW t \in Tasks, Issue(t), task[t].token = k PROVE Key(w, r)
      <3>1. reads'[k] = [window |-> task[t].window, run |-> pending[k].run,
                         busy |-> FALSE, late |-> FALSE]
        BY <2>1 DEF Issue
      <3>2. At(t, "open") /\ pending[k] # None
        BY <2>1 DEF Issue
      <3>3. pending[k].window = task[t].window
        BY <2>1, <3>2 DEF AskedInv, Asked
      <3>4. task[t].window = w /\ pending[k].run = r
        BY <1>2, <3>1
      <3> QED
        BY <3>2, <3>3, <3>4 DEF Key
    <2> QED
      BY <1>2, <2>1, KeptStep DEF KeptMove, Key
  <1>3. CASE pending'[k] # None /\ pending'[k].window = w /\ pending'[k].run = r
    BY <1>3, PendingStep DEF PendingMove, Key
  <1> QED
    BY <1>1, <1>2, <1>3

\* A window has finitely many results, and so have all windows.
LEMMA KeysFinite ==
  ASSUME ReadsOK
  PROVE  IsFiniteSet(Keys) /\ \A w \in Windows : IsFiniteSet(Results(w))
  <1> DEFINE f == [k \in Opens |-> <<reads[k].window, reads[k].run>>]
             g == [k \in Opens |-> <<pending[k].window, pending[k].run>>]
             A == {f[k] : k \in Opens}
             B == {g[k] : k \in Opens}
             C == {reads[k].run : k \in Opens}
             D == {pending[k].run : k \in Opens}
  <1>1. IsFiniteSet(A \cup B) /\ IsFiniteSet(C \cup D)
    <2>1. IsFiniteSet(A) /\ IsFiniteSet(B)
      BY Finite, Counted
    <2> DEFINE h == [k \in Opens |-> reads[k].run]
               i == [k \in Opens |-> pending[k].run]
    <2>3. C = {h[k] : k \in Opens} /\ D = {i[k] : k \in Opens}
      OBVIOUS
    <2> HIDE DEF h, i
    <2>4. IsFiniteSet({h[k] : k \in Opens}) /\ IsFiniteSet({i[k] : k \in Opens})
      BY Finite, Counted
    <2> QED
      BY <2>1, <2>3, <2>4, FS_Union
  <1>2. Keys \subseteq A \cup B
    BY KeysAre DEF Key
  <1>3. \A w \in Windows : Results(w) \subseteq C \cup D
    BY DEF Results, OfWindow, Present, ReadsOK
  <1> QED
    BY <1>1, <1>2, <1>3, FS_Subset

\* An opening that is admitted stays within the limits although the token it is
\* to replace does not count: that token has the same window and run, so it is
\* the same result (begin_result_open).
LEMMA OpenCounts ==
  ASSUME ReadsOK, ReadsOK', ReadsTyped, ExportsOK, RootsOK, TasksOK,
         NEW t \in Tasks, NEW v \in Windows, NEW q \in Runs,
         BeginOpen(t, v, q), OpenAdmitted(v, q),
         \A w \in Windows : Cardinality(Results(w)) <= MaxReadsOf
  PROVE  Cardinality(Keys') <= MaxReads
         /\ \A w \in Windows : Cardinality(Results(w)') <= MaxReadsOf
  <1> DEFINE grants == Fresh(reads)
             S == Present(grants) \ Replaced(grants, v, q)
             T == Present(pending)
             V == OfWindow(grants, v) \ Replaced(grants, v, q)
             W == T \cap OfWindow(pending, v)
  <1>1. Cardinality(S) + Cardinality(T) < MaxReads /\ Cardinality(V) + Cardinality(W) < MaxReadsOf
    BY DEF OpenAdmitted, Room
  <1>2. /\ DOMAIN grants = Opens
        /\ \A k \in Opens : grants[k] # None => grants[k] = reads[k] /\ reads[k] # None
    BY Pruning
  <1>3. PICK n \in Opens : reads' = grants /\ pending' = [pending EXCEPT ![n] = [window |-> v, run |-> q]]
    BY Drawing DEF BeginOpen
  <1>4. \A k \in Opens : pending'[k] = IF k = n THEN [window |-> v, run |-> q] ELSE pending[k]
    BY <1>3 DEF ReadsOK
  <1>5. S \subseteq Opens /\ T \subseteq Opens /\ V \subseteq Opens /\ W \subseteq Opens
    BY <1>2 DEF Present, OfWindow, ReadsOK
  <1>6. IsFiniteSet(S) /\ IsFiniteSet(T) /\ IsFiniteSet(V) /\ IsFiniteSet(W)
    BY <1>5, Finite, FS_Subset
  <1>7. ASSUME NEW w \in Windows, NEW r, Key(w, r)'
        PROVE  \/ w = v /\ r = q
               \/ \E k \in S : (w = v => k \in V) /\ reads[k].window = w /\ reads[k].run = r
               \/ \E k \in T : (w = v => k \in W) /\ pending[k].window = w /\ pending[k].run = r
    <2>1. PICK k \in Opens : \/ reads'[k] # None /\ reads'[k].window = w /\ reads'[k].run = r
                             \/ pending'[k] # None /\ pending'[k].window = w /\ pending'[k].run = r
      BY <1>7 DEF Key
    <2>2. CASE reads'[k] # None /\ reads'[k].window = w /\ reads'[k].run = r
      <3>1. grants[k] = reads[k] /\ reads[k] # None /\ reads[k].window = w /\ reads[k].run = r
        BY <1>2, <1>3, <2>2
      <3>2. CASE k \in Replaced(grants, v, q)
        BY <3>1, <3>2 DEF Replaced, SameRun
      <3>3. CASE k \notin Replaced(grants, v, q)
        BY <1>2, <3>1, <3>3 DEF Present, OfWindow
      <3> QED
        BY <3>2, <3>3
    <2>3. CASE pending'[k] # None /\ pending'[k].window = w /\ pending'[k].run = r
      <3>1. CASE k = n
        BY <1>4, <2>3, <3>1
      <3>2. CASE k # n
        <4>1. pending[k] # None /\ pending[k].window = w /\ pending[k].run = r
          BY <1>4, <2>3, <3>2
        <4> QED
          BY <4>1 DEF Present, OfWindow, ReadsOK
      <3> QED
        BY <3>1, <3>2
    <2> QED
      BY <2>1, <2>2, <2>3
  <1> HIDE DEF S, T, V, W
  <1>8. Cardinality(Keys') <= MaxReads
    <2> DEFINE f == [k \in Opens |-> <<reads[k].window, reads[k].run>>]
               g == [k \in Opens |-> <<pending[k].window, pending[k].run>>]
               x == <<v, q>>
               A == {f[k] : k \in S}
               B == {g[k] : k \in T}
    <2>1. ASSUME NEW k \in Keys' PROVE k \in {x} \cup A \cup B
      <3>1. PICK w \in Windows, r \in Runs : Key(w, r)' /\ k = <<w, r>>
        BY <2>1, KeysWillBe
      <3>2. CASE w = v /\ r = q
        BY <3>1, <3>2
      <3>3. ASSUME NEW s \in S, reads[s].window = w, reads[s].run = r PROVE k \in A
        <4>1. f[s] = k
          BY <1>5, <3>1, <3>3
        <4> QED
          BY <4>1
      <3>4. ASSUME NEW s \in T, pending[s].window = w, pending[s].run = r PROVE k \in B
        <4>1. g[s] = k
          BY <1>5, <3>1, <3>4
        <4> QED
          BY <4>1
      <3> HIDE DEF f, g, x, A, B
      <3> QED
        BY <1>7, <3>1, <3>2, <3>3, <3>4
    <2>2. Keys' \subseteq {x} \cup A \cup B
      BY <2>1
    <2>3. MaxReads \in Nat
      BY Bounds
    <2> HIDE DEF f, g, x
    <2>4. /\ IsFiniteSet(A) /\ Cardinality(A) <= Cardinality(S) /\ Cardinality(S) \in Nat
          /\ IsFiniteSet(B) /\ Cardinality(B) <= Cardinality(T) /\ Cardinality(T) \in Nat
      BY <1>6, Counted
    <2> HIDE DEF A, B
    <2> QED
      BY <1>1, <2>2, <2>3, <2>4, OnePlusBoth
  <1>9. ASSUME NEW w \in Windows PROVE Cardinality(Results(w)') <= MaxReadsOf
    <2>1. ASSUME NEW r PROVE r \in Results(w)' <=> Key(w, r)'
      BY <1>9, KeysWillBe
    <2>2. CASE w = v
      <3> DEFINE f == [k \in Opens |-> reads[k].run]
                 g == [k \in Opens |-> pending[k].run]
                 A == {f[k] : k \in V}
                 B == {g[k] : k \in W}
      <3>1. Results(w)' \subseteq {q} \cup A \cup B
        BY <1>5, <1>7, <2>1, <2>2
      <3>2. MaxReadsOf \in Nat
        BY Bounds
      <3> HIDE DEF f, g
      <3>3. /\ IsFiniteSet(A) /\ Cardinality(A) <= Cardinality(V) /\ Cardinality(V) \in Nat
            /\ IsFiniteSet(B) /\ Cardinality(B) <= Cardinality(W) /\ Cardinality(W) \in Nat
        BY <1>6, Counted
      <3> HIDE DEF A, B
      <3> QED
        BY <1>1, <3>1, <3>2, <3>3, OnePlusBoth
    <2>3. CASE w # v
      <3>1. Results(w)' \subseteq Results(w)
        <4>1. ASSUME NEW r, Key(w, r)' PROVE Key(w, r)
          <5>1. \/ \E k \in S : reads[k].window = w /\ reads[k].run = r
                \/ \E k \in T : pending[k].window = w /\ pending[k].run = r
            BY <1>7, <2>3, <4>1
          <5>2. \A k \in S : k \in Opens /\ reads[k] # None
            BY <1>2, <1>5 DEF S, Present
          <5>3. \A k \in T : k \in Opens /\ pending[k] # None
            BY <1>5 DEF T, Present
          <5> QED
            BY <5>1, <5>2, <5>3 DEF Key
        <4> QED
          BY <2>1, <4>1, KeysAre
      <3>2. Cardinality(Results(w)') <= Cardinality(Results(w)) /\ Cardinality(Results(w)') \in Nat
            /\ Cardinality(Results(w)) \in Nat
        BY <3>1, KeysFinite, Smaller
      <3> QED
        BY <1>9, <3>2, Bounds
    <2> QED
      BY <2>2, <2>3
  <1> QED
    BY <1>8, <1>9

\* The selections and exports keep to the limits: Reserve compares under the
\* lock under which it adds one (begin_history_export_selection).
LEMMA ExportCounts ==
  ASSUME ReadsOK, ReadsTyped, ExportsOK, ExportsOK', RootsOK, TasksOK, TokenInv, [Next]_vars,
         Cardinality(Present(exports)) <= MaxExports,
         \A w \in Windows : Cardinality(OfWindow(exports, w)) <= MaxExportsOf
  PROVE  Cardinality(Present(exports)') <= MaxExports
         /\ \A w \in Windows : Cardinality(OfWindow(exports, w)') <= MaxExportsOf
  <1>1. /\ \A y : y \in Present(exports) <=> y \in Selections /\ exports[y] # None
        /\ \A y : y \in Present(exports)' <=> y \in Selections /\ exports'[y] # None
    BY DEF Present, ExportsOK
  <1>2. ASSUME NEW w \in Windows
        PROVE  /\ \A y : y \in OfWindow(exports, w) <=> y \in Present(exports) /\ exports[y].window = w
               /\ \A y : y \in OfWindow(exports, w)' <=> y \in Present(exports)' /\ exports'[y].window = w
    BY DEF OfWindow
  <1>3. /\ IsFiniteSet(Present(exports)) /\ IsFiniteSet(Present(exports)')
        /\ \A w \in Windows : IsFiniteSet(OfWindow(exports, w)) /\ IsFiniteSet(OfWindow(exports, w)')
    <2>1. IsFiniteSet(Present(exports)) /\ IsFiniteSet(Present(exports)')
      BY <1>1, Finite, FS_Subset
    <2> QED
      BY <1>2, <2>1, FS_Subset
  <1>4. CASE \E t \in Tasks : Reserve(t) /\ selected' = selected + 1
    <2>1. PICK t \in Tasks : Reserve(t) /\ selected' = selected + 1
      BY <1>4
    <2>2. PICK v \in Windows, n \in Selections : v = task[t].window /\ n = selected + 1
      BY <2>1, Drawn, Drawing DEF Reserve, At
    <2>3. SelectionRoom(exports, v) /\ exports' = [exports EXCEPT ![n] =
            [window |-> v, token |-> task[t].token, stage |-> "pending", cancelled |-> FALSE]]
      BY <2>1, <2>2, Drawing DEF Reserve
    <2>4. \A y \in Selections : IF y = n THEN exports'[y].window = v ELSE exports'[y] = exports[y]
      BY <2>3 DEF ExportsOK
    <2>5. Cardinality(Present(exports)) < MaxExports /\ Cardinality(OfWindow(exports, v)) < MaxExportsOf
      BY <2>3 DEF SelectionRoom
    <2>6. Present(exports)' \subseteq Present(exports) \cup {n}
      BY <1>1, <2>4
    <2>7. Cardinality(Present(exports)') <= MaxExports
      <3>1. Cardinality(Present(exports)') \in Nat /\ Cardinality(Present(exports)) \in Nat
            /\ Cardinality(Present(exports)') <= Cardinality(Present(exports)) + 1
        BY <1>3, <2>6, OneMore, FS_CardinalityType
      <3> QED
        BY <2>5, <3>1, Bounds
    <2>8. ASSUME NEW w \in Windows PROVE Cardinality(OfWindow(exports, w)') <= MaxExportsOf
      <3>1. CASE w = v
        <4>1. OfWindow(exports, w)' \subseteq OfWindow(exports, w) \cup {n}
          BY <1>1, <1>2, <2>4
        <4>2. Cardinality(OfWindow(exports, w)') \in Nat /\ Cardinality(OfWindow(exports, w)) \in Nat
              /\ Cardinality(OfWindow(exports, w)') <= Cardinality(OfWindow(exports, w)) + 1
          BY <1>3, <4>1, OneMore, FS_CardinalityType
        <4> QED
          BY <2>5, <3>1, <4>2, Bounds
      <3>2. CASE w # v
        <4>1. OfWindow(exports, w)' \subseteq OfWindow(exports, w)
          BY <1>1, <1>2, <2>4, <3>2
        <4>2. Cardinality(OfWindow(exports, w)') \in Nat /\ Cardinality(OfWindow(exports, w)) \in Nat
              /\ Cardinality(OfWindow(exports, w)') <= Cardinality(OfWindow(exports, w))
          BY <1>3, <4>1, Smaller
        <4> QED
          BY <4>2, Bounds
      <3> QED
        BY <3>1, <3>2
    <2> QED
      BY <2>7, <2>8
  <1>5. CASE ~ \E t \in Tasks : Reserve(t) /\ selected' = selected + 1
    <2>1. ASSUME NEW y \in Selections, exports'[y] # None
          PROVE  exports[y] # None /\ exports'[y].window = exports[y].window
      BY <1>5, <2>1, ExportsMove DEF ExportMove
    <2>2. Present(exports)' \subseteq Present(exports)
      BY <1>1, <2>1
    <2>3. \A w \in Windows : OfWindow(exports, w)' \subseteq OfWindow(exports, w)
      BY <1>1, <1>2, <2>1
    <2>4. Cardinality(Present(exports)') \in Nat /\ Cardinality(Present(exports)) \in Nat
          /\ Cardinality(Present(exports)') <= Cardinality(Present(exports))
      BY <1>3, <2>2, Smaller
    <2>5. ASSUME NEW w \in Windows
          PROVE  Cardinality(OfWindow(exports, w)') \in Nat /\ Cardinality(OfWindow(exports, w)) \in Nat
                 /\ Cardinality(OfWindow(exports, w)') <= Cardinality(OfWindow(exports, w))
      BY <1>3, <2>3, Smaller
    <2> QED
      BY <2>4, <2>5, Bounds
  <1> QED
    BY <1>4, <1>5

\* The root tokens keep to their limit: the answer of a picker is counted when
\* it comes (issue_scan_root_token).
LEMMA RootCounts ==
  ASSUME ReadsOK, ReadsTyped, ExportsOK, RootsOK, RootsOK', TasksOK, TokenInv, [Next]_vars,
         Cardinality(Present(roots)) <= MaxRoots
  PROVE  Cardinality(Present(roots)') <= MaxRoots
  <1>1. /\ \A p : p \in Present(roots) <=> p \in Pickers /\ roots[p] # None
        /\ \A p : p \in Present(roots)' <=> p \in Pickers /\ roots'[p] # None
    BY DEF Present, RootsOK
  <1>2. IsFiniteSet(Present(roots)) /\ IsFiniteSet(Present(roots)')
    BY <1>1, Finite, FS_Subset
  <1>3. CASE Present(roots)' \subseteq Present(roots)
    BY <1>2, <1>3, Smaller, Bounds
  <1>4. ASSUME NEW t \in Tasks, EndPick(t), ~(Present(roots)' \subseteq Present(roots))
        PROVE  Cardinality(Present(roots)') <= MaxRoots
    <2>1. PICK n \in Pickers : n = task[t].number
      BY <1>4, Drawn DEF EndPick, At
    <2>2. Cardinality(Present(roots)) < MaxRoots /\ roots' = [roots EXCEPT ![n] = [window |-> task[t].window]]
      BY <1>1, <1>4, <2>1 DEF EndPick
    <2>3. \A p \in Pickers \ {n} : roots'[p] = roots[p]
      BY <2>2 DEF RootsOK
    <2>4. Present(roots)' \subseteq Present(roots) \cup {n}
      BY <1>1, <2>3
    <2>5. Cardinality(Present(roots)') \in Nat /\ Cardinality(Present(roots)) \in Nat
          /\ Cardinality(Present(roots)') <= Cardinality(Present(roots)) + 1
      BY <1>2, <2>4, OneMore, FS_CardinalityType
    <2> QED
      BY <2>2, <2>5, Bounds
  <1>5. ASSUME NEW t \in Tasks, Acts(t)
        PROVE  Present(roots)' \subseteq Present(roots) \/ EndPick(t)
    BY <1>1, <1>5, QuietAct DEF RootQuiet, BeginPick, rootVars
  <1>6. ASSUME Aside PROVE Present(roots)' \subseteq Present(roots)
    BY <1>1, <1>6, RootsAside DEF CloseEvent, ConsumeRoot, rootVars, RootsOK
  <1> QED
    BY <1>3, <1>4, <1>5, <1>6, Kinds

\* With nothing held, the limits are kept.
LEMMA InitLimits == Init => WithinLimits
  <1> SUFFICES ASSUME Init PROVE WithinLimits
    OBVIOUS
  <1>1. /\ \A w \in Windows : Results(w) = {} /\ OfWindow(exports, w) = {}
        /\ Present(exports) = {} /\ Present(roots) = {}
        /\ \A w \in Windows, r \in Runs : Replaced(reads, w, r) = {}
    BY DEF Init, Results, OfWindow, Present, Replaced
  <1>2. UNION {{w} \X Results(w) : w \in Windows} = {}
    BY <1>1
  <1>3. Cardinality({}) = 0 /\ 0 <= MaxReads /\ 0 <= MaxReadsOf /\ 0 <= MaxExports /\ 0 <= MaxExportsOf
        /\ 0 <= MaxRoots /\ 0 <= 1
    BY FS_EmptySet, Bounds
  <1> QED
    BY <1>1, <1>2, <1>3 DEF WithinLimits

\* Every step keeps the limits of the registries.
LEMMA LimitsStep ==
  ASSUME Inv, Inv', WithinLimits, [Next]_vars
  PROVE  WithinLimits'
  <1>1. /\ ReadsOK /\ ReadsTyped /\ ExportsOK /\ RootsOK /\ TasksOK /\ TokenInv /\ AskedInv
        /\ ReadsOK' /\ ReadsTyped' /\ ExportsOK' /\ RootsOK' /\ OneEach'
    BY TypeParts DEF Inv, ReadsOK, ReadsTyped, TypeOK, ExportsOK, RootsOK
  <1>2. /\ Cardinality(Keys) <= MaxReads
        /\ \A w \in Windows : Cardinality(Results(w)) <= MaxReadsOf
        /\ \A w \in Windows : Cardinality(OfWindow(exports, w)) <= MaxExportsOf
        /\ Cardinality(Present(exports)) <= MaxExports /\ Cardinality(Present(roots)) <= MaxRoots
    BY DEF WithinLimits, Keys
  <1>3. /\ Cardinality(Present(exports)') <= MaxExports
        /\ \A w \in Windows : Cardinality(OfWindow(exports, w)') <= MaxExportsOf
    BY <1>1, <1>2, ExportCounts
  <1>4. Cardinality(Present(roots)') <= MaxRoots
    BY <1>1, <1>2, RootCounts
  <1>5. \A w \in Windows, r \in Runs : Cardinality(Replaced(reads, w, r)') <= 1
    <2>1. ASSUME NEW w \in Windows, NEW r \in Runs
          PROVE  Cardinality(Replaced(reads, w, r)') <= 1
      <3>1. \A s, p \in Replaced(reads, w, r)' : s = p
        BY <1>1 DEF OneEach, Replaced, Present, SameRun, ReadsTyped
      <3>2. CASE Replaced(reads, w, r)' = {}
        BY <3>2, FS_EmptySet
      <3>3. CASE Replaced(reads, w, r)' # {}
        <4>1. PICK s : Replaced(reads, w, r)' = {s}
          BY <3>1, <3>3
        <4> QED
          BY <4>1, FS_Singleton
      <3> QED
        BY <3>2, <3>3
    <2> QED
      BY <2>1
  <1>6. Cardinality(Keys') <= MaxReads /\ \A w \in Windows : Cardinality(Results(w)') <= MaxReadsOf
    <2>1. ASSUME NEW t \in Tasks, NEW v \in Windows, NEW q \in Runs, BeginOpen(t, v, q), OpenAdmitted(v, q)
          PROVE  Cardinality(Keys') <= MaxReads /\ \A w \in Windows : Cardinality(Results(w)') <= MaxReadsOf
      BY <1>1, <1>2, <2>1, OpenCounts
    <2>2. ASSUME \A t \in Tasks : \A v \in Windows, q \in Runs : BeginOpen(t, v, q) => ~OpenAdmitted(v, q)
          PROVE  Cardinality(Keys') <= MaxReads /\ \A w \in Windows : Cardinality(Results(w)') <= MaxReadsOf
      <3>1. ASSUME NEW w \in Windows, NEW r, Key(w, r)' PROVE Key(w, r)
        BY <1>1, <2>2, <3>1, KeyStep
      <3>2. Keys' \subseteq Keys /\ \A w \in Windows : Results(w)' \subseteq Results(w)
        <4> HIDE DEF Key
        <4> QED
          BY <1>1, <3>1, KeysAre, KeysWillBe
      <3>3. /\ Cardinality(Keys') \in Nat /\ Cardinality(Keys) \in Nat
            /\ Cardinality(Keys') <= Cardinality(Keys)
        BY <1>1, <3>2, KeysFinite, Smaller
      <3>4. ASSUME NEW w \in Windows
            PROVE  /\ Cardinality(Results(w)') \in Nat /\ Cardinality(Results(w)) \in Nat
                   /\ Cardinality(Results(w)') <= Cardinality(Results(w))
        BY <1>1, <3>2, KeysFinite, Smaller
      <3> QED
        BY <1>2, <3>3, <3>4, Bounds
    <2> QED
      BY <2>1, <2>2
  <1> QED
    BY <1>3, <1>4, <1>5, <1>6 DEF WithinLimits, Keys

\* Every variable of Grants keeps its type, for any windows, runs, commands and
\* limits (the registries of scan_service.rs).
THEOREM TypeCorrect == Spec => []TypeOK
  <1>1. Inv => TypeOK
    BY DEF Inv
  <1> QED
    BY InvHolds, <1>1, PTL

\* An export that still runs although its result token was closed or replaced
\* was told to stop, and no selection of it is left to be started
\* (begin_history_export against close_result_read).
THEOREM RevokedStop == Spec => []RevokedExportsStop
  <1>1. Inv => RevokedExportsStop
    BY DEF Inv, ExportInv, Stopped, RevokedExportsStop, Present, TypeOK
  <1> QED
    BY InvHolds, <1>1, PTL

\* Once the close of a window was handled to the last spawned task, it holds no
\* token and no opening, and its exports were told to stop
\* (cancel_for_window_close).
THEOREM ClosedIsEmpty == Spec => []ClosedHoldsNothing
  <1>1. ASSUME Inv, NEW w \in Windows, Gone(w)
        PROVE  /\ OfWindow(reads, w) = {} /\ OfWindow(pending, w) = {}
               /\ \A x \in OfWindow(exports, w) : exports[x].stage = "pending" \/ exports[x].cancelled
    <2>1. OfWindow(reads, w) = {} /\ OfWindow(pending, w) = {}
      BY <1>1 DEF Inv, HoldsNothing, Holds, OfWindow, Present, TypeOK
    <2>2. Barred(w)
      BY <1>1 DEF Gone, Barred, Revoking
    <2>3. \A x \in OfWindow(exports, w) : exports[x].stage = "pending" \/ exports[x].cancelled
      BY <1>1, <2>2 DEF Inv, ExportInv, Stopped, OfWindow, Present, TypeOK
    <2> QED
      BY <2>1, <2>3
  <1>2. Inv => ClosedHoldsNothing
    BY <1>1 DEF ClosedHoldsNothing
  <1> QED
    BY InvHolds, <1>2, PTL

\* The answer of a folder picker that was open when its window was told to
\* close gives no root token (finish_scan_root_selection).
THEOREM RootsWereAwaited == Spec => []RootsAreAwaited
  <1>1. Inv => RootsAreAwaited
    BY DEF Inv, RootInv, RootsAreAwaited, Present, TypeOK
  <1> QED
    BY InvHolds, <1>1, PTL

\* Every place of every registry belongs to a command in progress or to a
\* destructor's task, and no registry exceeds its limits, whatever fails, runs
\* out or is closed between two steps (the registries of scan_service.rs and
\* their permits' destructors).
THEOREM LeaksNothing == Spec => []NothingLeaks
  <1>1. Inv => Accounted
    BY PlacesAccounted
  <1>2. Init => Inv /\ WithinLimits
    BY InitInv, InitLimits
  <1>3. (Inv /\ WithinLimits) /\ [Next]_vars => (Inv /\ WithinLimits)'
    BY InvStep, LimitsStep
  <1>4. Inv /\ WithinLimits => NothingLeaks
    BY <1>1 DEF NothingLeaks
  <1> QED
    BY <1>2, <1>3, <1>4, PTL DEF Spec

-----------------------------------------------------------------------------
(* A token is spent once.                                                  *)

\* A result token keeps its window and its run, and is late for good; it is made
\* by its opening alone, in a window that is open; one that is gone stays gone.
TokenSpent(s) ==
  /\ reads[s] # None /\ reads'[s] # None =>
       /\ reads'[s].window = reads[s].window /\ reads'[s].run = reads[s].run
       /\ reads[s].late => reads'[s].late
  /\ reads[s] = None /\ reads'[s] # None =>
       /\ pending[s] # None /\ pending'[s] = None
       /\ reads'[s].window = pending[s].window /\ reads'[s].run = pending[s].run
       /\ reads'[s].window \notin closed
  /\ s <= opened /\ reads[s] = None /\ pending[s] = None =>
       reads'[s] = None /\ pending'[s] = None

\* The stages of an export, in their order.
StageOf(e) == IF e.stage = "pending" THEN 1 ELSE IF e.stage = "granted" THEN 2 ELSE 3

\* An export goes forward from stage to stage, for the result and the window it
\* was picked for; it is granted only while the result is there, and told to stop
\* for good; one that is gone stays gone.
ExportSpent(x) ==
  /\ exports[x] # None /\ exports'[x] # None =>
       /\ exports'[x].token = exports[x].token /\ exports'[x].window = exports[x].window
       /\ StageOf(exports[x]) <= StageOf(exports'[x])
       /\ StageOf(exports'[x]) <= StageOf(exports[x]) + 1
       /\ exports[x].cancelled => exports'[x].cancelled
       /\ exports[x].stage = "pending" /\ exports'[x].stage = "granted" =>
            exports[x].token \notin revoked
  /\ x <= selected /\ exports[x] = None => exports'[x] = None

\* A folder's token is given to the window that waits for it, which then no longer
\* does; a picker nobody waits for gives nothing and is never waited for again.
RootSpent(p) ==
  /\ roots[p] = None /\ roots'[p] # None =>
       /\ picking[roots'[p].window] = p
       /\ \A w \in Windows : picking'[w] # p
  /\ roots[p] # None /\ roots'[p] # None => roots'[p] = roots[p]
  /\ p <= picked /\ (\A w \in Windows : picking[w] # p) =>
       /\ roots[p] = None => roots'[p] = None
       /\ \A w \in Windows : picking'[w] # p

\* No token is given twice, revived, or handed to another window, whatever
\* commands, expiries and closes come between two of its uses.
TokensSpentOnce == [][
  /\ closed \subseteq closed'
  /\ \A s \in Opens : TokenSpent(s)
  /\ \A x \in Selections : ExportSpent(x)
  /\ \A p \in Pickers : RootSpent(p)]_vars

\* A token that ran out is not alive again: no query, export or restart of a
\* command sets its time anew.
LateMove(k) == reads[k] # None /\ reads'[k] # None /\ reads[k].late => reads'[k].late
LEMMA LateStep ==
  ASSUME ReadsOK, ReadsTyped, ExportsOK, RootsOK, TasksOK, TokenInv, NewInv, NEW k \in Opens,
         [Next]_vars
  PROVE  LateMove(k)
  <1> USE Names, Counting, Drawn DEF LateMove, Tokenless, Selecting, vars, closeVars,
      readVars, exportVars, rootVars, ghosts, At
  <1>1. ASSUME NEW t \in Tasks, NEW w \in Windows, NEW r \in Runs, BeginOpen(t, w, r)
        PROVE  LateMove(k)
    BY <1>1, Pruning, Beginning
       DEF BeginOpen, Present, SameRun, Replaced, OfWindow, Begun
  <1>2. ASSUME NEW t \in Tasks, Issue(t) PROVE LateMove(k)
    BY <1>2, Pruning DEF Issue, NewInv, TokenFresh
  <1>3. ASSUME NEW t \in Tasks, RefuseOpen(t) PROVE LateMove(k)
    BY <1>3, Pruning, Going
       DEF RefuseOpen, Moved
  <1>4. ASSUME NEW t \in Tasks, BeginSummary(t) PROVE LateMove(k)
    BY <1>4, TakingLease, Going, Forgetting
       DEF BeginSummary, Readable, Expired, Authorised, OfWindow, Present, Remade, Moved, Lost
  <1>5. ASSUME NEW t \in Tasks, CloseOpened(t) PROVE LateMove(k)
    BY <1>5 DEF CloseOpened, CloseRead, ReadsTyped
  <1>6. ASSUME NEW t \in Tasks, FinishRead(t) PROVE LateMove(k)
    BY <1>6, Going, Forgetting, Unleasing, Ending
       DEF FinishRead, Finish, AfterRead, Moved, Lost, Remade, Ended
  <1>7. ASSUME NEW t \in Tasks, RevokeLease(t) PROVE LateMove(k)
    BY <1>7, Forgetting, Going, Ending
       DEF RevokeLease, Lost, Moved, Ended
  <1>8. ASSUME NEW t \in Tasks, Validate(t) PROVE LateMove(k)
    BY <1>8, Going, Forgetting
       DEF Validate, Authorised, Expired, OfWindow, Present, Moved, Lost
  <1>9. ASSUME NEW t \in Tasks, LeaseExport(t) PROVE LateMove(k)
    BY <1>9, TakingLease, Going, Forgetting, Ending
       DEF LeaseExport, Readable, Expired, Authorised, OfWindow, Present, Remade, Moved,
           Lost, Ended
  <1>10. ASSUME NEW t \in Tasks, EndWriting(t) PROVE LateMove(k)
    BY <1>10, Going, Forgetting, Unleasing
       DEF EndWriting, Finish, Moved, Lost, Remade
  <1>11. ASSUME NEW t \in Tasks, DropLease(t) PROVE LateMove(k)
    BY <1>11, Ending, Going, Unleasing
       DEF DropLease, Ended, Moved, Remade
  <1>12. ASSUME NEW t \in Tasks, NEW s \in Opens, BeginRead(t, s) PROVE LateMove(k)
    BY <1>12, TakingLease, Beginning, Forgetting
       DEF BeginRead, Present, Readable, Expired, Authorised, OfWindow, Remade, Begun, Lost
  <1>13. ASSUME NEW t \in Tasks, NEW s \in Opens, CloseToken(t, s) PROVE LateMove(k)
    BY <1>13 DEF CloseToken, CloseRead, ReadsTyped
  <1>14. ASSUME NEW t \in Tasks, NEW s \in Opens, BeginSelection(t, s) PROVE LateMove(k)
    BY <1>14, Beginning, Forgetting
       DEF BeginSelection, Present, Authorised, Expired, OfWindow, Begun, Lost
  <1>15. ASSUME NEW s \in Opens, ReleaseLater(s) PROVE LateMove(k)
    BY <1>15, Unleasing
       DEF ReleaseLater, Remade
  <1>16. ASSUME NEW w \in Windows, RemoveLater(w) PROVE LateMove(k)
    BY <1>16
       DEF RemoveLater, RemoveFor, OfWindow, Present
  <1>17. CASE CloseRemove
    BY <1>17
       DEF CloseRemove, RemoveFor, OfWindow, Present
  <1>18. ASSUME NEW s \in Opens, AgeRead(s) PROVE LateMove(k)
    BY <1>18
       DEF AgeRead, Present
  <1>19. CASE UNCHANGED reads
    BY <1>19
  <1> QED
    BY Frame, <1>19, <1>1, <1>2, <1>3, <1>4, <1>5, <1>6, <1>7, <1>8, <1>9, <1>10, <1>11,
       <1>12, <1>13, 
       <1>14, <1>15, <1>16, <1>17, <1>18
       DEF ReadWork

\* Issuing a token is what ends its opening, in a window that is open.
LEMMA IssuedOnce ==
  ASSUME ReadsOK, ReadsTyped, ExportsOK, RootsOK, TasksOK, TokenInv, AskedInv,
         NEW t \in Tasks, Issue(t), NEW s \in Opens, task[t].token = s
  PROVE  /\ pending[s] # None /\ pending'[s] = None
         /\ reads'[s].window = pending[s].window /\ reads'[s].run = pending[s].run
         /\ reads'[s].window \notin closed
  <1>1. At(t, "open") /\ pending[s] # None /\ task[t].window \notin closed
    BY DEF Issue
  <1>2. pending'[s] = None
    BY DEF Issue, ReadsOK
  <1>3. PICK e : e = [window |-> task[t].window, run |-> pending[s].run, busy |-> FALSE,
                      late |-> FALSE]
    OBVIOUS
  <1>4. reads'[s] = e
    BY <1>3 DEF Issue
  <1>5. pending[s].window = task[t].window
    BY <1>1 DEF AskedInv, Asked
  <1> QED
    BY <1>1, <1>2, <1>3, <1>4, <1>5

\* A result token is spent once.
LEMMA TokenSpentStep ==
  ASSUME ReadsOK, ReadsTyped, ExportsOK, RootsOK, TasksOK, TokenInv, NewInv, AskedInv,
         NEW s \in Opens, [Next]_vars
  PROVE  TokenSpent(s)
  <1>1. KeptMove(s) /\ LateMove(s) /\ PendingMove(s)
    BY KeptStep, LateStep, PendingStep
  <1>2. ASSUME NEW t \in Tasks, Issue(t), task[t].token = s
        PROVE  reads[s] = None
    BY <1>2 DEF NewInv, TokenFresh, Issue
  <1>3. ASSUME reads[s] # None, reads'[s] # None
        PROVE  /\ reads'[s].window = reads[s].window /\ reads'[s].run = reads[s].run
               /\ reads[s].late => reads'[s].late
    BY <1>1, <1>2, <1>3 DEF KeptMove, LateMove
  <1>4. ASSUME reads[s] = None, reads'[s] # None
        PROVE  \E t \in Tasks : Issue(t) /\ task[t].token = s
    BY <1>1, <1>4 DEF KeptMove
  <1>5. ASSUME s <= opened, pending[s] = None PROVE pending'[s] = None
    <2>1. opened \in Nat /\ s \in Nat
      BY Bounds DEF ReadsOK, Opens
    <2>2. s # opened + 1
      BY <1>5, <2>1
    <2> QED
      BY <1>1, <1>5, <2>2 DEF PendingMove
  <1>6. ASSUME reads[s] = None, reads'[s] # None
        PROVE  /\ pending[s] # None /\ pending'[s] = None
               /\ reads'[s].window = pending[s].window /\ reads'[s].run = pending[s].run
               /\ reads'[s].window \notin closed
    BY <1>4, <1>6, IssuedOnce
  <1> QED
    BY <1>3, <1>5, <1>6 DEF TokenSpent

\* An export is spent once.
LEMMA ExportSpentStep ==
  ASSUME ReadsOK, ReadsTyped, ExportsOK, RootsOK, TasksOK, TokenInv, ExportInv,
         NEW x \in Selections, [Next]_vars
  PROVE  ExportSpent(x)
  <1>1. ExportMove(x)
    BY ExportsMove
  <1>2. x \in Nat /\ selected \in Nat
    BY Bounds DEF ExportsOK, Selections
  <1>3. exports[x] # None => exports[x].stage \in {"pending", "granted", "running"}
    BY ExportFields
  <1>4. ASSUME NEW t \in Tasks, GrantExport(t), task[t].number = x,
               exports[x] # None, exports'[x] # None, exports'[x].stage # exports[x].stage
        PROVE  /\ exports[x].stage = "pending" /\ exports'[x].stage = "granted"
               /\ exports[x].token \notin revoked
    <2>1. At(t, "checked") /\ task[t] # None
      BY <1>4 DEF GrantExport, At
    <2>2. /\ exports[x].token = task[t].token /\ exports[x].stage = "pending"
          /\ task[t].token \notin revoked
      BY <1>4, <2>1 DEF ExportInv, Matched, Selecting, Picks, At
    <2>3. SetStage(x, "granted")
      BY <1>4 DEF GrantExport
    <2> QED
      BY <1>4, <2>2, <2>3, Staging DEF Staged
  <1>5. ASSUME x <= selected, exports[x] = None PROVE exports'[x] = None
    <2>1. x # selected + 1
      BY <1>2, <1>5
    <2> QED
      BY <1>1, <1>5, <2>1 DEF ExportMove
  <1>6. ASSUME exports[x] # None, exports'[x] # None
        PROVE  \/ /\ exports'[x].token = exports[x].token
                  /\ exports'[x].window = exports[x].window
                  /\ exports[x].cancelled => exports'[x].cancelled
                  /\ \/ exports'[x].stage = exports[x].stage
                     \/ /\ exports[x].stage = "pending" /\ exports'[x].stage = "granted"
                        /\ exports[x].token \notin revoked
                     \/ exports[x].stage = "granted" /\ exports'[x].stage = "running"
               \/ x = selected + 1
    BY <1>1, <1>4, <1>6 DEF ExportMove
  <1>7. exports[x] # None => x # selected + 1
    BY <1>2 DEF TokenInv, ExportDrawn
  <1> QED
    BY <1>3, <1>5, <1>6, <1>7 DEF ExportSpent, StageOf

\* A folder picker gives one token at most, to the window that waits for it.
LEMMA RootSpentStep ==
  ASSUME ReadsOK, ReadsTyped, ExportsOK, RootsOK, TasksOK, TokenInv, RootInv,
         NEW p \in Pickers, [Next]_vars
  PROVE  RootSpent(p)
  <1>0. /\ picked \in Nat /\ picking \in [Windows -> 0 .. MaxPickers]
        /\ roots \in [Pickers -> Root \cup {None}] /\ p \in Nat /\ p # 0
    BY Bounds DEF RootsOK, Pickers
  <1>1. /\ \A w \in Windows : picking[w] \in Nat /\ picking[w] <= picked
        /\ roots[p] # None => p <= picked
    BY <1>0, Bounds DEF RootInv
  <1>2. ASSUME UNCHANGED rootVars PROVE RootSpent(p)
    BY <1>0, <1>1, <1>2 DEF RootSpent, rootVars
  <1>3. ASSUME NEW t \in Tasks, NEW w \in Windows, BeginPick(t, w) PROVE RootSpent(p)
    <2>1. /\ roots' = roots /\ picking' = [picking EXCEPT ![w] = picked + 1]
      BY <1>3 DEF BeginPick
    <2>2. \A v \in Windows : picking'[v] = picking[v] \/ picking'[v] = picked + 1
      BY <1>0, <2>1
    <2> QED
      BY <1>0, <1>1, <2>1, <2>2 DEF RootSpent
  <1>4. ASSUME NEW t \in Tasks, EndPick(t) PROVE RootSpent(p)
    <2>1. PICK w \in Windows, k \in Pickers : w = task[t].window /\ k = task[t].number
      BY <1>4, Drawn DEF EndPick, At, Tokenless
    <2>2. At(t, "choosing") /\ roots[k] = None /\ \A v \in Windows \ {w} : picking[v] # k
      BY <1>4, <2>1 DEF EndPick, RootInv, Awaiting
    <2>3. CASE picking[w] = k
      <3>1. PICK e : e = [window |-> w]
        OBVIOUS
      <3>2. /\ picking' = [picking EXCEPT ![w] = 0]
            /\ roots' = [roots EXCEPT ![k] = e] \/ roots' = roots
        BY <1>4, <2>1, <2>3, <3>1 DEF EndPick, Awaited
      <3>3. /\ \A v \in Windows : picking'[v] = IF v = w THEN 0 ELSE picking[v]
            /\ roots'[p] = roots[p] \/ (p = k /\ roots'[p] = e)
        BY <1>0, <3>2
      <3>4. e.window = w
        BY <3>1
      <3> QED
        BY <1>0, <1>1, <2>2, <2>3, <3>3, <3>4 DEF RootSpent
    <2>4. CASE picking[w] # k
      BY <1>0, <1>1, <1>4, <2>1, <2>4 DEF EndPick, Awaited, RootSpent
    <2> QED
      BY <2>3, <2>4
  <1>5. ASSUME NEW w \in Windows, CloseEvent(w) PROVE RootSpent(p)
    <2>1. /\ \A v \in Windows : picking'[v] = IF v = w THEN 0 ELSE picking[v]
          /\ roots'[p] = None \/ roots'[p] = roots[p]
      BY <1>0, <1>5 DEF CloseEvent
    <2> QED
      BY <1>0, <1>1, <2>1 DEF RootSpent
  <1>6. ASSUME NEW k \in Pickers, ConsumeRoot(k) PROVE RootSpent(p)
    <2>1. picking' = picking /\ (roots'[p] = None \/ roots'[p] = roots[p])
      BY <1>0, <1>6 DEF ConsumeRoot
    <2> QED
      BY <1>0, <1>1, <2>1 DEF RootSpent
  <1>7. ASSUME NEW t \in Tasks, NEW w \in Windows, BeginListing(t, w) PROVE RootSpent(p)
    BY <1>2, <1>7 DEF BeginListing
  <1>8. ASSUME NEW t \in Tasks, EndListing(t) PROVE RootSpent(p)
    BY <1>2, <1>8 DEF EndListing
  <1> QED
    BY Frame, <1>2, <1>3, <1>4, <1>5, <1>6, <1>7, <1>8 DEF PickWork

\* A window that was told to close is told for good.
LEMMA ClosedForGood ==
  ASSUME [Next]_vars
  PROVE  closed \subseteq closed'
  <1>1. ASSUME NEW w \in Windows, CloseEvent(w) PROVE closed \subseteq closed'
    BY <1>1 DEF CloseEvent
  <1>2. ASSUME NEW w \in Windows, RemoveLater(w) PROVE closed \subseteq closed'
    BY <1>2 DEF RemoveLater
  <1>3. CASE CloseMark
    BY <1>3 DEF CloseMark
  <1>4. CASE CloseRevoke
    BY <1>4 DEF CloseRevoke
  <1>5. CASE CloseRemove
    BY <1>5 DEF CloseRemove
  <1> QED
    BY Frame, <1>1, <1>2, <1>3, <1>4, <1>5 DEF CloseWork, closeVars

\* Every token is used as the registries of scan_service.rs mean it to be: a result
\* token never comes back, is never alive again and is made for an open window by
\* its own opening; an export token starts one export, of a result that was not
\* given up when it was granted, and a cancellation is final; a folder gives one
\* root token, to the window that waited for it (issue_result_read_at,
\* begin_history_export, finish_scan_root_selection).
THEOREM TokensAreSpentOnce == Spec => TokensSpentOnce
  <1>1. ASSUME Inv, [Next]_vars
        PROVE  /\ closed \subseteq closed'
               /\ \A s \in Opens : TokenSpent(s)
               /\ \A x \in Selections : ExportSpent(x)
               /\ \A p \in Pickers : RootSpent(p)
    <2>1. /\ ReadsOK /\ ReadsTyped /\ ExportsOK /\ RootsOK /\ TasksOK /\ TokenInv /\ NewInv
          /\ AskedInv /\ ExportInv /\ RootInv
      BY <1>1, TypeParts DEF Inv, ReadsOK, ReadsTyped
    <2>2. \A s \in Opens : TokenSpent(s)
      BY <1>1, <2>1, TokenSpentStep
    <2>3. \A x \in Selections : ExportSpent(x)
      BY <1>1, <2>1, ExportSpentStep
    <2>4. \A p \in Pickers : RootSpent(p)
      BY <1>1, <2>1, RootSpentStep
    <2> QED
      BY <1>1, <2>2, <2>3, <2>4, ClosedForGood
  <1> QED
    BY <1>1, InvHolds, PTL DEF Spec, TokensSpentOnce
=============================================================================
