----------------------------- MODULE RunControl -----------------------------
(***************************************************************************)
(* The durable side of a scan: jobs, their runs, the lease of the live     *)
(* run, the pause / resume / cancel requests and the pause checkpoints of  *)
(* the version 8 and 9 tables.  (guiying-store/src/repository.rs,          *)
(* migrations.rs and migrations/0008_runtime_control.sql; the client is    *)
(* guiying-runtime/src/lib.rs)                                             *)
(*                                                                         *)
(* Every action is one immediate SQLite transaction, so a crash falls      *)
(* between actions.  A client may ask for a control change in one          *)
(* transaction and acknowledge it in a later one; the runtime does both in *)
(* one, two consecutive steps here.  The store verifies its file after the *)
(* commit, so a client may be told of an error although the change is      *)
(* durable: it keeps what it knew (MaxFaults bounds how often).            *)
(*                                                                         *)
(* Times are wall clock readings, and the clock may be set either way.  A  *)
(* job is named by its first run.  Digests, keys and counters other than   *)
(* the evidence count are left out, a run has one evidence count, a            *)
(* checkpoint's time is the time its run paused, and the time of a request *)
(* or a lease is kept as long as a rule looks at it.                       *)
(***************************************************************************)
EXTENDS Integers, FiniteSets, Sequences

CONSTANTS
  Scopes,       \* (volume, namespace, root, options) a scan may be asked for
  Recoverable,  \* scopes whose recovery policy admits a fresh child
  MaxRuns,      \* bound: runs ever created
  MaxTime,      \* bound: the clock reads 0..MaxTime
  MaxEvidence,  \* bound: evidence rows of one run
  MaxRequests,  \* bound: control requests of all runs
  MaxFaults     \* bound: answers lost after a commit

ASSUME ScopesKnown == Scopes # {} /\ Recoverable \subseteq Scopes
ASSUME Bounds ==
  /\ MaxRuns \in Nat /\ MaxTime \in Nat /\ MaxEvidence \in Nat
  /\ MaxRequests \in Nat /\ MaxFaults \in Nat

Ids  == 1..MaxRuns
Time == 0..MaxTime

VARIABLES
  now,          \* the wall clock
  jobs,         \* scan_jobs: a job's state, version, time, active run, scope
  runs,         \* scan_runs: a run's state, version, time, job, parent, sealed
  leases,       \* scan_runtime_leases: the one lease row a run may have
  requests,     \* scan_control_requests of a run, in sequence order
  checkpoints,  \* scan_pause_checkpoints of a run, by generation
  client,       \* the open Store and what its one attempt knows
  faults

tables == <<jobs, runs, leases, requests, checkpoints>>
vars   == <<now, tables, client, faults>>

States   == {"none", "running", "paused",
             "completed", "failed", "interrupted", "cancelled"}
JobStates == States \ {"interrupted"}
Kinds    == {"pause", "resume", "cancel"}
Disposed == {"pending", "acknowledged", "superseded", "interrupted"}
Reasons  == {"none", "completed", "failed", "interrupted", "cancelled",
             "process_restart"}

\* A row of each table, and what the open store's client knows.
JobRow  == [state : JobStates, ver : Nat, at : Time, run : 0..MaxRuns, scope : Scopes]
RunRow  == [state : States, ver : Nat, at : Time, job : 0..MaxRuns,
            parent : 0..MaxRuns, sealed : BOOLEAN]
LeaseRow == [state : {"none", "active", "released"}, why : Reasons, beat : Time,
             count : 0..MaxEvidence]
RequestRow == [kind : Kinds, disp : Disposed, job : Nat, ver : Nat, gen : Nat, at : Time]
CheckpointRow == [request : Nat, cursor : 0..MaxEvidence, job : Nat, ver : Nat]
Known == [open : BOOLEAN, run : 0..MaxRuns, lease : BOOLEAN, job : Nat, ver : Nat,
          gen : Nat, count : 0..MaxEvidence]

TypeOK ==
  /\ now \in Time /\ faults \in 0..MaxFaults
  /\ jobs \in [Ids -> JobRow]
  /\ runs \in [Ids -> RunRow]
  /\ leases \in [Ids -> LeaseRow]
  /\ requests \in [Ids -> Seq(RequestRow)]
  /\ checkpoints \in [Ids -> Seq(CheckpointRow)]
  /\ client \in Known

Live(s) == s \in {"running", "paused"}

Closed == [open |-> FALSE, run |-> 0, lease |-> FALSE,
           job |-> 0, ver |-> 0, gen |-> 0, count |-> 0]

Init ==
  /\ now = 0 /\ faults = 0
  /\ jobs = [j \in Ids |-> [state |-> "none", ver |-> 0, at |-> 0, run |-> 0,
                            scope |-> CHOOSE s \in Scopes : TRUE]]
  /\ runs = [r \in Ids |-> [state |-> "none", ver |-> 0, at |-> 0, job |-> 0,
                            parent |-> 0, sealed |-> FALSE]]
  /\ leases = [r \in Ids |-> [state |-> "none", why |-> "none", beat |-> 0,
                              count |-> 0]]
  /\ requests = [r \in Ids |-> << >>]
  /\ checkpoints = [r \in Ids |-> << >>]
  /\ client = Closed

(***************************************************************************)
(* Shared parts of the transactions.                                       *)
(***************************************************************************)
Later(a, b) == IF a >= b THEN a ELSE b

\* the change committed; the caller may still be told of an error
Answered(known) ==
  \/ client' = known /\ UNCHANGED faults
  \/ faults < MaxFaults /\ faults' = faults + 1 /\ UNCHANGED client

Pending(r) == {i \in DOMAIN requests[r] : requests[r][i].disp = "pending"}

PendingOf(r, k) == {i \in Pending(r) : requests[r][i].kind = k}

\* transition_scan_run and transition_scan_job take no time earlier than the row's
ClockReached(r) == runs[r].at <= now /\ jobs[runs[r].job].at <= now

\* the versions the caller expects are the rows' versions
Current(r) == client.ver = runs[r].ver /\ client.job = jobs[runs[r].job].ver

\* the caller holds the live lease of its run
Guarded(r) ==
  /\ client.open /\ client.run = r /\ r \in Ids /\ client.lease
  /\ leases[r].state = "active"

\* the run is bound to its job, whose active run it is
BoundActive(r) == jobs[runs[r].job].run = r

\* run r and its job move together, each to its next version
Move(r, runState, jobState) ==
  /\ runs' = [runs EXCEPT ![r].state = runState, ![r].ver = @ + 1, ![r].at = now]
  /\ jobs' = [jobs EXCEPT ![runs[r].job].state = jobState,
                          ![runs[r].job].ver = @ + 1,
                          ![runs[r].job].at = now]

\* release clamps its own times to the heartbeat, so the clock never refuses it
Released(lease, reason) ==
  [lease EXCEPT !.state = "released", !.why = reason, !.beat = 0]

\* no rule looks at the time of a request that is no longer pending
Dispose(q, disposition) == [q EXCEPT !.disp = disposition, !.at = 0]

(***************************************************************************)
(* Opening the store: everything another process left unfinished is        *)
(* settled in one transaction before the store is handed out.              *)
(***************************************************************************)
AbandonedRunning(r) == runs[r].state = "running" /\ leases[r].state = "active"

\* an unfinished run whose lease a former process held
Abandoned(r) ==
  /\ Live(runs[r].state) /\ Live(jobs[runs[r].job].state)
  /\ leases[r].state = "active"

CancelSurvivesRunning(r) ==
  Abandoned(r) /\ runs[r].state = "running" /\ PendingOf(r, "cancel") # {}

\* only a durable cancel is honoured across a restart
CancelSurvives(r) == Abandoned(r) /\ PendingOf(r, "cancel") # {}

LeftOverSettled(r) ==
  Abandoned(r) \/ (runs[r].state # "none" /\ leases[r].state = "none")

\* every run another process left unfinished, leased or not yet
LeftOver(r) == Abandoned(r) \/ (Live(runs[r].state) /\ leases[r].state = "none")

RestartRun(r) ==
  IF ~LeftOver(r) THEN runs[r]
  ELSE [runs[r] EXCEPT
          !.state = IF CancelSurvives(r) THEN "cancelled" ELSE "interrupted",
          !.ver = @ + 1, !.at = Later(@, now)]

RestartJob(j) ==
  IF ~(Live(jobs[j].state) /\ LeftOver(jobs[j].run)) THEN jobs[j]
  ELSE [jobs[j] EXCEPT
          !.state = IF CancelSurvives(jobs[j].run) THEN "cancelled" ELSE "failed",
          !.ver = @ + 1, !.at = Later(@, now)]

RestartRequestAlike(r, q) ==
  IF q.disp # "pending" THEN q ELSE Dispose(q, "interrupted")

\* a cancel is acknowledged at the last checkpoint, anything else is interrupted
RestartRequest(r, q) ==
  IF q.disp # "pending" THEN q
  ELSE IF q.kind = "cancel"
       THEN [Dispose(q, "acknowledged") EXCEPT !.gen = Len(checkpoints[r])]
       ELSE Dispose(q, "interrupted")

Open ==
  /\ ~client.open
  /\ runs' = [r \in Ids |-> RestartRun(r)]
  /\ jobs' = [j \in Ids |-> RestartJob(j)]
  /\ leases' = [r \in Ids |-> IF Abandoned(r)
                              THEN Released(leases[r], "process_restart")
                              ELSE leases[r]]
  /\ requests' = [r \in Ids |->
       IF ~Abandoned(r) THEN requests[r]
       ELSE [i \in DOMAIN requests[r] |-> RestartRequest(r, requests[r][i])]]
  /\ client' = [Closed EXCEPT !.open = TRUE]
  /\ UNCHANGED <<now, checkpoints, faults>>

\* the attempt is dropped, the window closes, or the process dies
Close ==
  /\ client.open /\ client' = Closed
  /\ UNCHANGED <<now, tables, faults>>

(***************************************************************************)
(* A new attempt: a fresh child of the one interrupted job of this scope,  *)
(* else a new job.                                                         *)
(***************************************************************************)
\* the namespace's policy admits a fresh attempt of the scope
Reusable(s) == s \in Recoverable

Candidates(s) ==
  {j \in Ids : /\ jobs[j].state = "failed" /\ jobs[j].scope = s
               /\ Reusable(s)
               /\ runs[jobs[j].run].state = "interrupted"
               /\ leases[jobs[j].run].state # "active"}

\* Unique, or nothing: an ambiguous selection is treated as none
RecoveryTarget(s) ==
  IF Cardinality(Candidates(s)) = 1 THEN CHOOSE j \in Candidates(s) : TRUE ELSE 0

\* a job as it is created, before it has a run
NewJob(s) == [state |-> "queued", ver |-> 0, at |-> now, run |-> 0, scope |-> s]

\* a run's key is new: looked up, it is not found
Unused(r) == runs[r].state = "none" /\ \A q \in 1..(r - 1) : runs[q].state # "none"

\* the job is new, or its active run was interrupted and nobody holds it
AttemptAdmitted(job, s) ==
  /\ job.scope = s
  /\ \/ job.state = "queued" /\ job.run = 0
     \/ /\ job.state = "failed" /\ Reusable(s)
        /\ runs[job.run].state = "interrupted" /\ leases[job.run].state # "active"

\* the attempt's rows; the job's active run is its parent
NewRun(id, job) == [state |-> "queued", ver |-> 0, at |-> now, job |-> id,
                    parent |-> job.run, sealed |-> FALSE]

\* a queued run and its job are set going in the transaction that made them
Running(row) == [row EXCEPT !.state = "running", !.ver = @ + 1, !.at = now]

Start(s, r) ==
  LET old == RecoveryTarget(s)
      id  == IF old = 0 THEN r ELSE old
      job == IF old = 0 THEN NewJob(s) ELSE jobs[old]
  IN /\ client.open /\ client.run = 0
     /\ Unused(r) /\ AttemptAdmitted(job, s) /\ job.at <= now
     /\ runs' = [runs EXCEPT ![r] = Running(NewRun(id, job))]
     /\ jobs' = [jobs EXCEPT ![id] = Running([job EXCEPT !.run = r])]
     \* an error here ends the attempt, so a lost answer is a Close
     /\ client' = [client EXCEPT !.run = r, !.job = job.ver + 1, !.ver = 1]
     /\ UNCHANGED <<now, leases, requests, checkpoints, faults>>

(***************************************************************************)
(* Evidence.                                                               *)
(***************************************************************************)
\* the run is its job's active one and both run: its core session may be bound
CoreBound(r) ==
  /\ client.open /\ client.run = r /\ BoundActive(r)
  /\ runs[r].state = "running" /\ jobs[runs[r].job].state = "running"

\* the first batch binds the core session and takes the lease
BindLease(r) ==
  /\ CoreBound(r) /\ ~client.lease
  /\ leases[r].state = "none"
  /\ runs[r].at <= now
  /\ leases' = [leases EXCEPT ![r].state = "active", ![r].beat = now]
  /\ runs' = [runs EXCEPT ![r].at = now]
  /\ Answered([client EXCEPT !.lease = TRUE])
  /\ UNCHANGED <<now, jobs, requests, checkpoints>>

\* only an active lease counts the evidence
Counted(lease) ==
  IF lease.state = "active" THEN [lease EXCEPT !.count = @ + 1] ELSE lease

\* the evidence guard: the live session of a running run, under its lease
CoreGuarded(r) == Guarded(r) /\ CoreBound(r)

\* a further batch and the run's progress
Observe(r) ==
  /\ CoreGuarded(r)
  /\ ~runs[r].sealed /\ leases[r].count < MaxEvidence
  /\ runs[r].at <= now
  /\ leases' = [leases EXCEPT ![r] = Counted(@)]
  /\ runs' = [runs EXCEPT ![r].at = now]
  /\ Answered([client EXCEPT !.count = leases'[r].count])
  /\ UNCHANGED <<now, jobs, requests, checkpoints>>

\* the stages are sealed one after the other; the last one allows completion
Seal(r) ==
  /\ CoreGuarded(r) /\ ~runs[r].sealed
  /\ runs' = [runs EXCEPT ![r].sealed = TRUE]
  /\ UNCHANGED <<now, jobs, leases, requests, checkpoints, client, faults>>

(***************************************************************************)
(* Control requests.                                                       *)
(***************************************************************************)
Requestable(r, kind) ==
  /\ \A i \in DOMAIN requests[r] : requests[r][i].kind # "cancel"
  /\ kind # "cancel" => Pending(r) = {}
  /\ now >= leases[r].beat
  /\ kind = "pause" => runs[r].state = "running"
  /\ kind = "resume" =>
       /\ runs[r].state = "paused"
       /\ client.gen = Len(checkpoints[r]) /\ client.gen > 0
       /\ \A i \in (checkpoints[r][client.gen].request + 1)..Len(requests[r]) :
            requests[r][i].disp # "acknowledged"
  /\ kind = "cancel" => Live(runs[r].state)

\* the requests of all runs
Asked == Cardinality(UNION {{r} \X DOMAIN requests[r] : r \in Ids})

\* asking again with the same key is answered from the table and changes nothing
Request(r, kind) ==
  /\ Guarded(r) /\ Current(r) /\ Requestable(r, kind)
  /\ Asked < MaxRequests
  /\ LET earlier == [i \in DOMAIN requests[r] |->
                       IF i \in Pending(r) THEN Dispose(requests[r][i], "superseded")
                       ELSE requests[r][i]]
         request == [kind |-> kind, disp |-> "pending", at |-> now,
                     job |-> client.job, ver |-> client.ver,
                     gen |-> IF kind = "resume" THEN client.gen ELSE 0]
     IN requests' = [requests EXCEPT ![r] = Append(earlier, request)]
  /\ UNCHANGED <<now, jobs, runs, leases, checkpoints, client, faults>>

\* the request is still the one its caller asked for, and its time has come
Answerable(r, i) ==
  /\ requests[r][i].ver = runs[r].ver /\ requests[r][i].job = jobs[runs[r].job].ver
  /\ requests[r][i].at <= now
  /\ ClockReached(r)

Acknowledge(r, i, gen) ==
  requests' = [requests EXCEPT
                 ![r][i] = [Dispose(@, "acknowledged") EXCEPT !.gen = gen]]

CursorBoundLoose(r) == client.count <= leases[r].count

\* the checkpoint says exactly how far the evidence goes
CursorBound(r) == client.count = leases[r].count

AckPause(r) ==
  \E i \in PendingOf(r, "pause") :
    /\ Guarded(r) /\ Current(r) /\ Answerable(r, i)
    /\ runs[r].state = "running" /\ jobs[runs[r].job].state = "running"
    /\ CursorBound(r)
    /\ client.gen = Len(checkpoints[r])
    /\ client.gen > 0 => checkpoints[r][client.gen].cursor <= client.count
    /\ checkpoints' = [checkpoints EXCEPT ![r] = Append(@,
         [request |-> i, cursor |-> client.count,
          job |-> client.job + 1, ver |-> client.ver + 1])]
    /\ Move(r, "paused", "paused")
    /\ Acknowledge(r, i, client.gen + 1)
    /\ Answered([client EXCEPT !.job = @ + 1, !.ver = @ + 1, !.gen = @ + 1])
    /\ UNCHANGED <<now, leases>>

\* the same checkpoint written again is answered from the table
PauseAgain(r) ==
  /\ client.open /\ client.run = r /\ client.lease
  /\ client.gen < Len(checkpoints[r])
  /\ LET c == checkpoints[r][client.gen + 1]
     IN /\ c.job = client.job + 1 /\ c.ver = client.ver + 1
        /\ c.cursor = client.count
        /\ client' = [client EXCEPT !.job = c.job, !.ver = c.ver, !.gen = @ + 1]
  /\ UNCHANGED <<now, tables, faults>>

AckResume(r) ==
  \E i \in PendingOf(r, "resume") :
    /\ Guarded(r) /\ Answerable(r, i) /\ runs[r].state = "paused"
    /\ Move(r, "running", "running")
    /\ Acknowledge(r, i, requests[r][i].gen)
    /\ Answered([client EXCEPT !.job = requests[r][i].job + 1,
                               !.ver = requests[r][i].ver + 1])
    /\ UNCHANGED <<now, leases, checkpoints>>

AckCancel(r) ==
  \E i \in PendingOf(r, "cancel") :
    /\ Guarded(r) /\ Answerable(r, i) /\ Live(runs[r].state)
    /\ Move(r, "cancelled", "cancelled")
    /\ Acknowledge(r, i, Len(checkpoints[r]))
    /\ leases' = [leases EXCEPT ![r] = Released(@, "cancelled")]
    /\ Answered([client EXCEPT !.lease = FALSE])
    /\ UNCHANGED <<now, checkpoints>>

(***************************************************************************)
(* The end of a run.                                                       *)
(***************************************************************************)
Outcomes == {"completed", "failed", "interrupted"}

EndAccepted(r, outcome) ==
  /\ Guarded(r) /\ Current(r) /\ Live(runs[r].state)
  /\ Pending(r) = {}
  /\ outcome = "completed" => /\ runs[r].state = "running"
                              /\ runs[r].sealed
  /\ ClockReached(r)

End(r, outcome) ==
  /\ EndAccepted(r, outcome)
  /\ Move(r, outcome, IF outcome = "completed" THEN "completed" ELSE "failed")
  /\ leases' = [leases EXCEPT ![r] = Released(@, outcome)]
  /\ Answered([client EXCEPT !.lease = FALSE])
  /\ UNCHANGED <<now, requests, checkpoints>>

\* before the lease exists there is no request to acknowledge
EndUnleased(r, runState) ==
  /\ client.open /\ client.run = r /\ ~client.lease
  /\ BoundActive(r) /\ leases[r].state = "none"
  /\ Current(r) /\ runs[r].state = "running"
  /\ ClockReached(r)
  /\ Move(r, runState, IF runState = "cancelled" THEN "cancelled" ELSE "failed")
  /\ Answered([client EXCEPT !.job = @ + 1, !.ver = @ + 1])
  /\ UNCHANGED <<now, leases, requests, checkpoints>>

\* the user, or a time server, sets the clock
SetClock == /\ now' \in Time \ {now}
            /\ UNCHANGED <<tables, client, faults>>

Next ==
  \/ Open \/ Close \/ SetClock
  \/ \E s \in Scopes, r \in Ids : Start(s, r)
  \/ \E r \in Ids :
       \/ BindLease(r) \/ Observe(r) \/ Seal(r)
       \/ \E kind \in Kinds : Request(r, kind)
       \/ AckPause(r) \/ PauseAgain(r) \/ AckResume(r) \/ AckCancel(r)
       \/ \E outcome \in Outcomes : End(r, outcome)
       \/ \E runState \in {"interrupted", "cancelled"} : EndUnleased(r, runState)

Spec == Init /\ [][Next]_vars
(***************************************************************************)
(* Properties.                                                             *)
(***************************************************************************)
\* What every open checks before it settles anything, in the order of
\* validate_runtime_invariants; a database that fails one check is refused for
\* good.  Used(r): the row of run r exists.
Used(r) == runs[r].state # "none"

Adjacent == {<<"running", "running">>, <<"paused", "paused">>,
             <<"completed", "completed">>} \cup
            ({"failed"} \X {"failed", "interrupted"}) \cup
            ({"cancelled"} \X {"cancelled", "failed", "interrupted"})

\* A job's active run is bound to it, and their states fit.
JobAudit(j) ==
  jobs[j].state # "none" =>
    /\ jobs[j].run # 0 /\ runs[jobs[j].run].job = j
    /\ <<jobs[j].state, runs[jobs[j].run].state>> \in Adjacent

\* An attempt's parent is the attempt before it; a completed one is sealed.
Before(r) == {q \in 1..(r - 1) : runs[q].job = runs[r].job}
AttemptAudit(r) ==
  Used(r) =>
    /\ IF Before(r) = {} THEN runs[r].parent = 0
       ELSE runs[r].parent \in Before(r) /\ \A q \in Before(r) : q <= runs[r].parent
    /\ runs[r].state = "completed" => runs[r].sealed

\* A child's parent was interrupted, and its scope admits a fresh attempt.
FreshAudit(r) ==
  Used(r) /\ runs[r].parent # 0 =>
    /\ runs[runs[r].parent].state = "interrupted"
    /\ Reusable(jobs[runs[r].job].scope)

\* An active lease is its job's live run's; a released one says how it ended.
LeaseAudit(r) ==
  LET lease == leases[r]
  IN /\ lease.state = "active" =>
          /\ lease.why = "none" /\ jobs[runs[r].job].run = r
          /\ Live(runs[r].state) /\ jobs[runs[r].job].state = runs[r].state
     /\ lease.state = "released" =>
          \/ lease.why = runs[r].state /\ lease.why \in {"completed", "failed", "cancelled"}
          \/ /\ lease.why \in {"interrupted", "process_restart"}
             /\ runs[r].state \in {"interrupted", "cancelled"}

CheckpointOf(r, i) == {g \in DOMAIN checkpoints[r] : checkpoints[r][g].request = i}

PendingAudit(r, q) ==
  /\ leases[r].state = "active" /\ q.at >= leases[r].beat
  /\ q.job = jobs[runs[r].job].ver /\ q.ver = runs[r].ver
  /\ q.kind = "pause" => runs[r].state = "running"
  /\ q.kind = "resume" => runs[r].state = "paused" /\ q.gen \in DOMAIN checkpoints[r]

\* A request's disposition has the evidence it needs, and no other.
RequestAudit(r, i) ==
  LET q == requests[r][i]
  IN /\ leases[r].state # "none"
     /\ q.kind = "resume" => q.gen # 0
     /\ q.disp = "pending" => PendingAudit(r, q)
     /\ q.disp = "acknowledged" /\ q.kind = "pause" =>
          \E g \in CheckpointOf(r, i) :
            /\ q.gen = g
            /\ checkpoints[r][g].job = q.job + 1 /\ checkpoints[r][g].ver = q.ver + 1
     /\ q.kind # "pause" \/ q.disp # "acknowledged" => CheckpointOf(r, i) = {}
     /\ q.disp = "superseded" =>
          \E k \in (i + 1)..Len(requests[r]) : requests[r][k].kind = "cancel"
     /\ q.disp = "interrupted" =>
          q.kind # "cancel" /\ leases[r].state = "released" /\ leases[r].why = "process_restart"

\* One request is pending at most, and nothing follows or outlives a cancel.
SequenceAudit(r) ==
  /\ Cardinality(Pending(r)) <= 1
  /\ \A i, k \in DOMAIN requests[r] : requests[r][i].kind = "cancel" =>
       k <= i /\ (k \in Pending(r) => requests[r][k].kind = "cancel")

\* A checkpoint is bound to an acknowledged pause and is behind its run.
CheckpointAudit(r, g) ==
  LET c == checkpoints[r][g]
      q == requests[r][c.request]
  IN /\ c.request \in DOMAIN requests[r]
     /\ q.kind = "pause" /\ q.disp = "acknowledged" /\ q.gen = g
     /\ c.job = q.job + 1 /\ c.ver = q.ver + 1
     /\ c.job <= jobs[runs[r].job].ver /\ c.ver <= runs[r].ver
     /\ c.cursor <= leases[r].count

\* The acknowledged requests before the n-th, those that paused, and the last.
AnsweredBefore(r, n) == {i \in 1..(n - 1) : requests[r][i].disp = "acknowledged"}
PausesBefore(r, n) == {i \in AnsweredBefore(r, n) : requests[r][i].kind = "pause"}
LastBefore(r, n) ==
  LET answered == AnsweredBefore(r, n)
  IN IF answered = {} THEN 0 ELSE CHOOSE i \in answered : \A k \in answered : k <= i
LastPaused(r, n) == LastBefore(r, n) \in PausesBefore(r, n)

\* Checkpoints go forward, pauses and resumes alternate, and every request names
\* the generation that stood, or came to stand, when it was asked or answered.
HistoryAudit(r) ==
  LET cs == checkpoints[r]
      qs == requests[r]
  IN /\ \A g \in DOMAIN cs : g > 1 =>
          cs[g - 1].request < cs[g].request /\ cs[g - 1].cursor <= cs[g].cursor
     /\ \A i \in DOMAIN qs :
          LET paused == Cardinality(PausesBefore(r, i))
              answer == IF qs[i].disp = "acknowledged" THEN qs[i].kind ELSE "none"
          IN /\ qs[i].kind = "resume" =>
                  paused > 0 /\ qs[i].gen = paused /\ LastPaused(r, i)
             /\ answer = "pause" => ~LastPaused(r, i) /\ qs[i].gen = paused + 1
             /\ answer = "cancel" => qs[i].gen = paused
     /\ Cardinality(PausesBefore(r, Len(qs) + 1)) = Len(cs)

\* A leased run is paused, or runs again, as its last answered request says.
LastAnswered(r) == LastBefore(r, Len(requests[r]) + 1)
CurrentAudit(r) ==
  LET cs == checkpoints[r]
  IN /\ leases[r].state = "released" => Pending(r) = {}
     /\ leases[r].state = "active" /\ runs[r].state = "paused" =>
          /\ cs # << >> /\ cs[Len(cs)].request = LastAnswered(r)
          /\ cs[Len(cs)].cursor = leases[r].count
     /\ leases[r].state = "active" /\ runs[r].state = "running" /\ LastAnswered(r) # 0 =>
          requests[r][LastAnswered(r)].kind = "resume"

\* An open store's only unfinished run is its own, a lease is active exactly as
\* long as its run is unfinished, and a run that is no longer its job's active
\* one is interrupted and has a child.
\* (the coordinated transitions and reconcile_runtime_control_sessions, which
\* call a persisted one-sided pair impossible)
NoHalfState ==
  \A r \in {q \in Ids : Used(q)} :
    /\ leases[r].state = "released" => ~Live(runs[r].state)
    /\ client.open /\ Live(runs[r].state) => client.run = r
    /\ jobs[runs[r].job].run # r =>
         /\ runs[r].state = "interrupted"
         /\ \E c \in Ids : runs[c].parent = r /\ runs[c].job = runs[r].job

\* Whatever transaction committed last, whatever the clock said and whoever was
\* told of an error, the process may die now and the next open accepts the
\* database: no sequence of legal transactions leads to rows that the checks
\* of every open refuse, nor to a run whose two sides disagree.
\* (validate_runtime_invariants runs before reconcile_stale_scan_sessions)
Reopens ==
  \A r \in Ids :
    /\ JobAudit(r) /\ AttemptAudit(r) /\ FreshAudit(r) /\ LeaseAudit(r)
    /\ \A i \in DOMAIN requests[r] : RequestAudit(r, i)
    /\ SequenceAudit(r)
    /\ \A g \in DOMAIN checkpoints[r] : CheckpointAudit(r, g)
    /\ HistoryAudit(r) /\ CurrentAudit(r)
  /\ NoHalfState

\* A recoverable scope has at most one job that runs or could be recovered, so
\* the selection of a recovery target is never ambiguous, and its attempts
\* form a chain: no run is the parent of two.
\* (select_fresh_attempt_recovery after the reconcile pass of every open)
OneLineage ==
  /\ \A s \in Recoverable :
       Cardinality(Candidates(s) \cup
         {j \in Ids : Live(jobs[j].state) /\ jobs[j].scope = s}) <= 1
  /\ \A r, q \in Ids : r # q /\ runs[r].parent # 0 => runs[r].parent # runs[q].parent

\* Once a cancel request is durable the run can end in no other way, whoever
\* acknowledges it, the client or the next open, and the job is not recovered.
\* (CANCEL_DOMINATED and the restart pass)
CancelDominates ==
  \A r \in Ids :
    (\E i \in DOMAIN requests[r] : requests[r][i].kind = "cancel") =>
      /\ runs[r].state \in {"running", "paused", "cancelled"}
      /\ runs[r].state = "cancelled" <=> PendingOf(r, "cancel") = {}
      /\ \A i \in DOMAIN requests[r] :
           requests[r][i].kind # "cancel" => requests[r][i].disp # "pending"

\* A paused run's last checkpoint says exactly how far its evidence goes and at
\* which version it paused; checkpoints and acknowledged pauses are one to one,
\* in order, and a later one never rewinds.
\* (acknowledge_pause and the checkpoint insert guard)
PausedAsRecorded ==
  \A r \in Ids :
    LET cs == checkpoints[r]
        pauses == {i \in DOMAIN requests[r] :
                     requests[r][i].kind = "pause" /\ requests[r][i].disp = "acknowledged"}
    IN /\ {cs[g].request : g \in DOMAIN cs} = pauses
       /\ \A g \in DOMAIN cs : requests[r][cs[g].request].gen = g
       /\ \A g, h \in DOMAIN cs :
            g < h => /\ cs[g].request < cs[h].request /\ cs[g].cursor <= cs[h].cursor
       /\ \A g \in DOMAIN cs : cs[g].cursor <= leases[r].count
       /\ runs[r].state = "paused" =>
            /\ Len(cs) > 0 /\ cs[Len(cs)].cursor = leases[r].count
            /\ cs[Len(cs)].ver = runs[r].ver
            /\ cs[Len(cs)].job = jobs[runs[r].job].ver

\* A settled run, its lease, requests and checkpoints never change again, and
\* its job leaves a settled state only by a fresh child of an interrupted run.
\* (the transition tables and the one-way lifecycle triggers)
SettledStays(r) ==
  /\ runs[r].state # "none" /\ ~Live(runs[r].state) =>
       /\ runs'[r] = runs[r] /\ leases'[r] = leases[r]
       /\ requests'[r] = requests[r] /\ checkpoints'[r] = checkpoints[r]
  /\ jobs[r].state # "none" /\ ~Live(jobs[r].state) =>
       \/ jobs'[r] = jobs[r]
       \/ /\ jobs'[r].state = "running" /\ jobs'[r].ver = jobs[r].ver + 1
          /\ runs'[jobs'[r].run].parent = jobs[r].run
          /\ runs[jobs[r].run].state = "interrupted"
          /\ runs[jobs'[r].run].state = "none"

HistoryStays == [][\A r \in Ids : SettledStays(r)]_vars

\* What the store's documentation says of the clamp: a clock set back never
\* keeps a process from ending its own run in order.  The code refuses it, for
\* the run's and the job's own times are not clamped.
RollbackNeverDeadEnds ==
  \A r \in Ids :
    Guarded(r) /\ Current(r) /\ Live(runs[r].state) /\ Pending(r) = {} =>
      EndAccepted(r, "interrupted")
=============================================================================
