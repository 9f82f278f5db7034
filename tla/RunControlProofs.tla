-------------------------- MODULE RunControlProofs --------------------------
(***************************************************************************)
(* The safety properties of RunControl, for any scopes and any bounds: no  *)
(* sequence of legal transactions, crashes and clock changes leads to rows *)
(* that the checks of the next open refuse.                                *)
(*                                                                         *)
(* The audits are not inductive. What keeps them true is what the rows say *)
(* together: the runs that exist are the first ones, a job points at its   *)
(* last run and agrees with it (RunFits, JobFits, ParentFits), a run has   *)
(* an active lease only while it is unfinished (LeaseFits), a pending      *)
(* request is the last one and names the versions of its rows              *)
(* (RequestFits), and the last answered request is a pause while the run   *)
(* is paused and a resume while it runs (NowFits). HistoryAudit counts; it *)
(* follows from an order (HistoryFits, CheckpointFits) that does not.      *)
(*                                                                         *)
(* The proof has three kinds of step. What the process that owns run r     *)
(* does to its rows (Works) keeps the rest, so each such step is only      *)
(* looked at for run r (Here; WorkStep). A start adds a run (StartStep).   *)
(* An open settles all runs at once (OpenStep).                            *)
(***************************************************************************)
EXTENDS RunControl, FiniteSetTheorems, SequenceTheorems, TLAPS

\* The state of a job whose active run has this state.
JobFor(state) == IF state \in {"failed", "interrupted"} THEN "failed" ELSE state

\* A run is bound to a job that is older, and whose active run is this or a later
\* one; only an interrupted run is superseded. Runs are used in order.
RunFits(r) ==
  /\ Used(r) => /\ runs[r].job \in 1 .. r
                /\ jobs[runs[r].job].state # "none"
                /\ r <= jobs[runs[r].job].run
                /\ jobs[runs[r].job].run # r => runs[r].state = "interrupted"
                /\ \A q \in 1 .. (r - 1) : Used(q)
  /\ ~Used(r) => /\ runs[r].job = 0 /\ runs[r].parent = 0 /\ jobs[r].state = "none"
                 /\ leases[r].state = "none"

\* A job's active run is bound to it, and their states are one pair.
JobFits(j) ==
  /\ jobs[j].state # "none" =>
       /\ jobs[j].run \in Ids /\ runs[jobs[j].run].job = j
       /\ jobs[j].state = JobFor(runs[jobs[j].run].state)
  /\ jobs[j].state = "none" => jobs[j].run = 0

\* An attempt's parent is the attempt before it, interrupted; a superseded run is
\* the parent of another.
ParentFits(r) ==
  Used(r) =>
    /\ runs[r].parent = 0 => \A q \in 1 .. (r - 1) : runs[q].job # runs[r].job
    /\ runs[r].parent # 0 =>
         /\ runs[r].parent \in 1 .. (r - 1)
         /\ runs[runs[r].parent].job = runs[r].job
         /\ runs[runs[r].parent].state = "interrupted"
         /\ jobs[runs[r].job].scope \in Recoverable
         /\ \A q \in 1 .. (r - 1) : runs[q].job = runs[r].job => q <= runs[r].parent
    /\ runs[r].state = "completed" => runs[r].sealed
    /\ jobs[runs[r].job].run # r =>
         \E c \in Ids : runs[c].parent = r /\ runs[c].job = runs[r].job

\* A lease is active while its run is unfinished and says how it ended after.
LeaseFits(r) ==
  /\ leases[r].state = "active" =>
       leases[r].why = "none" /\ Used(r) /\ BoundActive(r) /\ Live(runs[r].state)
  /\ leases[r].state = "released" =>
       /\ Used(r) /\ ~Live(runs[r].state)
       /\ \/ leases[r].why = runs[r].state /\ leases[r].why \in {"completed", "failed", "cancelled"}
          \/ /\ leases[r].why \in {"interrupted", "process_restart"}
             /\ runs[r].state \in {"interrupted", "cancelled"}
  /\ leases[r].state = "none" =>
       /\ leases[r].why = "none" /\ requests[r] = << >> /\ checkpoints[r] = << >>
       /\ runs[r].state # "paused"

\* The open store knows the one unfinished run.
ClientFits ==
  /\ client.run # 0 => Used(client.run) /\ BoundActive(client.run)
  /\ \A r \in Ids : client.open /\ Live(runs[r].state) => client.run = r

\* Only the last request can be pending, or a cancel; a request's disposition is
\* backed by the rows it speaks of.
RequestFits(r) ==
  \A i \in DOMAIN requests[r] :
  LET q == requests[r][i] IN
  /\ q.disp = "pending" =>
       /\ i = Len(requests[r])
       /\ leases[r].state = "active" /\ q.at >= leases[r].beat
       /\ q.job = jobs[runs[r].job].ver /\ q.ver = runs[r].ver
       /\ q.kind = "pause" => runs[r].state = "running"
       /\ q.kind = "resume" => runs[r].state = "paused"
  /\ q.kind = "cancel" =>
       /\ i = Len(requests[r]) /\ q.disp \in {"pending", "acknowledged"}
       /\ q.disp = "acknowledged" =>
            runs[r].state = "cancelled" /\ q.gen = Len(checkpoints[r])
  /\ q.disp = "superseded" =>
       i < Len(requests[r]) /\ requests[r][Len(requests[r])].kind = "cancel"
  /\ q.disp = "interrupted" =>
       /\ q.kind # "cancel"
       /\ leases[r].state = "released" /\ leases[r].why = "process_restart"

\* Checkpoints and acknowledged pauses are one to one and in the same order.
CheckpointFits(r) ==
  /\ \A g \in DOMAIN checkpoints[r] : CheckpointAudit(r, g)
  /\ \A g, h \in DOMAIN checkpoints[r] : g < h =>
       /\ checkpoints[r][g].request < checkpoints[r][h].request
       /\ checkpoints[r][g].cursor <= checkpoints[r][h].cursor
  /\ \A i \in DOMAIN requests[r] :
       requests[r][i].kind = "pause" /\ requests[r][i].disp = "acknowledged" =>
         /\ requests[r][i].gen \in DOMAIN checkpoints[r]
         /\ checkpoints[r][requests[r][i].gen].request = i

\* The last checkpoint of a paused run is exact.
PausedFits(r) ==
  runs[r].state = "paused" =>
    LET c == checkpoints[r][Len(checkpoints[r])]
    IN /\ Len(checkpoints[r]) > 0
       /\ c.cursor = leases[r].count
       /\ c.ver = runs[r].ver /\ c.job = jobs[runs[r].job].ver

\* No request between m and n was acknowledged.
NoneAnswered(r, m, n) ==
  \A k \in DOMAIN requests[r] : m < k /\ k < n => requests[r][k].disp # "acknowledged"

\* The last request acknowledged before the n-th, if there is one, is a resume.
Resumed(r, n) ==
  \E m \in 0 .. (n - 1) :
    /\ NoneAnswered(r, m, n)
    /\ m # 0 => requests[r][m].disp = "acknowledged" /\ requests[r][m].kind = "resume"

\* A resume follows the pause whose generation it names, and nothing answered lies
\* between; an acknowledged pause follows a resume or nothing.
HistoryFits(r) ==
  \A i \in DOMAIN requests[r] :
    /\ requests[r][i].kind = "resume" =>
         LET g == requests[r][i].gen IN
         /\ g \in DOMAIN checkpoints[r] /\ checkpoints[r][g].request < i
         /\ \A h \in DOMAIN checkpoints[r] : g < h => i < checkpoints[r][h].request
         /\ NoneAnswered(r, checkpoints[r][g].request, i)
    /\ requests[r][i].kind = "pause" /\ requests[r][i].disp = "acknowledged" =>
         Resumed(r, i)

\* The state of the run is what its last answered request made it.
NowFits(r) ==
  /\ runs[r].state = "running" => Resumed(r, Len(requests[r]) + 1)
  /\ runs[r].state = "paused" =>
       NoneAnswered(r, checkpoints[r][Len(checkpoints[r])].request, Len(requests[r]) + 1)

\* A job that runs or could be recovered, of which a recoverable scope has one.
Busy(j) ==
  \/ Live(jobs[j].state)
  \/ jobs[j].state = "failed" /\ runs[jobs[j].run].state = "interrupted"

ScopeFits ==
  \A j, k \in Ids :
    Busy(j) /\ Busy(k) /\ jobs[j].scope = jobs[k].scope /\ jobs[j].scope \in Recoverable
      => j = k

\* The inductive invariant.
Inv ==
  /\ TypeOK
  /\ \A r \in Ids : RunFits(r)
  /\ \A j \in Ids : JobFits(j)
  /\ \A r \in Ids : ParentFits(r)
  /\ \A r \in Ids : LeaseFits(r)
  /\ \A r \in Ids : RequestFits(r)
  /\ \A r \in Ids : CheckpointFits(r)
  /\ \A r \in Ids : PausedFits(r)
  /\ \A r \in Ids : HistoryFits(r)
  /\ \A r \in Ids : NowFits(r)
  /\ ClientFits
  /\ ScopeFits

\* The numbers of runs are positive, and zero, which no run has, stands for
\* none.
LEMMA Numbers ==
  /\ MaxRuns \in Nat /\ MaxTime \in Nat /\ MaxEvidence \in Nat /\ MaxFaults \in Nat
  /\ Ids \subseteq Nat /\ 0 \notin Ids
  /\ Time \subseteq Nat /\ 0 \in Time
  /\ \A n : n \in Ids <=> n \in Nat /\ 1 <= n /\ n <= MaxRuns
  /\ \A n \in 0..MaxRuns : n # 0 => n \in Ids
  /\ \A n \in Ids : n \in 0..MaxRuns
  BY Bounds DEF Ids, Time

\* The columns of a row of scan_runs have their types.
LEMMA RunRows ==
  ASSUME TypeOK, NEW r \in Ids
  PROVE  /\ runs[r] \in RunRow
         /\ runs[r].state \in States /\ runs[r].ver \in Nat /\ runs[r].at \in Time
         /\ runs[r].job \in 0..MaxRuns /\ runs[r].parent \in 0..MaxRuns
         /\ runs[r].sealed \in BOOLEAN
  <1>1. runs[r] \in RunRow
    BY DEF TypeOK
  <1> QED
    BY <1>1 DEF RunRow

\* The columns of a row of scan_jobs have their types.
LEMMA JobRows ==
  ASSUME TypeOK, NEW j \in Ids
  PROVE  /\ jobs[j] \in JobRow
         /\ jobs[j].state \in JobStates /\ jobs[j].ver \in Nat /\ jobs[j].at \in Time
         /\ jobs[j].run \in 0..MaxRuns /\ jobs[j].scope \in Scopes
  <1>1. jobs[j] \in JobRow
    BY DEF TypeOK
  <1> QED
    BY <1>1 DEF JobRow

\* The columns of a row of scan_runtime_leases have their types.
LEMMA LeaseRows ==
  ASSUME TypeOK, NEW r \in Ids
  PROVE  /\ leases[r] \in LeaseRow
         /\ leases[r].state \in {"none", "active", "released"}
         /\ leases[r].why \in Reasons /\ leases[r].beat \in Time
         /\ leases[r].count \in 0..MaxEvidence
  <1>1. leases[r] \in LeaseRow
    BY DEF TypeOK
  <1> QED
    BY <1>1 DEF LeaseRow

\* The control requests of a run are a sequence of rows whose columns have
\* their types.
LEMMA RequestRows ==
  ASSUME TypeOK, NEW r \in Ids
  PROVE  /\ requests[r] \in Seq(RequestRow) /\ Len(requests[r]) \in Nat
         /\ DOMAIN requests[r] = 1..Len(requests[r])
         /\ \A i \in DOMAIN requests[r] :
              /\ requests[r][i] \in RequestRow
              /\ requests[r][i].kind \in Kinds /\ requests[r][i].disp \in Disposed
              /\ requests[r][i].job \in Nat /\ requests[r][i].ver \in Nat
              /\ requests[r][i].gen \in Nat /\ requests[r][i].at \in Time
  <1>1. requests[r] \in Seq(RequestRow)
    BY DEF TypeOK
  <1>2. /\ Len(requests[r]) \in Nat
        /\ DOMAIN requests[r] = 1..Len(requests[r])
        /\ \A i \in DOMAIN requests[r] : requests[r][i] \in RequestRow
    BY <1>1, LenProperties
  <1> QED
    BY <1>1, <1>2 DEF RequestRow

\* The pause checkpoints of a run are a sequence of rows whose columns have
\* their types.
LEMMA CheckpointRows ==
  ASSUME TypeOK, NEW r \in Ids
  PROVE  /\ checkpoints[r] \in Seq(CheckpointRow) /\ Len(checkpoints[r]) \in Nat
         /\ DOMAIN checkpoints[r] = 1..Len(checkpoints[r])
         /\ \A g \in DOMAIN checkpoints[r] :
              /\ checkpoints[r][g] \in CheckpointRow
              /\ checkpoints[r][g].request \in Nat
              /\ checkpoints[r][g].cursor \in 0..MaxEvidence
              /\ checkpoints[r][g].job \in Nat /\ checkpoints[r][g].ver \in Nat
  <1>1. checkpoints[r] \in Seq(CheckpointRow)
    BY DEF TypeOK
  <1>2. /\ Len(checkpoints[r]) \in Nat
        /\ DOMAIN checkpoints[r] = 1..Len(checkpoints[r])
        /\ \A g \in DOMAIN checkpoints[r] : checkpoints[r][g] \in CheckpointRow
    BY <1>1, LenProperties
  <1> QED
    BY <1>1, <1>2 DEF CheckpointRow

\* What the open Store's client knows has its types.
LEMMA ClientRows ==
  ASSUME TypeOK
  PROVE  /\ client \in Known /\ client.open \in BOOLEAN /\ client.run \in 0..MaxRuns
         /\ client.lease \in BOOLEAN /\ client.job \in Nat /\ client.ver \in Nat
         /\ client.gen \in Nat /\ client.count \in 0..MaxEvidence
  <1>1. client \in Known
    BY DEF TypeOK
  <1> QED
    BY <1>1 DEF Known

\* The successor of a version is a version.
LEMMA Plus == ASSUME NEW n \in Nat PROVE n + 1 \in Nat
  OBVIOUS

\* A client that learns other versions, or another generation, still knows
\* something of the right type.
LEMMA Knowing ==
  ASSUME client \in Known
  PROVE  \A j, v, g \in Nat : /\ [client EXCEPT !.job = j, !.ver = v] \in Known
                              /\ [client EXCEPT !.job = j, !.ver = v, !.gen = g] \in Known
  BY DEF Known


\* The coordinated transition of a run and its job (transition_scan_run with
\* transition_scan_job) sets both states and counts both versions, and changes
\* no other column a rule looks at and no other row.
LEMMA Moving ==
  ASSUME TypeOK, NEW r \in Ids, runs[r].job \in Ids, NEW a \in States, NEW b \in JobStates,
         Move(r, a, b)
  PROVE  /\ runs' \in [Ids -> RunRow] /\ jobs' \in [Ids -> JobRow]
         /\ runs'[r].state = a /\ runs'[r].ver = runs[r].ver + 1
         /\ runs'[r].job = runs[r].job /\ runs'[r].parent = runs[r].parent
         /\ runs'[r].sealed = runs[r].sealed
         /\ \A q \in Ids : q # r => runs'[q] = runs[q]
         /\ jobs'[runs[r].job].state = b
         /\ jobs'[runs[r].job].ver = jobs[runs[r].job].ver + 1
         /\ jobs'[runs[r].job].run = jobs[runs[r].job].run
         /\ jobs'[runs[r].job].scope = jobs[runs[r].job].scope
         /\ \A j \in Ids : j # runs[r].job => jobs'[j] = jobs[j]
  <1> DEFINE k == runs[r].job
             x == [runs[r] EXCEPT !.state = a, !.ver = @ + 1, !.at = now]
             y == [jobs[k] EXCEPT !.state = b, !.ver = @ + 1, !.at = now]
  <1>1. now \in Time /\ runs \in [Ids -> RunRow] /\ jobs \in [Ids -> JobRow] /\ k \in Ids
    BY DEF TypeOK
  <1>2. /\ runs' = [runs EXCEPT ![r].state = a, ![r].ver = @ + 1, ![r].at = now]
        /\ jobs' = [jobs EXCEPT ![k].state = b, ![k].ver = @ + 1, ![k].at = now]
    BY DEF Move
  <1>3. runs[r] \in RunRow /\ jobs[k] \in JobRow
    BY <1>1
  <1> HIDE DEF k
  <1>4. runs' = [runs EXCEPT ![r] = x]
    BY <1>1, <1>2, <1>3 DEF RunRow
  <1>5. jobs' = [jobs EXCEPT ![k] = y]
    BY <1>1, <1>2, <1>3 DEF JobRow
  <1> DEFINE v == runs[r].ver + 1
             w == jobs[k].ver + 1
  <1>10. v \in Nat /\ w \in Nat
    BY <1>3 DEF RunRow, JobRow
  <1>11. /\ x = [runs[r] EXCEPT !.state = a, !.ver = v, !.at = now]
         /\ y = [jobs[k] EXCEPT !.state = b, !.ver = w, !.at = now]
    OBVIOUS
  <1> HIDE DEF v, w, x, y
  <1>6. /\ x \in RunRow /\ x.state = a /\ x.ver = v /\ x.job = runs[r].job
        /\ x.parent = runs[r].parent /\ x.sealed = runs[r].sealed
    BY <1>1, <1>3, <1>10, <1>11 DEF RunRow
  <1>7. /\ y \in JobRow /\ y.state = b /\ y.ver = w /\ y.run = jobs[k].run
        /\ y.scope = jobs[k].scope
    BY <1>1, <1>3, <1>10, <1>11 DEF JobRow
  <1>8. /\ runs' \in [Ids -> RunRow] /\ runs'[r] = x
        /\ \A q \in Ids : q # r => runs'[q] = runs[q]
    BY <1>1, <1>4, <1>6
  <1>9. /\ jobs' \in [Ids -> JobRow] /\ jobs'[k] = y
        /\ \A j \in Ids : j # k => jobs'[j] = jobs[j]
    BY <1>1, <1>5, <1>7
  <1> QED
    BY <1>6, <1>7, <1>8, <1>9 DEF k, v, w

\* Writing the time of a run (progress and lease acquisition) changes nothing
\* else of it and no other run.
LEMMA Timing ==
  ASSUME TypeOK, NEW r \in Ids, runs' = [runs EXCEPT ![r].at = now]
  PROVE  /\ runs' \in [Ids -> RunRow]
         /\ runs'[r].state = runs[r].state /\ runs'[r].ver = runs[r].ver
         /\ runs'[r].job = runs[r].job /\ runs'[r].parent = runs[r].parent
         /\ runs'[r].sealed = runs[r].sealed
         /\ \A q \in Ids : q # r => runs'[q] = runs[q]
  <1>1. now \in Time /\ runs \in [Ids -> RunRow]
    BY DEF TypeOK
  <1>2. runs[r] \in RunRow
    BY RunRows
  <1>3. [runs[r] EXCEPT !.at = now] \in RunRow
    BY <1>1, <1>2 DEF RunRow
  <1>4. runs' = [runs EXCEPT ![r] = [@ EXCEPT !.at = now]]
    BY <1>1
  <1>5. /\ runs' \in [Ids -> RunRow] /\ runs'[r] = [runs[r] EXCEPT !.at = now]
        /\ \A q \in Ids : q # r => runs'[q] = runs[q]
    BY <1>1, <1>3, <1>4
  <1> QED
    BY <1>2, <1>5 DEF RunRow

\* Sealing the stages of a run changes nothing else of it and no other run.
LEMMA Sealing ==
  ASSUME TypeOK, NEW r \in Ids, runs' = [runs EXCEPT ![r].sealed = TRUE]
  PROVE  /\ runs' \in [Ids -> RunRow]
         /\ runs'[r].state = runs[r].state /\ runs'[r].ver = runs[r].ver
         /\ runs'[r].job = runs[r].job /\ runs'[r].parent = runs[r].parent
         /\ \A q \in Ids : q # r => runs'[q] = runs[q]
  <1>1. runs \in [Ids -> RunRow]
    BY DEF TypeOK
  <1>2. runs[r] \in RunRow
    BY RunRows
  <1>3. [runs[r] EXCEPT !.sealed = TRUE] \in RunRow
    BY <1>2 DEF RunRow
  <1>4. runs' = [runs EXCEPT ![r] = [@ EXCEPT !.sealed = TRUE]]
    BY <1>1
  <1>5. /\ runs' \in [Ids -> RunRow] /\ runs'[r] = [runs[r] EXCEPT !.sealed = TRUE]
        /\ \A q \in Ids : q # r => runs'[q] = runs[q]
    BY <1>1, <1>3, <1>4
  <1> QED
    BY <1>2, <1>5 DEF RunRow

\* Acquiring a lease makes it active and leaves its reason, its count and every
\* other lease alone.
LEMMA Leasing ==
  ASSUME TypeOK, NEW r \in Ids,
         leases' = [leases EXCEPT ![r].state = "active", ![r].beat = now]
  PROVE  /\ leases' \in [Ids -> LeaseRow]
         /\ leases'[r].state = "active" /\ leases'[r].why = leases[r].why
         /\ leases'[r].count = leases[r].count
         /\ \A q \in Ids : q # r => leases'[q] = leases[q]
  <1>1. now \in Time /\ leases \in [Ids -> LeaseRow]
    BY DEF TypeOK
  <1>2. leases[r] \in LeaseRow
    BY LeaseRows
  <1>3. [leases[r] EXCEPT !.state = "active", !.beat = now] \in LeaseRow
    BY <1>1, <1>2 DEF LeaseRow
  <1>4. leases' = [leases EXCEPT ![r] = [@ EXCEPT !.state = "active", !.beat = now]]
    BY <1>1
  <1>5. /\ leases' \in [Ids -> LeaseRow]
        /\ leases'[r] = [leases[r] EXCEPT !.state = "active", !.beat = now]
        /\ \A q \in Ids : q # r => leases'[q] = leases[q]
    BY <1>1, <1>3, <1>4
  <1> QED
    BY <1>2, <1>5 DEF LeaseRow

\* A batch of evidence counts one more on the active lease and leaves
\* everything else of it, and every other lease, alone.
LEMMA Counting ==
  ASSUME TypeOK, NEW r \in Ids, leases[r].state = "active", leases[r].count < MaxEvidence,
         leases' = [leases EXCEPT ![r] = Counted(@)]
  PROVE  /\ leases' \in [Ids -> LeaseRow]
         /\ leases'[r].state = "active" /\ leases'[r].why = leases[r].why
         /\ leases'[r].beat = leases[r].beat
         /\ leases'[r].count = leases[r].count + 1
         /\ leases'[r].count \in 0..MaxEvidence
         /\ \A q \in Ids : q # r => leases'[q] = leases[q]
  <1>1. leases \in [Ids -> LeaseRow]
    BY DEF TypeOK
  <1>2. leases[r] \in LeaseRow /\ leases[r].count + 1 \in 0..MaxEvidence
    BY LeaseRows, Numbers
  <1>3. [leases[r] EXCEPT !.count = @ + 1] \in LeaseRow
    BY <1>2 DEF LeaseRow
  <1>4. leases' = [leases EXCEPT ![r] = [leases[r] EXCEPT !.count = @ + 1]]
    <2>1. Counted(leases[r]) = [leases[r] EXCEPT !.count = @ + 1]
      BY DEF Counted
    <2>2. leases' = [leases EXCEPT ![r] = Counted(leases[r])]
      BY <1>1
    <2> QED
      BY <2>1, <2>2
  <1>5. /\ leases' \in [Ids -> LeaseRow] /\ leases'[r] = [leases[r] EXCEPT !.count = @ + 1]
        /\ \A q \in Ids : q # r => leases'[q] = leases[q]
    BY <1>1, <1>3, <1>4
  <1> QED
    BY <1>2, <1>5 DEF LeaseRow

\* A released lease keeps its count and says why it was released.
LEMMA Letting ==
  ASSUME NEW lease \in LeaseRow, NEW why \in Reasons
  PROVE  /\ Released(lease, why) \in LeaseRow
         /\ Released(lease, why).state = "released" /\ Released(lease, why).why = why
         /\ Released(lease, why).count = lease.count
  BY Numbers DEF LeaseRow, Released

\* Releasing a lease (begin_runtime_lease_release,
\* finish_runtime_lease_release) changes its state and reason, not its count,
\* and no other lease.
LEMMA Releasing ==
  ASSUME TypeOK, NEW r \in Ids, NEW why \in Reasons,
         leases' = [leases EXCEPT ![r] = Released(@, why)]
  PROVE  /\ leases' \in [Ids -> LeaseRow]
         /\ leases'[r].state = "released" /\ leases'[r].why = why
         /\ leases'[r].count = leases[r].count
         /\ \A q \in Ids : q # r => leases'[q] = leases[q]
  <1>1. leases \in [Ids -> LeaseRow]
    BY DEF TypeOK
  <1> QED
    BY <1>1, Letting, LeaseRows

\* Disposing of a request changes its disposition, and its generation if one is
\* given, and nothing of what it asked for.
LEMMA Disposing ==
  ASSUME NEW q \in RequestRow, NEW d \in Disposed
  PROVE  /\ Dispose(q, d) \in RequestRow /\ Dispose(q, d).disp = d
         /\ Dispose(q, d).kind = q.kind /\ Dispose(q, d).job = q.job
         /\ Dispose(q, d).ver = q.ver /\ Dispose(q, d).gen = q.gen
         /\ \A g \in Nat :
              /\ [Dispose(q, d) EXCEPT !.gen = g] \in RequestRow
              /\ [Dispose(q, d) EXCEPT !.gen = g].disp = d
              /\ [Dispose(q, d) EXCEPT !.gen = g].gen = g
              /\ [Dispose(q, d) EXCEPT !.gen = g].kind = q.kind
              /\ [Dispose(q, d) EXCEPT !.gen = g].job = q.job
              /\ [Dispose(q, d) EXCEPT !.gen = g].ver = q.ver
  BY Numbers DEF RequestRow, Dispose

\* Acknowledging a request changes that one request of that one run: its
\* disposition and its generation.
LEMMA Acknowledging ==
  ASSUME TypeOK, NEW r \in Ids, NEW i \in DOMAIN requests[r], NEW gen \in Nat,
         Acknowledge(r, i, gen)
  PROVE  /\ requests' \in [Ids -> Seq(RequestRow)]
         /\ \A q \in Ids : q # r => requests'[q] = requests[q]
         /\ Len(requests'[r]) = Len(requests[r])
         /\ DOMAIN requests'[r] = DOMAIN requests[r]
         /\ \A k \in DOMAIN requests[r] : k # i => requests'[r][k] = requests[r][k]
         /\ requests'[r][i].disp = "acknowledged" /\ requests'[r][i].gen = gen
         /\ requests'[r][i].kind = requests[r][i].kind
         /\ requests'[r][i].job = requests[r][i].job
         /\ requests'[r][i].ver = requests[r][i].ver
  <1> DEFINE e == [Dispose(requests[r][i], "acknowledged") EXCEPT !.gen = gen]
             s == [requests[r] EXCEPT ![i] = e]
  <1>1. requests \in [Ids -> Seq(RequestRow)]
    BY DEF TypeOK
  <1>2. /\ requests[r] \in Seq(RequestRow) /\ i \in 1..Len(requests[r])
        /\ DOMAIN requests[r] = 1..Len(requests[r]) /\ requests[r][i] \in RequestRow
    BY RequestRows
  <1>3. /\ e \in RequestRow /\ e.disp = "acknowledged" /\ e.gen = gen
        /\ e.kind = requests[r][i].kind /\ e.job = requests[r][i].job
        /\ e.ver = requests[r][i].ver
    BY <1>2, Disposing DEF Disposed
  <1>4. requests' = [requests EXCEPT ![r] = s]
    BY <1>1 DEF Acknowledge
  <1> HIDE DEF e
  <1>5. /\ s \in Seq(RequestRow) /\ Len(s) = Len(requests[r])
        /\ \A k \in 1..Len(requests[r]) : s[k] = IF k = i THEN e ELSE requests[r][k]
    BY <1>2, <1>3, ExceptSeq
  <1> HIDE DEF s
  <1>6. /\ requests' \in [Ids -> Seq(RequestRow)] /\ requests'[r] = s
        /\ \A q \in Ids : q # r => requests'[q] = requests[q]
    BY <1>1, <1>4, <1>5
  <1>7. DOMAIN s = 1..Len(s)
    BY <1>5, LenProperties
  <1> QED
    BY <1>2, <1>3, <1>5, <1>6, <1>7

\* A new control request comes last, is pending and names the client's
\* versions; of the earlier ones only the pending change, to superseded.
LEMMA Asking ==
  ASSUME TypeOK, NEW r \in Ids, NEW kind \in Kinds, Request(r, kind)
  PROVE  /\ requests' \in [Ids -> Seq(RequestRow)]
         /\ \A q \in Ids : q # r => requests'[q] = requests[q]
         /\ Len(requests'[r]) = Len(requests[r]) + 1
         /\ DOMAIN requests'[r] = 1..(Len(requests[r]) + 1)
         /\ \A k \in DOMAIN requests[r] :
              /\ requests[r][k].disp # "pending" => requests'[r][k] = requests[r][k]
              /\ requests[r][k].disp = "pending" => requests'[r][k].disp = "superseded"
              /\ requests'[r][k].kind = requests[r][k].kind
              /\ requests'[r][k].gen = requests[r][k].gen
              /\ requests'[r][k].job = requests[r][k].job
              /\ requests'[r][k].ver = requests[r][k].ver
         /\ LET q == requests'[r][Len(requests[r]) + 1] IN
              /\ q.kind = kind /\ q.disp = "pending" /\ q.at = now
              /\ q.job = client.job /\ q.ver = client.ver
              /\ q.gen = IF kind = "resume" THEN client.gen ELSE 0
  <1> DEFINE Old(i) == IF i \in Pending(r) THEN Dispose(requests[r][i], "superseded")
                       ELSE requests[r][i]
             earlier == [i \in DOMAIN requests[r] |-> Old(i)]
             q == [kind |-> kind, disp |-> "pending", at |-> now,
                   job |-> client.job, ver |-> client.ver,
                   gen |-> IF kind = "resume" THEN client.gen ELSE 0]
             n == Len(requests[r])
  <1>1. requests \in [Ids -> Seq(RequestRow)] /\ now \in Time
    BY DEF TypeOK
  <1>2. /\ n \in Nat /\ DOMAIN requests[r] = 1..n
        /\ \A i \in 1..n : requests[r][i] \in RequestRow
    BY RequestRows
  <1>3. q \in RequestRow
    BY <1>1, ClientRows DEF RequestRow, Disposed
  <1>4. ASSUME NEW i \in 1..n
        PROVE  /\ Old(i) \in RequestRow
               /\ requests[r][i].disp # "pending" => Old(i) = requests[r][i]
               /\ requests[r][i].disp = "pending" => Old(i).disp = "superseded"
               /\ Old(i).kind = requests[r][i].kind /\ Old(i).gen = requests[r][i].gen
               /\ Old(i).job = requests[r][i].job /\ Old(i).ver = requests[r][i].ver
    BY <1>2, Disposing DEF Pending, Disposed
  <1>5. requests' = [requests EXCEPT ![r] = Append(earlier, q)]
    BY DEF Request
  <1>9. q.kind = kind /\ q.disp = "pending" /\ q.at = now /\ q.job = client.job
        /\ q.ver = client.ver /\ q.gen = IF kind = "resume" THEN client.gen ELSE 0
    OBVIOUS
  <1> HIDE DEF Old, q, n
  <1>6. /\ earlier \in [1..n -> RequestRow] /\ DOMAIN earlier = 1..n
        /\ \A i \in 1..n : earlier[i] = Old(i)
    BY <1>2, <1>4
  <1> HIDE DEF earlier
  <1>7. earlier \in Seq(RequestRow) /\ Len(earlier) = n
    <2>1. earlier \in Seq(RequestRow)
      BY <1>2, <1>6, SeqDef
    <2> QED
      BY <2>1, <1>2, <1>6, LenProperties
  <1>8. /\ Append(earlier, q) \in Seq(RequestRow) /\ Len(Append(earlier, q)) = n + 1
        /\ \A i \in 1..n : Append(earlier, q)[i] = Old(i)
        /\ Append(earlier, q)[n + 1] = q
    BY <1>2, <1>3, <1>6, <1>7, AppendProperties
  <1> DEFINE s == Append(earlier, q)
  <1>10. DOMAIN s = 1..(n + 1)
    BY <1>8, LenProperties
  <1> HIDE DEF s
  <1>11. /\ requests' \in [Ids -> Seq(RequestRow)] /\ requests'[r] = s
         /\ \A p \in Ids : p # r => requests'[p] = requests[p]
    BY <1>1, <1>5, <1>8 DEF s
  <1>12. /\ Len(s) = n + 1 /\ s[n + 1] = q /\ \A i \in 1..n : s[i] = Old(i)
    BY <1>8 DEF s
  <1>13. DOMAIN requests[r] = 1..n /\ n = Len(requests[r])
    BY <1>2 DEF n
  <1> QED
    BY <1>4, <1>9, <1>10, <1>11, <1>12, <1>13

\* A new pause checkpoint comes last and leaves the earlier ones alone.
LEMMA Marking ==
  ASSUME TypeOK, NEW r \in Ids, NEW c \in CheckpointRow,
         checkpoints' = [checkpoints EXCEPT ![r] = Append(@, c)]
  PROVE  /\ checkpoints' \in [Ids -> Seq(CheckpointRow)]
         /\ \A q \in Ids : q # r => checkpoints'[q] = checkpoints[q]
         /\ Len(checkpoints'[r]) = Len(checkpoints[r]) + 1
         /\ DOMAIN checkpoints'[r] = 1..(Len(checkpoints[r]) + 1)
         /\ \A g \in DOMAIN checkpoints[r] : checkpoints'[r][g] = checkpoints[r][g]
         /\ checkpoints'[r][Len(checkpoints[r]) + 1] = c
  <1> DEFINE s == Append(checkpoints[r], c)
             n == Len(checkpoints[r])
  <1>1. checkpoints \in [Ids -> Seq(CheckpointRow)]
    BY DEF TypeOK
  <1>2. checkpoints[r] \in Seq(CheckpointRow) /\ n \in Nat /\ DOMAIN checkpoints[r] = 1..n
    BY CheckpointRows
  <1>3. /\ s \in Seq(CheckpointRow) /\ Len(s) = n + 1 /\ s[n + 1] = c
        /\ \A g \in 1..n : s[g] = checkpoints[r][g]
    BY <1>2, AppendProperties
  <1>4. DOMAIN s = 1..(n + 1)
    BY <1>3, LenProperties
  <1>5. checkpoints' = [checkpoints EXCEPT ![r] = s]
    OBVIOUS
  <1> HIDE DEF s
  <1>6. /\ checkpoints' \in [Ids -> Seq(CheckpointRow)] /\ checkpoints'[r] = s
        /\ \A q \in Ids : q # r => checkpoints'[q] = checkpoints[q]
    BY <1>1, <1>3, <1>5
  <1> QED
    BY <1>2, <1>3, <1>4, <1>6

\* The rows of run q are left alone.
Kept(q) ==
  /\ runs'[q] = runs[q] /\ leases'[q] = leases[q]
  /\ requests'[q] = requests[q] /\ checkpoints'[q] = checkpoints[q]

\* What a step of the process that owns run r does outside the lease, requests and
\* checkpoints of r: it changes r, the job of r, and no other row.
Works(r) ==
  /\ Used(r) /\ BoundActive(r) /\ runs[r].job \in Ids /\ Live(runs[r].state)
  /\ \A q \in Ids : q # r => Kept(q)
  /\ runs'[r].job = runs[r].job /\ runs'[r].parent = runs[r].parent
  /\ runs'[r].state # "none"
  /\ runs[r].sealed => runs'[r].sealed
  /\ runs'[r].state = "completed" => runs'[r].sealed
  /\ \A j \in Ids : j # runs[r].job => jobs'[j] = jobs[j]
  /\ jobs'[runs[r].job].run = r
  /\ jobs'[runs[r].job].scope = jobs[runs[r].job].scope
  /\ jobs[runs[r].job].ver <= jobs'[runs[r].job].ver
  /\ jobs'[runs[r].job].state = JobFor(runs'[r].state)
  /\ client.run = r /\ client'.run = r /\ client'.open = client.open

\* The invariants that a step on r alone can disturb.
Here(r) ==
  /\ LeaseFits(r) /\ RequestFits(r) /\ CheckpointFits(r)
  /\ PausedFits(r) /\ HistoryFits(r) /\ NowFits(r)

\* The invariant holds of each row.
LEMMA Rows ==
  ASSUME Inv, NEW r \in Ids
  PROVE  /\ TypeOK /\ RunFits(r) /\ JobFits(r) /\ ParentFits(r) /\ Here(r)
         /\ ClientFits /\ ScopeFits
  BY DEF Inv, Here

\* The versions of a job only grow.
LEMMA JobVersions ==
  ASSUME Inv, NEW j \in Ids
  PROVE  /\ jobs[j].ver \in Nat /\ jobs[j].ver <= jobs[j].ver
         /\ jobs[j].ver <= jobs[j].ver + 1
  BY JobRows DEF Inv

\* Whether or not the answer of a commit is lost (verify_bound_database after
\* the commit), the client stays the client of the same run.
LEMMA Answering ==
  ASSUME TypeOK, NEW known \in Known, Answered(known), known.run = client.run,
         known.open = client.open
  PROVE  /\ client' \in Known /\ faults' \in 0..MaxFaults
         /\ client'.run = client.run /\ client'.open = client.open
  <1>1. faults \in 0..MaxFaults /\ client \in Known
    BY DEF TypeOK
  <1> QED
    BY <1>1, Numbers DEF Answered

\* The run that the client of an open Store owns is its job's active run, and
\* their states are one pair.
LEMMA Attempt ==
  ASSUME Inv, NEW r \in Ids, client.run = r
  PROVE  /\ Used(r) /\ BoundActive(r) /\ runs[r].job \in Ids
         /\ jobs[runs[r].job].run = r
         /\ jobs[runs[r].job].state = JobFor(runs[r].state)
  <1>1. Used(r) /\ BoundActive(r)
    BY Rows, Numbers DEF ClientFits
  <1>2. runs[r].job \in Ids /\ jobs[runs[r].job].state # "none"
    BY <1>1, Rows, Numbers DEF RunFits
  <1>3. JobFits(runs[r].job)
    BY <1>2, Rows
  <1> QED
    BY <1>1, <1>2, <1>3 DEF JobFits, BoundActive

\* Taking the lease with the first batch keeps what is recorded of the run:
\* there is no request and no checkpoint yet.
LEMMA BindLeaseStep ==
  ASSUME Inv, NEW r \in Ids, BindLease(r)
  PROVE  TypeOK' /\ Works(r) /\ Here(r)'
  <1>1. /\ client.open /\ client.run = r /\ runs[r].state = "running"
        /\ leases[r].state = "none" /\ UNCHANGED <<now, jobs, requests, checkpoints>>
        /\ leases' = [leases EXCEPT ![r].state = "active", ![r].beat = now]
        /\ runs' = [runs EXCEPT ![r].at = now]
        /\ Answered([client EXCEPT !.lease = TRUE])
    BY DEF BindLease, CoreBound
  <1>2. TypeOK /\ RunFits(r) /\ Here(r)
    BY Rows
  <1>3. /\ runs' \in [Ids -> RunRow]
        /\ runs'[r].state = runs[r].state /\ runs'[r].ver = runs[r].ver
        /\ runs'[r].job = runs[r].job /\ runs'[r].parent = runs[r].parent
        /\ runs'[r].sealed = runs[r].sealed
        /\ \A q \in Ids : q # r => runs'[q] = runs[q]
    BY <1>1, <1>2, Timing
  <1>4. /\ leases' \in [Ids -> LeaseRow]
        /\ leases'[r].state = "active" /\ leases'[r].why = leases[r].why
        /\ leases'[r].count = leases[r].count
        /\ \A q \in Ids : q # r => leases'[q] = leases[q]
    BY <1>1, <1>2, Leasing
  <1>5. /\ client' \in Known /\ faults' \in 0..MaxFaults
        /\ client'.run = client.run /\ client'.open = client.open
    <2>1. client \in Known
      BY <1>2, ClientRows
    <2>2. [client EXCEPT !.lease = TRUE] \in Known
      BY <2>1 DEF Known
    <2>3. /\ [client EXCEPT !.lease = TRUE].run = client.run
          /\ [client EXCEPT !.lease = TRUE].open = client.open
      BY <2>1 DEF Known
    <2> QED
      BY <2>2, <2>3, <1>1, <1>2, Answering
  <1>6. TypeOK'
    BY <1>1, <1>2, <1>3, <1>4, <1>5 DEF TypeOK
  <1>7. /\ Used(r) /\ BoundActive(r) /\ runs[r].job \in Ids
        /\ jobs[runs[r].job].run = r
        /\ jobs[runs[r].job].state = JobFor(runs[r].state)
    BY <1>1, Attempt
  <1>8. Works(r)
    BY <1>1, <1>3, <1>4, <1>5, <1>7, JobVersions DEF Works, Kept, Live, JobFor
  <1>9. requests[r] = << >> /\ checkpoints[r] = << >> /\ leases[r].why = "none"
    BY <1>1, <1>2 DEF Here, LeaseFits
  <1>10. DOMAIN requests[r] = {} /\ DOMAIN checkpoints[r] = {} /\ Len(requests[r]) = 0
    BY <1>9
  <1>11. LeaseFits(r)'
    BY <1>1, <1>3, <1>4, <1>7, <1>9 DEF LeaseFits, BoundActive, Used, Live
  <1>12. RequestFits(r)' /\ CheckpointFits(r)' /\ HistoryFits(r)'
    BY <1>1, <1>10 DEF RequestFits, CheckpointFits, HistoryFits
  <1>13. PausedFits(r)' /\ NowFits(r)'
    BY <1>1, <1>3, <1>10 DEF PausedFits, NowFits, Resumed, NoneAnswered
  <1> QED
    BY <1>6, <1>8, <1>11, <1>12, <1>13 DEF Here

\* A further batch keeps what is recorded of the run: the count is never behind
\* a checkpoint.
LEMMA ObserveStep ==
  ASSUME Inv, NEW r \in Ids, Observe(r)
  PROVE  TypeOK' /\ Works(r) /\ Here(r)'
  <1>1. /\ client.open /\ client.run = r /\ runs[r].state = "running"
        /\ leases[r].state = "active" /\ UNCHANGED <<now, jobs, requests, checkpoints>>
        /\ leases[r].count < MaxEvidence
        /\ leases' = [leases EXCEPT ![r] = Counted(@)]
        /\ runs' = [runs EXCEPT ![r].at = now]
        /\ Answered([client EXCEPT !.count = leases'[r].count])
    BY DEF Observe, CoreGuarded, CoreBound, Guarded
  <1>2. TypeOK /\ RunFits(r) /\ Here(r)
    BY Rows
  <1>3. /\ runs' \in [Ids -> RunRow]
        /\ runs'[r].state = runs[r].state /\ runs'[r].ver = runs[r].ver
        /\ runs'[r].job = runs[r].job /\ runs'[r].parent = runs[r].parent
        /\ runs'[r].sealed = runs[r].sealed
        /\ \A q \in Ids : q # r => runs'[q] = runs[q]
    BY <1>1, <1>2, Timing
  <1>4. /\ leases' \in [Ids -> LeaseRow]
        /\ leases'[r].state = "active" /\ leases'[r].why = leases[r].why
        /\ leases'[r].beat = leases[r].beat
        /\ leases'[r].count = leases[r].count + 1
        /\ leases'[r].count \in 0..MaxEvidence
        /\ \A q \in Ids : q # r => leases'[q] = leases[q]
    BY <1>1, <1>2, Counting
  <1>5. /\ client' \in Known /\ faults' \in 0..MaxFaults
        /\ client'.run = client.run /\ client'.open = client.open
    <2>1. client \in Known
      BY <1>2, ClientRows
    <2>2. [client EXCEPT !.count = leases'[r].count] \in Known
      BY <2>1, <1>4 DEF Known
    <2>3. /\ [client EXCEPT !.count = leases'[r].count].run = client.run
          /\ [client EXCEPT !.count = leases'[r].count].open = client.open
      BY <2>1 DEF Known
    <2> QED
      BY <2>2, <2>3, <1>1, <1>2, Answering
  <1>6. TypeOK'
    BY <1>1, <1>2, <1>3, <1>4, <1>5 DEF TypeOK
  <1>7. /\ Used(r) /\ BoundActive(r) /\ runs[r].job \in Ids
        /\ jobs[runs[r].job].run = r
        /\ jobs[runs[r].job].state = JobFor(runs[r].state)
    BY <1>1, Attempt
  <1>8. Works(r)
    BY <1>1, <1>3, <1>4, <1>5, <1>7, JobVersions DEF Works, Kept, Live, JobFor
  <1>11. LeaseFits(r)'
    BY <1>1, <1>2, <1>3, <1>4, <1>7 DEF Here, LeaseFits, BoundActive, Used, Live
  <1>12. RequestFits(r)'
    BY <1>1, <1>2, <1>3, <1>4 DEF Here, RequestFits
  <1>13. CheckpointFits(r)'
    <2>1. /\ leases[r].count \in Nat
          /\ \A g \in DOMAIN checkpoints[r] : checkpoints[r][g].cursor \in Nat
      BY <1>2, LeaseRows, CheckpointRows, Numbers
    <2> QED
      BY <2>1, <1>1, <1>2, <1>3, <1>4 DEF Here, CheckpointFits, CheckpointAudit
  <1>14. HistoryFits(r)'
    BY <1>1, <1>2 DEF Here, HistoryFits, Resumed, NoneAnswered
  <1>15. PausedFits(r)' /\ NowFits(r)'
    BY <1>1, <1>2, <1>3 DEF Here, PausedFits, NowFits, Resumed, NoneAnswered
  <1> QED
    BY <1>6, <1>8, <1>11, <1>12, <1>13, <1>14, <1>15 DEF Here

\* Sealing the last stage keeps what is recorded of the run.
LEMMA SealStep ==
  ASSUME Inv, NEW r \in Ids, Seal(r)
  PROVE  TypeOK' /\ Works(r) /\ Here(r)'
  <1>1. /\ client.open /\ client.run = r /\ runs[r].state = "running"
        /\ UNCHANGED <<now, jobs, leases, requests, checkpoints, client, faults>>
        /\ runs' = [runs EXCEPT ![r].sealed = TRUE] /\ runs[r].sealed = FALSE
    BY RunRows, Rows DEF Seal, CoreGuarded, CoreBound, Guarded
  <1>2. TypeOK /\ RunFits(r) /\ Here(r)
    BY Rows
  <1>3. /\ runs' \in [Ids -> RunRow]
        /\ runs'[r].state = runs[r].state /\ runs'[r].ver = runs[r].ver
        /\ runs'[r].job = runs[r].job /\ runs'[r].parent = runs[r].parent
        /\ \A q \in Ids : q # r => runs'[q] = runs[q]
    BY <1>1, <1>2, Sealing
  <1>6. TypeOK'
    BY <1>1, <1>2, <1>3 DEF TypeOK
  <1>7. /\ Used(r) /\ BoundActive(r) /\ runs[r].job \in Ids
        /\ jobs[runs[r].job].run = r
        /\ jobs[runs[r].job].state = JobFor(runs[r].state)
    BY <1>1, Attempt
  <1>8. Works(r)
    BY <1>1, <1>3, <1>7, JobVersions DEF Works, Kept, Live, JobFor
  <1>11. LeaseFits(r)'
    BY <1>1, <1>2, <1>3, <1>7 DEF Here, LeaseFits, BoundActive, Used, Live
  <1>12. RequestFits(r)'
    BY <1>1, <1>2, <1>3 DEF Here, RequestFits
  <1>13. CheckpointFits(r)'
    BY <1>1, <1>2, <1>3 DEF Here, CheckpointFits, CheckpointAudit
  <1>14. HistoryFits(r)'
    BY <1>1, <1>2 DEF Here, HistoryFits, Resumed, NoneAnswered
  <1>15. PausedFits(r)' /\ NowFits(r)'
    BY <1>1, <1>2, <1>3 DEF Here, PausedFits, NowFits, Resumed, NoneAnswered
  <1> QED
    BY <1>6, <1>8, <1>11, <1>12, <1>13, <1>14, <1>15 DEF Here

\* A control request (request_scan_control) keeps what is recorded of the run:
\* it is the only pending one, for a cancel supersedes what was pending and
\* nothing else is admitted while something is.
LEMMA RequestStep ==
  ASSUME Inv, NEW r \in Ids, NEW kind \in Kinds, Request(r, kind)
  PROVE  TypeOK' /\ Works(r) /\ Here(r)'
  <1>0. PICK n : n = Len(requests[r])
    OBVIOUS
  <1>1. /\ client.open /\ client.run = r /\ leases[r].state = "active"
        /\ UNCHANGED <<now, jobs, runs, leases, checkpoints, client, faults>>
        /\ Current(r) /\ Requestable(r, kind)
    BY DEF Request, Guarded
  <1>2. TypeOK /\ RunFits(r) /\ Here(r)
    BY Rows
  <1>7. /\ Used(r) /\ BoundActive(r) /\ runs[r].job \in Ids
        /\ jobs[runs[r].job].run = r
        /\ jobs[runs[r].job].state = JobFor(runs[r].state)
    BY <1>1, Attempt
  <1>3. Live(runs[r].state) /\ BoundActive(r)
    BY <1>1, <1>2 DEF Here, LeaseFits
  <1>4. /\ requests' \in [Ids -> Seq(RequestRow)]
        /\ \A q \in Ids : q # r => requests'[q] = requests[q]
        /\ Len(requests'[r]) = n + 1 /\ DOMAIN requests'[r] = 1..(n + 1)
        /\ \A k \in DOMAIN requests[r] :
             /\ requests[r][k].disp # "pending" => requests'[r][k] = requests[r][k]
             /\ requests[r][k].disp = "pending" => requests'[r][k].disp = "superseded"
             /\ requests'[r][k].kind = requests[r][k].kind
        /\ requests'[r][n + 1].kind = kind /\ requests'[r][n + 1].disp = "pending"
        /\ requests'[r][n + 1].at = now
        /\ requests'[r][n + 1].job = client.job /\ requests'[r][n + 1].ver = client.ver
        /\ kind = "resume" => requests'[r][n + 1].gen = client.gen
    BY <1>0, <1>2, Asking
  <1>5. n \in Nat /\ DOMAIN requests[r] = 1..n /\ n = Len(requests[r])
    BY <1>0, <1>2, RequestRows
  <1>6. TypeOK'
    BY <1>1, <1>2, <1>4 DEF TypeOK
  <1>8. Works(r)
    <2>1. runs[r].state # "completed"
      BY <1>3 DEF Live
    <2> QED
      BY <1>1, <1>3, <1>4, <1>7, <2>1, JobVersions DEF Works, Kept, Used
  <1>9. \A k \in DOMAIN requests'[r] :
          requests'[r][k].disp = "acknowledged" =>
            /\ k \in DOMAIN requests[r] /\ k <= n /\ requests[r][k].disp = "acknowledged"
            /\ requests'[r][k] = requests[r][k]
    BY <1>4, <1>5
  <1>10. \A k \in DOMAIN requests[r] :
           /\ k \in DOMAIN requests'[r] /\ k < n + 1
           /\ requests[r][k].disp = "acknowledged" => requests'[r][k] = requests[r][k]
    BY <1>4, <1>5
  <1>11. LeaseFits(r)'
    BY <1>1, <1>2, <1>3 DEF Here, LeaseFits, BoundActive, Used, Live
  <1>12. RequestFits(r)'
    <2>1. /\ now >= leases[r].beat /\ client.ver = runs[r].ver
          /\ client.job = jobs[runs[r].job].ver
          /\ (kind = "pause" => runs[r].state = "running")
          /\ (kind = "resume" => runs[r].state = "paused")
          /\ \A j \in DOMAIN requests[r] : requests[r][j].kind # "cancel"
          /\ kind # "cancel" => \A j \in DOMAIN requests[r] : requests[r][j].disp # "pending"
      BY <1>1 DEF Current, Requestable, Pending
    <2>2. ASSUME NEW k \in DOMAIN requests[r]
          PROVE  /\ k \in 1..n /\ requests'[r][k].disp # "pending"
                 /\ requests'[r][k].kind # "cancel"
                 /\ requests'[r][k].disp = "superseded" => kind = "cancel"
                 /\ requests'[r][k].disp # "interrupted"
      <3>1. n \in DOMAIN requests[r] /\ k \in 1..n
        BY <1>5
      <3>2. /\ requests[r][k].disp # "superseded" /\ requests[r][k].disp # "interrupted"
            /\ requests[r][k].kind # "cancel"
        BY <3>1, <2>1, <1>1, <1>2, <1>5 DEF Here, RequestFits
      <3>3. CASE requests[r][k].disp = "pending"
        BY <3>1, <3>2, <3>3, <2>1, <1>4
      <3>4. CASE requests[r][k].disp # "pending"
        BY <3>1, <3>2, <3>4, <1>4
      <3> QED
        BY <3>3, <3>4
    <2> QED
      BY <2>1, <2>2, <1>1, <1>4, <1>5 DEF RequestFits
  <1>13. CheckpointFits(r)'
    BY <1>1, <1>2, <1>4, <1>9, <1>10 DEF Here, CheckpointFits, CheckpointAudit
  <1>14. ASSUME NEW m, NEW k \in 1..(n + 1), NoneAnswered(r, m, k)
         PROVE  NoneAnswered(r, m, k)' /\ (k = n + 1 => NoneAnswered(r, m, n + 2)')
    BY <1>4, <1>5, <1>9, <1>14 DEF NoneAnswered
  <1>15. ASSUME NEW k \in 1..(n + 1), Resumed(r, k)
         PROVE  Resumed(r, k)' /\ (k = n + 1 => Resumed(r, n + 2)')
    <2>1. PICK m \in 0..(k - 1) :
            /\ NoneAnswered(r, m, k)
            /\ m # 0 => requests[r][m].disp = "acknowledged" /\ requests[r][m].kind = "resume"
      BY <1>15 DEF Resumed
    <2>2. m # 0 => m \in DOMAIN requests[r]
      BY <1>5, <2>1
    <2>3. /\ NoneAnswered(r, m, k)' /\ (k = n + 1 => NoneAnswered(r, m, n + 2)')
          /\ m # 0 => requests'[r][m].disp = "acknowledged" /\ requests'[r][m].kind = "resume"
      BY <1>14, <1>10, <2>1, <2>2
    <2>4. m \in 0..(k - 1) /\ (k = n + 1 => m \in 0..((n + 2) - 1))
      BY <1>5
    <2> QED
      BY <2>3, <2>4 DEF Resumed
  <1>16. HistoryFits(r)'
    <2>1. ASSUME NEW k \in DOMAIN requests[r], requests'[r][k].kind = "resume",
                 NEW g, g = requests'[r][k].gen, NEW m, m = checkpoints[r][g].request
          PROVE  /\ g \in DOMAIN checkpoints[r] /\ m < k
                 /\ \A h \in DOMAIN checkpoints[r] : g < h => k < checkpoints[r][h].request
                 /\ NoneAnswered(r, m, k)'
      <3>1. requests'[r][k].gen = requests[r][k].gen /\ k \in 1..(n + 1)
        BY <1>2, <1>5, Asking
      <3>2. requests[r][k].kind = "resume"
        BY <2>1, <1>4
      <3>3. /\ g \in DOMAIN checkpoints[r] /\ m < k
            /\ \A h \in DOMAIN checkpoints[r] : g < h => k < checkpoints[r][h].request
            /\ NoneAnswered(r, m, k)
        BY <2>1, <3>1, <3>2, <1>2 DEF Here, HistoryFits
      <3> QED
        BY <3>1, <3>3, <1>14
    <2>2. ASSUME NEW k \in DOMAIN requests[r], requests'[r][k].kind = "pause",
                 requests'[r][k].disp = "acknowledged"
          PROVE  Resumed(r, k)'
      <3>1. k \in 1..(n + 1) /\ requests[r][k] = requests'[r][k]
        BY <1>5, <1>9, <1>10, <2>2
      <3> QED
        BY <2>2, <3>1, <1>2, <1>15 DEF Here, HistoryFits
    <2>3. ASSUME kind = "resume", NEW g, g = requests'[r][n + 1].gen,
                 NEW m, m = checkpoints[r][g].request
          PROVE  /\ g \in DOMAIN checkpoints[r] /\ m < n + 1
                 /\ \A h \in DOMAIN checkpoints[r] : ~(g < h)
                 /\ NoneAnswered(r, m, n + 1)'
      <3>1. /\ g = Len(checkpoints[r]) /\ g > 0
            /\ \A k \in (m + 1)..n : requests[r][k].disp # "acknowledged"
        BY <1>1, <1>4, <1>5, <2>3 DEF Requestable
      <3>2. /\ DOMAIN checkpoints[r] = 1..Len(checkpoints[r]) /\ Len(checkpoints[r]) \in Nat
        BY <1>2, CheckpointRows
      <3>3. g \in DOMAIN checkpoints[r] /\ m \in 1..n
        BY <3>1, <3>2, <1>2, <1>5, <2>3 DEF Here, CheckpointFits, CheckpointAudit
      <3>4. NoneAnswered(r, m, n + 1)
        BY <3>1, <3>3, <1>5 DEF NoneAnswered
      <3>5. n + 1 \in 1..(n + 1)
        BY <1>5
      <3>6. NoneAnswered(r, m, n + 1)'
        BY <3>4, <3>5, <1>14
      <3> QED
        BY <3>1, <3>2, <3>3, <3>6, <1>5
    <2> USE DEF NoneAnswered
    <2>4. ASSUME NEW k \in DOMAIN requests'[r]
          PROVE  /\ requests'[r][k].kind = "resume" =>
                      /\ requests'[r][k].gen \in DOMAIN checkpoints'[r]
                      /\ checkpoints'[r][requests'[r][k].gen].request < k
                      /\ \A h \in DOMAIN checkpoints'[r] :
                           requests'[r][k].gen < h => k < checkpoints'[r][h].request
                      /\ NoneAnswered(r, checkpoints[r][requests[r][k].gen].request, k)'
                 /\ requests'[r][k].kind = "pause" /\ requests'[r][k].disp = "acknowledged" =>
                      Resumed(r, k)'
      <3>1. CASE k = n + 1
        BY <3>1, <2>3, <1>1, <1>4
      <3>2. CASE k \in DOMAIN requests[r]
        BY <3>2, <2>1, <2>2, <1>1, <1>4
      <3> QED
        BY <3>1, <3>2, <1>4, <1>5
    <2> QED
      BY <2>4 DEF HistoryFits
  <1>17. NowFits(r)'
    <2>1. runs[r].state = "running" => Resumed(r, n + 2)'
      BY <1>2, <1>5, <1>15 DEF Here, NowFits
    <2>2. PICK m : m = checkpoints[r][Len(checkpoints[r])].request
      OBVIOUS
    <2>3. runs[r].state = "paused" => NoneAnswered(r, m, n + 2)'
      BY <1>2, <1>5, <1>14, <2>2 DEF Here, NowFits
    <2>4. PICK l : l = n + 2
      OBVIOUS
    <2>5. l = Len(requests'[r]) + 1
      BY <1>4, <1>5, <2>4
    <2> QED
      BY <2>1, <2>2, <2>3, <2>4, <2>5, <1>1 DEF NowFits, NoneAnswered, Resumed
  <1>18. PausedFits(r)'
    BY <1>1, <1>2 DEF Here, PausedFits
  <1> QED
    BY <1>6, <1>8, <1>11, <1>12, <1>13, <1>16, <1>17, <1>18 DEF Here

\* Acknowledging a pause (acknowledge_pause) keeps what is recorded of the run:
\* the new checkpoint is the last one, bound to this request, and exact.
LEMMA PauseStep ==
  ASSUME Inv, NEW r \in Ids, AckPause(r)
  PROVE  TypeOK' /\ Works(r) /\ Here(r)'
  <1>0. PICK n \in PendingOf(r, "pause") :
         /\ Guarded(r) /\ Current(r) /\ Answerable(r, n)
         /\ runs[r].state = "running" /\ CursorBound(r)
         /\ client.gen = Len(checkpoints[r])
         /\ client.gen > 0 => checkpoints[r][client.gen].cursor <= client.count
         /\ checkpoints' = [checkpoints EXCEPT ![r] = Append(@,
              [request |-> n, cursor |-> client.count,
               job |-> client.job + 1, ver |-> client.ver + 1])]
         /\ Move(r, "paused", "paused")
         /\ Acknowledge(r, n, client.gen + 1)
         /\ Answered([client EXCEPT !.job = @ + 1, !.ver = @ + 1, !.gen = @ + 1])
         /\ UNCHANGED <<now, leases>>
    BY DEF AckPause
  <1>2. TypeOK /\ RunFits(r) /\ Here(r)
    BY Rows
  <1>1. /\ client.open /\ client.run = r /\ leases[r].state = "active"
        /\ n \in DOMAIN requests[r] /\ n = Len(requests[r])
        /\ requests[r][n].kind = "pause" /\ requests[r][n].disp = "pending"
        /\ leases[r].why = "none" /\ Live(runs[r].state)
    BY <1>0, <1>2 DEF Guarded, PendingOf, Pending, Here, RequestFits, LeaseFits
  <1>6. n \in Nat /\ n \in 1..n /\ DOMAIN requests[r] = 1..n
    BY <1>1, <1>2, RequestRows
  <1>7. /\ Used(r) /\ BoundActive(r) /\ runs[r].job \in Ids
        /\ jobs[runs[r].job].run = r
        /\ jobs[runs[r].job].state = JobFor(runs[r].state)
    BY <1>1, Attempt
  <1>3. /\ runs' \in [Ids -> RunRow] /\ jobs' \in [Ids -> JobRow]
        /\ runs'[r].state = "paused" /\ runs'[r].ver = runs[r].ver + 1
        /\ runs'[r].job = runs[r].job /\ runs'[r].parent = runs[r].parent
        /\ runs'[r].sealed = runs[r].sealed
        /\ \A q \in Ids : q # r => runs'[q] = runs[q]
        /\ jobs'[runs[r].job].state = "paused"
        /\ jobs'[runs[r].job].ver = jobs[runs[r].job].ver + 1
        /\ jobs'[runs[r].job].run = jobs[runs[r].job].run
        /\ jobs'[runs[r].job].scope = jobs[runs[r].job].scope
        /\ \A j \in Ids : j # runs[r].job => jobs'[j] = jobs[j]
    BY <1>0, <1>1, <1>2, <1>7, Moving DEF States, JobStates
  <1>4. /\ requests' \in [Ids -> Seq(RequestRow)]
        /\ \A q \in Ids : q # r => requests'[q] = requests[q]
        /\ Len(requests'[r]) = n /\ DOMAIN requests'[r] = 1..n
        /\ \A k \in 1..n : k # n => requests'[r][k] = requests[r][k]
        /\ requests'[r][n].disp = "acknowledged" /\ requests'[r][n].gen = client.gen + 1
        /\ requests'[r][n].kind = requests[r][n].kind
        /\ requests'[r][n].job = requests[r][n].job
        /\ requests'[r][n].ver = requests[r][n].ver
    <2>1. client.gen + 1 \in Nat
      BY <1>1, <1>2, <1>6, ClientRows, CheckpointRows, RequestRows
    <2>2. Acknowledge(r, n, client.gen + 1)
      BY <1>0, <1>1
    <2> QED
      BY <2>1, <2>2, <1>1, <1>2, <1>6, Acknowledging
  <1>5. /\ client' \in Known /\ faults' \in 0..MaxFaults
        /\ client'.run = client.run /\ client'.open = client.open
    <2> DEFINE known == [client EXCEPT !.job = @ + 1, !.ver = @ + 1, !.gen = @ + 1]
    <2>1. client \in Known
      BY <1>2, ClientRows
    <2>2. known \in Known
      <3>1. client.job + 1 \in Nat /\ client.ver + 1 \in Nat /\ client.gen + 1 \in Nat
        BY <1>1, <1>2, ClientRows, RequestRows, Plus
      <3> QED
        BY <2>1, <3>1, Knowing
    <2>3. known.run = client.run /\ known.open = client.open
      BY <2>1 DEF Known
    <2>4. Answered(known)
      BY <1>0
    <2> HIDE DEF known
    <2> QED
      BY <2>2, <2>3, <2>4, <1>2, Answering
  <1>8. /\ runs[r].ver \in Nat /\ jobs[runs[r].job].ver \in Nat
        /\ runs[r].ver + 1 > runs[r].ver
        /\ jobs[runs[r].job].ver + 1 > jobs[runs[r].job].ver
    BY <1>2, <1>7, RunRows, JobRows
  <1>10. PICK d \in Nat : d = client.gen
    BY <1>2, ClientRows
  <1>11. PICK c : c = [request |-> n, cursor |-> client.count,
                       job |-> client.job + 1, ver |-> client.ver + 1]
    OBVIOUS
  <1>12. /\ c \in CheckpointRow /\ c.request = n /\ c.cursor = leases[r].count
         /\ c.job = jobs[runs[r].job].ver + 1 /\ c.ver = runs[r].ver + 1
         /\ c.job = requests[r][n].job + 1 /\ c.ver = requests[r][n].ver + 1
    <2>1. /\ client.ver = runs[r].ver /\ client.job = jobs[runs[r].job].ver
          /\ requests[r][n].ver = runs[r].ver
          /\ requests[r][n].job = jobs[runs[r].job].ver
          /\ client.count = leases[r].count
      BY <1>0 DEF Current, Answerable, CursorBound
    <2>2. /\ client.ver + 1 \in Nat /\ client.job + 1 \in Nat /\ client.count \in 0..MaxEvidence
      BY <1>2, ClientRows
    <2> QED
      BY <2>1, <2>2, <1>6, <1>11 DEF CheckpointRow
  <1>13. /\ checkpoints' \in [Ids -> Seq(CheckpointRow)]
         /\ \A q \in Ids : q # r => checkpoints'[q] = checkpoints[q]
         /\ Len(checkpoints'[r]) = d + 1 /\ DOMAIN checkpoints'[r] = 1..(d + 1)
         /\ DOMAIN checkpoints[r] = 1..d /\ Len(checkpoints[r]) = d
         /\ \A g \in 1..d : checkpoints'[r][g] = checkpoints[r][g]
         /\ checkpoints'[r][d + 1] = c
    <2>1. d = Len(checkpoints[r]) /\ DOMAIN checkpoints[r] = 1..d
      BY <1>0, <1>2, <1>10, CheckpointRows
    <2>2. checkpoints' = [checkpoints EXCEPT ![r] = Append(@, c)]
      BY <1>0, <1>11
    <2> QED
      BY <2>1, <2>2, <1>2, <1>12, Marking
  <1>14. TypeOK'
    BY <1>0, <1>2, <1>3, <1>4, <1>5, <1>13 DEF TypeOK
  <1>15. Works(r)
    BY <1>0, <1>1, <1>3, <1>4, <1>5, <1>7, JobVersions, <1>13 DEF Works, Kept, Live, JobFor
  <1>9. ASSUME NEW k \in 1..n, k # n
        PROVE  /\ k < n /\ requests[r][k].kind # "cancel"
               /\ requests[r][k].disp = "acknowledged"
    BY <1>1, <1>2, <1>6, <1>9, RequestRows DEF Here, RequestFits, Disposed
  <1>16. ASSUME NEW k \in 1..n, NEW m, NoneAnswered(r, m, k)
         PROVE  NoneAnswered(r, m, k)'
    BY <1>4, <1>6, <1>16 DEF NoneAnswered
  <1>17. ASSUME NEW k \in 1..n, Resumed(r, k)
         PROVE  Resumed(r, k)'
    <2>1. PICK m \in 0..(k - 1) :
            /\ NoneAnswered(r, m, k)
            /\ m # 0 => requests[r][m].disp = "acknowledged" /\ requests[r][m].kind = "resume"
      BY <1>17 DEF Resumed
    <2>2. m # 0 => m \in 1..n /\ m # n
      BY <1>6, <2>1
    <2>3. /\ NoneAnswered(r, m, k)'
          /\ m # 0 => requests'[r][m].disp = "acknowledged" /\ requests'[r][m].kind = "resume"
      BY <1>16, <1>4, <2>1, <2>2
    <2> QED
      BY <2>3 DEF Resumed
  <1>18. LeaseFits(r)'
    BY <1>0, <1>1, <1>3, <1>7 DEF LeaseFits, BoundActive, Used, Live
  <1>19. RequestFits(r)'
    BY <1>1, <1>4, <1>6, <1>9 DEF RequestFits
  <1>20. ASSUME NEW g \in 1..d
         PROVE  /\ checkpoints[r][g].request \in 1..n /\ checkpoints[r][g].request # n
                /\ CheckpointAudit(r, g)
                /\ checkpoints[r][g].cursor <= leases[r].count
    <2>1. CheckpointAudit(r, g)
      BY <1>2, <1>13 DEF Here, CheckpointFits
    <2> QED
      BY <2>1, <1>1, <1>6 DEF CheckpointAudit
  <1>21. CheckpointFits(r)'
    <2>1. ASSUME NEW g \in 1..d
          PROVE  CheckpointAudit(r, g)'
      <3>1. /\ checkpoints[r][g].job \in Nat /\ checkpoints[r][g].ver \in Nat
        BY <1>2, <1>13, CheckpointRows
      <3>2. /\ checkpoints[r][g].job <= jobs[runs[r].job].ver
            /\ checkpoints[r][g].ver <= runs[r].ver
        BY <1>20 DEF CheckpointAudit
      <3>3. /\ checkpoints[r][g].job <= jobs[runs[r].job].ver + 1
            /\ checkpoints[r][g].ver <= runs[r].ver + 1
        BY <3>1, <3>2, <1>8
      <3>4. /\ checkpoints'[r][g] = checkpoints[r][g]
            /\ requests'[r][checkpoints[r][g].request] = requests[r][checkpoints[r][g].request]
        BY <1>4, <1>13, <1>20
      <3>5. PICK e, q : /\ e = checkpoints[r][g] /\ q = requests[r][checkpoints[r][g].request]
        OBVIOUS
      <3>6. /\ e.request \in 1..n /\ q.kind = "pause" /\ q.disp = "acknowledged"
            /\ q.gen = g /\ e.job = q.job + 1 /\ e.ver = q.ver + 1
            /\ e.cursor <= leases[r].count
            /\ e.job <= jobs[runs[r].job].ver + 1 /\ e.ver <= runs[r].ver + 1
        BY <1>20, <3>3, <3>5 DEF CheckpointAudit
      <3>7. checkpoints'[r][g] = e /\ requests'[r][e.request] = q
        BY <3>4, <3>5
      <3>8. leases'[r] = leases[r] /\ DOMAIN requests'[r] = 1..n
        BY <1>0, <1>4
      <3> QED
        BY <1>3, <3>6, <3>7, <3>8 DEF CheckpointAudit
    <2>2. CheckpointAudit(r, d + 1)'
      <3>1. PICK e : e = d + 1
        OBVIOUS
      <3>2. leases[r].count \in Nat
        BY <1>2, LeaseRows, Numbers
      <3>3. /\ c.request \in DOMAIN requests'[r] /\ requests'[r][c.request].gen = e
            /\ requests'[r][c.request].kind = "pause"
            /\ requests'[r][c.request].disp = "acknowledged"
            /\ c.job = requests'[r][c.request].job + 1 /\ c.ver = requests'[r][c.request].ver + 1
        BY <1>1, <1>4, <1>6, <1>10, <1>12, <3>1
      <3>4. /\ c.job <= jobs'[runs'[r].job].ver /\ c.ver <= runs'[r].ver
            /\ c.cursor <= leases'[r].count
        BY <1>0, <1>3, <1>8, <1>12, <3>2
      <3>5. CheckpointAudit(r, e)'
        BY <1>13, <3>1, <3>3, <3>4 DEF CheckpointAudit
      <3> QED
        BY <3>1, <3>5, <1>10
    <2>3. ASSUME NEW g \in 1..(d + 1), NEW h \in 1..(d + 1), g < h
          PROVE  /\ checkpoints'[r][g].request < checkpoints'[r][h].request
                 /\ checkpoints'[r][g].cursor <= checkpoints'[r][h].cursor
      <3>1. g \in 1..d
        BY <2>3, <1>10
      <3>2. CASE h = d + 1
        BY <3>1, <3>2, <1>6, <1>12, <1>13, <1>20
      <3>3. CASE h \in 1..d
        BY <3>1, <3>3, <2>3, <1>2, <1>13 DEF Here, CheckpointFits
      <3> QED
        BY <3>2, <3>3, <1>10
    <2>4. ASSUME NEW k \in 1..n, requests'[r][k].kind = "pause",
                 requests'[r][k].disp = "acknowledged"
          PROVE  /\ requests'[r][k].gen \in 1..(d + 1)
                 /\ checkpoints'[r][requests'[r][k].gen].request = k
      <3>1. CASE k = n
        BY <3>1, <1>4, <1>6, <1>10, <1>12, <1>13
      <3>2. CASE k # n
        <4>1. requests'[r][k] = requests[r][k] /\ k \in DOMAIN requests[r]
          BY <3>2, <1>4, <1>6
        <4>2. /\ requests[r][k].gen \in DOMAIN checkpoints[r]
              /\ checkpoints[r][requests[r][k].gen].request = k
          BY <4>1, <2>4, <1>2 DEF Here, CheckpointFits
        <4>3. PICK g : g = requests[r][k].gen
          OBVIOUS
        <4>4. g \in 1..d /\ checkpoints[r][g].request = k
          BY <4>2, <4>3, <1>13
        <4> QED
          BY <4>1, <4>3, <4>4, <1>10, <1>13
      <3> QED
        BY <3>1, <3>2
    <2> QED
      BY <2>1, <2>2, <2>3, <2>4, <1>4, <1>10, <1>13 DEF CheckpointFits
  <1>22. HistoryFits(r)'
    <2>1. ASSUME NEW k \in 1..n, requests'[r][k].kind = "resume"
          PROVE  /\ requests'[r][k].gen \in 1..(d + 1)
                 /\ checkpoints'[r][requests'[r][k].gen].request < k
                 /\ \A h \in 1..(d + 1) :
                      requests'[r][k].gen < h => k < checkpoints'[r][h].request
                 /\ NoneAnswered(r, checkpoints[r][requests[r][k].gen].request, k)'
      <3>1. k # n
        BY <2>1, <1>1, <1>4
      <3>2. PICK g : g = requests[r][k].gen
        OBVIOUS
      <3>3. PICK m : m = checkpoints[r][g].request
        OBVIOUS
      <3>4. /\ g \in 1..d /\ m < k /\ NoneAnswered(r, m, k)
            /\ \A h \in 1..d : g < h => k < checkpoints[r][h].request
            /\ requests'[r][k] = requests[r][k]
        BY <2>1, <3>1, <3>2, <3>3, <1>2, <1>4, <1>6, <1>13 DEF Here, HistoryFits
      <3>5. NoneAnswered(r, m, k)' /\ k < n
        BY <3>1, <3>4, <1>9, <1>16
      <3>6. \A h \in 1..(d + 1) : g < h => k < checkpoints'[r][h].request
        <4>1. ASSUME NEW h \in 1..(d + 1), g < h
              PROVE  k < checkpoints'[r][h].request
          <5>1. CASE h = d + 1
            BY <5>1, <3>5, <1>12, <1>13
          <5>2. CASE h \in 1..d
            BY <5>2, <4>1, <3>4, <1>13
          <5> QED
            BY <5>1, <5>2, <1>10
        <4> QED
          BY <4>1
      <3>7. checkpoints'[r][g].request = m /\ g \in 1..(d + 1) /\ requests'[r][k].gen = g
        BY <3>2, <3>3, <3>4, <1>10, <1>13
      <3> QED
        BY <3>4, <3>5, <3>6, <3>7 DEF NoneAnswered
    <2>2. ASSUME NEW k \in 1..n, requests'[r][k].kind = "pause",
                 requests'[r][k].disp = "acknowledged"
          PROVE  Resumed(r, k)'
      <3>1. CASE k = n
        <4>1. PICK m \in 0..((n + 1) - 1) :
                /\ NoneAnswered(r, m, n + 1)
                /\ m # 0 => requests[r][m].disp = "acknowledged" /\ requests[r][m].kind = "resume"
          BY <1>0, <1>1, <1>2 DEF Here, NowFits, Resumed
        <4>2. m # n
          BY <4>1, <1>1, <1>6
        <4>3. NoneAnswered(r, m, n)
          BY <4>1, <1>6 DEF NoneAnswered
        <4>4. m \in 0..(n - 1)
          BY <4>1, <4>2, <1>6
        <4>5. Resumed(r, n)
          BY <4>1, <4>3, <4>4 DEF Resumed
        <4> QED
          BY <3>1, <4>5, <1>17
      <3>2. CASE k # n
        <4>1. Resumed(r, k)
          BY <3>2, <2>2, <1>2, <1>4, <1>6 DEF Here, HistoryFits
        <4> QED
          BY <4>1, <1>17
      <3> QED
        BY <3>1, <3>2
    <2> QED
      BY <2>1, <2>2, <1>4, <1>13 DEF HistoryFits, NoneAnswered
  <1>23. PausedFits(r)'
    BY <1>0, <1>3, <1>10, <1>12, <1>13 DEF PausedFits
  <1>24. NowFits(r)'
    BY <1>3, <1>4, <1>6, <1>12, <1>13 DEF NowFits, NoneAnswered
  <1> QED
    BY <1>14, <1>15, <1>18, <1>19, <1>21, <1>22, <1>23, <1>24 DEF Here

\* Acknowledging a resume (acknowledge_resume) keeps what is recorded of the
\* run: the request it answers is the last one.
LEMMA ResumeStep ==
  ASSUME Inv, NEW r \in Ids, AckResume(r)
  PROVE  TypeOK' /\ Works(r) /\ Here(r)'
  <1>0. PICK n \in PendingOf(r, "resume") :
         /\ Guarded(r) /\ Answerable(r, n) /\ runs[r].state = "paused"
         /\ Move(r, "running", "running")
         /\ Acknowledge(r, n, requests[r][n].gen)
         /\ Answered([client EXCEPT !.job = requests[r][n].job + 1,
                                    !.ver = requests[r][n].ver + 1])
         /\ UNCHANGED <<now, leases, checkpoints>>
    BY DEF AckResume
  <1>2. TypeOK /\ RunFits(r) /\ Here(r)
    BY Rows
  <1>1. /\ client.open /\ client.run = r /\ leases[r].state = "active"
        /\ n \in DOMAIN requests[r] /\ n = Len(requests[r])
        /\ requests[r][n].kind = "resume" /\ requests[r][n].disp = "pending"
        /\ leases[r].why = "none" /\ Live(runs[r].state)
    BY <1>0, <1>2 DEF Guarded, PendingOf, Pending, Here, RequestFits, LeaseFits
  <1>6. n \in Nat /\ n \in 1..n /\ DOMAIN requests[r] = 1..n
    BY <1>1, <1>2, RequestRows
  <1>7. /\ Used(r) /\ BoundActive(r) /\ runs[r].job \in Ids
        /\ jobs[runs[r].job].run = r
        /\ jobs[runs[r].job].state = JobFor(runs[r].state)
    BY <1>1, Attempt
  <1>3. /\ runs' \in [Ids -> RunRow] /\ jobs' \in [Ids -> JobRow]
        /\ runs'[r].state = "running" /\ runs'[r].ver = runs[r].ver + 1
        /\ runs'[r].job = runs[r].job /\ runs'[r].parent = runs[r].parent
        /\ runs'[r].sealed = runs[r].sealed
        /\ \A q \in Ids : q # r => runs'[q] = runs[q]
        /\ jobs'[runs[r].job].state = "running"
        /\ jobs'[runs[r].job].ver = jobs[runs[r].job].ver + 1
        /\ jobs'[runs[r].job].run = jobs[runs[r].job].run
        /\ jobs'[runs[r].job].scope = jobs[runs[r].job].scope
        /\ \A j \in Ids : j # runs[r].job => jobs'[j] = jobs[j]
    BY <1>0, <1>1, <1>2, <1>7, Moving DEF States, JobStates
  <1>4. /\ requests' \in [Ids -> Seq(RequestRow)]
        /\ \A q \in Ids : q # r => requests'[q] = requests[q]
        /\ Len(requests'[r]) = n /\ DOMAIN requests'[r] = 1..n
        /\ \A k \in 1..n : k # n => requests'[r][k] = requests[r][k]
        /\ requests'[r][n].disp = "acknowledged" /\ requests'[r][n].gen = requests[r][n].gen
        /\ requests'[r][n].kind = requests[r][n].kind
        /\ requests'[r][n].job = requests[r][n].job
        /\ requests'[r][n].ver = requests[r][n].ver
    <2>1. requests[r][n].gen \in Nat
      BY <1>1, <1>2, <1>6, ClientRows, CheckpointRows, RequestRows
    <2>2. Acknowledge(r, n, requests[r][n].gen)
      BY <1>0, <1>1
    <2> QED
      BY <2>1, <2>2, <1>1, <1>2, <1>6, Acknowledging
  <1>5. /\ client' \in Known /\ faults' \in 0..MaxFaults
        /\ client'.run = client.run /\ client'.open = client.open
    <2> DEFINE known == [client EXCEPT !.job = requests[r][n].job + 1,
                                 !.ver = requests[r][n].ver + 1]
    <2>1. client \in Known
      BY <1>2, ClientRows
    <2>2. known \in Known
      <3>1. requests[r][n].job + 1 \in Nat /\ requests[r][n].ver + 1 \in Nat
        BY <1>1, <1>2, ClientRows, RequestRows, Plus
      <3> QED
        BY <2>1, <3>1, Knowing
    <2>3. known.run = client.run /\ known.open = client.open
      BY <2>1 DEF Known
    <2>4. Answered(known)
      BY <1>0
    <2> HIDE DEF known
    <2> QED
      BY <2>2, <2>3, <2>4, <1>2, Answering
  <1>8. /\ runs[r].ver \in Nat /\ jobs[runs[r].job].ver \in Nat
        /\ runs[r].ver + 1 > runs[r].ver
        /\ jobs[runs[r].job].ver + 1 > jobs[runs[r].job].ver
    BY <1>2, <1>7, RunRows, JobRows
  <1>13. checkpoints' = checkpoints /\ leases' = leases
    BY <1>0
  <1>14. TypeOK'
    BY <1>0, <1>2, <1>3, <1>4, <1>5, <1>13 DEF TypeOK
  <1>15. Works(r)
    BY <1>0, <1>1, <1>3, <1>4, <1>5, <1>7, JobVersions, <1>13 DEF Works, Kept, Live, JobFor
  <1>9. ASSUME NEW k \in 1..n, k # n
        PROVE  /\ k < n /\ requests[r][k].kind # "cancel"
               /\ requests[r][k].disp = "acknowledged"
    BY <1>1, <1>2, <1>6, <1>9, RequestRows DEF Here, RequestFits, Disposed
  <1>16. ASSUME NEW k \in 1..n, NEW m, NoneAnswered(r, m, k)
         PROVE  NoneAnswered(r, m, k)'
    BY <1>4, <1>6, <1>16 DEF NoneAnswered
  <1>17. ASSUME NEW k \in 1..n, Resumed(r, k)
         PROVE  Resumed(r, k)'
    <2>1. PICK m \in 0..(k - 1) :
            /\ NoneAnswered(r, m, k)
            /\ m # 0 => requests[r][m].disp = "acknowledged" /\ requests[r][m].kind = "resume"
      BY <1>17 DEF Resumed
    <2>2. m # 0 => m \in 1..n /\ m # n
      BY <1>6, <2>1
    <2>3. /\ NoneAnswered(r, m, k)'
          /\ m # 0 => requests'[r][m].disp = "acknowledged" /\ requests'[r][m].kind = "resume"
      BY <1>16, <1>4, <2>1, <2>2
    <2> QED
      BY <2>3 DEF Resumed
  <1>18. LeaseFits(r)'
    BY <1>0, <1>1, <1>3, <1>7 DEF LeaseFits, BoundActive, Used, Live
  <1>19. RequestFits(r)'
    BY <1>1, <1>4, <1>6, <1>9 DEF RequestFits
  <1>21. CheckpointFits(r)'
    <2>1. ASSUME NEW g \in DOMAIN checkpoints[r]
          PROVE  CheckpointAudit(r, g)'
      <3>1. CheckpointAudit(r, g)
        BY <1>2 DEF Here, CheckpointFits
      <3>2. /\ checkpoints[r][g].request \in 1..n /\ checkpoints[r][g].request # n
            /\ checkpoints[r][g].job \in Nat /\ checkpoints[r][g].ver \in Nat
        BY <3>1, <1>1, <1>2, <1>6, CheckpointRows DEF CheckpointAudit
      <3>3. /\ checkpoints[r][g].job <= jobs[runs[r].job].ver
            /\ checkpoints[r][g].ver <= runs[r].ver
        BY <3>1 DEF CheckpointAudit
      <3>4. /\ checkpoints[r][g].job <= jobs[runs[r].job].ver + 1
            /\ checkpoints[r][g].ver <= runs[r].ver + 1
        BY <3>2, <3>3, <1>8
      <3>5. requests'[r][checkpoints[r][g].request] = requests[r][checkpoints[r][g].request]
        BY <1>4, <3>2
      <3> QED
        BY <3>1, <3>2, <3>4, <3>5, <1>0, <1>3, <1>4, <1>13 DEF CheckpointAudit
    <2>2. ASSUME NEW k \in 1..n, requests'[r][k].kind = "pause",
                 requests'[r][k].disp = "acknowledged"
          PROVE  /\ requests'[r][k].gen \in DOMAIN checkpoints[r]
                 /\ checkpoints[r][requests'[r][k].gen].request = k
      <3>1. k # n /\ requests'[r][k] = requests[r][k]
        BY <2>2, <1>1, <1>4
      <3> QED
        BY <3>1, <2>2, <1>2, <1>6 DEF Here, CheckpointFits
    <2> QED
      BY <2>1, <2>2, <1>0, <1>2, <1>4 DEF Here, CheckpointFits
  <1>22. HistoryFits(r)'
    <2>1. ASSUME NEW k \in 1..n, requests'[r][k].kind = "resume"
          PROVE  /\ requests'[r][k].gen \in DOMAIN checkpoints[r]
                 /\ checkpoints[r][requests'[r][k].gen].request < k
                 /\ \A h \in DOMAIN checkpoints[r] :
                      requests'[r][k].gen < h => k < checkpoints[r][h].request
                 /\ \A m : m = checkpoints[r][requests'[r][k].gen].request =>
                      NoneAnswered(r, m, k)'
      <3>1. requests[r][k].kind = "resume" /\ requests'[r][k].gen = requests[r][k].gen
        BY <2>1, <1>1, <1>4
      <3> QED
        BY <3>1, <1>2, <1>6, <1>16 DEF Here, HistoryFits
    <2>2. ASSUME NEW k \in 1..n, requests'[r][k].kind = "pause",
                 requests'[r][k].disp = "acknowledged"
          PROVE  Resumed(r, k)'
      <3>1. k # n /\ requests'[r][k] = requests[r][k]
        BY <2>2, <1>1, <1>4
      <3> QED
        BY <3>1, <2>2, <1>2, <1>6, <1>17 DEF Here, HistoryFits
    <2> QED
      BY <2>1, <2>2, <1>0, <1>4 DEF HistoryFits, NoneAnswered
  <1>23. PausedFits(r)'
    BY <1>3 DEF PausedFits
  <1>24. NowFits(r)'
    <2>1. Resumed(r, n + 1)'
      BY <1>1, <1>4, <1>6 DEF Resumed, NoneAnswered
    <2> QED
      BY <2>1, <1>3, <1>4, <1>6 DEF NowFits, Resumed, NoneAnswered
  <1> QED
    BY <1>14, <1>15, <1>18, <1>19, <1>21, <1>22, <1>23, <1>24 DEF Here

\* Acknowledging a cancel (acknowledge_cancel) keeps what is recorded of the
\* run: the lease is released in the same transaction, and the run, its job and
\* the request agree.
LEMMA CancelStep ==
  ASSUME Inv, NEW r \in Ids, AckCancel(r)
  PROVE  TypeOK' /\ Works(r) /\ Here(r)'
  <1>0. PICK n \in PendingOf(r, "cancel") :
         /\ Guarded(r) /\ Answerable(r, n)
         /\ Move(r, "cancelled", "cancelled")
         /\ Acknowledge(r, n, Len(checkpoints[r]))
         /\ leases' = [leases EXCEPT ![r] = Released(@, "cancelled")]
         /\ Answered([client EXCEPT !.lease = FALSE])
         /\ UNCHANGED <<now, checkpoints>>
    BY DEF AckCancel
  <1>2. TypeOK /\ RunFits(r) /\ Here(r)
    BY Rows
  <1>1. /\ client.open /\ client.run = r /\ leases[r].state = "active"
        /\ n \in DOMAIN requests[r] /\ n = Len(requests[r])
        /\ requests[r][n].kind = "cancel" /\ requests[r][n].disp = "pending"
        /\ leases[r].why = "none" /\ Live(runs[r].state)
    BY <1>0, <1>2 DEF Guarded, PendingOf, Pending, Here, RequestFits, LeaseFits
  <1>6. n \in Nat /\ n \in 1..n /\ DOMAIN requests[r] = 1..n
    BY <1>1, <1>2, RequestRows
  <1>7. /\ Used(r) /\ BoundActive(r) /\ runs[r].job \in Ids
        /\ jobs[runs[r].job].run = r
        /\ jobs[runs[r].job].state = JobFor(runs[r].state)
    BY <1>1, Attempt
  <1>3. /\ runs' \in [Ids -> RunRow] /\ jobs' \in [Ids -> JobRow]
        /\ runs'[r].state = "cancelled" /\ runs'[r].ver = runs[r].ver + 1
        /\ runs'[r].job = runs[r].job /\ runs'[r].parent = runs[r].parent
        /\ runs'[r].sealed = runs[r].sealed
        /\ \A q \in Ids : q # r => runs'[q] = runs[q]
        /\ jobs'[runs[r].job].state = "cancelled"
        /\ jobs'[runs[r].job].ver = jobs[runs[r].job].ver + 1
        /\ jobs'[runs[r].job].run = jobs[runs[r].job].run
        /\ jobs'[runs[r].job].scope = jobs[runs[r].job].scope
        /\ \A j \in Ids : j # runs[r].job => jobs'[j] = jobs[j]
    BY <1>0, <1>1, <1>2, <1>7, Moving DEF States, JobStates
  <1>4. /\ requests' \in [Ids -> Seq(RequestRow)]
        /\ \A q \in Ids : q # r => requests'[q] = requests[q]
        /\ Len(requests'[r]) = n /\ DOMAIN requests'[r] = 1..n
        /\ \A k \in 1..n : k # n => requests'[r][k] = requests[r][k]
        /\ requests'[r][n].disp = "acknowledged" /\ requests'[r][n].gen = Len(checkpoints[r])
        /\ requests'[r][n].kind = requests[r][n].kind
        /\ requests'[r][n].job = requests[r][n].job
        /\ requests'[r][n].ver = requests[r][n].ver
    <2>1. Len(checkpoints[r]) \in Nat
      BY <1>1, <1>2, <1>6, ClientRows, CheckpointRows, RequestRows
    <2>2. Acknowledge(r, n, Len(checkpoints[r]))
      BY <1>0, <1>1
    <2> QED
      BY <2>1, <2>2, <1>1, <1>2, <1>6, Acknowledging
  <1>5. /\ client' \in Known /\ faults' \in 0..MaxFaults
        /\ client'.run = client.run /\ client'.open = client.open
    <2> DEFINE known == [client EXCEPT !.lease = FALSE]
    <2>1. client \in Known
      BY <1>2, ClientRows
    <2>2. known \in Known
      BY <2>1 DEF Known
    <2>3. known.run = client.run /\ known.open = client.open
      BY <2>1 DEF Known
    <2>4. Answered(known)
      BY <1>0
    <2> HIDE DEF known
    <2> QED
      BY <2>2, <2>3, <2>4, <1>2, Answering
  <1>8. /\ runs[r].ver \in Nat /\ jobs[runs[r].job].ver \in Nat
        /\ runs[r].ver + 1 > runs[r].ver
        /\ jobs[runs[r].job].ver + 1 > jobs[runs[r].job].ver
    BY <1>2, <1>7, RunRows, JobRows
  <1>13. /\ leases' \in [Ids -> LeaseRow]
         /\ leases'[r].state = "released" /\ leases'[r].why = "cancelled"
         /\ leases'[r].count = leases[r].count
         /\ \A q \in Ids : q # r => leases'[q] = leases[q]
    BY <1>0, <1>2, Releasing DEF Reasons, Outcomes
  <1>14. TypeOK'
    BY <1>0, <1>2, <1>3, <1>4, <1>5, <1>13 DEF TypeOK
  <1>15. Works(r)
    BY <1>0, <1>1, <1>3, <1>4, <1>5, <1>7, JobVersions, <1>13 DEF Works, Kept, Live, JobFor
  <1>9. ASSUME NEW k \in 1..n, k # n
        PROVE  /\ k < n /\ requests[r][k].kind # "cancel"
               /\ requests[r][k].disp \in {"acknowledged", "superseded"}
    BY <1>1, <1>2, <1>6, <1>9, RequestRows DEF Here, RequestFits, Disposed
  <1>16. ASSUME NEW k \in 1..n, NEW m, NoneAnswered(r, m, k)
         PROVE  NoneAnswered(r, m, k)'
    BY <1>4, <1>6, <1>16 DEF NoneAnswered
  <1>17. ASSUME NEW k \in 1..n, Resumed(r, k)
         PROVE  Resumed(r, k)'
    <2>1. PICK m \in 0..(k - 1) :
            /\ NoneAnswered(r, m, k)
            /\ m # 0 => requests[r][m].disp = "acknowledged" /\ requests[r][m].kind = "resume"
      BY <1>17 DEF Resumed
    <2>2. m # 0 => m \in 1..n /\ m # n
      BY <1>6, <2>1
    <2>3. /\ NoneAnswered(r, m, k)'
          /\ m # 0 => requests'[r][m].disp = "acknowledged" /\ requests'[r][m].kind = "resume"
      BY <1>16, <1>4, <2>1, <2>2
    <2> QED
      BY <2>3 DEF Resumed
  <1>18. LeaseFits(r)'
    BY <1>0, <1>1, <1>3, <1>7, <1>13 DEF LeaseFits, BoundActive, Used, Live
  <1>19. RequestFits(r)'
    BY <1>0, <1>1, <1>3, <1>4, <1>6, <1>9 DEF RequestFits
  <1>21. CheckpointFits(r)'
    <2>1. ASSUME NEW g \in DOMAIN checkpoints[r]
          PROVE  CheckpointAudit(r, g)'
      <3>1. CheckpointAudit(r, g)
        BY <1>2 DEF Here, CheckpointFits
      <3>2. /\ checkpoints[r][g].request \in 1..n /\ checkpoints[r][g].request # n
            /\ checkpoints[r][g].job \in Nat /\ checkpoints[r][g].ver \in Nat
        BY <3>1, <1>1, <1>2, <1>6, CheckpointRows DEF CheckpointAudit
      <3>3. /\ checkpoints[r][g].job <= jobs[runs[r].job].ver
            /\ checkpoints[r][g].ver <= runs[r].ver
        BY <3>1 DEF CheckpointAudit
      <3>4. /\ checkpoints[r][g].job <= jobs[runs[r].job].ver + 1
            /\ checkpoints[r][g].ver <= runs[r].ver + 1
        BY <3>2, <3>3, <1>8
      <3>5. requests'[r][checkpoints[r][g].request] = requests[r][checkpoints[r][g].request]
        BY <1>4, <3>2
      <3> QED
        BY <3>1, <3>2, <3>4, <3>5, <1>0, <1>3, <1>4, <1>13 DEF CheckpointAudit
    <2>2. ASSUME NEW k \in 1..n, requests'[r][k].kind = "pause",
                 requests'[r][k].disp = "acknowledged"
          PROVE  /\ requests'[r][k].gen \in DOMAIN checkpoints[r]
                 /\ checkpoints[r][requests'[r][k].gen].request = k
      <3>1. k # n /\ requests'[r][k] = requests[r][k]
        BY <2>2, <1>1, <1>4
      <3> QED
        BY <3>1, <2>2, <1>2, <1>6 DEF Here, CheckpointFits
    <2> QED
      BY <2>1, <2>2, <1>0, <1>2, <1>4 DEF Here, CheckpointFits
  <1>22. HistoryFits(r)'
    <2>1. ASSUME NEW k \in 1..n, requests'[r][k].kind = "resume"
          PROVE  /\ requests'[r][k].gen \in DOMAIN checkpoints[r]
                 /\ checkpoints[r][requests'[r][k].gen].request < k
                 /\ \A h \in DOMAIN checkpoints[r] :
                      requests'[r][k].gen < h => k < checkpoints[r][h].request
                 /\ \A m : m = checkpoints[r][requests'[r][k].gen].request =>
                      NoneAnswered(r, m, k)'
      <3>1. requests[r][k].kind = "resume" /\ requests'[r][k].gen = requests[r][k].gen
        BY <2>1, <1>1, <1>4
      <3> QED
        BY <3>1, <1>2, <1>6, <1>16 DEF Here, HistoryFits
    <2>2. ASSUME NEW k \in 1..n, requests'[r][k].kind = "pause",
                 requests'[r][k].disp = "acknowledged"
          PROVE  Resumed(r, k)'
      <3>1. k # n /\ requests'[r][k] = requests[r][k]
        BY <2>2, <1>1, <1>4
      <3> QED
        BY <3>1, <2>2, <1>2, <1>6, <1>17 DEF Here, HistoryFits
    <2> QED
      BY <2>1, <2>2, <1>0, <1>4 DEF HistoryFits, NoneAnswered
  <1>23. PausedFits(r)'
    BY <1>3 DEF PausedFits
  <1>24. NowFits(r)'
    BY <1>3 DEF NowFits
  <1> QED
    BY <1>14, <1>15, <1>18, <1>19, <1>21, <1>22, <1>23, <1>24 DEF Here

\* The end of a leased run (transition_leased_scan_job_and_run) keeps what is
\* recorded of the run: nothing is pending any more.
LEMMA EndStep ==
  ASSUME Inv, NEW r \in Ids, NEW outcome \in Outcomes, End(r, outcome)
  PROVE  TypeOK' /\ Works(r) /\ Here(r)'
  <1> DEFINE settled == IF outcome = "completed" THEN "completed" ELSE "failed"
  <1>0. /\ Guarded(r) /\ Live(runs[r].state) /\ Pending(r) = {}
        /\ outcome = "completed" => runs[r].sealed
        /\ Move(r, outcome, settled)
        /\ leases' = [leases EXCEPT ![r] = Released(@, outcome)]
        /\ Answered([client EXCEPT !.lease = FALSE])
        /\ UNCHANGED <<now, requests, checkpoints>>
    BY DEF End, EndAccepted
  <1>2. TypeOK /\ RunFits(r) /\ Here(r)
    BY Rows
  <1>1. /\ client.open /\ client.run = r /\ leases[r].state = "active"
        /\ \A k \in DOMAIN requests[r] : requests[r][k].disp # "pending"
    BY <1>0 DEF Guarded, Pending
  <1>7. /\ Used(r) /\ BoundActive(r) /\ runs[r].job \in Ids
        /\ jobs[runs[r].job].run = r
        /\ jobs[runs[r].job].state = JobFor(runs[r].state)
    BY <1>1, Attempt
  <1>6. /\ outcome \in States /\ settled \in JobStates /\ settled = JobFor(outcome)
        /\ outcome # "none" /\ ~Live(outcome) /\ outcome # "cancelled"
    BY DEF Outcomes, States, JobStates, JobFor, Live
  <1> HIDE DEF settled
  <1>3. /\ runs' \in [Ids -> RunRow] /\ jobs' \in [Ids -> JobRow]
        /\ runs'[r].state = outcome /\ runs'[r].ver = runs[r].ver + 1
        /\ runs'[r].job = runs[r].job /\ runs'[r].parent = runs[r].parent
        /\ runs'[r].sealed = runs[r].sealed
        /\ \A q \in Ids : q # r => runs'[q] = runs[q]
        /\ jobs'[runs[r].job].state = settled
        /\ jobs'[runs[r].job].ver = jobs[runs[r].job].ver + 1
        /\ jobs'[runs[r].job].run = jobs[runs[r].job].run
        /\ jobs'[runs[r].job].scope = jobs[runs[r].job].scope
        /\ \A j \in Ids : j # runs[r].job => jobs'[j] = jobs[j]
    BY <1>0, <1>1, <1>2, <1>6, <1>7, Moving
  <1>5. /\ client' \in Known /\ faults' \in 0..MaxFaults
        /\ client'.run = client.run /\ client'.open = client.open
    <2> DEFINE known == [client EXCEPT !.lease = FALSE]
    <2>1. client \in Known
      BY <1>2, ClientRows
    <2>2. known \in Known
      BY <2>1 DEF Known
    <2>3. known.run = client.run /\ known.open = client.open
      BY <2>1 DEF Known
    <2>4. Answered(known)
      BY <1>0
    <2> HIDE DEF known
    <2> QED
      BY <2>2, <2>3, <2>4, <1>2, Answering
  <1>8. /\ runs[r].ver \in Nat /\ jobs[runs[r].job].ver \in Nat
        /\ runs[r].ver + 1 > runs[r].ver
        /\ jobs[runs[r].job].ver + 1 > jobs[runs[r].job].ver
    BY <1>2, <1>7, RunRows, JobRows
  <1>13. /\ leases' \in [Ids -> LeaseRow]
         /\ leases'[r].state = "released" /\ leases'[r].why = outcome
         /\ leases'[r].count = leases[r].count
         /\ \A q \in Ids : q # r => leases'[q] = leases[q]
    BY <1>0, <1>2, Releasing DEF Reasons, Outcomes
  <1>14. TypeOK'
    BY <1>0, <1>2, <1>3, <1>5, <1>13 DEF TypeOK
  <1>15. Works(r)
    BY <1>0, <1>1, <1>3, <1>5, <1>6, <1>7, JobVersions, <1>13 DEF Works, Kept
  <1>18. LeaseFits(r)'
    BY <1>0, <1>1, <1>3, <1>6, <1>7, <1>13 DEF LeaseFits, BoundActive, Used, Live, Outcomes
  <1>19. RequestFits(r)'
    <2>1. ASSUME NEW k \in DOMAIN requests[r]
          PROVE  requests[r][k].kind # "cancel" /\ requests[r][k].disp = "acknowledged"
      <3>1. requests[r][k].kind # "cancel"
        BY <1>0, <1>1, <1>2 DEF Here, RequestFits, Live
      <3>2. Len(requests[r]) \in DOMAIN requests[r]
        BY <1>2, RequestRows
      <3>3. requests[r][Len(requests[r])].kind # "cancel"
        BY <3>2, <1>0, <1>1, <1>2 DEF Here, RequestFits, Live
      <3> QED
        BY <3>1, <3>3, <1>1, <1>2, RequestRows DEF Here, RequestFits, Disposed
    <2> QED
      BY <2>1, <1>0 DEF RequestFits
  <1>21. CheckpointFits(r)'
    <2>1. ASSUME NEW g \in DOMAIN checkpoints[r]
          PROVE  CheckpointAudit(r, g)'
      <3>1. CheckpointAudit(r, g)
        BY <1>2 DEF Here, CheckpointFits
      <3>2. checkpoints[r][g].job \in Nat /\ checkpoints[r][g].ver \in Nat
        BY <1>2, CheckpointRows
      <3> QED
        BY <3>1, <3>2, <1>0, <1>3, <1>8, <1>13 DEF CheckpointAudit
    <2> QED
      BY <2>1, <1>0, <1>2 DEF Here, CheckpointFits
  <1>22. HistoryFits(r)'
    BY <1>0, <1>2 DEF Here, HistoryFits, Resumed, NoneAnswered
  <1>23. PausedFits(r)' /\ NowFits(r)'
    BY <1>3, <1>6 DEF PausedFits, NowFits, Live
  <1> QED
    BY <1>14, <1>15, <1>18, <1>19, <1>21, <1>22, <1>23 DEF Here

\* The end of a run that never took its lease keeps what is recorded of it: it
\* has neither requests nor checkpoints.
LEMMA EndUnleasedStep ==
  ASSUME Inv, NEW r \in Ids, NEW runState \in {"interrupted", "cancelled"},
         EndUnleased(r, runState)
  PROVE  TypeOK' /\ Works(r) /\ Here(r)'
  <1> DEFINE settled == IF runState = "cancelled" THEN "cancelled" ELSE "failed"
  <1>0. /\ client.open /\ client.run = r /\ leases[r].state = "none"
        /\ runs[r].state = "running"
        /\ Move(r, runState, settled)
        /\ Answered([client EXCEPT !.job = @ + 1, !.ver = @ + 1])
        /\ UNCHANGED <<now, leases, requests, checkpoints>>
    BY DEF EndUnleased
  <1>2. TypeOK /\ RunFits(r) /\ Here(r)
    BY Rows
  <1>1. client.run = r /\ Live(runs[r].state)
    BY <1>0 DEF Live
  <1>7. /\ Used(r) /\ BoundActive(r) /\ runs[r].job \in Ids
        /\ jobs[runs[r].job].run = r
        /\ jobs[runs[r].job].state = JobFor(runs[r].state)
    BY <1>1, Attempt
  <1>6. /\ runState \in States /\ settled \in JobStates /\ settled = JobFor(runState)
        /\ runState # "none" /\ ~Live(runState) /\ runState # "completed"
    BY DEF States, JobStates, JobFor, Live
  <1> HIDE DEF settled
  <1>3. /\ runs' \in [Ids -> RunRow] /\ jobs' \in [Ids -> JobRow]
        /\ runs'[r].state = runState /\ runs'[r].ver = runs[r].ver + 1
        /\ runs'[r].job = runs[r].job /\ runs'[r].parent = runs[r].parent
        /\ runs'[r].sealed = runs[r].sealed
        /\ \A q \in Ids : q # r => runs'[q] = runs[q]
        /\ jobs'[runs[r].job].state = settled
        /\ jobs'[runs[r].job].ver = jobs[runs[r].job].ver + 1
        /\ jobs'[runs[r].job].run = jobs[runs[r].job].run
        /\ jobs'[runs[r].job].scope = jobs[runs[r].job].scope
        /\ \A j \in Ids : j # runs[r].job => jobs'[j] = jobs[j]
    BY <1>0, <1>1, <1>2, <1>6, <1>7, Moving
  <1>5. /\ client' \in Known /\ faults' \in 0..MaxFaults
        /\ client'.run = client.run /\ client'.open = client.open
    <2> DEFINE known == [client EXCEPT !.job = @ + 1, !.ver = @ + 1]
    <2>1. client \in Known
      BY <1>2, ClientRows
    <2>2. known \in Known
      <3>1. client.job + 1 \in Nat /\ client.ver + 1 \in Nat
        BY <1>1, <1>2, ClientRows, RequestRows, Plus
      <3> QED
        BY <2>1, <3>1, Knowing
    <2>3. known.run = client.run /\ known.open = client.open
      BY <2>1 DEF Known
    <2>4. Answered(known)
      BY <1>0
    <2> HIDE DEF known
    <2> QED
      BY <2>2, <2>3, <2>4, <1>2, Answering
  <1>14. TypeOK'
    BY <1>0, <1>2, <1>3, <1>5 DEF TypeOK
  <1>15. Works(r)
    BY <1>0, <1>1, <1>3, <1>5, <1>6, <1>7, JobVersions DEF Works, Kept
  <1>18. LeaseFits(r)'
    BY <1>0, <1>2, <1>3, <1>6 DEF Here, LeaseFits, Live
  <1>19. requests[r] = << >> /\ checkpoints[r] = << >>
    BY <1>0, <1>2 DEF Here, LeaseFits
  <1>20. DOMAIN requests[r] = {} /\ DOMAIN checkpoints[r] = {}
    BY <1>19
  <1>21. RequestFits(r)' /\ CheckpointFits(r)' /\ HistoryFits(r)'
    BY <1>0, <1>20 DEF RequestFits, CheckpointFits, HistoryFits
  <1>23. PausedFits(r)' /\ NowFits(r)'
    BY <1>3, <1>6 DEF PausedFits, NowFits, Live
  <1> QED
    BY <1>14, <1>15, <1>18, <1>21, <1>23 DEF Here


\* A run whose rows are left alone stays as it is recorded, as long as its
\* job's version does not go back and its job is left alone while it is
\* unfinished.
LEMMA KeptStep ==
  ASSUME Inv, NEW q \in Ids, Kept(q),
         Used(q) => /\ jobs[runs[q].job].ver <= jobs'[runs[q].job].ver
                    /\ jobs'[runs[q].job].ver \in Nat
                    /\ Live(runs[q].state) => jobs'[runs[q].job] = jobs[runs[q].job]
  PROVE  Here(q)'
  <1>1. /\ TypeOK /\ RunFits(q) /\ LeaseFits(q) /\ RequestFits(q) /\ CheckpointFits(q)
        /\ PausedFits(q) /\ HistoryFits(q) /\ NowFits(q)
    BY Rows DEF Here
  <1>2. /\ runs'[q] = runs[q] /\ leases'[q] = leases[q]
        /\ requests'[q] = requests[q] /\ checkpoints'[q] = checkpoints[q]
    BY DEF Kept
  <1>3. Live(runs[q].state) => jobs'[runs[q].job] = jobs[runs[q].job]
    BY DEF Live, Used
  <1>4. leases[q].state = "active" => Used(q) /\ Live(runs[q].state)
    BY <1>1 DEF LeaseFits
  <1>5. LeaseFits(q)'
    BY <1>1, <1>2, <1>3, <1>4 DEF LeaseFits, BoundActive, Used, Live
  <1>6. RequestFits(q)'
    BY <1>1, <1>2, <1>3, <1>4 DEF RequestFits
  <1>7. CheckpointFits(q)'
    <2>1. ASSUME NEW g \in DOMAIN checkpoints[q]
          PROVE  CheckpointAudit(q, g)'
      <3>1. CheckpointAudit(q, g)
        BY <1>1 DEF CheckpointFits
      <3>2. Used(q)
        BY <1>1 DEF RunFits, LeaseFits
      <3>3. runs[q].job \in Ids /\ checkpoints[q][g].job \in Nat
        BY <3>2, <1>1, CheckpointRows, Numbers DEF RunFits
      <3>4. /\ checkpoints[q][g].job <= jobs[runs[q].job].ver
            /\ jobs[runs[q].job].ver <= jobs'[runs[q].job].ver
            /\ jobs[runs[q].job].ver \in Nat /\ jobs'[runs[q].job].ver \in Nat
        BY <3>1, <3>2, <3>3, <1>1, JobRows DEF CheckpointAudit
      <3>5. checkpoints[q][g].job <= jobs'[runs[q].job].ver
        BY <3>3, <3>4
      <3> QED
        BY <3>1, <3>5, <1>2 DEF CheckpointAudit
    <2> QED
      BY <2>1, <1>1, <1>2 DEF CheckpointFits
  <1>8. PausedFits(q)'
    BY <1>1, <1>2, <1>3 DEF PausedFits, Live
  <1>9. HistoryFits(q)' /\ NowFits(q)'
    BY <1>1, <1>2 DEF HistoryFits, NowFits, Resumed, NoneAnswered
  <1> QED
    BY <1>5, <1>6, <1>7, <1>8, <1>9 DEF Here

\* A run that exists is bound to a job that exists, and agrees with it unless a
\* later attempt has taken its place.
LEMMA Bound ==
  ASSUME Inv, NEW r \in Ids, Used(r)
  PROVE  /\ runs[r].job \in Ids /\ runs[r].job \in 1..r /\ runs[r].job <= r
         /\ jobs[runs[r].job].state # "none" /\ jobs[runs[r].job].run \in Ids
         /\ r <= jobs[runs[r].job].run
         /\ jobs[runs[r].job].run # r => runs[r].state = "interrupted"
         /\ jobs[runs[r].job].run = r => jobs[runs[r].job].state = JobFor(runs[r].state)
         /\ Live(runs[r].state) => jobs[runs[r].job].run = r
  <1>1. /\ runs[r].job \in 1..r /\ jobs[runs[r].job].state # "none"
        /\ r <= jobs[runs[r].job].run
        /\ jobs[runs[r].job].run # r => runs[r].state = "interrupted"
    BY Rows DEF RunFits
  <1>2. runs[r].job \in Ids
    BY <1>1, Numbers
  <1>3. JobFits(runs[r].job)
    BY <1>2, Rows
  <1> QED
    BY <1>1, <1>2, <1>3, Numbers DEF JobFits, Live

\* A step of the owner of run r keeps the invariant when it keeps what is
\* recorded of r: no other run, no other job and no other scope is involved.
LEMMA WorkStep ==
  ASSUME Inv, NEW r \in Ids, TypeOK', Works(r), Here(r)'
  PROVE  Inv'
  <1> DEFINE k == runs[r].job
  <1>1. /\ Used(r) /\ jobs[k].run = r /\ k \in Ids /\ Live(runs[r].state)
        /\ \A q \in Ids : q # r => Kept(q)
        /\ runs'[r].job = k /\ runs'[r].parent = runs[r].parent
        /\ runs'[r].state # "none"
        /\ (runs[r].sealed => runs'[r].sealed)
        /\ (runs'[r].state = "completed" => runs'[r].sealed)
        /\ \A j \in Ids : j # k => jobs'[j] = jobs[j]
        /\ jobs'[k].run = r /\ jobs'[k].scope = jobs[k].scope
        /\ jobs[k].ver <= jobs'[k].ver
        /\ jobs'[k].state = JobFor(runs'[r].state)
        /\ client.run = r /\ client'.run = r /\ client'.open = client.open
    BY DEF Works, BoundActive
  <1>2. \A q \in Ids : q # r => runs'[q] = runs[q] /\ leases'[q] = leases[q]
    BY <1>1 DEF Kept
  <1>3. JobFor(runs'[r].state) # "none" /\ jobs[k].state # "none"
    BY <1>1, Bound DEF JobFor
  <1>4. jobs'[k].ver \in Nat
    BY <1>1 DEF TypeOK, JobRow
  <1>5. ASSUME NEW q \in Ids, q # r, Used(q)
        PROVE  /\ runs[q].job \in Ids
               /\ Live(runs[q].state) => runs[q].job # k
    BY <1>1, <1>5, Bound
  <1> HIDE DEF k
  <1>6. ASSUME NEW q \in Ids
        PROVE  Here(q)'
    <2>1. CASE q = r
      BY <2>1
    <2>2. CASE q # r
      <3>1. /\ Used(q) => /\ jobs[runs[q].job].ver <= jobs'[runs[q].job].ver
                          /\ jobs'[runs[q].job].ver \in Nat
                          /\ Live(runs[q].state) => jobs'[runs[q].job] = jobs[runs[q].job]
        BY <2>2, <1>1, <1>4, <1>5, JobVersions
      <3> QED
        BY <2>2, <3>1, <1>1, KeptStep
    <2> QED
      BY <2>1, <2>2
  <1>7. \A j \in Ids : /\ jobs'[j].run = jobs[j].run /\ jobs'[j].scope = jobs[j].scope
                       /\ (jobs'[j].state = "none" <=> jobs[j].state = "none")
    BY <1>1, <1>3
  <1>8. \A q \in Ids : /\ runs'[q].job = runs[q].job /\ runs'[q].parent = runs[q].parent
                       /\ (runs'[q].state = "none" <=> runs[q].state = "none")
    BY <1>1, <1>2 DEF Used, k
  <1>9. ASSUME NEW q \in Ids
        PROVE  RunFits(q)'
    <2>1. RunFits(q)
      BY Rows
    <2>2. \A p \in 1..(q - 1) : p \in Ids
      BY Numbers
    <2>3. Used(q) => runs[q].job \in Ids
      BY Bound
    <2>4. CASE q = r
      BY <2>1, <2>2, <2>3, <2>4, <1>1, <1>7, <1>8 DEF RunFits, Used, k
    <2>5. CASE q # r
      BY <2>1, <2>2, <2>3, <2>5, <1>2, <1>7, <1>8 DEF RunFits, Used
    <2> QED
      BY <2>4, <2>5
  <1>10. ASSUME NEW j \in Ids
         PROVE  JobFits(j)'
    <2>1. JobFits(j)
      BY Rows
    <2>2. CASE j = k
      BY <2>1, <2>2, <1>1, <1>3, <1>8 DEF JobFits
    <2>3. CASE j # k
      <3>1. jobs[j].state # "none" => jobs[j].run # r
        BY <2>1, <2>3, <1>8, <1>1 DEF JobFits
      <3> QED
        BY <2>1, <2>3, <3>1, <1>1, <1>2 DEF JobFits
    <2> QED
      BY <2>2, <2>3
  <1>11. ASSUME NEW q \in Ids
         PROVE  ParentFits(q)'
    <2>1. ParentFits(q)
      BY Rows
    <2>2. \A p \in 1..(q - 1) : p \in Ids
      BY Numbers
    <2>3. Used(q) => runs[q].job \in Ids
      BY Bound
    <2>4. ASSUME NEW p \in Ids, runs[p].state = "interrupted"
          PROVE  runs'[p].state = "interrupted"
      BY <2>4, <1>1, <1>2 DEF Live
    <2>5. Used(q) /\ runs'[q].state = "completed" => runs'[q].sealed
      BY <2>1, <1>1, <1>2 DEF ParentFits, Used
    <2>6. Used(q)' => Used(q)
      BY <1>8 DEF Used
    <2> QED
      BY <2>1, <2>2, <2>3, <2>4, <2>5, <2>6, <1>7, <1>8 DEF ParentFits
  <1>12. ClientFits'
    <2>1. Used(r)' /\ BoundActive(r)'
      BY <1>1 DEF Used, BoundActive
    <2>2. ASSUME NEW q \in Ids, client'.open, Live(runs'[q].state)
          PROVE  q = r
      BY <2>2, <1>1, <1>2, Rows DEF ClientFits
    <2> QED
      BY <2>1, <2>2, <1>1 DEF ClientFits, Used, BoundActive
  <1>13. ScopeFits'
    <2>1. ASSUME NEW j \in Ids, Busy(j)'
          PROVE  Busy(j)
      <3>1. CASE j = k
        BY <3>1, <1>1, Bound DEF Busy, Live, JobFor, k
      <3>2. CASE j # k
        <4>1. JobFits(j)
          BY Rows
        <4>2. jobs[j].state # "none" => jobs[j].run # r /\ jobs[j].run \in Ids
          BY <4>1, <3>2, <1>1, <1>8 DEF JobFits
        <4> QED
          BY <2>1, <3>2, <4>2, <1>1, <1>2 DEF Busy, Live
      <3> QED
        BY <3>1, <3>2
    <2>2. ASSUME NEW i \in Ids, NEW j \in Ids, Busy(i)', Busy(j)',
                 jobs'[i].scope = jobs'[j].scope, jobs'[i].scope \in Recoverable
          PROVE  i = j
      <3>1. Busy(i) /\ Busy(j)
        BY <2>1, <2>2
      <3> QED
        BY <3>1, <2>2, <1>7, Rows DEF ScopeFits
    <2> QED
      BY <2>2 DEF ScopeFits
  <1> QED
    BY <1>6, <1>9, <1>10, <1>11, <1>12, <1>13 DEF Inv, Here

\* A step that changes no table keeps the invariant when the client stays right
\* about it.
LEMMA TablesStay ==
  ASSUME Inv, TypeOK', ClientFits', UNCHANGED tables
  PROVE  Inv'
  <1>1. UNCHANGED <<jobs, runs, leases, requests, checkpoints>>
    BY DEF tables
  <1>2. ASSUME NEW r \in Ids
        PROVE  Here(r)' /\ RunFits(r)' /\ JobFits(r)' /\ ParentFits(r)'
    <2>1. Used(r) => jobs[runs[r].job].ver \in Nat
                     /\ jobs[runs[r].job].ver <= jobs[runs[r].job].ver
      BY Bound, JobVersions
    <2>2. Here(r)'
      BY <1>1, <2>1, KeptStep DEF Kept
    <2>3. RunFits(r) /\ JobFits(r) /\ ParentFits(r)
      BY Rows
    <2> QED
      BY <1>1, <2>2, <2>3 DEF RunFits, JobFits, ParentFits, Used
  <1>3. ScopeFits'
    BY <1>1, Rows DEF ScopeFits, Busy
  <1> QED
    BY <1>2, <1>3 DEF Inv, Here

\* Closing the Store, setting the clock and asking for a checkpoint again
\* change no table.
LEMMA QuietStep ==
  ASSUME Inv, Close \/ SetClock \/ (\E r \in Ids : PauseAgain(r)) \/ UNCHANGED vars
  PROVE  Inv'
  <1>1. TypeOK /\ ClientFits
    BY DEF Inv
  <1>2. CASE Close
    <2>1. UNCHANGED <<now, tables, faults>> /\ client' = Closed
      BY <1>2 DEF Close
    <2>2. Closed \in Known
      BY Numbers DEF Closed, Known
    <2>3. TypeOK'
      BY <1>1, <2>1, <2>2 DEF TypeOK, tables
    <2>4. ClientFits'
      BY <2>1 DEF ClientFits, Closed
    <2> QED
      BY <2>1, <2>3, <2>4, TablesStay
  <1>3. CASE SetClock
    <2>1. now' \in Time /\ UNCHANGED <<tables, client, faults>>
      BY <1>3 DEF SetClock
    <2>2. TypeOK' /\ ClientFits'
      BY <1>1, <2>1 DEF TypeOK, ClientFits, Used, BoundActive, tables
    <2> QED
      BY <2>1, <2>2, TablesStay
  <1>4. ASSUME NEW r \in Ids, PauseAgain(r)
        PROVE  Inv'
    <2>1. PICK g : g = client.gen + 1
      OBVIOUS
    <2>2. /\ UNCHANGED <<now, tables, faults>> /\ client.gen < Len(checkpoints[r])
          /\ client' = [client EXCEPT !.job = checkpoints[r][g].job,
                                      !.ver = checkpoints[r][g].ver, !.gen = g]
      BY <1>4, <2>1 DEF PauseAgain
    <2>3. /\ g \in Nat /\ client \in Known /\ g \in DOMAIN checkpoints[r]
      BY <1>1, <2>1, <2>2, ClientRows, CheckpointRows
    <2>4. checkpoints[r][g].job \in Nat /\ checkpoints[r][g].ver \in Nat
      BY <1>1, <2>3, CheckpointRows
    <2>5. client' \in Known
      BY <2>2, <2>3, <2>4, Knowing
    <2>6. client'.run = client.run /\ client'.open = client.open
      BY <2>2, <2>3 DEF Known
    <2>7. TypeOK'
      BY <1>1, <2>2, <2>5 DEF TypeOK, tables
    <2>8. ClientFits'
      BY <1>1, <2>2, <2>6 DEF ClientFits, Used, BoundActive, tables
    <2> QED
      BY <2>2, <2>7, <2>8, TablesStay
  <1>5. CASE UNCHANGED vars
    <2>1. TypeOK' /\ ClientFits' /\ UNCHANGED tables
      BY <1>1, <1>5 DEF vars, tables, TypeOK, ClientFits, Used, BoundActive
    <2> QED
      BY <2>1, TablesStay
  <1> QED
    BY <1>2, <1>3, <1>4, <1>5

\* When the Store is opened the leases still active are those of abandoned
\* runs, and the unfinished runs are all left over
\* (reconcile_stale_scan_sessions).
LEMMA Leftovers ==
  ASSUME Inv, NEW r \in Ids
  PROVE  /\ Abandoned(r) <=> leases[r].state = "active"
         /\ LeftOver(r) <=> Live(runs[r].state)
  <1>1. LeaseFits(r) /\ leases[r].state \in {"none", "active", "released"}
    BY Rows, LeaseRows DEF Here
  <1>2. ASSUME Live(runs[r].state)
        PROVE  Live(jobs[runs[r].job].state)
    BY <1>2, Bound DEF Live, Used, JobFor
  <1> QED
    BY <1>1, <1>2 DEF LeaseFits, Abandoned, LeftOver

\* The reconcile pass settles the runs left over, cancelled if a cancel was
\* durable and interrupted otherwise, and leaves the settled ones alone.
LEMMA Restarting ==
  ASSUME Inv, NEW r \in Ids, runs' = [q \in Ids |-> RestartRun(q)]
  PROVE  /\ runs'[r] \in RunRow
         /\ runs'[r].job = runs[r].job /\ runs'[r].parent = runs[r].parent
         /\ runs'[r].sealed = runs[r].sealed
         /\ ~Live(runs[r].state) => runs'[r] = runs[r]
         /\ Live(runs[r].state) =>
              runs'[r].state = IF CancelSurvives(r) THEN "cancelled" ELSE "interrupted"
         /\ runs[r].ver <= runs'[r].ver
  <1> DEFINE a == IF CancelSurvives(r) THEN "cancelled" ELSE "interrupted"
             t == Later(runs[r].at, now)
             v == runs[r].ver + 1
  <1>1. runs[r] \in RunRow /\ runs[r].ver \in Nat /\ runs[r].at \in Time /\ now \in Time
    BY Rows, RunRows DEF TypeOK
  <1>2. a \in States /\ t \in Time /\ v \in Nat /\ runs[r].ver <= v
        /\ runs[r].ver <= runs[r].ver
    BY <1>1 DEF States, Later
  <1>3. runs'[r] = IF Live(runs[r].state) THEN [runs[r] EXCEPT !.state = a, !.ver = v, !.at = t]
                   ELSE runs[r]
    BY Leftovers DEF RestartRun
  <1>4. a = IF CancelSurvives(r) THEN "cancelled" ELSE "interrupted"
    OBVIOUS
  <1> HIDE DEF a, t, v
  <1>5. CASE Live(runs[r].state)
    BY <1>1, <1>2, <1>3, <1>4, <1>5 DEF RunRow
  <1>6. CASE ~Live(runs[r].state)
    BY <1>1, <1>2, <1>3, <1>6
  <1> QED
    BY <1>5, <1>6

\* The reconcile pass settles the jobs of the runs left over, and leaves the
\* settled ones alone.
LEMMA RestartingJobs ==
  ASSUME Inv, NEW j \in Ids, jobs' = [k \in Ids |-> RestartJob(k)]
  PROVE  /\ jobs'[j] \in JobRow
         /\ jobs'[j].run = jobs[j].run /\ jobs'[j].scope = jobs[j].scope
         /\ ~Live(jobs[j].state) => jobs'[j] = jobs[j]
         /\ Live(jobs[j].state) =>
              jobs'[j].state = IF CancelSurvives(jobs[j].run) THEN "cancelled" ELSE "failed"
         /\ jobs[j].ver <= jobs'[j].ver
  <1> DEFINE a == IF CancelSurvives(jobs[j].run) THEN "cancelled" ELSE "failed"
             t == Later(jobs[j].at, now)
             v == jobs[j].ver + 1
  <1>1. jobs[j] \in JobRow /\ jobs[j].ver \in Nat /\ jobs[j].at \in Time /\ now \in Time
    BY Rows, JobRows DEF TypeOK
  <1>2. a \in JobStates /\ t \in Time /\ v \in Nat /\ jobs[j].ver <= v
        /\ jobs[j].ver <= jobs[j].ver
    BY <1>1 DEF JobStates, States, Later
  <1>3. Live(jobs[j].state) => LeftOver(jobs[j].run)
    <2>1. JobFits(j)
      BY Rows
    <2>2. Live(jobs[j].state) => jobs[j].run \in Ids /\ Live(runs[jobs[j].run].state)
      BY <2>1 DEF JobFits, Live, JobFor
    <2> QED
      BY <2>2, Leftovers
  <1>4. jobs'[j] = IF Live(jobs[j].state) THEN [jobs[j] EXCEPT !.state = a, !.ver = v, !.at = t]
                   ELSE jobs[j]
    BY <1>3 DEF RestartJob
  <1>5. a = IF CancelSurvives(jobs[j].run) THEN "cancelled" ELSE "failed"
    OBVIOUS
  <1> HIDE DEF a, t, v
  <1>6. CASE Live(jobs[j].state)
    BY <1>1, <1>2, <1>4, <1>5, <1>6 DEF JobRow
  <1>7. CASE ~Live(jobs[j].state)
    BY <1>1, <1>2, <1>4, <1>7
  <1> QED
    BY <1>6, <1>7

\* The reconcile pass acknowledges a pending cancel at the last checkpoint,
\* interrupts any other pending request, and leaves the rest alone
\* (reconcile_runtime_control_sessions).
LEMMA RestartingRequests ==
  ASSUME Inv, NEW r \in Ids, leases[r].state = "active",
         NEW new, new = [i \in DOMAIN requests[r] |-> RestartRequest(r, requests[r][i])]
  PROVE  /\ new \in Seq(RequestRow) /\ DOMAIN new = DOMAIN requests[r]
         /\ Len(new) = Len(requests[r])
         /\ \A i \in DOMAIN requests[r] :
              /\ requests[r][i].disp # "pending" => new[i] = requests[r][i]
              /\ new[i].kind = requests[r][i].kind
              /\ requests[r][i].disp = "pending" /\ requests[r][i].kind = "cancel" =>
                   new[i].disp = "acknowledged" /\ new[i].gen = Len(checkpoints[r])
              /\ requests[r][i].disp = "pending" /\ requests[r][i].kind # "cancel" =>
                   new[i].disp = "interrupted" /\ new[i].gen = requests[r][i].gen
  <1> DEFINE R(i) == RestartRequest(r, requests[r][i])
  <1>1. /\ DOMAIN requests[r] = 1..Len(requests[r]) /\ Len(requests[r]) \in Nat
        /\ \A i \in DOMAIN requests[r] : requests[r][i] \in RequestRow
        /\ Len(checkpoints[r]) \in Nat
    BY Rows, RequestRows, CheckpointRows
  <1>2. ASSUME NEW i \in DOMAIN requests[r]
        PROVE  /\ R(i) \in RequestRow
               /\ requests[r][i].disp # "pending" => R(i) = requests[r][i]
               /\ R(i).kind = requests[r][i].kind
               /\ requests[r][i].disp = "pending" /\ requests[r][i].kind = "cancel" =>
                    R(i).disp = "acknowledged" /\ R(i).gen = Len(checkpoints[r])
               /\ requests[r][i].disp = "pending" /\ requests[r][i].kind # "cancel" =>
                    R(i).disp = "interrupted" /\ R(i).gen = requests[r][i].gen
    BY <1>1, Disposing DEF RestartRequest, Disposed
  <1>3. new = [i \in DOMAIN requests[r] |-> R(i)]
    OBVIOUS
  <1> HIDE DEF R
  <1>4. new \in [1..Len(requests[r]) -> RequestRow] /\ DOMAIN new = DOMAIN requests[r]
    BY <1>1, <1>2, <1>3
  <1>5. new \in Seq(RequestRow)
    BY <1>1, <1>4, SeqDef
  <1>6. Len(new) = Len(requests[r])
    BY <1>1, <1>4, <1>5, LenProperties
  <1> QED
    BY <1>2, <1>3, <1>4, <1>5, <1>6

\* Opening the Store after a crash keeps the invariant: every run another
\* process left unfinished is settled with its job, its lease and its requests
\* in one transaction.
LEMMA OpenStep ==
  ASSUME Inv, Open
  PROVE  Inv'
  <1>1. /\ runs' = [r \in Ids |-> RestartRun(r)] /\ jobs' = [j \in Ids |-> RestartJob(j)]
        /\ leases' = [r \in Ids |-> IF Abandoned(r)
                                    THEN Released(leases[r], "process_restart")
                                    ELSE leases[r]]
        /\ requests' = [r \in Ids |->
             IF ~Abandoned(r) THEN requests[r]
             ELSE [i \in DOMAIN requests[r] |-> RestartRequest(r, requests[r][i])]]
        /\ client' = [Closed EXCEPT !.open = TRUE]
        /\ UNCHANGED <<now, checkpoints, faults>>
    BY DEF Open
  <1>2. TypeOK /\ ScopeFits
    BY DEF Inv
  <1>3. ASSUME NEW r \in Ids
        PROVE  /\ leases'[r] \in LeaseRow /\ leases'[r].count = leases[r].count
               /\ leases[r].state # "active" =>
                    leases'[r] = leases[r] /\ requests'[r] = requests[r]
               /\ leases[r].state = "active" =>
                    leases'[r].state = "released" /\ leases'[r].why = "process_restart"
    <2>1. leases[r] \in LeaseRow /\ "process_restart" \in Reasons
      BY <1>2, LeaseRows DEF Reasons
    <2>2. leases'[r] = IF leases[r].state = "active"
                       THEN Released(leases[r], "process_restart") ELSE leases[r]
      BY <1>1, Leftovers
    <2>3. leases[r].state # "active" => requests'[r] = requests[r]
      BY <1>1, Leftovers
    <2> QED
      BY <2>1, <2>2, <2>3, Letting
  <1>4. ASSUME NEW r \in Ids, leases[r].state = "active"
        PROVE  requests'[r] = [i \in DOMAIN requests[r] |-> RestartRequest(r, requests[r][i])]
    BY <1>1, <1>4, Leftovers
  <1>5. TypeOK'
    <2>1. runs' \in [Ids -> RunRow]
      BY <1>1, Restarting
    <2>2. jobs' \in [Ids -> JobRow]
      BY <1>1, RestartingJobs
    <2>3. leases' \in [Ids -> LeaseRow]
      BY <1>1, <1>3
    <2>4. requests' \in [Ids -> Seq(RequestRow)]
      <3>1. ASSUME NEW r \in Ids PROVE requests'[r] \in Seq(RequestRow)
        BY <1>2, <1>3, <1>4, RestartingRequests, RequestRows
      <3> QED
        BY <1>1, <3>1
    <2>5. client' \in Known
      <3>1. Closed \in Known
        BY Numbers DEF Closed, Known
      <3>2. client' = [Closed EXCEPT !.open = TRUE]
        BY <1>1
      <3> QED
        BY <3>1, <3>2 DEF Known
    <2> QED
      BY <1>1, <1>2, <2>1, <2>2, <2>3, <2>4, <2>5 DEF TypeOK
  <1>6. ASSUME NEW r \in Ids
        PROVE  /\ runs'[r].job = runs[r].job /\ runs'[r].parent = runs[r].parent
               /\ runs'[r].sealed = runs[r].sealed
               /\ ~Live(runs[r].state) => runs'[r] = runs[r]
               /\ Live(runs[r].state) =>
                    runs'[r].state = IF CancelSurvives(r) THEN "cancelled" ELSE "interrupted"
               /\ runs[r].ver <= runs'[r].ver /\ runs'[r].ver \in Nat /\ runs[r].ver \in Nat
               /\ (runs'[r].state = "none" <=> runs[r].state = "none")
               /\ ~Live(runs'[r].state)
    BY <1>1, <1>2, Restarting, RunRows DEF Live, RunRow
  <1>7. ASSUME NEW j \in Ids
        PROVE  /\ jobs'[j].run = jobs[j].run /\ jobs'[j].scope = jobs[j].scope
               /\ ~Live(jobs[j].state) => jobs'[j] = jobs[j]
               /\ Live(jobs[j].state) =>
                    jobs'[j].state = IF CancelSurvives(jobs[j].run) THEN "cancelled" ELSE "failed"
               /\ jobs[j].ver <= jobs'[j].ver /\ jobs'[j].ver \in Nat /\ jobs[j].ver \in Nat
               /\ (jobs'[j].state = "none" <=> jobs[j].state = "none")
               /\ ~Live(jobs'[j].state)
    BY <1>1, <1>2, RestartingJobs, JobRows DEF Live, JobRow
  <1>8. ASSUME NEW r \in Ids
        PROVE  RunFits(r)'
    <2>1. RunFits(r)
      BY Rows
    <2>2. \A p \in 1..(r - 1) : p \in Ids
      BY Numbers
    <2>3. Used(r) => runs[r].job \in Ids
      BY Bound
    <2>4. runs[r].state = "interrupted" => runs'[r].state = "interrupted"
      BY <1>6 DEF Live
    <2>5. leases[r].state = "none" => leases'[r].state = "none"
      BY <1>3
    <2> QED
      BY <2>1, <2>2, <2>3, <2>4, <2>5, <1>6, <1>7 DEF RunFits, Used
  <1>9. ASSUME NEW j \in Ids
        PROVE  JobFits(j)'
    <2>1. JobFits(j)
      BY Rows
    <2>2. CASE jobs[j].state = "none"
      BY <2>1, <2>2, <1>7 DEF JobFits
    <2>3. CASE jobs[j].state # "none"
      <3>1. /\ jobs[j].run \in Ids /\ runs[jobs[j].run].job = j
            /\ jobs[j].state = JobFor(runs[jobs[j].run].state)
        BY <2>1, <2>3 DEF JobFits
      <3>2. Live(jobs[j].state) <=> Live(runs[jobs[j].run].state)
        BY <3>1 DEF Live, JobFor
      <3>3. jobs'[j].state = JobFor(runs'[jobs[j].run].state)
        BY <3>1, <3>2, <1>6, <1>7 DEF JobFor
      <3>4. jobs'[j].run = jobs[j].run /\ jobs'[j].state # "none"
        BY <2>3, <1>7
      <3>5. runs'[jobs[j].run].job = runs[jobs[j].run].job
        BY <3>1, <1>6
      <3> QED
        BY <3>1, <3>3, <3>4, <3>5 DEF JobFits
    <2> QED
      BY <2>2, <2>3
  <1>10. ASSUME NEW r \in Ids
         PROVE  ParentFits(r)'
    <2>1. ParentFits(r)
      BY Rows
    <2>2. \A p \in 1..(r - 1) : p \in Ids
      BY Numbers
    <2>3. Used(r) => runs[r].job \in Ids
      BY Bound
    <2>4. \A p \in Ids : runs[p].state = "interrupted" => runs'[p].state = "interrupted"
      BY <1>6 DEF Live
    <2>5. runs'[r].state = "completed" => runs[r].state = "completed"
      BY <1>6
    <2> QED
      BY <2>1, <2>2, <2>3, <2>4, <2>5, <1>6, <1>7 DEF ParentFits, Used
  <1>11. ASSUME NEW r \in Ids, leases[r].state # "active"
         PROVE  Here(r)'
    <2>1. /\ leases'[r] = leases[r] /\ requests'[r] = requests[r]
          /\ checkpoints'[r] = checkpoints[r]
      BY <1>1, <1>3, <1>11
    <2>2. LeaseFits(r) /\ RequestFits(r) /\ CheckpointFits(r) /\ HistoryFits(r)
      BY Rows DEF Here
    <2>3. CASE Live(runs[r].state)
      <3>1. leases[r].state = "none"
        BY <2>2, <2>3, <1>2, <1>11, LeaseRows DEF LeaseFits
      <3>2. requests[r] = << >> /\ checkpoints[r] = << >> /\ leases[r].why = "none"
        BY <3>1, <2>2 DEF LeaseFits
      <3>3. DOMAIN requests[r] = {} /\ DOMAIN checkpoints[r] = {}
        BY <3>2
      <3>4. LeaseFits(r)'
        BY <3>1, <3>2, <2>1, <1>6 DEF LeaseFits, Live
      <3> QED
        BY <3>3, <3>4, <2>1, <1>6
           DEF Here, RequestFits, CheckpointFits, HistoryFits, PausedFits, NowFits, Live
    <2>4. CASE ~Live(runs[r].state)
      <3>1. Kept(r)
        BY <2>1, <2>4, <1>6 DEF Kept
      <3>2. Used(r) => runs[r].job \in Ids
        BY Bound
      <3> QED
        BY <3>1, <3>2, <2>4, <1>7, KeptStep
    <2> QED
      BY <2>3, <2>4
  <1>12. ASSUME NEW r \in Ids, leases[r].state = "active"
         PROVE  Here(r)'
    <2>1. LeaseFits(r) /\ RequestFits(r) /\ CheckpointFits(r) /\ HistoryFits(r)
      BY Rows DEF Here
    <2>2. Used(r) /\ Live(runs[r].state) /\ runs[r].job \in Ids
      BY <2>1, <1>12, Bound DEF LeaseFits
    <2>3. PICK n : n = Len(requests[r])
      OBVIOUS
    <2>4. n \in Nat /\ DOMAIN requests[r] = 1..n
      BY <1>2, <2>3, RequestRows
    <2>5. /\ DOMAIN requests'[r] = 1..n /\ Len(requests'[r]) = n
          /\ \A i \in 1..n :
               /\ requests[r][i].disp # "pending" => requests'[r][i] = requests[r][i]
               /\ requests'[r][i].kind = requests[r][i].kind
               /\ requests[r][i].disp = "pending" /\ requests[r][i].kind = "cancel" =>
                    requests'[r][i].disp = "acknowledged"
                    /\ requests'[r][i].gen = Len(checkpoints[r])
               /\ requests[r][i].disp = "pending" /\ requests[r][i].kind # "cancel" =>
                    requests'[r][i].disp = "interrupted"
                    /\ requests'[r][i].gen = requests[r][i].gen
      <3>1. PICK new : new = requests'[r]
        OBVIOUS
      <3>2. new = [i \in DOMAIN requests[r] |-> RestartRequest(r, requests[r][i])]
        BY <3>1, <1>4, <1>12
      <3>3. /\ DOMAIN new = DOMAIN requests[r] /\ Len(new) = Len(requests[r])
            /\ \A i \in DOMAIN requests[r] :
                 /\ requests[r][i].disp # "pending" => new[i] = requests[r][i]
                 /\ new[i].kind = requests[r][i].kind
                 /\ requests[r][i].disp = "pending" /\ requests[r][i].kind = "cancel" =>
                      new[i].disp = "acknowledged" /\ new[i].gen = Len(checkpoints[r])
                 /\ requests[r][i].disp = "pending" /\ requests[r][i].kind # "cancel" =>
                      new[i].disp = "interrupted" /\ new[i].gen = requests[r][i].gen
        BY <3>2, <1>12, RestartingRequests
      <3> QED
        BY <3>1, <3>3, <2>3, <2>4
    <2>6. /\ leases'[r].state = "released" /\ leases'[r].why = "process_restart"
          /\ leases'[r].count = leases[r].count /\ checkpoints'[r] = checkpoints[r]
      BY <1>1, <1>3, <1>12
    <2>7. CancelSurvives(r) <=> \E i \in 1..n : /\ requests[r][i].disp = "pending"
                                               /\ requests[r][i].kind = "cancel"
      BY <1>12, <2>4, Leftovers DEF CancelSurvives, PendingOf, Pending
    <2>8. runs'[r].state \in {"cancelled", "interrupted"}
          /\ (CancelSurvives(r) => runs'[r].state = "cancelled")
      BY <1>6, <2>2
    <2>9. ASSUME NEW i \in 1..n
          PROVE  /\ requests[r][i].disp = "pending" => i = n
                 /\ requests[r][i].kind = "cancel" => i = n /\ requests[r][i].disp = "pending"
                 /\ requests[r][i].disp # "interrupted"
                 /\ requests[r][i].disp = "superseded" =>
                      i < n /\ requests[r][n].kind = "cancel"
      BY <1>12, <2>1, <2>2, <2>3, <2>4 DEF RequestFits, Live
    <2>10. ASSUME NEW i \in 1..n, requests'[r][i].disp = "acknowledged",
                  requests'[r][i].kind # "cancel" \/ i # n
           PROVE  requests'[r][i] = requests[r][i]
      BY <2>5, <2>9, <2>10
    <2>11. LeaseFits(r)'
      BY <2>2, <2>6, <2>8, <1>6 DEF LeaseFits, Used, Live
    <2>12. RequestFits(r)'
      <3>1. ASSUME NEW i \in 1..n
            PROVE  /\ requests'[r][i].disp # "pending"
                   /\ requests'[r][i].kind = "cancel" =>
                        /\ i = n /\ requests'[r][i].disp = "acknowledged"
                        /\ runs'[r].state = "cancelled"
                        /\ requests'[r][i].gen = Len(checkpoints[r])
                   /\ requests'[r][i].disp = "superseded" =>
                        i < n /\ requests'[r][n].kind = "cancel"
                   /\ requests'[r][i].disp = "interrupted" => requests'[r][i].kind # "cancel"
        <4>1. n \in 1..n
          BY <2>4
        <4>2. CASE requests[r][i].disp = "pending"
          BY <4>1, <4>2, <2>5, <2>7, <2>8, <2>9
        <4>3. CASE requests[r][i].disp # "pending"
          BY <4>1, <4>3, <2>5, <2>9
        <4> QED
          BY <4>2, <4>3
      <3> QED
        BY <3>1, <2>5, <2>6 DEF RequestFits
    <2>13. CheckpointFits(r)'
      <3>1. ASSUME NEW g \in DOMAIN checkpoints[r]
            PROVE  CheckpointAudit(r, g)'
        <4>1. CheckpointAudit(r, g)
          BY <2>1 DEF CheckpointFits
        <4>2. /\ checkpoints[r][g].job \in Nat /\ checkpoints[r][g].ver \in Nat
          BY <1>2, CheckpointRows
        <4>3. /\ checkpoints[r][g].job <= jobs'[runs[r].job].ver
              /\ checkpoints[r][g].ver <= runs'[r].ver
          BY <4>1, <4>2, <2>2, <1>6, <1>7 DEF CheckpointAudit
        <4>4. requests'[r][checkpoints[r][g].request] = requests[r][checkpoints[r][g].request]
          BY <4>1, <2>4, <2>5 DEF CheckpointAudit
        <4> QED
          BY <4>1, <4>3, <4>4, <2>4, <2>5, <2>6, <1>6 DEF CheckpointAudit
      <3>2. ASSUME NEW i \in 1..n, requests'[r][i].kind = "pause",
                   requests'[r][i].disp = "acknowledged"
            PROVE  /\ requests'[r][i].gen \in DOMAIN checkpoints[r]
                   /\ checkpoints[r][requests'[r][i].gen].request = i
        BY <3>2, <2>1, <2>4, <2>10 DEF CheckpointFits
      <3> QED
        BY <3>1, <3>2, <2>1, <2>5, <2>6 DEF CheckpointFits
    <2>14. ASSUME NEW k \in 1..n, NEW m, NoneAnswered(r, m, k)
           PROVE  NoneAnswered(r, m, k)'
      BY <2>14, <2>4, <2>5, <2>10 DEF NoneAnswered
    <2>15. ASSUME NEW k \in 1..n, Resumed(r, k)
           PROVE  Resumed(r, k)'
      <3>1. PICK m \in 0..(k - 1) :
              /\ NoneAnswered(r, m, k)
              /\ m # 0 => requests[r][m].disp = "acknowledged" /\ requests[r][m].kind = "resume"
        BY <2>15 DEF Resumed
      <3>2. m # 0 => m \in 1..n
        BY <3>1, <2>4
      <3>3. /\ NoneAnswered(r, m, k)'
            /\ m # 0 => requests'[r][m].disp = "acknowledged" /\ requests'[r][m].kind = "resume"
        BY <3>1, <3>2, <2>5, <2>14
      <3> QED
        BY <3>3 DEF Resumed
    <2>16. HistoryFits(r)'
      <3>1. ASSUME NEW k \in 1..n, requests'[r][k].kind = "resume"
            PROVE  /\ requests'[r][k].gen \in DOMAIN checkpoints[r]
                   /\ checkpoints[r][requests'[r][k].gen].request < k
                   /\ \A h \in DOMAIN checkpoints[r] :
                        requests'[r][k].gen < h => k < checkpoints[r][h].request
                   /\ \A m : m = checkpoints[r][requests'[r][k].gen].request =>
                        NoneAnswered(r, m, k)'
        <4>1. requests[r][k].kind = "resume" /\ requests'[r][k].gen = requests[r][k].gen
          BY <3>1, <2>5
        <4> QED
          BY <4>1, <2>1, <2>4, <2>14 DEF HistoryFits
      <3>2. ASSUME NEW k \in 1..n, requests'[r][k].kind = "pause",
                   requests'[r][k].disp = "acknowledged"
            PROVE  Resumed(r, k)'
        <4>1. requests'[r][k] = requests[r][k]
          BY <3>2, <2>10
        <4> QED
          BY <4>1, <3>2, <2>1, <2>4, <2>15 DEF HistoryFits
      <3> QED
        BY <3>1, <3>2, <2>5, <2>6 DEF HistoryFits, NoneAnswered
    <2>17. PausedFits(r)' /\ NowFits(r)'
      BY <2>8 DEF PausedFits, NowFits
    <2> QED
      BY <2>11, <2>12, <2>13, <2>16, <2>17 DEF Here
  <1>13. ClientFits'
    <2>1. client'.run = 0
      BY <1>1 DEF Closed
    <2>2. \A r \in Ids : ~Live(runs'[r].state)
      BY <1>6
    <2> QED
      BY <2>1, <2>2 DEF ClientFits
  <1>14. ScopeFits'
    <2>1. ASSUME NEW j \in Ids, Busy(j)'
          PROVE  Busy(j)
      <3>1. CASE Live(jobs[j].state)
        BY <3>1 DEF Busy
      <3>2. CASE ~Live(jobs[j].state)
        <4>1. JobFits(j) /\ jobs'[j] = jobs[j] /\ jobs[j].state = "failed"
          BY <2>1, <3>2, <1>7, Rows DEF Busy
        <4>2. jobs[j].run \in Ids /\ ~Live(runs[jobs[j].run].state)
          BY <4>1, <3>2 DEF JobFits, Live, JobFor
        <4> QED
          BY <2>1, <4>1, <4>2, <1>6 DEF Busy, Live
      <3> QED
        BY <3>1, <3>2
    <2>2. ASSUME NEW i \in Ids, NEW j \in Ids, Busy(i)', Busy(j)',
                 jobs'[i].scope = jobs'[j].scope, jobs'[i].scope \in Recoverable
          PROVE  i = j
      <3>1. Busy(i) /\ Busy(j)
        BY <2>1, <2>2
      <3> QED
        BY <3>1, <2>2, <1>7, Rows DEF ScopeFits
    <2> QED
      BY <2>2 DEF ScopeFits
  <1> QED
    BY <1>5, <1>8, <1>9, <1>10, <1>11, <1>12, <1>13, <1>14 DEF Inv, Here

\* The recovery target of a scope is its one candidate, and there is none only
\* when there is no candidate: never because the selection is ambiguous
\* (select_fresh_attempt_recovery).
LEMMA Selecting ==
  ASSUME Inv, NEW s \in Scopes
  PROVE  \/ RecoveryTarget(s) \in Candidates(s)
         \/ RecoveryTarget(s) = 0 /\ Candidates(s) = {}
  <1>1. ASSUME NEW j \in Candidates(s), NEW k \in Candidates(s)
        PROVE  j = k
    <2>1. /\ j \in Ids /\ k \in Ids /\ Busy(j) /\ Busy(k) /\ s \in Recoverable
          /\ jobs[j].scope = s /\ jobs[k].scope = s
      BY <1>1 DEF Candidates, Reusable, Busy
    <2> QED
      BY <2>1 DEF Inv, ScopeFits
  <1>2. CASE Candidates(s) = {}
    <2>1. Cardinality(Candidates(s)) # 1
      BY <1>2, FS_EmptySet
    <2> QED
      BY <1>2, <2>1 DEF RecoveryTarget
  <1>3. CASE Candidates(s) # {}
    <2>1. PICK j : j \in Candidates(s)
      BY <1>3
    <2>2. Candidates(s) = {j}
      BY <1>1, <2>1
    <2>3. Cardinality(Candidates(s)) = 1
      BY <2>2, FS_Singleton
    <2> QED
      BY <2>1, <2>3 DEF RecoveryTarget
  <1> QED
    BY <1>2, <1>3

\* A new attempt is a run of a new job, or a child of the last run of the job
\* that is recovered, and no other row changes.
LEMMA Starting ==
  ASSUME Inv, NEW s \in Scopes, NEW r \in Ids, Start(s, r)
  PROVE  \E id \in Ids, p \in 0..MaxRuns :
           /\ \/ id = r /\ p = 0 /\ Candidates(s) = {}
              \/ /\ id \in Candidates(s) /\ p = jobs[id].run
                 /\ jobs'[id].ver = jobs[id].ver + 1
           /\ runs' \in [Ids -> RunRow]
           /\ runs'[r].state = "running" /\ runs'[r].job = id /\ runs'[r].parent = p
           /\ \A q \in Ids : q # r => runs'[q] = runs[q]
           /\ jobs' \in [Ids -> JobRow]
           /\ jobs'[id].state = "running" /\ jobs'[id].run = r /\ jobs'[id].scope = s
           /\ \A j \in Ids : j # id => jobs'[j] = jobs[j]
           /\ client' \in Known /\ client'.run = r
  <1>1. PICK old : old = RecoveryTarget(s)
    OBVIOUS
  <1>2. PICK id : id = IF old = 0 THEN r ELSE old
    OBVIOUS
  <1>3. PICK job : job = IF old = 0 THEN NewJob(s) ELSE jobs[old]
    OBVIOUS
  <1>4. /\ AttemptAdmitted(job, s)
        /\ runs' = [runs EXCEPT ![r] = Running(NewRun(id, job))]
        /\ jobs' = [jobs EXCEPT ![id] = Running([job EXCEPT !.run = r])]
        /\ client' = [client EXCEPT !.run = r, !.job = job.ver + 1, !.ver = 1]
    BY <1>1, <1>2, <1>3 DEF Start
  <1>5. /\ runs \in [Ids -> RunRow] /\ jobs \in [Ids -> JobRow] /\ client \in Known
        /\ now \in Time /\ TypeOK
    BY DEF Inv, TypeOK
  <1>6. r \in 0..MaxRuns /\ r # 0 /\ 0 \in 0..MaxRuns
    BY Numbers
  <1>7. \/ old = 0 /\ id = r /\ job = NewJob(s) /\ Candidates(s) = {}
        \/ /\ old # 0 /\ id = old /\ old \in Candidates(s) /\ old \in Ids
           /\ job = jobs[old] /\ job \in JobRow /\ job.scope = s
    <2>1. \/ old \in Candidates(s)
          \/ old = 0 /\ Candidates(s) = {}
      BY <1>1, Selecting
    <2>2. old \in Candidates(s) => old \in Ids /\ old # 0 /\ jobs[old].scope = s
      BY Numbers DEF Candidates
    <2> QED
      BY <2>1, <2>2, <1>2, <1>3, <1>5
  <1>8. job.ver \in Nat /\ job.run \in 0..MaxRuns
    BY <1>6, <1>7 DEF NewJob, JobRow
  <1>9. PICK v : v = job.ver + 1
    OBVIOUS
  <1>10. v \in Nat
    BY <1>8, <1>9
  <1>11. PICK p : p = job.run
    OBVIOUS
  <1>12. id \in Ids
    BY <1>7
  <1>13. PICK row : row = [state |-> "queued", ver |-> 0, at |-> now, job |-> id,
                           parent |-> p, sealed |-> FALSE]
    OBVIOUS
  <1>14. Running([job EXCEPT !.run = r]) = [state |-> "running", ver |-> v, at |-> now,
                                            run |-> r, scope |-> s]
    <2>1. PICK new : new = [job EXCEPT !.run = r]
      OBVIOUS
    <2>2. new.ver = job.ver
      BY <2>1, <1>7 DEF NewJob, JobRow
    <2>3. Running(new) = [new EXCEPT !.state = "running", !.ver = v, !.at = now]
      BY <2>2, <1>9 DEF Running
    <2>4. CASE job = NewJob(s)
      BY <2>1, <2>3, <2>4 DEF NewJob
    <2>5. CASE job \in JobRow /\ job.scope = s
      BY <2>1, <2>3, <2>5 DEF JobRow
    <2> QED
      BY <1>7, <2>4, <2>5
  <1>15. PICK x : x = Running(NewRun(id, job))
    OBVIOUS
  <1>16. PICK y : y = Running([job EXCEPT !.run = r])
    OBVIOUS
  <1>17. /\ x \in RunRow /\ x.state = "running" /\ x.job = id /\ x.parent = p
    <2>1. id \in 0..MaxRuns /\ p \in 0..MaxRuns /\ "running" \in States
      BY <1>8, <1>11, <1>12, Numbers DEF States
    <2>2. /\ row \in [state : {"queued"}, ver : {0}, at : Time, job : 0..MaxRuns,
                      parent : 0..MaxRuns, sealed : BOOLEAN]
          /\ row.job = id /\ row.parent = p
      BY <1>5, <1>13, <2>1
    <2>3. NewRun(id, job) = row
      BY <1>11, <1>13 DEF NewRun
    <2>4. Running(row) = [row EXCEPT !.state = "running", !.ver = 1, !.at = now]
      BY <1>13 DEF Running
    <2>5. x = [row EXCEPT !.state = "running", !.ver = 1, !.at = now]
      BY <1>15, <2>3, <2>4
    <2> QED
      BY <2>1, <2>2, <2>5, <1>5 DEF RunRow
  <1>18. /\ y \in JobRow /\ y.state = "running" /\ y.run = r /\ y.scope = s /\ y.ver = v
    <2>1. y = [state |-> "running", ver |-> v, at |-> now, run |-> r, scope |-> s]
      BY <1>14, <1>16
    <2>2. "running" \in JobStates
      BY DEF JobStates, States
    <2> QED
      BY <2>1, <2>2, <1>5, <1>6, <1>10 DEF JobRow
  <1>19. /\ runs' \in [Ids -> RunRow] /\ runs'[r] = x
         /\ \A q \in Ids : q # r => runs'[q] = runs[q]
    BY <1>4, <1>5, <1>15, <1>17
  <1>20. /\ jobs' \in [Ids -> JobRow] /\ jobs'[id] = y
         /\ \A j \in Ids : j # id => jobs'[j] = jobs[j]
    BY <1>4, <1>5, <1>12, <1>16, <1>18
  <1>21. client' \in Known /\ client'.run = r
    <2>1. client' = [client EXCEPT !.run = r, !.job = v, !.ver = 1]
      BY <1>4, <1>9
    <2> QED
      BY <2>1, <1>5, <1>6, <1>10 DEF Known
  <1>22. \/ id = r /\ p = 0 /\ Candidates(s) = {}
         \/ /\ id \in Candidates(s) /\ p = jobs[id].run
            /\ jobs'[id].ver = jobs[id].ver + 1
    <2>1. CASE old = 0
      BY <2>1, <1>7, <1>11 DEF NewJob
    <2>2. CASE old # 0
      BY <2>2, <1>7, <1>9, <1>11, <1>18, <1>20
    <2> QED
      BY <2>1, <2>2
  <1>23. p \in 0..MaxRuns
    BY <1>8, <1>11
  <1> QED
    BY <1>12, <1>17, <1>18, <1>19, <1>20, <1>21, <1>22, <1>23

\* Starting an attempt keeps the invariant: the new run is the last one of its
\* job, its parent was the last one before, and its scope had no other job that
\* runs or could be recovered.
LEMMA StartStep ==
  ASSUME Inv, NEW s \in Scopes, NEW r \in Ids, Start(s, r)
  PROVE  Inv'
  <1>1. PICK id \in Ids, p \in 0..MaxRuns :
           /\ \/ id = r /\ p = 0 /\ Candidates(s) = {}
              \/ /\ id \in Candidates(s) /\ p = jobs[id].run
                 /\ jobs'[id].ver = jobs[id].ver + 1
           /\ runs' \in [Ids -> RunRow]
           /\ runs'[r].state = "running" /\ runs'[r].job = id /\ runs'[r].parent = p
           /\ \A q \in Ids : q # r => runs'[q] = runs[q]
           /\ jobs' \in [Ids -> JobRow]
           /\ jobs'[id].state = "running" /\ jobs'[id].run = r /\ jobs'[id].scope = s
           /\ \A j \in Ids : j # id => jobs'[j] = jobs[j]
           /\ client' \in Known /\ client'.run = r
    BY Starting
  <1>2. /\ client.open /\ client.run = 0 /\ ~Used(r) /\ \A q \in 1..(r - 1) : Used(q)
        /\ UNCHANGED <<now, leases, requests, checkpoints, faults>>
    BY DEF Start, Unused, Used
  <1>3. TypeOK'
    BY <1>1, <1>2 DEF Inv, TypeOK
  <1>4. ASSUME NEW q \in Ids
        PROVE  ~Live(runs[q].state)
    BY <1>2, Numbers DEF Inv, ClientFits
  <1>5. /\ runs[r].job = 0 /\ runs[r].parent = 0 /\ jobs[r].state = "none"
        /\ leases[r].state = "none" /\ requests[r] = << >> /\ checkpoints[r] = << >>
        /\ leases[r].why = "none"
    BY <1>2, Rows DEF RunFits, Here, LeaseFits
  <1>6. ASSUME NEW q \in Ids, Used(q)
        PROVE  q < r /\ q # r /\ q \in Nat /\ runs'[q] = runs[q] /\ runs[q].job # r
    <2>1. q # r
      BY <1>2, <1>6
    <2>2. ~(r < q)
      BY <1>2, <1>6, Rows, Numbers DEF RunFits
    <2>3. runs[q].job # r
      BY <1>5, <1>6, Bound
    <2> QED
      BY <2>1, <2>2, <2>3, <1>1, Numbers
  <1>7. id \in Candidates(s) =>
          /\ id # r /\ jobs[id].state = "failed" /\ jobs[id].scope = s /\ s \in Recoverable
          /\ p \in Ids /\ Used(p) /\ runs[p].state = "interrupted" /\ runs[p].job = id
          /\ p < r /\ p = jobs[id].run /\ id \in 1..p
          /\ jobs'[id].ver = jobs[id].ver + 1
    <2> SUFFICES ASSUME id \in Candidates(s)
                 PROVE  /\ id # r /\ jobs[id].state = "failed" /\ jobs[id].scope = s
                        /\ s \in Recoverable
                        /\ p \in Ids /\ Used(p) /\ runs[p].state = "interrupted"
                        /\ runs[p].job = id
                        /\ p < r /\ p = jobs[id].run /\ id \in 1..p
                        /\ jobs'[id].ver = jobs[id].ver + 1
      OBVIOUS
    <2>1. /\ jobs[id].state = "failed" /\ jobs[id].scope = s /\ s \in Recoverable
          /\ runs[jobs[id].run].state = "interrupted"
      BY DEF Candidates, Reusable
    <2>2. id # r /\ p = jobs[id].run /\ jobs'[id].ver = jobs[id].ver + 1
      <3>1. id # r
        BY <2>1, <1>5
      <3> QED
        BY <3>1, <1>1
    <2>3. p \in Ids /\ runs[p].job = id
      BY <2>1, <2>2, Rows DEF JobFits
    <2>4. Used(p)
      BY <2>1, <2>2 DEF Used
    <2> QED
      BY <2>1, <2>2, <2>3, <2>4, <1>6, Bound
  <1>8. ASSUME NEW q \in Ids, Used(q), runs[q].job = id
        PROVE  id \in Candidates(s)
    BY <1>1, <1>6, <1>8
  <1>9. ASSUME NEW q \in Ids
        PROVE  RunFits(q)'
    <2>1. \A m \in Ids : \A n \in 1..(m - 1) : n \in Ids
      BY Numbers
    <2>2. CASE q = r
      <3>1. id \in 1..r
        <4>1. r \in 1..r
          BY Numbers
        <4> QED
          BY <4>1, <1>1, <1>7, Numbers
      <3>2. \A n \in 1..(r - 1) : runs'[n].state # "none"
        BY <2>1, <1>1, <1>2 DEF Used
      <3>3. r <= r
        BY Numbers
      <3> QED
        BY <2>2, <3>1, <3>2, <3>3, <1>1 DEF RunFits, Used
    <2>3. CASE q # r /\ Used(q)
      <3>1. /\ runs[q].job \in 1..q /\ jobs[runs[q].job].state # "none"
            /\ q <= jobs[runs[q].job].run
            /\ (jobs[runs[q].job].run # q => runs[q].state = "interrupted")
            /\ \A n \in 1..(q - 1) : Used(n)
        BY <2>3, Rows DEF RunFits
      <3>2. \A n \in 1..(q - 1) : runs'[n].state # "none"
        BY <2>1, <3>1, <1>6 DEF Used
      <3>3. CASE runs[q].job = id
        <4>1. runs'[q] = runs[q] /\ q < r /\ q \in Nat /\ r \in Nat
          BY <2>3, <1>6, Numbers
        <4>2. /\ id \in Candidates(s) /\ p = jobs[id].run /\ runs[p].state = "interrupted"
          BY <2>3, <3>3, <1>7, <1>8
        <4>3. runs[q].state = "interrupted"
          BY <3>1, <3>3, <4>2
        <4> QED
          BY <2>3, <3>1, <3>2, <3>3, <4>1, <4>3, <1>1 DEF RunFits, Used
      <3>4. CASE runs[q].job # id
        <4>1. runs[q].job \in Ids
          BY <2>3, Bound
        <4> QED
          BY <2>3, <3>1, <3>2, <3>4, <4>1, <1>1, <1>6 DEF RunFits, Used
      <3> QED
        BY <3>3, <3>4
    <2>4. CASE q # r /\ ~Used(q)
      <3>1. runs[q].job = 0 /\ runs[q].parent = 0 /\ jobs[q].state = "none"
            /\ leases[q].state = "none"
        BY <2>4, Rows DEF RunFits
      <3>2. q # id
        BY <2>4, <3>1, <1>1, <1>7
      <3> QED
        BY <2>4, <3>1, <3>2, <1>1, <1>2 DEF RunFits, Used
    <2> QED
      BY <2>2, <2>3, <2>4
  <1>10. ASSUME NEW j \in Ids
         PROVE  JobFits(j)'
    <2>1. CASE j = id
      BY <2>1, <1>1 DEF JobFits, JobFor
    <2>2. CASE j # id
      <3>1. JobFits(j) /\ jobs'[j] = jobs[j]
        BY <2>2, <1>1, Rows
      <3>2. jobs[j].state # "none" => jobs[j].run # r
        BY <3>1, <1>5, Numbers DEF JobFits
      <3> QED
        BY <3>1, <3>2, <1>1 DEF JobFits
    <2> QED
      BY <2>1, <2>2
  <1>11. ASSUME NEW q \in Ids
         PROVE  ParentFits(q)'
    <2>1. \A m \in Ids : \A n \in 1..(m - 1) : n \in Ids
      BY Numbers
    <2>2. CASE q = r
      <3>1. CASE id \in Candidates(s)
        <4>1. p \in 1..(r - 1) /\ p # 0
          BY <3>1, <1>7, Numbers
        <4>2. ASSUME NEW n \in 1..(r - 1), runs'[n].job = id
              PROVE  n <= p
          <5>1. n \in Ids /\ Used(n) /\ runs[n].job = id
            BY <4>2, <2>1, <1>1, <1>2, <1>6
          <5> QED
            BY <5>1, <3>1, <1>7, Bound
        <4>3. runs'[p] = runs[p]
          BY <3>1, <1>6, <1>7
        <4> QED
          BY <2>2, <3>1, <4>1, <4>2, <4>3, <1>1, <1>7 DEF ParentFits
      <3>2. CASE id \notin Candidates(s)
        <4>1. ASSUME NEW n \in 1..(r - 1)
              PROVE  runs'[n].job # id
          BY <3>2, <2>1, <1>1, <1>2, <1>6
        <4> QED
          BY <2>2, <3>2, <4>1, <1>1 DEF ParentFits
      <3> QED
        BY <3>1, <3>2
    <2>3. CASE q # r /\ Used(q)
      <3>1. ParentFits(q) /\ runs'[q] = runs[q] /\ q < r
        BY <2>3, <1>6, Rows
      <3>2. ASSUME NEW n \in 1..(q - 1)
            PROVE  runs'[n] = runs[n]
        BY <2>1, <3>1, <1>1, <1>6, Numbers
      <3>3. jobs'[runs[q].job].scope = jobs[runs[q].job].scope
        BY <2>3, <1>1, <1>7, <1>8, Bound
      <3>4. ASSUME jobs'[runs[q].job].run # q
            PROVE  \E c \in Ids : runs'[c].parent = q /\ runs'[c].job = runs[q].job
        <4>1. CASE jobs[runs[q].job].run = q
          <5>1. runs[q].job = id
            BY <2>3, <3>4, <4>1, <1>1, Bound
          <5>2. p = q
            BY <2>3, <4>1, <5>1, <1>7, <1>8
          <5> QED
            BY <5>1, <5>2, <1>1
        <4>2. CASE jobs[runs[q].job].run # q
          <5>1. PICK c \in Ids : runs[c].parent = q /\ runs[c].job = runs[q].job
            BY <2>3, <3>1, <4>2 DEF ParentFits
          <5>2. c # r
            BY <5>1, <1>5, Numbers
          <5> QED
            BY <5>1, <5>2, <1>1
        <4> QED
          BY <4>1, <4>2
      <3> QED
        BY <2>3, <3>1, <3>2, <3>3, <3>4 DEF ParentFits, Used
    <2>4. CASE q # r /\ ~Used(q)
      BY <2>4, <1>1 DEF ParentFits, Used
    <2> QED
      BY <2>2, <2>3, <2>4
  <1>12. ASSUME NEW q \in Ids
         PROVE  Here(q)'
    <2>1. CASE q = r
      <3>1. DOMAIN requests[r] = {} /\ DOMAIN checkpoints[r] = {} /\ Len(requests[r]) = 0
        BY <1>5
      <3>2. /\ leases'[r] = leases[r] /\ requests'[r] = requests[r]
            /\ checkpoints'[r] = checkpoints[r]
        BY <1>2
      <3>3. LeaseFits(r)'
        BY <3>2, <1>1, <1>5 DEF LeaseFits
      <3>4. RequestFits(r)' /\ CheckpointFits(r)' /\ HistoryFits(r)'
        BY <3>1, <3>2 DEF RequestFits, CheckpointFits, HistoryFits
      <3>5. PausedFits(r)' /\ NowFits(r)'
        <4>1. NoneAnswered(r, 0, 1)' /\ Len(requests'[r]) + 1 = 1
          BY <3>1, <3>2 DEF NoneAnswered
        <4>2. 0 \in 0..(1 - 1)
          OBVIOUS
        <4>3. Resumed(r, Len(requests[r]) + 1)'
          BY <3>1, <3>2, <4>1, <4>2 DEF Resumed, NoneAnswered
        <4> QED
          BY <4>3, <1>1 DEF PausedFits, NowFits
      <3> QED
        BY <2>1, <3>3, <3>4, <3>5 DEF Here
    <2>2. CASE q # r
      <3>1. Kept(q)
        BY <2>2, <1>1, <1>2 DEF Kept
      <3>2. ASSUME Used(q)
            PROVE  /\ jobs[runs[q].job].ver <= jobs'[runs[q].job].ver
                   /\ jobs'[runs[q].job].ver \in Nat
        <4>1. runs[q].job \in Ids
          BY <3>2, Bound
        <4>2. CASE runs[q].job = id
          BY <4>2, <3>2, <1>7, <1>8, JobVersions
        <4>3. CASE runs[q].job # id
          BY <4>1, <4>3, <1>1, JobVersions
        <4> QED
          BY <4>2, <4>3
      <3> QED
        BY <3>1, <3>2, <1>4, KeptStep
    <2> QED
      BY <2>1, <2>2
  <1>13. ClientFits'
    <2>1. Used(r)' /\ BoundActive(r)'
      BY <1>1 DEF Used, BoundActive
    <2>2. ASSUME NEW q \in Ids, Live(runs'[q].state)
          PROVE  q = r
      BY <2>2, <1>1, <1>4
    <2> QED
      BY <2>1, <2>2, <1>1 DEF ClientFits, Used, BoundActive
  <1>14. ScopeFits'
    <2>1. ASSUME NEW j \in Ids, Busy(j)', j # id
          PROVE  /\ Busy(j) /\ jobs'[j] = jobs[j]
                 /\ jobs[j].scope \in Recoverable => j \in Candidates(jobs[j].scope)
      <3>1. jobs'[j] = jobs[j] /\ JobFits(j)
        BY <2>1, <1>1, Rows
      <3>2. /\ jobs[j].state # "none" => /\ jobs[j].run # r /\ jobs[j].run \in Ids
                                         /\ jobs[j].state = JobFor(runs[jobs[j].run].state)
        BY <3>1, <1>5, Numbers DEF JobFits
      <3>3. jobs[j].state # "none" /\ ~Live(jobs[j].state)
        BY <2>1, <3>1, <3>2, <1>4 DEF Busy, Live, JobFor
      <3>4. jobs[j].state = "failed" /\ runs[jobs[j].run].state = "interrupted"
        BY <2>1, <3>1, <3>2, <3>3, <1>1 DEF Busy
      <3>5. leases[jobs[j].run].state # "active"
        BY <3>2, <3>3, <3>4, Rows DEF Here, LeaseFits, Live
      <3> QED
        BY <3>1, <3>4, <3>5 DEF Busy, Candidates, Reusable
    <2>2. ASSUME NEW j \in Ids, Busy(j)', jobs'[j].scope = s, s \in Recoverable
          PROVE  j = id
      <3> SUFFICES ASSUME j # id PROVE FALSE
        OBVIOUS
      <3>1. j \in Candidates(s) /\ Busy(j) /\ jobs[j].scope = s
        BY <2>1, <2>2
      <3>2. id \in Candidates(s)
        BY <3>1, <1>1
      <3>3. Busy(id) /\ jobs[id].scope = s
        BY <3>2, <1>7 DEF Busy
      <3> QED
        BY <3>1, <3>3, <2>2 DEF Inv, ScopeFits
    <2>3. ASSUME NEW i \in Ids, NEW j \in Ids, Busy(i)', Busy(j)',
                 jobs'[i].scope = jobs'[j].scope, jobs'[i].scope \in Recoverable
          PROVE  i = j
      <3>1. CASE i = id \/ j = id
        BY <3>1, <2>2, <2>3, <1>1
      <3>2. CASE i # id /\ j # id
        BY <3>2, <2>1, <2>3 DEF Inv, ScopeFits
      <3> QED
        BY <3>1, <3>2
    <2> QED
      BY <2>3 DEF ScopeFits
  <1> QED
    BY <1>3, <1>9, <1>10, <1>11, <1>12, <1>13, <1>14 DEF Inv, Here

\* An empty database satisfies the invariant.
LEMMA InitInv == Init => Inv
  <1> SUFFICES ASSUME Init PROVE Inv
    OBVIOUS
  <1>1. now = 0 /\ faults = 0 /\ client = Closed
    BY DEF Init
  <1>2. PICK s \in Scopes :
          jobs = [j \in Ids |-> [state |-> "none", ver |-> 0, at |-> 0, run |-> 0, scope |-> s]]
    BY ScopesKnown DEF Init
  <1>3. /\ runs = [r \in Ids |-> [state |-> "none", ver |-> 0, at |-> 0, job |-> 0,
                                  parent |-> 0, sealed |-> FALSE]]
        /\ leases = [r \in Ids |-> [state |-> "none", why |-> "none", beat |-> 0, count |-> 0]]
        /\ requests = [r \in Ids |-> << >>] /\ checkpoints = [r \in Ids |-> << >>]
    BY DEF Init
  <1>4. 0 \in 0..MaxRuns /\ 0 \in 0..MaxEvidence /\ 0 \in 0..MaxFaults /\ 0 \in Time
    BY Bounds DEF Time
  <1>5. TypeOK
    <2>1. jobs \in [Ids -> JobRow]
      BY <1>2, <1>4 DEF JobRow, JobStates, States
    <2>2. runs \in [Ids -> RunRow]
      BY <1>3, <1>4 DEF RunRow, States
    <2>3. leases \in [Ids -> LeaseRow]
      BY <1>3, <1>4 DEF LeaseRow, Reasons
    <2>4. requests \in [Ids -> Seq(RequestRow)] /\ checkpoints \in [Ids -> Seq(CheckpointRow)]
      BY <1>3
    <2>5. client \in Known
      BY <1>1, <1>4 DEF Closed, Known
    <2> QED
      BY <1>1, <1>4, <2>1, <2>2, <2>3, <2>4, <2>5 DEF TypeOK
  <1>6. ASSUME NEW r \in Ids
        PROVE  /\ runs[r].state = "none" /\ runs[r].job = 0 /\ runs[r].parent = 0
               /\ jobs[r].state = "none" /\ jobs[r].run = 0
               /\ leases[r].state = "none" /\ leases[r].why = "none"
               /\ requests[r] = << >> /\ checkpoints[r] = << >>
    BY <1>2, <1>3
  <1>7. ASSUME NEW r \in Ids
        PROVE  RunFits(r) /\ JobFits(r) /\ ParentFits(r) /\ LeaseFits(r)
    BY <1>6 DEF RunFits, JobFits, ParentFits, LeaseFits, Used
  <1>8. ASSUME NEW r \in Ids
        PROVE  /\ RequestFits(r) /\ CheckpointFits(r) /\ PausedFits(r) /\ HistoryFits(r)
               /\ NowFits(r)
    <2>1. DOMAIN requests[r] = {} /\ DOMAIN checkpoints[r] = {}
      BY <1>6
    <2> QED
      BY <2>1, <1>6 DEF RequestFits, CheckpointFits, PausedFits, HistoryFits, NowFits
  <1>9. ClientFits /\ ScopeFits
    BY <1>1, <1>6 DEF ClientFits, ScopeFits, Closed, Live, Busy
  <1> QED
    BY <1>5, <1>7, <1>8, <1>9 DEF Inv

\* What the process that owns the run does to the tables.
ClientStep(r) ==
  \/ BindLease(r) \/ Observe(r) \/ Seal(r)
  \/ \E kind \in Kinds : Request(r, kind)
  \/ AckPause(r) \/ AckResume(r) \/ AckCancel(r)
  \/ \E outcome \in Outcomes : End(r, outcome)
  \/ \E runState \in {"interrupted", "cancelled"} : EndUnleased(r, runState)

\* Every step of the process that owns a run works on that run alone and keeps
\* what is recorded of it.
LEMMA ClientStepWorks ==
  ASSUME Inv, NEW r \in Ids, ClientStep(r)
  PROVE  TypeOK' /\ Works(r) /\ Here(r)'
  BY BindLeaseStep, ObserveStep, SealStep, RequestStep, PauseStep, ResumeStep, CancelStep,
     EndStep, EndUnleasedStep DEF ClientStep

\* Every transaction, crash, open and clock change keeps the invariant.
LEMMA NextInv == Inv /\ [Next]_vars => Inv'
  <1> SUFFICES ASSUME Inv, [Next]_vars PROVE Inv'
    OBVIOUS
  <1>1. CASE Open
    BY <1>1, OpenStep
  <1>2. CASE Close \/ SetClock \/ UNCHANGED vars
    BY <1>2, QuietStep
  <1>3. ASSUME NEW s \in Scopes, NEW r \in Ids, Start(s, r)
        PROVE  Inv'
    BY <1>3, StartStep
  <1>4. ASSUME NEW r \in Ids, ClientStep(r)
        PROVE  Inv'
    BY <1>4, ClientStepWorks, WorkStep
  <1>5. ASSUME NEW r \in Ids, PauseAgain(r)
        PROVE  Inv'
    BY <1>5, QuietStep
  <1> QED
    BY <1>1, <1>2, <1>3, <1>4, <1>5 DEF Next, ClientStep

\* The invariant holds of every state the database can reach.
LEMMA InvHolds == Spec => []Inv
  BY InitInv, NextInv, PTL DEF Spec

\* Every column keeps its type: states stay within the CHECK constraints of the
\* version 8 and 9 tables, versions and times stay numbers.
THEOREM TypeCorrect == Spec => []TypeOK
  BY InvHolds, PTL DEF Inv

\* Once a cancel request is durable the run can end in no other way, whoever
\* acknowledges it, the client or the next open (CANCEL_DOMINATED and the
\* restart pass).
THEOREM CancelIsFinal == Spec => []CancelDominates
  <1>1. ASSUME Inv
        PROVE  CancelDominates
    <2> SUFFICES ASSUME NEW r \in Ids, NEW i \in DOMAIN requests[r],
                        requests[r][i].kind = "cancel"
                 PROVE  /\ runs[r].state \in {"running", "paused", "cancelled"}
                        /\ runs[r].state = "cancelled" <=> PendingOf(r, "cancel") = {}
                        /\ \A k \in DOMAIN requests[r] :
                             requests[r][k].kind # "cancel" => requests[r][k].disp # "pending"
      BY DEF CancelDominates
    <2>1. RequestFits(r) /\ LeaseFits(r)
      BY <1>1 DEF Inv
    <2>2. /\ i = Len(requests[r]) /\ requests[r][i].disp \in {"pending", "acknowledged"}
          /\ requests[r][i].disp = "acknowledged" => runs[r].state = "cancelled"
          /\ requests[r][i].disp = "pending" => leases[r].state = "active"
      BY <2>1 DEF RequestFits
    <2>3. \A k \in DOMAIN requests[r] : requests[r][k].disp = "pending" => k = i
      BY <2>1, <2>2 DEF RequestFits
    <2>4. requests[r][i].disp = "pending" => Live(runs[r].state)
      BY <2>1, <2>2 DEF LeaseFits
    <2>5. PendingOf(r, "cancel") = {} <=> requests[r][i].disp # "pending"
      BY <2>3 DEF PendingOf, Pending
    <2> QED
      BY <2>2, <2>3, <2>4, <2>5 DEF Live
  <1> QED
    BY <1>1, InvHolds, PTL

\* Checkpoints and acknowledged pauses are one to one and in order, a later
\* checkpoint never rewinds, and a paused run's last one says exactly how far
\* its evidence goes (acknowledge_pause and the checkpoint insert guard).
THEOREM PausesAreRecorded == Spec => []PausedAsRecorded
  <1>1. ASSUME Inv
        PROVE  PausedAsRecorded
    <2> SUFFICES
          ASSUME NEW r \in Ids
          PROVE  /\ {checkpoints[r][g].request : g \in DOMAIN checkpoints[r]} =
                      {i \in DOMAIN requests[r] : requests[r][i].kind = "pause"
                                                  /\ requests[r][i].disp = "acknowledged"}
                 /\ \A g \in DOMAIN checkpoints[r] :
                      /\ requests[r][checkpoints[r][g].request].gen = g
                      /\ checkpoints[r][g].cursor <= leases[r].count
                 /\ \A g, h \in DOMAIN checkpoints[r] : g < h =>
                      /\ checkpoints[r][g].request < checkpoints[r][h].request
                      /\ checkpoints[r][g].cursor <= checkpoints[r][h].cursor
                 /\ runs[r].state = "paused" =>
                      /\ Len(checkpoints[r]) > 0
                      /\ checkpoints[r][Len(checkpoints[r])].cursor = leases[r].count
                      /\ checkpoints[r][Len(checkpoints[r])].ver = runs[r].ver
                      /\ checkpoints[r][Len(checkpoints[r])].job = jobs[runs[r].job].ver
      BY DEF PausedAsRecorded
    <2>1. CheckpointFits(r) /\ PausedFits(r)
      BY <1>1 DEF Inv
    <2>2. \A g \in DOMAIN checkpoints[r] :
            /\ checkpoints[r][g].request \in DOMAIN requests[r]
            /\ requests[r][checkpoints[r][g].request].kind = "pause"
            /\ requests[r][checkpoints[r][g].request].disp = "acknowledged"
            /\ requests[r][checkpoints[r][g].request].gen = g
            /\ checkpoints[r][g].cursor <= leases[r].count
      BY <2>1 DEF CheckpointFits, CheckpointAudit
    <2>3. \A i \in DOMAIN requests[r] :
            requests[r][i].kind = "pause" /\ requests[r][i].disp = "acknowledged" =>
              \E g \in DOMAIN checkpoints[r] : checkpoints[r][g].request = i
      BY <2>1 DEF CheckpointFits
    <2> QED
      BY <2>1, <2>2, <2>3 DEF CheckpointFits, PausedFits
  <1> QED
    BY <1>1, InvHolds, PTL

\* A set whose members are all equal has one member at most.
LEMMA AtMostOne ==
  ASSUME NEW S, \A x, y \in S : x = y
  PROVE  Cardinality(S) <= 1
  <1>1. CASE S = {}
    BY <1>1, FS_EmptySet
  <1>2. CASE S # {}
    <2>1. PICK x : x \in S
      BY <1>2
    <2>2. S = {x}
      BY <2>1
    <2> QED
      BY <2>2, FS_Singleton
  <1> QED
    BY <1>1, <1>2

\* A recoverable scope has at most one job that runs or could be recovered, so
\* the selection of a recovery target is never ambiguous, and no run is the
\* parent of two (select_fresh_attempt_recovery).
THEOREM LineagesAreChains == Spec => []OneLineage
  <1>1. ASSUME Inv
        PROVE  OneLineage
    <2>1. ASSUME NEW s \in Recoverable
          PROVE  Cardinality(Candidates(s) \cup
                   {j \in Ids : Live(jobs[j].state) /\ jobs[j].scope = s}) <= 1
      <3> DEFINE S == Candidates(s) \cup
                        {j \in Ids : Live(jobs[j].state) /\ jobs[j].scope = s}
      <3>1. \A j \in S : j \in Ids /\ Busy(j) /\ jobs[j].scope = s
        BY DEF Candidates, Busy
      <3>2. \A j, k \in S : j = k
        BY <3>1, <1>1 DEF Inv, ScopeFits
      <3> HIDE DEF S
      <3>3. Cardinality(S) <= 1
        BY <3>2, AtMostOne
      <3> QED
        BY <3>3 DEF S
    <2>2. ASSUME NEW r \in Ids, NEW q \in Ids, q < r, runs[r].parent # 0,
                 runs[r].parent = runs[q].parent
          PROVE  FALSE
      <3>1. Used(r) /\ Used(q)
        BY <1>1, <2>2, Rows DEF RunFits
      <3>2. ParentFits(r) /\ ParentFits(q)
        BY <1>1 DEF Inv
      <3>3. /\ runs[r].parent \in 1..(q - 1) /\ runs[q].job = runs[runs[r].parent].job
            /\ runs[r].job = runs[runs[r].parent].job
        BY <2>2, <3>1, <3>2 DEF ParentFits
      <3>4. q \in 1..(r - 1) /\ q \in Nat
        BY <2>2, Numbers
      <3>5. q <= runs[r].parent
        BY <2>2, <3>1, <3>2, <3>3, <3>4 DEF ParentFits
      <3> QED
        BY <3>3, <3>4, <3>5
    <2>3. ASSUME NEW r \in Ids, NEW q \in Ids, r # q, runs[r].parent # 0
          PROVE  runs[r].parent # runs[q].parent
      <3>1. q < r \/ r < q
        BY <2>3, Numbers
      <3> QED
        BY <2>2, <2>3, <3>1
    <2> QED
      BY <2>1, <2>3 DEF OneLineage
  <1> QED
    BY <1>1, InvHolds, PTL

\* The audits of jobs, attempts, fresh children and leases accept the database
\* (validate_runtime_invariants).
LEMMA RowsPass ==
  ASSUME Inv, NEW r \in Ids
  PROVE  JobAudit(r) /\ AttemptAudit(r) /\ FreshAudit(r) /\ LeaseAudit(r)
  <1>1. JobAudit(r)
    <2> SUFFICES ASSUME jobs[r].state # "none"
                 PROVE  /\ jobs[r].run # 0 /\ runs[jobs[r].run].job = r
                        /\ <<jobs[r].state, runs[jobs[r].run].state>> \in Adjacent
      BY DEF JobAudit
    <2>1. /\ jobs[r].run \in Ids /\ runs[jobs[r].run].job = r
          /\ jobs[r].state = JobFor(runs[jobs[r].run].state)
      BY Rows DEF JobFits
    <2>2. runs[jobs[r].run].state \in States
      BY <2>1, RunRows DEF Inv
    <2>3. runs[jobs[r].run].state \in States \ {"none"}
      BY <2>1, <2>2 DEF JobFor
    <2>4. <<jobs[r].state, runs[jobs[r].run].state>> \in Adjacent
      BY <2>1, <2>3 DEF States, JobFor, Adjacent
    <2> QED
      BY <2>1, <2>4, Numbers
  <1>2. AttemptAudit(r) /\ FreshAudit(r)
    BY Rows DEF ParentFits, AttemptAudit, FreshAudit, Before, Reusable
  <1>3. LeaseAudit(r)
    <2>1. LeaseFits(r)
      BY DEF Inv
    <2>2. leases[r].state = "active" => jobs[runs[r].job].state = runs[r].state
      BY <2>1, Bound DEF LeaseFits, Live, JobFor
    <2> QED
      BY <2>1, <2>2 DEF LeaseFits, LeaseAudit, BoundActive
  <1> QED
    BY <1>1, <1>2, <1>3

\* The audits of each control request and of their sequence accept the
\* database: every disposition has its evidence, and one request is pending at
\* most.
LEMMA RequestsPass ==
  ASSUME Inv, NEW r \in Ids
  PROVE  /\ \A i \in DOMAIN requests[r] : RequestAudit(r, i)
         /\ SequenceAudit(r)
  <1>1. /\ TypeOK /\ LeaseFits(r) /\ RequestFits(r) /\ CheckpointFits(r) /\ HistoryFits(r)
    BY DEF Inv
  <1>2. /\ DOMAIN requests[r] = 1..Len(requests[r]) /\ Len(requests[r]) \in Nat
        /\ DOMAIN checkpoints[r] = 1..Len(checkpoints[r])
    BY <1>1, RequestRows, CheckpointRows
  <1>3. ASSUME NEW i \in DOMAIN requests[r]
        PROVE  RequestAudit(r, i)
    <2>1. leases[r].state # "none"
      BY <1>1, <1>3 DEF LeaseFits
    <2>2. requests[r][i].kind = "resume" =>
            requests[r][i].gen # 0 /\ requests[r][i].gen \in DOMAIN checkpoints[r]
      BY <1>1, <1>2, <1>3 DEF HistoryFits
    <2>3. requests[r][i].disp = "pending" => PendingAudit(r, requests[r][i])
      BY <1>1, <1>3, <2>2 DEF RequestFits, PendingAudit
    <2>4. \A g \in DOMAIN checkpoints[r] : CheckpointAudit(r, g)
      BY <1>1 DEF CheckpointFits
    <2>5. requests[r][i].disp = "acknowledged" /\ requests[r][i].kind = "pause" =>
            \E g \in CheckpointOf(r, i) :
              /\ requests[r][i].gen = g
              /\ checkpoints[r][g].job = requests[r][i].job + 1
              /\ checkpoints[r][g].ver = requests[r][i].ver + 1
      BY <1>1, <1>3, <2>4 DEF CheckpointFits, CheckpointAudit, CheckpointOf
    <2>6. requests[r][i].kind # "pause" \/ requests[r][i].disp # "acknowledged" =>
            CheckpointOf(r, i) = {}
      BY <2>4 DEF CheckpointAudit, CheckpointOf
    <2>7. requests[r][i].disp = "superseded" =>
            \E k \in (i + 1)..Len(requests[r]) : requests[r][k].kind = "cancel"
      <3> SUFFICES ASSUME requests[r][i].disp = "superseded"
                   PROVE  \E k \in (i + 1)..Len(requests[r]) : requests[r][k].kind = "cancel"
        OBVIOUS
      <3>1. i < Len(requests[r]) /\ requests[r][Len(requests[r])].kind = "cancel"
        BY <1>1, <1>3 DEF RequestFits
      <3>2. Len(requests[r]) \in (i + 1)..Len(requests[r])
        BY <1>2, <1>3, <3>1
      <3> QED
        BY <3>1, <3>2
    <2>8. requests[r][i].disp = "interrupted" =>
            /\ requests[r][i].kind # "cancel"
            /\ leases[r].state = "released" /\ leases[r].why = "process_restart"
      BY <1>1, <1>3 DEF RequestFits
    <2> QED
      BY <2>1, <2>2, <2>3, <2>5, <2>6, <2>7, <2>8 DEF RequestAudit
  <1>4. SequenceAudit(r)
    <2>1. \A i, k \in Pending(r) : i = k
      BY <1>1 DEF RequestFits, Pending
    <2>2. Cardinality(Pending(r)) <= 1
      BY <2>1, AtMostOne
    <2>3. ASSUME NEW i \in DOMAIN requests[r], NEW k \in DOMAIN requests[r],
                 requests[r][i].kind = "cancel"
          PROVE  k <= i /\ (k \in Pending(r) => requests[r][k].kind = "cancel")
      <3>1. i = Len(requests[r])
        BY <1>1, <2>3 DEF RequestFits
      <3>2. k \in Pending(r) => k = Len(requests[r])
        BY <1>1 DEF RequestFits, Pending
      <3> QED
        BY <1>2, <2>3, <3>1, <3>2
    <2> QED
      BY <2>2, <2>3 DEF SequenceAudit
  <1> QED
    BY <1>3, <1>4

\* A request that was acknowledged, and after which none was, is the last
\* answered one.
LEMMA LastIs ==
  ASSUME Inv, NEW r \in Ids, NEW n \in 1..(Len(requests[r]) + 1), NEW m \in 0..(n - 1),
         NoneAnswered(r, m, n),
         m # 0 => requests[r][m].disp = "acknowledged"
  PROVE  LastBefore(r, n) = m
  <1>1. Len(requests[r]) \in Nat /\ DOMAIN requests[r] = 1..Len(requests[r])
    BY RequestRows DEF Inv
  <1>2. PICK A : A = AnsweredBefore(r, n)
    OBVIOUS
  <1>3. \A i : i \in A <=> i \in 1..(n - 1) /\ requests[r][i].disp = "acknowledged"
    BY <1>2 DEF AnsweredBefore
  <1>4. \A i \in A : i <= m /\ i \in Nat
    <2> SUFFICES ASSUME NEW i \in A
                 PROVE  i <= m /\ i \in Nat
      OBVIOUS
    <2>1. i \in 1..(n - 1) /\ i \in DOMAIN requests[r] /\ requests[r][i].disp = "acknowledged"
      BY <1>1, <1>3
    <2>2. ~(m < i /\ i < n)
      BY <2>1 DEF NoneAnswered
    <2> QED
      BY <1>1, <2>1, <2>2
  <1>5. CASE m = 0
    <2>1. A = {}
      BY <1>1, <1>3, <1>4, <1>5
    <2> QED
      BY <1>2, <1>5, <2>1 DEF LastBefore
  <1>6. CASE m # 0
    <2>1. m \in A
      BY <1>1, <1>3, <1>6
    <2>2. \A i \in A : (\A k \in A : k <= i) => i = m
      BY <1>1, <1>4, <2>1
    <2>3. (CHOOSE i \in A : \A k \in A : k <= i) = m
      BY <1>4, <2>1, <2>2
    <2> QED
      BY <1>2, <2>1, <2>3 DEF LastBefore
  <1> QED
    BY <1>5, <1>6

\* The pauses acknowledged before a request are as many as the checkpoints
\* bound to earlier requests: the checkpoints number them.
LEMMA PausesAre ==
  ASSUME Inv, NEW r \in Ids, NEW n \in 1..(Len(requests[r]) + 1),
         NEW k \in 0..Len(checkpoints[r]),
         \A g \in DOMAIN checkpoints[r] : g <= k <=> checkpoints[r][g].request < n
  PROVE  Cardinality(PausesBefore(r, n)) = k
  <1>1. /\ Len(requests[r]) \in Nat /\ DOMAIN requests[r] = 1..Len(requests[r])
        /\ Len(checkpoints[r]) \in Nat /\ DOMAIN checkpoints[r] = 1..Len(checkpoints[r])
        /\ CheckpointFits(r)
    BY RequestRows, CheckpointRows DEF Inv
  <1> DEFINE f == [g \in 1..k |-> checkpoints[r][g].request]
             P == PausesBefore(r, n)
  <1>2. \A i : i \in P <=> /\ i \in 1..(n - 1) /\ requests[r][i].disp = "acknowledged"
                           /\ requests[r][i].kind = "pause"
    BY DEF PausesBefore, AnsweredBefore
  <1>3. ASSUME NEW g \in 1..k
        PROVE  f[g] \in P /\ f[g] = checkpoints[r][g].request /\ g \in DOMAIN checkpoints[r]
    <2>1. g \in DOMAIN checkpoints[r] /\ g <= k
      BY <1>1
    <2>2. CheckpointAudit(r, g) /\ checkpoints[r][g].request < n
      BY <1>1, <2>1 DEF CheckpointFits
    <2> QED
      BY <1>1, <1>2, <2>1, <2>2 DEF CheckpointAudit
  <1>4. ASSUME NEW g \in 1..k, NEW h \in 1..k, g # h
        PROVE  f[g] # f[h]
    <2>1. g < h \/ h < g
      BY <1>4
    <2>2. PICK a, b : a = f[g] /\ b = f[h]
      OBVIOUS
    <2>3. a \in Nat /\ b \in Nat
      BY <1>2, <1>3, <2>2
    <2>5. /\ g \in DOMAIN checkpoints[r] /\ a = checkpoints[r][g].request
          /\ h \in DOMAIN checkpoints[r] /\ b = checkpoints[r][h].request
      BY <1>3, <2>2
    <2>6. (g < h => a < b) /\ (h < g => b < a)
      BY <1>1, <2>5 DEF CheckpointFits
    <2>4. a # b
      BY <2>1, <2>3, <2>6
    <2> QED
      BY <2>2, <2>4
  <1>5. ASSUME NEW i \in P
        PROVE  \E g \in 1..k : f[g] = i
    <2>1. i \in DOMAIN requests[r] /\ i < n
      BY <1>1, <1>2
    <2>2. /\ requests[r][i].gen \in DOMAIN checkpoints[r]
          /\ checkpoints[r][requests[r][i].gen].request = i
      BY <1>1, <1>2, <2>1 DEF CheckpointFits
    <2>3. requests[r][i].gen \in 1..k
      BY <1>1, <2>1, <2>2
    <2> QED
      BY <2>2, <2>3
  <1> HIDE DEF P
  <1>6. f \in Bijection(1..k, P)
    <2>1. f \in [1..k -> P]
      BY <1>3
    <2>2. f \in Injection(1..k, P)
      BY <2>1, <1>4 DEF Injection, IsInjective
    <2>3. f \in Surjection(1..k, P)
      BY <2>1, <1>5 DEF Surjection
    <2> QED
      BY <2>2, <2>3 DEF Bijection
  <1> HIDE DEF f
  <1>7. IsFiniteSet(1..k) /\ Cardinality(1..k) = k
    <2>1. k \in Nat
      BY <1>1
    <2> QED
      BY <2>1, FS_Interval
  <1>8. Cardinality(P) = k
    BY <1>6, <1>7, FS_Bijection DEF ExistsBijection
  <1> QED
    BY <1>8 DEF P

\* The audit of the checkpoint history accepts the database: pauses and resumes
\* alternate, and every request names the generation that stood when it was
\* answered.
LEMMA HistoryPasses ==
  ASSUME Inv, NEW r \in Ids
  PROVE  HistoryAudit(r)
  <1>1. /\ Len(requests[r]) \in Nat /\ DOMAIN requests[r] = 1..Len(requests[r])
        /\ Len(checkpoints[r]) \in Nat /\ DOMAIN checkpoints[r] = 1..Len(checkpoints[r])
        /\ CheckpointFits(r) /\ HistoryFits(r) /\ RequestFits(r)
    BY RequestRows, CheckpointRows DEF Inv
  <1>2. \A g \in DOMAIN checkpoints[r] :
          /\ checkpoints[r][g].request \in DOMAIN requests[r]
          /\ requests[r][checkpoints[r][g].request].kind = "pause"
          /\ requests[r][checkpoints[r][g].request].disp = "acknowledged"
    BY <1>1 DEF CheckpointFits, CheckpointAudit
  <1>3. \A g, h \in DOMAIN checkpoints[r] : g < h =>
          checkpoints[r][g].request < checkpoints[r][h].request
    BY <1>1 DEF CheckpointFits
  <1>4. ASSUME NEW g \in DOMAIN checkpoints[r], g > 1
        PROVE  /\ checkpoints[r][g - 1].request < checkpoints[r][g].request
               /\ checkpoints[r][g - 1].cursor <= checkpoints[r][g].cursor
    <2>1. g - 1 \in DOMAIN checkpoints[r] /\ g - 1 < g
      BY <1>1, <1>4
    <2> QED
      BY <1>1, <2>1 DEF CheckpointFits
  <1>5. ASSUME NEW i \in DOMAIN requests[r], requests[r][i].kind = "resume"
        PROVE  /\ Cardinality(PausesBefore(r, i)) > 0
               /\ requests[r][i].gen = Cardinality(PausesBefore(r, i))
               /\ LastPaused(r, i)
    <2>1. PICK k : k = requests[r][i].gen
      OBVIOUS
    <2>2. PICK m : m = checkpoints[r][k].request
      OBVIOUS
    <2>3. /\ k \in DOMAIN checkpoints[r] /\ m < i
          /\ \A h \in DOMAIN checkpoints[r] : k < h => i < checkpoints[r][h].request
          /\ NoneAnswered(r, m, i)
      BY <1>1, <1>5, <2>1, <2>2 DEF HistoryFits
    <2>4. /\ k \in 1..Len(checkpoints[r]) /\ m \in 1..(i - 1) /\ m \in 0..(i - 1)
          /\ i \in 1..(Len(requests[r]) + 1) /\ m # 0
          /\ requests[r][m].kind = "pause" /\ requests[r][m].disp = "acknowledged"
      BY <1>1, <1>2, <2>2, <2>3
    <2>5. ASSUME NEW g \in DOMAIN checkpoints[r]
          PROVE  g <= k <=> checkpoints[r][g].request < i
      BY <1>1, <1>2, <1>3, <2>2, <2>3, <2>4
    <2>6. Cardinality(PausesBefore(r, i)) = k
      BY <2>4, <2>5, PausesAre
    <2>7. LastBefore(r, i) = m
      BY <2>3, <2>4, LastIs
    <2>8. LastPaused(r, i)
      BY <2>4, <2>7 DEF LastPaused, PausesBefore, AnsweredBefore
    <2> QED
      BY <2>1, <2>4, <2>6, <2>8
  <1>6. ASSUME NEW i \in DOMAIN requests[r], requests[r][i].kind = "pause",
               requests[r][i].disp = "acknowledged"
        PROVE  /\ ~LastPaused(r, i)
               /\ requests[r][i].gen = Cardinality(PausesBefore(r, i)) + 1
    <2>1. PICK m \in 0..(i - 1) :
            /\ NoneAnswered(r, m, i)
            /\ m # 0 => requests[r][m].disp = "acknowledged" /\ requests[r][m].kind = "resume"
      BY <1>1, <1>6 DEF HistoryFits, Resumed
    <2>2. i \in 1..(Len(requests[r]) + 1)
      BY <1>1
    <2>3. LastBefore(r, i) = m
      BY <2>1, <2>2, LastIs
    <2>4. ~LastPaused(r, i)
      BY <1>1, <2>1, <2>3 DEF LastPaused, PausesBefore, AnsweredBefore
    <2>5. PICK n : n = requests[r][i].gen
      OBVIOUS
    <2>6. n \in DOMAIN checkpoints[r] /\ checkpoints[r][n].request = i
      BY <1>1, <1>6, <2>5 DEF CheckpointFits
    <2>7. PICK k \in 0..Len(checkpoints[r]) : n = k + 1
      <3>1. n - 1 \in 0..Len(checkpoints[r]) /\ n = (n - 1) + 1
        BY <1>1, <2>6
      <3> QED
        BY <3>1
    <2>8. ASSUME NEW g \in DOMAIN checkpoints[r]
          PROVE  g <= k <=> checkpoints[r][g].request < i
      BY <1>1, <1>2, <1>3, <2>6, <2>7
    <2>9. Cardinality(PausesBefore(r, i)) = k
      BY <2>2, <2>7, <2>8, PausesAre
    <2> QED
      BY <2>4, <2>5, <2>7, <2>9
  <1>7. ASSUME NEW i \in DOMAIN requests[r], requests[r][i].kind = "cancel",
               requests[r][i].disp = "acknowledged"
        PROVE  requests[r][i].gen = Cardinality(PausesBefore(r, i))
    <2>1. i = Len(requests[r]) /\ requests[r][i].gen = Len(checkpoints[r])
      BY <1>1, <1>7 DEF RequestFits
    <2>2. PICK k : k = Len(checkpoints[r])
      OBVIOUS
    <2>3. ASSUME NEW g \in DOMAIN checkpoints[r]
          PROVE  g <= k <=> checkpoints[r][g].request < i
      <3>1. checkpoints[r][g].request # i
        BY <1>2, <1>7
      <3> QED
        BY <1>1, <1>2, <2>1, <2>2, <3>1
    <2>4. k \in 0..Len(checkpoints[r]) /\ i \in 1..(Len(requests[r]) + 1)
      BY <1>1, <2>2
    <2>5. Cardinality(PausesBefore(r, i)) = k
      BY <2>3, <2>4, PausesAre
    <2> QED
      BY <2>1, <2>2, <2>5
  <1>8. Cardinality(PausesBefore(r, Len(requests[r]) + 1)) = Len(checkpoints[r])
    <2>1. PICK n : n = Len(requests[r]) + 1
      OBVIOUS
    <2>2. PICK k : k = Len(checkpoints[r])
      OBVIOUS
    <2>3. \A g \in DOMAIN checkpoints[r] : g <= k <=> checkpoints[r][g].request < n
      BY <1>1, <1>2, <2>1, <2>2
    <2>4. k \in 0..Len(checkpoints[r]) /\ n \in 1..(Len(requests[r]) + 1)
      BY <1>1, <2>1, <2>2
    <2>5. Cardinality(PausesBefore(r, n)) = k
      BY <2>3, <2>4, PausesAre
    <2> QED
      BY <2>1, <2>2, <2>5
  <1> QED
    BY <1>4, <1>5, <1>6, <1>7, <1>8 DEF HistoryAudit

\* The audit of the current state accepts the database: a leased run is paused,
\* or runs again, as its last answered request says.
LEMMA CurrentPasses ==
  ASSUME Inv, NEW r \in Ids
  PROVE  CurrentAudit(r)
  <1>1. /\ Len(requests[r]) \in Nat /\ DOMAIN requests[r] = 1..Len(requests[r])
        /\ Len(checkpoints[r]) \in Nat /\ DOMAIN checkpoints[r] = 1..Len(checkpoints[r])
        /\ CheckpointFits(r) /\ RequestFits(r) /\ PausedFits(r) /\ NowFits(r)
    BY RequestRows, CheckpointRows DEF Inv
  <1>2. leases[r].state = "released" => Pending(r) = {}
    BY <1>1 DEF RequestFits, Pending
  <1>3. PICK n : n = Len(requests[r]) + 1
    OBVIOUS
  <1>4. n \in 1..(Len(requests[r]) + 1)
    BY <1>1, <1>3
  <1>5. ASSUME runs[r].state = "paused"
        PROVE  /\ checkpoints[r] # << >>
               /\ checkpoints[r][Len(checkpoints[r])].request = LastAnswered(r)
               /\ checkpoints[r][Len(checkpoints[r])].cursor = leases[r].count
    <2>1. PICK m : m = checkpoints[r][Len(checkpoints[r])].request
      OBVIOUS
    <2>2. /\ Len(checkpoints[r]) > 0 /\ NoneAnswered(r, m, n)
          /\ checkpoints[r][Len(checkpoints[r])].cursor = leases[r].count
      BY <1>1, <1>3, <1>5, <2>1 DEF PausedFits, NowFits
    <2>3. Len(checkpoints[r]) \in DOMAIN checkpoints[r]
      BY <1>1, <2>2
    <2>4. m \in DOMAIN requests[r] /\ requests[r][m].disp = "acknowledged"
      BY <1>1, <2>1, <2>3 DEF CheckpointFits, CheckpointAudit
    <2>5. m \in 0..(n - 1)
      BY <1>1, <1>3, <2>4
    <2>6. LastBefore(r, n) = m
      BY <1>4, <2>2, <2>4, <2>5, LastIs
    <2> QED
      BY <1>3, <2>1, <2>2, <2>3, <2>6 DEF LastAnswered
  <1>6. ASSUME runs[r].state = "running", LastAnswered(r) # 0
        PROVE  requests[r][LastAnswered(r)].kind = "resume"
    <2>1. PICK m \in 0..(n - 1) :
            /\ NoneAnswered(r, m, n)
            /\ m # 0 => requests[r][m].disp = "acknowledged" /\ requests[r][m].kind = "resume"
      BY <1>1, <1>3, <1>6 DEF NowFits, Resumed
    <2>2. LastBefore(r, n) = m
      BY <1>4, <2>1, LastIs
    <2> QED
      BY <1>3, <1>6, <2>1, <2>2 DEF LastAnswered
  <1> QED
    BY <1>2, <1>5, <1>6 DEF CurrentAudit

\* Whatever transaction committed last, whatever the clock said and whoever was
\* told of an error, the process may die now and the next open accepts the
\* database: validate_runtime_invariants finds nothing to refuse.
THEOREM EveryOpenAccepts == Spec => []Reopens
  <1>1. ASSUME Inv
        PROVE  Reopens
    <2>1. ASSUME NEW r \in Ids
          PROVE  /\ JobAudit(r) /\ AttemptAudit(r) /\ FreshAudit(r) /\ LeaseAudit(r)
                 /\ \A i \in DOMAIN requests[r] : RequestAudit(r, i)
                 /\ SequenceAudit(r)
                 /\ \A g \in DOMAIN checkpoints[r] : CheckpointAudit(r, g)
                 /\ HistoryAudit(r) /\ CurrentAudit(r)
      <3>1. \A g \in DOMAIN checkpoints[r] : CheckpointAudit(r, g)
        BY <1>1 DEF Inv, CheckpointFits
      <3> QED
        BY <1>1, <3>1, RowsPass, RequestsPass, HistoryPasses, CurrentPasses
    <2>2. NoHalfState
      <3>1. ASSUME NEW r \in Ids, Used(r)
            PROVE  /\ leases[r].state = "released" => ~Live(runs[r].state)
                   /\ client.open /\ Live(runs[r].state) => client.run = r
                   /\ jobs[runs[r].job].run # r =>
                        /\ runs[r].state = "interrupted"
                        /\ \E c \in Ids : runs[c].parent = r /\ runs[c].job = runs[r].job
        BY <1>1, <3>1 DEF Inv, LeaseFits, ClientFits, RunFits, ParentFits
      <3> QED
        BY <3>1 DEF NoHalfState
    <2> QED
      BY <2>1, <2>2 DEF Reopens
  <1> QED
    BY <1>1, InvHolds, PTL

\* A settled run, its lease, requests and checkpoints never change again, and
\* its job leaves a settled state only by a fresh child of an interrupted run
\* (the transition tables and the one-way lifecycle triggers).
THEOREM SettledHistoryStays == Spec => HistoryStays
  <1>1. ASSUME Inv, [Next]_vars, NEW r \in Ids
        PROVE  SettledStays(r)
    <2>1. ASSUME NEW p \in Ids, ClientStep(p)
          PROVE  SettledStays(r)
      <3>1. Works(p)
        BY <1>1, <2>1, ClientStepWorks
      <3>2. /\ Live(runs[p].state) /\ runs[p].job \in Ids
            /\ (r # p => Kept(r)) /\ (r # runs[p].job => jobs'[r] = jobs[r])
        BY <3>1 DEF Works
      <3>3. Live(jobs[runs[p].job].state)
        BY <1>1, <3>2, Bound DEF Used, Live, JobFor
      <3> QED
        BY <3>2, <3>3 DEF SettledStays, Kept
    <2>2. CASE Open
      <3>1. /\ runs' = [q \in Ids |-> RestartRun(q)] /\ jobs' = [j \in Ids |-> RestartJob(j)]
            /\ leases'[r] = IF Abandoned(r)
                            THEN Released(leases[r], "process_restart") ELSE leases[r]
            /\ ~Abandoned(r) => requests'[r] = requests[r]
            /\ checkpoints' = checkpoints
        BY <2>2 DEF Open
      <3>2. /\ ~Live(runs[r].state) => runs'[r] = runs[r]
            /\ ~Live(jobs[r].state) => jobs'[r] = jobs[r]
        BY <1>1, <3>1, Restarting, RestartingJobs
      <3>3. ~Live(runs[r].state) => ~Abandoned(r)
        BY DEF Abandoned
      <3> QED
        BY <3>1, <3>2, <3>3 DEF SettledStays
    <2>3. ASSUME NEW s \in Scopes, NEW p \in Ids, Start(s, p)
          PROVE  SettledStays(r)
      <3>1. PICK id \in Ids, parent \in 0..MaxRuns :
              /\ \/ id = p /\ parent = 0 /\ Candidates(s) = {}
                 \/ /\ id \in Candidates(s) /\ parent = jobs[id].run
                    /\ jobs'[id].ver = jobs[id].ver + 1
              /\ runs'[p].parent = parent
              /\ \A q \in Ids : q # p => runs'[q] = runs[q]
              /\ jobs'[id].state = "running" /\ jobs'[id].run = p
              /\ \A j \in Ids : j # id => jobs'[j] = jobs[j]
        BY <1>1, <2>3, Starting
      <3>2. runs[p].state = "none" /\ UNCHANGED <<leases, requests, checkpoints>>
        BY <2>3 DEF Start, Unused
      <3>3. jobs[p].state = "none"
        BY <1>1, <3>2, Rows DEF RunFits, Used
      <3>4. id \in Candidates(s) => runs[jobs[id].run].state = "interrupted"
        BY DEF Candidates
      <3> QED
        BY <3>1, <3>2, <3>3, <3>4 DEF SettledStays
    <2>4. CASE UNCHANGED tables
      BY <2>4 DEF SettledStays, tables
    <2>5. ASSUME Close \/ SetClock \/ (\E p \in Ids : PauseAgain(p)) \/ UNCHANGED vars
          PROVE  UNCHANGED tables
      BY <2>5 DEF Close, SetClock, PauseAgain, vars, tables
    <2> QED
      BY <1>1, <2>1, <2>2, <2>3, <2>4, <2>5 DEF Next, ClientStep
  <1>2. Inv /\ [Next]_vars => [\A r \in Ids : SettledStays(r)]_vars
    BY <1>1
  <1> QED
    BY <1>2, InvHolds, PTL DEF Spec, HistoryStays
=============================================================================
