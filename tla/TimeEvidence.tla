---------------------------- MODULE TimeEvidence ----------------------------
(***************************************************************************)
(* The capture-time stage of a completed scan: the runtime probes each     *)
(* verified exact group, reads the times in one of its files twice and     *)
(* writes a metadata report, an analysis and an outcome of the group into  *)
(* the store, piece by piece; the store checks every piece, and checks     *)
(* everything again whenever its file is opened.  (guiying-runtime/src/    *)
(* time_bridge.rs; guiying-store/src/repository.rs, the time session       *)
(* functions, migrations/0007_time_evidence_schema.sql and migrations.rs,  *)
(* reconcile_stale_scan_sessions and validate_capture_time_evidence)       *)
(*                                                                         *)
(* One stage runs over one scan's groups, 1..Groups.  Every write is one   *)
(* SQLite transaction; it may be refused by the store's rules, fail, or    *)
(* commit and still be answered with an error (MaxFaults bounds both       *)
(* failures).  The user may cancel at any time, the wall clock may be set  *)
(* either way, and the process may die between any two transactions and    *)
(* open the store again.                                                   *)
(*                                                                         *)
(* Rows carry the creation time of their report or analysis, and a batch   *)
(* holds all rows of its kind.  What the rows say is left to TimePolicy:   *)
(* here a group's evidence is fit, or such that the store refuses its      *)
(* candidates.  A reading of the clock is taken in the step that uses it,  *)
(* which no other reading falls in between.                                *)
(***************************************************************************)
EXTENDS Integers, FiniteSets, Sequences, FiniteSetsExt, Functions

CONSTANTS
  Groups,     \* verified exact groups of the scan
  Probes,     \* files of one group that may be tried (max_probe_count_per_group)
  MaxReads,   \* extraction passes the session may reserve (max_total_read_bytes)
  MaxTime,    \* bound: the clock reads 0..MaxTime
  MaxBacks,   \* bound: times the clock is set back
  MaxFaults   \* bound: writes or readings of the store that fail

ASSUME Sizes ==
  /\ Groups \in Nat /\ Probes \in Nat \ {0} /\ MaxReads \in Nat
  /\ MaxTime \in Nat /\ MaxBacks \in Nat /\ MaxFaults \in Nat

Group == 1..Groups
Time  == 0..MaxTime

VARIABLES
  now,        \* the wall clock
  backs,      \* times it was set back
  faults,     \* failures so far
  cancelled,  \* the user's cancellation, which is never taken back
  db,         \* the tables: session, and report, analysis, outcome by group
  stage       \* the runtime's stage: its place, what it knows and its summary

vars == <<now, backs, faults, cancelled, db, stage>>

ReportParts   == <<"fields", "issues">>
AnalysisParts == <<"sources", "observations", "candidates", "issues",
                   "members", "recommendation">>

Kinds    == {"evidence", "unavailable", "failed"}
States   == {"none", "draft", "sealed", "abandoned"}
Ends     == {"complete", "partial", "abandoned"}
Places   == {"guard", "begin", "next", "probe", "write", "report", "reportParts",
             "reportSeal", "analysis", "analysisParts", "analysisSeal", "clean",
             "failed", "stop", "finalize", "abandon", "done", "reopened"}
Evidence == {"none", "cancelled", "exhausted", "unavailable", "fit", "unfit"}

TypeOK ==
  /\ now \in Time /\ backs \in 0..MaxBacks /\ faults \in 0..MaxFaults
  /\ cancelled \in BOOLEAN
  /\ db \in [sealed: {0, 1},
             session: [state: {"none", "draft"} \cup Ends, at: Time,
                       fin: Time, counts: [Kinds -> 0..Groups]],
             report: [Group -> [state: States, at: Time, fin: Time,
                                parts: SUBSET Range(ReportParts), read: 0..1]],
             analysis: [Group -> [state: States, at: Time, fin: Time,
                                  parts: SUBSET Range(AnalysisParts)]],
             outcome: [Group -> [kind: {"none"} \cup Kinds, at: Time]]]
  /\ stage \in [at: Places, g: 1..(Groups + 1), tried: 0..Probes, part: 0..6,
                evidence: Evidence, read: 0..1, reserved: 0..MaxReads,
                report: BOOLEAN, analysis: BOOLEAN,
                status: {"completed", "partial", "unavailable"},
                written: [Kinds -> 0..Groups]]

NoCounts == [k \in Kinds |-> 0]

Unstarted == [at |-> "guard", g |-> 1, tried |-> 0, part |-> 0,
              evidence |-> "none", read |-> 0, reserved |-> 0,
              report |-> FALSE, analysis |-> FALSE,
              status |-> "completed", written |-> NoCounts]

Init ==
  /\ now = 0 /\ backs = 0 /\ faults = 0 /\ cancelled = FALSE
  /\ stage = Unstarted
  /\ \E t \in {0, 1} : db =
          [sealed   |-> t,
           session  |-> [state |-> "none", at |-> 0, fin |-> 0,
                         counts |-> NoCounts],
           report   |-> [g \in Group |-> [state |-> "none", at |-> 0, fin |-> 0,
                                          parts |-> {}, read |-> 0]],
           analysis |-> [g \in Group |-> [state |-> "none", at |-> 0, fin |-> 0,
                                          parts |-> {}]],
           outcome  |-> [g \in Group |-> [kind |-> "none", at |-> 0]]]

(***************************************************************************)
(* The store: what each transaction requires, and what it leaves.          *)
(***************************************************************************)
Draft(d) == d.session.state = "draft"

DraftChild(d) ==
  \E g \in Group : "draft" \in {d.report[g].state, d.analysis[g].state}

Terminal(row) == row.state \in {"sealed", "abandoned"}

Recorded(d, k) == Cardinality({g \in Group : d.outcome[g].kind = k})

Settled(d) == {g \in Group : d.outcome[g].kind # "none"}

\* when group g's finished report and analysis were finished
GroupTimes(d, g) == {row.fin : row \in {r \in {d.report[g], d.analysis[g]} : Terminal(r)}}

LatestOfGroup(d, g) == Max({d.session.at} \cup GroupTimes(d, g))

LatestOfSession(d) ==
  Max({d.session.at} \cup (UNION {GroupTimes(d, g) : g \in Group})
      \cup {d.outcome[g].at : g \in Settled(d)})

BytesRead(d) == Cardinality({g \in Group : d.report[g].read = 1})

CanBeginSession(d, t) == d.session.state = "none" /\ t >= d.sealed

BeginSession(d, t) == [d EXCEPT !.session.state = "draft", !.session.at = t]

CanFinalize(d, end, t) ==
  /\ Draft(d) /\ ~DraftChild(d)
  /\ BytesRead(d) <= MaxReads \div 2
  /\ end = "complete" => Settled(d) = Group
  /\ \A g \in Group :
       d.analysis[g].state = "sealed" => d.outcome[g].kind = "evidence"
  /\ t >= LatestOfSession(d)

Counts(d) == [k \in Kinds |-> Recorded(d, k)]

Finalize(d, end, t) ==
  [d EXCEPT !.session = [@ EXCEPT !.state = end, !.fin = t, !.counts = Counts(d)]]

CanAbandonSession(d, t) == Draft(d) /\ ~DraftChild(d) /\ t >= LatestOfSession(d)

AbandonSession(d, t) ==
  [d EXCEPT !.session.state = "abandoned", !.session.fin = t]

\* an outcome without evidence, at the time its caller names; once written it
\* may only be repeated
CanRecord(d, g, kind, t) ==
  /\ Draft(d)
  /\ d.analysis[g].state \notin {"draft", "sealed"} /\ d.report[g].state # "draft"
  /\ t >= LatestOfGroup(d, g)
  /\ d.outcome[g].kind # "none" => d.outcome[g] = [kind |-> kind, at |-> t]

Record(d, g, kind, t) == [d EXCEPT !.outcome[g] = [kind |-> kind, at |-> t]]

CanBeginReport(d, g, read, t) ==
  /\ Draft(d) /\ t >= d.session.at
  /\ d.report[g].state = "none" /\ d.outcome[g].kind = "none"
  /\ BytesRead(d) + read <= MaxReads \div 2

BeginReport(d, g, read, t) ==
  [d EXCEPT !.report[g] = [@ EXCEPT !.state = "draft", !.at = t, !.read = read]]

CanAddToReport(d, g) == Draft(d) /\ d.report[g].state = "draft"

AddToReport(d, g, p) == [d EXCEPT !.report[g].parts = @ \cup {p}]

\* the rows are those the manifest of the report was computed from
ReportWhole(d, g) == d.report[g].parts = Range(ReportParts)

CanSealReport(d, g, t) ==
  /\ CanAddToReport(d, g) /\ ReportWhole(d, g)
  /\ t >= d.report[g].at

SealReport(d, g, t) ==
  [d EXCEPT !.report[g] = [@ EXCEPT !.state = "sealed", !.fin = t]]

CanAbandonReport(d, g, t) == d.report[g].state = "draft" /\ t >= d.report[g].at

AbandonReport(d, g, t) ==
  [d EXCEPT !.report[g] = [@ EXCEPT !.state = "abandoned", !.fin = t]]

CanBeginAnalysis(d, g, t) ==
  /\ Draft(d) /\ t >= d.session.at
  /\ d.analysis[g].state = "none" /\ d.outcome[g].kind = "none"

BeginAnalysis(d, g, t) ==
  [d EXCEPT !.analysis[g] = [@ EXCEPT !.state = "draft", !.at = t]]

\* a source is a report sealed no later than the analysis was begun
SourcesFit(d, g) ==
  d.report[g].state = "sealed" /\ d.analysis[g].at >= d.report[g].fin

\* an observation names a field of a source
ObservationsFit(d, g) == "sources" \in d.analysis[g].parts

\* a candidate names observations that support what it says
CandidatesFit(d, g, fit) == fit /\ "observations" \in d.analysis[g].parts

\* a policy issue names observations
IssuesFit(d, g) == "observations" \in d.analysis[g].parts

\* an assessment of a member names an eligible candidate
MembersFit(d, g) == "candidates" \in d.analysis[g].parts

CanAddToAnalysis(d, g, p, fit) ==
  /\ Draft(d) /\ d.analysis[g].state = "draft"
  /\ p = "sources" => SourcesFit(d, g)
  /\ p = "observations" => ObservationsFit(d, g)
  /\ p = "candidates" => CandidatesFit(d, g, fit)
  /\ p = "issues" => IssuesFit(d, g)
  /\ p = "members" => MembersFit(d, g)

AddToAnalysis(d, g, p) == [d EXCEPT !.analysis[g].parts = @ \cup {p}]

\* looked at again as a whole: the stored candidates have the support they claim
CandidatesSupported(d, g) ==
  "candidates" \in d.analysis[g].parts => CandidatesFit(d, g, TRUE)

AnalysisWhole(d, g) == d.analysis[g].parts = Range(AnalysisParts)

CanSealAnalysis(d, g, t) ==
  /\ Draft(d) /\ d.analysis[g].state = "draft" /\ d.outcome[g].kind = "none"
  /\ AnalysisWhole(d, g) /\ CandidatesSupported(d, g)
  /\ t >= Max({d.analysis[g].at, LatestOfGroup(d, g)})

\* the seal and the outcome it supports are one transaction
SealAnalysis(d, g, t) ==
  [Record(d, g, "evidence", t) EXCEPT
     !.analysis[g] = [@ EXCEPT !.state = "sealed", !.fin = t]]

CanAbandonAnalysis(d, g, t) ==
  /\ Draft(d) /\ d.analysis[g].state = "draft" /\ d.outcome[g].kind = "none"
  /\ t >= Max({d.analysis[g].at, LatestOfGroup(d, g)})

\* so are an abandoned analysis and the failure of its group
AbandonAnalysis(d, g, t) ==
  [Record(d, g, "failed", t) EXCEPT
     !.analysis[g] = [@ EXCEPT !.state = "abandoned", !.fin = t]]

(***************************************************************************)
(* The opening of the store: drafts are abandoned, at no time earlier than *)
(* what they hold, and the tables are checked.                             *)
(***************************************************************************)
Ended(row, t) ==
  IF row.state = "draft"
  THEN [row EXCEPT !.state = "abandoned", !.fin = Max({row.at, t})] ELSE row

ReconciledAtOnce(d, t) ==
  LET e == [d EXCEPT !.report = [g \in Group |-> Ended(@[g], t)],
                     !.analysis = [g \in Group |-> Ended(@[g], t)]]
  IN IF Draft(d) THEN AbandonSession(e, Max({t, d.session.at})) ELSE e

Reconciled(d, t) ==
  LET e == [d EXCEPT !.report = [g \in Group |-> Ended(@[g], t)],
                     !.analysis = [g \in Group |-> Ended(@[g], t)]]
  IN IF Draft(d) THEN AbandonSession(e, Max({t, LatestOfSession(e)})) ELSE e

SessionSound(d) ==
  LET s == d.session IN
  /\ s.state # "none" => s.at >= d.sealed
  /\ s.state \in Ends =>
       ~DraftChild(d) /\ s.fin >= s.at /\ s.fin >= LatestOfSession(d)
  /\ s.state \in {"complete", "partial"} => s.counts = Counts(d)
  /\ s.state = "complete" => Settled(d) = Group

BudgetSound(d) == BytesRead(d) <= MaxReads \div 2

OutcomeSound(d, g) ==
  d.outcome[g].kind # "none" =>
    /\ \A row \in {d.report[g], d.analysis[g]} :
         row.state # "none" => Terminal(row) /\ row.fin <= d.outcome[g].at
    /\ d.outcome[g].kind = "evidence" <=> d.analysis[g].state = "sealed"
    /\ d.outcome[g].at >= d.session.at

ReportSound(d, g) ==
  LET r == d.report[g] IN
  /\ r.state # "none" => r.at >= d.session.at
  /\ r.state = "sealed" => ReportWhole(d, g)
  /\ Terminal(r) => r.fin >= r.at

AnalysisSound(d, g) ==
  LET a == d.analysis[g] IN
  /\ a.state # "none" => a.at >= d.session.at
  /\ a.state = "sealed" => AnalysisWhole(d, g)
  /\ Terminal(a) => a.fin >= a.at
  /\ "sources" \in a.parts => SourcesFit(d, g)

\* The audit begins with the shape of each table's rows: what a row may hold
\* in its state, and what it must refer to.
SessionBounds(d) ==
  /\ d.session.state \in {"none", "draft", "abandoned"} => d.session.counts = NoCounts
  /\ d.session.state \in Ends => d.session.at <= d.session.fin

ReportBounds(d, g) == d.report[g].state \in {"none", "draft"} => d.report[g].fin = 0

PartsBounds(d, g) == d.report[g].parts # {} => d.report[g].state # "none"

\* the revalidation row of a sealed report lies between its ends
RevalidationBounds(d, g) ==
  d.report[g].state = "sealed" => d.report[g].at <= d.report[g].fin

AnalysisBounds(d, g) ==
  d.analysis[g].state \in {"none", "draft"} => d.analysis[g].fin = 0

SourceBounds(d, g) ==
  "sources" \in d.analysis[g].parts => d.analysis[g].state # "none" /\ SourcesFit(d, g)

ObservationBounds(d, g) ==
  "observations" \in d.analysis[g].parts => ObservationsFit(d, g)

CandidateBounds(d, g) ==
  {"candidates", "issues"} \cap d.analysis[g].parts # {} =>
    "observations" \in d.analysis[g].parts

MemberBounds(d, g) ==
  "members" \in d.analysis[g].parts => d.analysis[g].state # "none"

\* assessments are computed again from the candidates they name
MembersRelated(d, g) == "members" \in d.analysis[g].parts => MembersFit(d, g)

OutcomeBounds(d, g) ==
  d.outcome[g].kind # "none" =>
    /\ d.session.state # "none" /\ d.session.at <= d.outcome[g].at
    /\ d.session.state \in Ends => d.outcome[g].at <= d.session.fin

Bounded(d, g) ==
  /\ ReportBounds(d, g) /\ PartsBounds(d, g) /\ RevalidationBounds(d, g)
  /\ AnalysisBounds(d, g) /\ SourceBounds(d, g) /\ ObservationBounds(d, g)
  /\ CandidateBounds(d, g) /\ MemberBounds(d, g) /\ OutcomeBounds(d, g)

Audit(d) ==
  /\ SessionBounds(d) /\ SessionSound(d) /\ BudgetSound(d)
  /\ \A g \in Group :
       /\ Bounded(d, g)
       /\ CandidatesSupported(d, g) /\ MembersRelated(d, g)
       /\ OutcomeSound(d, g) /\ ReportSound(d, g) /\ AnalysisSound(d, g)

(***************************************************************************)
(* The stage.                                                              *)
(***************************************************************************)
At(place) == stage.at = place

To(place) == [stage EXCEPT !.at = place]

Fault == faults < MaxFaults /\ faults' = faults + 1

\* one transaction: told is the stage after Ok, refused after Err
Write(allowed, after, told, refused) ==
  /\ \/ allowed /\ db' = after /\ stage' = told /\ UNCHANGED faults
     \/ ~allowed /\ stage' = refused /\ UNCHANGED <<db, faults>>
     \/ Fault /\ stage' = refused /\ (UNCHANGED db \/ (allowed /\ db' = after))
  /\ UNCHANGED <<now, backs, cancelled>>

\* a step that writes nothing
Go(next) == stage' = next /\ UNCHANGED <<now, backs, cancelled, faults, db>>

\* a reading of the store that fails
Unread(next) ==
  Fault /\ stage' = next /\ UNCHANGED <<now, backs, cancelled, db>>

Partly(place) == [stage EXCEPT !.at = place, !.status = "partial"]

\* record_group, and what the stage looks at after a group
Wrote(kind) ==
  LET counted == [stage EXCEPT !.written[kind] = @ + 1] IN
  IF cancelled \/ stage.evidence = "exhausted"
  THEN [counted EXCEPT !.at = "stop", !.status = "partial"]
  ELSE [counted EXCEPT !.at = "next", !.g = @ + 1, !.tried = 0, !.part = 0,
                       !.evidence = "none", !.read = 0]

Guard ==
  /\ At("guard")
  /\ \/ Go(To("begin"))
     \/ Unread([stage EXCEPT !.at = "done", !.status = "unavailable"])

Begin ==
  /\ At("begin")
  /\ Write(CanBeginSession(db, now), BeginSession(db, now),
           IF cancelled THEN Partly("stop") ELSE To("next"),
           [stage EXCEPT !.at = "done", !.status = "unavailable"])

\* the verified groups that are left, read page by page in the order they were
\* verified, each with a live ticket for every one of its probes
Remaining == stage.g .. Groups

\* the next group of the next page; a record may be refused, and passed over
NextGroup ==
  /\ At("next")
  /\ \/ cancelled /\ Go(Partly("stop"))
     \/ ~cancelled /\ Remaining = {} /\ Go(To("stop"))
     \/ ~cancelled /\ Remaining # {} /\ Go(To("probe"))
     \/ ~cancelled /\ Unread(Partly("stop"))
     \/ /\ ~cancelled /\ Remaining # {}
        /\ Unread([Partly("next") EXCEPT !.g = @ + 1])

Found(evidence) == [stage EXCEPT !.at = "write", !.evidence = evidence]

\* both passes over one file are reserved before it is opened
CanReserve(reserved) == reserved + 2 <= MaxReads

\* A file that cannot be used is passed over, and the last one leaves the group
\* without evidence; so does, at once, a scope that no longer is the run's.
Probe ==
  /\ At("probe")
  /\ \/ cancelled /\ Go(Found("cancelled"))
     \/ stage.tried = 0 /\ ~cancelled /\ Go(Found("unavailable"))
     \/ ~cancelled /\ ~CanReserve(stage.reserved) /\ Go(Found("exhausted"))
     \/ /\ ~cancelled /\ CanReserve(stage.reserved)
        /\ LET reserved == [stage EXCEPT !.reserved = @ + 2, !.tried = @ + 1] IN
           \/ reserved.tried < Probes /\ Go(reserved)
           \/ Go([reserved EXCEPT !.at = "write", !.evidence = "unavailable"])
           \/ \E e \in {"fit", "unfit"}, n \in 0..1 :
                Go([reserved EXCEPT !.at = "write", !.evidence = e, !.read = n])

WriteGroup ==
  /\ At("write")
  /\ \/ (cancelled \/ stage.evidence = "cancelled") /\ Go(Partly("stop"))
     \/ /\ ~cancelled /\ stage.evidence \in {"unavailable", "exhausted"}
        /\ Write(CanRecord(db, stage.g, "unavailable", db.session.at),
                 Record(db, stage.g, "unavailable", db.session.at),
                 Wrote("unavailable"), Partly("stop"))
     \/ ~cancelled /\ stage.evidence \in {"fit", "unfit"} /\ Go(To("report"))

\* a step of persist_metadata_and_analysis: not taken once cancelled
Persist(place, allowed, after, told) ==
  /\ At(place)
  /\ \/ cancelled /\ Go(To("clean"))
     \/ ~cancelled /\ Write(allowed, after, told, To("clean"))

WriteReport ==
  LET g == stage.g
      p == ReportParts[stage.part + 1]
  IN \/ Persist("report", CanBeginReport(db, g, stage.read, db.session.at),
                BeginReport(db, g, stage.read, db.session.at),
                [stage EXCEPT !.at = "reportParts", !.report = TRUE])
     \/ Persist("reportParts", CanAddToReport(db, g), AddToReport(db, g, p),
                [stage EXCEPT !.part = IF @ = 1 THEN 0 ELSE 1,
                              !.at = IF stage.part = 1 THEN "reportSeal" ELSE @])
     \/ Persist("reportSeal", CanSealReport(db, g, now), SealReport(db, g, now),
                [stage EXCEPT !.at = "analysis", !.report = FALSE])

WriteAnalysis ==
  LET g == stage.g
      p == AnalysisParts[stage.part + 1]
  IN \/ Persist("analysis", CanBeginAnalysis(db, g, now), BeginAnalysis(db, g, now),
                [stage EXCEPT !.at = "analysisParts", !.analysis = TRUE])
     \/ At("analysis") /\ Unread(To("clean"))
     \/ Persist("analysisParts",
                CanAddToAnalysis(db, g, p, stage.evidence = "fit"),
                AddToAnalysis(db, g, p),
                [stage EXCEPT !.part = IF @ = 5 THEN 0 ELSE @ + 1,
                              !.at = IF stage.part = 5 THEN "analysisSeal" ELSE @])
     \/ Persist("analysisSeal", CanSealAnalysis(db, g, now), SealAnalysis(db, g, now),
                [Wrote("evidence") EXCEPT !.analysis = FALSE])

AbandonReportOnly(then, refused) ==
  LET g == stage.g IN
  \/ /\ stage.report
     /\ Write(CanAbandonReport(db, g, now), AbandonReport(db, g, now),
              [then EXCEPT !.report = FALSE], refused)
  \/ ~stage.report /\ Go(then)

\* abandon_open_drafts: the drafts the stage knows of, or nothing at all
AbandonDrafts(then, refused) ==
  LET g == stage.g IN
  \/ /\ stage.analysis
     /\ Write(CanAbandonAnalysis(db, g, now), AbandonAnalysis(db, g, now),
              [then EXCEPT !.analysis = FALSE], refused)
  \/ /\ ~stage.analysis /\ stage.report
     /\ Write(CanAbandonReport(db, g, now), AbandonReport(db, g, now),
              [then EXCEPT !.report = FALSE], refused)
  \/ ~stage.analysis /\ ~stage.report /\ Go(then)

\* a group that could not be written: its drafts go, and unless the user
\* cancelled it is recorded as failed, at the time the session was begun
Clean ==
  /\ At("clean")
  /\ AbandonDrafts(IF cancelled THEN Partly("stop") ELSE To("failed"), Partly("stop"))

FailGroup ==
  /\ At("failed")
  /\ Write(CanRecord(db, stage.g, "failed", db.session.at),
           Record(db, stage.g, "failed", db.session.at),
           Wrote("failed"), Partly("stop"))

WrittenGroups ==
  stage.written["evidence"] + stage.written["unavailable"] + stage.written["failed"]

Outcome ==
  IF stage.status = "completed" /\ WrittenGroups = Groups
  THEN "complete" ELSE "partial"

FinishUnheard ==
  \/ At("stop") /\ AbandonDrafts(To("finalize"), Partly("done"))
  \/ /\ At("finalize")
     /\ Write(CanFinalize(db, Outcome, now), Finalize(db, Outcome, now),
              To("done"), To("abandon"))
  \/ /\ At("abandon")
     /\ Write(CanAbandonSession(db, now), AbandonSession(db, now),
              To("done"), To("done"))

\* finish_stage
Finish ==
  \/ At("stop") /\ AbandonDrafts(To("finalize"), Partly("done"))
  \/ /\ At("finalize")
     /\ Write(CanFinalize(db, Outcome, now), Finalize(db, Outcome, now),
              To("done"), To("abandon"))
  \/ /\ At("abandon")
     /\ Write(CanAbandonSession(db, now), AbandonSession(db, now),
              Partly("done"), Partly("done"))

Cancel ==
  /\ ~cancelled /\ stage.at \notin {"done", "reopened"} /\ cancelled' = TRUE
  /\ UNCHANGED <<now, backs, faults, db, stage>>

Tick ==
  /\ now < MaxTime /\ now' = now + 1
  /\ UNCHANGED <<backs, faults, cancelled, db, stage>>

SetBack ==
  /\ backs < MaxBacks /\ backs' = backs + 1
  /\ \E t \in Time : t < now /\ now' = t
  /\ UNCHANGED <<faults, cancelled, db, stage>>

\* the process dies, or a later scan begins: the store is opened
Reopen ==
  /\ db' = Reconciled(db, now)
  /\ stage' = IF stage.at \in {"done", "reopened"} THEN To("reopened")
              ELSE [Unstarted EXCEPT !.at = "reopened", !.status = "unavailable"]
  /\ UNCHANGED <<now, backs, faults, cancelled>>

Next ==
  \/ Guard \/ Begin \/ NextGroup \/ Probe \/ WriteGroup
  \/ WriteReport \/ WriteAnalysis \/ Clean \/ FailGroup \/ Finish
  \/ Cancel \/ Tick \/ SetBack \/ Reopen

Spec == Init /\ [][Next]_vars

(***************************************************************************)
(* Properties.                                                             *)
(***************************************************************************)
\* Whatever failed, was cancelled or was cut off, and however the clock was
\* set, a later opening of the store accepts its capture-time tables: an
\* opening that refuses them would lock the user out of every scan.
TimeReopens == Audit(db)

\* What the stage tells of itself is in the store: of every kind it counts no
\* more groups than have that outcome, and a completed stage left a complete
\* session with exactly its counts.  (record_group, finish_stage)
SummaryTrue ==
  /\ \A k \in Kinds : stage.written[k] <= Recorded(db, k)
  /\ stage.at \in {"done", "reopened"} /\ stage.status = "completed" =>
       db.session.state = "complete" /\ db.session.counts = stage.written

\* A stage that no failing write and no set-back clock disturbed leaves no
\* draft behind, whenever it was cancelled and whatever the store refused.
\* (write_group, abandon_open_drafts, finish_stage)
CleanEnd ==
  At("done") /\ faults = 0 /\ backs = 0 =>
    db.session.state \in {"none", "complete", "partial"} /\ ~DraftChild(db)
=============================================================================
