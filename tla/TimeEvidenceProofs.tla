------------------------- MODULE TimeEvidenceProofs -------------------------
(***************************************************************************)
(* Capture-time evidence: the safety properties of the stage that writes   *)
(* it (TimeEvidence) and of the policy that judges it (TimePolicy).  The   *)
(* two share nothing but this module.                                      *)
(*                                                                         *)
(* TimeEvidence, for any number of groups, probes and failures and any     *)
(* movement of the clock: every open accepts the capture-time tables, the  *)
(* stage's summary is true of them, and a stage that nothing disturbed     *)
(* leaves no draft.                                                        *)
(*                                                                         *)
(* The tables come first.  What an open checks (Audit) is not inductive:   *)
(* it says of an outcome that its report and analysis are not later, but   *)
(* not that an analysis has a sealed report, nor that a row not begun is   *)
(* empty.  StoreInv says so of every group's rows; each transaction of the *)
(* store keeps it whatever it is called with, as long as its own checks    *)
(* pass, and so does the recovery of an open (SessionBegun to Reopening).  *)
(* A transaction takes back no outcome and unseals no report, and writes   *)
(* no time but its own or the session's (Sound).                           *)
(*                                                                         *)
(* The stage comes second.  Every step leaves Sound tables, so the parts   *)
(* of the invariant about the stage need only the place it goes to and the *)
(* rows of the group in hand (AfterMove, AfterTurn, AfterCount, Drops).    *)
(*                                                                         *)
(* What the stage has counted of a kind is at most what the groups behind  *)
(* it have of that kind; while it is complete it has counted every group   *)
(* behind it.  At the end the counts add up to all groups, so no count can *)
(* be lower than the store's (WrittenIsRecorded).                          *)
(*                                                                         *)
(* While the clock has not been set back no time in the tables is later    *)
(* than now (ClockInv), and while nothing failed the stage knows every     *)
(* draft (CleanInv): so an abandonment it asks for is never refused, nor   *)
(* is the end of the session (CanDrop, CanFinish).                         *)
(*                                                                         *)
(* What is recorded is final (RecordsFinal): no step changes a report, an  *)
(* analysis or a session that is finished, nor anything of a group that    *)
(* has an outcome.  The checks of the transactions are not enough for it:  *)
(* sealing a report or adding to it looks at no outcome, and abandoning a  *)
(* report not even at the session.  It is StoreInv that says that a group  *)
(* with an outcome, or of an ended session, has no draft.                  *)
(*                                                                         *)
(* TimePolicy, for reports of any length, any sources, values, grains and  *)
(* tolerances.  The invariant is small: the answer is the policy's         *)
(* (PolicyInv).  The work is in what the policy answers.  Its atoms are    *)
(* the dates of trusted sources (AtomsAre, AtomShape).  An eligible        *)
(* candidate has no issue against it (EligibleIs), so no two strong atoms  *)
(* are further apart than the tolerance (Spread) and every scope says what *)
(* the candidate says (ScopeAgrees, Supported).  The order of preference   *)
(* is total on the candidates of one answer, whose merits tell their times *)
(* (MeritsTell), so the best of them is one (BestIs).  Reports that hold   *)
(* the same fields have atoms that differ in their observations at most    *)
(* (TwinAtoms), hence the same issues, and candidates that are alike and   *)
(* preferred alike (SameIssues, SameCandidates, SameBest).                 *)
(***************************************************************************)
EXTENDS TimeEvidence, TimePolicy, FiniteSetTheorems, SequenceTheorems,
        WellFoundedInduction, TLAPS

-----------------------------------------------------------------------------
(* The shape of the state.                                                 *)

\* The rows of the tables.
ReportRow   == [state: States, at: Time, fin: Time,
                parts: SUBSET Range(ReportParts), read: 0..1]
AnalysisRow == [state: States, at: Time, fin: Time,
                parts: SUBSET Range(AnalysisParts)]
OutcomeRow  == [kind: {"none"} \cup Kinds, at: Time]
SessionRow  == [state: {"none", "draft"} \cup Ends, at: Time, fin: Time,
                counts: [Kinds -> 0..Groups]]
Db          == [sealed: {0, 1}, session: SessionRow, report: [Group -> ReportRow],
                analysis: [Group -> AnalysisRow], outcome: [Group -> OutcomeRow]]

\* The largest of a bounded set of times is one of them.
LEMMA MaxIs ==
  ASSUME NEW b \in Nat, NEW S \in SUBSET (0 .. b), S # {}
  PROVE  /\ Max(S) \in S /\ \A x \in S : x <= Max(S)
<1> DEFINE T == {b - x : x \in S}
<1>1. T \subseteq Nat /\ T # {}
  <2>1. \A x \in S : b - x \in Nat
    OBVIOUS
  <2>2. PICK x \in S : TRUE
    OBVIOUS
  <2>3. b - x \in T
    OBVIOUS
  <2> QED
    BY <2>1, <2>3
<1>2. \E y \in T : \A z \in T : ~ (<<z, y>> \in OpToRel(<, Nat))
  <2> DEFINE R == OpToRel(<, Nat)
  <2>1. IsWellFoundedOn(R, Nat)
    BY NatLessThanWellFounded
  <2> HIDE DEF T, R
  <2>2. \E y \in T : \A z \in T : ~ (<<z, y>> \in R)
    BY <1>1, <2>1, WFMin
  <2> QED BY <2>2 DEF R
<1>3. PICK y \in T : \A z \in T : ~ (z < y)
  BY <1>1, <1>2 DEF OpToRel
<1>4. PICK m \in S : y = b - m
  OBVIOUS
<1>5. \A x \in S : m >= x
  <2> TAKE x \in S
  <2>1. b - x \in T
    OBVIOUS
  <2>2. ~ (b - x < b - m)
    BY <2>1, <1>3, <1>4
  <2> QED BY <2>2
<1> QED
  BY <1>5 DEF Max

\* There are finitely many groups, so sets of them can be counted.
LEMMA Groupings ==
  /\ IsFiniteSet(Group) /\ Cardinality(Group) = Groups
  /\ \A S \in SUBSET Group : IsFiniteSet(S) /\ Cardinality(S) \in 0..Groups
<1>1. IsFiniteSet(Group) /\ Cardinality(Group) = Groups
  BY FS_Interval, Sizes DEF Group
<1>2. ASSUME NEW S \in SUBSET Group
      PROVE  IsFiniteSet(S) /\ Cardinality(S) \in 0..Groups
  BY <1>1, FS_Subset, FS_CardinalityType, Sizes
<1> QED
  BY <1>1, <1>2

\* LatestOfGroup is the least time not before anything finished of the group
\* (the lower bound of its outcome).
LEMMA GroupLatest ==
  ASSUME NEW d \in Db, NEW g \in Group, NEW L, L = LatestOfGroup(d, g)
  PROVE  /\ L \in Time /\ L >= d.session.at
         /\ Terminal(d.report[g]) => d.report[g].fin <= L
         /\ Terminal(d.analysis[g]) => d.analysis[g].fin <= L
         /\ \A t \in Time :
              /\ t >= d.session.at
              /\ Terminal(d.report[g]) => d.report[g].fin <= t
              /\ Terminal(d.analysis[g]) => d.analysis[g].fin <= t
              => L <= t
<1>0. PICK r, a : r = d.report[g] /\ a = d.analysis[g]
  OBVIOUS
<1>1. r.fin \in Time /\ a.fin \in Time /\ d.session.at \in Time
  BY <1>0 DEF Db, ReportRow, AnalysisRow, SessionRow
<1>2. PICK S : S = {d.session.at} \cup GroupTimes(d, g)
  OBVIOUS
<1>3. \A x : x \in S <=> \/ x = d.session.at
                         \/ Terminal(r) /\ x = r.fin
                         \/ Terminal(a) /\ x = a.fin
  BY <1>0, <1>2 DEF GroupTimes
<1>4. S \in SUBSET Time /\ S # {}
  BY <1>1, <1>3
<1>5. L \in S /\ \A x \in S : x <= L
  <2>1. L = Max(S)
    BY <1>2 DEF LatestOfGroup
  <2> QED
    BY <1>4, <2>1, MaxIs, Sizes DEF Time
<1> QED
  BY <1>0, <1>1, <1>3, <1>4, <1>5 DEF Time

\* LatestOfSession is the least time not before anything finished in the
\* session (the lower bound of its end).
LEMMA SessionLatest ==
  ASSUME NEW d \in Db, NEW L, L = LatestOfSession(d)
  PROVE  /\ L \in Time /\ L >= d.session.at
         /\ \A g \in Group :
              /\ Terminal(d.report[g]) => d.report[g].fin <= L
              /\ Terminal(d.analysis[g]) => d.analysis[g].fin <= L
              /\ d.outcome[g].kind # "none" => d.outcome[g].at <= L
         /\ \A t \in Time :
              /\ t >= d.session.at
              /\ \A g \in Group :
                   /\ Terminal(d.report[g]) => d.report[g].fin <= t
                   /\ Terminal(d.analysis[g]) => d.analysis[g].fin <= t
                   /\ d.outcome[g].kind # "none" => d.outcome[g].at <= t
              => L <= t
<1>1. /\ d.session.at \in Time
      /\ \A g \in Group : /\ d.report[g].fin \in Time /\ d.analysis[g].fin \in Time
                          /\ d.outcome[g].at \in Time
  BY DEF Db, ReportRow, AnalysisRow, SessionRow, OutcomeRow
<1>2. PICK S : S = {d.session.at} \cup (UNION {GroupTimes(d, g) : g \in Group})
                    \cup {d.outcome[g].at : g \in Settled(d)}
  OBVIOUS
<1>3. \A g \in Group : \A x : x \in GroupTimes(d, g) <=>
         \/ Terminal(d.report[g]) /\ x = d.report[g].fin
         \/ Terminal(d.analysis[g]) /\ x = d.analysis[g].fin
  BY DEF GroupTimes
<1>4. \A x : x \in S <=>
         \/ x = d.session.at
         \/ \E g \in Group : \/ Terminal(d.report[g]) /\ x = d.report[g].fin
                             \/ Terminal(d.analysis[g]) /\ x = d.analysis[g].fin
                             \/ d.outcome[g].kind # "none" /\ x = d.outcome[g].at
  <2>1. \A x : x \in UNION {GroupTimes(d, g) : g \in Group} <=>
                 \E g \in Group : x \in GroupTimes(d, g)
    OBVIOUS
  <2>2. \A x : x \in {d.outcome[g].at : g \in Settled(d)} <=>
                 \E g \in Group : d.outcome[g].kind # "none" /\ x = d.outcome[g].at
    BY DEF Settled
  <2>3. PICK U, V : /\ U = UNION {GroupTimes(d, g) : g \in Group}
                    /\ V = {d.outcome[g].at : g \in Settled(d)}
    OBVIOUS
  <2>4. \A x : x \in S <=> x = d.session.at \/ x \in U \/ x \in V
    BY <1>2, <2>3
  <2>5. \A x : x \in U <=> \E g \in Group : x \in GroupTimes(d, g)
    BY <2>1, <2>3
  <2>6. \A x : x \in V <=>
                 \E g \in Group : d.outcome[g].kind # "none" /\ x = d.outcome[g].at
    BY <2>2, <2>3
  <2> HIDE DEF Terminal
  <2> QED
    BY ONLY <1>3, <2>4, <2>5, <2>6
<1>5. S \in SUBSET Time /\ S # {}
  BY <1>1, <1>4
<1>6. L \in S /\ \A x \in S : x <= L
  <2>1. L = Max(S)
    BY <1>2 DEF LatestOfSession
  <2> QED
    BY <1>5, <2>1, MaxIs, Sizes DEF Time
<1> QED
  BY <1>1, <1>4, <1>5, <1>6 DEF Time

-----------------------------------------------------------------------------
(* What the tables keep, whatever is written to them.                      *)

\* A row not begun or not finished.
Idle(row) == row.state \in {"none", "draft"}

\* The rows of one group.
ReportFits(r, s) ==
  /\ r.state # "none" => r.at >= s.at
  /\ Idle(r) => r.fin = 0
  /\ r.state = "none" => r.parts = {}
  /\ r.state = "sealed" => r.parts = Range(ReportParts)
  /\ Terminal(r) => r.fin >= r.at

AnalysisFits(r, a, s) ==
  /\ a.state # "none" => a.at >= s.at /\ r.state = "sealed"
  /\ Idle(a) => a.fin = 0
  /\ a.state = "none" => a.parts = {}
  /\ a.state = "sealed" => a.parts = Range(AnalysisParts)
  /\ Terminal(a) => a.fin >= a.at
  /\ "sources" \in a.parts => a.at >= r.fin

PartsFit(a) ==
  /\ {"observations", "candidates", "issues", "members"} \cap a.parts # {} =>
       "sources" \in a.parts
  /\ {"candidates", "issues", "members"} \cap a.parts # {} =>
       "observations" \in a.parts
  /\ "members" \in a.parts => "candidates" \in a.parts

OutcomeFits(r, a, o, s) ==
  /\ o.kind = "evidence" <=> a.state = "sealed"
  /\ o.kind # "none" => /\ r.state # "draft" /\ a.state # "draft"
                        /\ o.at >= s.at
                        /\ Terminal(r) => r.fin <= o.at
                        /\ Terminal(a) => a.fin <= o.at

SessionFits(r, a, o, s) ==
  /\ s.state = "none" => r.state = "none" /\ a.state = "none" /\ o.kind = "none"
  /\ s.state \in Ends => /\ r.state # "draft" /\ a.state # "draft"
                         /\ Terminal(r) => r.fin <= s.fin
                         /\ Terminal(a) => a.fin <= s.fin
                         /\ o.kind # "none" => o.at <= s.fin

RowsFit(r, a, o, s) ==
  /\ ReportFits(r, s) /\ AnalysisFits(r, a, s) /\ PartsFit(a)
  /\ OutcomeFits(r, a, o, s) /\ SessionFits(r, a, o, s)

\* What the store keeps of one group's rows.
GroupFits(d, g) == RowsFit(d.report[g], d.analysis[g], d.outcome[g], d.session)

\* What it keeps of the session and of what it sums up.
CountsFit(d) ==
  LET s == d.session IN
  /\ s.state # "none" => s.at >= d.sealed
  /\ s.state \in Ends => s.at <= s.fin
  /\ s.state \in {"none", "draft", "abandoned"} => s.counts = NoCounts
  /\ s.state \in {"complete", "partial"} => s.counts = Counts(d)
  /\ s.state = "complete" => Settled(d) = Group
  /\ BytesRead(d) <= MaxReads \div 2

\* What every transaction keeps of the tables, and more than an open checks.
StoreInv(d) == CountsFit(d) /\ \A g \in Group : GroupFits(d, g)

\* No outcome is taken back or changed.
Grows(d, e) ==
  \A g \in Group : d.outcome[g].kind # "none" => e.outcome[g] = d.outcome[g]

\* A transaction on the rows of one group.
OneGroup(d, e, g) ==
  /\ e.sealed = d.sealed /\ e.session = d.session
  /\ \A h \in Group \ {g} : /\ e.report[h] = d.report[h]
                            /\ e.analysis[h] = d.analysis[h]
                            /\ e.outcome[h] = d.outcome[h]

\* Tables as the transactions keep them pass every check of an open
\* (validate_capture_time_evidence).
LEMMA StoreAccepted ==
  ASSUME NEW d \in Db, StoreInv(d)
  PROVE  Audit(d)
<1> PICK s : s = d.session
  OBVIOUS
<1>1. s \in SessionRow /\ CountsFit(d)
  BY DEF Db, StoreInv
<1>2. SessionBounds(d) /\ BudgetSound(d)
  BY <1>1 DEF SessionBounds, BudgetSound, CountsFit, SessionRow, Ends
<1>3. SessionSound(d)
  <2>1. s.state \in Ends => ~DraftChild(d)
    BY DEF StoreInv, GroupFits, RowsFit, SessionFits, DraftChild
  <2>2. s.state \in Ends => s.fin >= LatestOfSession(d)
    <3> SUFFICES ASSUME s.state \in Ends PROVE LatestOfSession(d) <= s.fin
      <4> PICK L : L = LatestOfSession(d)
        OBVIOUS
      <4> L \in Time /\ s.fin \in Time
        BY <1>1, SessionLatest DEF SessionRow
      <4> QED
        BY Sizes DEF Time
    <3>1. \A g \in Group : SessionFits(d.report[g], d.analysis[g], d.outcome[g], s)
      BY DEF StoreInv, GroupFits, RowsFit
    <3>2. s.at <= s.fin /\ s.fin \in Time /\ s.at \in Time
      BY <1>1 DEF CountsFit, SessionRow
    <3> HIDE DEF Terminal
    <3>3. PICK L : L = LatestOfSession(d)
      OBVIOUS
    <3>4. \A g \in Group :
              /\ Terminal(d.report[g]) => d.report[g].fin <= s.fin
              /\ Terminal(d.analysis[g]) => d.analysis[g].fin <= s.fin
              /\ d.outcome[g].kind # "none" => d.outcome[g].at <= s.fin
      BY <3>1 DEF SessionFits
    <3>5. s.fin >= s.at
      BY <3>2, Sizes DEF Time
    <3> QED
      BY <3>2, <3>3, <3>4, <3>5, SessionLatest
  <2>3. s.state \in Ends => s.fin >= s.at
    BY <1>1, Sizes DEF CountsFit, SessionRow, Time
  <2> QED
    BY <1>1, <2>1, <2>2, <2>3 DEF SessionSound, CountsFit
<1>4. ASSUME NEW g \in Group
      PROVE  /\ Bounded(d, g) /\ CandidatesSupported(d, g) /\ MembersRelated(d, g)
             /\ OutcomeSound(d, g) /\ ReportSound(d, g) /\ AnalysisSound(d, g)
  <2>0. PICK r, a, o : r = d.report[g] /\ a = d.analysis[g] /\ o = d.outcome[g]
    OBVIOUS
  <2>1. r \in ReportRow /\ a \in AnalysisRow /\ o \in OutcomeRow
    BY <2>0 DEF Db
  <2>2. RowsFit(r, a, o, s)
    BY <2>0 DEF StoreInv, GroupFits
  <2>3. r.at \in Int /\ r.fin \in Int /\ a.at \in Int /\ a.fin \in Int /\ o.at \in Int
        /\ s.at \in Int /\ s.fin \in Int
    BY <1>1, <2>1, Sizes DEF ReportRow, AnalysisRow, OutcomeRow, SessionRow, Time
  <2>4. "sources" \in a.parts => a.state # "none" /\ SourcesFit(d, g)
    BY <2>0, <2>2, <2>3 DEF RowsFit, AnalysisFits, SourcesFit
  <2>5. Bounded(d, g)
    <3>1. ReportBounds(d, g) /\ PartsBounds(d, g) /\ RevalidationBounds(d, g)
      BY <2>0, <2>2, <2>3 DEF RowsFit, ReportFits, ReportBounds, PartsBounds,
           RevalidationBounds,
           Terminal, Idle
    <3>2. AnalysisBounds(d, g) /\ SourceBounds(d, g)
      BY <2>0, <2>2, <2>4 DEF RowsFit, AnalysisFits, AnalysisBounds, SourceBounds, Idle
    <3>3. ObservationBounds(d, g) /\ CandidateBounds(d, g) /\ MemberBounds(d, g)
      BY <2>0, <2>2, <2>4 DEF RowsFit, PartsFit, ObservationBounds, ObservationsFit,
           CandidateBounds, MemberBounds
    <3>4. OutcomeBounds(d, g)
      BY <2>0, <2>2, <2>3 DEF RowsFit, OutcomeFits, SessionFits, OutcomeBounds
    <3> QED
      BY <3>1, <3>2, <3>3, <3>4 DEF Bounded
  <2>6. CandidatesSupported(d, g) /\ MembersRelated(d, g)
    BY <2>0, <2>2 DEF RowsFit, PartsFit, CandidatesSupported, CandidatesFit,
         MembersRelated, MembersFit
  <2>7. OutcomeSound(d, g)
    <3>1. r.state \in States /\ a.state \in States
      BY <2>1 DEF ReportRow, AnalysisRow
    <3>2. o.kind # "none" =>
            /\ r.state # "none" => Terminal(r) /\ r.fin <= o.at
            /\ a.state # "none" => Terminal(a) /\ a.fin <= o.at
      BY <2>2, <3>1 DEF RowsFit, OutcomeFits, Terminal, States
    <3> HIDE DEF Terminal
    <3> QED
      BY <2>0, <2>2, <2>3, <3>2 DEF RowsFit, OutcomeFits, OutcomeSound
  <2>8. ReportSound(d, g)
    BY <2>0, <2>2, <2>3 DEF RowsFit, ReportFits, ReportSound, ReportWhole, Terminal
  <2>9. AnalysisSound(d, g)
    BY <2>0, <2>2, <2>3, <2>4 DEF RowsFit, AnalysisFits, AnalysisSound, AnalysisWhole,
         Terminal
  <2> QED
    BY <2>5, <2>6, <2>7, <2>8, <2>9
<1> QED
  BY <1>2, <1>3, <1>4 DEF Audit

\* A transaction on one group's rows keeps the tables when that group's rows
\* still fit and the bytes read stay within the budget.
LEMMA GroupStep ==
  ASSUME NEW d \in Db, NEW e \in Db, NEW g \in Group, StoreInv(d), Draft(d),
         OneGroup(d, e, g), GroupFits(e, g), BytesRead(e) <= MaxReads \div 2
  PROVE  StoreInv(e)
<1>1. \A h \in Group : GroupFits(e, h)
  BY DEF StoreInv, GroupFits, OneGroup
<1>2. CountsFit(e)
  BY DEF StoreInv, CountsFit, OneGroup, Draft, Ends
<1> QED
  BY <1>1, <1>2 DEF StoreInv

\* The bytes charged to the session are those of its reports.
LEMMA SameBytes ==
  ASSUME NEW d \in Db, NEW e \in Db, \A g \in Group : e.report[g].read = d.report[g].read
  PROVE  BytesRead(e) = BytesRead(d)
<1>1. {g \in Group : d.report[g].read = 1} = {g \in Group : e.report[g].read = 1}
  OBVIOUS
<1> QED
  BY <1>1 DEF BytesRead

-----------------------------------------------------------------------------
(* The transactions.                                                       *)

\* begin_capture_time_session keeps the tables.
LEMMA SessionBegun ==
  ASSUME NEW d \in Db, StoreInv(d), NEW t \in Time, CanBeginSession(d, t),
         NEW e, e = BeginSession(d, t)
  PROVE  e \in Db /\ StoreInv(e) /\ Grows(d, e)
<1>1. PICK s : s = [d.session EXCEPT !.state = "draft", !.at = t]
  OBVIOUS
<1>2. /\ s \in SessionRow /\ s.state = "draft" /\ s.at = t /\ s.counts = d.session.counts
      /\ d.session.state = "none" /\ d.session \in SessionRow
  BY <1>1 DEF Db, SessionRow, CanBeginSession
<1>3. e = [d EXCEPT !.session = s]
  BY <1>1 DEF BeginSession, Db, SessionRow
<1>4. /\ e \in Db /\ e.session = s /\ e.sealed = d.sealed /\ e.report = d.report
      /\ e.analysis = d.analysis /\ e.outcome = d.outcome
  BY <1>2, <1>3 DEF Db
<1>5. ASSUME NEW g \in Group PROVE GroupFits(e, g)
  <2>1. GroupFits(d, g)
    BY DEF StoreInv
  <2>2. /\ d.report[g].state = "none" /\ d.analysis[g].state = "none"
        /\ d.outcome[g].kind = "none"
    BY <1>2, <2>1 DEF GroupFits, RowsFit, SessionFits
  <2> QED
    BY <1>2, <1>4, <2>1, <2>2 DEF GroupFits, RowsFit, ReportFits, AnalysisFits,
         OutcomeFits,
         SessionFits, Ends, Idle, Terminal
<1>6. CountsFit(e)
  BY <1>2, <1>4 DEF StoreInv, CountsFit, CanBeginSession, Ends, BytesRead
<1> QED
  BY <1>4, <1>5, <1>6 DEF StoreInv, Grows

\* The counts of a session are numbers of groups.
LEMMA CountsType ==
  ASSUME NEW d \in Db
  PROVE  Counts(d) \in [Kinds -> 0..Groups]
  BY Groupings DEF Counts, Recorded

\* A session ends only after everything in it, and its counts are those of its
\* outcomes.
LEMMA SessionClosed ==
  ASSUME NEW d \in Db, StoreInv(d), Draft(d), ~DraftChild(d), NEW t \in Time,
         t >= LatestOfSession(d), NEW s \in SessionRow, NEW e,
               e = [d EXCEPT !.session = s],
         s.state \in Ends, s.at = d.session.at, s.fin = t,
         s.counts = IF s.state = "abandoned" THEN NoCounts ELSE Counts(d),
         s.state = "complete" => Settled(d) = Group
  PROVE  e \in Db /\ StoreInv(e) /\ Grows(d, e)
<1>1. /\ e \in Db /\ e.session = s /\ e.sealed = d.sealed /\ e.report = d.report
      /\ e.analysis = d.analysis /\ e.outcome = d.outcome
  BY DEF Db
<1>2. PICK L : L = LatestOfSession(d)
  OBVIOUS
<1>3. L \in Time /\ L >= d.session.at /\ L <= t /\ d.session.at \in Time
  BY <1>2, SessionLatest, Sizes DEF Time, Db, SessionRow
<1>4. \A g \in Group : /\ Terminal(d.report[g]) => d.report[g].fin <= L
                       /\ Terminal(d.analysis[g]) => d.analysis[g].fin <= L
                       /\ d.outcome[g].kind # "none" => d.outcome[g].at <= L
  BY <1>2, SessionLatest
<1>5. ASSUME NEW g \in Group PROVE GroupFits(e, g)
  <2>0. PICK r, a, o : r = d.report[g] /\ a = d.analysis[g] /\ o = d.outcome[g]
    OBVIOUS
  <2>1. RowsFit(r, a, o, d.session)
    BY <2>0 DEF StoreInv, GroupFits
  <2>2. r.state # "draft" /\ a.state # "draft"
    BY <2>0 DEF DraftChild
  <2>3. r.fin \in Time /\ a.fin \in Time /\ o.at \in Time
    BY <2>0 DEF Db, ReportRow, AnalysisRow, OutcomeRow
  <2>4. /\ Terminal(r) => r.fin <= t
        /\ Terminal(a) => a.fin <= t
        /\ o.kind # "none" => o.at <= t
    BY <1>3, <1>4, <2>0, <2>3, Sizes DEF Time
  <2> HIDE DEF Terminal
  <2>5. SessionFits(r, a, o, s)
    BY <2>2, <2>4 DEF SessionFits, Ends
  <2>6. ReportFits(r, s) /\ AnalysisFits(r, a, s) /\ PartsFit(a) /\ OutcomeFits(r, a, o,
        s)
    BY <2>1 DEF RowsFit, ReportFits, AnalysisFits, OutcomeFits
  <2> QED
    BY <1>1, <2>0, <2>5, <2>6 DEF GroupFits, RowsFit
<1>6. CountsFit(e)
  <2>1. Counts(e) = Counts(d) /\ Settled(e) = Settled(d) /\ BytesRead(e) = BytesRead(d)
    BY <1>1 DEF Counts, Recorded, Settled, BytesRead
  <2>2. s.at <= s.fin
    BY <1>3, Sizes DEF Time
  <2>3. s.at >= d.sealed
    BY DEF StoreInv, CountsFit, Draft
  <2>4. BytesRead(d) <= MaxReads \div 2
    BY DEF StoreInv, CountsFit
  <2> QED
    BY <1>1, <2>1, <2>2, <2>3, <2>4 DEF CountsFit, Ends
<1> QED
  BY <1>1, <1>5, <1>6 DEF StoreInv, Grows

\* Finalizing a session keeps the tables.
LEMMA SessionFinalized ==
  ASSUME NEW d \in Db, StoreInv(d), NEW t \in Time, NEW end \in {"complete", "partial"},
         CanFinalize(d, end, t), NEW e, e = Finalize(d, end, t)
  PROVE  e \in Db /\ StoreInv(e) /\ Grows(d, e)
<1>1. PICK s : s = [d.session EXCEPT !.state = end, !.fin = t, !.counts = Counts(d)]
  OBVIOUS
<1>2. PICK c : c = Counts(d)
  OBVIOUS
<1>3. c \in [Kinds -> 0..Groups] /\ d.session \in SessionRow
  BY <1>2, CountsType DEF Db
<1>4. /\ s \in SessionRow /\ s.state = end /\ s.at = d.session.at /\ s.fin = t
      /\ s.counts = c
  BY <1>1, <1>2, <1>3 DEF SessionRow, Ends
<1>5. e = [d EXCEPT !.session = s]
  BY <1>1 DEF Finalize
<1>6. Draft(d) /\ ~DraftChild(d) /\ t >= LatestOfSession(d) /\ (end = "complete"
      => Settled(d) = Group)
  BY DEF CanFinalize
<1> QED
  BY <1>2, <1>4, <1>5, <1>6, SessionClosed DEF Ends

\* So does abandoning it.
LEMMA SessionAbandoned ==
  ASSUME NEW d \in Db, StoreInv(d), NEW t \in Time, CanAbandonSession(d, t),
         NEW e, e = AbandonSession(d, t)
  PROVE  e \in Db /\ StoreInv(e) /\ Grows(d, e)
<1>1. PICK s : s = [d.session EXCEPT !.state = "abandoned", !.fin = t]
  OBVIOUS
<1>2. d.session \in SessionRow /\ d.session.counts = NoCounts
  BY DEF Db, StoreInv, CountsFit, CanAbandonSession, Draft
<1>3. /\ s \in SessionRow /\ s.state = "abandoned" /\ s.at = d.session.at /\ s.fin = t
      /\ s.counts = NoCounts
  BY <1>1, <1>2 DEF SessionRow, Ends
<1>4. e = [d EXCEPT !.session = s]
  BY <1>1 DEF AbandonSession, Db, SessionRow
<1>5. Draft(d) /\ ~DraftChild(d) /\ t >= LatestOfSession(d)
  BY DEF CanAbandonSession
<1> QED
  BY <1>3, <1>4, <1>5, SessionClosed DEF Ends

\* The tables with one row of a group replaced.
WithReport(d, g, q)   == [d EXCEPT !.report[g] = q]
WithAnalysis(d, g, q) == [d EXCEPT !.analysis[g] = q]

\* A group's report replaced: nothing else changes.
LEMMA ReportPut ==
  ASSUME NEW d \in Db, NEW g \in Group, NEW q \in ReportRow,
         NEW e, e = WithReport(d, g, q)
  PROVE  /\ e \in Db /\ OneGroup(d, e, g) /\ e.report[g] = q
         /\ e.analysis = d.analysis /\ e.outcome = d.outcome
         /\ \A h \in Group \ {g} : e.report[h] = d.report[h]
<1>1. PICK f : f = [d.report EXCEPT ![g] = q]
  OBVIOUS
<1>2. f \in [Group -> ReportRow] /\ f[g] = q /\ \A h \in Group \ {g} : f[h] = d.report[h]
  BY <1>1 DEF Db
<1>3. e = [d EXCEPT !.report = f]
  BY <1>1 DEF WithReport
<1>4. /\ e \in Db /\ e.report = f /\ e.analysis = d.analysis /\ e.outcome = d.outcome
      /\ e.sealed = d.sealed /\ e.session = d.session
  BY <1>2, <1>3 DEF Db
<1> QED
  BY <1>2, <1>4 DEF OneGroup

\* A group's analysis replaced: nothing else changes.
LEMMA AnalysisPut ==
  ASSUME NEW d \in Db, NEW g \in Group, NEW q \in AnalysisRow,
         NEW e, e = WithAnalysis(d, g, q)
  PROVE  /\ e \in Db /\ OneGroup(d, e, g) /\ e.analysis[g] = q
         /\ e.report = d.report /\ e.outcome = d.outcome
         /\ \A h \in Group \ {g} : e.analysis[h] = d.analysis[h]
<1>1. PICK f : f = [d.analysis EXCEPT ![g] = q]
  OBVIOUS
<1>2. f \in [Group -> AnalysisRow] /\ f[g] = q
      /\ \A h \in Group \ {g} : f[h] = d.analysis[h]
  BY <1>1 DEF Db
<1>3. e = [d EXCEPT !.analysis = f]
  BY <1>1 DEF WithAnalysis
<1>4. /\ e \in Db /\ e.analysis = f /\ e.report = d.report /\ e.outcome = d.outcome
      /\ e.sealed = d.sealed /\ e.session = d.session
  BY <1>2, <1>3 DEF Db
<1> QED
  BY <1>2, <1>4 DEF OneGroup

\* A group's outcome replaced: nothing else changes.
LEMMA OutcomePut ==
  ASSUME NEW d \in Db, NEW g \in Group, NEW k \in Kinds, NEW t \in Time,
         NEW e, e = Record(d, g, k, t)
  PROVE  /\ e \in Db /\ OneGroup(d, e, g)
         /\ e.outcome[g].kind = k /\ e.outcome[g].at = t
         /\ e.report = d.report /\ e.analysis = d.analysis
         /\ \A h \in Group \ {g} : e.outcome[h] = d.outcome[h]
<1>0. PICK q : q = [kind |-> k, at |-> t]
  OBVIOUS
<1>1. PICK f : f = [d.outcome EXCEPT ![g] = q]
  OBVIOUS
<1>2. q \in OutcomeRow /\ q.kind = k /\ q.at = t
  BY <1>0 DEF OutcomeRow
<1>3. f \in [Group -> OutcomeRow] /\ f[g] = q
      /\ \A h \in Group \ {g} : f[h] = d.outcome[h]
  BY <1>1, <1>2 DEF Db
<1>4. e = [d EXCEPT !.outcome = f]
  BY <1>0, <1>1 DEF Record
<1>5. /\ e \in Db /\ e.outcome = f /\ e.report = d.report /\ e.analysis = d.analysis
      /\ e.sealed = d.sealed /\ e.session = d.session
  BY <1>3, <1>4 DEF Db
<1> QED
  BY <1>2, <1>3, <1>5 DEF OneGroup

\* A draft belongs to a draft session, and its group has no outcome yet.
LEMMA DraftSession ==
  ASSUME NEW d \in Db, StoreInv(d), NEW g \in Group,
         "draft" \in {d.report[g].state, d.analysis[g].state}
  PROVE  Draft(d) /\ d.outcome[g].kind = "none"
<1>1. GroupFits(d, g) /\ d.session.state \in {"none", "draft"} \cup Ends
  BY DEF StoreInv, Db, SessionRow
<1> QED
  BY <1>1 DEF GroupFits, RowsFit, SessionFits, OutcomeFits, Draft

\* Beginning a report keeps the tables: its bytes fit the budget and its group
\* has neither report nor outcome.
LEMMA ReportBegun ==
  ASSUME NEW d \in Db, StoreInv(d), NEW g \in Group, NEW n \in 0..1, NEW t \in Time,
         CanBeginReport(d, g, n, t), NEW e, e = BeginReport(d, g, n, t)
  PROVE  /\ e \in Db /\ StoreInv(e) /\ Grows(d, e) /\ OneGroup(d, e, g)
         /\ e.report[g].state = "draft" /\ e.report[g].at = t
         /\ e.report[g].fin = 0
         /\ e.analysis = d.analysis /\ e.outcome = d.outcome
<1>1. PICK q : q = [d.report[g] EXCEPT !.state = "draft", !.at = t, !.read = n]
  OBVIOUS
<1>2. d.report[g] \in ReportRow
  BY DEF Db
<1>3. /\ q \in ReportRow /\ q.state = "draft" /\ q.at = t /\ q.read = n
      /\ q.fin = d.report[g].fin /\ q.parts = d.report[g].parts
  BY <1>1, <1>2 DEF ReportRow, States
<1>4. e = WithReport(d, g, q)
  BY <1>1 DEF BeginReport, WithReport
<1>5. /\ e \in Db /\ OneGroup(d, e, g) /\ e.report[g] = q
      /\ e.analysis = d.analysis /\ e.outcome = d.outcome
      /\ \A h \in Group \ {g} : e.report[h] = d.report[h]
  BY <1>3, <1>4, ReportPut
<1>6. GroupFits(d, g) /\ Draft(d) /\ d.report[g].state = "none"
      /\ d.outcome[g].kind = "none"
      /\ t >= d.session.at
  BY DEF StoreInv, CanBeginReport
<1>7. d.analysis[g].state = "none"
  BY <1>6 DEF GroupFits, RowsFit, AnalysisFits
<1>8. GroupFits(e, g)
  BY <1>3, <1>5, <1>6, <1>7 DEF GroupFits, RowsFit, ReportFits, AnalysisFits, PartsFit,
       OutcomeFits, SessionFits, OneGroup, Draft, Ends, Idle, Terminal
<1>9. BytesRead(e) <= MaxReads \div 2
  <2> DEFINE A == {h \in Group : d.report[h].read = 1}
             B == {h \in Group : e.report[h].read = 1}
  <2>1. IsFiniteSet(A) /\ Cardinality(A) \in Nat /\ BytesRead(d) = Cardinality(A)
        /\ BytesRead(e) = Cardinality(B) /\ A \subseteq Group /\ B \subseteq Group
    BY Groupings, Sizes DEF BytesRead
  <2>2. B \subseteq IF n = 1 THEN A \cup {g} ELSE A
    BY <1>3, <1>5
  <2>3. Cardinality(B) <= Cardinality(A) + n
    <3>1. CASE n = 1
      <4> HIDE DEF A, B
      <4>1. PICK C : C = A \cup {g}
        OBVIOUS
      <4>2. /\ IsFiniteSet(C)
            /\ Cardinality(C) = IF g \in A THEN Cardinality(A) ELSE Cardinality(A) + 1
        BY <2>1, <4>1, FS_AddElement
      <4>3. Cardinality(B) <= Cardinality(C)
        BY <2>2, <3>1, <4>1, <4>2, FS_Subset
      <4>4. Cardinality(B) \in Nat
        BY <2>1, Groupings, Sizes
      <4> QED
        BY <2>1, <3>1, <4>2, <4>3, <4>4
    <3>2. CASE n = 0
      <4>1. Cardinality(B) <= Cardinality(A)
        BY <2>1, <2>2, <3>2, FS_Subset
      <4> HIDE DEF A, B
      <4> QED
        BY <2>1, <3>2, <4>1
    <3> QED
      BY <3>1, <3>2
  <2>4. BytesRead(d) + n <= MaxReads \div 2
    BY DEF CanBeginReport
  <2>5. Cardinality(B) \in Nat /\ MaxReads \div 2 \in Int
    BY <2>1, Groupings, Sizes
  <2> HIDE DEF A, B
  <2> QED
    BY <2>1, <2>3, <2>4, <2>5
<1>10. StoreInv(e)
  BY <1>5, <1>6, <1>8, <1>9, GroupStep
<1>11. e.report[g].fin = 0
  BY <1>3, <1>5, <1>6 DEF GroupFits, RowsFit, ReportFits, Idle
<1> QED
  BY <1>3, <1>5, <1>10, <1>11 DEF Grows

\* A draft report may be replaced by one that keeps its beginning and its
\* bytes.
LEMMA ReportWritten ==
  ASSUME NEW d \in Db, StoreInv(d), NEW g \in Group, d.report[g].state = "draft",
         NEW q \in ReportRow, NEW e, e = WithReport(d, g, q),
         q.read = d.report[g].read, q.at = d.report[g].at, q.state # "none",
         q.state = "draft" => q.fin = 0,
         Terminal(q) => q.fin >= q.at,
         q.state = "sealed" => q.parts = Range(ReportParts)
  PROVE  /\ e \in Db /\ StoreInv(e) /\ Grows(d, e) /\ OneGroup(d, e, g)
         /\ e.report[g] = q /\ e.analysis = d.analysis /\ e.outcome = d.outcome
<1>1. /\ e \in Db /\ OneGroup(d, e, g) /\ e.report[g] = q
      /\ e.analysis = d.analysis /\ e.outcome = d.outcome
      /\ \A h \in Group \ {g} : e.report[h] = d.report[h]
  BY ReportPut
<1>2. Draft(d) /\ d.outcome[g].kind = "none" /\ GroupFits(d, g)
  BY DraftSession DEF StoreInv
<1>3. GroupFits(e, g)
  BY <1>1, <1>2 DEF GroupFits, RowsFit, ReportFits, AnalysisFits, PartsFit,
       OutcomeFits, SessionFits, OneGroup, Draft, Ends, Idle, Terminal
<1>4. BytesRead(e) = BytesRead(d)
  BY <1>1, SameBytes
<1>5. StoreInv(e)
  BY <1>1, <1>2, <1>3, <1>4, GroupStep DEF StoreInv, CountsFit
<1> QED
  BY <1>1, <1>5 DEF Grows

\* Appending rows to a report keeps the tables.
LEMMA ReportAdded ==
  ASSUME NEW d \in Db, StoreInv(d), NEW g \in Group, CanAddToReport(d, g),
         NEW p \in Range(ReportParts), NEW e, e = AddToReport(d, g, p)
  PROVE  /\ e \in Db /\ StoreInv(e) /\ Grows(d, e) /\ OneGroup(d, e, g)
         /\ e.report[g].state = "draft" /\ e.report[g].at = d.report[g].at
         /\ e.report[g].fin = 0
         /\ e.analysis = d.analysis /\ e.outcome = d.outcome
<1>1. PICK q : q = [d.report[g] EXCEPT !.parts = @ \cup {p}]
  OBVIOUS
<1>2. d.report[g] \in ReportRow /\ d.report[g].state = "draft" /\ d.report[g].fin = 0
  BY DEF Db, CanAddToReport, StoreInv, GroupFits, RowsFit, ReportFits, Idle
<1>3. /\ q \in ReportRow /\ q.state = "draft" /\ q.at = d.report[g].at
      /\ q.read = d.report[g].read /\ q.fin = 0
  BY <1>1, <1>2 DEF ReportRow
<1>4. e = WithReport(d, g, q)
  BY <1>1, <1>2 DEF AddToReport, WithReport, Db, ReportRow
<1> QED
  BY <1>2, <1>3, <1>4, ReportWritten DEF Terminal

\* A draft report ends sealed, if it is whole, or abandoned, not before it
\* began.
LEMMA ReportEnded ==
  ASSUME NEW d \in Db, StoreInv(d), NEW g \in Group, NEW t \in Time,
         NEW end \in {"sealed", "abandoned"},
         end = "sealed" => ReportWhole(d, g),
         d.report[g].state = "draft", t >= d.report[g].at,
         NEW q \in ReportRow, q.state = end, q.at = d.report[g].at, q.fin = t,
         q.read = d.report[g].read, q.parts = d.report[g].parts,
         NEW e, e = WithReport(d, g, q)
  PROVE  /\ e \in Db /\ StoreInv(e) /\ Grows(d, e) /\ OneGroup(d, e, g)
         /\ e.report[g].state = end /\ e.report[g].at = d.report[g].at
         /\ e.report[g].fin = t
         /\ e.analysis = d.analysis /\ e.outcome = d.outcome
<1>3. /\ Terminal(q) => q.fin >= q.at
      /\ q.state = "sealed" => q.parts = Range(ReportParts)
      /\ q.state # "draft" /\ q.state # "none"
  BY DEF ReportWhole
<1>4. /\ e \in Db /\ StoreInv(e) /\ Grows(d, e) /\ OneGroup(d, e, g)
      /\ e.report[g] = q /\ e.analysis = d.analysis /\ e.outcome = d.outcome
  BY <1>3, ReportWritten
<1> QED
  BY <1>4

\* Sealing a report keeps the tables.
LEMMA ReportSealed ==
  ASSUME NEW d \in Db, StoreInv(d), NEW g \in Group, NEW t \in Time,
         CanSealReport(d, g, t), NEW e, e = SealReport(d, g, t)
  PROVE  /\ e \in Db /\ StoreInv(e) /\ Grows(d, e) /\ OneGroup(d, e, g)
         /\ e.report[g].state = "sealed" /\ e.report[g].at = d.report[g].at
         /\ e.report[g].fin = t
         /\ e.analysis = d.analysis /\ e.outcome = d.outcome
<1>1. PICK r : r = d.report[g]
  OBVIOUS
<1>2. PICK q : q = [r EXCEPT !.state = "sealed", !.fin = t]
  OBVIOUS
<1>3. r \in ReportRow
  BY <1>1 DEF Db
<1>4. /\ q \in ReportRow /\ q.state = "sealed" /\ q.at = r.at /\ q.fin = t
      /\ q.read = r.read /\ q.parts = r.parts
  BY <1>2, <1>3 DEF ReportRow, States
<1>5. e = WithReport(d, g, q)
  BY <1>1, <1>2 DEF SealReport, WithReport
<1>6. ReportWhole(d, g) /\ r.state = "draft" /\ t >= r.at
  BY <1>1 DEF CanSealReport, CanAddToReport
<1> QED
  BY <1>1, <1>4, <1>5, <1>6, ReportEnded

\* So does abandoning it.
LEMMA ReportAbandoned ==
  ASSUME NEW d \in Db, StoreInv(d), NEW g \in Group, NEW t \in Time,
         CanAbandonReport(d, g, t), NEW e, e = AbandonReport(d, g, t)
  PROVE  /\ e \in Db /\ StoreInv(e) /\ Grows(d, e) /\ OneGroup(d, e, g)
         /\ e.report[g].state = "abandoned" /\ e.report[g].at = d.report[g].at
         /\ e.report[g].fin = t
         /\ e.analysis = d.analysis /\ e.outcome = d.outcome
<1>1. PICK r : r = d.report[g]
  OBVIOUS
<1>2. PICK q : q = [r EXCEPT !.state = "abandoned", !.fin = t]
  OBVIOUS
<1>3. r \in ReportRow
  BY <1>1 DEF Db
<1>4. /\ q \in ReportRow /\ q.state = "abandoned" /\ q.at = r.at /\ q.fin = t
      /\ q.read = r.read /\ q.parts = r.parts
  BY <1>2, <1>3 DEF ReportRow, States
<1>5. e = WithReport(d, g, q)
  BY <1>1, <1>2 DEF AbandonReport, WithReport
<1>6. r.state = "draft" /\ t >= r.at
  BY <1>1 DEF CanAbandonReport
<1> QED
  BY <1>1, <1>4, <1>5, <1>6, ReportEnded

\* Beginning an analysis over a sealed report keeps the tables.
LEMMA AnalysisBegun ==
  ASSUME NEW d \in Db, StoreInv(d), NEW g \in Group, NEW t \in Time,
         CanBeginAnalysis(d, g, t), d.report[g].state = "sealed",
         NEW e, e = BeginAnalysis(d, g, t)
  PROVE  /\ e \in Db /\ StoreInv(e) /\ Grows(d, e) /\ OneGroup(d, e, g)
         /\ e.analysis[g].state = "draft" /\ e.analysis[g].at = t
         /\ e.analysis[g].fin = 0
         /\ e.report = d.report /\ e.outcome = d.outcome
<1>1. PICK q : q = [d.analysis[g] EXCEPT !.state = "draft", !.at = t]
  OBVIOUS
<1>2. d.analysis[g] \in AnalysisRow
  BY DEF Db
<1>3. /\ q \in AnalysisRow /\ q.state = "draft" /\ q.at = t
      /\ q.fin = d.analysis[g].fin /\ q.parts = d.analysis[g].parts
  BY <1>1, <1>2 DEF AnalysisRow, States
<1>4. e = WithAnalysis(d, g, q)
  BY <1>1 DEF BeginAnalysis, WithAnalysis
<1>5. /\ e \in Db /\ OneGroup(d, e, g) /\ e.analysis[g] = q
      /\ e.report = d.report /\ e.outcome = d.outcome
      /\ \A h \in Group \ {g} : e.analysis[h] = d.analysis[h]
  BY <1>3, <1>4, AnalysisPut
<1>6. GroupFits(d, g) /\ Draft(d) /\ d.analysis[g].state = "none"
      /\ d.outcome[g].kind = "none"
      /\ t >= d.session.at
  BY DEF StoreInv, CanBeginAnalysis
<1>7. q.parts = {} /\ q.fin = 0
  BY <1>3, <1>6 DEF GroupFits, RowsFit, AnalysisFits, Idle
<1>8. GroupFits(e, g)
  BY <1>3, <1>5, <1>6, <1>7 DEF GroupFits, RowsFit, ReportFits, AnalysisFits, PartsFit,
       OutcomeFits, SessionFits, OneGroup, Draft, Ends, Idle, Terminal
<1>9. BytesRead(e) <= MaxReads \div 2
  BY <1>5, SameBytes DEF StoreInv, CountsFit
<1>10. StoreInv(e)
  BY <1>5, <1>6, <1>8, <1>9, GroupStep
<1> QED
  BY <1>3, <1>5, <1>7, <1>10 DEF Grows

\* Appending rows to an analysis keeps the tables: each kind of row refers to
\* rows already there.
LEMMA AnalysisAdded ==
  ASSUME NEW d \in Db, StoreInv(d), NEW g \in Group, NEW p \in Range(AnalysisParts),
         NEW fit, CanAddToAnalysis(d, g, p, fit), NEW e, e = AddToAnalysis(d, g, p)
  PROVE  /\ e \in Db /\ StoreInv(e) /\ Grows(d, e) /\ OneGroup(d, e, g)
         /\ e.analysis[g].state = "draft" /\ e.analysis[g].at = d.analysis[g].at
         /\ e.analysis[g].fin = 0
         /\ e.report = d.report /\ e.outcome = d.outcome
<1>1. PICK q : q = [d.analysis[g] EXCEPT !.parts = @ \cup {p}]
  OBVIOUS
<1>2. d.analysis[g] \in AnalysisRow
  BY DEF Db
<1>3. /\ q \in AnalysisRow /\ q.state = d.analysis[g].state /\ q.at = d.analysis[g].at
      /\ q.fin = d.analysis[g].fin /\ q.parts = d.analysis[g].parts \cup {p}
  BY <1>1, <1>2 DEF AnalysisRow
<1>4. e = WithAnalysis(d, g, q)
  BY <1>1 DEF AddToAnalysis, WithAnalysis
<1>5. /\ e \in Db /\ OneGroup(d, e, g) /\ e.analysis[g] = q
      /\ e.report = d.report /\ e.outcome = d.outcome
      /\ \A h \in Group \ {g} : e.analysis[h] = d.analysis[h]
  BY <1>3, <1>4, AnalysisPut
<1>6. GroupFits(d, g) /\ Draft(d) /\ d.analysis[g].state = "draft"
  BY DEF StoreInv, CanAddToAnalysis
<1>7. p = "sources" => d.analysis[g].at >= d.report[g].fin
  BY DEF CanAddToAnalysis, SourcesFit
<1>8. PartsFit(q)
  <2>1. PartsFit(d.analysis[g])
    BY <1>6 DEF GroupFits, RowsFit
  <2>2. /\ p = "observations" => "sources" \in d.analysis[g].parts
        /\ p = "candidates" => "observations" \in d.analysis[g].parts
        /\ p = "issues" => "observations" \in d.analysis[g].parts
        /\ p = "members" => "candidates" \in d.analysis[g].parts
    BY DEF CanAddToAnalysis, ObservationsFit, CandidatesFit, IssuesFit, MembersFit
  <2> QED
    BY <1>3, <2>1, <2>2 DEF PartsFit
<1>9. GroupFits(e, g)
  BY <1>3, <1>5, <1>6, <1>7, <1>8 DEF GroupFits, RowsFit, ReportFits, AnalysisFits,
       OutcomeFits, SessionFits, OneGroup, Draft, Ends, Idle, Terminal
<1>10. BytesRead(e) <= MaxReads \div 2
  BY <1>5, SameBytes DEF StoreInv, CountsFit
<1>11. StoreInv(e)
  BY <1>5, <1>6, <1>9, <1>10, GroupStep
<1>12. q.fin = 0
  BY <1>3, <1>6 DEF GroupFits, RowsFit, AnalysisFits, Idle
<1> QED
  BY <1>3, <1>5, <1>6, <1>11, <1>12 DEF Grows

\* Recording an outcome without evidence keeps the tables, and repeats the one
\* the group has, if any.
LEMMA OutcomeRecorded ==
  ASSUME NEW d \in Db, StoreInv(d), NEW g \in Group, NEW k \in {"unavailable", "failed"},
         NEW t \in Time, CanRecord(d, g, k, t), NEW e, e = Record(d, g, k, t)
  PROVE  /\ e \in Db /\ StoreInv(e) /\ Grows(d, e) /\ OneGroup(d, e, g)
         /\ e.outcome[g].kind = k /\ e.outcome[g].at = t
         /\ e.report = d.report /\ e.analysis = d.analysis
<1>1. k \in Kinds
  BY DEF Kinds
<1>2. /\ e \in Db /\ OneGroup(d, e, g)
      /\ e.outcome[g].kind = k /\ e.outcome[g].at = t
      /\ e.report = d.report /\ e.analysis = d.analysis
      /\ \A h \in Group \ {g} : e.outcome[h] = d.outcome[h]
  BY <1>1, OutcomePut
<1>3. Draft(d) /\ GroupFits(d, g) /\ d.report[g].state # "draft"
      /\ d.analysis[g].state # "draft" /\ d.analysis[g].state # "sealed"
  BY DEF StoreInv, CanRecord
<1>4. t >= d.session.at /\ (Terminal(d.report[g]) => d.report[g].fin <= t)
      /\ (Terminal(d.analysis[g]) => d.analysis[g].fin <= t)
  <2>1. PICK L : L = LatestOfGroup(d, g)
    OBVIOUS
  <2>2. t >= L
    BY <2>1 DEF CanRecord
  <2>3. /\ d.session.at \in Time /\ d.report[g].fin \in Time /\ d.analysis[g].fin \in Time
    BY DEF Db, SessionRow, ReportRow, AnalysisRow
  <2>4. /\ L \in Time /\ L >= d.session.at
        /\ Terminal(d.report[g]) => d.report[g].fin <= L
        /\ Terminal(d.analysis[g]) => d.analysis[g].fin <= L
    BY <2>1, GroupLatest
  <2> HIDE DEF Terminal
  <2> QED
    BY <2>2, <2>3, <2>4, Sizes DEF Time
<1>5. GroupFits(e, g)
  <2> HIDE DEF Terminal
  <2> QED
    BY <1>2, <1>3, <1>4 DEF GroupFits, RowsFit, ReportFits, AnalysisFits,
         OutcomeFits, SessionFits, OneGroup, Draft, Ends
<1>6. BytesRead(e) <= MaxReads \div 2
  BY <1>2, SameBytes DEF StoreInv, CountsFit
<1>7. StoreInv(e)
  BY <1>2, <1>3, <1>5, <1>6, GroupStep
<1>8. Grows(d, e)
  <2>1. d.outcome[g].kind # "none" => e.outcome[g] = d.outcome[g]
    <3>1. PICK q : q = [kind |-> k, at |-> t]
      OBVIOUS
    <3>2. d.outcome[g].kind # "none" => d.outcome[g] = q
      BY <3>1 DEF CanRecord
    <3>3. e.outcome[g] = q
      BY <3>1 DEF Record, Db
    <3> QED
      BY <3>2, <3>3
  <2> QED
    BY <1>2, <2>1 DEF Grows
<1> QED
  BY <1>2, <1>7, <1>8

\* An analysis ends together with the outcome of its group, at the same time.
LEMMA AnalysisEnded ==
  ASSUME NEW d \in Db, StoreInv(d), NEW g \in Group, NEW t \in Time,
         Draft(d), d.analysis[g].state = "draft", d.outcome[g].kind = "none",
         t >= d.analysis[g].at, t >= LatestOfGroup(d, g),
         NEW end \in {"sealed", "abandoned"},
         end = "sealed" => AnalysisWhole(d, g),
         NEW k \in Kinds, k = IF end = "sealed" THEN "evidence" ELSE "failed",
         NEW c, c = Record(d, g, k, t),
         NEW q \in AnalysisRow, q.state = end, q.at = d.analysis[g].at, q.fin = t,
         q.parts = d.analysis[g].parts,
         NEW e, e = WithAnalysis(c, g, q)
  PROVE  /\ e \in Db /\ StoreInv(e) /\ Grows(d, e) /\ OneGroup(d, e, g)
         /\ e.analysis[g].state = end /\ e.analysis[g].fin = t
         /\ e.analysis[g].at = d.analysis[g].at
         /\ e.outcome[g].kind = k /\ e.outcome[g].at = t
         /\ e.report = d.report
<1>1. d.analysis[g] \in AnalysisRow /\ GroupFits(d, g)
  BY DEF Db, StoreInv
<1>3. /\ c \in Db /\ OneGroup(d, c, g)
      /\ c.outcome[g].kind = k /\ c.outcome[g].at = t
      /\ c.report = d.report /\ c.analysis = d.analysis
  BY OutcomePut
<1>4. /\ e \in Db /\ OneGroup(c, e, g) /\ e.analysis[g] = q
      /\ e.report = c.report /\ e.outcome = c.outcome
  BY <1>3, AnalysisPut
<1>5. OneGroup(d, e, g)
  BY <1>3, <1>4 DEF OneGroup
<1>6. t >= d.session.at /\ (Terminal(d.report[g]) => d.report[g].fin <= t)
  <2>1. PICK L : L = LatestOfGroup(d, g)
    OBVIOUS
  <2>2. t >= L
    BY <2>1
  <2>3. d.session.at \in Time /\ d.report[g].fin \in Time
    BY DEF Db, SessionRow, ReportRow
  <2>4. /\ L \in Time /\ L >= d.session.at
        /\ Terminal(d.report[g]) => d.report[g].fin <= L
    BY <2>1, GroupLatest
  <2> HIDE DEF Terminal
  <2> QED
    BY <2>2, <2>3, <2>4, Sizes DEF Time
<1>7. d.report[g].state = "sealed"
  BY <1>1 DEF GroupFits, RowsFit, AnalysisFits
<1>8. end = "sealed" => q.parts = Range(AnalysisParts)
  BY DEF AnalysisWhole
<1>9. t <= t
  BY Sizes DEF Time
<1>10. GroupFits(e, g)
  <2>1. Terminal(q) /\ Terminal(d.report[g])
    BY <1>7 DEF Terminal
  <2>2. ~ Idle(q)
    BY DEF Idle
  <2>3. e.report[g] = d.report[g] /\ e.outcome[g].kind = k /\ e.outcome[g].at = t
        /\ e.analysis[g] = q
        /\ e.session = d.session
    BY <1>3, <1>4, <1>5 DEF OneGroup
  <2>4. ReportFits(d.report[g], d.session)
    BY <1>1 DEF GroupFits, RowsFit
  <2>5. AnalysisFits(d.report[g], q, d.session) /\ PartsFit(q)
    BY <1>1, <1>7, <1>8, <2>2 DEF GroupFits, RowsFit, AnalysisFits, PartsFit
  <2>6. OutcomeFits(d.report[g], q, e.outcome[g], d.session)
    BY <1>6, <1>7, <1>9, <2>1, <2>3 DEF OutcomeFits, Kinds
  <2>7. SessionFits(d.report[g], q, e.outcome[g], d.session)
    BY DEF SessionFits, Draft, Ends
  <2> QED
    BY <2>3, <2>4, <2>5, <2>6, <2>7 DEF GroupFits, RowsFit
<1>11. BytesRead(e) <= MaxReads \div 2
  BY <1>3, <1>4, SameBytes DEF StoreInv, CountsFit
<1>12. StoreInv(e)
  BY <1>4, <1>5, <1>10, <1>11, GroupStep
<1>13. Grows(d, e)
  BY <1>3, <1>4 DEF Grows, OneGroup
<1> QED
  BY <1>3, <1>4, <1>5, <1>12, <1>13

\* Sealing an analysis, with its outcome, keeps the tables.
LEMMA AnalysisSealed ==
  ASSUME NEW d \in Db, StoreInv(d), NEW g \in Group, NEW t \in Time,
         CanSealAnalysis(d, g, t), NEW e, e = SealAnalysis(d, g, t)
  PROVE  /\ e \in Db /\ StoreInv(e) /\ Grows(d, e) /\ OneGroup(d, e, g)
         /\ e.analysis[g].state = "sealed" /\ e.analysis[g].fin = t
         /\ e.analysis[g].at = d.analysis[g].at
         /\ e.outcome[g].kind = "evidence" /\ e.outcome[g].at = t
         /\ e.report = d.report
<1>1. PICK a : a = d.analysis[g]
  OBVIOUS
<1>2. PICK q : q = [a EXCEPT !.state = "sealed", !.fin = t]
  OBVIOUS
<1>3. PICK c : c = Record(d, g, "evidence", t)
  OBVIOUS
<1>4. a \in AnalysisRow
  BY <1>1 DEF Db
<1>5. /\ q \in AnalysisRow /\ q.state = "sealed" /\ q.at = a.at /\ q.fin = t
      /\ q.parts = a.parts
  BY <1>2, <1>4 DEF AnalysisRow, States
<1>6. c.analysis = d.analysis
  BY <1>3, OutcomePut DEF Kinds
<1>7. e = WithAnalysis(c, g, q)
  BY <1>1, <1>2, <1>3, <1>6 DEF SealAnalysis, WithAnalysis
<1>8. PICK L : L = LatestOfGroup(d, g)
  OBVIOUS
<1>9. L \in Time /\ a.at \in Time
  BY <1>4, <1>8, GroupLatest DEF AnalysisRow
<1>10. Draft(d) /\ a.state = "draft" /\ d.outcome[g].kind = "none" /\ AnalysisWhole(d, g)
  BY <1>1 DEF CanSealAnalysis
<1>11. t >= a.at /\ t >= L
  <2>1. PICK S : S = {a.at, L}
    OBVIOUS
  <2>2. S \in SUBSET Time /\ a.at \in S /\ L \in S
    BY <1>9, <2>1
  <2>3. PICK M : M = Max(S)
    OBVIOUS
  <2>4. M \in Time /\ a.at <= M /\ L <= M
    BY <2>2, <2>3, MaxIs, Sizes DEF Time
  <2>5. t >= M
    BY <1>1, <1>8, <2>1, <2>3 DEF CanSealAnalysis
  <2> QED
    BY <1>9, <2>4, <2>5, Sizes DEF Time
<1> QED
  BY <1>1, <1>3, <1>5, <1>7, <1>8, <1>10, <1>11, AnalysisEnded DEF Kinds

\* So does abandoning it, with the failure it records.
LEMMA AnalysisAbandoned ==
  ASSUME NEW d \in Db, StoreInv(d), NEW g \in Group, NEW t \in Time,
         CanAbandonAnalysis(d, g, t), NEW e, e = AbandonAnalysis(d, g, t)
  PROVE  /\ e \in Db /\ StoreInv(e) /\ Grows(d, e) /\ OneGroup(d, e, g)
         /\ e.analysis[g].state = "abandoned" /\ e.analysis[g].fin = t
         /\ e.analysis[g].at = d.analysis[g].at
         /\ e.outcome[g].kind = "failed" /\ e.outcome[g].at = t
         /\ e.report = d.report
<1>1. PICK a : a = d.analysis[g]
  OBVIOUS
<1>2. PICK q : q = [a EXCEPT !.state = "abandoned", !.fin = t]
  OBVIOUS
<1>3. PICK c : c = Record(d, g, "failed", t)
  OBVIOUS
<1>4. a \in AnalysisRow
  BY <1>1 DEF Db
<1>5. /\ q \in AnalysisRow /\ q.state = "abandoned" /\ q.at = a.at /\ q.fin = t
      /\ q.parts = a.parts
  BY <1>2, <1>4 DEF AnalysisRow, States
<1>6. c.analysis = d.analysis
  BY <1>3, OutcomePut DEF Kinds
<1>7. e = WithAnalysis(c, g, q)
  BY <1>1, <1>2, <1>3, <1>6 DEF AbandonAnalysis, WithAnalysis
<1>8. PICK L : L = LatestOfGroup(d, g)
  OBVIOUS
<1>9. L \in Time /\ a.at \in Time
  BY <1>4, <1>8, GroupLatest DEF AnalysisRow
<1>10. Draft(d) /\ a.state = "draft" /\ d.outcome[g].kind = "none"
  BY <1>1 DEF CanAbandonAnalysis
<1>11. t >= a.at /\ t >= L
  <2>1. PICK S : S = {a.at, L}
    OBVIOUS
  <2>2. S \in SUBSET Time /\ a.at \in S /\ L \in S
    BY <1>9, <2>1
  <2>3. PICK M : M = Max(S)
    OBVIOUS
  <2>4. M \in Time /\ a.at <= M /\ L <= M
    BY <2>2, <2>3, MaxIs, Sizes DEF Time
  <2>5. t >= M
    BY <1>1, <1>8, <2>1, <2>3 DEF CanAbandonAnalysis
  <2> QED
    BY <1>9, <2>4, <2>5, Sizes DEF Time
<1> QED
  BY <1>1, <1>3, <1>5, <1>7, <1>8, <1>10, <1>11, AnalysisEnded DEF Kinds

\* The recovery of an open abandons a draft no earlier than it began and leaves
\* other rows alone.
LEMMA RowEnded ==
  ASSUME NEW r, r \in ReportRow \/ r \in AnalysisRow, NEW t \in Time, NEW q, q = Ended(r,
         t)
  PROVE  /\ r \in ReportRow => q \in ReportRow /\ q.read = r.read
         /\ r \in AnalysisRow => q \in AnalysisRow
         /\ q.at = r.at /\ q.parts = r.parts
         /\ r.state # "draft" => q = r
         /\ r.state = "draft" => /\ q.state = "abandoned" /\ q.fin >= q.at
                                 /\ q.fin \in Time /\ (q.fin = t \/ q.fin = r.at)
<1>1. r.at \in Time
  BY DEF ReportRow, AnalysisRow
<1>2. PICK S : S = {r.at, t}
  OBVIOUS
<1>3. PICK M : M = Max(S)
  OBVIOUS
<1>4. M \in S /\ M \in Time /\ r.at <= M
  <2>1. S \in SUBSET Time /\ r.at \in S
    BY <1>1, <1>2
  <2> QED
    BY <2>1, <1>3, MaxIs, Sizes DEF Time
<1>5. q = IF r.state = "draft" THEN [r EXCEPT !.state = "abandoned", !.fin = M] ELSE r
  BY <1>2, <1>3 DEF Ended
<1>6. CASE r.state # "draft"
  BY <1>5, <1>6
<1>7. CASE r.state = "draft"
  <2>1. q = [r EXCEPT !.state = "abandoned", !.fin = M]
    BY <1>5, <1>7
  <2>2. /\ q.at = r.at /\ q.parts = r.parts /\ q.state = "abandoned" /\ q.fin = M
        /\ r \in ReportRow => q \in ReportRow /\ q.read = r.read
        /\ r \in AnalysisRow => q \in AnalysisRow
    BY <1>4, <2>1 DEF ReportRow, AnalysisRow, States
  <2> QED
    BY <1>1, <1>2, <1>4, <1>7, <2>2, Sizes DEF Time
<1> QED
  BY <1>6, <1>7

\* The recovery of an open keeps the tables, every outcome, and a session that
\* had ended (reconcile_stale_scan_sessions).
LEMMA Reopening ==
  ASSUME NEW d \in Db, StoreInv(d), NEW t \in Time, NEW e, e = Reconciled(d, t)
  PROVE  /\ e \in Db /\ StoreInv(e) /\ e.outcome = d.outcome
         /\ d.session.state # "draft" => e.session = d.session
         /\ \A g \in Group : d.analysis[g].state # "draft"
              => e.analysis[g] = d.analysis[g]
         /\ \A g \in Group : d.report[g].state # "draft" => e.report[g] = d.report[g]
<1>1. PICK F, G : /\ F = [g \in Group |-> Ended(d.report[g], t)]
                  /\ G = [g \in Group |-> Ended(d.analysis[g], t)]
  OBVIOUS
<1>2. PICK c : c = [d EXCEPT !.report = F, !.analysis = G]
  OBVIOUS
<1>3. \A g \in Group : d.report[g] \in ReportRow /\ d.analysis[g] \in AnalysisRow
  BY DEF Db
<1>4. ASSUME NEW g \in Group
      PROVE  /\ F[g] \in ReportRow /\ F[g].read = d.report[g].read
             /\ F[g].at = d.report[g].at /\ F[g].parts = d.report[g].parts
             /\ d.report[g].state # "draft" => F[g] = d.report[g]
             /\ d.report[g].state = "draft" => F[g].state = "abandoned"
                  /\ F[g].fin >= F[g].at
             /\ G[g] \in AnalysisRow
             /\ G[g].at = d.analysis[g].at /\ G[g].parts = d.analysis[g].parts
             /\ d.analysis[g].state # "draft" => G[g] = d.analysis[g]
             /\ d.analysis[g].state = "draft" => G[g].state = "abandoned"
                  /\ G[g].fin >= G[g].at
  <2>0. PICK r, a, q, b : /\ r = d.report[g] /\ a = d.analysis[g]
                          /\ q = F[g] /\ b = G[g]
    OBVIOUS
  <2>1. q = Ended(r, t) /\ b = Ended(a, t)
    BY <1>1, <2>0
  <2>2. r \in ReportRow /\ a \in AnalysisRow
    BY <1>3, <2>0
  <2>3. /\ q \in ReportRow /\ q.read = r.read /\ q.at = r.at /\ q.parts = r.parts
        /\ r.state # "draft" => q = r
        /\ r.state = "draft" => q.state = "abandoned" /\ q.fin >= q.at
    BY <2>1, <2>2, RowEnded
  <2>4. /\ b \in AnalysisRow /\ b.at = a.at /\ b.parts = a.parts
        /\ a.state # "draft" => b = a
        /\ a.state = "draft" => b.state = "abandoned" /\ b.fin >= b.at
    BY <2>1, <2>2, RowEnded
  <2> QED
    BY <2>0, <2>3, <2>4
<1>5. F \in [Group -> ReportRow] /\ G \in [Group -> AnalysisRow]
  <2>1. DOMAIN F = Group /\ DOMAIN G = Group
    BY <1>1
  <2>2. /\ F = [g \in Group |-> F[g]] /\ G = [g \in Group |-> G[g]]
    BY <1>1
  <2> QED
    BY <1>4, <2>2
<1>6. /\ c \in Db /\ c.report = F /\ c.analysis = G /\ c.outcome = d.outcome
      /\ c.session = d.session /\ c.sealed = d.sealed
  BY <1>2, <1>5 DEF Db
<1>7. ~DraftChild(c)
  BY <1>4, <1>6 DEF DraftChild
<1>8. ASSUME NEW g \in Group PROVE GroupFits(c, g)
  <2>0. PICK r, a, o, s, q, b : /\ r = d.report[g] /\ a = d.analysis[g]
        /\ o = d.outcome[g]
                                /\ s = d.session /\ q = F[g] /\ b = G[g]
    OBVIOUS
  <2>1. RowsFit(r, a, o, s)
    BY <2>0 DEF StoreInv, GroupFits
  <2>2. /\ q.at = r.at /\ q.parts = r.parts
        /\ r.state # "draft" => q = r
        /\ r.state = "draft" => q.state = "abandoned" /\ q.fin >= q.at
        /\ b.at = a.at /\ b.parts = a.parts
        /\ a.state # "draft" => b = a
        /\ a.state = "draft" => b.state = "abandoned" /\ b.fin >= b.at
    BY <1>4, <2>0
  <2>3. ReportFits(q, s)
    BY <2>1, <2>2 DEF RowsFit, ReportFits, Idle, Terminal
  <2>4. AnalysisFits(q, b, s)
    BY <2>1, <2>2 DEF RowsFit, ReportFits, AnalysisFits, PartsFit, Idle, Terminal
  <2>5. PartsFit(b)
    BY <2>1, <2>2 DEF RowsFit, PartsFit
  <2>6. OutcomeFits(q, b, o, s)
    BY <2>1, <2>2 DEF RowsFit, OutcomeFits
  <2>7. SessionFits(q, b, o, s)
    BY <2>1, <2>2 DEF RowsFit, SessionFits
  <2> QED
    BY <1>6, <2>0, <2>3, <2>4, <2>5, <2>6, <2>7 DEF GroupFits, RowsFit
<1>9. CountsFit(c)
  <2>1. BytesRead(c) = BytesRead(d)
    BY <1>4, <1>6, SameBytes
  <2>2. Counts(c) = Counts(d) /\ Settled(c) = Settled(d)
    BY <1>6 DEF Counts, Recorded, Settled
  <2> QED
    BY <1>6, <2>1, <2>2 DEF StoreInv, CountsFit
<1>10. StoreInv(c)
  BY <1>8, <1>9 DEF StoreInv
<1>11. PICK L : L = LatestOfSession(c)
  OBVIOUS
<1>12. PICK S : S = {t, L}
  OBVIOUS
<1>13. PICK M : M = Max(S)
  OBVIOUS
<1>14. M \in Time /\ M >= L
  <2>1. L \in Time
    BY <1>6, <1>11, SessionLatest
  <2>2. S \in SUBSET Time /\ L \in S
    BY <1>12, <2>1
  <2> QED
    BY <1>13, <2>1, <2>2, MaxIs, Sizes DEF Time
<1>15. e = IF Draft(d) THEN AbandonSession(c, M) ELSE c
  BY <1>1, <1>2, <1>11, <1>12, <1>13 DEF Reconciled
<1>16. CASE ~Draft(d)
  BY <1>4, <1>6, <1>10, <1>15, <1>16 DEF Draft
<1>17. CASE Draft(d)
  <2>1. e = AbandonSession(c, M)
    BY <1>15, <1>17
  <2>2. CanAbandonSession(c, M)
    BY <1>6, <1>7, <1>11, <1>14, <1>17 DEF CanAbandonSession, Draft
  <2>3. e \in Db /\ StoreInv(e)
    BY <1>6, <1>10, <1>14, <2>1, <2>2, SessionAbandoned
  <2>4. e.outcome = d.outcome /\ e.report = F /\ e.analysis = G
    BY <1>6, <2>1 DEF AbandonSession, Db
  <2> QED
    BY <1>4, <1>17, <2>3, <2>4 DEF Draft
<1> QED
  BY <1>16, <1>17

-----------------------------------------------------------------------------
(* The stage and its tables.                                               *)

\* The runtime's stage.
StageRow == [at: Places, g: 1..(Groups + 1), tried: 0..Probes, part: 0..6,
             evidence: Evidence, read: 0..1, reserved: 0..MaxReads,
             report: BOOLEAN, analysis: BOOLEAN,
             status: {"completed", "partial", "unavailable"},
             written: [Kinds -> Nat]]

\* Places by what they say: the groups are behind the stage; no parts are being
\* written; a group is in hand; drafts may be left.
Closed  == {"stop", "finalize", "abandon", "done", "reopened"}
Ordered == {"guard", "begin", "next", "probe", "write", "report", "reportSeal",
            "analysis", "analysisSeal"}
Inside  == {"probe", "write", "report", "reportParts", "reportSeal", "analysis",
            "analysisParts", "analysisSeal", "clean", "failed"}

\* The types of the variables.
TypeInv ==
  /\ now \in Time /\ backs \in 0..MaxBacks /\ faults \in 0..MaxFaults
  /\ cancelled \in BOOLEAN
  /\ db \in Db /\ stage \in StageRow

\* The tables are as every transaction leaves them.
TablesInv == StoreInv(db)

\* The places a known draft may be taken to.
Held == {"clean", "stop", "done", "reopened"}

\* The place of a stage says what of its locals is in use and which drafts it
\* may know, and an analysis is written only over a sealed report.
Placed(d, s) ==
  /\ s.at \in Inside => s.g \in Group
  /\ s.at \in Ordered => s.part = 0
  /\ s.at = "reportParts" => s.part \in 0..1
  /\ s.at = "analysisParts" => s.part \in 0..5
  /\ s.at \in {"guard", "begin", "next"} => s.tried = 0
  /\ s.at = "probe" => s.tried < Probes
  /\ s.at \in {"analysis", "analysisParts", "analysisSeal"} =>
       d.report[s.g].state = "sealed"
  /\ s.report => s.at \in Held \cup {"reportParts", "reportSeal"}
  /\ s.analysis => s.at \in Held \cup {"analysisParts", "analysisSeal"}
  /\ s.report \/ s.analysis => s.g \in Group /\ ~(s.report /\ s.analysis)

\* So it is with the stage.
PlaceInv == Placed(db, stage)

\* The groups up to m with an outcome of kind k.
Tally(d, k, m) == Cardinality({h \in 1..m : d.outcome[h].kind = k})

\* The groups behind a stage.
PassedBy(s) == IF s.at \in Closed THEN Groups ELSE s.g - 1

\* All a stage has counted.
WrittenBy(s) == s.written["evidence"] + s.written["unavailable"] + s.written["failed"]

\* A stage counts no more of a kind than the groups behind it have; while it is
\* complete it counts every group behind it, and once it is done the session is
\* complete with its counts.
Told(d, s) ==
  /\ \A k \in Kinds : s.written[k] <= Tally(d, k, PassedBy(s))
  /\ s.status = "completed" =>
       /\ s.at \notin {"abandon", "done", "reopened"} => WrittenBy(s) = PassedBy(s)
       /\ s.at \in {"done", "reopened"} =>
            d.session.state = "complete" /\ d.session.counts = s.written

\* So it is with the stage.
ToldInv == Told(db, stage)

\* No time in the tables is later than t.
Older(d, t) ==
  /\ d.session.at <= t
  /\ \A g \in Group : /\ d.report[g].at <= t /\ d.report[g].fin <= t
                      /\ d.analysis[g].at <= t /\ d.analysis[g].fin <= t
                      /\ d.outcome[g].at <= t

\* Until the clock is set back, the tables are in the past.
ClockInv == backs = 0 /\ stage.at # "reopened" => Older(db, now)

\* The drafts are those the stage knows of.
DraftsKnown(d, s) ==
  \A h \in Group :
    /\ d.report[h].state = "draft" <=> (h = s.g /\ s.report)
    /\ d.analysis[h].state = "draft" <=> (h = s.g /\ s.analysis)

\* A stage that nothing disturbed knows every draft, has a draft session from
\* its beginning to its end, and never gives the session up.
Clear(d, s) ==
  /\ DraftsKnown(d, s)
  /\ s.report => s.at \in {"reportParts", "reportSeal", "clean", "stop"}
  /\ s.analysis => s.at \in {"analysisParts", "analysisSeal", "clean", "stop"}
  /\ s.at # "abandon"
  /\ s.at \in {"guard", "begin"} => d.session.state = "none"
  /\ s.at \in Places \ {"guard", "begin", "done", "reopened"} => Draft(d)
  /\ s.at = "done" => d.session.state \in {"none", "complete", "partial"}

\* So it is until a write fails or the clock is set back.
CleanInv == faults = 0 /\ backs = 0 /\ stage.at # "reopened" => Clear(db, stage)

\* The inductive invariant.
IInv == TypeInv /\ TablesInv /\ PlaceInv /\ ToldInv /\ ClockInv /\ CleanInv

-----------------------------------------------------------------------------
(* What every transaction of the stage does to the tables.                 *)

\* The times a transaction may write: none, its own, the session's.
Dates(d, t) == {0, t, d.session.at}

\* Every time that changed is one of those.
Dated(d, e, t) ==
  /\ e.session.at \in Dates(d, t)
  /\ \A g \in Group :
       /\ e.report[g].at \in Dates(d, t) \cup {d.report[g].at}
       /\ e.report[g].fin \in Dates(d, t) \cup {d.report[g].fin}
       /\ e.analysis[g].at \in Dates(d, t) \cup {d.analysis[g].at}
       /\ e.analysis[g].fin \in Dates(d, t) \cup {d.analysis[g].fin}
       /\ e.outcome[g].at \in Dates(d, t) \cup {d.outcome[g].at}

\* What every transaction at time t keeps and never takes back.
Sound(d, e, t) ==
  /\ e \in Db /\ StoreInv(e) /\ Grows(d, e) /\ Dated(d, e, t)
  /\ \A g \in Group : d.report[g].state = "sealed" => e.report[g].state = "sealed"

\* Tables left alone are kept.
LEMMA SoundItself ==
  ASSUME NEW d \in Db, StoreInv(d), NEW t \in Time
  PROVE  Sound(d, d, t)
  BY DEF Sound, Grows, Dated, Dates

\* A transaction on one group that keeps the tables is sound when that group's
\* times are old ones or its own.
LEMMA SoundGroup ==
  ASSUME NEW d \in Db, NEW e \in Db, StoreInv(e), Grows(d, e), NEW g \in Group,
         NEW t \in Time, OneGroup(d, e, g),
         d.report[g].state = "sealed" => e.report[g].state = "sealed",
         e.report[g].at \in {d.report[g].at, t}, e.report[g].fin \in {d.report[g].fin, t,
               0},
         e.analysis[g].at \in {d.analysis[g].at, t},
         e.analysis[g].fin \in {d.analysis[g].fin, t, 0},
         e.outcome[g].at \in {d.outcome[g].at, t}
  PROVE  Sound(d, e, t)
<1>1. \A h \in Group : d.report[h].state = "sealed" => e.report[h].state = "sealed"
  BY DEF OneGroup
<1>2. e.session.at \in Dates(d, t)
  BY DEF OneGroup, Dates
<1>3. ASSUME NEW h \in Group
      PROVE  /\ e.report[h].at \in Dates(d, t) \cup {d.report[h].at}
             /\ e.report[h].fin \in Dates(d, t) \cup {d.report[h].fin}
             /\ e.analysis[h].at \in Dates(d, t) \cup {d.analysis[h].at}
             /\ e.analysis[h].fin \in Dates(d, t) \cup {d.analysis[h].fin}
             /\ e.outcome[h].at \in Dates(d, t) \cup {d.outcome[h].at}
  <2>1. CASE h = g
    BY <2>1 DEF Dates
  <2>2. CASE h # g
    BY <2>2 DEF OneGroup
  <2> QED
    BY <2>1, <2>2
<1> QED
  BY <1>1, <1>2, <1>3 DEF Sound, Dated

\* A transaction on the session alone that keeps the tables is sound.
LEMMA SoundSession ==
  ASSUME NEW d \in Db, NEW e \in Db, StoreInv(e), Grows(d, e), NEW t \in Time,
         e.session.at \in {d.session.at, t},
         e.report = d.report, e.analysis = d.analysis, e.outcome = d.outcome
  PROVE  Sound(d, e, t)
  BY DEF Sound, Dated, Dates

\* The session's transactions are sound, and leave the groups' rows alone.
LEMMA SessionMoves ==
  ASSUME NEW d \in Db, StoreInv(d), NEW t \in Time, NEW end \in {"complete", "partial"}
  PROVE  /\ CanBeginSession(d, t) => /\ Sound(d, BeginSession(d, t), t)
                                     /\ Draft(BeginSession(d, t))
                                     /\ BeginSession(d, t).report = d.report
                                     /\ BeginSession(d, t).analysis = d.analysis
         /\ CanFinalize(d, end, t) =>
              /\ Sound(d, Finalize(d, end, t), t)
              /\ Finalize(d, end, t).session.state = end
              /\ Finalize(d, end, t).session.counts = Counts(d)
              /\ Finalize(d, end, t).report = d.report
              /\ Finalize(d, end, t).analysis = d.analysis
         /\ CanAbandonSession(d, t) => Sound(d, AbandonSession(d, t), t)
<1>1. ASSUME CanBeginSession(d, t)
      PROVE  /\ Sound(d, BeginSession(d, t), t) /\ Draft(BeginSession(d, t))
             /\ BeginSession(d, t).report = d.report
             /\ BeginSession(d, t).analysis = d.analysis
  <2>1. PICK e : e = BeginSession(d, t)
    OBVIOUS
  <2>2. e \in Db /\ StoreInv(e) /\ Grows(d, e)
    BY <1>1, <2>1, SessionBegun
  <2>3. /\ e.session.at = t /\ e.session.state = "draft"
        /\ e.report = d.report /\ e.analysis = d.analysis /\ e.outcome = d.outcome
    BY <2>1 DEF BeginSession, Db, SessionRow
  <2>4. Sound(d, e, t)
    BY <2>2, <2>3, SoundSession
  <2> QED
    BY <2>1, <2>3, <2>4 DEF Draft
<1>2. ASSUME CanFinalize(d, end, t)
      PROVE  /\ Sound(d, Finalize(d, end, t), t)
             /\ Finalize(d, end, t).session.state = end
             /\ Finalize(d, end, t).session.counts = Counts(d)
             /\ Finalize(d, end, t).report = d.report
             /\ Finalize(d, end, t).analysis = d.analysis
  <2>1. PICK e : e = Finalize(d, end, t)
    OBVIOUS
  <2>2. e \in Db /\ StoreInv(e) /\ Grows(d, e)
    BY <1>2, <2>1, SessionFinalized
  <2>3. /\ e.session.at = d.session.at /\ e.session.state = end
        /\ e.session.counts = Counts(d)
        /\ e.report = d.report /\ e.analysis = d.analysis /\ e.outcome = d.outcome
    BY <2>1 DEF Finalize, Db, SessionRow
  <2>4. Sound(d, e, t)
    BY <2>2, <2>3, SoundSession
  <2> QED
    BY <2>1, <2>3, <2>4
<1>3. ASSUME CanAbandonSession(d, t)
      PROVE  Sound(d, AbandonSession(d, t), t)
  <2>1. PICK e : e = AbandonSession(d, t)
    OBVIOUS
  <2>2. e \in Db /\ StoreInv(e) /\ Grows(d, e)
    BY <1>3, <2>1, SessionAbandoned
  <2>3. /\ e.session.at = d.session.at
        /\ e.report = d.report /\ e.analysis = d.analysis /\ e.outcome = d.outcome
    BY <2>1 DEF AbandonSession, Db, SessionRow
  <2>4. Sound(d, e, t)
    BY <2>2, <2>3, SoundSession
  <2> QED
    BY <2>1, <2>4
<1> QED
  BY <1>1, <1>2, <1>3

\* A transaction at the time of the session is sound at any time.
LEMMA SoundSooner ==
  ASSUME NEW d, NEW e, NEW t, Sound(d, e, d.session.at)
  PROVE  Sound(d, e, t)
  BY DEF Sound, Dated, Dates

\* Beginning a report is sound and leaves a draft of it.
LEMMA BeginReportStep ==
  ASSUME NEW d \in Db, StoreInv(d), NEW g \in Group, NEW n \in 0..1, NEW t \in Time,
         CanBeginReport(d, g, n, t), NEW e, e = BeginReport(d, g, n, t)
  PROVE  /\ Sound(d, e, t) /\ OneGroup(d, e, g)
         /\ e.report[g].state = "draft"
         /\ e.analysis = d.analysis
         /\ e.outcome = d.outcome
<1>1. /\ e \in Db /\ StoreInv(e) /\ Grows(d, e) /\ OneGroup(d, e, g)
      /\ e.report[g].state = "draft"
      /\ e.analysis = d.analysis
      /\ e.outcome = d.outcome
  BY ReportBegun DEF CanBeginReport
<1>2. /\ e.report[g].at \in {d.report[g].at, t}
      /\ e.report[g].fin \in {d.report[g].fin, t, 0}
      /\ e.analysis[g].at \in {d.analysis[g].at, t}
      /\ e.analysis[g].fin \in {d.analysis[g].fin, t, 0}
      /\ e.outcome[g].at \in {d.outcome[g].at, t}
  BY <1>1, ReportBegun
<1>3. d.report[g].state = "sealed" => e.report[g].state = "sealed"
  BY <1>1 DEF CanBeginReport
<1>4. Sound(d, e, t)
  BY <1>1, <1>2, <1>3, SoundGroup
<1> QED
  BY <1>1, <1>4

\* Appending to a report is sound and leaves it a draft.
LEMMA AddToReportStep ==
  ASSUME NEW d \in Db, StoreInv(d), NEW g \in Group, NEW t \in Time,
         NEW p \in Range(ReportParts),
         CanAddToReport(d, g), NEW e, e = AddToReport(d, g, p)
  PROVE  /\ Sound(d, e, t) /\ OneGroup(d, e, g)
         /\ e.report[g].state = "draft"
         /\ e.analysis = d.analysis
         /\ e.outcome = d.outcome
<1>1. /\ e \in Db /\ StoreInv(e) /\ Grows(d, e) /\ OneGroup(d, e, g)
      /\ e.report[g].state = "draft"
      /\ e.analysis = d.analysis
      /\ e.outcome = d.outcome
  BY ReportAdded DEF CanAddToReport
<1>2. /\ e.report[g].at \in {d.report[g].at, t}
      /\ e.report[g].fin \in {d.report[g].fin, t, 0}
      /\ e.analysis[g].at \in {d.analysis[g].at, t}
      /\ e.analysis[g].fin \in {d.analysis[g].fin, t, 0}
      /\ e.outcome[g].at \in {d.outcome[g].at, t}
  BY <1>1, ReportAdded
<1>3. d.report[g].state = "sealed" => e.report[g].state = "sealed"
  BY <1>1 DEF CanAddToReport
<1>4. Sound(d, e, t)
  BY <1>1, <1>2, <1>3, SoundGroup
<1> QED
  BY <1>1, <1>4

\* Sealing a report is sound and leaves it sealed.
LEMMA SealReportStep ==
  ASSUME NEW d \in Db, StoreInv(d), NEW g \in Group, NEW t \in Time,
         CanSealReport(d, g, t), NEW e, e = SealReport(d, g, t)
  PROVE  /\ Sound(d, e, t) /\ OneGroup(d, e, g)
         /\ e.report[g].state = "sealed"
         /\ e.analysis = d.analysis
         /\ e.outcome = d.outcome
<1>1. /\ e \in Db /\ StoreInv(e) /\ Grows(d, e) /\ OneGroup(d, e, g)
      /\ e.report[g].state = "sealed"
      /\ e.analysis = d.analysis
      /\ e.outcome = d.outcome
  BY ReportSealed DEF CanSealReport, CanAddToReport
<1>2. /\ e.report[g].at \in {d.report[g].at, t}
      /\ e.report[g].fin \in {d.report[g].fin, t, 0}
      /\ e.analysis[g].at \in {d.analysis[g].at, t}
      /\ e.analysis[g].fin \in {d.analysis[g].fin, t, 0}
      /\ e.outcome[g].at \in {d.outcome[g].at, t}
  BY <1>1, ReportSealed
<1>3. d.report[g].state = "sealed" => e.report[g].state = "sealed"
  BY <1>1 DEF CanSealReport, CanAddToReport
<1>4. Sound(d, e, t)
  BY <1>1, <1>2, <1>3, SoundGroup
<1> QED
  BY <1>1, <1>4

\* Abandoning a report is sound and leaves it abandoned.
LEMMA AbandonReportStep ==
  ASSUME NEW d \in Db, StoreInv(d), NEW g \in Group, NEW t \in Time,
         CanAbandonReport(d, g, t), NEW e, e = AbandonReport(d, g, t)
  PROVE  /\ Sound(d, e, t) /\ OneGroup(d, e, g)
         /\ e.report[g].state = "abandoned"
         /\ e.analysis = d.analysis
         /\ e.outcome = d.outcome
<1>1. /\ e \in Db /\ StoreInv(e) /\ Grows(d, e) /\ OneGroup(d, e, g)
      /\ e.report[g].state = "abandoned"
      /\ e.analysis = d.analysis
      /\ e.outcome = d.outcome
  BY ReportAbandoned DEF CanAbandonReport
<1>2. /\ e.report[g].at \in {d.report[g].at, t}
      /\ e.report[g].fin \in {d.report[g].fin, t, 0}
      /\ e.analysis[g].at \in {d.analysis[g].at, t}
      /\ e.analysis[g].fin \in {d.analysis[g].fin, t, 0}
      /\ e.outcome[g].at \in {d.outcome[g].at, t}
  BY <1>1, ReportAbandoned
<1>3. d.report[g].state = "sealed" => e.report[g].state = "sealed"
  BY <1>1 DEF CanAbandonReport
<1>4. Sound(d, e, t)
  BY <1>1, <1>2, <1>3, SoundGroup
<1> QED
  BY <1>1, <1>4

\* Beginning an analysis is sound and leaves a draft of it.
LEMMA BeginAnalysisStep ==
  ASSUME NEW d \in Db, StoreInv(d), NEW g \in Group, NEW t \in Time,
         CanBeginAnalysis(d, g, t), d.report[g].state = "sealed", NEW e,
               e = BeginAnalysis(d, g, t)
  PROVE  /\ Sound(d, e, t) /\ OneGroup(d, e, g)
         /\ e.analysis[g].state = "draft"
         /\ e.report = d.report
         /\ e.outcome = d.outcome
<1>1. /\ e \in Db /\ StoreInv(e) /\ Grows(d, e) /\ OneGroup(d, e, g)
      /\ e.analysis[g].state = "draft"
      /\ e.report = d.report
      /\ e.outcome = d.outcome
  BY AnalysisBegun DEF CanBeginAnalysis
<1>2. /\ e.report[g].at \in {d.report[g].at, t}
      /\ e.report[g].fin \in {d.report[g].fin, t, 0}
      /\ e.analysis[g].at \in {d.analysis[g].at, t}
      /\ e.analysis[g].fin \in {d.analysis[g].fin, t, 0}
      /\ e.outcome[g].at \in {d.outcome[g].at, t}
  BY <1>1, AnalysisBegun
<1>3. d.report[g].state = "sealed" => e.report[g].state = "sealed"
  BY <1>1 DEF CanBeginAnalysis
<1>4. Sound(d, e, t)
  BY <1>1, <1>2, <1>3, SoundGroup
<1> QED
  BY <1>1, <1>4

\* Appending to an analysis is sound and leaves it a draft.
LEMMA AddToAnalysisStep ==
  ASSUME NEW d \in Db, StoreInv(d), NEW g \in Group, NEW t \in Time, NEW fit,
         NEW p \in Range(AnalysisParts),
         CanAddToAnalysis(d, g, p, fit), NEW e, e = AddToAnalysis(d, g, p)
  PROVE  /\ Sound(d, e, t) /\ OneGroup(d, e, g)
         /\ e.analysis[g].state = "draft"
         /\ e.report = d.report
         /\ e.outcome = d.outcome
<1>1. /\ e \in Db /\ StoreInv(e) /\ Grows(d, e) /\ OneGroup(d, e, g)
      /\ e.analysis[g].state = "draft"
      /\ e.report = d.report
      /\ e.outcome = d.outcome
  BY AnalysisAdded DEF CanAddToAnalysis
<1>2. /\ e.report[g].at \in {d.report[g].at, t}
      /\ e.report[g].fin \in {d.report[g].fin, t, 0}
      /\ e.analysis[g].at \in {d.analysis[g].at, t}
      /\ e.analysis[g].fin \in {d.analysis[g].fin, t, 0}
      /\ e.outcome[g].at \in {d.outcome[g].at, t}
  BY <1>1, AnalysisAdded
<1>3. d.report[g].state = "sealed" => e.report[g].state = "sealed"
  BY <1>1 DEF CanAddToAnalysis
<1>4. Sound(d, e, t)
  BY <1>1, <1>2, <1>3, SoundGroup
<1> QED
  BY <1>1, <1>4

\* Sealing an analysis is sound and gives its group, which had no outcome, the
\* outcome evidence.
LEMMA SealAnalysisStep ==
  ASSUME NEW d \in Db, StoreInv(d), NEW g \in Group, NEW t \in Time,
         CanSealAnalysis(d, g, t), NEW e, e = SealAnalysis(d, g, t)
  PROVE  /\ Sound(d, e, t) /\ OneGroup(d, e, g)
         /\ e.analysis[g].state = "sealed"
         /\ e.report = d.report
         /\ d.outcome[g].kind = "none"
         /\ e.outcome[g].kind = "evidence"
<1>1. /\ e \in Db /\ StoreInv(e) /\ Grows(d, e) /\ OneGroup(d, e, g)
      /\ e.analysis[g].state = "sealed"
      /\ e.report = d.report
      /\ d.outcome[g].kind = "none"
      /\ e.outcome[g].kind = "evidence"
  BY AnalysisSealed DEF CanSealAnalysis
<1>2. /\ e.report[g].at \in {d.report[g].at, t}
      /\ e.report[g].fin \in {d.report[g].fin, t, 0}
      /\ e.analysis[g].at \in {d.analysis[g].at, t}
      /\ e.analysis[g].fin \in {d.analysis[g].fin, t, 0}
      /\ e.outcome[g].at \in {d.outcome[g].at, t}
  BY <1>1, AnalysisSealed
<1>3. d.report[g].state = "sealed" => e.report[g].state = "sealed"
  BY <1>1 DEF CanSealAnalysis
<1>4. Sound(d, e, t)
  BY <1>1, <1>2, <1>3, SoundGroup
<1> QED
  BY <1>1, <1>4

\* Abandoning an analysis is sound and leaves it abandoned.
LEMMA AbandonAnalysisStep ==
  ASSUME NEW d \in Db, StoreInv(d), NEW g \in Group, NEW t \in Time,
         CanAbandonAnalysis(d, g, t), NEW e, e = AbandonAnalysis(d, g, t)
  PROVE  /\ Sound(d, e, t) /\ OneGroup(d, e, g)
         /\ e.analysis[g].state = "abandoned"
         /\ e.report = d.report
<1>1. /\ e \in Db /\ StoreInv(e) /\ Grows(d, e) /\ OneGroup(d, e, g)
      /\ e.analysis[g].state = "abandoned"
      /\ e.report = d.report
  BY AnalysisAbandoned DEF CanAbandonAnalysis
<1>2. /\ e.report[g].at \in {d.report[g].at, t}
      /\ e.report[g].fin \in {d.report[g].fin, t, 0}
      /\ e.analysis[g].at \in {d.analysis[g].at, t}
      /\ e.analysis[g].fin \in {d.analysis[g].fin, t, 0}
      /\ e.outcome[g].at \in {d.outcome[g].at, t}
  BY <1>1, AnalysisAbandoned
<1>3. d.report[g].state = "sealed" => e.report[g].state = "sealed"
  BY <1>1 DEF CanAbandonAnalysis
<1>4. Sound(d, e, t)
  BY <1>1, <1>2, <1>3, SoundGroup
<1> QED
  BY <1>1, <1>4

\* Recording an outcome is sound and leaves the other rows alone.
LEMMA RecordingStep ==
  ASSUME NEW d \in Db, StoreInv(d), NEW g \in Group, NEW t \in Time,
         NEW k \in {"unavailable", "failed"},
         CanRecord(d, g, k, t), NEW e, e = Record(d, g, k, t)
  PROVE  /\ Sound(d, e, t) /\ OneGroup(d, e, g)
         /\ e.outcome[g].kind = k
         /\ e.report = d.report
         /\ e.analysis = d.analysis
<1>1. /\ e \in Db /\ StoreInv(e) /\ Grows(d, e) /\ OneGroup(d, e, g)
      /\ e.outcome[g].kind = k
      /\ e.report = d.report
      /\ e.analysis = d.analysis
  BY OutcomeRecorded DEF CanRecord
<1>2. /\ e.report[g].at \in {d.report[g].at, t}
      /\ e.report[g].fin \in {d.report[g].fin, t, 0}
      /\ e.analysis[g].at \in {d.analysis[g].at, t}
      /\ e.analysis[g].fin \in {d.analysis[g].fin, t, 0}
      /\ e.outcome[g].at \in {d.outcome[g].at, t}
  BY <1>1, OutcomeRecorded
<1>3. d.report[g].state = "sealed" => e.report[g].state = "sealed"
  BY <1>1 DEF CanRecord
<1>4. Sound(d, e, t)
  BY <1>1, <1>2, <1>3, SoundGroup
<1> QED
  BY <1>1, <1>4
-----------------------------------------------------------------------------
(* The tables after every step.                                            *)

\* What a step needs to know of the tables and the stage's place.
Grounds == TypeInv /\ TablesInv /\ PlaceInv

\* The parts of a report and of an analysis are written in a fixed order.
LEMMA NextParts ==
  /\ \A i \in 0..1 : ReportParts[i + 1] \in Range(ReportParts)
  /\ \A i \in 0..5 : AnalysisParts[i + 1] \in Range(AnalysisParts)
<1>1. DOMAIN ReportParts = 1..2 /\ DOMAIN AnalysisParts = 1..6
  BY DEF ReportParts, AnalysisParts
<1>2. \A i \in 0..1 : ReportParts[i + 1] \in Range(ReportParts)
  <2> SUFFICES ASSUME NEW i \in 0..1 PROVE ReportParts[i + 1] \in Range(ReportParts)
    OBVIOUS
  <2>1. i + 1 \in DOMAIN ReportParts
    BY <1>1
  <2> QED
    BY <2>1 DEF Range
<1>3. \A i \in 0..5 : AnalysisParts[i + 1] \in Range(AnalysisParts)
  <2> SUFFICES ASSUME NEW i \in 0..5 PROVE AnalysisParts[i + 1] \in Range(AnalysisParts)
    OBVIOUS
  <2>1. i + 1 \in DOMAIN AnalysisParts
    BY <1>1
  <2> QED
    BY <2>1 DEF Range
<1> QED
  BY <1>2, <1>3

\* A step that keeps the tables.
Kept == Sound(db, db', now)

\* A step that writes nothing keeps the tables.
LEMMA Unwritten ==
  ASSUME Grounds, db' = db
  PROVE  Kept
  BY SoundItself DEF Grounds, TypeInv, TablesInv, Kept

\* The transactions on the report of the group in hand are sound now.
LEMMA ReportKeeps ==
  ASSUME Grounds, NEW g, g = stage.g, g \in Group, NEW p \in Range(ReportParts)
  PROVE  /\ CanBeginReport(db, g, stage.read, db.session.at) =>
              \A e : e = BeginReport(db, g, stage.read, db.session.at) =>
                /\ Sound(db, e, now) /\ OneGroup(db, e, g)
                /\ e.report[g].state = "draft" /\ e.analysis = db.analysis
         /\ CanAddToReport(db, g) =>
              \A e : e = AddToReport(db, g, p) =>
                /\ Sound(db, e, now) /\ OneGroup(db, e, g)
                /\ e.report[g].state = "draft" /\ e.analysis = db.analysis
         /\ CanSealReport(db, g, now) =>
              \A e : e = SealReport(db, g, now) =>
                /\ Sound(db, e, now) /\ OneGroup(db, e, g)
                /\ e.report[g].state = "sealed" /\ e.analysis = db.analysis
         /\ CanAbandonReport(db, g, now) =>
              \A e : e = AbandonReport(db, g, now) =>
                /\ Sound(db, e, now) /\ OneGroup(db, e, g)
                /\ e.report[g].state = "abandoned" /\ e.analysis = db.analysis
<1>1. db \in Db /\ StoreInv(db) /\ db.session.at \in Time /\ now \in Time
  BY DEF Grounds, TypeInv, TablesInv, Db, SessionRow
<1>2. stage.read \in 0..1
  BY DEF Grounds, TypeInv, StageRow
<1>3. ASSUME CanBeginReport(db, g, stage.read, db.session.at),
             NEW e, e = BeginReport(db, g, stage.read, db.session.at)
      PROVE  /\ Sound(db, e, now) /\ OneGroup(db, e, g)
             /\ e.report[g].state = "draft" /\ e.analysis = db.analysis
  <2>1. PICK t, n : t = db.session.at /\ n = stage.read
    OBVIOUS
  <2>2. /\ Sound(db, e, t) /\ OneGroup(db, e, g)
        /\ e.report[g].state = "draft" /\ e.analysis = db.analysis
    BY <1>1, <1>2, <1>3, <2>1, BeginReportStep
  <2> QED
    BY <2>1, <2>2, SoundSooner
<1>4. ASSUME CanAddToReport(db, g), NEW e, e = AddToReport(db, g, p)
      PROVE  /\ Sound(db, e, now) /\ OneGroup(db, e, g)
             /\ e.report[g].state = "draft" /\ e.analysis = db.analysis
  BY <1>1, <1>4, AddToReportStep
<1>5. ASSUME CanSealReport(db, g, now), NEW e, e = SealReport(db, g, now)
      PROVE  /\ Sound(db, e, now) /\ OneGroup(db, e, g)
             /\ e.report[g].state = "sealed" /\ e.analysis = db.analysis
  BY <1>1, <1>5, SealReportStep
<1>6. ASSUME CanAbandonReport(db, g, now), NEW e, e = AbandonReport(db, g, now)
      PROVE  /\ Sound(db, e, now) /\ OneGroup(db, e, g)
             /\ e.report[g].state = "abandoned" /\ e.analysis = db.analysis
  BY <1>1, <1>6, AbandonReportStep
<1> QED
  BY <1>3, <1>4, <1>5, <1>6

\* So is beginning its analysis over a sealed report,
LEMMA AnalysisBeginKeeps ==
  ASSUME Grounds, NEW g, g = stage.g, g \in Group, db.report[g].state = "sealed",
         CanBeginAnalysis(db, g, now), NEW e, e = BeginAnalysis(db, g, now)
  PROVE  /\ Sound(db, e, now) /\ OneGroup(db, e, g)
         /\ e.analysis[g].state = "draft" /\ e.report = db.report
  BY BeginAnalysisStep DEF Grounds, TypeInv, TablesInv

\* appending to it,
LEMMA AnalysisAddKeeps ==
  ASSUME Grounds, NEW g, g = stage.g, g \in Group, NEW p \in Range(AnalysisParts),
         NEW fit,
         CanAddToAnalysis(db, g, p, fit), NEW e, e = AddToAnalysis(db, g, p)
  PROVE  /\ Sound(db, e, now) /\ OneGroup(db, e, g)
         /\ e.analysis[g].state = "draft" /\ e.report = db.report
  BY AddToAnalysisStep DEF Grounds, TypeInv, TablesInv

\* sealing it,
LEMMA AnalysisSealKeeps ==
  ASSUME Grounds, NEW g, g = stage.g, g \in Group,
         CanSealAnalysis(db, g, now), NEW e, e = SealAnalysis(db, g, now)
  PROVE  /\ Sound(db, e, now) /\ OneGroup(db, e, g)
         /\ e.analysis[g].state = "sealed" /\ e.report = db.report
         /\ e.outcome[g].kind = "evidence"
  BY SealAnalysisStep DEF Grounds, TypeInv, TablesInv

\* and abandoning it.
LEMMA AnalysisAbandonKeeps ==
  ASSUME Grounds, NEW g, g = stage.g, g \in Group,
         CanAbandonAnalysis(db, g, now), NEW e, e = AbandonAnalysis(db, g, now)
  PROVE  /\ Sound(db, e, now) /\ OneGroup(db, e, g)
         /\ e.analysis[g].state = "abandoned" /\ e.report = db.report
  BY AbandonAnalysisStep DEF Grounds, TypeInv, TablesInv
-----------------------------------------------------------------------------
(* What the stage tells.                                                   *)

\* A tally is a number of groups.
LEMMA Tallies ==
  ASSUME NEW d \in Db, NEW k \in Kinds, NEW m \in 0..Groups
  PROVE  Tally(d, k, m) \in 0..Groups
<1>1. {h \in 1..m : d.outcome[h].kind = k} \in SUBSET Group
  BY Sizes DEF Group
<1> QED
  BY <1>1, Groupings DEF Tally

\* Tallies only grow, since no outcome is taken back, and with the groups
\* counted.
LEMMA TallyGrows ==
  ASSUME NEW d \in Db, NEW e \in Db, Grows(d, e), NEW k \in Kinds,
         NEW m \in 0..Groups, NEW n \in 0..Groups, m <= n
  PROVE  Tally(d, k, m) <= Tally(e, k, n)
<1>1. PICK A, B : /\ A = {h \in 1..m : d.outcome[h].kind = k}
                  /\ B = {h \in 1..n : e.outcome[h].kind = k}
  OBVIOUS
<1>2. B \in SUBSET Group
  BY <1>1, Sizes DEF Group
<1>3. A \subseteq B
  <2> SUFFICES ASSUME NEW h \in A PROVE h \in B
    OBVIOUS
  <2>1. h \in 1..m /\ d.outcome[h].kind = k
    BY <1>1
  <2>2. h \in Group /\ h \in 1..n
    BY <2>1, Sizes DEF Group
  <2>3. d.outcome[h].kind # "none"
    BY <2>1 DEF Kinds
  <2>4. e.outcome[h] = d.outcome[h]
    BY <2>2, <2>3 DEF Grows
  <2> QED
    BY <1>1, <2>1, <2>2, <2>4
<1>4. Cardinality(A) <= Cardinality(B)
  BY <1>2, <1>3, Groupings, FS_Subset
<1> QED
  BY <1>1, <1>4 DEF Tally

\* A group with an outcome of a kind adds one to the tally of that kind.
LEMMA TallyNext ==
  ASSUME NEW d \in Db, NEW g \in Group, NEW k \in Kinds, d.outcome[g].kind = k
  PROVE  Tally(d, k, g) = Tally(d, k, g - 1) + 1
<1>1. PICK A, B : /\ A = {h \in 1..(g - 1) : d.outcome[h].kind = k}
                  /\ B = {h \in 1..g : d.outcome[h].kind = k}
  OBVIOUS
<1>2. A \in SUBSET Group
  BY <1>1, Sizes DEF Group
<1>3. B = A \cup {g} /\ g \notin A
  BY <1>1, Sizes DEF Group
<1>4. IsFiniteSet(A) /\ Cardinality(A) \in Nat
  BY <1>2, Groupings, FS_CardinalityType
<1>5. Cardinality(B) = Cardinality(A) + 1
  BY <1>3, <1>4, FS_AddElement
<1> QED
  BY <1>1, <1>5 DEF Tally

\* Every group with an outcome has exactly one kind.
LEMMA TallySum ==
  ASSUME NEW d \in Db
  PROVE  Recorded(d, "evidence") + Recorded(d, "unavailable") + Recorded(d, "failed")
           = Cardinality(Settled(d))
<1> DEFINE Of(k) == {g \in Group : d.outcome[g].kind = k}
<1>1. PICK A, B, C : A = Of("evidence") /\ B = Of("unavailable") /\ C = Of("failed")
  OBVIOUS
<1>2. A \in SUBSET Group /\ B \in SUBSET Group /\ C \in SUBSET Group
  BY <1>1
<1>3. A \cap B = {} /\ (A \cup B) \cap C = {}
  BY <1>1
<1>4. /\ IsFiniteSet(A) /\ IsFiniteSet(B) /\ IsFiniteSet(C) /\ IsFiniteSet(A \cup B)
      /\ A \cup B \in SUBSET Group /\ (A \cup B) \cup C \in SUBSET Group
  BY <1>2, Groupings
<1>5. Cardinality(A \cup B) = Cardinality(A) + Cardinality(B)
  <2>1. Cardinality(A \cup B) = Cardinality(A) + Cardinality(B) - Cardinality(A \cap B)
    BY <1>4, FS_Union
  <2>2. Cardinality(A \cap B) = 0
    BY <1>3, FS_EmptySet
  <2>3. Cardinality(A) \in Nat /\ Cardinality(B) \in Nat
    BY <1>4, FS_CardinalityType
  <2> QED
    BY <2>1, <2>2, <2>3
<1>6. Cardinality((A \cup B) \cup C) = Cardinality(A \cup B) + Cardinality(C)
  <2>1. Cardinality((A \cup B) \cup C)
          = Cardinality(A \cup B) + Cardinality(C) - Cardinality((A \cup B) \cap C)
    BY <1>4, FS_Union
  <2>2. Cardinality((A \cup B) \cap C) = 0
    BY <1>3, FS_EmptySet
  <2>3. Cardinality(A \cup B) \in Nat /\ Cardinality(C) \in Nat
    BY <1>4, FS_CardinalityType
  <2> QED
    BY <2>1, <2>2, <2>3
<1>7. Settled(d) = (A \cup B) \cup C
  BY <1>1 DEF Settled, Db, OutcomeRow, Kinds
<1>8. /\ Recorded(d, "evidence") = Cardinality(A)
      /\ Recorded(d, "unavailable") = Cardinality(B)
      /\ Recorded(d, "failed") = Cardinality(C)
  BY <1>1 DEF Recorded
<1>9. Cardinality(A) \in Nat /\ Cardinality(B) \in Nat /\ Cardinality(C) \in Nat
  BY <1>4, FS_CardinalityType
<1> QED
  BY <1>5, <1>6, <1>7, <1>8, <1>9

\* A stage that counts nothing and goes on, or gives up being complete, still
\* tells the truth.
LEMMA ToldOnward ==
  ASSUME NEW d \in Db, NEW e \in Db, Grows(d, e),
         NEW s \in StageRow, NEW z \in StageRow, Told(d, s), z.written = s.written,
         PassedBy(s) \in 0..Groups, PassedBy(z) \in 0..Groups, PassedBy(s) <= PassedBy(z),
         z.status = "completed" /\ z.at # "abandon" =>
           /\ s.status = "completed" /\ PassedBy(s) = PassedBy(z)
           /\ s.at \notin {"abandon", "done", "reopened"}
           /\ z.at \notin {"done", "reopened"}
  PROVE  Told(e, z)
<1>1. PICK m, n : m = PassedBy(s) /\ n = PassedBy(z)
  OBVIOUS
<1>2. ASSUME NEW k \in Kinds PROVE z.written[k] <= Tally(e, k, n)
  <2>1. s.written[k] <= Tally(d, k, m)
    BY <1>1 DEF Told
  <2>2. Tally(d, k, m) <= Tally(e, k, n)
    BY <1>1, TallyGrows
  <2>3. Tally(d, k, m) \in 0..Groups /\ Tally(e, k, n) \in 0..Groups
    BY <1>1, Tallies
  <2>4. s.written[k] \in Nat
    BY DEF StageRow
  <2> QED
    BY <2>1, <2>2, <2>3, <2>4, Sizes
<1>3. WrittenBy(z) = WrittenBy(s)
  BY DEF WrittenBy
<1> QED
  BY <1>1, <1>2, <1>3 DEF Told

\* A stage that counts the outcome of the group in hand and goes on to the
\* next, or stops, still tells the truth (record_group).
LEMMA ToldCounted ==
  ASSUME NEW d \in Db, NEW e \in Db, Grows(d, e), NEW k \in Kinds,
         NEW s \in StageRow, NEW z \in StageRow, Told(d, s), s.at \in Inside,
         s.g \in Group, e.outcome[s.g].kind = k,
         z.written = [s.written EXCEPT ![k] = @ + 1],
         \/ z.at = "stop" /\ z.status = "partial"
         \/ z.at = "next" /\ z.g = s.g + 1 /\ z.status = s.status
  PROVE  Told(e, z)
<1>1. PICK g : g = s.g
  OBVIOUS
<1>2. g \in 1..Groups /\ g - 1 \in 0..Groups /\ PassedBy(s) = g - 1
  BY <1>1, Sizes DEF Group, PassedBy, Inside, Closed
<1>3. PICK n : n = PassedBy(z)
  OBVIOUS
<1>4. n \in {g, Groups}
  BY <1>1, <1>2, <1>3, Sizes DEF PassedBy, Closed
<1>5. ASSUME NEW c \in Kinds
      PROVE  z.written[c] <= Tally(e, c, n)
  <2>1. s.written[c] <= Tally(d, c, g - 1) /\ s.written[c] \in Nat
    BY <1>2 DEF Told, StageRow
  <2>2. /\ Tally(d, c, g - 1) <= Tally(e, c, g - 1)
        /\ Tally(e, c, g - 1) <= Tally(e, c, g) /\ Tally(e, c, g) <= Tally(e, c, n)
    <3>1. Grows(e, e)
      BY DEF Grows
    <3> QED
      BY <1>2, <1>4, <3>1, TallyGrows, Sizes
  <2>3. /\ Tally(d, c, g - 1) \in Nat /\ Tally(e, c, g - 1) \in Nat
        /\ Tally(e, c, g) \in Nat /\ Tally(e, c, n) \in Nat
    BY <1>2, <1>4, Tallies, Sizes
  <2>4. CASE c = k
    <3>1. Tally(e, c, g) = Tally(e, c, g - 1) + 1
      BY <1>1, <2>4, TallyNext
    <3>2. z.written[c] = s.written[c] + 1
      BY <2>4 DEF StageRow
    <3> QED
      BY <2>1, <2>2, <2>3, <3>1, <3>2
  <2>5. CASE c # k
    <3>1. z.written[c] = s.written[c]
      BY <2>5 DEF StageRow
    <3> QED
      BY <2>1, <2>2, <2>3, <3>1
  <2> QED
    BY <2>4, <2>5
<1>6. z.status = "completed" => WrittenBy(z) = PassedBy(z)
  <2> SUFFICES ASSUME z.status = "completed" PROVE WrittenBy(z) = PassedBy(z)
    OBVIOUS
  <2>1. PassedBy(z) = g /\ s.status = "completed"
    BY <1>1, <1>2 DEF PassedBy, Closed
  <2>2. WrittenBy(s) = g - 1
    BY <1>2, <2>1 DEF Told, Inside
  <2>3. /\ s.written["evidence"] \in Nat /\ s.written["unavailable"] \in Nat
        /\ s.written["failed"] \in Nat
    BY DEF StageRow, Kinds
  <2>4. WrittenBy(z) = WrittenBy(s) + 1
    BY <2>3 DEF WrittenBy, StageRow, Kinds
  <2> QED
    BY <1>2, <2>1, <2>2, <2>4
<1> QED
  BY <1>3, <1>5, <1>6 DEF Told
-----------------------------------------------------------------------------
(* Where the stage goes, and the drafts it leaves.                         *)

\* Drafts and what the stage knows of them stay as they are.
LEMMA DraftsStay ==
  ASSUME NEW d, NEW s, NEW z, DraftsKnown(d, s),
         z.report = s.report, z.analysis = s.analysis,
         z.g = s.g \/ (~s.report /\ ~s.analysis),
         NEW e, e.report = d.report, e.analysis = d.analysis
  PROVE  DraftsKnown(e, z)
  BY DEF DraftsKnown

\* The rows of the group in hand change, and the stage knows it.
LEMMA DraftsTurn ==
  ASSUME NEW d, NEW s, NEW z, NEW e, NEW g \in Group, DraftsKnown(d, s), OneGroup(d, e,
         g),
         s.g = g,
         z.g = g \/ (~z.report /\ ~z.analysis),
         e.report[g].state = "draft" <=> z.report,
         e.analysis[g].state = "draft" <=> z.analysis
  PROVE  DraftsKnown(e, z)
<1> SUFFICES ASSUME NEW h \in Group
             PROVE  /\ e.report[h].state = "draft" <=> (h = z.g /\ z.report)
                    /\ e.analysis[h].state = "draft" <=> (h = z.g /\ z.analysis)
  BY DEF DraftsKnown
<1>1. CASE h = g
  BY <1>1
<1>2. CASE h # g
  <2>1. e.report[h] = d.report[h] /\ e.analysis[h] = d.analysis[h]
    BY <1>2 DEF OneGroup
  <2>2. d.report[h].state # "draft" /\ d.analysis[h].state # "draft"
    BY <1>2 DEF DraftsKnown
  <2> QED
    BY <1>2, <2>1, <2>2
<1> QED
  BY <1>1, <1>2

\* A step of the stage: the clock stands, failures only add up.
Framed ==
  /\ now' = now /\ backs' = backs /\ cancelled' \in BOOLEAN
  /\ faults' \in 0..MaxFaults /\ faults <= faults'

\* What a step of the stage leaves.
After ==
  Framed /\ Kept /\ stage' \in StageRow /\ PlaceInv' /\ ToldInv' /\ CleanInv'

\* What is behind a stage is a number of groups.
LEMMA PassedType ==
  ASSUME NEW s \in StageRow
  PROVE  PassedBy(s) \in 0..Groups
  BY Sizes DEF StageRow, PassedBy

\* A step that counts nothing and goes onward, or gives up being complete,
\* leaves the stage in order.
LEMMA AfterMove ==
  ASSUME IInv, Framed, Kept, stage' \in StageRow, PlaceInv',
         stage'.written = stage.written, PassedBy(stage) <= PassedBy(stage'),
         stage'.status = "completed" /\ stage'.at # "abandon" =>
           /\ stage.status = "completed" /\ PassedBy(stage) = PassedBy(stage')
           /\ stage.at \notin {"abandon", "done", "reopened"}
           /\ stage'.at \notin {"done", "reopened"},
         stage.at # "reopened",
         faults' = 0 /\ backs = 0 /\ Clear(db, stage) => Clear(db', stage')
  PROVE  After
<1>1. Told(db', stage')
  <2>1. db \in Db /\ db' \in Db /\ Grows(db, db') /\ stage \in StageRow /\ Told(db, stage)
    BY DEF IInv, TypeInv, Kept, Sound, ToldInv
  <2>2. PassedBy(stage) \in 0..Groups /\ PassedBy(stage') \in 0..Groups
    BY <2>1, PassedType
  <2>3. PICK d, e, s, z : d = db /\ e = db' /\ s = stage /\ z = stage'
    OBVIOUS
  <2> QED
    BY <2>1, <2>2, <2>3, ToldOnward
<1>2. CleanInv'
  <2> SUFFICES ASSUME faults' = 0, backs' = 0 PROVE Clear(db', stage')
    BY DEF CleanInv
  <2>1. faults = 0 /\ backs = 0
    BY DEF Framed, IInv, TypeInv
  <2> QED
    BY <2>1 DEF IInv, CleanInv
<1> QED
  BY <1>1, <1>2 DEF After, ToldInv
-----------------------------------------------------------------------------
(* The steps of the stage, action by action.                               *)

\* A step that writes nothing, whether the store was read or could not be.
LEMMA GoesOn ==
  ASSUME IInv, NEW z, Go(z) \/ Unread(z)
  PROVE  Framed /\ Kept /\ db' = db /\ stage' = z
<1>1. Framed /\ db' = db /\ stage' = z
  BY Sizes DEF Go, Unread, Fault, Framed, IInv, TypeInv
<1>2. Kept
  BY <1>1, Unwritten DEF IInv, Grounds
<1> QED
  BY <1>1, <1>2

\* Entering the stage keeps it in order.
LEMMA GuardStep ==
  ASSUME IInv, Guard
  PROVE  After
<1>0. stage \in StageRow /\ stage.at = "guard"
  BY DEF IInv, TypeInv, Guard, At
<1>1. CASE Go(To("begin"))
  <2>1. Framed /\ Kept /\ db' = db /\ stage' = [stage EXCEPT !.at = "begin"]
    BY <1>1, GoesOn DEF To
  <2>2. stage' \in StageRow /\ PlaceInv' /\ PassedBy(stage) = PassedBy(stage')
    BY <1>0, <2>1 DEF StageRow, PlaceInv, Placed, IInv, Places, Inside, Ordered, Held,
         PassedBy, Closed
  <2>3. PassedBy(stage) <= PassedBy(stage')
    BY <1>0, <2>2, PassedType
  <2>4. Clear(db, stage) => Clear(db', stage')
    BY <1>0, <2>1, DraftsStay DEF Clear, StageRow
  <2> QED
    BY <1>0, <2>1, <2>2, <2>3, <2>4, AfterMove DEF StageRow
<1>2. CASE Unread([stage EXCEPT !.at = "done", !.status = "unavailable"])
  <2>1. /\ Framed /\ Kept /\ db' = db
        /\ stage' = [stage EXCEPT !.at = "done", !.status = "unavailable"]
    BY <1>2, GoesOn
  <2>2. stage' \in StageRow /\ PlaceInv' /\ PassedBy(stage') = Groups
    BY <1>0, <2>1 DEF StageRow, PlaceInv, Placed, IInv, Places, Inside, Ordered, Held,
         PassedBy, Closed
  <2>3. PassedBy(stage) <= PassedBy(stage')
    BY <1>0, <2>2, PassedType, Sizes
  <2>4. Clear(db, stage) => Clear(db', stage')
    BY <1>0, <2>1, DraftsStay DEF Clear, StageRow
  <2> QED
    BY <1>0, <2>1, <2>2, <2>3, <2>4, AfterMove DEF StageRow
<1> QED
  BY <1>1, <1>2 DEF Guard

\* So does every way to take the next group, to skip it, or to stop.
LEMMA NextGroupStep ==
  ASSUME IInv, NextGroup
  PROVE  After
<1>0. stage \in StageRow /\ stage.at = "next"
  BY DEF IInv, TypeInv, NextGroup, At, PlaceInv, Placed, Inside, Group, StageRow
<1>1. CASE cancelled /\ Go(Partly("stop"))
  <2>1. /\ Framed /\ Kept /\ db' = db
        /\ stage' = [stage EXCEPT !.at = "stop", !.status = "partial"]
    BY <1>1, GoesOn DEF Partly
  <2>2. stage' \in StageRow /\ PlaceInv' /\ PassedBy(stage') = Groups
    BY <1>0, <2>1 DEF StageRow, PlaceInv, Placed, IInv, Places, Inside, Ordered, Held,
         PassedBy, Closed
  <2>3. PassedBy(stage) <= PassedBy(stage')
    BY <1>0, <2>2, PassedType, Sizes
  <2>4. faults' = 0 /\ Clear(db, stage) => Clear(db', stage')
    BY <1>0, <2>1, DraftsStay DEF Clear, StageRow, Places
  <2> QED
    BY <1>0, <2>1, <2>2, <2>3, <2>4, AfterMove DEF StageRow
<1>2. CASE ~cancelled /\ Remaining = {} /\ Go(To("stop"))
  <2>1. /\ Framed /\ Kept /\ db' = db
        /\ stage' = [stage EXCEPT !.at = "stop"]
        /\ stage.g - 1 = Groups
    BY <1>2, GoesOn, Sizes DEF To, Remaining, IInv, TypeInv, StageRow
  <2>2. stage' \in StageRow /\ PlaceInv' /\ PassedBy(stage) = PassedBy(stage')
    BY <1>0, <2>1 DEF StageRow, PlaceInv, Placed, IInv, Places, Inside, Ordered, Held,
         PassedBy, Closed
  <2>3. PassedBy(stage) <= PassedBy(stage')
    BY <1>0, <2>2, PassedType, Sizes
  <2>4. faults' = 0 /\ Clear(db, stage) => Clear(db', stage')
    BY <1>0, <2>1, DraftsStay DEF Clear, StageRow, Places
  <2> QED
    BY <1>0, <2>1, <2>2, <2>3, <2>4, AfterMove DEF StageRow
<1>3. CASE ~cancelled /\ Remaining # {} /\ Go(To("probe"))
  <2>1. /\ Framed /\ Kept /\ db' = db
        /\ stage' = [stage EXCEPT !.at = "probe"]
        /\ stage.g \in Group
    BY <1>3, GoesOn, Sizes DEF To, Remaining, IInv, TypeInv, StageRow, Group
  <2>2. stage' \in StageRow /\ PlaceInv' /\ PassedBy(stage) = PassedBy(stage')
    BY <1>0, <2>1, Sizes DEF StageRow, PlaceInv, Placed, IInv, Places, Inside, Ordered,
         Held, PassedBy, Closed
  <2>3. PassedBy(stage) <= PassedBy(stage')
    BY <1>0, <2>2, PassedType, Sizes
  <2>4. faults' = 0 /\ Clear(db, stage) => Clear(db', stage')
    BY <1>0, <2>1, DraftsStay DEF Clear, StageRow, Places
  <2> QED
    BY <1>0, <2>1, <2>2, <2>3, <2>4, AfterMove DEF StageRow
<1>4. CASE ~cancelled /\ Unread(Partly("stop"))
  <2>1. /\ Framed /\ Kept /\ db' = db
        /\ stage' = [stage EXCEPT !.at = "stop", !.status = "partial"]
    BY <1>4, GoesOn DEF Partly
  <2>2. stage' \in StageRow /\ PlaceInv' /\ PassedBy(stage') = Groups
    BY <1>0, <2>1 DEF StageRow, PlaceInv, Placed, IInv, Places, Inside, Ordered, Held,
         PassedBy, Closed
  <2>3. PassedBy(stage) <= PassedBy(stage')
    BY <1>0, <2>2, PassedType, Sizes
  <2>4. faults' = 0 /\ Clear(db, stage) => Clear(db', stage')
    BY <1>0, <2>1, DraftsStay DEF Clear, StageRow, Places
  <2> QED
    BY <1>0, <2>1, <2>2, <2>3, <2>4, AfterMove DEF StageRow
<1>5. CASE ~cancelled /\ Remaining # {} /\ Unread([Partly("next") EXCEPT !.g = @ + 1])
  <2>1. PICK z : z = [Partly("next") EXCEPT !.g = @ + 1]
    OBVIOUS
  <2>2. /\ z = [stage EXCEPT !.at = "next", !.status = "partial", !.g = @ + 1]
        /\ stage.g \in 1..Groups /\ stage.tried = 0 /\ stage.part = 0
    BY <1>0, <1>5, <2>1, Sizes DEF Partly, Remaining, StageRow, IInv, PlaceInv, Placed,
         Ordered
  <2>3. Framed /\ Kept /\ db' = db /\ stage' = z
    BY <1>5, <2>1, GoesOn
  <2>4. z \in StageRow /\ z.g = stage.g + 1 /\ z.at = "next" /\ z.part = 0 /\ z.tried = 0
        /\ z.written = stage.written /\ z.status = "partial"
        /\ z.report = stage.report /\ z.analysis = stage.analysis
    <3>1. /\ z.g = stage.g + 1 /\ z.at = "next" /\ z.part = 0 /\ z.tried = 0
          /\ z.written = stage.written /\ z.status = "partial"
          /\ z.report = stage.report /\ z.analysis = stage.analysis
      BY <1>0, <2>2 DEF StageRow
    <3>2. stage.g + 1 \in 1..(Groups + 1)
      BY <2>2, Sizes
    <3>3. PICK m : m = stage.g + 1
      OBVIOUS
    <3>4. z = [stage EXCEPT !.at = "next", !.status = "partial", !.g = m]
      BY <2>2, <3>3
    <3>5. z \in StageRow
      BY <1>0, <3>2, <3>3, <3>4 DEF StageRow, Places
    <3> QED
      BY <3>1, <3>5
  <2>5. stage' \in StageRow /\ PlaceInv'
    BY <1>0, <2>3, <2>4 DEF IInv, PlaceInv, Placed, Inside, Ordered, Held
  <2>6. PassedBy(stage) <= PassedBy(stage')
    BY <1>0, <2>2, <2>3, <2>4, Sizes DEF PassedBy, Closed
  <2>7. faults' = 0 /\ Clear(db, stage) => Clear(db', stage')
    BY <1>0, <2>3, <2>4, DraftsStay DEF Clear, Places
  <2> QED
    BY <1>0, <2>3, <2>4, <2>5, <2>6, <2>7, AfterMove
<1> QED
  BY <1>1, <1>2, <1>3, <1>4, <1>5 DEF NextGroup

\* So does every outcome of a probe, and running out of passes.
LEMMA ProbeStep ==
  ASSUME IInv, Probe
  PROVE  After
<1>0. stage \in StageRow /\ stage.at = "probe"
  BY DEF IInv, TypeInv, Probe, At, PlaceInv, Placed, Inside, Group, StageRow
<1>1. CASE cancelled /\ Go(Found("cancelled"))
  <2>1. /\ Framed /\ Kept /\ db' = db
        /\ stage' = [stage EXCEPT !.at = "write", !.evidence = "cancelled"]
    BY <1>1, GoesOn DEF Found
  <2>2. stage' \in StageRow /\ PlaceInv' /\ PassedBy(stage) = PassedBy(stage')
    BY <1>0, <2>1 DEF StageRow, PlaceInv, Placed, IInv, Places, Inside, Ordered, Held,
         PassedBy, Closed, Evidence
  <2>3. PassedBy(stage) <= PassedBy(stage')
    BY <1>0, <2>2, PassedType, Sizes
  <2>4. faults' = 0 /\ Clear(db, stage) => Clear(db', stage')
    BY <1>0, <2>1, DraftsStay DEF Clear, StageRow, Places
  <2> QED
    BY <1>0, <2>1, <2>2, <2>3, <2>4, AfterMove DEF StageRow
<1>2. CASE stage.tried = 0 /\ ~cancelled /\ Go(Found("unavailable"))
  <2>1. /\ Framed /\ Kept /\ db' = db
        /\ stage' = [stage EXCEPT !.at = "write", !.evidence = "unavailable"]
    BY <1>2, GoesOn DEF Found
  <2>2. stage' \in StageRow /\ PlaceInv' /\ PassedBy(stage) = PassedBy(stage')
    BY <1>0, <2>1 DEF StageRow, PlaceInv, Placed, IInv, Places, Inside, Ordered, Held,
         PassedBy, Closed, Evidence
  <2>3. PassedBy(stage) <= PassedBy(stage')
    BY <1>0, <2>2, PassedType, Sizes
  <2>4. faults' = 0 /\ Clear(db, stage) => Clear(db', stage')
    BY <1>0, <2>1, DraftsStay DEF Clear, StageRow, Places
  <2> QED
    BY <1>0, <2>1, <2>2, <2>3, <2>4, AfterMove DEF StageRow
<1>3. CASE ~cancelled /\ ~CanReserve(stage.reserved) /\ Go(Found("exhausted"))
  <2>1. /\ Framed /\ Kept /\ db' = db
        /\ stage' = [stage EXCEPT !.at = "write", !.evidence = "exhausted"]
    BY <1>3, GoesOn DEF Found
  <2>2. stage' \in StageRow /\ PlaceInv' /\ PassedBy(stage) = PassedBy(stage')
    BY <1>0, <2>1 DEF StageRow, PlaceInv, Placed, IInv, Places, Inside, Ordered, Held,
         PassedBy, Closed, Evidence
  <2>3. PassedBy(stage) <= PassedBy(stage')
    BY <1>0, <2>2, PassedType, Sizes
  <2>4. faults' = 0 /\ Clear(db, stage) => Clear(db', stage')
    BY <1>0, <2>1, DraftsStay DEF Clear, StageRow, Places
  <2> QED
    BY <1>0, <2>1, <2>2, <2>3, <2>4, AfterMove DEF StageRow
<1>4. CASE ~cancelled /\ CanReserve(stage.reserved)
           /\ Go([stage EXCEPT !.reserved = @ + 2, !.tried = @ + 1, !.at = "write",
                !.evidence = "unavailable"])
  <2>1. /\ Framed /\ Kept /\ db' = db
        /\ stage' = [stage EXCEPT !.reserved = @ + 2, !.tried = @ + 1, !.at = "write",
             !.evidence = "unavailable"]
        /\ stage.reserved + 2 \in 0..MaxReads /\ stage.tried + 1 \in 0..Probes
    BY <1>4, <1>0, GoesOn, Sizes DEF CanReserve, IInv, PlaceInv, Placed, StageRow
  <2>2. stage' \in StageRow /\ PlaceInv' /\ PassedBy(stage) = PassedBy(stage')
    BY <1>0, <2>1 DEF StageRow, PlaceInv, Placed, IInv, Places, Inside, Ordered, Held,
         PassedBy, Closed, Evidence
  <2>3. PassedBy(stage) <= PassedBy(stage')
    BY <1>0, <2>2, PassedType, Sizes
  <2>4. faults' = 0 /\ Clear(db, stage) => Clear(db', stage')
    BY <1>0, <2>1, DraftsStay DEF Clear, StageRow, Places
  <2> QED
    BY <1>0, <2>1, <2>2, <2>3, <2>4, AfterMove DEF StageRow
<1>5. CASE ~cancelled /\ CanReserve(stage.reserved) /\ stage.tried + 1 < Probes
           /\ Go([stage EXCEPT !.reserved = @ + 2, !.tried = @ + 1])
  <2>1. /\ Framed /\ Kept /\ db' = db
        /\ stage' = [stage EXCEPT !.reserved = @ + 2, !.tried = @ + 1]
        /\ stage.reserved + 2 \in 0..MaxReads /\ stage.tried + 1 \in 0..Probes
        /\ stage.tried + 1 < Probes
    BY <1>5, <1>0, GoesOn, Sizes DEF CanReserve, IInv, PlaceInv, Placed, StageRow
  <2>2. stage' \in StageRow /\ PlaceInv' /\ PassedBy(stage) = PassedBy(stage')
    BY <1>0, <2>1 DEF StageRow, PlaceInv, Placed, IInv, Places, Inside, Ordered, Held,
         PassedBy, Closed, Evidence
  <2>3. PassedBy(stage) <= PassedBy(stage')
    BY <1>0, <2>2, PassedType, Sizes
  <2>4. faults' = 0 /\ Clear(db, stage) => Clear(db', stage')
    BY <1>0, <2>1, DraftsStay DEF Clear, StageRow, Places
  <2> QED
    BY <1>0, <2>1, <2>2, <2>3, <2>4, AfterMove DEF StageRow
<1>6. CASE ~cancelled /\ CanReserve(stage.reserved) /\ \E e \in {"fit", "unfit"},
           n \in 0..1 : Go([stage EXCEPT !.reserved = @ + 2, !.tried = @ + 1,
                 !.at = "write", !.evidence = e, !.read = n])
  <2>0. PICK e \in {"fit", "unfit"}, n \in 0..1 : Go([stage EXCEPT !.reserved = @ + 2,
        !.tried = @ + 1, !.at = "write", !.evidence = e, !.read = n])
    BY <1>6
  <2>1. /\ Framed /\ Kept /\ db' = db
        /\ stage' = [stage EXCEPT !.reserved = @ + 2, !.tried = @ + 1, !.at = "write",
             !.evidence = e, !.read = n]
        /\ stage.reserved + 2 \in 0..MaxReads /\ stage.tried + 1 \in 0..Probes
    BY <1>6, <1>0, <2>0, GoesOn, Sizes DEF CanReserve, IInv, PlaceInv, Placed, StageRow
  <2>2. stage' \in StageRow /\ PlaceInv' /\ PassedBy(stage) = PassedBy(stage')
    BY <1>0, <2>1 DEF StageRow, PlaceInv, Placed, IInv, Places, Inside, Ordered, Held,
         PassedBy, Closed, Evidence
  <2>3. PassedBy(stage) <= PassedBy(stage')
    BY <1>0, <2>2, PassedType, Sizes
  <2>4. faults' = 0 /\ Clear(db, stage) => Clear(db', stage')
    BY <1>0, <2>1, DraftsStay DEF Clear, StageRow, Places
  <2> QED
    BY <1>0, <2>1, <2>2, <2>3, <2>4, AfterMove DEF StageRow
<1>7. ASSUME NEW e, NEW n
      PROVE  [[stage EXCEPT !.reserved = @ + 2, !.tried = @ + 1] EXCEPT
                !.at = "write", !.evidence = e, !.read = n]
               = [stage EXCEPT !.reserved = @ + 2, !.tried = @ + 1, !.at = "write",
                     !.evidence = e, !.read = n]
  BY <1>0 DEF StageRow
<1>8. /\ [stage EXCEPT !.reserved = @ + 2, !.tried = @ + 1].tried = stage.tried + 1
      /\ [[stage EXCEPT !.reserved = @ + 2, !.tried = @ + 1] EXCEPT
            !.at = "write", !.evidence = "unavailable"]
           = [stage EXCEPT !.reserved = @ + 2, !.tried = @ + 1,
                           !.at = "write", !.evidence = "unavailable"]
  BY <1>0 DEF StageRow
<1>9. PICK more : more = [stage EXCEPT !.reserved = @ + 2, !.tried = @ + 1]
  OBVIOUS
<1> QED
  <2>1. \/ cancelled /\ Go(Found("cancelled"))
        \/ stage.tried = 0 /\ ~cancelled /\ Go(Found("unavailable"))
        \/ ~cancelled /\ ~CanReserve(stage.reserved) /\ Go(Found("exhausted"))
        \/ /\ ~cancelled /\ CanReserve(stage.reserved)
           /\ \/ more.tried < Probes /\ Go(more)
              \/ Go([more EXCEPT !.at = "write", !.evidence = "unavailable"])
              \/ \E e \in {"fit", "unfit"}, n \in 0..1 :
                   Go([more EXCEPT !.at = "write", !.evidence = e, !.read = n])
    BY <1>9 DEF Probe
  <2> QED
    BY <1>1, <1>2, <1>3, <1>4, <1>5, <1>6, <1>7, <1>8, <1>9, <2>1

\* The places at which persist_metadata_and_analysis writes.
Writing == {"report", "reportParts", "reportSeal", "analysis", "analysisParts",
            "analysisSeal"}

\* A write is answered Ok with its change made, or refused; a refusal without a
\* failure made no change and had a reason.
LEMMA Writes ==
  ASSUME IInv, NEW a, NEW e, NEW t, NEW r, Write(a, e, t, r), a => Sound(db, e, now)
  PROVE  /\ Framed /\ Kept
         /\ \/ a /\ db' = e /\ stage' = t
            \/ stage' = r /\ (faults' = 0 => ~a /\ db' = db)
<1>1. Framed
  BY Sizes DEF Write, Fault, Framed, IInv, TypeInv
<1>2. db' = db \/ (a /\ db' = e)
  BY DEF Write
<1>3. Kept
  BY <1>2, Unwritten DEF IInv, Grounds, Kept
<1>4. \/ a /\ db' = e /\ stage' = t
      \/ stage' = r /\ (faults' = 0 => ~a /\ db' = db)
  <2>1. faults \in Nat
    BY Sizes DEF IInv, TypeInv
  <2> QED
    BY <2>1 DEF Write, Fault
<1> QED
  BY <1>1, <1>3, <1>4

\* A group given up while it is written keeps what is known of its drafts.
LEMMA GivesUpGroup ==
  ASSUME IInv, Framed, Kept, faults' = 0 => db' = db,
         stage.at \in Writing, stage' = To("clean")
  PROVE  After
<1>0. stage \in StageRow
  BY DEF IInv, TypeInv
<1>1. CASE stage' = To("clean")
  <2>1. /\ stage' = [stage EXCEPT !.at = "clean"]
        /\ (faults' = 0 => db' = db) /\ Framed /\ Kept
        /\ stage.at \in Writing
    BY <1>0 DEF To
  <2>2. stage' \in StageRow /\ PlaceInv' /\ PassedBy(stage) = PassedBy(stage')
    BY <1>0, <2>1 DEF StageRow, PlaceInv, Placed, IInv, Places, Inside, Ordered, Held,
         PassedBy, Closed, Writing
  <2>3. PassedBy(stage) <= PassedBy(stage')
    BY <1>0, <2>2, PassedType, Sizes
  <2>4. faults' = 0 /\ Clear(db, stage) => Clear(db', stage')
    BY <1>0, <2>1, DraftsStay DEF Clear, StageRow, Places, Writing
  <2> QED
    BY <1>0, <2>1, <2>2, <2>3, <2>4, AfterMove DEF StageRow, Writing
<1> QED
  BY <1>1

\* A stage that stops keeps what is known of its drafts.
LEMMA GivesUpStage ==
  ASSUME IInv, Framed, Kept, faults' = 0 => db' = db,
         stage.at \in {"write", "clean", "failed"}, stage' = Partly("stop")
  PROVE  After
<1>0. stage \in StageRow
  BY DEF IInv, TypeInv
<1>1. CASE stage' = Partly("stop")
  <2>1. /\ stage' = [stage EXCEPT !.at = "stop", !.status = "partial"]
        /\ (faults' = 0 => db' = db) /\ Framed /\ Kept
        /\ stage.at \in {"write", "clean", "failed"}
    BY <1>0 DEF Partly
  <2>2. stage' \in StageRow /\ PlaceInv' /\ PassedBy(stage') = Groups
    BY <1>0, <2>1 DEF StageRow, PlaceInv, Placed, IInv, Places, Inside, Ordered, Held,
         PassedBy, Closed
  <2>3. PassedBy(stage) <= PassedBy(stage')
    BY <1>0, <2>2, PassedType, Sizes
  <2>4. faults' = 0 /\ Clear(db, stage) => Clear(db', stage')
    BY <1>0, <2>1, DraftsStay DEF Clear, StageRow, Places
  <2> QED
    BY <1>0, <2>1, <2>2, <2>3, <2>4, AfterMove DEF StageRow
<1> QED
  BY <1>1

\* Beginning the session keeps the stage in order: begun, or unavailable.
LEMMA BeginStep ==
  ASSUME IInv, Begin
  PROVE  After
<1>0. stage \in StageRow /\ stage.at = "begin"
  BY DEF IInv, TypeInv, Begin, At
<1>1. PICK a, e, t, r : /\ a = CanBeginSession(db, now) /\ e = BeginSession(db, now)
                        /\ t = (IF cancelled THEN Partly("stop") ELSE To("next"))
                        /\ r = [stage EXCEPT !.at = "done", !.status = "unavailable"]
  OBVIOUS
<1>2. a => Sound(db, e, now) /\ Draft(e) /\ e.report = db.report
      /\ e.analysis = db.analysis
  BY <1>1, SessionMoves DEF IInv, TypeInv, TablesInv
<1>3. Write(a, e, t, r)
  BY <1>1 DEF Begin
<1>4. /\ Framed /\ Kept
      /\ \/ a /\ db' = e /\ stage' = t
         \/ stage' = r /\ (faults' = 0 => ~a /\ db' = db)
  BY <1>2, <1>3, Writes
<1>5. CASE a /\ db' = e /\ stage' = t /\ cancelled
  <2>1. /\ Framed /\ Kept
        /\ stage' = [stage EXCEPT !.at = "stop", !.status = "partial"]
        /\ Draft(db') /\ db'.report = db.report /\ db'.analysis = db.analysis
    BY <1>1, <1>2, <1>4, <1>5 DEF Partly
  <2>2. stage' \in StageRow /\ PlaceInv' /\ PassedBy(stage') = Groups
    BY <1>0, <2>1 DEF StageRow, PlaceInv, Placed, IInv, Places, Inside, Ordered, Held,
         PassedBy, Closed
  <2>3. PassedBy(stage) <= PassedBy(stage')
    BY <1>0, <2>2, PassedType, Sizes
  <2>4. faults' = 0 /\ Clear(db, stage) => Clear(db', stage')
    <3> SUFFICES ASSUME faults' = 0, Clear(db, stage) PROVE Clear(db', stage')
      OBVIOUS
    <3>0. /\ stage'.report = stage.report /\ stage'.analysis = stage.analysis
          /\ stage'.g = stage.g
      BY <1>0, <2>1 DEF StageRow
    <3>1. DraftsKnown(db', stage')
      <4>1. DraftsKnown(db, stage)
        BY DEF Clear
      <4>2. PICK d, f, s, z : d = db /\ f = db' /\ s = stage /\ z = stage'
        OBVIOUS
      <4> QED
        BY <2>1, <3>0, <4>1, <4>2, DraftsStay
    <3>2. Draft(db')
      BY <2>1
    <3>3. stage'.at \in {"stop", "next"} /\ ~stage.report /\ ~stage.analysis
      BY <1>0, <2>1 DEF Clear, StageRow
    <3> QED
      BY <3>0, <3>1, <3>2, <3>3 DEF Clear
  <2> QED
    BY <1>0, <2>1, <2>2, <2>3, <2>4, AfterMove DEF StageRow
<1>6. CASE a /\ db' = e /\ stage' = t /\ ~cancelled
  <2>1. /\ Framed /\ Kept
        /\ stage' = [stage EXCEPT !.at = "next"]
        /\ Draft(db') /\ db'.report = db.report /\ db'.analysis = db.analysis
    BY <1>1, <1>2, <1>4, <1>6 DEF To
  <2>2. stage' \in StageRow /\ PlaceInv' /\ PassedBy(stage) = PassedBy(stage')
    BY <1>0, <2>1 DEF StageRow, PlaceInv, Placed, IInv, Places, Inside, Ordered, Held,
         PassedBy, Closed
  <2>3. PassedBy(stage) <= PassedBy(stage')
    BY <1>0, <2>2, PassedType, Sizes
  <2>4. faults' = 0 /\ Clear(db, stage) => Clear(db', stage')
    <3> SUFFICES ASSUME faults' = 0, Clear(db, stage) PROVE Clear(db', stage')
      OBVIOUS
    <3>0. /\ stage'.report = stage.report /\ stage'.analysis = stage.analysis
          /\ stage'.g = stage.g
      BY <1>0, <2>1 DEF StageRow
    <3>1. DraftsKnown(db', stage')
      <4>1. DraftsKnown(db, stage)
        BY DEF Clear
      <4>2. PICK d, f, s, z : d = db /\ f = db' /\ s = stage /\ z = stage'
        OBVIOUS
      <4> QED
        BY <2>1, <3>0, <4>1, <4>2, DraftsStay
    <3>2. Draft(db')
      BY <2>1
    <3>3. stage'.at \in {"stop", "next"} /\ ~stage.report /\ ~stage.analysis
      BY <1>0, <2>1 DEF Clear, StageRow
    <3> QED
      BY <3>0, <3>1, <3>2, <3>3 DEF Clear
  <2> QED
    BY <1>0, <2>1, <2>2, <2>3, <2>4, AfterMove DEF StageRow
<1>7. CASE stage' = r /\ (faults' = 0 => ~a /\ db' = db)
  <2>1. /\ Framed /\ Kept
        /\ stage' = [stage EXCEPT !.at = "done", !.status = "unavailable"]
        /\ faults' = 0 => db' = db
    BY <1>1, <1>4, <1>7
  <2>2. stage' \in StageRow /\ PlaceInv' /\ PassedBy(stage') = Groups
    BY <1>0, <2>1 DEF StageRow, PlaceInv, Placed, IInv, Places, Inside, Ordered, Held,
         PassedBy, Closed
  <2>3. PassedBy(stage) <= PassedBy(stage')
    BY <1>0, <2>2, PassedType, Sizes
  <2>4. faults' = 0 /\ Clear(db, stage) => Clear(db', stage')
    <3> SUFFICES ASSUME faults' = 0, Clear(db, stage) PROVE Clear(db', stage')
      OBVIOUS
    <3>1. db' = db /\ db.session.state = "none"
      BY <1>0, <2>1 DEF Clear
    <3>2. /\ stage'.report = stage.report /\ stage'.analysis = stage.analysis
          /\ stage'.g = stage.g /\ stage'.at = "done"
          /\ ~stage.report /\ ~stage.analysis
      BY <1>0, <2>1 DEF Clear, StageRow
    <3>3. DraftsKnown(db, stage')
      BY <3>2 DEF Clear, DraftsKnown
    <3> QED
      BY <3>1, <3>2, <3>3 DEF Clear
  <2> QED
    BY <1>0, <2>1, <2>2, <2>3, <2>4, AfterMove DEF StageRow
<1> QED
  BY <1>4, <1>5, <1>6, <1>7

\* A step of persist_metadata_and_analysis gives the group up, or its write was
\* made and told.
LEMMA Persisted ==
  ASSUME IInv, NEW p \in Writing, NEW a, NEW e, NEW t, Persist(p, a, e, t),
         a => Sound(db, e, now)
  PROVE  \/ After
         \/ stage.at = p /\ Framed /\ Kept /\ a /\ db' = e /\ stage' = t
<1>1. stage.at = p /\ stage.at \in Writing
  BY DEF Persist, At
<1>2. CASE cancelled /\ Go(To("clean"))
  <2>1. Framed /\ Kept /\ db' = db /\ stage' = To("clean")
    BY <1>2, GoesOn
  <2> QED
    BY <1>1, <2>1, GivesUpGroup
<1>3. CASE ~cancelled /\ Write(a, e, t, To("clean"))
  <2>1. /\ Framed /\ Kept
        /\ \/ a /\ db' = e /\ stage' = t
           \/ stage' = To("clean") /\ (faults' = 0 => ~a /\ db' = db)
    BY <1>3, Writes
  <2> QED
    BY <1>1, <2>1, GivesUpGroup
<1> QED
  BY <1>2, <1>3 DEF Persist

\* What record_group changes: one count, and the place.
LEMMA Counting ==
  ASSUME IInv, NEW k \in Kinds, stage.g \in Group, NEW z, z = Wrote(k)
  PROVE  /\ z.written = [stage.written EXCEPT ![k] = @ + 1]
         /\ z.report = stage.report /\ z.analysis = stage.analysis
         /\ \/ z.at = "stop" /\ z.status = "partial" /\ z.g = stage.g
            \/ /\ z.at = "next" /\ z.g = stage.g + 1 /\ z.status = stage.status
               /\ z.part = 0 /\ z.tried = 0
         /\ z \in StageRow
<1>1. stage \in StageRow /\ stage.g \in 1..Groups
  BY DEF IInv, TypeInv, Group
<1>2. PICK w, m : w = [stage.written EXCEPT ![k] = @ + 1] /\ m = stage.g + 1
  OBVIOUS
<1>3. w \in [Kinds -> Nat] /\ m \in 1..(Groups + 1)
  BY <1>1, <1>2, Sizes DEF StageRow
<1>4. PICK c : c = [stage EXCEPT !.written[k] = @ + 1]
  OBVIOUS
<1>5. c = [stage EXCEPT !.written = w] /\ c \in StageRow
  BY <1>1, <1>2, <1>3, <1>4 DEF StageRow
<1>6. z = IF cancelled \/ stage.evidence = "exhausted"
          THEN [c EXCEPT !.at = "stop", !.status = "partial"]
          ELSE [c EXCEPT !.at = "next", !.g = @ + 1, !.tried = 0, !.part = 0,
                         !.evidence = "none", !.read = 0]
  BY <1>4 DEF Wrote
<1>7. CASE cancelled \/ stage.evidence = "exhausted"
  <2>1. z = [c EXCEPT !.at = "stop", !.status = "partial"]
    BY <1>6, <1>7
  <2>2. z \in StageRow
    BY <1>5, <2>1 DEF StageRow, Places
  <2> QED
    BY <1>1, <1>2, <1>5, <2>1, <2>2 DEF StageRow
<1>8. CASE ~(cancelled \/ stage.evidence = "exhausted")
  <2>1. z = [c EXCEPT !.at = "next", !.g = m, !.tried = 0, !.part = 0,
                      !.evidence = "none", !.read = 0]
    <3>1. c.g = stage.g
      BY <1>1, <1>5 DEF StageRow
    <3> QED
      BY <1>2, <1>6, <1>8, <3>1
  <2>2. z \in StageRow
    <3>1. 0 \in 0..Probes /\ 0 \in 0..6 /\ 0 \in 0..1
      BY Sizes
    <3>2. PICK b : b = [c EXCEPT !.at = "next", !.g = m, !.tried = 0]
      OBVIOUS
    <3>3. b \in StageRow
      BY <1>3, <1>5, <3>1, <3>2 DEF StageRow, Places
    <3>4. z = [b EXCEPT !.part = 0, !.evidence = "none", !.read = 0]
      BY <1>5, <2>1, <3>2 DEF StageRow
    <3> QED
      BY <3>1, <3>3, <3>4 DEF StageRow, Evidence
  <2>3. /\ z.at = "next" /\ z.g = m /\ z.status = stage.status /\ z.part = 0
        /\ z.tried = 0
        /\ z.written = w /\ z.report = stage.report /\ z.analysis = stage.analysis
    BY <1>1, <1>5, <2>1 DEF StageRow
  <2> QED
    BY <1>2, <2>2, <2>3
<1> QED
  BY <1>7, <1>8

\* A group counted with the outcome it has in the store leaves the stage in
\* order.
LEMMA AfterCount ==
  ASSUME IInv, Framed, Kept, NEW k \in Kinds, stage.at \in Inside, NEW w, w = Wrote(k),
         NEW z, z \in {w, [w EXCEPT !.analysis = FALSE]}, stage' = z,
         ~z.report, ~z.analysis,
         db'.outcome[stage.g].kind = k,
         faults' = 0 /\ Clear(db, stage) =>
           DraftsKnown(db', stage') /\ Draft(db')
  PROVE  After
<1>1. stage \in StageRow /\ stage.g \in Group /\ Told(db, stage)
  BY DEF IInv, TypeInv, PlaceInv, Placed, ToldInv
<1>2. /\ w.written = [stage.written EXCEPT ![k] = @ + 1]
      /\ \/ w.at = "stop" /\ w.status = "partial" /\ w.g = stage.g
         \/ /\ w.at = "next" /\ w.g = stage.g + 1 /\ w.status = stage.status
            /\ w.part = 0 /\ w.tried = 0
      /\ w \in StageRow
  BY <1>1, Counting
<1>3. /\ z.written = w.written /\ z.at = w.at /\ z.status = w.status /\ z.g = w.g
      /\ z.part = w.part /\ z.tried = w.tried /\ z \in StageRow
  BY <1>2 DEF StageRow
<1>4. PlaceInv'
  BY <1>2, <1>3 DEF PlaceInv, Placed, Inside, Ordered, Held
<1>5. Told(db', z)
  <2>1. db \in Db /\ db' \in Db /\ Grows(db, db')
    BY DEF IInv, TypeInv, Kept, Sound
  <2>2. PICK d, e, s : d = db /\ e = db' /\ s = stage
    OBVIOUS
  <2>3. \/ z.at = "stop" /\ z.status = "partial"
        \/ z.at = "next" /\ z.g = s.g + 1 /\ z.status = s.status
    BY <1>2, <1>3, <2>2
  <2>4. z.written = [s.written EXCEPT ![k] = @ + 1]
    BY <1>2, <1>3, <2>2
  <2> QED
    BY <1>1, <1>3, <2>1, <2>2, <2>3, <2>4, ToldCounted
<1>6. CleanInv'
  <2> SUFFICES ASSUME faults' = 0, backs' = 0 PROVE Clear(db', stage')
    BY DEF CleanInv
  <2>1. faults = 0 /\ backs = 0 /\ Clear(db, stage)
    BY DEF Framed, IInv, TypeInv, CleanInv, Inside
  <2>2. stage'.at \in {"stop", "next"}
    BY <1>2, <1>3
  <2> QED
    BY <2>1, <2>2 DEF Clear
<1> QED
  BY <1>3, <1>4, <1>5, <1>6 DEF After, ToldInv

\* Recording a group without evidence counts the outcome it recorded, or stops.
LEMMA RecordStep ==
  ASSUME IInv, NEW k \in {"unavailable", "failed"}, stage.at \in {"write", "failed"},
         Write(CanRecord(db, stage.g, k, db.session.at),
               Record(db, stage.g, k, db.session.at), Wrote(k), Partly("stop"))
  PROVE  After
<1>0. stage.g \in Group /\ Grounds
  BY DEF IInv, PlaceInv, Placed, Inside, Grounds
<1>1. PICK a, e, t, r : /\ a = CanRecord(db, stage.g, k, db.session.at)
                        /\ e = Record(db, stage.g, k, db.session.at)
                        /\ t = Wrote(k) /\ r = Partly("stop")
  OBVIOUS
<1>2. a => /\ Sound(db, e, now) /\ e.outcome[stage.g].kind = k
           /\ OneGroup(db, e, stage.g)
           /\ e.report = db.report /\ e.analysis = db.analysis
  <2>1. db \in Db /\ StoreInv(db) /\ db.session.at \in Time
    BY <1>0 DEF Grounds, TypeInv, TablesInv, Db, SessionRow
  <2>2. PICK d, g, u : d = db /\ g = stage.g /\ u = db.session.at
    OBVIOUS
  <2> SUFFICES ASSUME a
               PROVE  /\ Sound(db, e, now) /\ e.outcome[stage.g].kind = k
                      /\ OneGroup(db, e, stage.g)
                      /\ e.report = db.report /\ e.analysis = db.analysis
    OBVIOUS
  <2>3. CanRecord(d, g, k, u) /\ e = Record(d, g, k, u)
    BY <1>1, <2>2
  <2>4. /\ Sound(d, e, u) /\ e.outcome[g].kind = k
        /\ OneGroup(d, e, g) /\ e.report = d.report /\ e.analysis = d.analysis
    BY <1>0, <2>1, <2>2, <2>3, RecordingStep
  <2> QED
    BY <2>2, <2>4, SoundSooner
<1>3. Write(a, e, t, r)
  BY <1>1
<1>4. /\ Framed /\ Kept
      /\ \/ a /\ db' = e /\ stage' = t
         \/ stage' = r /\ (faults' = 0 => ~a /\ db' = db)
  BY <1>2, <1>3, Writes
<1>5. CASE a /\ db' = e /\ stage' = t
  <2>1. k \in Kinds /\ stage.at \in Inside
    BY DEF Kinds, Inside
  <2>2. t.report = stage.report /\ t.analysis = stage.analysis
    BY <1>0, <1>1, <2>1, Counting
  <2>4. ~t.report /\ ~t.analysis
    BY <2>2 DEF IInv, PlaceInv, Placed, Held
  <2>3. ASSUME Clear(db, stage)
        PROVE  DraftsKnown(db', stage') /\ Draft(db')
    <3>1. ~stage'.report /\ ~stage'.analysis /\ ~stage.report /\ ~stage.analysis
      BY <1>5, <2>2, <2>3 DEF Clear
    <3>2. Draft(db')
      BY <1>2, <1>5, <2>3 DEF Clear, OneGroup, Draft, Places
    <3>3. DraftsKnown(db', stage')
      BY <1>2, <1>5, <2>3, <3>1 DEF Clear, DraftsKnown
    <3> QED
      BY <3>1, <3>2, <3>3
  <2> QED
    BY <1>1, <1>2, <1>4, <1>5, <2>1, <2>3, <2>4, AfterCount
<1>6. CASE stage' = r /\ (faults' = 0 => ~a /\ db' = db)
  BY <1>1, <1>4, <1>6, GivesUpStage
<1> QED
  BY <1>4, <1>5, <1>6

\* Recording the failure of a group keeps the stage in order.
LEMMA FailGroupStep ==
  ASSUME IInv, FailGroup
  PROVE  After
  BY RecordStep DEF FailGroup, At

\* Turning from the probes to the tables keeps the stage in order.
LEMMA WriteGroupStep ==
  ASSUME IInv, WriteGroup
  PROVE  After
<1>0. stage \in StageRow /\ stage.at = "write" /\ stage.g \in Group
  BY DEF IInv, TypeInv, WriteGroup, At, PlaceInv, Placed, Inside
<1>1. CASE Go(Partly("stop"))
  <2>1. Framed /\ Kept /\ db' = db /\ stage' = Partly("stop")
    BY <1>1, GoesOn
  <2> QED
    BY <1>0, <2>1, GivesUpStage
<1>2. CASE Write(CanRecord(db, stage.g, "unavailable", db.session.at),
                 Record(db, stage.g, "unavailable", db.session.at),
                 Wrote("unavailable"), Partly("stop"))
  BY <1>0, <1>2, RecordStep
<1>3. CASE Go(To("report"))
  <2>1. /\ Framed /\ Kept /\ db' = db
        /\ stage' = [stage EXCEPT !.at = "report"]
    BY <1>3, GoesOn DEF To
  <2>2. stage' \in StageRow /\ PlaceInv' /\ PassedBy(stage) = PassedBy(stage')
    BY <1>0, <2>1 DEF StageRow, PlaceInv, Placed, IInv, Places, Inside, Ordered, Held,
         PassedBy, Closed
  <2>3. PassedBy(stage) <= PassedBy(stage')
    BY <1>0, <2>2, PassedType, Sizes
  <2>4. faults' = 0 /\ Clear(db, stage) => Clear(db', stage')
    BY <1>0, <2>1, DraftsStay DEF Clear, StageRow, Places
  <2> QED
    BY <1>0, <2>1, <2>2, <2>3, <2>4, AfterMove DEF StageRow
<1> QED
  BY <1>1, <1>2, <1>3 DEF WriteGroup

\* A write to the rows of the group in hand leaves the stage in order when it
\* knows the drafts it left.
LEMMA AfterTurn ==
  ASSUME IInv, Framed, Kept, NEW g, g = stage.g, g \in Group, OneGroup(db, db', g),
         stage' \in StageRow, PlaceInv', stage'.written = stage.written,
         stage'.g = g, stage'.status = stage.status,
         stage.at \in Inside, stage'.at \in Inside,
         Clear(db, stage) =>
           /\ db'.report[g].state = "draft" <=> stage'.report
           /\ db'.analysis[g].state = "draft" <=> stage'.analysis
           /\ stage'.report => stage'.at \in {"reportParts", "reportSeal", "clean"}
           /\ stage'.analysis => stage'.at \in {"analysisParts", "analysisSeal", "clean"}
  PROVE  After
<1>1. PassedBy(stage) = PassedBy(stage')
  BY DEF PassedBy, Closed, Inside
<1>2. PassedBy(stage) <= PassedBy(stage')
  BY <1>1, PassedType, Sizes DEF IInv, TypeInv
<1>3. ASSUME Clear(db, stage)
      PROVE  Clear(db', stage')
  <2>1. DraftsKnown(db', stage')
    <3>1. DraftsKnown(db, stage)
      BY <1>3 DEF Clear
    <3>2. PICK d, f, s, z : d = db /\ f = db' /\ s = stage /\ z = stage'
      OBVIOUS
    <3> QED
      BY <1>3, <3>1, <3>2, DraftsTurn
  <2>2. Draft(db')
    BY <1>3 DEF Clear, OneGroup, Draft, Inside, Places
  <2> QED
    BY <1>3, <2>1, <2>2 DEF Clear, Inside
<1> QED
  BY <1>1, <1>2, <1>3, AfterMove DEF Inside

\* Writing the report keeps the stage in order.
LEMMA WriteReportStep ==
  ASSUME IInv, WriteReport
  PROVE  After
<1>a. PICK g, p : g = stage.g /\ p = ReportParts[stage.part + 1]
  OBVIOUS
<1>0. g = stage.g /\ p = ReportParts[stage.part + 1] /\ stage \in StageRow /\ Grounds
      /\ (stage.at \in Inside => g \in Group)
  BY <1>a DEF IInv, TypeInv, PlaceInv, Placed, Grounds
<1>1. ASSUME Persist("report", CanBeginReport(db, stage.g, stage.read, db.session.at),
             BeginReport(db, stage.g, stage.read, db.session.at),
                   [stage EXCEPT !.at = "reportParts", !.report = TRUE])
      PROVE  After
  <2>1. PICK a, e, t : a = CanBeginReport(db, stage.g, stage.read, db.session.at)
        /\ e = BeginReport(db, stage.g, stage.read, db.session.at)
        /\ t = [stage EXCEPT !.at = "reportParts", !.report = TRUE]
    OBVIOUS
  <2>2. Persist("report", a, e, t) /\ stage.at = "report" /\ stage.at \in Inside
    BY <1>1, <2>1 DEF Persist, At, Inside
  <2>3. stage \in StageRow /\ g \in Group /\ stage.part = 0
        /\ ReportParts[1] \in Range(ReportParts)
    BY <1>0, <2>2, NextParts DEF IInv, PlaceInv, Placed, Ordered
  <2>4. a => Sound(db, e, now) /\ OneGroup(db, e, g) /\ e.report[g].state = "draft"
        /\ e.analysis = db.analysis
    BY <1>0, <2>1, <2>3, ReportKeeps, NextParts
  <2>5. CASE stage.at = "report" /\ Framed /\ Kept /\ a /\ db' = e /\ stage' = t
    <3>1. stage' = [stage EXCEPT !.at = "reportParts", !.report = TRUE]
      BY <2>1, <2>5
    <3>2. /\ stage' \in StageRow /\ stage'.g = g /\ stage'.written = stage.written
          /\ stage'.status = stage.status
          /\ stage'.at = "reportParts" /\ stage'.report
          /\ stage'.analysis = stage.analysis
          /\ stage'.part = 0
      BY <1>0, <2>3, <3>1 DEF StageRow, Places
    <3>3. PlaceInv'
      BY <1>0, <2>2, <2>3, <2>4, <2>5, <3>2 DEF PlaceInv, Placed, Inside, Ordered, Held,
           IInv, OneGroup
    <3>4. stage'.at \in Inside
      BY <3>2 DEF Inside
    <3>5. Clear(db, stage) =>
            /\ db'.report[g].state = "draft" <=> stage'.report
            /\ db'.analysis[g].state = "draft" <=> stage'.analysis
            /\ stage'.report => stage'.at \in {"reportParts", "reportSeal", "clean"}
            /\ stage'.analysis => stage'.at \in {"analysisParts", "analysisSeal", "clean"}
      BY <1>0, <2>2, <2>3, <2>4, <2>5, <3>2 DEF Clear, DraftsKnown
    <3> QED
      BY <1>0, <2>2, <2>3, <2>4, <2>5, <3>2, <3>3, <3>4, <3>5, AfterTurn
  <2> QED
    <3>1. "report" \in Writing
      BY DEF Writing
    <3> QED
      BY <2>2, <2>4, <2>5, <3>1, Persisted
<1>2. ASSUME Persist("reportParts", CanAddToReport(db, stage.g), AddToReport(db, stage.g,
             ReportParts[stage.part + 1]), [stage EXCEPT !.part = IF @ = 1 THEN 0 ELSE 1,
                              !.at = IF stage.part = 1 THEN "reportSeal" ELSE @])
      PROVE  After
  <2>1. PICK a, e, t : a = CanAddToReport(db, stage.g) /\ e = AddToReport(db, stage.g,
        ReportParts[stage.part + 1]) /\ t = [stage EXCEPT !.part = IF @ = 1 THEN 0 ELSE 1,
                              !.at = IF stage.part = 1 THEN "reportSeal" ELSE @]
    OBVIOUS
  <2>2. Persist("reportParts", a, e, t) /\ stage.at = "reportParts" /\ stage.at \in Inside
    BY <1>2, <2>1 DEF Persist, At, Inside
  <2>3. stage \in StageRow /\ g \in Group /\ stage.part \in 0..1
        /\ p \in Range(ReportParts)
    BY <1>0, <2>2, NextParts DEF IInv, PlaceInv, Placed, Ordered
  <2>4. a => Sound(db, e, now) /\ OneGroup(db, e, g) /\ e.report[g].state = "draft"
        /\ e.analysis = db.analysis /\ db.report[g].state = "draft"
    <3> SUFFICES ASSUME a
                 PROVE  /\ Sound(db, e, now) /\ OneGroup(db, e, g)
                        /\ e.report[g].state = "draft" /\ e.analysis = db.analysis
                        /\ db.report[g].state = "draft"
      OBVIOUS
    <3>1. CanAddToReport(db, g) /\ e = AddToReport(db, g, p)
      BY <1>0, <2>1
    <3>2. /\ Sound(db, e, now) /\ OneGroup(db, e, g)
          /\ e.report[g].state = "draft" /\ e.analysis = db.analysis
      BY <1>0, <2>3, <3>1, ReportKeeps
    <3> QED
      BY <3>1, <3>2 DEF CanAddToReport
  <2>5. CASE stage.at = "reportParts" /\ Framed /\ Kept /\ a /\ db' = e /\ stage' = t
    <3>1. stage' = [stage EXCEPT !.part = IF @ = 1 THEN 0 ELSE 1,
                              !.at = IF stage.part = 1 THEN "reportSeal" ELSE @]
      BY <2>1, <2>5
    <3>2. /\ stage' \in StageRow /\ stage'.g = g /\ stage'.written = stage.written
          /\ stage'.status = stage.status
          /\ stage'.at \in {"reportParts", "reportSeal"} /\ stage'.report = stage.report
          /\ stage'.analysis = stage.analysis
          /\ IF stage.part = 1 THEN stage'.part = 0 /\ stage'.at = "reportSeal"
                               ELSE stage'.part = 1 /\ stage'.at = "reportParts"
      <4>1. PICK m, q : /\ m = IF stage.part = 1 THEN 0 ELSE 1
                        /\ q = IF stage.part = 1 THEN "reportSeal" ELSE stage.at
        OBVIOUS
      <4>2. m \in 0..1 /\ q \in Places
        BY <2>2, <2>3, <4>1 DEF Places
      <4>3. stage' = [stage EXCEPT !.part = m, !.at = q]
        BY <1>0, <3>1, <4>1 DEF StageRow
      <4>4. /\ stage' \in StageRow /\ stage'.g = g /\ stage'.written = stage.written
            /\ stage'.status = stage.status /\ stage'.report = stage.report
            /\ stage'.analysis = stage.analysis /\ stage'.part = m /\ stage'.at = q
        <5>1. PICK s, z : s = stage /\ z = stage'
          OBVIOUS
        <5>2. m \in 0..6 /\ s \in StageRow /\ z = [s EXCEPT !.part = m, !.at = q]
          BY <1>0, <4>2, <4>3, <5>1
        <5>3. /\ z \in StageRow /\ z.g = s.g /\ z.written = s.written
              /\ z.status = s.status /\ z.report = s.report
              /\ z.analysis = s.analysis /\ z.part = m /\ z.at = q
          BY <4>2, <5>2 DEF StageRow
        <5> QED
          BY <1>0, <5>1, <5>3
      <4> QED
        BY <2>2, <2>3, <4>1, <4>2, <4>4
    <3>3. PlaceInv'
      BY <1>0, <2>2, <2>3, <2>4, <2>5, <3>2 DEF PlaceInv, Placed, Inside, Ordered, Held,
           IInv, OneGroup
    <3>4. stage'.at \in Inside
      BY <3>2 DEF Inside
    <3>5. Clear(db, stage) =>
            /\ db'.report[g].state = "draft" <=> stage'.report
            /\ db'.analysis[g].state = "draft" <=> stage'.analysis
            /\ stage'.report => stage'.at \in {"reportParts", "reportSeal", "clean"}
            /\ stage'.analysis => stage'.at \in {"analysisParts", "analysisSeal", "clean"}
      BY <1>0, <2>2, <2>3, <2>4, <2>5, <3>2 DEF Clear, DraftsKnown
    <3> QED
      BY <1>0, <2>2, <2>3, <2>4, <2>5, <3>2, <3>3, <3>4, <3>5, AfterTurn
  <2> QED
    <3>1. "reportParts" \in Writing
      BY DEF Writing
    <3> QED
      BY <2>2, <2>4, <2>5, <3>1, Persisted
<1>3. ASSUME Persist("reportSeal", CanSealReport(db, stage.g, now), SealReport(db,
             stage.g, now), [stage EXCEPT !.at = "analysis", !.report = FALSE])
      PROVE  After
  <2>1. PICK a, e, t : a = CanSealReport(db, stage.g, now) /\ e = SealReport(db, stage.g,
        now) /\ t = [stage EXCEPT !.at = "analysis", !.report = FALSE]
    OBVIOUS
  <2>2. Persist("reportSeal", a, e, t) /\ stage.at = "reportSeal" /\ stage.at \in Inside
    BY <1>3, <2>1 DEF Persist, At, Inside
  <2>3. stage \in StageRow /\ g \in Group /\ stage.part = 0
        /\ ReportParts[1] \in Range(ReportParts)
    BY <1>0, <2>2, NextParts DEF IInv, PlaceInv, Placed, Ordered
  <2>4. a => Sound(db, e, now) /\ OneGroup(db, e, g) /\ e.report[g].state = "sealed"
        /\ e.analysis = db.analysis
    BY <1>0, <2>1, <2>3, ReportKeeps, NextParts
  <2>5. CASE stage.at = "reportSeal" /\ Framed /\ Kept /\ a /\ db' = e /\ stage' = t
    <3>1. stage' = [stage EXCEPT !.at = "analysis", !.report = FALSE]
      BY <2>1, <2>5
    <3>2. /\ stage' \in StageRow /\ stage'.g = g /\ stage'.written = stage.written
          /\ stage'.status = stage.status
          /\ stage'.at = "analysis" /\ ~stage'.report /\ stage'.analysis = stage.analysis
          /\ stage'.part = 0
      BY <1>0, <2>3, <3>1 DEF StageRow, Places
    <3>3. PlaceInv'
      BY <1>0, <2>2, <2>3, <2>4, <2>5, <3>2 DEF PlaceInv, Placed, Inside, Ordered, Held,
           IInv, OneGroup
    <3>4. stage'.at \in Inside
      BY <3>2 DEF Inside
    <3>5. Clear(db, stage) =>
            /\ db'.report[g].state = "draft" <=> stage'.report
            /\ db'.analysis[g].state = "draft" <=> stage'.analysis
            /\ stage'.report => stage'.at \in {"reportParts", "reportSeal", "clean"}
            /\ stage'.analysis => stage'.at \in {"analysisParts", "analysisSeal", "clean"}
      BY <1>0, <2>2, <2>3, <2>4, <2>5, <3>2 DEF Clear, DraftsKnown
    <3> QED
      BY <1>0, <2>2, <2>3, <2>4, <2>5, <3>2, <3>3, <3>4, <3>5, AfterTurn
  <2> QED
    <3>1. "reportSeal" \in Writing
      BY DEF Writing
    <3> QED
      BY <2>2, <2>4, <2>5, <3>1, Persisted
<1> QED
  BY <1>1, <1>2, <1>3 DEF WriteReport

\* Writing the analysis keeps the stage in order, and its seal counts the group
\* as evidence.
LEMMA WriteAnalysisStep ==
  ASSUME IInv, WriteAnalysis
  PROVE  After
<1>a. PICK g, p : g = stage.g /\ p = AnalysisParts[stage.part + 1]
  OBVIOUS
<1>0. g = stage.g /\ p = AnalysisParts[stage.part + 1] /\ stage \in StageRow /\ Grounds
      /\ (stage.at \in Inside => g \in Group)
  BY <1>a DEF IInv, TypeInv, PlaceInv, Placed, Grounds
<1>b. stage.at \in {"analysis", "analysisParts", "analysisSeal"}
      => db.report[g].state = "sealed"
  BY <1>0 DEF Grounds, PlaceInv, Placed
<1>1. ASSUME Persist("analysis", CanBeginAnalysis(db, stage.g, now), BeginAnalysis(db,
             stage.g, now), [stage EXCEPT !.at = "analysisParts", !.analysis = TRUE])
      PROVE  After
  <2>1. PICK a, e, t : a = CanBeginAnalysis(db, stage.g, now) /\ e = BeginAnalysis(db,
        stage.g, now) /\ t = [stage EXCEPT !.at = "analysisParts", !.analysis = TRUE]
    OBVIOUS
  <2>2. Persist("analysis", a, e, t) /\ stage.at = "analysis" /\ stage.at \in Inside
    BY <1>1, <2>1 DEF Persist, At, Inside
  <2>3. stage \in StageRow /\ g \in Group /\ stage.part = 0
        /\ db.report[g].state = "sealed"
    BY <1>b, <1>0, <2>2, NextParts DEF IInv, PlaceInv, Placed, Ordered
  <2>4. a => Sound(db, e, now) /\ OneGroup(db, e, g) /\ e.analysis[g].state = "draft"
        /\ e.report = db.report
    <3> SUFFICES ASSUME a
                 PROVE  /\ Sound(db, e, now) /\ OneGroup(db, e, g)
                        /\ e.analysis[g].state = "draft"
                        /\ e.report = db.report
      OBVIOUS
    <3>1. CanBeginAnalysis(db, g, now) /\ e = BeginAnalysis(db, g, now)
      BY <1>0, <2>1
    <3>2. /\ Sound(db, e, now) /\ OneGroup(db, e, g)
          /\ e.analysis[g].state = "draft"
      BY <1>0, <2>3, <3>1, AnalysisBeginKeeps
    <3> QED
      BY <3>1, <3>2, AnalysisBeginKeeps, <1>0, <2>3
  <2>5. CASE stage.at = "analysis" /\ Framed /\ Kept /\ a /\ db' = e /\ stage' = t
    <3>1. stage' = [stage EXCEPT !.at = "analysisParts", !.analysis = TRUE]
      BY <2>1, <2>5
    <3>2. /\ stage' \in StageRow /\ stage'.g = g /\ stage'.written = stage.written
          /\ stage'.status = stage.status
          /\ stage'.at = "analysisParts" /\ stage'.analysis
          /\ stage'.report = stage.report
          /\ stage'.part = 0
      BY <1>0, <2>3, <3>1 DEF StageRow, Places
    <3>3. PlaceInv'
      BY <1>0, <2>2, <2>3, <2>4, <2>5, <3>2 DEF PlaceInv, Placed, Inside, Ordered, Held,
           IInv, OneGroup
    <3>4. stage'.at \in Inside
      BY <3>2 DEF Inside
    <3>5. Clear(db, stage) =>
            /\ db'.report[g].state = "draft" <=> stage'.report
            /\ db'.analysis[g].state = "draft" <=> stage'.analysis
            /\ stage'.report => stage'.at \in {"reportParts", "reportSeal", "clean"}
            /\ stage'.analysis => stage'.at \in {"analysisParts", "analysisSeal", "clean"}
      BY <1>0, <2>2, <2>3, <2>4, <2>5, <3>2 DEF Clear, DraftsKnown
    <3> QED
      BY <1>0, <2>2, <2>3, <2>4, <2>5, <3>2, <3>3, <3>4, <3>5, AfterTurn
  <2> QED
    <3>1. "analysis" \in Writing
      BY DEF Writing
    <3> QED
      BY <2>2, <2>4, <2>5, <3>1, Persisted
<1>2. ASSUME Persist("analysisParts", CanAddToAnalysis(db, stage.g,
             AnalysisParts[stage.part + 1], stage.evidence = "fit"), AddToAnalysis(db,
                   stage.g, AnalysisParts[stage.part + 1]),
                         [stage EXCEPT !.part = IF @ = 5 THEN 0 ELSE @ + 1,
                              !.at = IF stage.part = 5 THEN "analysisSeal" ELSE @])
      PROVE  After
  <2>1. PICK a, e, t : a = CanAddToAnalysis(db, stage.g, AnalysisParts[stage.part + 1],
        stage.evidence = "fit") /\ e = AddToAnalysis(db, stage.g,
              AnalysisParts[stage.part + 1])
                    /\ t = [stage EXCEPT !.part = IF @ = 5 THEN 0 ELSE @ + 1,
                              !.at = IF stage.part = 5 THEN "analysisSeal" ELSE @]
    OBVIOUS
  <2>2. Persist("analysisParts", a, e, t) /\ stage.at = "analysisParts"
        /\ stage.at \in Inside
    BY <1>2, <2>1 DEF Persist, At, Inside
  <2>3. stage \in StageRow /\ g \in Group /\ stage.part \in 0..5
        /\ p \in Range(AnalysisParts)
    BY <1>0, <2>2, NextParts DEF IInv, PlaceInv, Placed, Ordered
  <2>4. a => Sound(db, e, now) /\ OneGroup(db, e, g) /\ e.analysis[g].state = "draft"
        /\ e.report = db.report /\ db.analysis[g].state = "draft"
    <3> SUFFICES ASSUME a
                 PROVE  /\ Sound(db, e, now) /\ OneGroup(db, e, g)
                        /\ e.analysis[g].state = "draft" /\ e.report = db.report
                        /\ db.analysis[g].state = "draft"
      OBVIOUS
    <3>1. CanAddToAnalysis(db, g, p, stage.evidence = "fit") /\ e = AddToAnalysis(db, g,
          p)
      BY <1>0, <2>1
    <3>2. /\ Sound(db, e, now) /\ OneGroup(db, e, g)
          /\ e.analysis[g].state = "draft" /\ e.report = db.report
      BY <1>0, <2>3, <3>1, AnalysisAddKeeps
    <3> QED
      BY <3>1, <3>2 DEF CanAddToAnalysis
  <2>5. CASE stage.at = "analysisParts" /\ Framed /\ Kept /\ a /\ db' = e /\ stage' = t
    <3>1. stage' = [stage EXCEPT !.part = IF @ = 5 THEN 0 ELSE @ + 1,
                              !.at = IF stage.part = 5 THEN "analysisSeal" ELSE @]
      BY <2>1, <2>5
    <3>2. /\ stage' \in StageRow /\ stage'.g = g /\ stage'.written = stage.written
          /\ stage'.status = stage.status
          /\ stage'.at \in {"analysisParts", "analysisSeal"}
          /\ stage'.report = stage.report
          /\ stage'.analysis = stage.analysis
          /\ IF stage.part = 5 THEN stage'.part = 0 /\ stage'.at = "analysisSeal"
                               ELSE stage'.part = stage.part + 1
                                     /\ stage'.at = "analysisParts"
      <4>1. PICK m, q : /\ m = IF stage.part = 5 THEN 0 ELSE stage.part + 1
                        /\ q = IF stage.part = 5 THEN "analysisSeal" ELSE stage.at
        OBVIOUS
      <4>2. m \in 0..5 /\ q \in Places
        BY <2>2, <2>3, <4>1 DEF Places
      <4>3. stage' = [stage EXCEPT !.part = m, !.at = q]
        BY <1>0, <3>1, <4>1 DEF StageRow
      <4>4. /\ stage' \in StageRow /\ stage'.g = g /\ stage'.written = stage.written
            /\ stage'.status = stage.status /\ stage'.report = stage.report
            /\ stage'.analysis = stage.analysis /\ stage'.part = m /\ stage'.at = q
        <5>1. PICK s, z : s = stage /\ z = stage'
          OBVIOUS
        <5>2. m \in 0..6 /\ s \in StageRow /\ z = [s EXCEPT !.part = m, !.at = q]
          BY <1>0, <4>2, <4>3, <5>1
        <5>3. /\ z \in StageRow /\ z.g = s.g /\ z.written = s.written
              /\ z.status = s.status /\ z.report = s.report
              /\ z.analysis = s.analysis /\ z.part = m /\ z.at = q
          BY <4>2, <5>2 DEF StageRow
        <5> QED
          BY <1>0, <5>1, <5>3
      <4> QED
        BY <2>2, <2>3, <4>1, <4>2, <4>4
    <3>3. PlaceInv'
      BY <1>0, <2>2, <2>3, <2>4, <2>5, <3>2 DEF PlaceInv, Placed, Inside, Ordered, Held,
           IInv, OneGroup
    <3>4. stage'.at \in Inside
      BY <3>2 DEF Inside
    <3>5. Clear(db, stage) =>
            /\ db'.report[g].state = "draft" <=> stage'.report
            /\ db'.analysis[g].state = "draft" <=> stage'.analysis
            /\ stage'.report => stage'.at \in {"reportParts", "reportSeal", "clean"}
            /\ stage'.analysis => stage'.at \in {"analysisParts", "analysisSeal", "clean"}
      BY <1>0, <2>2, <2>3, <2>4, <2>5, <3>2 DEF Clear, DraftsKnown
    <3> QED
      BY <1>0, <2>2, <2>3, <2>4, <2>5, <3>2, <3>3, <3>4, <3>5, AfterTurn
  <2> QED
    <3>1. "analysisParts" \in Writing
      BY DEF Writing
    <3> QED
      BY <2>2, <2>4, <2>5, <3>1, Persisted
<1>3. ASSUME At("analysis"), Unread(To("clean"))
      PROVE  After
  <2>1. Framed /\ Kept /\ db' = db /\ stage' = To("clean")
    BY <1>3, GoesOn
  <2> QED
    BY <1>3, <2>1, GivesUpGroup DEF At, Writing
<1>4. ASSUME Persist("analysisSeal", CanSealAnalysis(db, stage.g, now),
                     SealAnalysis(db, stage.g, now),
                     [Wrote("evidence") EXCEPT !.analysis = FALSE])
      PROVE  After
  <2>1. PICK a, e, w, t : /\ a = CanSealAnalysis(db, stage.g, now)
                          /\ e = SealAnalysis(db, stage.g, now)
                          /\ w = Wrote("evidence") /\ t = [w EXCEPT !.analysis = FALSE]
    OBVIOUS
  <2>2. Persist("analysisSeal", a, e, t) /\ stage.at = "analysisSeal"
    BY <1>4, <2>1 DEF Persist, At
  <2>3. /\ stage.at \in Inside /\ g \in Group /\ "evidence" \in Kinds
        /\ "analysisSeal" \in Writing /\ "sources" \in Range(AnalysisParts)
    <3>1. AnalysisParts[1] = "sources" /\ AnalysisParts[0 + 1] \in Range(AnalysisParts)
      BY NextParts DEF AnalysisParts
    <3> QED
      BY <1>0, <2>2, <3>1 DEF Inside, Kinds, Writing
  <2>4. a => /\ Sound(db, e, now) /\ OneGroup(db, e, g)
             /\ e.analysis[g].state = "sealed" /\ e.report = db.report
             /\ e.outcome[g].kind = "evidence"
    <3> SUFFICES ASSUME a
                 PROVE  /\ Sound(db, e, now) /\ OneGroup(db, e, g)
                        /\ e.analysis[g].state = "sealed" /\ e.report = db.report
                        /\ e.outcome[g].kind = "evidence"
      OBVIOUS
    <3>1. CanSealAnalysis(db, g, now) /\ e = SealAnalysis(db, g, now)
      BY <1>0, <2>1
    <3> QED
      BY <1>0, <2>3, <3>1, AnalysisSealKeeps
  <2>5. CASE stage.at = "analysisSeal" /\ Framed /\ Kept /\ a /\ db' = e /\ stage' = t
    <3>1. /\ w.report = stage.report /\ w.analysis = stage.analysis /\ w \in StageRow
      BY <1>0, <2>1, <2>3, Counting
    <3>2. stage'.report = stage.report /\ ~stage'.analysis
      BY <2>1, <2>5, <3>1 DEF StageRow
    <3>4. ~stage'.report /\ ~stage'.analysis
      BY <2>2, <3>2 DEF IInv, PlaceInv, Placed, Held
    <3>3. ASSUME Clear(db, stage)
          PROVE  DraftsKnown(db', stage') /\ Draft(db')
      <4>1. ~stage'.report /\ ~stage'.analysis /\ DraftsKnown(db, stage)
        BY <3>4, <3>3 DEF Clear
      <4>2. Draft(db')
        BY <2>2, <2>4, <2>5, <3>3 DEF Clear, OneGroup, Draft, Places
      <4>3. e.report[g].state # "draft" /\ e.analysis[g].state # "draft"
        BY <1>b, <2>2, <2>4, <2>5
      <4>4. PICK d, s, z : d = db /\ s = stage /\ z = stage'
        OBVIOUS
      <4>5. DraftsKnown(e, z)
        BY <1>0, <2>3, <2>4, <2>5, <4>1, <4>3, <4>4, DraftsTurn
      <4> QED
        BY <2>5, <4>1, <4>2, <4>4, <4>5
    <3> QED
      BY <1>0, <2>1, <2>3, <2>4, <2>5, <3>3, <3>4, AfterCount
  <2> QED
    BY <2>2, <2>3, <2>4, <2>5, Persisted
<1> QED
  BY <1>0, <1>1, <1>2, <1>3, <1>4 DEF WriteAnalysis

\* With the tables in the past, so are the bounds the store computes from them.
LEMMA OlderBounds ==
  ASSUME NEW d \in Db, StoreInv(d), NEW t \in Time, Older(d, t)
  PROVE  /\ LatestOfSession(d) <= t
         /\ \A g \in Group : /\ LatestOfGroup(d, g) <= t
                             /\ d.report[g].at <= t /\ d.analysis[g].at <= t
<1>1. t >= d.session.at
  BY Sizes DEF Older, Time, Db, SessionRow
<1>2. LatestOfSession(d) <= t
  <2>1. PICK L : L = LatestOfSession(d)
    OBVIOUS
  <2>2. \A g \in Group :
          /\ Terminal(d.report[g]) => d.report[g].fin <= t
          /\ Terminal(d.analysis[g]) => d.analysis[g].fin <= t
          /\ d.outcome[g].kind # "none" => d.outcome[g].at <= t
    BY DEF Older
  <2> QED
    BY <1>1, <2>1, <2>2, SessionLatest
<1>3. ASSUME NEW g \in Group
      PROVE  LatestOfGroup(d, g) <= t
  <2>1. PICK L : L = LatestOfGroup(d, g)
    OBVIOUS
  <2>2. /\ Terminal(d.report[g]) => d.report[g].fin <= t
        /\ Terminal(d.analysis[g]) => d.analysis[g].fin <= t
    BY DEF Older
  <2> QED
    BY <1>1, <2>1, <2>2, GroupLatest
<1> QED
  BY <1>2, <1>3 DEF Older

\* With the tables in the past, a draft can be abandoned now.
LEMMA CanDrop ==
  ASSUME NEW d \in Db, StoreInv(d), NEW t \in Time, Older(d, t), NEW g \in Group
  PROVE  /\ d.report[g].state = "draft" => CanAbandonReport(d, g, t)
         /\ d.analysis[g].state = "draft" => CanAbandonAnalysis(d, g, t)
<1>1. /\ LatestOfGroup(d, g) <= t /\ d.report[g].at <= t /\ d.analysis[g].at <= t
  BY OlderBounds
<1>2. d.report[g].at \in Time /\ d.analysis[g].at \in Time
  BY DEF Db, ReportRow, AnalysisRow
<1>3. d.report[g].state = "draft" => CanAbandonReport(d, g, t)
  BY <1>1, <1>2, Sizes DEF CanAbandonReport, Time
<1>4. ASSUME d.analysis[g].state = "draft"
      PROVE  CanAbandonAnalysis(d, g, t)
  <2>1. Draft(d) /\ d.outcome[g].kind = "none"
    BY <1>4, DraftSession
  <2>2. PICK L, a : L = LatestOfGroup(d, g) /\ a = d.analysis[g].at
    OBVIOUS
  <2>3. L \in Time /\ a \in Time
    BY <1>2, <2>2, GroupLatest
  <2>4. PICK S : S = {a, L}
    OBVIOUS
  <2>5. S \in SUBSET (0..MaxTime) /\ S # {} /\ MaxTime \in Nat
    BY <2>3, <2>4, Sizes DEF Time
  <2>6. Max(S) \in S
    BY <2>5, MaxIs
  <2>7. Max(S) <= t
    BY <1>1, <2>2, <2>4, <2>6
  <2>8. t >= Max(S)
    BY <2>3, <2>4, <2>6, <2>7, Sizes DEF Time
  <2> QED
    BY <1>4, <2>1, <2>2, <2>4, <2>8 DEF CanAbandonAnalysis
<1> QED
  BY <1>3, <1>4

\* With the tables in the past, a session without drafts can be finalized now.
LEMMA CanFinish ==
  ASSUME NEW d \in Db, StoreInv(d), NEW t \in Time, Older(d, t), Draft(d), ~DraftChild(d),
         NEW end, end = "complete" => Settled(d) = Group
  PROVE  CanFinalize(d, end, t)
<1>1. t >= LatestOfSession(d)
  <2>1. PICK L : L = LatestOfSession(d)
    OBVIOUS
  <2>2. L \in Time /\ L <= t
    BY <2>1, SessionLatest, OlderBounds
  <2> QED
    BY <2>1, <2>2, Sizes DEF Time
<1>2. BytesRead(d) <= MaxReads \div 2
  BY DEF StoreInv, CountsFit
<1>3. \A g \in Group : d.analysis[g].state = "sealed" => d.outcome[g].kind = "evidence"
  BY DEF StoreInv, GroupFits, RowsFit, OutcomeFits
<1> QED
  BY <1>1, <1>2, <1>3 DEF CanFinalize

\* abandon_open_drafts leaves no draft of the group in hand, or is refused,
\* which takes a failure or a clock set back.
LEMMA Drops ==
  ASSUME IInv, stage.at \in {"clean", "stop"},
         NEW then \in StageRow, then.report = stage.report,
               then.analysis = stage.analysis,
         then.g = stage.g, NEW refused, AbandonDrafts(then, refused)
  PROVE  /\ Framed /\ Kept
         /\ \/ /\ stage' \in StageRow /\ stage'.at = then.at /\ stage'.g = then.g
               /\ stage'.written = then.written /\ stage'.status = then.status
               /\ stage'.part = then.part /\ stage'.tried = then.tried
               /\ ~stage'.report /\ ~stage'.analysis
               /\ Clear(db, stage) => DraftsKnown(db', stage') /\ Draft(db')
            \/ /\ stage' = refused
               /\ faults' = 0 => db' = db
               /\ faults' = 0 /\ backs = 0 => ~Clear(db, stage)
<1>0. /\ stage \in StageRow /\ Grounds /\ db \in Db /\ StoreInv(db) /\ now \in Time
      /\ stage.report \/ stage.analysis => stage.g \in Group
      /\ ~(stage.report /\ stage.analysis)
      /\ stage.report \in BOOLEAN /\ stage.analysis \in BOOLEAN
  BY DEF IInv, TypeInv, TablesInv, PlaceInv, Placed, Grounds, StageRow
<1>1. PICK g : g = stage.g
  OBVIOUS
<1>2. ASSUME faults' = 0, backs = 0, Framed, Clear(db, stage)
      PROVE  /\ stage.report => CanAbandonReport(db, g, now)
             /\ stage.analysis => CanAbandonAnalysis(db, g, now)
  <2>1. Older(db, now)
    BY <1>2 DEF IInv, ClockInv
  <2>2. /\ stage.report => g \in Group /\ db.report[g].state = "draft"
        /\ stage.analysis => g \in Group /\ db.analysis[g].state = "draft"
    BY <1>0, <1>1, <1>2 DEF Clear, DraftsKnown
  <2> QED
    BY <1>0, <2>1, <2>2, CanDrop
<1>3. ASSUME Clear(db, stage)
      PROVE  Draft(db) /\ DraftsKnown(db, stage)
  BY <1>3 DEF Clear, Places
<1>4. CASE /\ stage.analysis
           /\ Write(CanAbandonAnalysis(db, stage.g, now), AbandonAnalysis(db, stage.g,
                now),
                    [then EXCEPT !.analysis = FALSE], refused)
  <2>1. PICK a, e, t : /\ a = CanAbandonAnalysis(db, stage.g, now)
                       /\ e = AbandonAnalysis(db, stage.g, now)
                       /\ t = [then EXCEPT !.analysis = FALSE]
    OBVIOUS
  <2>2. a => /\ Sound(db, e, now) /\ OneGroup(db, e, g)
             /\ e.analysis[g].state = "abandoned" /\ e.report = db.report
    BY <1>0, <1>1, <1>4, <2>1, AnalysisAbandonKeeps
  <2>3. Write(a, e, t, refused)
    BY <1>4, <2>1
  <2>4. /\ Framed /\ Kept
        /\ \/ a /\ db' = e /\ stage' = t
           \/ stage' = refused /\ (faults' = 0 => ~a /\ db' = db)
    BY <2>2, <2>3, Writes
  <2>5. CASE a /\ db' = e /\ stage' = t
    <3>1. /\ t \in StageRow /\ t.at = then.at /\ t.g = then.g
          /\ t.written = then.written /\ t.status = then.status
          /\ t.part = then.part /\ t.tried = then.tried
          /\ ~t.report /\ ~t.analysis
      BY <1>0, <1>4, <2>1 DEF StageRow
    <3>2. ASSUME Clear(db, stage)
          PROVE  DraftsKnown(e, t) /\ Draft(e)
      <4>1. e.report[g].state # "draft" /\ e.analysis[g].state # "draft"
        BY <1>0, <1>1, <1>3, <1>4, <2>2, <2>5, <3>2 DEF DraftsKnown
      <4>2. Draft(e)
        BY <1>3, <2>2, <2>5, <3>2 DEF Draft, OneGroup
      <4>3. PICK d, s : d = db /\ s = stage
        OBVIOUS
      <4> QED
        BY <1>0, <1>1, <1>3, <1>4, <2>2, <2>5, <3>1, <3>2, <4>1, <4>2, <4>3, DraftsTurn
    <3> QED
      BY <2>4, <2>5, <3>1, <3>2
  <2>6. CASE stage' = refused /\ (faults' = 0 => ~a /\ db' = db)
    <3>1. faults' = 0 /\ backs = 0 => ~Clear(db, stage)
      BY <1>1, <1>2, <1>4, <2>1, <2>4, <2>6
    <3> QED
      BY <2>4, <2>6, <3>1
  <2> QED
    BY <2>4, <2>5, <2>6
<1>5. CASE /\ ~stage.analysis /\ stage.report
           /\ Write(CanAbandonReport(db, stage.g, now), AbandonReport(db, stage.g, now),
                    [then EXCEPT !.report = FALSE], refused)
  <2>1. PICK a, e, t : /\ a = CanAbandonReport(db, stage.g, now)
                       /\ e = AbandonReport(db, stage.g, now)
                       /\ t = [then EXCEPT !.report = FALSE]
    OBVIOUS
  <2>2. a => /\ Sound(db, e, now) /\ OneGroup(db, e, g)
             /\ e.report[g].state = "abandoned" /\ e.analysis = db.analysis
    <3> SUFFICES ASSUME a
                 PROVE  /\ Sound(db, e, now) /\ OneGroup(db, e, g)
                        /\ e.report[g].state = "abandoned" /\ e.analysis = db.analysis
      OBVIOUS
    <3>1. g \in Group /\ CanAbandonReport(db, g, now) /\ e = AbandonReport(db, g, now)
      BY <1>0, <1>1, <1>5, <2>1
    <3> QED
      BY <1>0, <3>1, AbandonReportStep DEF Grounds, TypeInv, TablesInv
  <2>3. Write(a, e, t, refused)
    BY <1>5, <2>1
  <2>4. /\ Framed /\ Kept
        /\ \/ a /\ db' = e /\ stage' = t
           \/ stage' = refused /\ (faults' = 0 => ~a /\ db' = db)
    BY <2>2, <2>3, Writes
  <2>5. CASE a /\ db' = e /\ stage' = t
    <3>1. /\ t \in StageRow /\ t.at = then.at /\ t.g = then.g
          /\ t.written = then.written /\ t.status = then.status
          /\ t.part = then.part /\ t.tried = then.tried
          /\ ~t.report /\ ~t.analysis
      BY <1>0, <1>5, <2>1 DEF StageRow
    <3>2. ASSUME Clear(db, stage)
          PROVE  DraftsKnown(e, t) /\ Draft(e)
      <4>1. e.report[g].state # "draft" /\ e.analysis[g].state # "draft"
        BY <1>0, <1>1, <1>3, <1>5, <2>2, <2>5, <3>2 DEF DraftsKnown
      <4>2. Draft(e)
        BY <1>3, <2>2, <2>5, <3>2 DEF Draft, OneGroup
      <4>3. PICK d, s : d = db /\ s = stage
        OBVIOUS
      <4> QED
        BY <1>0, <1>1, <1>3, <1>5, <2>2, <2>5, <3>1, <3>2, <4>1, <4>2, <4>3, DraftsTurn
    <3> QED
      BY <2>4, <2>5, <3>1, <3>2
  <2>6. CASE stage' = refused /\ (faults' = 0 => ~a /\ db' = db)
    <3>1. faults' = 0 /\ backs = 0 => ~Clear(db, stage)
      BY <1>1, <1>2, <1>5, <2>1, <2>4, <2>6
    <3> QED
      BY <2>4, <2>6, <3>1
  <2> QED
    BY <2>4, <2>5, <2>6
<1>6. CASE ~stage.analysis /\ ~stage.report /\ Go(then)
  <2>1. Framed /\ Kept /\ db' = db /\ stage' = then
    BY <1>6, GoesOn
  <2>2. ASSUME Clear(db, stage)
        PROVE  DraftsKnown(db', stage') /\ Draft(db')
    BY <1>3, <1>6, <2>1, <2>2 DEF DraftsKnown
  <2> QED
    BY <1>6, <2>1, <2>2
<1> QED
  BY <1>4, <1>5, <1>6 DEF AbandonDrafts

\* A stage rid of its drafts goes on in order.
LEMMA AfterDrop ==
  ASSUME IInv, stage.at \in {"clean", "stop"}, NEW q \in {"stop", "failed", "finalize"},
         q = "failed" => stage.at = "clean", q = "finalize" => stage.at = "stop",
         NEW p \in {stage.status, "partial"},
         p # "partial" => q \in {"failed", "finalize"},
         NEW then, then = [stage EXCEPT !.at = q, !.status = p], Framed, Kept,
         stage' \in StageRow, stage'.at = then.at, stage'.g = then.g,
         stage'.written = then.written, stage'.status = then.status,
         stage'.part = then.part, stage'.tried = then.tried,
         ~stage'.report, ~stage'.analysis,
         Clear(db, stage) => DraftsKnown(db', stage') /\ Draft(db')
  PROVE  After
<1>0. stage \in StageRow
  BY DEF IInv, TypeInv
<1>1. /\ stage'.at = q /\ stage'.g = stage.g /\ stage'.status = p
      /\ stage'.written = stage.written
  BY <1>0 DEF StageRow
<1>2. PlaceInv'
  BY <1>0, <1>1 DEF PlaceInv, Placed, IInv, Inside, Ordered, Held
<1>3. PassedBy(stage) \in 0..Groups /\ PassedBy(stage') \in 0..Groups
  BY <1>0, PassedType
<1>4. /\ PassedBy(stage) <= PassedBy(stage')
      /\ q # "stop" => PassedBy(stage) = PassedBy(stage')
  BY <1>0, <1>1, <1>3, Sizes DEF PassedBy, Closed
<1>5. Clear(db, stage) => Clear(db', stage')
  BY <1>1 DEF Clear
<1>6. stage'.status = "completed" => q # "stop" /\ stage.status = "completed"
  BY <1>1
<1> QED
  BY <1>1, <1>2, <1>4, <1>5, <1>6, AfterMove

\* Cleaning up after a group that could not be written keeps the stage in
\* order.
LEMMA CleanStep ==
  ASSUME IInv, Clean
  PROVE  After
<1>0. stage \in StageRow /\ stage.at = "clean"
  BY DEF IInv, TypeInv, Clean, At
<1>1. PICK then, refused : /\ then = (IF cancelled THEN Partly("stop") ELSE To("failed"))
                           /\ refused = Partly("stop")
  OBVIOUS
<1>2. PICK q, p : /\ q = (IF cancelled THEN "stop" ELSE "failed")
                  /\ p = (IF cancelled THEN "partial" ELSE stage.status)
  OBVIOUS
<1>3. then = [stage EXCEPT !.at = q, !.status = p]
  BY <1>0, <1>1, <1>2 DEF Partly, To, StageRow
<1>4. /\ then \in StageRow /\ then.report = stage.report /\ then.analysis = stage.analysis
      /\ then.g = stage.g
  BY <1>0, <1>2, <1>3 DEF StageRow, Places
<1>5. AbandonDrafts(then, refused)
  BY <1>1 DEF Clean
<1>6. /\ Framed /\ Kept
      /\ \/ /\ stage' \in StageRow /\ stage'.at = then.at /\ stage'.g = then.g
            /\ stage'.written = then.written /\ stage'.status = then.status
            /\ stage'.part = then.part /\ stage'.tried = then.tried
            /\ ~stage'.report /\ ~stage'.analysis
            /\ Clear(db, stage) => DraftsKnown(db', stage') /\ Draft(db')
         \/ stage' = refused /\ (faults' = 0 => db' = db)
  BY <1>0, <1>4, <1>5, Drops
<1>7. CASE stage' = refused /\ (faults' = 0 => db' = db)
  BY <1>0, <1>1, <1>6, <1>7, GivesUpStage
<1>8. CASE /\ stage' \in StageRow /\ stage'.at = then.at /\ stage'.g = then.g
           /\ stage'.written = then.written /\ stage'.status = then.status
           /\ stage'.part = then.part /\ stage'.tried = then.tried
           /\ ~stage'.report /\ ~stage'.analysis
           /\ Clear(db, stage) => DraftsKnown(db', stage') /\ Draft(db')
  BY <1>0, <1>2, <1>3, <1>6, <1>8, AfterDrop
<1> QED
  BY <1>6, <1>7, <1>8

\* So does stopping the stage.
LEMMA StopStep ==
  ASSUME IInv, At("stop"), AbandonDrafts(To("finalize"), Partly("done"))
  PROVE  After
<1>0. stage \in StageRow /\ stage.at = "stop"
  BY DEF IInv, TypeInv, At
<1>1. PICK then, refused : then = To("finalize") /\ refused = Partly("done")
  OBVIOUS
<1>2. PICK q, p : q = "finalize" /\ p = stage.status
  OBVIOUS
<1>3. then = [stage EXCEPT !.at = q, !.status = p]
  BY <1>0, <1>1, <1>2 DEF To, StageRow
<1>4. /\ then \in StageRow /\ then.report = stage.report /\ then.analysis = stage.analysis
      /\ then.g = stage.g
  BY <1>0, <1>2, <1>3 DEF StageRow, Places
<1>6. /\ Framed /\ Kept
      /\ \/ /\ stage' \in StageRow /\ stage'.at = then.at /\ stage'.g = then.g
            /\ stage'.written = then.written /\ stage'.status = then.status
            /\ stage'.part = then.part /\ stage'.tried = then.tried
            /\ ~stage'.report /\ ~stage'.analysis
            /\ Clear(db, stage) => DraftsKnown(db', stage') /\ Draft(db')
         \/ /\ stage' = refused
            /\ faults' = 0 /\ backs = 0 => ~Clear(db, stage)
  BY <1>0, <1>1, <1>4, Drops
<1>7. CASE /\ stage' = refused
           /\ faults' = 0 /\ backs = 0 => ~Clear(db, stage)
  <2>1. stage' = [stage EXCEPT !.at = "done", !.status = "partial"]
    BY <1>1, <1>7 DEF Partly
  <2>2. /\ stage' \in StageRow /\ stage'.written = stage.written
        /\ stage'.status = "partial"
        /\ stage'.at = "done" /\ stage'.g = stage.g
        /\ stage'.report = stage.report /\ stage'.analysis = stage.analysis
    BY <1>0, <2>1 DEF StageRow, Places
  <2>3. PlaceInv'
    BY <1>0, <2>2 DEF PlaceInv, Placed, IInv, Inside, Ordered, Held
  <2>4. PassedBy(stage) <= PassedBy(stage')
    BY <1>0, <2>2, Sizes DEF PassedBy, Closed
  <2> QED
    BY <1>0, <1>6, <1>7, <2>2, <2>3, <2>4, AfterMove
<1>8. CASE /\ stage' \in StageRow /\ stage'.at = then.at /\ stage'.g = then.g
           /\ stage'.written = then.written /\ stage'.status = then.status
           /\ stage'.part = then.part /\ stage'.tried = then.tried
           /\ ~stage'.report /\ ~stage'.analysis
           /\ Clear(db, stage) => DraftsKnown(db', stage') /\ Draft(db')
  BY <1>0, <1>2, <1>3, <1>6, <1>8, AfterDrop
<1> QED
  BY <1>6, <1>7, <1>8

\* A stage that is still complete at its end has counted every group, so every
\* count is the store's: none is larger, and they add up to all groups.
LEMMA WrittenIsRecorded ==
  ASSUME NEW d \in Db, NEW s \in StageRow, Told(d, s), s.at = "finalize",
         s.status = "completed"
  PROVE  WrittenBy(s) = Groups /\ Settled(d) = Group /\ Counts(d) = s.written
<1>1. PassedBy(s) = Groups /\ WrittenBy(s) = Groups
  BY DEF Told, PassedBy, Closed
<1>2. \A k \in Kinds : Tally(d, k, Groups) = Recorded(d, k)
  BY DEF Tally, Recorded, Group
<1>3. \A k \in Kinds : s.written[k] <= Recorded(d, k) /\ Recorded(d, k) \in Nat
                       /\ s.written[k] \in Nat
  <2>1. Groups \in 0..Groups
    BY Sizes
  <2>2. \A k \in Kinds : Tally(d, k, Groups) \in Nat
    BY <2>1, Tallies
  <2> QED
    BY <1>1, <1>2, <2>2 DEF Told, StageRow
<1>4. PICK a, b, c, x, y, z :
        /\ a = s.written["evidence"] /\ x = Recorded(d, "evidence")
        /\ b = s.written["unavailable"] /\ y = Recorded(d, "unavailable")
        /\ c = s.written["failed"] /\ z = Recorded(d, "failed")
  OBVIOUS
<1>5. /\ a <= x /\ b <= y /\ c <= z /\ a \in Nat /\ b \in Nat /\ c \in Nat
      /\ x \in Nat /\ y \in Nat /\ z \in Nat
  BY <1>3, <1>4 DEF Kinds
<1>6. a + b + c = Groups /\ x + y + z = Cardinality(Settled(d))
  BY <1>1, <1>4, TallySum DEF WrittenBy
<1>7. Settled(d) \in SUBSET Group
  BY DEF Settled
<1>8. Cardinality(Settled(d)) \in 0..Groups
  BY <1>7, Groupings
<1>9. a = x /\ b = y /\ c = z /\ Cardinality(Settled(d)) = Groups
  BY <1>5, <1>6, <1>8, Sizes
<1>10. Settled(d) = Group
  BY <1>7, <1>9, Groupings, FS_Subset
<1>11. Counts(d) = s.written
  <2>1. \A k \in Kinds : s.written[k] = Recorded(d, k)
    BY <1>4, <1>9 DEF Kinds
  <2>2. s.written = [k \in Kinds |-> s.written[k]]
    BY DEF StageRow
  <2> QED
    BY <2>1, <2>2 DEF Counts
<1> QED
  BY <1>1, <1>10, <1>11

\* Finalizing keeps the stage in order: done with the session it tells of, or
\* refused, which takes a failure or a clock set back.
LEMMA FinalizeStep ==
  ASSUME IInv, At("finalize"),
         Write(CanFinalize(db, Outcome, now), Finalize(db, Outcome, now),
               To("done"), To("abandon"))
  PROVE  After
<1>0. /\ stage \in StageRow /\ stage.at = "finalize" /\ db \in Db /\ StoreInv(db)
      /\ now \in Time /\ Told(db, stage)
  BY DEF IInv, TypeInv, TablesInv, ToldInv, At
<1>1. PICK end, a, e, t, r :
        /\ end = Outcome /\ a = CanFinalize(db, Outcome, now)
        /\ e = Finalize(db, Outcome, now) /\ t = To("done") /\ r = To("abandon")
  OBVIOUS
<1>2. end \in {"complete", "partial"}
  BY <1>1 DEF Outcome
<1>3. a => /\ Sound(db, e, now) /\ e.session.state = end /\ e.session.counts = Counts(db)
           /\ e.report = db.report /\ e.analysis = db.analysis
  BY <1>0, <1>1, <1>2, SessionMoves
<1>4. stage.status = "completed" =>
        end = "complete" /\ Settled(db) = Group /\ Counts(db) = stage.written
  <2> SUFFICES ASSUME stage.status = "completed"
               PROVE  end = "complete" /\ Settled(db) = Group
                      /\ Counts(db) = stage.written
    OBVIOUS
  <2>1. PICK d, s : d = db /\ s = stage
    OBVIOUS
  <2>2. WrittenBy(s) = Groups /\ Settled(d) = Group /\ Counts(d) = s.written
    BY <1>0, <2>1, WrittenIsRecorded
  <2>3. WrittenBy(stage) = WrittenGroups
    BY DEF WrittenBy, WrittenGroups
  <2> QED
    BY <1>1, <2>1, <2>2, <2>3 DEF Outcome
<1>5. end = "complete" => Settled(db) = Group
  BY <1>1, <1>4 DEF Outcome
<1>6. Write(a, e, t, r)
  BY <1>1
<1>7. /\ Framed /\ Kept
      /\ \/ a /\ db' = e /\ stage' = t
         \/ stage' = r /\ (faults' = 0 => ~a /\ db' = db)
  BY <1>3, <1>6, Writes
<1>8. CASE a /\ db' = e /\ stage' = t
  <2>1. stage' = [stage EXCEPT !.at = "done"]
    BY <1>1, <1>8 DEF To
  <2>2. /\ stage' \in StageRow /\ stage'.written = stage.written
        /\ stage'.status = stage.status /\ stage'.at = "done" /\ stage'.g = stage.g
        /\ stage'.report = stage.report /\ stage'.analysis = stage.analysis
    BY <1>0, <2>1 DEF StageRow, Places
  <2>3. PlaceInv'
    BY <1>0, <2>2 DEF PlaceInv, Placed, IInv, Inside, Ordered, Held
  <2>4. Told(e, stage')
    <3>1. PICK s, z, d : s = stage /\ z = stage' /\ d = db
      OBVIOUS
    <3>2. PassedBy(s) = Groups /\ PassedBy(z) = Groups /\ Groups \in 0..Groups
      BY <1>0, <2>2, <3>1, Sizes DEF PassedBy, Closed
    <3>3. ASSUME NEW k \in Kinds
          PROVE  s.written[k] <= Tally(e, k, Groups)
      <4>1. s.written[k] <= Tally(d, k, Groups) /\ s.written[k] \in Nat
        BY <1>0, <3>1, <3>2 DEF Told, StageRow
      <4>2. Tally(d, k, Groups) <= Tally(e, k, Groups)
        BY <1>0, <1>3, <1>8, <3>1, <3>2, TallyGrows DEF Sound
      <4>3. Tally(d, k, Groups) \in Nat /\ Tally(e, k, Groups) \in Nat
        BY <1>0, <1>3, <1>8, <3>1, <3>2, Tallies DEF Sound
      <4> QED
        BY <4>1, <4>2, <4>3
    <3>4. z.status = "completed" =>
            e.session.state = "complete" /\ e.session.counts = z.written
      BY <1>3, <1>4, <1>8, <2>2, <3>1
    <3>5. z.at = "done" /\ z.written = s.written
      BY <2>2, <3>1
    <3> QED
      BY <3>1, <3>2, <3>3, <3>4, <3>5 DEF Told
  <2>5. CleanInv'
    <3> SUFFICES ASSUME faults' = 0, backs' = 0 PROVE Clear(db', stage')
      BY DEF CleanInv
    <3>1. Clear(db, stage)
      BY <1>0, <1>7 DEF Framed, IInv, TypeInv, CleanInv
    <3>2. ~stage.report /\ ~stage.analysis
      BY <1>0, <3>1 DEF Clear
    <3>3. DraftsKnown(e, stage')
      BY <1>3, <1>8, <2>2, <3>1, <3>2 DEF Clear, DraftsKnown
    <3>4. e.session.state \in {"none", "complete", "partial"}
      BY <1>2, <1>3, <1>8
    <3> QED
      BY <1>8, <2>2, <3>2, <3>3, <3>4 DEF Clear
  <2> QED
    BY <1>7, <1>8, <2>2, <2>3, <2>4, <2>5 DEF After, ToldInv
<1>9. CASE stage' = r /\ (faults' = 0 => ~a /\ db' = db)
  <2>1. stage' = [stage EXCEPT !.at = "abandon"]
    BY <1>1, <1>9 DEF To
  <2>2. /\ stage' \in StageRow /\ stage'.written = stage.written
        /\ stage'.status = stage.status /\ stage'.at = "abandon" /\ stage'.g = stage.g
        /\ stage'.report = stage.report /\ stage'.analysis = stage.analysis
    BY <1>0, <2>1 DEF StageRow, Places
  <2>3. PlaceInv'
    BY <1>0, <2>2 DEF PlaceInv, Placed, IInv, Inside, Ordered, Held
  <2>4. PassedBy(stage) <= PassedBy(stage')
    BY <1>0, <2>2, Sizes DEF PassedBy, Closed
  <2>5. faults' = 0 /\ backs = 0 => ~Clear(db, stage)
    <3> SUFFICES ASSUME faults' = 0, backs = 0, Clear(db, stage) PROVE FALSE
      OBVIOUS
    <3>1. Older(db, now)
      BY <1>0 DEF IInv, ClockInv
    <3>2. Draft(db) /\ ~DraftChild(db)
      BY <1>0 DEF Clear, DraftsKnown, DraftChild, Places
    <3>3. CanFinalize(db, end, now)
      BY <1>0, <1>5, <3>1, <3>2, CanFinish
    <3> QED
      BY <1>1, <1>9, <3>3
  <2> QED
    BY <1>0, <1>7, <2>2, <2>3, <2>4, <2>5, AfterMove
<1> QED
  BY <1>7, <1>8, <1>9

\* Giving the session up keeps the stage in order.
LEMMA GiveUpStep ==
  ASSUME IInv, At("abandon"),
         Write(CanAbandonSession(db, now), AbandonSession(db, now),
               Partly("done"), Partly("done"))
  PROVE  After
<1>0. /\ stage \in StageRow /\ stage.at = "abandon" /\ db \in Db /\ StoreInv(db)
      /\ now \in Time
  BY DEF IInv, TypeInv, TablesInv, At
<1>1. PICK a, e, t : /\ a = CanAbandonSession(db, now) /\ e = AbandonSession(db, now)
                     /\ t = Partly("done")
  OBVIOUS
<1>2. a => Sound(db, e, now)
  BY <1>0, <1>1, SessionMoves
<1>3. Write(a, e, t, t)
  BY <1>1
<1>4. Framed /\ Kept /\ stage' = t
  BY <1>2, <1>3, Writes
<1>5. stage' = [stage EXCEPT !.at = "done", !.status = "partial"]
  BY <1>1, <1>4 DEF Partly
<1>6. /\ stage' \in StageRow /\ stage'.written = stage.written
      /\ stage'.status = "partial" /\ stage'.at = "done" /\ stage'.g = stage.g
      /\ stage'.report = stage.report /\ stage'.analysis = stage.analysis
  BY <1>0, <1>5 DEF StageRow, Places
<1>7. PlaceInv'
  BY <1>0, <1>6 DEF PlaceInv, Placed, IInv, Inside, Ordered, Held
<1>8. PassedBy(stage) <= PassedBy(stage')
  BY <1>0, <1>6, Sizes DEF PassedBy, Closed
<1>9. ~Clear(db, stage)
  BY <1>0 DEF Clear
<1> QED
  BY <1>0, <1>4, <1>6, <1>7, <1>8, <1>9, AfterMove

\* So does all of finish_stage.
LEMMA FinishStep ==
  ASSUME IInv, Finish
  PROVE  After
  BY StopStep, FinalizeStep, GiveUpStep DEF Finish

\* So does every step of the stage.
LEMMA StageSteps ==
  ASSUME IInv, \/ Guard \/ Begin \/ NextGroup \/ Probe \/ WriteGroup
               \/ WriteReport \/ WriteAnalysis \/ Clean \/ FailGroup \/ Finish
  PROVE  After
  BY GuardStep, BeginStep, NextGroupStep, ProbeStep, WriteGroupStep, WriteReportStep,
     WriteAnalysisStep, CleanStep, FailGroupStep, FinishStep

-----------------------------------------------------------------------------
(* The clock, the user and the next opening.                               *)

\* Tables in the past stay there when nothing later than now is written.
LEMMA StaysOlder ==
  ASSUME NEW d \in Db, NEW e \in Db, NEW t \in Time, Older(d, t), Dated(d, e, t)
  PROVE  Older(e, t)
<1>1. \A u \in Dates(d, t) : u <= t
  BY Sizes DEF Dates, Older, Time
<1>2. e.session.at <= t
  BY <1>1 DEF Dated
<1>3. ASSUME NEW g \in Group
      PROVE  /\ e.report[g].at <= t /\ e.report[g].fin <= t
             /\ e.analysis[g].at <= t /\ e.analysis[g].fin <= t
             /\ e.outcome[g].at <= t
  BY <1>1 DEF Dated, Older
<1> QED
  BY <1>2, <1>3 DEF Older

\* A step that leaves the stage in order keeps the invariant.
LEMMA AfterHolds ==
  ASSUME IInv, After, stage.at # "reopened"
  PROVE  IInv'
<1>1. db' \in Db /\ StoreInv(db') /\ Dated(db, db', now)
  BY DEF After, Kept, Sound
<1>2. TypeInv'
  BY <1>1 DEF After, Framed, TypeInv, IInv
<1>3. TablesInv'
  BY <1>1 DEF TablesInv
<1>4. ClockInv'
  <2> SUFFICES ASSUME backs' = 0 PROVE Older(db', now')
    BY DEF ClockInv
  <2>1. now' = now /\ Older(db, now) /\ db \in Db /\ now \in Time
    BY DEF After, Framed, IInv, ClockInv, TypeInv
  <2> QED
    BY <1>1, <2>1, StaysOlder
<1> QED
  BY <1>2, <1>3, <1>4 DEF After, IInv

\* The user's cancellation and the clock keep the invariant.
LEMMA OutsideSteps ==
  ASSUME IInv, Cancel \/ Tick \/ SetBack
  PROVE  IInv'
<1>1. CASE Cancel
  <2>1. /\ cancelled' = TRUE /\ now' = now /\ backs' = backs /\ faults' = faults
        /\ db' = db /\ stage' = stage
    BY <1>1 DEF Cancel
  <2>2. TypeInv'
    BY <2>1 DEF TypeInv, IInv
  <2>3. TablesInv' /\ PlaceInv' /\ ToldInv' /\ ClockInv' /\ CleanInv'
    BY <2>1 DEF IInv, TablesInv, PlaceInv, ToldInv, ClockInv, CleanInv
  <2> QED
    BY <2>2, <2>3 DEF IInv
<1>2. CASE Tick
  <2>1. /\ cancelled' = cancelled /\ now' = now + 1 /\ backs' = backs /\ faults' = faults
        /\ db' = db /\ stage' = stage
    BY <1>2 DEF Tick
  <2>2. now' \in Time /\ now \in Time /\ now' = now + 1
    BY <1>2, Sizes DEF Tick, IInv, TypeInv, Time
  <2>3. TypeInv'
    BY <2>1, <2>2 DEF TypeInv, IInv
  <2>4. TablesInv' /\ PlaceInv' /\ ToldInv' /\ CleanInv'
    BY <2>1 DEF IInv, TablesInv, PlaceInv, ToldInv, CleanInv
  <2>5. ClockInv'
    <3> SUFFICES ASSUME Older(db, now) PROVE Older(db, now')
      BY <2>1 DEF IInv, ClockInv
    <3>1. PICK d, t, u : d = db /\ t = now /\ u = now'
      OBVIOUS
    <3>2. d \in Db /\ t \in Time /\ u = t + 1
      BY <2>2, <3>1 DEF IInv, TypeInv
    <3>3. \A v \in Time : v <= t => v <= u
      BY <3>2, Sizes DEF Time
    <3>4. Older(d, u)
      <4>1. d.session.at <= u
        BY <3>1, <3>2, <3>3 DEF Older, Db, SessionRow
      <4>2. ASSUME NEW g \in Group
            PROVE  /\ d.report[g].at <= u /\ d.report[g].fin <= u
                   /\ d.analysis[g].at <= u /\ d.analysis[g].fin <= u
                   /\ d.outcome[g].at <= u
        <5>1. /\ d.report[g] \in ReportRow /\ d.analysis[g] \in AnalysisRow
              /\ d.outcome[g] \in OutcomeRow
          BY <3>2 DEF Db
        <5> QED
          BY <3>1, <3>3, <5>1 DEF Older, ReportRow, AnalysisRow, OutcomeRow
      <4> QED
        BY <4>1, <4>2 DEF Older
    <3> QED
      BY <3>1, <3>4
  <2> QED
    BY <2>3, <2>4, <2>5 DEF IInv
<1>3. CASE SetBack
  <2>1. /\ cancelled' = cancelled /\ backs' = backs + 1 /\ faults' = faults
        /\ db' = db /\ stage' = stage /\ now' \in Time /\ backs' \in 0..MaxBacks
        /\ backs' # 0
    BY <1>3, Sizes DEF SetBack, IInv, TypeInv
  <2>2. TypeInv'
    BY <2>1 DEF TypeInv, IInv
  <2>3. TablesInv' /\ PlaceInv' /\ ToldInv' /\ ClockInv' /\ CleanInv'
    BY <2>1 DEF IInv, TablesInv, PlaceInv, ToldInv, ClockInv, CleanInv
  <2> QED
    BY <2>2, <2>3 DEF IInv
<1> QED
  BY <1>1, <1>2, <1>3

\* An open keeps the invariant, whatever the stage was doing when its process
\* died.
LEMMA ReopenStep ==
  ASSUME IInv, Reopen
  PROVE  IInv'
<1>1. /\ now' = now /\ backs' = backs /\ faults' = faults /\ cancelled' = cancelled
      /\ db' = Reconciled(db, now)
      /\ stage' = IF stage.at \in {"done", "reopened"} THEN To("reopened")
                  ELSE [Unstarted EXCEPT !.at = "reopened", !.status = "unavailable"]
  BY DEF Reopen
<1>2. PICK d, e : d = db /\ e = db'
  OBVIOUS
<1>3. d \in Db /\ StoreInv(d) /\ now \in Time /\ stage \in StageRow
      /\ PlaceInv /\ Told(d, stage)
  BY <1>2 DEF IInv, TypeInv, TablesInv, ToldInv
<1>4. /\ e \in Db /\ StoreInv(e) /\ e.outcome = d.outcome
      /\ d.session.state # "draft" => e.session = d.session
  BY <1>1, <1>2, <1>3, Reopening
<1>5. \A k \in Kinds : Tally(e, k, Groups) = Tally(d, k, Groups)
  BY <1>4 DEF Tally
<1>6. Groups \in 0..Groups
  BY Sizes
<1>7. /\ stage' \in StageRow /\ stage'.at = "reopened"
      /\ PlaceInv' /\ Told(e, stage')
  <2>1. CASE stage.at \in {"done", "reopened"}
    <3>1. stage' = [stage EXCEPT !.at = "reopened"]
      BY <1>1, <2>1 DEF To
    <3>2. /\ stage' \in StageRow /\ stage'.at = "reopened" /\ stage'.g = stage.g
          /\ stage'.written = stage.written /\ stage'.status = stage.status
          /\ stage'.report = stage.report /\ stage'.analysis = stage.analysis
      BY <1>3, <3>1 DEF StageRow, Places
    <3>3. PlaceInv'
      BY <1>3, <2>1, <3>2 DEF PlaceInv, Placed, Inside, Ordered, Held
    <3>4. Told(e, stage')
      <4>1. PICK s, z : s = stage /\ z = stage'
        OBVIOUS
      <4>2. PassedBy(s) = Groups /\ PassedBy(z) = Groups
        BY <2>1, <3>2, <4>1 DEF PassedBy, Closed
      <4>3. \A k \in Kinds : z.written[k] <= Tally(e, k, PassedBy(z))
        BY <1>3, <1>5, <3>2, <4>1, <4>2 DEF Told
      <4>4. z.status = "completed" =>
              e.session.state = "complete" /\ e.session.counts = z.written
        BY <1>3, <1>4, <2>1, <3>2, <4>1 DEF Told
      <4> QED
        BY <3>2, <4>1, <4>3, <4>4 DEF Told
    <3> QED
      BY <3>2, <3>3, <3>4
  <2>2. CASE stage.at \notin {"done", "reopened"}
    <3>1. stage' = [Unstarted EXCEPT !.at = "reopened", !.status = "unavailable"]
      BY <1>1, <2>2
    <3>2. NoCounts \in [Kinds -> Nat] /\ \A k \in Kinds : NoCounts[k] = 0
      BY DEF NoCounts
    <3>3. 1 \in 1..(Groups + 1) /\ 0 \in 0..Probes /\ 0 \in 0..MaxReads
          /\ 0 \in 0..6 /\ 0 \in 0..1
      BY Sizes
    <3>4. stage' \in StageRow
      BY <3>1, <3>2, <3>3 DEF Unstarted, StageRow, Places, Evidence
    <3>5. /\ stage'.at = "reopened" /\ stage'.written = NoCounts
          /\ stage'.status = "unavailable" /\ ~stage'.report /\ ~stage'.analysis
      BY <3>1 DEF Unstarted
    <3>6. PlaceInv'
      BY <3>5 DEF PlaceInv, Placed, Inside, Ordered, Held
    <3>7. Told(e, stage')
      <4>1. PICK z : z = stage'
        OBVIOUS
      <4>2. PassedBy(z) = Groups
        BY <3>5, <4>1 DEF PassedBy, Closed
      <4>3. \A k \in Kinds : Tally(e, k, Groups) \in 0..Groups
        BY <1>4, <1>6, Tallies
      <4>4. \A k \in Kinds : z.written[k] <= Tally(e, k, Groups)
        BY <3>2, <3>5, <4>1, <4>3, Sizes
      <4> QED
        BY <3>5, <4>1, <4>2, <4>4 DEF Told
    <3> QED
      BY <3>4, <3>5, <3>6, <3>7
  <2> QED
    BY <2>1, <2>2
<1>8. TypeInv'
  BY <1>1, <1>2, <1>4, <1>7 DEF TypeInv, IInv
<1>9. TablesInv' /\ ToldInv'
  BY <1>2, <1>4, <1>7 DEF TablesInv, ToldInv
<1>10. ClockInv' /\ CleanInv'
  BY <1>7 DEF ClockInv, CleanInv
<1> QED
  BY <1>7, <1>8, <1>9, <1>10 DEF IInv

\* Every step keeps the invariant.
LEMMA NextInv ==
  ASSUME IInv, [Next]_vars
  PROVE  IInv'
<1>1. CASE \/ Guard \/ Begin \/ NextGroup \/ Probe \/ WriteGroup
           \/ WriteReport \/ WriteAnalysis \/ Clean \/ FailGroup \/ Finish
  <2>1. stage.at # "reopened"
    BY <1>1 DEF Guard, Begin, NextGroup, Probe, WriteGroup, WriteReport, WriteAnalysis,
         Clean, FailGroup, Finish, Persist, At
  <2> QED
    BY <1>1, <2>1, StageSteps, AfterHolds
<1>2. CASE Cancel \/ Tick \/ SetBack
  BY <1>2, OutsideSteps
<1>3. CASE Reopen
  BY <1>3, ReopenStep
<1>4. CASE UNCHANGED vars
  BY <1>4 DEF vars, IInv, TypeInv, TablesInv, PlaceInv, ToldInv, ClockInv, CleanInv
<1> QED
  BY <1>1, <1>2, <1>3, <1>4 DEF Next

\* The invariant holds when the stage begins.
LEMMA InitInv ==
  ASSUME Init
  PROVE  IInv
<1>1. PICK t \in {0, 1} : db =
        [sealed   |-> t,
         session  |-> [state |-> "none", at |-> 0, fin |-> 0, counts |-> NoCounts],
         report   |-> [g \in Group |-> [state |-> "none", at |-> 0, fin |-> 0,
                                        parts |-> {}, read |-> 0]],
         analysis |-> [g \in Group |-> [state |-> "none", at |-> 0, fin |-> 0,
                                        parts |-> {}]],
         outcome  |-> [g \in Group |-> [kind |-> "none", at |-> 0]]]
  BY DEF Init
<1>2. stage = Unstarted /\ now = 0 /\ backs = 0 /\ faults = 0 /\ cancelled = FALSE
  BY DEF Init
<1>3. /\ NoCounts \in [Kinds -> 0..Groups] /\ NoCounts \in [Kinds -> Nat]
      /\ \A k \in Kinds : NoCounts[k] = 0
  BY Sizes DEF NoCounts
<1>4. 0 \in Time /\ 0 \in 0..1 /\ 0 \in 0..MaxBacks /\ 0 \in 0..MaxFaults
  BY Sizes DEF Time
<1>5. db \in Db
  BY <1>1, <1>3, <1>4 DEF Db, SessionRow, ReportRow, AnalysisRow, OutcomeRow, States
<1>6. stage \in StageRow
  <2>1. 1 \in 1..(Groups + 1) /\ 0 \in 0..Probes /\ 0 \in 0..MaxReads /\ 0 \in 0..6
    BY Sizes
  <2> QED
    BY <1>2, <1>3, <1>4, <2>1 DEF Unstarted, StageRow, Places, Evidence
<1>7. /\ db.session.state = "none" /\ db.session.at = 0 /\ db.session.counts = NoCounts
      /\ \A g \in Group :
           /\ db.report[g] = [state |-> "none", at |-> 0, fin |-> 0, parts |-> {},
                read |-> 0]
           /\ db.analysis[g] = [state |-> "none", at |-> 0, fin |-> 0, parts |-> {}]
           /\ db.outcome[g] = [kind |-> "none", at |-> 0]
  BY <1>1
<1>8. TypeInv
  BY <1>2, <1>4, <1>5, <1>6 DEF TypeInv
<1>9. TablesInv
  <2>1. ASSUME NEW g \in Group PROVE GroupFits(db, g)
    BY <1>7 DEF GroupFits, RowsFit, ReportFits, AnalysisFits, PartsFit, OutcomeFits,
         SessionFits, Idle, Terminal, Ends
  <2>2. BytesRead(db) <= MaxReads \div 2
    <3>1. {g \in Group : db.report[g].read = 1} = {}
      BY <1>7
    <3>2. BytesRead(db) = 0
      BY <3>1, FS_EmptySet DEF BytesRead
    <3>3. 0 <= MaxReads \div 2
      BY Sizes
    <3> QED
      BY <3>2, <3>3
  <2>3. CountsFit(db)
    BY <1>7, <2>2 DEF CountsFit, Ends
  <2> QED
    BY <2>1, <2>3 DEF TablesInv, StoreInv
<1>10. stage.at = "guard" /\ stage.g = 1 /\ stage.part = 0 /\ stage.tried = 0
       /\ ~stage.report /\ ~stage.analysis /\ stage.written = NoCounts
  BY <1>2 DEF Unstarted
<1>11. PlaceInv
  BY <1>10 DEF PlaceInv, Placed, Inside, Held
<1>12. ToldInv
  <2>1. PassedBy(stage) = 0 /\ 0 \in 0..Groups
    BY <1>10, Sizes DEF PassedBy, Closed
  <2>2. \A k \in Kinds : Tally(db, k, 0) \in 0..Groups
    BY <1>5, <2>1, Tallies
  <2>3. WrittenBy(stage) = 0
    BY <1>3, <1>10 DEF WrittenBy, Kinds
  <2>4. \A k \in Kinds : stage.written[k] <= Tally(db, k, PassedBy(stage))
    BY <1>3, <1>10, <2>1, <2>2, Sizes
  <2> QED
    BY <1>10, <2>1, <2>3, <2>4 DEF ToldInv, Told
<1>13. ClockInv
  BY <1>2, <1>7 DEF ClockInv, Older
<1>14. CleanInv
  BY <1>7, <1>10 DEF CleanInv, Clear, DraftsKnown
<1> QED
  BY <1>8, <1>9, <1>11, <1>12, <1>13, <1>14 DEF IInv

\* The invariant holds in every reachable state.
THEOREM InvHolds == Spec => []IInv
<1>1. Init => IInv
  BY InitInv
<1>2. IInv /\ [Next]_vars => IInv'
  BY NextInv
<1> QED
  BY <1>1, <1>2, PTL DEF Spec

\* Whatever fails, is cancelled or cut off, and however the clock is set, the
\* tables and the stage keep their types: no count exceeds the scan's groups,
\* no reservation the session's budget.
THEOREM TypeCorrect == Spec => []TypeOK
<1>1. IInv => TypeOK
  <2> SUFFICES ASSUME IInv PROVE TypeOK
    OBVIOUS
  <2>1. stage \in StageRow /\ db \in Db /\ Told(db, stage)
    BY DEF IInv, TypeInv, ToldInv
  <2>2. \A k \in Kinds : stage.written[k] \in 0..Groups
    <3>1. PICK n : n = PassedBy(stage)
      OBVIOUS
    <3>2. n \in 0..Groups
      BY <2>1, <3>1, PassedType
    <3>3. \A k \in Kinds : Tally(db, k, n) \in 0..Groups
      BY <2>1, <3>2, Tallies
    <3>4. \A k \in Kinds : stage.written[k] <= Tally(db, k, n) /\ stage.written[k] \in Nat
      BY <2>1, <3>1 DEF Told, StageRow
    <3> QED
      BY <3>3, <3>4, Sizes
  <2>3. stage.written \in [Kinds -> 0..Groups]
    <3>1. stage.written = [k \in Kinds |-> stage.written[k]]
      BY <2>1 DEF StageRow
    <3> QED
      BY <2>2, <3>1
  <2>4. stage \in [at: Places, g: 1..(Groups + 1), tried: 0..Probes, part: 0..6,
                   evidence: Evidence, read: 0..1, reserved: 0..MaxReads,
                   report: BOOLEAN, analysis: BOOLEAN,
                   status: {"completed", "partial", "unavailable"},
                   written: [Kinds -> 0..Groups]]
    BY <2>1, <2>3 DEF StageRow
  <2> QED
    BY <2>1, <2>4 DEF IInv, TypeInv, TypeOK, Db, SessionRow, ReportRow, AnalysisRow,
         OutcomeRow
<1> QED
  BY <1>1, InvHolds, PTL

\* Whatever fails, is cancelled or cut off between any two transactions, and
\* however the clock is set, the next open accepts the capture-time tables
\* (validate_capture_time_evidence).
THEOREM EveryOpenAccepts == Spec => []TimeReopens
<1>1. IInv => TimeReopens
  BY StoreAccepted DEF IInv, TypeInv, TablesInv, TimeReopens
<1> QED
  BY <1>1, InvHolds, PTL

\* The summary of a stage never counts an outcome that is not in the store, and
\* a completed stage left a complete session with exactly its counts, also
\* after a later open (record_group, finish_stage).
THEOREM SummariesAreTrue == Spec => []SummaryTrue
<1>1. IInv => SummaryTrue
  <2> SUFFICES ASSUME IInv PROVE SummaryTrue
    OBVIOUS
  <2>1. PICK d, s : d = db /\ s = stage
    OBVIOUS
  <2>2. s \in StageRow /\ d \in Db /\ Told(d, s)
    BY <2>1 DEF IInv, TypeInv, ToldInv
  <2>3. PICK n : n = PassedBy(s)
    OBVIOUS
  <2>4. n \in 0..Groups /\ Groups \in 0..Groups /\ n <= Groups
    BY <2>2, <2>3, PassedType, Sizes
  <2>5. ASSUME NEW k \in Kinds
        PROVE  s.written[k] <= Recorded(d, k)
    <3>1. Tally(d, k, n) <= Tally(d, k, Groups)
      BY <2>2, <2>4, TallyGrows DEF Grows
    <3>2. Tally(d, k, Groups) = Recorded(d, k)
      BY DEF Tally, Recorded, Group
    <3>3. Tally(d, k, n) \in Nat /\ Tally(d, k, Groups) \in Nat
      BY <2>2, <2>4, Tallies
    <3>4. s.written[k] <= Tally(d, k, n) /\ s.written[k] \in Nat
      BY <2>2, <2>3 DEF Told, StageRow
    <3> QED
      BY <3>1, <3>2, <3>3, <3>4
  <2> QED
    BY <2>1, <2>2, <2>5 DEF SummaryTrue, Told
<1> QED
  BY <1>1, InvHolds, PTL

\* A stage that no failing write and no set-back clock disturbed ends its
\* session and leaves no draft, whenever it was cancelled and whatever the
\* store refused (abandon_open_drafts, finish_stage).
THEOREM EndsAreClean == Spec => []CleanEnd
<1>1. IInv => CleanEnd
  <2> SUFFICES ASSUME IInv, stage.at = "done", faults = 0, backs = 0
               PROVE  db.session.state \in {"none", "complete", "partial"}
                      /\ ~DraftChild(db)
    BY DEF CleanEnd, At
  <2>1. Clear(db, stage)
    BY DEF IInv, CleanInv
  <2>2. ~stage.report /\ ~stage.analysis
    BY <2>1 DEF Clear
  <2>3. ~DraftChild(db)
    BY <2>1, <2>2 DEF Clear, DraftsKnown, DraftChild
  <2> QED
    BY <2>1, <2>3 DEF Clear
<1> QED
  BY <1>1, InvHolds, PTL

-----------------------------------------------------------------------------
(* What is recorded is final.                                              *)

\* A group's rows from one moment to a later one: rows are only added, a report or
\* an analysis that is finished stays as it is, and once the group has an outcome
\* nothing of it changes.
GroupFinal(d, e, g) ==
  /\ d.report[g].parts \subseteq e.report[g].parts
  /\ d.analysis[g].parts \subseteq e.analysis[g].parts
  /\ Terminal(d.report[g]) => e.report[g] = d.report[g]
  /\ Terminal(d.analysis[g]) => e.analysis[g] = d.analysis[g]
  /\ d.outcome[g].kind # "none" =>
       /\ e.outcome[g] = d.outcome[g]
       /\ e.report[g] = d.report[g] /\ e.analysis[g] = d.analysis[g]

\* A session keeps the time it was begun at, and once it has ended nothing of it or
\* of its groups changes.
RecordsFinal(d, e) ==
  /\ \A g \in Group : GroupFinal(d, e, g)
  /\ d.session.state # "none" => e.session.state # "none" /\ e.session.at = d.session.at
  /\ d.session.state \in Ends =>
       /\ e.session = d.session
       /\ \A g \in Group : /\ e.report[g] = d.report[g] /\ e.analysis[g] = d.analysis[g]
                           /\ e.outcome[g] = d.outcome[g]

\* What the tables hold of a finished group or session is final.
EvidenceFinal == [][RecordsFinal(db, db')]_vars

\* A step that does not touch the tables leaves all of it.
LEMMA Untouched ==
  ASSUME NEW d, NEW e, e = d
  PROVE  RecordsFinal(d, e)
BY DEF RecordsFinal, GroupFinal

\* A transaction on the rows of one group of a draft session is final when it is
\* for that group.
LEMMA OneGroupFinal ==
  ASSUME NEW d \in Db, NEW e, NEW g \in Group, Draft(d), OneGroup(d, e, g),
         GroupFinal(d, e, g)
  PROVE  RecordsFinal(d, e)
<1>1. \A h \in Group : GroupFinal(d, e, h)
  BY DEF OneGroup, GroupFinal
<1>2. d.session.state \notin Ends /\ e.session = d.session
  BY DEF Draft, Ends, OneGroup
<1> QED
  BY <1>1, <1>2 DEF RecordsFinal

\* So is one on the session alone that keeps its beginning.
LEMMA SessionFinal ==
  ASSUME NEW d \in Db, NEW e, d.session.state \notin Ends, e.report = d.report,
         e.analysis = d.analysis, e.outcome = d.outcome,
         d.session.state # "none" => e.session.state # "none" /\ e.session.at = d.session.at
  PROVE  RecordsFinal(d, e)
BY DEF RecordsFinal, GroupFinal

\* A row put in place of a report: its group keeps its other rows.
LEMMA ReportRowPut ==
  ASSUME NEW d \in Db, NEW g \in Group, NEW q, NEW e, e = WithReport(d, g, q)
  PROVE  /\ OneGroup(d, e, g) /\ e.report[g] = q
         /\ e.analysis = d.analysis /\ e.outcome = d.outcome
<1>1. PICK f : f = [d.report EXCEPT ![g] = q]
  OBVIOUS
<1>2. f[g] = q /\ \A h \in Group \ {g} : f[h] = d.report[h]
  BY <1>1 DEF Db
<1>3. e = [d EXCEPT !.report = f]
  BY <1>1 DEF WithReport
<1>4. /\ e.report = f /\ e.analysis = d.analysis /\ e.outcome = d.outcome
      /\ e.sealed = d.sealed /\ e.session = d.session
  BY <1>3 DEF Db
<1> QED
  BY <1>2, <1>4 DEF OneGroup

\* A row put in place of an analysis: its group keeps its other rows.
LEMMA AnalysisRowPut ==
  ASSUME NEW d \in Db, NEW g \in Group, NEW q, NEW e, e = WithAnalysis(d, g, q)
  PROVE  /\ OneGroup(d, e, g) /\ e.analysis[g] = q
         /\ e.report = d.report /\ e.outcome = d.outcome
<1>1. PICK f : f = [d.analysis EXCEPT ![g] = q]
  OBVIOUS
<1>2. f[g] = q /\ \A h \in Group \ {g} : f[h] = d.analysis[h]
  BY <1>1 DEF Db
<1>3. e = [d EXCEPT !.analysis = f]
  BY <1>1 DEF WithAnalysis
<1>4. /\ e.analysis = f /\ e.report = d.report /\ e.outcome = d.outcome
      /\ e.sealed = d.sealed /\ e.session = d.session
  BY <1>3 DEF Db
<1> QED
  BY <1>2, <1>4 DEF OneGroup

\* A report that is not finished, of a group without an outcome, may be replaced
\* by one that has its parts.
LEMMA ReportFinal ==
  ASSUME NEW d \in Db, NEW g \in Group, Draft(d), ~Terminal(d.report[g]),
         d.outcome[g].kind = "none", NEW q, d.report[g].parts \subseteq q.parts,
         NEW e, e = WithReport(d, g, q)
  PROVE  RecordsFinal(d, e)
<1>1. OneGroup(d, e, g) /\ e.report[g] = q /\ e.analysis = d.analysis
  BY ReportRowPut
<1> QED
  BY <1>1, OneGroupFinal DEF GroupFinal

\* So may an analysis.
LEMMA AnalysisFinal ==
  ASSUME NEW d \in Db, NEW g \in Group, Draft(d), ~Terminal(d.analysis[g]),
         d.outcome[g].kind = "none", NEW q, d.analysis[g].parts \subseteq q.parts,
         NEW e, e = WithAnalysis(d, g, q)
  PROVE  RecordsFinal(d, e)
<1>1. OneGroup(d, e, g) /\ e.analysis[g] = q /\ e.report = d.report
  BY AnalysisRowPut
<1> QED
  BY <1>1, OneGroupFinal DEF GroupFinal

\* begin_capture_time_session, finalize_capture_time_session and
\* abandon_capture_time_session touch no group.
LEMMA SessionsFinal ==
  ASSUME NEW d \in Db, NEW t \in Time, NEW end \in {"complete", "partial"}
  PROVE  /\ CanBeginSession(d, t) => RecordsFinal(d, BeginSession(d, t))
         /\ CanFinalize(d, end, t) => RecordsFinal(d, Finalize(d, end, t))
         /\ CanAbandonSession(d, t) => RecordsFinal(d, AbandonSession(d, t))
<1>0. d.session \in SessionRow
  BY DEF Db
<1>1. ASSUME CanBeginSession(d, t) PROVE RecordsFinal(d, BeginSession(d, t))
  <2>1. PICK e : e = BeginSession(d, t)
    OBVIOUS
  <2>2. /\ e.report = d.report /\ e.analysis = d.analysis /\ e.outcome = d.outcome
        /\ d.session.state = "none"
    BY <1>1, <2>1 DEF BeginSession, CanBeginSession, Db
  <2> QED
    BY <2>1, <2>2, SessionFinal DEF Ends
<1>2. ASSUME Draft(d), NEW s, s.state # "none", s.at = d.session.at,
             NEW e, e = [d EXCEPT !.session = s]
      PROVE  RecordsFinal(d, e)
  <2>1. /\ e.report = d.report /\ e.analysis = d.analysis /\ e.outcome = d.outcome
        /\ e.session = s
    BY <1>2 DEF Db
  <2> QED
    BY <1>2, <2>1, SessionFinal DEF Draft, Ends
<1>3. ASSUME CanFinalize(d, end, t) PROVE RecordsFinal(d, Finalize(d, end, t))
  <2>1. PICK c : c = Counts(d)
    OBVIOUS
  <2>2. PICK s : s = [d.session EXCEPT !.state = end, !.fin = t, !.counts = c]
    OBVIOUS
  <2>3. s.state # "none" /\ s.at = d.session.at
    BY <1>0, <2>2 DEF SessionRow
  <2>4. Finalize(d, end, t) = [d EXCEPT !.session = s]
    BY <2>1, <2>2 DEF Finalize
  <2> QED
    BY <1>2, <1>3, <2>3, <2>4 DEF CanFinalize
<1>4. ASSUME CanAbandonSession(d, t) PROVE RecordsFinal(d, AbandonSession(d, t))
  <2>1. PICK s : s = [d.session EXCEPT !.state = "abandoned", !.fin = t]
    OBVIOUS
  <2>2. s.state # "none" /\ s.at = d.session.at
    BY <1>0, <2>1 DEF SessionRow
  <2>3. AbandonSession(d, t) = [d EXCEPT !.session = s]
    BY <1>0, <2>1 DEF AbandonSession, Db, SessionRow
  <2> QED
    BY <1>2, <1>4, <2>2, <2>3 DEF CanAbandonSession
<1> QED
  BY <1>1, <1>3, <1>4

\* An outcome without evidence is written once, or written again as it is.
LEMMA RecordFinal ==
  ASSUME NEW d \in Db, NEW g \in Group, NEW k \in Kinds, NEW t \in Time,
         CanRecord(d, g, k, t)
  PROVE  RecordsFinal(d, Record(d, g, k, t))
<1>1. PICK q : q = [kind |-> k, at |-> t]
  OBVIOUS
<1>2. PICK f : f = [d.outcome EXCEPT ![g] = q]
  OBVIOUS
<1>3. PICK e : e = Record(d, g, k, t)
  OBVIOUS
<1>4. e = [d EXCEPT !.outcome = f]
  BY <1>1, <1>2, <1>3 DEF Record
<1>5. /\ e.outcome = f /\ e.report = d.report /\ e.analysis = d.analysis
      /\ e.session = d.session /\ e.sealed = d.sealed
  BY <1>4 DEF Db
<1>6. f[g] = q /\ \A h \in Group \ {g} : f[h] = d.outcome[h]
  BY <1>2 DEF Db
<1>7. Draft(d) /\ (d.outcome[g].kind # "none" => d.outcome[g] = q)
  BY <1>1 DEF CanRecord
<1>8. OneGroup(d, e, g) /\ GroupFinal(d, e, g)
  BY <1>5, <1>6, <1>7 DEF OneGroup, GroupFinal
<1> QED
  BY <1>3, <1>7, <1>8, OneGroupFinal

\* Every transaction on a report.
LEMMA ReportsFinal ==
  ASSUME NEW d \in Db, StoreInv(d), NEW g \in Group, NEW n, NEW t, NEW p
  PROVE  /\ CanBeginReport(d, g, n, t) => RecordsFinal(d, BeginReport(d, g, n, t))
         /\ CanAddToReport(d, g) => RecordsFinal(d, AddToReport(d, g, p))
         /\ CanSealReport(d, g, t) => RecordsFinal(d, SealReport(d, g, t))
         /\ CanAbandonReport(d, g, t) => RecordsFinal(d, AbandonReport(d, g, t))
<1>0. PICK r : r = d.report[g]
  OBVIOUS
<1>1. r \in ReportRow
  BY <1>0 DEF Db
<1>2. r.state = "draft" => Draft(d) /\ d.outcome[g].kind = "none"
  BY <1>0, DraftSession
<1>3. ASSUME CanBeginReport(d, g, n, t) PROVE RecordsFinal(d, BeginReport(d, g, n, t))
  <2>1. PICK q : q = [r EXCEPT !.state = "draft", !.at = t, !.read = n]
    OBVIOUS
  <2>2. q.parts = r.parts
    BY <1>1, <2>1 DEF ReportRow
  <2>3. BeginReport(d, g, n, t) = WithReport(d, g, q)
    BY <1>0, <2>1 DEF BeginReport, WithReport
  <2>4. Draft(d) /\ ~Terminal(d.report[g]) /\ d.outcome[g].kind = "none"
    BY <1>3 DEF CanBeginReport, Terminal
  <2> QED
    BY <1>0, <2>2, <2>3, <2>4, ReportFinal
<1>4. ASSUME r.state = "draft", NEW q, r.parts \subseteq q.parts
      PROVE  RecordsFinal(d, WithReport(d, g, q))
  BY <1>0, <1>2, <1>4, ReportFinal DEF Terminal
<1>5. ASSUME CanAddToReport(d, g) PROVE RecordsFinal(d, AddToReport(d, g, p))
  <2>1. PICK q : q = [r EXCEPT !.parts = @ \cup {p}]
    OBVIOUS
  <2>2. r.parts \subseteq q.parts /\ AddToReport(d, g, p) = WithReport(d, g, q)
    BY <1>0, <1>1, <2>1 DEF AddToReport, WithReport, Db, ReportRow
  <2> QED
    BY <1>0, <1>4, <1>5, <2>2 DEF CanAddToReport
<1>6. ASSUME NEW end, NEW q, q = [r EXCEPT !.state = end, !.fin = t], r.state = "draft"
      PROVE  RecordsFinal(d, WithReport(d, g, q))
  <2>1. q.parts = r.parts
    BY <1>1, <1>6 DEF ReportRow
  <2> QED
    BY <1>4, <1>6, <2>1
<1>7. ASSUME CanSealReport(d, g, t) PROVE RecordsFinal(d, SealReport(d, g, t))
  <2>1. PICK q : q = [r EXCEPT !.state = "sealed", !.fin = t]
    OBVIOUS
  <2>2. SealReport(d, g, t) = WithReport(d, g, q)
    BY <1>0, <2>1 DEF SealReport, WithReport
  <2> QED
    BY <1>0, <1>6, <1>7, <2>1, <2>2 DEF CanSealReport, CanAddToReport
<1>8. ASSUME CanAbandonReport(d, g, t) PROVE RecordsFinal(d, AbandonReport(d, g, t))
  <2>1. PICK q : q = [r EXCEPT !.state = "abandoned", !.fin = t]
    OBVIOUS
  <2>2. AbandonReport(d, g, t) = WithReport(d, g, q)
    BY <1>0, <2>1 DEF AbandonReport, WithReport
  <2> QED
    BY <1>0, <1>6, <1>8, <2>1, <2>2 DEF CanAbandonReport
<1> QED
  BY <1>3, <1>5, <1>7, <1>8

\* A draft analysis that ends takes its group's outcome with it.
LEMMA AnalysisEndFinal ==
  ASSUME NEW d \in Db, StoreInv(d), NEW g \in Group, d.analysis[g].state = "draft",
         NEW k, NEW t, NEW q, d.analysis[g].parts \subseteq q.parts,
         NEW c, c = Record(d, g, k, t), NEW e, e = [c EXCEPT !.analysis[g] = q]
  PROVE  RecordsFinal(d, e)
<1>1. Draft(d) /\ d.outcome[g].kind = "none"
  BY DraftSession
<1>2. PICK f : f = [d.outcome EXCEPT ![g] = [kind |-> k, at |-> t]]
  OBVIOUS
<1>3. c = [d EXCEPT !.outcome = f] /\ \A h \in Group \ {g} : f[h] = d.outcome[h]
  BY <1>2 DEF Record, Db
<1>4. PICK F : F = [d.analysis EXCEPT ![g] = q]
  OBVIOUS
<1>5. F[g] = q /\ \A h \in Group \ {g} : F[h] = d.analysis[h]
  BY <1>4 DEF Db
<1>6. c.analysis = d.analysis
  BY <1>3 DEF Db
<1>7. e = [c EXCEPT !.analysis = F]
  BY <1>4, <1>6
<1>8. /\ e.analysis = F /\ e.outcome = f /\ e.report = d.report
      /\ e.session = d.session /\ e.sealed = d.sealed
  BY <1>3, <1>7 DEF Db
<1>9. OneGroup(d, e, g)
  BY <1>3, <1>5, <1>8 DEF OneGroup
<1>10. GroupFinal(d, e, g)
  BY <1>1, <1>5, <1>8 DEF GroupFinal, Terminal
<1> QED
  BY <1>1, <1>9, <1>10, OneGroupFinal

\* Every transaction on an analysis.
LEMMA AnalysesFinal ==
  ASSUME NEW d \in Db, StoreInv(d), NEW g \in Group, NEW t, NEW p, NEW fit
  PROVE  /\ CanBeginAnalysis(d, g, t) => RecordsFinal(d, BeginAnalysis(d, g, t))
         /\ CanAddToAnalysis(d, g, p, fit) => RecordsFinal(d, AddToAnalysis(d, g, p))
         /\ CanSealAnalysis(d, g, t) => RecordsFinal(d, SealAnalysis(d, g, t))
         /\ CanAbandonAnalysis(d, g, t) => RecordsFinal(d, AbandonAnalysis(d, g, t))
<1>0. PICK r : r = d.analysis[g]
  OBVIOUS
<1>1. r \in AnalysisRow
  BY <1>0 DEF Db
<1>2. r.state = "draft" => Draft(d) /\ d.outcome[g].kind = "none"
  BY <1>0, DraftSession
<1>3. ASSUME CanBeginAnalysis(d, g, t) PROVE RecordsFinal(d, BeginAnalysis(d, g, t))
  <2>1. PICK q : q = [r EXCEPT !.state = "draft", !.at = t]
    OBVIOUS
  <2>2. q.parts = r.parts
    BY <1>1, <2>1 DEF AnalysisRow
  <2>3. BeginAnalysis(d, g, t) = WithAnalysis(d, g, q)
    BY <1>0, <2>1 DEF BeginAnalysis, WithAnalysis
  <2>4. Draft(d) /\ ~Terminal(d.analysis[g]) /\ d.outcome[g].kind = "none"
    BY <1>3 DEF CanBeginAnalysis, Terminal
  <2> QED
    BY <1>0, <2>2, <2>3, <2>4, AnalysisFinal
<1>4. ASSUME CanAddToAnalysis(d, g, p, fit) PROVE RecordsFinal(d, AddToAnalysis(d, g, p))
  <2>1. PICK q : q = [r EXCEPT !.parts = @ \cup {p}]
    OBVIOUS
  <2>2. r.parts \subseteq q.parts /\ AddToAnalysis(d, g, p) = WithAnalysis(d, g, q)
    BY <1>0, <1>1, <2>1 DEF AddToAnalysis, WithAnalysis, Db, AnalysisRow
  <2>3. r.state = "draft"
    BY <1>0, <1>4 DEF CanAddToAnalysis
  <2> QED
    BY <1>0, <1>2, <2>2, <2>3, AnalysisFinal DEF Terminal
<1>5. ASSUME NEW end, NEW q, q = [r EXCEPT !.state = end, !.fin = t]
      PROVE  r.parts \subseteq q.parts
  BY <1>1, <1>5 DEF AnalysisRow
<1>6. ASSUME NEW c, NEW k, c = Record(d, g, k, t) PROVE c.analysis[g] = r
  BY <1>0, <1>6 DEF Record, Db
<1>7. ASSUME CanSealAnalysis(d, g, t) PROVE RecordsFinal(d, SealAnalysis(d, g, t))
  <2>1. PICK c : c = Record(d, g, "evidence", t)
    OBVIOUS
  <2>2. PICK q : q = [r EXCEPT !.state = "sealed", !.fin = t]
    OBVIOUS
  <2>3. c.analysis[g] = r
    BY <1>6, <2>1
  <2>4. SealAnalysis(d, g, t) = [c EXCEPT !.analysis[g] = q]
    BY <2>1, <2>2, <2>3 DEF SealAnalysis
  <2>5. r.state = "draft"
    BY <1>0, <1>7 DEF CanSealAnalysis
  <2>6. r.parts \subseteq q.parts
    BY <1>5, <2>2
  <2> QED
    BY <1>0, <2>1, <2>4, <2>5, <2>6, AnalysisEndFinal
<1>8. ASSUME CanAbandonAnalysis(d, g, t) PROVE RecordsFinal(d, AbandonAnalysis(d, g, t))
  <2>1. PICK c : c = Record(d, g, "failed", t)
    OBVIOUS
  <2>2. PICK q : q = [r EXCEPT !.state = "abandoned", !.fin = t]
    OBVIOUS
  <2>3. c.analysis[g] = r
    BY <1>6, <2>1
  <2>4. AbandonAnalysis(d, g, t) = [c EXCEPT !.analysis[g] = q]
    BY <2>1, <2>2, <2>3 DEF AbandonAnalysis
  <2>5. r.state = "draft"
    BY <1>0, <1>8 DEF CanAbandonAnalysis
  <2>6. r.parts \subseteq q.parts
    BY <1>5, <2>2
  <2> QED
    BY <1>0, <2>1, <2>4, <2>5, <2>6, AnalysisEndFinal
<1> QED
  BY <1>3, <1>4, <1>7, <1>8

\* The recovery of an open ends drafts, whose groups have no outcome, and the
\* session if it is a draft.
LEMMA ReopeningFinal ==
  ASSUME NEW d \in Db, StoreInv(d), NEW t \in Time, NEW e, e = Reconciled(d, t)
  PROVE  RecordsFinal(d, e)
<1>1. /\ e \in Db /\ e.outcome = d.outcome
      /\ d.session.state # "draft" => e.session = d.session
      /\ \A g \in Group : d.analysis[g].state # "draft" => e.analysis[g] = d.analysis[g]
      /\ \A g \in Group : d.report[g].state # "draft" => e.report[g] = d.report[g]
  BY Reopening
<1>2. PICK F, G : /\ F = [g \in Group |-> Ended(d.report[g], t)]
                  /\ G = [g \in Group |-> Ended(d.analysis[g], t)]
  OBVIOUS
<1>3. PICK c : c = [d EXCEPT !.report = F, !.analysis = G]
  OBVIOUS
<1>4. /\ c.report = F /\ c.analysis = G /\ c.session = d.session
  BY <1>3 DEF Db
<1>5. c = [d EXCEPT !.report = [g \in Group |-> Ended(@[g], t)],
                    !.analysis = [g \in Group |-> Ended(@[g], t)]]
  BY <1>2, <1>3 DEF Db
<1>6. \E u : e = IF Draft(d) THEN AbandonSession(c, u) ELSE c
  BY <1>5 DEF Reconciled
<1>7. /\ e.report = F /\ e.analysis = G
      /\ d.session.state = "draft" => e.session.state # "none" /\ e.session.at = d.session.at
  <2>1. CASE e = c
    BY <1>4, <2>1
  <2>2. ASSUME NEW u, e = AbandonSession(c, u)
        PROVE  e.report = F /\ e.analysis = G /\ e.session.state # "none"
               /\ e.session.at = d.session.at
    <3>1. PICK s : s = [c.session EXCEPT !.state = "abandoned", !.fin = u]
      OBVIOUS
    <3>2. s.state # "none" /\ s.at = d.session.at
      BY <1>4, <3>1 DEF Db, SessionRow
    <3>3. e = [c EXCEPT !.session = s]
      BY <1>3, <1>4, <2>2, <3>1 DEF AbandonSession, Db, SessionRow
    <3>4. e.report = c.report /\ e.analysis = c.analysis /\ e.session = s
      BY <1>3, <3>3 DEF Db
    <3> QED
      BY <1>4, <3>2, <3>4
  <2> QED
    BY <1>6, <2>1, <2>2
<1>8. ASSUME NEW g \in Group
      PROVE  e.report[g].parts = d.report[g].parts /\ e.analysis[g].parts = d.analysis[g].parts
  <2>1. PICK r, a : r = d.report[g] /\ a = d.analysis[g]
    OBVIOUS
  <2>2. r \in ReportRow /\ a \in AnalysisRow
    BY <2>1 DEF Db
  <2>3. PICK q, b : q = Ended(r, t) /\ b = Ended(a, t)
    OBVIOUS
  <2>4. e.report[g] = q /\ e.analysis[g] = b
    BY <1>2, <1>7, <2>1, <2>3
  <2>5. q.parts = r.parts /\ b.parts = a.parts
    BY <2>2, <2>3, RowEnded
  <2> QED
    BY <2>1, <2>4, <2>5
<1>9. ASSUME NEW g \in Group,
             d.outcome[g].kind # "none" \/ d.session.state \in Ends
      PROVE  e.report[g] = d.report[g] /\ e.analysis[g] = d.analysis[g]
  <2>1. d.report[g].state # "draft" /\ d.analysis[g].state # "draft"
    BY <1>9, DraftSession DEF Draft, Ends
  <2> QED
    BY <1>1, <2>1
<1>10. \A g \in Group : GroupFinal(d, e, g)
  BY <1>1, <1>8, <1>9 DEF GroupFinal, Terminal
<1>11. d.session.state \in Ends => e.session = d.session
  BY <1>1 DEF Ends
<1> QED
  BY <1>1, <1>7, <1>9, <1>10, <1>11 DEF RecordsFinal, Ends

\* A write of the stage makes a change the store allows, or none.
LEMMA WriteFinal ==
  ASSUME NEW a, NEW e, NEW t, NEW r, Write(a, e, t, r), a => RecordsFinal(db, e)
  PROVE  RecordsFinal(db, db')
BY Untouched DEF Write

\* So do a step of persist_metadata_and_analysis and a step that writes nothing.
LEMMA PersistFinal ==
  ASSUME NEW p, NEW a, NEW e, NEW t, Persist(p, a, e, t), a => RecordsFinal(db, e)
  PROVE  RecordsFinal(db, db')
BY WriteFinal, Untouched DEF Persist, Go

\* The drafts that abandon_open_drafts ends are of a group in hand.
LEMMA DropsFinal ==
  ASSUME IInv, NEW then, NEW refused, AbandonDrafts(then, refused)
  PROVE  RecordsFinal(db, db')
<1>1. /\ db \in Db /\ StoreInv(db)
      /\ stage.report \/ stage.analysis => stage.g \in Group
  BY DEF IInv, TypeInv, TablesInv, PlaceInv, Placed
<1>2. CASE /\ stage.analysis
           /\ Write(CanAbandonAnalysis(db, stage.g, now), AbandonAnalysis(db, stage.g, now),
                    [then EXCEPT !.analysis = FALSE], refused)
  BY <1>1, <1>2, AnalysesFinal, WriteFinal
<1>3. CASE /\ stage.report
           /\ Write(CanAbandonReport(db, stage.g, now), AbandonReport(db, stage.g, now),
                    [then EXCEPT !.report = FALSE], refused)
  BY <1>1, <1>3, ReportsFinal, WriteFinal
<1>4. CASE Go(then)
  BY <1>4, Untouched DEF Go
<1> QED
  BY <1>2, <1>3, <1>4 DEF AbandonDrafts

\* Every step is final.
LEMMA StepFinal ==
  ASSUME IInv, [Next]_vars
  PROVE  RecordsFinal(db, db')
<1>1. /\ db \in Db /\ StoreInv(db) /\ now \in Time /\ db.session.at \in Time
      /\ stage.at \in Inside => stage.g \in Group
  BY DEF IInv, TypeInv, TablesInv, PlaceInv, Placed, Db, SessionRow
<1>2. CASE UNCHANGED db
  BY <1>2, Untouched
<1>3. CASE Begin
  BY <1>1, <1>3, SessionsFinal, WriteFinal DEF Begin
<1>4. CASE WriteGroup
  <2>1. stage.g \in Group
    BY <1>1, <1>4 DEF WriteGroup, At, Inside
  <2>2. CASE Write(CanRecord(db, stage.g, "unavailable", db.session.at),
                   Record(db, stage.g, "unavailable", db.session.at),
                   Wrote("unavailable"), Partly("stop"))
    <3>1. "unavailable" \in Kinds
      BY DEF Kinds
    <3> QED
      BY <1>1, <2>1, <2>2, <3>1, RecordFinal, WriteFinal
  <2> QED
    BY <1>2, <1>4, <2>2 DEF WriteGroup, Go
<1>5. CASE FailGroup
  <2>1. stage.g \in Group /\ "failed" \in Kinds
    BY <1>1, <1>5 DEF FailGroup, At, Inside, Kinds
  <2> QED
    BY <1>1, <1>5, <2>1, RecordFinal, WriteFinal DEF FailGroup
<1>6. CASE WriteReport
  <2>1. stage.g \in Group
    BY <1>1, <1>6 DEF WriteReport, Persist, At, Inside
  <2>2. PICK g, p : g = stage.g /\ p = ReportParts[stage.part + 1]
    OBVIOUS
  <2>3. /\ CanBeginReport(db, g, stage.read, db.session.at) =>
             RecordsFinal(db, BeginReport(db, g, stage.read, db.session.at))
        /\ CanAddToReport(db, g) => RecordsFinal(db, AddToReport(db, g, p))
        /\ CanSealReport(db, g, now) => RecordsFinal(db, SealReport(db, g, now))
    BY <1>1, <2>1, <2>2, ReportsFinal
  <2> QED
    BY <1>6, <2>2, <2>3, PersistFinal DEF WriteReport
<1>7. CASE WriteAnalysis
  <2>1. stage.g \in Group
    BY <1>1, <1>7 DEF WriteAnalysis, Persist, At, Inside
  <2>2. PICK g, p, fit : /\ g = stage.g /\ p = AnalysisParts[stage.part + 1]
                         /\ fit = (stage.evidence = "fit")
    OBVIOUS
  <2>3. /\ CanBeginAnalysis(db, g, now) => RecordsFinal(db, BeginAnalysis(db, g, now))
        /\ CanAddToAnalysis(db, g, p, stage.evidence = "fit") =>
             RecordsFinal(db, AddToAnalysis(db, g, p))
        /\ CanSealAnalysis(db, g, now) => RecordsFinal(db, SealAnalysis(db, g, now))
    BY <1>1, <2>1, <2>2, AnalysesFinal
  <2>4. CASE At("analysis") /\ Unread(To("clean"))
    BY <1>2, <2>4 DEF Unread
  <2> QED
    BY <1>7, <2>2, <2>3, <2>4, PersistFinal DEF WriteAnalysis
<1>8. CASE Clean
  BY <1>8, DropsFinal DEF Clean
<1>9. CASE Finish
  <2>1. CASE AbandonDrafts(To("finalize"), Partly("done"))
    BY <2>1, DropsFinal
  <2>2. CASE Write(CanFinalize(db, Outcome, now), Finalize(db, Outcome, now),
                   To("done"), To("abandon"))
    <3>1. Outcome \in {"complete", "partial"}
      BY DEF Outcome
    <3> QED
      BY <1>1, <2>2, <3>1, SessionsFinal, WriteFinal
  <2>3. CASE Write(CanAbandonSession(db, now), AbandonSession(db, now),
                   Partly("done"), Partly("done"))
    BY <1>1, <2>3, SessionsFinal, WriteFinal
  <2> QED
    BY <1>9, <2>1, <2>2, <2>3 DEF Finish
<1>10. CASE Reopen
  BY <1>1, <1>10, ReopeningFinal DEF Reopen
<1>11. Guard \/ NextGroup \/ Probe => UNCHANGED db
  BY DEF Guard, NextGroup, Probe, Go, Unread
<1>12. Cancel \/ Tick \/ SetBack \/ UNCHANGED vars => UNCHANGED db
  BY DEF Cancel, Tick, SetBack, vars
<1> QED
  BY <1>2, <1>3, <1>4, <1>5, <1>6, <1>7, <1>8, <1>9, <1>10, <1>11, <1>12 DEF Next

\* Capture-time evidence is final: a report or an analysis that is finished, the
\* outcome of a group with its report and analysis, and a session that has ended
\* with all its groups are never changed or taken back, by no retry, late failure
\* or abandonment of the stage and by no later open, at whatever time
\* (seal_metadata_report, record_capture_time_group_outcome,
\* finalize_capture_time_session, reconcile_stale_scan_sessions).
THEOREM EvidenceIsFinal == Spec => EvidenceFinal
<1>1. IInv /\ [Next]_vars => RecordsFinal(db, db')
  BY StepFinal
<1> QED
  BY <1>1, InvHolds, PTL DEF Spec, EvidenceFinal

-----------------------------------------------------------------------------
(* Capture-time policy: finite sets, extrema and the fields.                *)

\* In a finite set some element is below no other in a strict order.
LEMMA Maximal ==
  ASSUME NEW S, IsFiniteSet(S), S # {}, NEW R,
         \A x \in S : <<x, x>> \notin R,
         \A x, y, z \in S : <<x, y>> \in R /\ <<y, z>> \in R => <<x, z>> \in R
  PROVE  \E m \in S : \A x \in S : <<m, x>> \notin R
<1> DEFINE Below(x) == {y \in S : <<y, x>> \in R}
           N == {Cardinality(Below(x)) : x \in S}
           b == Cardinality(S)
<1>1. b \in Nat /\ \A x \in S : IsFiniteSet(Below(x)) /\ Cardinality(Below(x)) \in 0..b
  <2>1. b \in Nat
    BY FS_CardinalityType
  <2>2. ASSUME NEW x \in S
        PROVE  IsFiniteSet(Below(x)) /\ Cardinality(Below(x)) \in 0..b
    <3>1. Below(x) \in SUBSET S
      OBVIOUS
    <3> HIDE DEF Below
    <3>2. IsFiniteSet(Below(x)) /\ Cardinality(Below(x)) <= b
      BY <3>1, FS_Subset
    <3>3. Cardinality(Below(x)) \in Nat
      BY <3>2, FS_CardinalityType
    <3> HIDE DEF b
    <3> QED
      BY <2>1, <3>2, <3>3
  <2> QED
    BY <2>1, <2>2
<1>2. PICK m \in S : \A x \in S : Cardinality(Below(x)) <= Cardinality(Below(m))
  <2>1. N \in SUBSET (0..b) /\ N # {}
    <3>1. N # {}
      <4>1. PICK y \in S : TRUE
        OBVIOUS
      <4>2. Cardinality(Below(y)) \in N
        OBVIOUS
      <4> QED
        BY <4>2
    <3>2. ASSUME NEW n \in N
          PROVE  n \in 0..b
      <4>1. PICK x \in S : n = Cardinality(Below(x))
        OBVIOUS
      <4> HIDE DEF N, Below, b
      <4> QED
        BY <1>1, <4>1
    <3> QED
      BY <3>1, <3>2
  <2>2. Max(N) \in N /\ \A n \in N : n <= Max(N)
    <3> HIDE DEF N, b
    <3> QED
      BY <1>1, <2>1, MaxIs
  <2>3. PICK m \in S : Max(N) = Cardinality(Below(m))
    BY <2>2
  <2>4. \A x \in S : Cardinality(Below(x)) \in N
    OBVIOUS
  <2> HIDE DEF N, Below
  <2> QED
    BY <2>2, <2>3, <2>4
<1>3. ASSUME NEW z \in S, <<m, z>> \in R
      PROVE  FALSE
  <2>1. Below(m) \cup {m} \in SUBSET Below(z)
    BY <1>3
  <2>2. m \notin Below(m)
    OBVIOUS
  <2> HIDE DEF Below
  <2>3. Cardinality(Below(m) \cup {m}) = Cardinality(Below(m)) + 1
    BY <1>1, <2>2, FS_AddElement
  <2>4. Cardinality(Below(m) \cup {m}) <= Cardinality(Below(z))
    BY <1>1, <2>1, FS_Subset
  <2>5. Cardinality(Below(m)) \in Nat /\ Cardinality(Below(z)) \in Nat
    BY <1>1
  <2> QED
    BY <1>2, <2>3, <2>4, <2>5
<1> QED
  BY <1>3

\* The extrema of a finite set of integers are among its elements.
LEMMA Extrema ==
  ASSUME NEW S \in SUBSET Int, IsFiniteSet(S), S # {}
  PROVE  /\ Max(S) \in S /\ \A x \in S : x <= Max(S)
         /\ Min(S) \in S /\ \A x \in S : Min(S) <= x
<1>1. \E m \in S : \A x \in S : x <= m
  <2> DEFINE R == {r \in S \X S : r[1] < r[2]}
  <2>1. \A x, y \in S : <<x, y>> \in R <=> x < y
    OBVIOUS
  <2> HIDE DEF R
  <2>2. /\ \A x \in S : <<x, x>> \notin R
        /\ \A x, y, z \in S : <<x, y>> \in R /\ <<y, z>> \in R => <<x, z>> \in R
    BY <2>1
  <2>3. PICK m \in S : \A x \in S : <<m, x>> \notin R
    BY <2>2, Maximal
  <2>4. ASSUME NEW x \in S
        PROVE  x <= m
    <3>1. ~ (m < x)
      BY <2>1, <2>3
    <3>2. x \in Int /\ m \in Int
      OBVIOUS
    <3> QED
      BY <3>1, <3>2
  <2> QED
    BY <2>4
<1>2. \E m \in S : \A x \in S : m <= x
  <2> DEFINE R == {r \in S \X S : r[2] < r[1]}
  <2>1. \A x, y \in S : <<x, y>> \in R <=> y < x
    OBVIOUS
  <2> HIDE DEF R
  <2>2. /\ \A x \in S : <<x, x>> \notin R
        /\ \A x, y, z \in S : <<x, y>> \in R /\ <<y, z>> \in R => <<x, z>> \in R
    BY <2>1
  <2>3. PICK m \in S : \A x \in S : <<m, x>> \notin R
    BY <2>2, Maximal
  <2>4. ASSUME NEW x \in S
        PROVE  m <= x
    <3>1. ~ (x < m)
      BY <2>1, <2>3
    <3>2. x \in Int /\ m \in Int
      OBVIOUS
    <3> QED
      BY <3>1, <3>2
  <2> QED
    BY <2>4
<1>3. Max(S) \in S /\ \A x \in S : x <= Max(S)
  <2>1. \E m \in S : \A x \in S : m >= x
    BY <1>1
  <2> QED
    BY <2>1 DEF Max
<1>4. Min(S) \in S /\ \A x \in S : Min(S) <= x
  BY <1>2 DEF Min
<1> QED
  BY <1>3, <1>4

\* The values of a function on a finite set are finitely many.
LEMMA ImageFinite ==
  ASSUME NEW S, IsFiniteSet(S), NEW f, NEW T, \A y \in T : \E x \in S : y = f[x]
  PROVE  IsFiniteSet(T)
<1> DEFINE U == {f[x] : x \in S}
           g == [x \in S |-> f[x]]
<1>1. g \in Surjection(S, U)
  <2>1. g \in [S -> U]
    OBVIOUS
  <2>2. \A y \in U : \E x \in S : g[x] = y
    OBVIOUS
  <2> HIDE DEF U, g
  <2> QED
    BY <2>1, <2>2 DEF Surjection
<1>2. IsFiniteSet(U)
  <2> HIDE DEF U, g
  <2> QED
    BY <1>1, FS_Surjection
<1>3. T \in SUBSET U
  OBVIOUS
<1> HIDE DEF U
<1> QED
  BY <1>2, <1>3, FS_Subset

\* The fields of a report are finitely many.
LEMMA IndicesFinite ==
  ASSUME NEW fs \in Seq(Supply), NEW k, NEW P
  PROVE  /\ IsFiniteSet(IndicesOf(fs, k, P)) /\ IndicesOf(fs, k, P) \subseteq DOMAIN fs
         /\ IsFiniteSet(DOMAIN fs)
<1>1. DOMAIN fs = 1..Len(fs) /\ Len(fs) \in Nat
  OBVIOUS
<1>2. IsFiniteSet(DOMAIN fs)
  BY <1>1, FS_Interval
<1>3. IndicesOf(fs, k, P) \in SUBSET (DOMAIN fs)
  BY DEF IndicesOf
<1> QED
  BY <1>2, <1>3, FS_Subset

\* The parts of a time are integers.
LEMMA Numbers ==
  /\ Walls \subseteq Int /\ Offsets \subseteq Int /\ Fractions \subseteq Int
  /\ FileTimes \subseteq Int /\ Grains \subseteq Int
  /\ Second \in Nat /\ Second > 1 /\ Hour \in Nat /\ Tolerance \in Nat
  /\ MaxFields \in Nat /\ MaxDamaged \in Nat
  /\ Earliest \in Int /\ Horizon \in Int
<1>1. /\ Second \in Nat /\ Hour \in Nat /\ Tolerance \in Nat
      /\ MaxFields \in Nat /\ MaxDamaged \in Nat /\ Second > 1
  BY Scale
<1>2. Fractions \subseteq Int
  BY <1>1, Scale
<1>3. /\ Walls \subseteq Int /\ Offsets \subseteq Int
      /\ FileTimes \subseteq Int /\ Grains \subseteq Int
      /\ Earliest \in Int /\ Horizon \in Int
  BY Scale
<1> QED
  BY <1>1, <1>2, <1>3

\* What a field holds, by its kind.
LEMMA FieldIs ==
  ASSUME NEW fs \in Seq(Supply), NEW i \in DOMAIN fs
  PROVE  /\ fs[i] \in Supply /\ fs[i].kind \in FieldKinds /\ fs[i].place \in Scopes
         /\ fs[i].kind = "offset" => fs[i].val \in Offsets \cup Bad
         /\ fs[i].kind = "subsec" => fs[i].val \in Fractions \cup Bad
         /\ fs[i].kind \notin {"offset", "subsec"} => fs[i].val \in Walls \cup Bad
         /\ fs[i].off \in Offsets \cup {None}
         /\ fs[i].kind # "text" => fs[i].off = None
         /\ fs[i].val \in Int \cup Bad /\ fs[i].off \in Int \cup {None}
<1>1. fs[i] \in Supply
  BY ElementOfSeq
<1>2. PICK f : f = fs[i]
  OBVIOUS
<1>3. /\ f.kind \in FieldKinds /\ f.place \in Scopes
      /\ f.val \in CASE f.kind = "offset" -> Offsets \cup Bad
                     [] f.kind = "subsec" -> Fractions \cup Bad
                     [] OTHER -> Walls \cup Bad
      /\ f.off \in (IF f.kind = "text" THEN Offsets ELSE {}) \cup {None}
  BY <1>1, <1>2, Retainable
<1>4. /\ f.kind = "offset" => f.val \in Offsets \cup Bad
      /\ f.kind = "subsec" => f.val \in Fractions \cup Bad
      /\ f.kind \notin {"offset", "subsec"} => f.val \in Walls \cup Bad
  BY <1>3
<1>5. f.val \in Int \cup Bad /\ f.off \in Int \cup {None}
  BY <1>3, <1>4, Numbers
<1> QED
  BY <1>1, <1>2, <1>3, <1>4, <1>5

\* The one companion value is the value of every companion.
LEMMA OneValueIs ==
  ASSUME NEW fs, NEW I, IsFiniteSet(I)
  PROVE  /\ OneValue(fs, I) # None =>
              /\ I # {} /\ OneValue(fs, I) \notin Bad
              /\ \A i \in I : fs[i].val = OneValue(fs, I)
         /\ \A v : I # {} /\ v \notin Bad /\ (\A i \in I : fs[i].val = v)
              => OneValue(fs, I) = v
<1> DEFINE V == {fs[i].val : i \in I}
<1>1. OneValue(fs, I) = IF Cardinality(V) = 1 /\ V \cap Bad = {}
                        THEN CHOOSE v \in V : TRUE ELSE None
  BY DEF OneValue
<1>2. \A i \in I : fs[i].val \in V
  OBVIOUS
<1>3. \A v \in V : \E i \in I : v = fs[i].val
  OBVIOUS
<1>4. IsFiniteSet(V)
  <2> DEFINE f == [i \in I |-> fs[i].val]
  <2>1. \A v \in V : \E i \in I : v = f[i]
    OBVIOUS
  <2> HIDE DEF V, f
  <2> QED
    BY <2>1, ImageFinite
<1> HIDE DEF V
<1>5. ASSUME NEW v, I # {}, v \notin Bad, \A i \in I : fs[i].val = v
      PROVE  OneValue(fs, I) = v
  <2>1. V = {v}
    BY <1>2, <1>3, <1>5
  <2>2. Cardinality(V) = 1
    BY <2>1, FS_Singleton
  <2> QED
    BY <1>1, <1>5, <2>1, <2>2
<1>6. ASSUME OneValue(fs, I) # None
      PROVE  /\ I # {} /\ OneValue(fs, I) \notin Bad
             /\ \A i \in I : fs[i].val = OneValue(fs, I)
  <2>1. Cardinality(V) = 1 /\ V \cap Bad = {}
    BY <1>1, <1>6
  <2>2. PICK v : V = {v}
    BY <1>4, <2>1, FS_Singleton
  <2>3. OneValue(fs, I) = v
    BY <1>1, <2>1, <2>2
  <2> QED
    BY <1>2, <1>3, <2>1, <2>2, <2>3
<1> QED
  BY <1>5, <1>6

\* Fields disagree when two of them say different things.
LEMMA DisagreeIs ==
  ASSUME NEW fs, NEW I, IsFiniteSet(I)
  PROVE  ~Disagree(fs, I) <=>
           \A i, j \in I : fs[i].val = fs[j].val /\ fs[i].off = fs[j].off
<1> DEFINE V == {<<fs[i].val, fs[i].off>> : i \in I}
<1>1. Disagree(fs, I) <=> Cardinality(V) > 1
  BY DEF Disagree, Said
<1>2. \A i \in I : <<fs[i].val, fs[i].off>> \in V
  OBVIOUS
<1>3. \A v \in V : \E i \in I : v = <<fs[i].val, fs[i].off>>
  OBVIOUS
<1>4. IsFiniteSet(V) /\ Cardinality(V) \in Nat
  <2>1. IsFiniteSet(V)
    <3> DEFINE f == [i \in I |-> <<fs[i].val, fs[i].off>>]
    <3>1. \A v \in V : \E i \in I : v = f[i]
      OBVIOUS
    <3> HIDE DEF V, f
    <3> QED
      BY <3>1, ImageFinite
  <2> HIDE DEF V
  <2> QED
    BY <2>1, FS_CardinalityType
<1> HIDE DEF V
<1>5. ASSUME ~ (Cardinality(V) > 1), NEW i \in I, NEW j \in I
      PROVE  fs[i].val = fs[j].val /\ fs[i].off = fs[j].off
  <2>1. V # {}
    BY <1>2, <1>5
  <2>2. Cardinality(V) # 0
    BY <1>4, <2>1, FS_EmptySet
  <2>3. Cardinality(V) = 1
    BY <1>4, <1>5, <2>2
  <2>4. PICK v : V = {v}
    BY <1>4, <2>3, FS_Singleton
  <2> QED
    BY <1>2, <2>4
<1>6. ASSUME \A i, j \in I : fs[i].val = fs[j].val /\ fs[i].off = fs[j].off
      PROVE  ~ (Cardinality(V) > 1)
  <2>1. CASE I = {}
    <3>1. V = {}
      BY <1>3, <2>1
    <3> QED
      BY <3>1, FS_EmptySet
  <2>2. CASE I # {}
    <3>1. PICK i \in I : TRUE
      BY <2>2
    <3>2. V = {<<fs[i].val, fs[i].off>>}
      BY <1>2, <1>3, <1>6
    <3>3. Cardinality(V) = 1
      BY <3>2, FS_Singleton
    <3> QED
      BY <3>3
  <2> QED
    BY <2>1, <2>2
<1> QED
  BY <1>1, <1>5, <1>6

-----------------------------------------------------------------------------
(* The atoms: every date of a trusted source, and what it says.             *)

\* Where a scope keeps its original date and its companions.
Dto(fs, p)  == IndicesOf(fs, "dto", {p})
Zone(fs, p) == IndicesOf(fs, "offset", {p})
Fine(fs, p) == IndicesOf(fs, "subsec", {p})

\* What the original date w of a scope says.
DtoStamp(fs, p, w) ==
  IF OneValue(fs, Fine(fs, p)) = None
    THEN Stamp(w, OneValue(fs, Zone(fs, p)), Second, FALSE)
    ELSE Stamp(w + OneValue(fs, Fine(fs, p)), OneValue(fs, Zone(fs, p)), 1, FALSE)

\* The atom of the original date w.
DtoAtom(fs, p, w) ==
  Atom(DtoStamp(fs, p, w), "dto", SourceOf[p],
       {i \in Dto(fs, p) : fs[i].val = w} \cup (Zone(fs, p) \cup Fine(fs, p)),
       IF OneValue(fs, Zone(fs, p)) = None THEN "Medium" ELSE "High", TRUE,
       Disagree(fs, Dto(fs, p)) \/ BadCompanion(fs, p), BadCompanion(fs, p))

\* What a date that stands alone says.
SoloStamp(k, v, o) ==
  IF k = "mvhd" THEN Stamp(v, 0, Second, TRUE) ELSE Stamp(v, o, Second, FALSE)

\* The atom of a date that stands alone.
SoloAtom(fs, k, P, base, strong, v, o) ==
  Atom(SoloStamp(k, v, o), k, SourceOf[CHOOSE p \in P : TRUE],
       {i \in IndicesOf(fs, k, P) : <<fs[i].val, fs[i].off>> = <<v, o>>},
       IF Explicit(SoloStamp(k, v, o)) THEN base ELSE Lower(base), strong,
       Disagree(fs, IndicesOf(fs, k, P)), FALSE)

\* The atoms of a scope's original dates, date by date.
LEMMA OriginalIs ==
  ASSUME NEW fs, NEW p, NEW a
  PROVE  a \in OriginalAtoms(fs, p) <=>
           \E i \in Dto(fs, p) : fs[i].val \notin Bad /\ a = DtoAtom(fs, p, fs[i].val)
<1>1. OriginalAtoms(fs, p) =
        {DtoAtom(fs, p, w) : w \in {fs[i].val : i \in Dto(fs, p)} \ Bad}
  BY DEF OriginalAtoms, DtoAtom, DtoStamp, Dto, Zone, Fine
<1> QED
  BY <1>1

\* The atoms of dates that stand alone, date by date.
LEMMA SoloIs ==
  ASSUME NEW fs, NEW k, NEW P, NEW base, NEW strong, NEW a
  PROVE  a \in SimpleAtoms(fs, k, P, base, strong) <=>
           \E i \in IndicesOf(fs, k, P) :
             fs[i].val \notin Bad /\ a = SoloAtom(fs, k, P, base, strong, fs[i].val, fs[i].off)
<1> DEFINE I == IndicesOf(fs, k, P)
           V == {u \in Said(fs, I) : u[1] \notin Bad}
           Of(v) == Atom(SoloStamp(k, v[1], v[2]), k, SourceOf[CHOOSE p \in P : TRUE],
                         {i \in I : <<fs[i].val, fs[i].off>> = v},
                         IF Explicit(SoloStamp(k, v[1], v[2])) THEN base ELSE Lower(base),
                         strong, Disagree(fs, I), FALSE)
<1>1. a \in SimpleAtoms(fs, k, P, base, strong) <=> \E v \in V : a = Of(v)
  BY DEF SimpleAtoms, SoloStamp
<1>2. \A v : v \in V <=> \E i \in I : v = <<fs[i].val, fs[i].off>> /\ fs[i].val \notin Bad
  BY DEF Said
<1>3. ASSUME NEW i \in I
      PROVE  Of(<<fs[i].val, fs[i].off>>)
               = SoloAtom(fs, k, P, base, strong, fs[i].val, fs[i].off)
  BY DEF SoloAtom
<1> HIDE DEF V, Of
<1>4. a \in SimpleAtoms(fs, k, P, base, strong) <=>
        \E i \in I : fs[i].val \notin Bad /\ a = Of(<<fs[i].val, fs[i].off>>)
  BY <1>1, <1>2
<1> QED
  BY <1>3, <1>4

\* An atom comes from a trusted source: from one of its scopes, or from all
\* of them for the dates of movie boxes.
LEMMA AtomIs ==
  ASSUME NEW fs, NEW h, NEW a
  PROVE  a \in Atoms(fs, h) <=>
           \E s \in Trusted(fs, h) :
             \/ \E p \in ScopesOf(s) : \/ a \in OriginalAtoms(fs, p)
                                       \/ a \in SimpleAtoms(fs, "create", {p}, "Medium",
                                                            FALSE)
                                       \/ a \in SimpleAtoms(fs, "modify", {p}, "Low",
                                                            FALSE)
             \/ a \in SimpleAtoms(fs, "text", ScopesOf(s), "Medium", TRUE)
             \/ a \in SimpleAtoms(fs, "mvhd", ScopesOf(s), "Low", FALSE)
<1>1. ASSUME NEW s
      PROVE  a \in SourceAtoms(fs, s) <=>
               \/ \E p \in ScopesOf(s) : \/ a \in OriginalAtoms(fs, p)
                                         \/ a \in SimpleAtoms(fs, "create", {p}, "Medium",
                                                              FALSE)
                                         \/ a \in SimpleAtoms(fs, "modify", {p}, "Low",
                                                              FALSE)
               \/ a \in SimpleAtoms(fs, "text", ScopesOf(s), "Medium", TRUE)
               \/ a \in SimpleAtoms(fs, "mvhd", ScopesOf(s), "Low", FALSE)
  <2> DEFINE Here(p) == OriginalAtoms(fs, p)
             \cup SimpleAtoms(fs, "create", {p}, "Medium", FALSE)
                          \cup SimpleAtoms(fs, "modify", {p}, "Low", FALSE)
             U == UNION {Here(p) : p \in ScopesOf(s)}
             T == SimpleAtoms(fs, "text", ScopesOf(s), "Medium", TRUE)
             M == SimpleAtoms(fs, "mvhd", ScopesOf(s), "Low", FALSE)
  <2>1. SourceAtoms(fs, s) = U \cup T \cup M
    BY DEF SourceAtoms
  <2>2. a \in U <=> \E p \in ScopesOf(s) : a \in Here(p)
    OBVIOUS
  <2>3. \A p : a \in Here(p) <=> \/ a \in OriginalAtoms(fs, p)
                                \/ a \in SimpleAtoms(fs, "create", {p}, "Medium", FALSE)
                                \/ a \in SimpleAtoms(fs, "modify", {p}, "Low", FALSE)
    OBVIOUS
  <2> HIDE DEF Here, U
  <2> QED
    BY <2>1, <2>2, <2>3
<1>2. a \in Atoms(fs, h) <=> \E s \in Trusted(fs, h) : a \in SourceAtoms(fs, s)
  BY DEF Atoms
<1> QED
  BY <1>1, <1>2

\* What an atom of evidence says.
AtomRow   == [ts: Stamps, kind: DateKinds, source: Sources, obs: SUBSET Nat, base: Grades,
              strong: BOOLEAN, conflicted: BOOLEAN, bad: BOOLEAN]

\* An original date becomes a strong atom with the time, the offset, the
\* observations and the contradictions of its scope (add_exif_original_atoms).
LEMMA DtoShape ==
  ASSUME NEW fs \in Seq(Supply), NEW p \in Scopes, NEW i \in Dto(fs, p), fs[i].val \notin Bad,
         NEW a, a = DtoAtom(fs, p, fs[i].val)
  PROVE  /\ a \in AtomRow /\ a.kind = "dto" /\ a.strong /\ ~a.ts.assumed
         /\ a.source = SourceOf[p]
         /\ a.ts = DtoStamp(fs, p, fs[i].val)
         /\ a.ts.off = OneValue(fs, Zone(fs, p))
         /\ a.base = "High" => a.ts.off # None
         /\ a.obs = {j \in Dto(fs, p) : fs[j].val = fs[i].val}
              \cup (Zone(fs, p) \cup Fine(fs, p))
         /\ a.conflicted = (Disagree(fs, Dto(fs, p)) \/ BadCompanion(fs, p))
         /\ a.bad = BadCompanion(fs, p)
<1>1. PICK w, o, f, b, c : /\ w = fs[i].val /\ o = OneValue(fs, Zone(fs, p))
                           /\ f = OneValue(fs, Fine(fs, p)) /\ b = BadCompanion(fs, p)
                           /\ c = Disagree(fs, Dto(fs, p))
  OBVIOUS
<1>2. w \in Int
  <2>1. i \in DOMAIN fs /\ fs[i].kind = "dto"
    BY DEF Dto, IndicesOf
  <2> QED
    BY <1>1, <2>1, FieldIs
<1>3. o \in Int \cup {None}
  <2>1. CASE o # None
    <3>1. PICK j \in Zone(fs, p) : fs[j].val = o /\ o \notin Bad
      BY <1>1, <2>1, IndicesFinite, OneValueIs DEF Zone
    <3>2. j \in DOMAIN fs /\ fs[j].kind = "offset"
      BY DEF Zone, IndicesOf
    <3> QED
      BY <3>1, <3>2, FieldIs
  <2> QED
    BY <2>1
<1>4. f \in Int \cup {None}
  <2>1. CASE f # None
    <3>1. PICK j \in Fine(fs, p) : fs[j].val = f /\ f \notin Bad
      BY <1>1, <2>1, IndicesFinite, OneValueIs DEF Fine
    <3>2. j \in DOMAIN fs /\ fs[j].kind = "subsec"
      BY DEF Fine, IndicesOf
    <3> QED
      BY <3>1, <3>2, FieldIs
  <2> QED
    BY <2>1
<1>5. PICK t : t = DtoStamp(fs, p, w)
  OBVIOUS
<1>6. t \in Stamps /\ t.off = o /\ ~t.assumed
  <2>1. t = IF f = None THEN Stamp(w, o, Second, FALSE) ELSE Stamp(w + f, o, 1, FALSE)
    BY <1>1, <1>5 DEF DtoStamp
  <2>2. w + f \in Int \/ f = None
    BY <1>2, <1>4
  <2> QED
    BY <1>2, <1>3, <2>1, <2>2 DEF Stamp, Stamps
<1>7. PICK I, J : /\ I = {j \in Dto(fs, p) : fs[j].val = w}
                  /\ J = Zone(fs, p) \cup Fine(fs, p)
  OBVIOUS
<1>8. I \cup J \in SUBSET Nat
  <2>1. DOMAIN fs \subseteq Nat
    OBVIOUS
  <2> QED
    BY <1>7, <2>1 DEF Dto, Zone, Fine, IndicesOf
<1>9. SourceOf[p] \in Sources /\ c \in BOOLEAN /\ b \in BOOLEAN
  BY <1>1 DEF Sources, Disagree, BadCompanion
<1>10. a = Atom(t, "dto", SourceOf[p], I \cup J, IF o = None THEN "Medium"
                ELSE "High", TRUE,
                c \/ b, b)
  BY <1>1, <1>5, <1>7 DEF DtoAtom
<1>11. a = [ts |-> t, kind |-> "dto", source |-> SourceOf[p], obs |-> I \cup J,
            base |-> IF o = None THEN "Medium" ELSE "High", strong |-> TRUE,
            conflicted |-> c \/ b, bad |-> b]
  BY <1>10 DEF Atom
<1>12. a \in AtomRow
  BY <1>6, <1>8, <1>9, <1>11 DEF AtomRow, DateKinds, Grades
<1> QED
  BY <1>1, <1>5, <1>6, <1>7, <1>11, <1>12

\* A date that stands alone becomes an atom of at most medium base, strong for
\* the text form only; what the epoch of a movie header says is assumed.
LEMMA SoloShape ==
  ASSUME NEW fs \in Seq(Supply), NEW k \in {"text", "create", "modify", "mvhd"},
         NEW P \in SUBSET Scopes, NEW base \in {"Medium", "Low"},
         NEW i \in IndicesOf(fs, k, P), fs[i].val \notin Bad,
         \A p \in P : SourceOf[p] = SourceOf[fs[i].place],
         NEW a, a = SoloAtom(fs, k, P, base, k = "text", fs[i].val, fs[i].off)
  PROVE  /\ a \in AtomRow /\ a.kind = k /\ (a.strong <=> k = "text")
         /\ (a.ts.assumed <=> k = "mvhd")
         /\ a.source = SourceOf[fs[i].place]
         /\ a.ts = SoloStamp(k, fs[i].val, fs[i].off)
         /\ k # "mvhd" => a.ts.off = fs[i].off
         /\ k \in {"create", "modify"} => a.ts.off = None
         /\ a.base # "High"
         /\ a.obs = {j \in IndicesOf(fs, k, P) : fs[j].val = fs[i].val
                     /\ fs[j].off = fs[i].off}
         /\ (a.conflicted <=> Disagree(fs, IndicesOf(fs, k, P))) /\ ~a.bad
<1>1. PICK v, o, c, s, strong : /\ v = fs[i].val /\ o = fs[i].off
                                /\ s = SourceOf[fs[i].place]
                     /\ strong = (k = "text")
                     /\ c = Disagree(fs, IndicesOf(fs, k, P))
  OBVIOUS
<1>2. i \in DOMAIN fs /\ fs[i].kind = k /\ fs[i].place \in P
  BY DEF IndicesOf
<1>3. v \in Int /\ o \in Int \cup {None} /\ (k # "text" => o = None)
  BY <1>1, <1>2, FieldIs
<1>4. PICK t : t = SoloStamp(k, v, o)
  OBVIOUS
<1>5. t \in Stamps /\ t.assumed = (k = "mvhd") /\ (k # "mvhd" => t.off = o)
  <2>1. CASE k = "mvhd"
    <3>1. t = [wall |-> v, off |-> 0, prec |-> Second, assumed |-> TRUE]
      BY <1>4, <2>1 DEF SoloStamp, Stamp
    <3>2. t \in Stamps
      BY <1>3, <3>1 DEF Stamps
    <3> QED
      BY <2>1, <3>1, <3>2
  <2>2. CASE k # "mvhd"
    <3>1. t = [wall |-> v, off |-> o, prec |-> Second, assumed |-> FALSE]
      BY <1>4, <2>2 DEF SoloStamp, Stamp
    <3> QED
      BY <1>3, <2>2, <3>1 DEF Stamps
  <2> QED
    BY <2>1, <2>2
<1>6. PICK I : I = {j \in IndicesOf(fs, k, P) : <<fs[j].val, fs[j].off>> = <<v, o>>}
  OBVIOUS
<1>7. I \in SUBSET Nat /\ I = {j \in IndicesOf(fs, k, P) : fs[j].val = v /\ fs[j].off = o}
  <2>1. DOMAIN fs \subseteq Nat
    OBVIOUS
  <2> QED
    BY <1>6, <2>1 DEF IndicesOf
<1>8. SourceOf[CHOOSE p \in P : TRUE] = s /\ s \in Sources
  BY <1>1, <1>2 DEF Sources
<1>9. PICK l : l = IF Explicit(t) THEN base ELSE Lower(base)
  OBVIOUS
<1>10. l \in {"Medium", "Low"}
  BY <1>9 DEF Lower
<1>11. t \in Stamps
  BY <1>5
<1>12. I \in SUBSET Nat /\ l \in Grades /\ s \in Sources /\ k \in DateKinds
  BY <1>7, <1>8, <1>10 DEF Grades, DateKinds
<1>13. a = [ts |-> t, kind |-> k, source |-> s, obs |-> I, base |-> l, strong |-> strong,
            conflicted |-> c, bad |-> FALSE]
  BY <1>1, <1>4, <1>6, <1>8, <1>9 DEF SoloAtom, Atom
<1>14. a \in AtomRow
  <2>1. strong \in BOOLEAN /\ c \in BOOLEAN
    BY <1>1 DEF Disagree
  <2>2. \A x, y \in BOOLEAN :
          [ts |-> t, kind |-> k, source |-> s, obs |-> I, base |-> l, strong |-> x,
           conflicted |-> y, bad |-> FALSE] \in AtomRow
    BY <1>11, <1>12 DEF AtomRow
  <2> QED
    BY <1>13, <2>1, <2>2
<1>15. /\ a.ts = t /\ a.kind = k /\ a.source = s /\ a.obs = I /\ a.base = l
       /\ a.strong = strong /\ a.conflicted = c /\ a.bad = FALSE
  BY <1>13
<1>16. /\ (a.strong <=> k = "text") /\ ~a.bad
       /\ (a.conflicted <=> Disagree(fs, IndicesOf(fs, k, P)))
  BY <1>1, <1>15
<1>17. a.base # "High" /\ (k \in {"create", "modify"} => a.ts.off = None)
  BY <1>3, <1>5, <1>10, <1>15
<1> QED
  BY <1>1, <1>4, <1>5, <1>7, <1>14, <1>15, <1>16, <1>17

\* The scopes whose fields of its kind a date is compared with.
Area(f) == IF f.kind \in {"dto", "create", "modify"} THEN {f.place}
           ELSE ScopesOf(SourceOf[f.place])

\* The base of the dates that stand alone.
BaseOf   == [create |-> "Medium", modify |-> "Low", text |-> "Medium", mvhd |-> "Low"]

\* The atom of a date.
AtomOf(fs, f) ==
  IF f.kind = "dto" THEN DtoAtom(fs, f.place, f.val)
  ELSE SoloAtom(fs, f.kind, Area(f), BaseOf[f.kind], f.kind = "text", f.val, f.off)

\* The dates of trusted sources.
UsableDates(fs, h) == {i \in DOMAIN fs : /\ fs[i].kind \in DateKinds /\ fs[i].val \notin Bad
                                   /\ SourceOf[fs[i].place] \in Trusted(fs, h)}

\* A scope belongs to one source.
LEMMA ScopeIs ==
  \A p \in Scopes : /\ SourceOf[p] \in Sources
                    /\ \A s : p \in ScopesOf(s) <=> SourceOf[p] = s
  BY DEF ScopesOf, Sources

\* Every date of a trusted source is an atom, and nothing else is.
LEMMA AtomsAre ==
  ASSUME NEW fs \in Seq(Supply), NEW h, NEW a
  PROVE  a \in Atoms(fs, h) <=> \E i \in UsableDates(fs, h) : a = AtomOf(fs, fs[i])
<1>1. \A s \in Trusted(fs, h) : s \in Sources
  BY DEF Trusted
<1>2. \A i \in DOMAIN fs : fs[i].place \in Scopes
  BY FieldIs
<1>3. ASSUME NEW s \in Trusted(fs, h), NEW p \in ScopesOf(s), NEW i \in Dto(fs, p),
             fs[i].val \notin Bad, a = DtoAtom(fs, p, fs[i].val)
      PROVE  i \in UsableDates(fs, h) /\ a = AtomOf(fs, fs[i])
  BY <1>2, <1>3, ScopeIs DEF Dto, IndicesOf, UsableDates, AtomOf, DateKinds
<1>4. ASSUME NEW s \in Trusted(fs, h), NEW p \in ScopesOf(s),
             NEW k \in {"create", "modify"}, NEW i \in IndicesOf(fs, k, {p}),
             fs[i].val \notin Bad, a = SoloAtom(fs, k, {p}, BaseOf[k], FALSE, fs[i].val,
                                           fs[i].off)
      PROVE  i \in UsableDates(fs, h) /\ a = AtomOf(fs, fs[i])
  <2>1. fs[i].kind = k /\ fs[i].place = p /\ i \in DOMAIN fs
    BY DEF IndicesOf
  <2>2. Area(fs[i]) = {p} /\ (fs[i].kind = "text") = FALSE /\ fs[i].kind # "dto"
    BY <2>1 DEF Area
  <2>3. i \in UsableDates(fs, h)
    BY <1>2, <1>4, <2>1, ScopeIs DEF UsableDates, DateKinds
  <2> QED
    BY <1>4, <2>1, <2>2, <2>3 DEF AtomOf
<1>5. ASSUME NEW s \in Trusted(fs, h),
             NEW k \in {"text", "mvhd"}, NEW i \in IndicesOf(fs, k, ScopesOf(s)),
             fs[i].val \notin Bad,
             a = SoloAtom(fs, k, ScopesOf(s), BaseOf[k], k = "text", fs[i].val, fs[i].off)
      PROVE  i \in UsableDates(fs, h) /\ a = AtomOf(fs, fs[i])
  <2>1. fs[i].kind = k /\ fs[i].place \in ScopesOf(s) /\ i \in DOMAIN fs
    BY DEF IndicesOf
  <2>2. Area(fs[i]) = ScopesOf(s) /\ fs[i].kind # "dto"
    BY <1>2, <2>1, ScopeIs DEF Area
  <2>3. i \in UsableDates(fs, h)
    BY <1>2, <1>5, <2>1, ScopeIs DEF UsableDates, DateKinds
  <2> QED
    BY <1>5, <2>1, <2>2, <2>3 DEF AtomOf
<1>6. /\ BaseOf["create"] = "Medium" /\ BaseOf["modify"] = "Low"
      /\ BaseOf["text"] = "Medium" /\ BaseOf["mvhd"] = "Low"
  BY DEF BaseOf
<1>7. ASSUME a \in Atoms(fs, h)
      PROVE  \E i \in UsableDates(fs, h) : a = AtomOf(fs, fs[i])
  <2>1. PICK s \in Trusted(fs, h) :
          \/ \E p \in ScopesOf(s) : \/ a \in OriginalAtoms(fs, p)
                                    \/ a \in SimpleAtoms(fs, "create", {p}, "Medium",
                                                         FALSE)
                                    \/ a \in SimpleAtoms(fs, "modify", {p}, "Low", FALSE)
          \/ a \in SimpleAtoms(fs, "text", ScopesOf(s), "Medium", TRUE)
          \/ a \in SimpleAtoms(fs, "mvhd", ScopesOf(s), "Low", FALSE)
    BY <1>7, AtomIs
  <2>2. ASSUME NEW p \in ScopesOf(s), a \in OriginalAtoms(fs, p)
        PROVE  \E i \in UsableDates(fs, h) : a = AtomOf(fs, fs[i])
    BY <1>3, <2>2, OriginalIs
  <2>3. ASSUME NEW p \in ScopesOf(s),
               a \in SimpleAtoms(fs, "create", {p}, "Medium", FALSE)
        PROVE  \E i \in UsableDates(fs, h) : a = AtomOf(fs, fs[i])
    <3>1. PICK P, q, b : P = {p} /\ q = FALSE /\ b = "Medium"
      OBVIOUS
    <3>2. a \in SimpleAtoms(fs, "create", P, b, q)
      BY <2>3, <3>1
    <3>3. PICK i \in IndicesOf(fs, "create", P) : fs[i].val \notin Bad
            /\ a = SoloAtom(fs, "create", P, b, q, fs[i].val, fs[i].off)
      BY <3>2, SoloIs
    <3>4. i \in IndicesOf(fs, "create", {p}) /\ fs[i].val \notin Bad
          /\ a = SoloAtom(fs, "create", {p}, "Medium", FALSE, fs[i].val, fs[i].off)
      BY <3>1, <3>3
    <3> QED
      BY <1>4, <1>6, <3>4
  <2>4. ASSUME NEW p \in ScopesOf(s), a \in SimpleAtoms(fs, "modify", {p}, "Low", FALSE)
        PROVE  \E i \in UsableDates(fs, h) : a = AtomOf(fs, fs[i])
    <3>1. PICK P, q, b : P = {p} /\ q = FALSE /\ b = "Low"
      OBVIOUS
    <3>2. a \in SimpleAtoms(fs, "modify", P, b, q)
      BY <2>4, <3>1
    <3>3. PICK i \in IndicesOf(fs, "modify", P) : fs[i].val \notin Bad
            /\ a = SoloAtom(fs, "modify", P, b, q, fs[i].val, fs[i].off)
      BY <3>2, SoloIs
    <3>4. i \in IndicesOf(fs, "modify", {p}) /\ fs[i].val \notin Bad
          /\ a = SoloAtom(fs, "modify", {p}, "Low", FALSE, fs[i].val, fs[i].off)
      BY <3>1, <3>3
    <3> QED
      BY <1>4, <1>6, <3>4
  <2>5. ASSUME a \in SimpleAtoms(fs, "text", ScopesOf(s), "Medium", TRUE)
        PROVE  \E i \in UsableDates(fs, h) : a = AtomOf(fs, fs[i])
    <3>1. PICK P, q, b : P = ScopesOf(s) /\ q = TRUE /\ b = "Medium"
      OBVIOUS
    <3>2. a \in SimpleAtoms(fs, "text", P, b, q)
      BY <2>5, <3>1
    <3>3. PICK i \in IndicesOf(fs, "text", P) : fs[i].val \notin Bad
            /\ a = SoloAtom(fs, "text", P, b, q, fs[i].val, fs[i].off)
      BY <3>2, SoloIs
    <3>4. i \in IndicesOf(fs, "text", ScopesOf(s)) /\ fs[i].val \notin Bad
          /\ a = SoloAtom(fs, "text", ScopesOf(s), "Medium", TRUE, fs[i].val, fs[i].off)
      BY <3>1, <3>3
    <3>5. ("text" = "text") = TRUE
      OBVIOUS
    <3> QED
      BY <1>5, <1>6, <3>4, <3>5
  <2>6. ASSUME a \in SimpleAtoms(fs, "mvhd", ScopesOf(s), "Low", FALSE)
        PROVE  \E i \in UsableDates(fs, h) : a = AtomOf(fs, fs[i])
    <3>1. PICK P, q, b : P = ScopesOf(s) /\ q = FALSE /\ b = "Low"
      OBVIOUS
    <3>2. a \in SimpleAtoms(fs, "mvhd", P, b, q)
      BY <2>6, <3>1
    <3>3. PICK i \in IndicesOf(fs, "mvhd", P) : fs[i].val \notin Bad
            /\ a = SoloAtom(fs, "mvhd", P, b, q, fs[i].val, fs[i].off)
      BY <3>2, SoloIs
    <3>4. i \in IndicesOf(fs, "mvhd", ScopesOf(s)) /\ fs[i].val \notin Bad
          /\ a = SoloAtom(fs, "mvhd", ScopesOf(s), "Low", FALSE, fs[i].val, fs[i].off)
      BY <3>1, <3>3
    <3>5. ("mvhd" = "text") = FALSE
      OBVIOUS
    <3> QED
      BY <1>5, <1>6, <3>4, <3>5
  <2> QED
    BY <2>1, <2>2, <2>3, <2>4, <2>5, <2>6
<1>8. ASSUME NEW i \in UsableDates(fs, h), a = AtomOf(fs, fs[i])
      PROVE  a \in Atoms(fs, h)
  <2>1. PICK s, p, k : s = SourceOf[fs[i].place] /\ p = fs[i].place /\ k = fs[i].kind
    OBVIOUS
  <2>2. /\ i \in DOMAIN fs /\ s \in Trusted(fs, h) /\ p \in ScopesOf(s) /\ fs[i].val \notin Bad
        /\ k \in DateKinds
    BY <1>2, <2>1, ScopeIs DEF UsableDates
  <2>3. CASE k = "dto"
    <3>1. a \in OriginalAtoms(fs, p)
      <4>1. i \in Dto(fs, p) /\ a = DtoAtom(fs, p, fs[i].val)
        BY <1>8, <2>1, <2>2, <2>3 DEF Dto, IndicesOf, AtomOf
      <4> QED
        BY <2>2, <4>1, OriginalIs
    <3> QED
      BY <2>2, <3>1, AtomIs
  <2>4. CASE k = "create"
    <3>1. i \in IndicesOf(fs, "create", {p})
          /\ a = SoloAtom(fs, "create", {p}, "Medium", FALSE, fs[i].val, fs[i].off)
      BY <1>6, <1>8, <2>1, <2>2, <2>4 DEF IndicesOf, AtomOf, Area
    <3>2. a \in SimpleAtoms(fs, "create", {p}, "Medium", FALSE)
      BY <2>2, <3>1, SoloIs
    <3> QED
      BY <2>2, <3>2, AtomIs
  <2>5. CASE k = "modify"
    <3>1. i \in IndicesOf(fs, "modify", {p})
          /\ a = SoloAtom(fs, "modify", {p}, "Low", FALSE, fs[i].val, fs[i].off)
      BY <1>6, <1>8, <2>1, <2>2, <2>5 DEF IndicesOf, AtomOf, Area
    <3>2. a \in SimpleAtoms(fs, "modify", {p}, "Low", FALSE)
      BY <2>2, <3>1, SoloIs
    <3> QED
      BY <2>2, <3>2, AtomIs
  <2>6. CASE k = "text"
    <3>1. i \in IndicesOf(fs, "text", ScopesOf(s))
          /\ a = SoloAtom(fs, "text", ScopesOf(s), "Medium", TRUE, fs[i].val, fs[i].off)
      BY <1>6, <1>8, <2>1, <2>2, <2>6 DEF IndicesOf, AtomOf, Area
    <3>2. a \in SimpleAtoms(fs, "text", ScopesOf(s), "Medium", TRUE)
      BY <2>2, <3>1, SoloIs
    <3> QED
      BY <2>2, <3>2, AtomIs
  <2>7. CASE k = "mvhd"
    <3>1. i \in IndicesOf(fs, "mvhd", ScopesOf(s))
          /\ a = SoloAtom(fs, "mvhd", ScopesOf(s), "Low", FALSE, fs[i].val, fs[i].off)
      BY <1>6, <1>8, <2>1, <2>2, <2>7 DEF IndicesOf, AtomOf, Area
    <3>2. a \in SimpleAtoms(fs, "mvhd", ScopesOf(s), "Low", FALSE)
      BY <2>2, <3>1, SoloIs
    <3> QED
      BY <2>2, <3>2, AtomIs
  <2> QED
    BY <2>2, <2>3, <2>4, <2>5, <2>6, <2>7 DEF DateKinds
<1> QED
  BY <1>7, <1>8

\* What the atom of a date of a trusted source says: its kind, source, base and
\* time, and the fields it was read from, all of that source.
LEMMA AtomShape ==
  ASSUME NEW fs \in Seq(Supply), NEW h, NEW i \in UsableDates(fs, h),
         NEW a, a = AtomOf(fs, fs[i])
  PROVE  /\ a \in AtomRow /\ a.kind = fs[i].kind /\ a.source = SourceOf[fs[i].place]
         /\ a.source \in Trusted(fs, h)
         /\ a.strong <=> a.kind \in {"dto", "text"}
         /\ a.ts.assumed <=> a.kind = "mvhd"
         /\ a.base = "High" => a.kind = "dto" /\ a.ts.off # None
         /\ a.kind \in {"create", "modify"} => a.ts.off = None
         /\ i \in a.obs /\ a.obs \subseteq DOMAIN fs
         /\ \A j \in a.obs : SourceOf[fs[j].place] = a.source
         /\ a.kind = "dto" =>
              /\ a.ts = DtoStamp(fs, fs[i].place, fs[i].val)
              /\ a.ts.off = OneValue(fs, Zone(fs, fs[i].place))
              /\ a.conflicted <=> Disagree(fs, Dto(fs, fs[i].place)) \/ a.bad
              /\ a.bad <=> BadCompanion(fs, fs[i].place)
              /\ a.obs = {j \in Dto(fs, fs[i].place) : fs[j].val = fs[i].val}
                           \cup (Zone(fs, fs[i].place) \cup Fine(fs, fs[i].place))
         /\ a.kind # "dto" =>
              /\ a.ts = SoloStamp(a.kind, fs[i].val, fs[i].off)
              /\ a.conflicted <=> Disagree(fs, IndicesOf(fs, a.kind, Area(fs[i])))
              /\ ~a.bad
              /\ a.obs = {j \in IndicesOf(fs, a.kind, Area(fs[i])) :
                            fs[j].val = fs[i].val /\ fs[j].off = fs[i].off}
<1>1. PICK k, p, P, s : k = fs[i].kind /\ p = fs[i].place /\ P = Area(fs[i])
           /\ s = SourceOf[p]
  OBVIOUS
<1>2. i \in DOMAIN fs /\ k \in DateKinds /\ p \in Scopes /\ fs[i].val \notin Bad
      /\ s \in Trusted(fs, h)
  BY <1>1, FieldIs DEF UsableDates
<1>3. CASE k = "dto"
  <2>1. a = DtoAtom(fs, p, fs[i].val) /\ i \in Dto(fs, p)
    BY <1>1, <1>2, <1>3 DEF AtomOf, Dto, IndicesOf
  <2>2. /\ a \in AtomRow /\ a.kind = "dto" /\ a.strong /\ ~a.ts.assumed
        /\ a.source = SourceOf[p]
        /\ a.ts = DtoStamp(fs, p, fs[i].val)
        /\ a.ts.off = OneValue(fs, Zone(fs, p))
        /\ a.base = "High" => a.ts.off # None
        /\ a.obs = {j \in Dto(fs, p) : fs[j].val = fs[i].val}
             \cup (Zone(fs, p) \cup Fine(fs, p))
        /\ a.conflicted = (Disagree(fs, Dto(fs, p)) \/ BadCompanion(fs, p))
        /\ a.bad = BadCompanion(fs, p)
    BY <1>2, <2>1, DtoShape
  <2>3. i \in a.obs /\ a.obs \subseteq DOMAIN fs
        /\ \A j \in a.obs : SourceOf[fs[j].place] = a.source
    BY <2>1, <2>2 DEF Dto, Zone, Fine, IndicesOf
  <2>4. /\ a.conflicted <=> Disagree(fs, Dto(fs, p)) \/ a.bad
        /\ a.bad <=> BadCompanion(fs, p)
    BY <2>2
  <2> QED
    BY <1>1, <1>2, <1>3, <2>2, <2>3, <2>4
<1>4. CASE k # "dto"
  <2>1. PICK base : base = BaseOf[k]
    OBVIOUS
  <2>2. base \in {"Medium", "Low"} /\ k \in {"text", "create", "modify", "mvhd"}
    BY <1>2, <1>4, <2>1 DEF BaseOf, DateKinds
  <2>3. P \in SUBSET Scopes /\ \A q \in P : SourceOf[q] = SourceOf[fs[i].place]
    BY <1>1, <1>2, ScopeIs DEF Area, ScopesOf
  <2>4. p \in P
    BY <1>1, <1>2, ScopeIs DEF Area
  <2>5. a = SoloAtom(fs, k, P, base, k = "text", fs[i].val, fs[i].off)
        /\ i \in IndicesOf(fs, k, P)
    BY <1>1, <1>2, <1>4, <2>1, <2>4 DEF AtomOf, IndicesOf
  <2>6. /\ a \in AtomRow /\ a.kind = k /\ (a.strong <=> k = "text")
        /\ (a.ts.assumed <=> k = "mvhd")
        /\ a.source = SourceOf[fs[i].place]
        /\ a.ts = SoloStamp(k, fs[i].val, fs[i].off)
        /\ k # "mvhd" => a.ts.off = fs[i].off
        /\ k \in {"create", "modify"} => a.ts.off = None
        /\ a.base # "High"
        /\ a.obs = {j \in IndicesOf(fs, k, P) : fs[j].val = fs[i].val
                    /\ fs[j].off = fs[i].off}
        /\ (a.conflicted <=> Disagree(fs, IndicesOf(fs, k, P))) /\ ~a.bad
    BY <1>2, <2>2, <2>3, <2>5, SoloShape
  <2>7. i \in a.obs /\ a.obs \subseteq DOMAIN fs
        /\ \A j \in a.obs : SourceOf[fs[j].place] = a.source
    BY <2>3, <2>5, <2>6 DEF IndicesOf
  <2>8. /\ a.strong <=> a.kind \in {"dto", "text"}
        /\ a.ts.assumed <=> a.kind = "mvhd"
    BY <1>4, <2>1, <2>6
  <2>9. a.conflicted <=> Disagree(fs, IndicesOf(fs, k, P))
    BY <2>6
  <2> QED
    BY <1>1, <1>2, <1>4, <2>6, <2>7, <2>8, <2>9
<1> QED
  BY <1>3, <1>4

\* The atoms are finitely many rows.
LEMMA AtomsFinite ==
  ASSUME NEW fs \in Seq(Supply), NEW h
  PROVE  IsFiniteSet(Atoms(fs, h)) /\ Atoms(fs, h) \subseteq AtomRow
<1> DEFINE f == [i \in DOMAIN fs |-> AtomOf(fs, fs[i])]
<1>1. \A a \in Atoms(fs, h) : \E i \in DOMAIN fs : a = f[i]
  <2>1. \A i \in UsableDates(fs, h) : i \in DOMAIN fs /\ f[i] = AtomOf(fs, fs[i])
    BY DEF UsableDates
  <2> HIDE DEF f
  <2> QED
    BY <2>1, AtomsAre
<1>2. Atoms(fs, h) \subseteq AtomRow
  BY AtomsAre, AtomShape
<1>3. IsFiniteSet(DOMAIN fs)
  BY IndicesFinite
<1> HIDE DEF f
<1> QED
  BY <1>1, <1>2, <1>3, ImageFinite

-----------------------------------------------------------------------------
(* The candidates, the issues and the choice among them.                    *)

\* The times some atom reads, the candidate of one of them, and what is near it.
Times(fs, h)   == {a.ts : a \in Atoms(fs, h)}
Raw(fs, h, t)  == Candidate(t, Atoms(fs, h), Issues(fs, h))
Beside(fs, h, t) == \E u \in Times(fs, h) : Near(Raw(fs, h, t), Raw(fs, h, u))
Full(fs, h, t) == IF Beside(fs, h, t)
                    THEN [Raw(fs, h, t) EXCEPT !.gate = @ \cup {"NearValue"}]
                    ELSE Raw(fs, h, t)

\* The atoms of a time.
Mine(fs, h, t) == {a \in Atoms(fs, h) : a.ts = t}

\* Their bases.
Bases(fs, h, t) == {a.base : a \in Mine(fs, h, t)}

\* A time is one that an atom reads, and these atoms are its own.
LEMMA TimesAre ==
  ASSUME NEW fs, NEW h, NEW t
  PROVE  /\ t \in Times(fs, h) <=> \E a \in Atoms(fs, h) : a.ts = t
         /\ \A a : a \in Mine(fs, h, t) <=> a \in Atoms(fs, h) /\ a.ts = t
  BY DEF Times, Mine

\* There is one candidate for each time some atom reads.
LEMMA CandidatesAre ==
  ASSUME NEW fs, NEW h, NEW c
  PROVE  c \in Candidates(fs, h) <=> \E t \in Times(fs, h) : c = Full(fs, h, t)
<1> DEFINE all == {Raw(fs, h, t) : t \in Times(fs, h)}
           Bar(d) == IF \E e \in all : Near(d, e)
                       THEN [d EXCEPT !.gate = @ \cup {"NearValue"}] ELSE d
<1>1. Candidates(fs, h) = {Bar(d) : d \in all}
  BY DEF Candidates, Raw, Times
<1>2. \A d : d \in all <=> \E t \in Times(fs, h) : d = Raw(fs, h, t)
  OBVIOUS
<1>3. ASSUME NEW t \in Times(fs, h)
      PROVE  Bar(Raw(fs, h, t)) = Full(fs, h, t)
  <2>1. (\E e \in all : Near(Raw(fs, h, t), e)) <=> Beside(fs, h, t)
    BY DEF Beside
  <2> HIDE DEF all
  <2> QED
    BY <2>1 DEF Full
<1> HIDE DEF all, Bar
<1>4. c \in Candidates(fs, h) <=> \E d \in all : c = Bar(d)
  BY <1>1
<1> QED
  BY <1>2, <1>3, <1>4

\* What all issues together mean for every candidate.
Contrary(fs, h) == \E c \in Issues(fs, h) : MakesConflict(c)
Doubtful(fs, h) == Issues(fs, h) \cap {"InvalidField", "InvalidCompanion",
                                       "OrphanExifCompanion"} # {}

\* The reasons of a gate, apart from near values.
BarredBy(fs, h, r, x) ==
  \/ x = "ConfidenceBelowHigh" /\ r.confidence # "High"
  \/ x \in r.anomalies /\ x # "InvalidCompanion"
  \/ x = "EvidenceConflict" /\ (Contrary(fs, h) \/ r.confidence = "Conflict")
  \/ x = "InvalidEvidencePresent"
       /\ (Doubtful(fs, h) \/ "InvalidCompanion" \in r.anomalies)

\* What the candidate of a time is made of, part by part, before near values are
\* looked for.
LEMMA RawIs ==
  ASSUME NEW fs, NEW h, NEW t, NEW r, r = Raw(fs, h, t)
  PROVE  /\ DOMAIN r = {"ts", "kinds", "sources", "obs", "confidence", "anomalies",
                        "gate"}
         /\ r.ts = t
         /\ \A k : k \in r.kinds <=> \E a \in Mine(fs, h, t) : k = a.kind
         /\ \A s : s \in r.sources <=> \E a \in Mine(fs, h, t) : s = a.source
         /\ \A i : i \in r.obs <=> \E a \in Mine(fs, h, t) : i \in a.obs
         /\ \A x : x \in r.anomalies <=>
              \/ x \in Anomalies(t, r.kinds)
              \/ x = "InvalidCompanion" /\ \E a \in Mine(fs, h, t) : a.bad
         /\ r.confidence =
              IF Contrary(fs, h) \/ \E a \in Mine(fs, h, t) : a.conflicted THEN "Conflict"
              ELSE IF r.anomalies \cap {"Sentinel", "Future", "OutsideRange"} # {}
                THEN "Low" ELSE Highest(Bases(fs, h, t))
         /\ \A x : x \in r.gate <=> BarredBy(fs, h, r, x)
<1> DEFINE mine == Mine(fs, h, t)
           kinds == {a.kind : a \in mine}
           anomalies == Anomalies(t, kinds)
                          \cup (IF \E a \in mine : a.bad THEN {"InvalidCompanion"}
                                ELSE {})
           conflict == Contrary(fs, h)
           invalid == Doubtful(fs, h)
           level == IF conflict \/ \E a \in mine : a.conflicted THEN "Conflict"
                    ELSE IF anomalies \cap {"Sentinel", "Future", "OutsideRange"} # {}
                      THEN "Low" ELSE Highest({a.base : a \in mine})
<1>1. r = [ts |-> t, kinds |-> kinds, sources |-> {a.source : a \in mine},
           obs |-> UNION {a.obs : a \in mine}, confidence |-> level,
           anomalies |-> anomalies, gate |-> Blockers(level, anomalies, conflict,
                                                      invalid)]
  BY DEF Raw, Candidate, Mine, Contrary, Doubtful
<1>2. r.kinds = kinds
  BY <1>1
<1>3. r.anomalies = anomalies
  BY <1>1
<1>4. r.confidence = level
  BY <1>1
<1>5. r.gate = Blockers(level, anomalies, conflict, invalid)
  BY <1>1
<1>6. DOMAIN r = {"ts", "kinds", "sources", "obs", "confidence", "anomalies", "gate"}
      /\ r.ts = t /\ r.sources = {a.source : a \in Mine(fs, h, t)}
      /\ r.obs = UNION {a.obs : a \in Mine(fs, h, t)}
  BY <1>1
<1>7. \A x : x \in r.anomalies <=>
              \/ x \in Anomalies(t, r.kinds)
              \/ x = "InvalidCompanion" /\ \E a \in Mine(fs, h, t) : a.bad
  BY <1>2, <1>3
<1>8. r.confidence =
        IF Contrary(fs, h) \/ \E a \in Mine(fs, h, t) : a.conflicted THEN "Conflict"
        ELSE IF r.anomalies \cap {"Sentinel", "Future", "OutsideRange"} # {}
          THEN "Low" ELSE Highest(Bases(fs, h, t))
  BY <1>3, <1>4 DEF Bases
<1>9. r.gate = (IF r.confidence # "High" THEN {"ConfidenceBelowHigh"} ELSE {})
                 \cup (r.anomalies \ {"InvalidCompanion"})
                 \cup (IF Contrary(fs, h) \/ r.confidence = "Conflict"
                          THEN {"EvidenceConflict"} ELSE {})
                 \cup (IF Doubtful(fs, h) \/ "InvalidCompanion" \in r.anomalies
                          THEN {"InvalidEvidencePresent"} ELSE {})
  BY <1>3, <1>4, <1>5 DEF Blockers
<1>10. \A x : x \in r.gate <=> BarredBy(fs, h, r, x)
  BY <1>9 DEF BarredBy
<1>11. \A k : k \in r.kinds <=> \E a \in Mine(fs, h, t) : k = a.kind
  BY <1>2
<1>12. \A s : s \in r.sources <=> \E a \in Mine(fs, h, t) : s = a.source
  BY <1>6
<1>13. \A i : i \in r.obs <=> \E a \in Mine(fs, h, t) : i \in a.obs
  BY <1>6
<1> QED
  BY <1>6, <1>7, <1>8, <1>10, <1>11, <1>12, <1>13

\* A near value only adds a reason to the gate.
LEMMA FullIs ==
  ASSUME NEW fs, NEW h, NEW t, NEW c, c = Full(fs, h, t)
  PROVE  /\ c.ts = t /\ c.kinds = Raw(fs, h, t).kinds /\ c.sources = Raw(fs, h, t).sources
         /\ c.obs = Raw(fs, h, t).obs /\ c.confidence = Raw(fs, h, t).confidence
         /\ c.anomalies = Raw(fs, h, t).anomalies
         /\ c.gate = Raw(fs, h, t).gate
                       \cup (IF Beside(fs, h, t) THEN {"NearValue"} ELSE {})
<1>1. PICK r : r = Raw(fs, h, t)
  OBVIOUS
<1>2. DOMAIN r = {"ts", "kinds", "sources", "obs", "confidence", "anomalies", "gate"}
      /\ r.ts = t
  BY <1>1 DEF Raw, Candidate
<1>3. c = IF Beside(fs, h, t) THEN [r EXCEPT !.gate = @ \cup {"NearValue"}] ELSE r
  BY <1>1 DEF Full
<1>4. c.gate = r.gate \cup (IF Beside(fs, h, t) THEN {"NearValue"} ELSE {})
  BY <1>2, <1>3
<1>5. /\ c.ts = r.ts /\ c.kinds = r.kinds /\ c.sources = r.sources /\ c.obs = r.obs
      /\ c.confidence = r.confidence /\ c.anomalies = r.anomalies
  BY <1>2, <1>3
<1> QED
  BY <1>1, <1>2, <1>4, <1>5

\* A missing offset and the movie epoch are anomalies of their own.
LEMMA AnomalyIs ==
  ASSUME NEW t, NEW kinds
  PROVE  /\ "MissingOffset" \in Anomalies(t, kinds) <=> ~Explicit(t)
         /\ "EpochUncertain" \in Anomalies(t, kinds) <=> "mvhd" \in kinds
         /\ "InvalidCompanion" \notin Anomalies(t, kinds)
  BY DEF Anomalies

\* The best grade of some atoms is one of theirs.
LEMMA HighestIs ==
  ASSUME NEW S \in SUBSET Grades, S # {}
  PROVE  Highest(S) \in S /\ \A l \in S : Levels[l] <= Levels[Highest(S)]
<1>1. Levels["Low"] = 1 /\ Levels["Medium"] = 2 /\ Levels["High"] = 3
  BY DEF Levels
<1>2. \E l \in S : \A m \in S : Levels[m] <= Levels[l]
  <2>1. \A l \in S : l = "Low" \/ l = "Medium" \/ l = "High"
    BY DEF Grades
  <2>2. CASE "High" \in S
    BY <1>1, <2>1, <2>2
  <2>3. CASE "High" \notin S /\ "Medium" \in S
    BY <1>1, <2>1, <2>3
  <2>4. CASE "High" \notin S /\ "Medium" \notin S
    BY <1>1, <2>1, <2>4
  <2> QED
    BY <2>2, <2>3, <2>4
<1> QED
  BY <1>2 DEF Highest

\* An issue comes from a trusted source, from strong values or copies that differ,
\* or from a report that is damaged, of another container or holds a rejected
\* value.
LEMMA IssueIs ==
  ASSUME NEW fs, NEW h, NEW c
  PROVE  c \in Issues(fs, h) <=>
           \/ \E s \in Trusted(fs, h) : c \in SourceIssues(fs, s)
           \/ c \in StrongIssues(Atoms(fs, h))
           \/ c = "LineageConflict" /\ LineageConflict(Atoms(fs, h))
           \/ c = "ExtractionReportUntrusted" /\ h # {}
           \/ c = "ContainerFormatMismatch" /\ Mismatched(fs) # {}
           \/ c = "InvalidField" /\ \E i \in DOMAIN fs : fs[i].val \in Bad
<1> DEFINE A == UNION {SourceIssues(fs, s) : s \in Trusted(fs, h)}
           B == StrongIssues(Atoms(fs, h))
           L == IF LineageConflict(Atoms(fs, h)) THEN {"LineageConflict"} ELSE {}
           H == IF h # {} THEN {"ExtractionReportUntrusted"} ELSE {}
           M == IF Mismatched(fs) # {} THEN {"ContainerFormatMismatch"} ELSE {}
           V == IF \E i \in DOMAIN fs : fs[i].val \in Bad THEN {"InvalidField"} ELSE {}
<1>1. Issues(fs, h) = A \cup B \cup L \cup H \cup M \cup V
  BY DEF Issues
<1>2. c \in A <=> \E s \in Trusted(fs, h) : c \in SourceIssues(fs, s)
  OBVIOUS
<1>3. c \in L <=> c = "LineageConflict" /\ LineageConflict(Atoms(fs, h))
  OBVIOUS
<1>4. c \in H <=> c = "ExtractionReportUntrusted" /\ h # {}
  OBVIOUS
<1>5. c \in M <=> c = "ContainerFormatMismatch" /\ Mismatched(fs) # {}
  OBVIOUS
<1>6. c \in V <=> c = "InvalidField" /\ \E i \in DOMAIN fs : fs[i].val \in Bad
  OBVIOUS
<1>7. c \in B <=> c \in StrongIssues(Atoms(fs, h))
  OBVIOUS
<1> HIDE DEF A, B, L, H, M, V
<1> QED
  BY <1>1, <1>2, <1>3, <1>4, <1>5, <1>6, <1>7

\* A scope that contradicts itself is an issue of its source.
LEMMA ClashIsIssue ==
  ASSUME NEW fs, NEW p \in Scopes, Dto(fs, p) # {}
  PROVE  /\ Disagree(fs, Dto(fs, p)) =>
              "RepeatedFieldConflict" \in SourceIssues(fs, SourceOf[p])
         /\ BadCompanion(fs, p) => "InvalidCompanion" \in SourceIssues(fs, SourceOf[p])
<1>1. PICK P : P = ScopesOf(SourceOf[p]) /\ p \in P
  BY ScopeIs
<1>2. ASSUME Disagree(fs, Dto(fs, p))
      PROVE  "RepeatedFieldConflict" \in SourceIssues(fs, SourceOf[p])
  <2>1. <<"dto", {p}>> \in Compared(P)
    BY <1>1 DEF Compared
  <2>2. \E d \in Compared(P) : Disagree(fs, IndicesOf(fs, d[1], d[2]))
          /\ (d[1] \in {"offset", "subsec"} => IndicesOf(fs, "dto", d[2]) # {})
    <3>1. <<"dto", {p}>>[1] = "dto" /\ <<"dto", {p}>>[2] = {p}
      OBVIOUS
    <3>2. Disagree(fs, IndicesOf(fs, "dto", {p}))
      BY <1>2 DEF Dto
    <3> QED
      BY <2>1, <3>1, <3>2
  <2> QED
    BY <1>1, <2>2 DEF SourceIssues
<1>3. ASSUME BadCompanion(fs, p)
      PROVE  "InvalidCompanion" \in SourceIssues(fs, SourceOf[p])
  <2>1. \E q \in P : IndicesOf(fs, "dto", {q}) # {} /\ BadCompanion(fs, q)
    BY <1>1, <1>3 DEF Dto
  <2> QED
    BY <1>1, <2>1 DEF SourceIssues
<1> QED
  BY <1>2, <1>3

\* Reports without an issue supply every source, hold no rejected value, and
\* no scope with an original date contradicts itself.
LEMMA Flawless ==
  ASSUME NEW fs \in Seq(Supply), NEW h \in SUBSET Sources, Issues(fs, h) = {}
  PROVE  /\ h = {} /\ Trusted(fs, h) = Sources
         /\ \A i \in DOMAIN fs : fs[i].val \notin Bad
         /\ \A p \in Scopes : Dto(fs, p) # {} =>
              ~Disagree(fs, Dto(fs, p)) /\ ~BadCompanion(fs, p)
         /\ StrongIssues(Atoms(fs, h)) = {}
<1>1. h = {} /\ Mismatched(fs) = {} /\ \A i \in DOMAIN fs : fs[i].val \notin Bad
  BY IssueIs
<1>2. Trusted(fs, h) = Sources
  BY <1>1 DEF Trusted
<1>3. ASSUME NEW p \in Scopes, Dto(fs, p) # {}
      PROVE  ~Disagree(fs, Dto(fs, p)) /\ ~BadCompanion(fs, p)
  <2>1. SourceOf[p] \in Trusted(fs, h)
    BY <1>2, ScopeIs
  <2>2. SourceIssues(fs, SourceOf[p]) = {}
    BY <2>1, IssueIs
  <2> QED
    BY <1>3, <2>2, ClashIsIssue
<1>4. StrongIssues(Atoms(fs, h)) = {}
  BY IssueIs
<1> QED
  BY <1>1, <1>2, <1>3, <1>4

\* The atoms of a time are finitely many rows, and at least one.
LEMMA MineIs ==
  ASSUME NEW fs \in Seq(Supply), NEW h, NEW t \in Times(fs, h)
  PROVE  /\ Mine(fs, h, t) # {} /\ Mine(fs, h, t) \subseteq AtomRow
         /\ IsFiniteSet(Mine(fs, h, t)) /\ t \in Stamps
         /\ \A a \in Mine(fs, h, t) : \E i \in UsableDates(fs, h) : a = AtomOf(fs, fs[i])
<1>1. Mine(fs, h, t) \in SUBSET Atoms(fs, h)
  BY DEF Mine
<1>2. Mine(fs, h, t) # {}
  BY TimesAre
<1>3. IsFiniteSet(Atoms(fs, h)) /\ Atoms(fs, h) \subseteq AtomRow
  BY AtomsFinite
<1>4. t \in Stamps
  <2>1. PICK a \in Mine(fs, h, t) : TRUE
    BY <1>2
  <2>2. a \in AtomRow /\ a.ts = t
    BY <1>1, <1>3, TimesAre
  <2> QED
    BY <2>2 DEF AtomRow
<1>5. IsFiniteSet(Mine(fs, h, t))
  BY <1>1, <1>3, FS_Subset
<1> QED
  BY <1>1, <1>2, <1>3, <1>4, <1>5, AtomsAre

\* An eligible candidate stands among reports without an issue, and one of its
\* atoms is an original date with its offset.
LEMMA EligibleIs ==
  ASSUME NEW fs \in Seq(Supply), NEW h, NEW t \in Times(fs, h), NEW c, c = Full(fs, h, t),
         Eligible(c)
  PROVE  /\ Issues(fs, h) = {} /\ Explicit(t) /\ ~t.assumed /\ c.confidence = "High"
         /\ "mvhd" \notin c.kinds
         /\ \E a \in Mine(fs, h, t) : a.kind = "dto"
<1>1. PICK r : r = Raw(fs, h, t)
  OBVIOUS
<1>2. r.gate = {}
  BY <1>1, FullIs DEF Eligible
<1>3. r.confidence = "High" /\ r.anomalies = {} /\ ~Contrary(fs, h) /\ ~Doubtful(fs, h)
  <2>1. \A x : ~BarredBy(fs, h, r, x)
    BY <1>1, <1>2, RawIs
  <2>2. r.confidence = "High" /\ ~Contrary(fs, h) /\ ~Doubtful(fs, h)
        /\ "InvalidCompanion" \notin r.anomalies
    BY <2>1 DEF BarredBy
  <2>3. r.anomalies = {}
    BY <2>1, <2>2 DEF BarredBy
  <2> QED
    BY <2>2, <2>3
<1>4. Issues(fs, h) = {}
  BY <1>3 DEF MakesConflict, Contrary, Doubtful
<1>5. Explicit(t) /\ "mvhd" \notin r.kinds
  <2>1. Anomalies(t, r.kinds) = {}
    <3>1. \A x \in Anomalies(t, r.kinds) : x \in r.anomalies
      BY <1>1, RawIs
    <3> QED
      BY <1>3, <3>1
  <2> QED
    BY <2>1, AnomalyIs
<1>6. r.confidence = Highest(Bases(fs, h, t))
  BY <1>1, <1>3, RawIs
<1>7. PICK a \in Mine(fs, h, t) : a.base = "High"
  <2> DEFINE S == Bases(fs, h, t)
  <2>1. S \in SUBSET Grades /\ S # {}
    <3>1. S # {}
      BY MineIs DEF Bases
    <3>2. \A b \in Mine(fs, h, t) : b.base \in Grades
      BY MineIs DEF AtomRow
    <3> QED
      BY <3>1, <3>2 DEF Bases
  <2>2. Highest(S) \in S
    <3> HIDE DEF S
    <3> QED
      BY <2>1, HighestIs
  <2> QED
    BY <1>3, <1>6, <2>2 DEF Bases
<1>8. PICK i \in UsableDates(fs, h) : a = AtomOf(fs, fs[i])
  BY MineIs
<1>9. a.kind = "dto" /\ (a.ts.assumed <=> a.kind = "mvhd") /\ a.ts = t
  BY <1>7, <1>8, AtomShape, TimesAre
<1> QED
  BY <1>1, <1>3, <1>4, <1>5, <1>7, <1>9, FullIs

\* The first place where two rows of six numbers differ decides.
Above(x, y) == \E i \in 1..6 : x[i] > y[i] /\ \A j \in 1..(i - 1) : x[j] = y[j]

\* Rows of numbers compared in this way are strictly and totally ordered.
LEMMA AboveOrders ==
  ASSUME NEW x, NEW y, NEW z, \A i \in 1..6 : x[i] \in Int /\ y[i] \in Int /\ z[i] \in Int
  PROVE  /\ ~Above(x, x)
         /\ Above(x, y) /\ Above(y, z) => Above(x, z)
         /\ Above(x, y) \/ Above(y, x) \/ \A i \in 1..6 : x[i] = y[i]
<1>1. ~Above(x, x)
  BY DEF Above
<1>2. ASSUME Above(x, y), Above(y, z)
      PROVE  Above(x, z)
  <2>1. PICK i \in 1..6 : x[i] > y[i] /\ \A j \in 1..(i - 1) : x[j] = y[j]
    BY <1>2 DEF Above
  <2>2. PICK k \in 1..6 : y[k] > z[k] /\ \A j \in 1..(k - 1) : y[j] = z[j]
    BY <1>2 DEF Above
  <2>3. CASE i < k
    <3>1. i \in 1..(k - 1)
      BY <2>3
    <3>2. x[i] > z[i]
      BY <2>1, <2>2, <3>1
    <3>3. \A j \in 1..(i - 1) : x[j] = z[j]
      <4> TAKE j \in 1..(i - 1)
      <4>1. j \in 1..(k - 1)
        BY <2>3
      <4> QED
        BY <2>1, <2>2, <4>1
    <3> QED
      BY <3>2, <3>3 DEF Above
  <2>4. CASE k < i
    <3>1. k \in 1..(i - 1)
      BY <2>4
    <3>2. x[k] > z[k]
      BY <2>1, <2>2, <3>1
    <3>3. \A j \in 1..(k - 1) : x[j] = z[j]
      <4> TAKE j \in 1..(k - 1)
      <4>1. j \in 1..(i - 1)
        BY <2>4
      <4> QED
        BY <2>1, <2>2, <4>1
    <3> QED
      BY <3>2, <3>3 DEF Above
  <2>5. CASE i = k
    <3>1. x[i] > z[i]
      BY <2>1, <2>2, <2>5
    <3> QED
      BY <2>1, <2>2, <2>5, <3>1 DEF Above
  <2> QED
    BY <2>3, <2>4, <2>5
<1>3. ASSUME ~Above(x, y), ~Above(y, x)
      PROVE  \A i \in 1..6 : x[i] = y[i]
  <2>1. ASSUME NEW i \in 1..6, \A j \in 1..(i - 1) : x[j] = y[j]
        PROVE  x[i] = y[i]
    BY <1>3, <2>1 DEF Above
  <2>2. x[1] = y[1]
    BY <2>1
  <2>3. x[2] = y[2]
    BY <2>1, <2>2
  <2>4. x[3] = y[3]
    BY <2>1, <2>2, <2>3
  <2>5. x[4] = y[4]
    BY <2>1, <2>2, <2>3, <2>4
  <2>6. x[5] = y[5]
    BY <2>1, <2>2, <2>3, <2>4, <2>5
  <2>7. x[6] = y[6]
    BY <2>1, <2>2, <2>3, <2>4, <2>5, <2>6
  <2>8. \A i \in 1..6 : i = 1 \/ i = 2 \/ i = 3 \/ i = 4 \/ i = 5 \/ i = 6
    OBVIOUS
  <2> QED
    BY <2>2, <2>3, <2>4, <2>5, <2>6, <2>7, <2>8
<1> QED
  BY <1>1, <1>2, <1>3

\* The priority of a candidate is that of one of its kinds: the least one for a
\* movie header alone, and never for a candidate without one.
LEMMA PriorityIs ==
  ASSUME NEW c, c.kinds \in SUBSET DateKinds, c.kinds # {}
  PROVE  /\ PriorityOf(c) \in 1..5
         /\ "mvhd" \notin c.kinds => PriorityOf(c) # 1
         /\ c.kinds = {"mvhd"} => PriorityOf(c) = 1
<1>1. /\ Priority["dto"] = 5 /\ Priority["text"] = 4 /\ Priority["create"] = 3
      /\ Priority["modify"] = 2 /\ Priority["mvhd"] = 1
  BY DEF Priority
<1>2. PICK S : S = {Priority[k] : k \in c.kinds}
  OBVIOUS
<1>3. \A k \in c.kinds : Priority[k] \in 1..5 /\ (k # "mvhd" => Priority[k] # 1)
  BY <1>1 DEF DateKinds
<1>4. S \in SUBSET (0..5) /\ S # {}
  BY <1>2, <1>3
<1>5. Max(S) \in S
  BY <1>4, MaxIs
<1>6. PICK k \in c.kinds : Max(S) = Priority[k]
  BY <1>2, <1>5
<1>7. PriorityOf(c) = Priority[k]
  BY <1>2, <1>6 DEF PriorityOf
<1> QED
  BY <1>1, <1>3, <1>6, <1>7

\* A candidate has a time, kinds and a confidence; its time is assumed just when
\* all it rests on is a movie header.
LEMMA CandidateShape ==
  ASSUME NEW fs \in Seq(Supply), NEW h, NEW t \in Times(fs, h), NEW c, c = Full(fs, h, t)
  PROVE  /\ c.ts = t /\ t \in Stamps /\ c.kinds # {} /\ c.kinds \in SUBSET DateKinds
         /\ c.confidence \in {"Conflict"} \cup Grades
         /\ t.assumed <=> c.kinds = {"mvhd"}
         /\ ~t.assumed <=> "mvhd" \notin c.kinds
<1>1. PICK r : r = Raw(fs, h, t)
  OBVIOUS
<1>2. c.ts = t /\ c.kinds = r.kinds /\ c.confidence = r.confidence
  BY <1>1, FullIs
<1>3. PICK K : K = r.kinds
  OBVIOUS
<1>4. \A k : k \in K <=> \E a \in Mine(fs, h, t) : k = a.kind
  BY <1>1, <1>3, RawIs
<1>5. \A a \in Mine(fs, h, t) : a.ts = t /\ a.kind \in DateKinds /\ a.base \in Grades
                                /\ (a.ts.assumed <=> a.kind = "mvhd")
  <2> TAKE a \in Mine(fs, h, t)
  <2>1. PICK i \in UsableDates(fs, h) : a = AtomOf(fs, fs[i])
    BY MineIs
  <2>2. a \in AtomRow /\ (a.ts.assumed <=> a.kind = "mvhd")
    BY <2>1, AtomShape
  <2>3. a.ts = t
    BY TimesAre
  <2> QED
    BY <2>2, <2>3 DEF AtomRow
<1>6. Mine(fs, h, t) # {} /\ t \in Stamps
  BY MineIs
<1>7. K # {} /\ \A k \in K : k \in DateKinds
  <2>1. PICK a \in Mine(fs, h, t) : TRUE
    BY <1>6
  <2>2. a.kind \in K
    BY <1>4, <2>1
  <2>3. \A k \in K : k \in DateKinds
    BY <1>4, <1>5
  <2> QED
    BY <2>2, <2>3
<1>8. (t.assumed <=> K = {"mvhd"}) /\ (~t.assumed <=> "mvhd" \notin K)
  BY <1>4, <1>5, <1>7
<1>9. r.confidence \in {"Conflict"} \cup Grades
  <2> DEFINE S == Bases(fs, h, t)
  <2>1. S \in SUBSET Grades /\ S # {}
    BY <1>5, <1>6 DEF Bases
  <2>2. Highest(S) \in Grades
    <3> HIDE DEF S
    <3> QED
      BY <2>1, HighestIs
  <2>3. r.confidence \in {"Conflict", "Low", Highest(S)}
    <3>1. r.confidence =
            IF Contrary(fs, h) \/ \E a \in Mine(fs, h, t) : a.conflicted THEN "Conflict"
            ELSE IF r.anomalies \cap {"Sentinel", "Future", "OutsideRange"} # {}
              THEN "Low" ELSE Highest(Bases(fs, h, t))
      BY <1>1, RawIs
    <3> QED
      BY <3>1
  <2> QED
    BY <2>2, <2>3 DEF Grades
<1> QED
  BY <1>2, <1>3, <1>6, <1>7, <1>8, <1>9

\* A candidate's merits are numbers, and they tell its time.
LEMMA MeritIs ==
  ASSUME NEW fs \in Seq(Supply), NEW h, NEW t \in Times(fs, h), NEW c, c = Full(fs, h, t)
  PROVE  /\ \A i \in 1..6 : Merit(c)[i] \in Int
         /\ Merit(c)[2] = (IF Explicit(t) THEN 1 ELSE 0)
         /\ Merit(c)[3] = PriorityOf(c)
         /\ Merit(c)[4] = -t.prec /\ Merit(c)[5] = -t.wall
         /\ Explicit(t) => Merit(c)[6] = -t.off /\ t.off \in Int
         /\ t.prec \in Int /\ t.wall \in Int
<1>1. /\ c.ts = t /\ t \in Stamps /\ c.kinds # {} /\ c.kinds \in SUBSET DateKinds
      /\ c.confidence \in {"Conflict"} \cup Grades
  BY CandidateShape
<1>2. PICK p : p = PriorityOf(c)
  OBVIOUS
<1>3. p \in Int
  BY <1>1, <1>2, PriorityIs
<1>4. PICK n : n = Levels[c.confidence]
  OBVIOUS
<1>5. n \in Int
  BY <1>1, <1>4 DEF Levels, Grades
<1>6. t.wall \in Int /\ t.prec \in Int /\ (Explicit(t) => t.off \in Int)
  BY <1>1, Numbers DEF Stamps, Explicit
<1>7. PICK o : o = IF Explicit(t) THEN -t.off ELSE 0
  OBVIOUS
<1>8. o \in Int
  BY <1>6, <1>7
<1>9. PICK e : e = IF Explicit(t) THEN 1 ELSE 0
  OBVIOUS
<1>10. Merit(c) = <<n, e, p, -t.prec, -t.wall, o>> /\ e \in Int
  BY <1>1, <1>2, <1>4, <1>7, <1>9 DEF Merit
<1>11. PICK M : M = Merit(c)
  OBVIOUS
<1>12. M[1] = n /\ M[2] = e /\ M[3] = p /\ M[4] = -t.prec /\ M[5] = -t.wall /\ M[6] = o
  BY <1>10, <1>11
<1>13. -t.prec \in Int /\ -t.wall \in Int
  BY <1>6
<1>14. \A i \in 1..6 : M[i] \in Int
  <2>1. \A i \in 1..6 : i = 1 \/ i = 2 \/ i = 3 \/ i = 4 \/ i = 5 \/ i = 6
    OBVIOUS
  <2> QED
    BY <1>3, <1>5, <1>8, <1>10, <1>12, <1>13, <2>1
<1> QED
  BY <1>2, <1>6, <1>7, <1>9, <1>11, <1>12, <1>14

\* Two candidates of one answer with the same merits are one.
LEMMA MeritsTell ==
  ASSUME NEW fs \in Seq(Supply), NEW h, NEW c \in Candidates(fs, h),
         NEW d \in Candidates(fs, h),
         \A i \in 1..6 : Merit(c)[i] = Merit(d)[i]
  PROVE  c = d
<1>1. PICK t \in Times(fs, h) : c = Full(fs, h, t)
  BY CandidatesAre
<1>2. PICK u \in Times(fs, h) : d = Full(fs, h, u)
  BY CandidatesAre
<1>3. /\ Merit(c)[2] = Merit(d)[2] /\ Merit(c)[3] = Merit(d)[3]
      /\ Merit(c)[4] = Merit(d)[4]
      /\ Merit(c)[5] = Merit(d)[5] /\ Merit(c)[6] = Merit(d)[6]
  OBVIOUS
<1>4. /\ Merit(c)[2] = (IF Explicit(t) THEN 1 ELSE 0)
      /\ Merit(c)[3] = PriorityOf(c)
      /\ Merit(c)[4] = -t.prec /\ Merit(c)[5] = -t.wall
      /\ Explicit(t) => Merit(c)[6] = -t.off /\ t.off \in Int
      /\ t.prec \in Int /\ t.wall \in Int
  BY <1>1, MeritIs
<1>5. /\ Merit(d)[2] = (IF Explicit(u) THEN 1 ELSE 0)
      /\ Merit(d)[3] = PriorityOf(d)
      /\ Merit(d)[4] = -u.prec /\ Merit(d)[5] = -u.wall
      /\ Explicit(u) => Merit(d)[6] = -u.off /\ u.off \in Int
      /\ u.prec \in Int /\ u.wall \in Int
  BY <1>2, MeritIs
<1>6. t.prec = u.prec /\ t.wall = u.wall
  BY <1>3, <1>4, <1>5
<1>7. Explicit(t) <=> Explicit(u)
  BY <1>3, <1>4, <1>5
<1>8. t.off = u.off
  BY <1>3, <1>4, <1>5, <1>7 DEF Explicit
<1>9. /\ t \in Stamps /\ c.kinds # {} /\ c.kinds \in SUBSET DateKinds
      /\ t.assumed <=> c.kinds = {"mvhd"}
      /\ ~t.assumed <=> "mvhd" \notin c.kinds
  BY <1>1, CandidateShape
<1>10. /\ u \in Stamps /\ d.kinds # {} /\ d.kinds \in SUBSET DateKinds
       /\ u.assumed <=> d.kinds = {"mvhd"}
       /\ ~u.assumed <=> "mvhd" \notin d.kinds
  BY <1>2, CandidateShape
<1>11. /\ "mvhd" \notin c.kinds => PriorityOf(c) # 1
       /\ c.kinds = {"mvhd"} => PriorityOf(c) = 1
  BY <1>9, PriorityIs
<1>12. /\ "mvhd" \notin d.kinds => PriorityOf(d) # 1
       /\ d.kinds = {"mvhd"} => PriorityOf(d) = 1
  BY <1>10, PriorityIs
<1>13. t.assumed <=> u.assumed
  BY <1>3, <1>4, <1>5, <1>9, <1>10, <1>11, <1>12
<1>14. t = u
  BY <1>6, <1>8, <1>9, <1>10, <1>13 DEF Stamps
<1> QED
  BY <1>1, <1>2, <1>14

\* The candidates are finitely many.
LEMMA CandidatesFinite ==
  ASSUME NEW fs \in Seq(Supply), NEW h
  PROVE  IsFiniteSet(Candidates(fs, h))
<1> DEFINE f == [a \in Atoms(fs, h) |-> Full(fs, h, a.ts)]
<1>1. \A c \in Candidates(fs, h) : \E a \in Atoms(fs, h) : c = f[a]
  <2>1. \A a \in Atoms(fs, h) : f[a] = Full(fs, h, a.ts)
    OBVIOUS
  <2> HIDE DEF f
  <2> QED
    BY <2>1, CandidatesAre, TimesAre
<1>2. IsFiniteSet(Atoms(fs, h))
  BY AtomsFinite
<1> HIDE DEF f
<1> QED
  BY <1>1, <1>2, ImageFinite

\* Among the candidates of an answer exactly one is preferred to all others.
LEMMA BestIs ==
  ASSUME NEW fs \in Seq(Supply), NEW h, NEW D \in SUBSET Candidates(fs, h), D # {}
  PROVE  /\ Best(D) \in D /\ \A d \in D \ {Best(D)} : Preferred(Best(D), d)
         /\ \A c \in D : (\A d \in D \ {c} : Preferred(c, d)) => c = Best(D)
<1>1. \A c, d : Preferred(c, d) <=> Above(Merit(c), Merit(d))
  BY DEF Preferred, Above
<1>2. \A c \in D : \A i \in 1..6 : Merit(c)[i] \in Int
  BY CandidatesAre, MeritIs
<1>3. \A c \in D : ~Preferred(c, c)
  BY <1>1, <1>2, AboveOrders
<1>4. \A c, d, e \in D : Preferred(c, d) /\ Preferred(d, e) => Preferred(c, e)
  BY <1>1, <1>2, AboveOrders
<1>5. \A c, d \in D : Preferred(c, d) \/ Preferred(d, c) \/ c = d
  <2> TAKE c, d \in D
  <2>1. Above(Merit(c), Merit(d)) \/ Above(Merit(d), Merit(c))
          \/ \A i \in 1..6 : Merit(c)[i] = Merit(d)[i]
    BY <1>2, AboveOrders
  <2> QED
    BY <1>1, <2>1, MeritsTell
<1> DEFINE R == {r \in D \X D : Preferred(r[2], r[1])}
<1>6. \A c, d \in D : <<c, d>> \in R <=> Preferred(d, c)
  OBVIOUS
<1>7. IsFiniteSet(D)
  BY CandidatesFinite, FS_Subset
<1> HIDE DEF R
<1>8. /\ \A c \in D : <<c, c>> \notin R
      /\ \A x, y, z \in D : <<x, y>> \in R /\ <<y, z>> \in R => <<x, z>> \in R
  BY <1>3, <1>4, <1>6
<1>9. PICK m \in D : \A d \in D : <<m, d>> \notin R
  BY <1>7, <1>8, Maximal
<1>10. \A d \in D \ {m} : Preferred(m, d)
  BY <1>5, <1>6, <1>9
<1>11. \E c \in D : \A d \in D \ {c} : Preferred(c, d)
  BY <1>10
<1>12. Best(D) \in D /\ \A d \in D \ {Best(D)} : Preferred(Best(D), d)
  BY <1>11 DEF Best
<1>13. ASSUME NEW c \in D, \A d \in D \ {c} : Preferred(c, d)
       PROVE  c = Best(D)
  <2>1. CASE c # Best(D)
    <3>1. Preferred(c, Best(D)) /\ Preferred(Best(D), c)
      BY <1>12, <1>13, <2>1
    <3> QED
      BY <1>3, <1>4, <1>12, <3>1
  <2> QED
    BY <2>1
<1> QED
  BY <1>12, <1>13

-----------------------------------------------------------------------------
(* Eligible evidence is unanimous.                                          *)

\* The wall time and the instant of a stamp are numbers.
LEMMA StampIs ==
  ASSUME NEW t \in Stamps
  PROVE  t.wall \in Int /\ (Explicit(t) => t.off \in Int /\ Instant(t) \in Int)
<1>1. t.wall \in Int /\ (Explicit(t) => t.off \in Int)
  BY DEF Stamps, Explicit
<1>2. ASSUME Explicit(t)
      PROVE  Instant(t) \in Int
  <2>1. t.off \in Int /\ Hour \in Int
    BY <1>1, <1>2, Numbers
  <2>2. t.off * Hour \in Int
    BY <2>1
  <2> QED
    BY <1>1, <2>2 DEF Instant
<1> QED
  BY <1>1, <1>2

\* Without an issue of the strong atoms no two of them are further apart than
\* the tolerance: explicit ones as instants, a floating one as a wall time.
LEMMA Spread ==
  ASSUME NEW A \in SUBSET AtomRow, IsFiniteSet(A), StrongIssues(A) = {},
         NEW a \in A, NEW b \in A, a.strong, b.strong
  PROVE  /\ Explicit(a.ts) /\ Explicit(b.ts)
              => Abs(Instant(a.ts) - Instant(b.ts)) <= Tolerance
         /\ ~Explicit(a.ts) => Abs(a.ts.wall - b.ts.wall) <= Tolerance
<1> DEFINE strong == {x.ts : x \in {y \in A : y.strong}}
           instants == {Instant(t) : t \in {u \in strong : Explicit(u)}}
           floating == {t \in strong : ~Explicit(t)}
           walls == {t.wall : t \in strong}
           I == IF instants = {} THEN {} ELSE {Max(instants) - Min(instants)}
           F == {Max({t.wall - Min(walls), Max(walls) - t.wall}) : t \in floating}
<1>1. StrongDistances(A) = I \cup F
  BY DEF StrongDistances
<1>2. \A e \in StrongDistances(A) : ~ (e > Tolerance)
  BY DEF StrongIssues
<1>3. a.ts \in strong /\ b.ts \in strong
  OBVIOUS
<1>4. \A t \in strong : t \in Stamps /\ \E x \in A : t = x.ts
  BY DEF AtomRow
<1>5. IsFiniteSet(strong)
  <2> DEFINE f == [x \in A |-> x.ts]
  <2>1. \A t \in strong : \E x \in A : t = f[x]
    BY <1>4
  <2> HIDE DEF strong, f
  <2> QED
    BY <2>1, ImageFinite
<1>6. instants \in SUBSET Int /\ IsFiniteSet(instants)
  <2> DEFINE f == [t \in strong |-> Instant(t)]
  <2>1. \A n \in instants : \E t \in strong : n = f[t]
    OBVIOUS
  <2>2. \A n \in instants : n \in Int
    BY <1>4, StampIs
  <2> HIDE DEF strong, instants, f
  <2> QED
    BY <1>5, <2>1, <2>2, ImageFinite
<1>7. walls \in SUBSET Int /\ IsFiniteSet(walls)
  <2> DEFINE f == [t \in strong |-> t.wall]
  <2>1. \A n \in walls : \E t \in strong : n = f[t]
    OBVIOUS
  <2>2. \A n \in walls : n \in Int
    BY <1>4, StampIs
  <2> HIDE DEF strong, walls, f
  <2> QED
    BY <1>5, <2>1, <2>2, ImageFinite
<1>8. \A t \in strong : t.wall \in walls /\ (Explicit(t) => Instant(t) \in instants)
  OBVIOUS
<1>9. \A t \in strong : ~Explicit(t) =>
        Max({t.wall - Min(walls), Max(walls) - t.wall}) \in F
  OBVIOUS
<1>10. instants # {} => Max(instants) - Min(instants) \in I
  OBVIOUS
<1> HIDE DEF strong, instants, floating, walls, I, F
<1>11. ASSUME Explicit(a.ts), Explicit(b.ts)
       PROVE  Abs(Instant(a.ts) - Instant(b.ts)) <= Tolerance
  <2>1. PICK x, y : x = Instant(a.ts) /\ y = Instant(b.ts) /\ x \in instants
             /\ y \in instants
    BY <1>3, <1>8, <1>11
  <2>2. PICK m, n : m = Max(instants) /\ n = Min(instants)
    OBVIOUS
  <2>3. /\ m \in Int /\ n \in Int /\ x \in Int /\ y \in Int
        /\ x <= m /\ y <= m /\ n <= x /\ n <= y
    BY <1>6, <2>1, <2>2, Extrema
  <2>4. ~ (m - n > Tolerance)
    BY <1>1, <1>2, <1>10, <2>1, <2>2
  <2>5. Tolerance \in Int
    BY Numbers
  <2>6. Abs(x - y) <= Tolerance
    BY <2>3, <2>4, <2>5 DEF Abs
  <2> QED
    BY <2>1, <2>6
<1>12. ASSUME ~Explicit(a.ts)
       PROVE  Abs(a.ts.wall - b.ts.wall) <= Tolerance
  <2>1. PICK x, y : x = a.ts.wall /\ y = b.ts.wall /\ x \in walls /\ y \in walls
    BY <1>3, <1>8
  <2>2. PICK m, n : m = Max(walls) /\ n = Min(walls)
    OBVIOUS
  <2>3. /\ m \in Int /\ n \in Int /\ x \in Int /\ y \in Int
        /\ x <= m /\ y <= m /\ n <= x /\ n <= y
    BY <1>7, <2>1, <2>2, Extrema
  <2>4. PICK S : S = {x - n, m - x}
    OBVIOUS
  <2>5. ~ (Max(S) > Tolerance)
    BY <1>1, <1>2, <1>3, <1>9, <1>12, <2>1, <2>2, <2>4
  <2>6. S \in SUBSET Int /\ S # {} /\ IsFiniteSet(S)
    <3>1. IsFiniteSet({x - n, m - x})
      <4>1. IsFiniteSet({x - n}) /\ IsFiniteSet({m - x})
        BY FS_Singleton
      <4>2. {x - n, m - x} = {x - n} \cup {m - x}
        OBVIOUS
      <4> QED
        BY <4>1, <4>2, FS_Union
    <3> QED
      BY <2>3, <2>4, <3>1
  <2>7. Max(S) \in S /\ \A z \in S : z <= Max(S)
    BY <2>6, Extrema
  <2>8. Max(S) \in Int /\ x - n <= Max(S) /\ m - x <= Max(S)
    BY <2>4, <2>6, <2>7
  <2>9. Tolerance \in Int
    BY Numbers
  <2>10. Abs(x - y) <= Tolerance
    BY <2>3, <2>5, <2>8, <2>9 DEF Abs
  <2> QED
    BY <2>1, <2>10
<1> QED
  BY <1>11, <1>12

\* A companion that is present is not ignored unless the scope is contradictory.
LEMMA CompanionIs ==
  ASSUME NEW fs \in Seq(Supply), NEW p, ~BadCompanion(fs, p)
  PROVE  /\ Zone(fs, p) = {} <=> OneValue(fs, Zone(fs, p)) = None
         /\ Fine(fs, p) = {} <=> OneValue(fs, Fine(fs, p)) = None
         /\ \A i \in Zone(fs, p) : fs[i].val = OneValue(fs, Zone(fs, p))
         /\ \A i \in Fine(fs, p) : fs[i].val = OneValue(fs, Fine(fs, p))
<1>1. /\ Zone(fs, p) # {} => OneValue(fs, Zone(fs, p)) # None
      /\ Fine(fs, p) # {} => OneValue(fs, Fine(fs, p)) # None
  BY DEF BadCompanion, Zone, Fine
<1>2. IsFiniteSet(Zone(fs, p)) /\ IsFiniteSet(Fine(fs, p))
  BY IndicesFinite DEF Zone, Fine
<1>3. /\ OneValue(fs, Zone(fs, p)) # None => Zone(fs, p) # {}
      /\ OneValue(fs, Fine(fs, p)) # None => Fine(fs, p) # {}
  BY <1>2, OneValueIs
<1> QED
  BY <1>1, <1>2, <1>3, OneValueIs

\* What the strong fields of a report say (StrongReadings of it).
Here(fs, k, p) == {fs[i].val : i \in IndicesOf(fs, k, {p})}
WallsOf(fs, w, p) == IF Here(fs, "subsec", p) = {} THEN {w}
                     ELSE {w + f : f \in Here(fs, "subsec", p)}
OffsetsOf(fs, p) == IF Here(fs, "offset", p) = {} THEN {None} ELSE Here(fs, "offset", p)

\* A strong reading is an original date with what its scope adds to it, or the
\* text form of a movie's date.
LEMMA ReadingIs ==
  ASSUME NEW r
  PROVE  r \in StrongReadings <=>
           \/ \E p \in Scopes : \E w \in Here(fields, "dto", p) :
                \E x \in WallsOf(fields, w, p), o \in OffsetsOf(fields, p) : r = <<x, o>>
           \/ \E i \in IndicesOf(fields, "text", Scopes) :
                r = <<fields[i].val, fields[i].off>>
<1> DEFINE Pairs(w, p) == {<<x, o>> :
                           x \in WallsOf(fields, w, p), o \in OffsetsOf(fields, p)}
           Of(p) == UNION {Pairs(w, p) : w \in Here(fields, "dto", p)}
           D == UNION {Of(p) : p \in Scopes}
           T == Said(fields, IndicesOf(fields, "text", Scopes))
<1>1. StrongReadings = D \cup T
  BY DEF StrongReadings, Here, WallsOf, OffsetsOf
<1>2. r \in T <=> \E i \in IndicesOf(fields, "text", Scopes) :
      r = <<fields[i].val, fields[i].off>>
  BY DEF Said
<1>3. \A w, p : r \in Pairs(w, p) <=>
        \E x \in WallsOf(fields, w, p), o \in OffsetsOf(fields, p) : r = <<x, o>>
  OBVIOUS
<1> HIDE DEF T, Pairs
<1>4. \A p : r \in Of(p) <=> \E w \in Here(fields, "dto", p) : r \in Pairs(w, p)
  OBVIOUS
<1> HIDE DEF Of
<1>5. r \in D <=> \E p \in Scopes : r \in Of(p)
  OBVIOUS
<1> HIDE DEF D
<1> QED
  BY <1>1, <1>2, <1>3, <1>4, <1>5

\* What a scope holds of a kind, field by field.
LEMMA HereIs ==
  ASSUME NEW fs, NEW k, NEW p
  PROVE  /\ \A v : v \in Here(fs, k, p) <=> \E i \in IndicesOf(fs, k, {p}) : v = fs[i].val
         /\ Here(fs, k, p) = {} <=> IndicesOf(fs, k, {p}) = {}
<1>1. \A v : v \in Here(fs, k, p) <=> \E i \in IndicesOf(fs, k, {p}) : v = fs[i].val
  BY DEF Here
<1> QED
  BY <1>1

\* A wall time and its subsecond.
Later(w, f) == w + f

\* What the stamp of an original date is made of, in a scope that does not
\* contradict itself.
LEMMA DtoStampIs ==
  ASSUME NEW fs \in Seq(Supply), NEW p, ~BadCompanion(fs, p), NEW w
  PROVE  DtoStamp(fs, p, w) =
           IF Fine(fs, p) = {} THEN Stamp(w, OneValue(fs, Zone(fs, p)), Second, FALSE)
           ELSE Stamp(Later(w, OneValue(fs, Fine(fs, p))),
                      OneValue(fs, Zone(fs, p)), 1, FALSE)
<1>1. Fine(fs, p) = {} <=> OneValue(fs, Fine(fs, p)) = None
  BY CompanionIs
<1> QED
  BY <1>1 DEF DtoStamp, Later

\* Every strong reading of reports without an issue is that of a strong atom.
LEMMA ReadingsAreAtoms ==
  ASSUME fields \in Seq(Supply), damaged \in SUBSET Sources, Issues(fields, damaged) = {},
         NEW r \in StrongReadings
  PROVE  \E a \in Atoms(fields, damaged) : a.strong /\ r = <<a.ts.wall, a.ts.off>>
<1>1. /\ Trusted(fields, damaged) = Sources
      /\ \A i \in DOMAIN fields : fields[i].val \notin Bad
      /\ \A p \in Scopes : Dto(fields, p) # {} => ~BadCompanion(fields, p)
  BY Flawless
<1>2. \A i \in DOMAIN fields : fields[i].kind \in DateKinds
      => i \in UsableDates(fields, damaged)
  BY <1>1, FieldIs, ScopeIs DEF UsableDates
<1>3. CASE \E p \in Scopes : \E w \in Here(fields, "dto", p) :
             \E x \in WallsOf(fields, w, p), o \in OffsetsOf(fields, p) : r = <<x, o>>
  <2>1. PICK p \in Scopes : \E w \in Here(fields, "dto", p) :
               \E x \in WallsOf(fields, w, p), o \in OffsetsOf(fields, p) : r = <<x, o>>
    BY <1>3
  <2>2. PICK w \in Here(fields, "dto", p) :
               \E x \in WallsOf(fields, w, p), o \in OffsetsOf(fields, p) : r = <<x, o>>
    BY <2>1
  <2>3. PICK x \in WallsOf(fields, w, p), o \in OffsetsOf(fields, p) : r = <<x, o>>
    BY <2>2
  <2>4. PICK i \in Dto(fields, p) : w = fields[i].val
    BY HereIs DEF Dto
  <2>5. ~BadCompanion(fields, p)
    BY <1>1, <2>4
  <2>6. i \in DOMAIN fields /\ fields[i].kind = "dto" /\ fields[i].place = p
    BY <2>4 DEF Dto, IndicesOf
  <2>7. i \in UsableDates(fields, damaged)
    BY <1>2, <2>6 DEF DateKinds
  <2>8. PICK a : a = AtomOf(fields, fields[i])
    OBVIOUS
  <2>9. a \in Atoms(fields, damaged)
    BY <2>7, <2>8, AtomsAre
  <2>10. a.kind = "dto" /\ a.strong /\ a.ts = DtoStamp(fields, p, w)
    BY <2>4, <2>6, <2>7, <2>8, AtomShape
  <2>11. PICK t : t = a.ts
    OBVIOUS
  <2>12. /\ t.off = OneValue(fields, Zone(fields, p))
         /\ Fine(fields, p) = {} => t.wall = w
         /\ Fine(fields, p) # {} => t.wall = Later(w, OneValue(fields, Fine(fields, p)))
    <3>1. t = IF Fine(fields, p) = {}
                THEN Stamp(w, OneValue(fields, Zone(fields, p)), Second, FALSE)
                ELSE Stamp(Later(w, OneValue(fields, Fine(fields, p))),
                           OneValue(fields, Zone(fields, p)), 1, FALSE)
      BY <2>5, <2>10, <2>11, DtoStampIs
    <3> QED
      BY <3>1 DEF Stamp
  <2>13. o = t.off
    <3>1. CASE Here(fields, "offset", p) = {}
      <4>1. Zone(fields, p) = {}
        BY <3>1, HereIs DEF Zone
      <4>2. OneValue(fields, Zone(fields, p)) = None
        BY <2>5, <4>1, CompanionIs
      <4> QED
        BY <2>3, <2>12, <3>1, <4>2 DEF OffsetsOf
    <3>2. CASE Here(fields, "offset", p) # {}
      <4>1. o \in Here(fields, "offset", p)
        BY <2>3, <3>2 DEF OffsetsOf
      <4>2. PICK j \in Zone(fields, p) : o = fields[j].val
        BY <4>1, HereIs DEF Zone
      <4> QED
        BY <2>5, <2>12, <4>2, CompanionIs
    <3> QED
      BY <3>1, <3>2
  <2>14. x = t.wall
    <3>1. CASE Here(fields, "subsec", p) = {}
      <4>1. Fine(fields, p) = {}
        BY <3>1, HereIs DEF Fine
      <4> QED
        BY <2>3, <2>12, <3>1, <4>1 DEF WallsOf
    <3>2. CASE Here(fields, "subsec", p) # {}
      <4>1. PICK f \in Here(fields, "subsec", p) : x = w + f
        BY <2>3, <3>2 DEF WallsOf
      <4>2. PICK j \in Fine(fields, p) : f = fields[j].val
        BY <4>1, HereIs DEF Fine
      <4>3. f = OneValue(fields, Fine(fields, p))
        BY <2>5, <4>2, CompanionIs
      <4> QED
        BY <2>12, <4>1, <4>2, <4>3 DEF Later
    <3> QED
      BY <3>1, <3>2
  <2> QED
    BY <2>3, <2>9, <2>10, <2>11, <2>13, <2>14
<1>4. CASE \E i \in IndicesOf(fields, "text", Scopes) :
           r = <<fields[i].val, fields[i].off>>
  <2>1. PICK i \in IndicesOf(fields, "text", Scopes) :
             r = <<fields[i].val, fields[i].off>>
    BY <1>4
  <2>2. i \in DOMAIN fields /\ fields[i].kind = "text"
    BY DEF IndicesOf
  <2>3. i \in UsableDates(fields, damaged)
    BY <1>2, <2>2 DEF DateKinds
  <2>4. PICK a : a = AtomOf(fields, fields[i])
    OBVIOUS
  <2>5. a \in Atoms(fields, damaged)
    BY <2>3, <2>4, AtomsAre
  <2>6. a.kind = "text" /\ a.strong
        /\ a.ts = SoloStamp("text", fields[i].val, fields[i].off)
    BY <2>2, <2>3, <2>4, AtomShape
  <2>7. a.ts.wall = fields[i].val /\ a.ts.off = fields[i].off
    BY <2>6 DEF SoloStamp, Stamp
  <2> QED
    BY <2>1, <2>5, <2>6, <2>7
<1> QED
  BY <1>3, <1>4, ReadingIs

\* An original date with its offset is a strong reading.
LEMMA DtoIsReading ==
  ASSUME fields \in Seq(Supply), damaged \in SUBSET Sources, Issues(fields, damaged) = {},
         NEW a \in Atoms(fields, damaged), a.kind = "dto", Explicit(a.ts)
  PROVE  <<a.ts.wall, a.ts.off>> \in StrongReadings
<1>1. PICK i \in UsableDates(fields, damaged) : a = AtomOf(fields, fields[i])
  BY AtomsAre
<1>2. PICK p, w : p = fields[i].place /\ w = fields[i].val
  OBVIOUS
<1>3. fields[i].kind = "dto" /\ i \in DOMAIN fields /\ a.ts = DtoStamp(fields, p, w)
      /\ p \in Scopes
  BY <1>1, <1>2, AtomShape, FieldIs DEF UsableDates
<1>4. i \in Dto(fields, p)
  BY <1>2, <1>3 DEF Dto, IndicesOf
<1>5. ~BadCompanion(fields, p)
  BY <1>3, <1>4, Flawless
<1>6. PICK t : t = a.ts
  OBVIOUS
<1>7. /\ t.off = OneValue(fields, Zone(fields, p))
      /\ Fine(fields, p) = {} => t.wall = w
      /\ Fine(fields, p) # {} => t.wall = Later(w, OneValue(fields, Fine(fields, p)))
  <2>1. t = IF Fine(fields, p) = {}
              THEN Stamp(w, OneValue(fields, Zone(fields, p)), Second, FALSE)
              ELSE Stamp(Later(w, OneValue(fields, Fine(fields, p))),
                         OneValue(fields, Zone(fields, p)), 1, FALSE)
    BY <1>3, <1>5, <1>6, DtoStampIs
  <2> QED
    BY <2>1 DEF Stamp
<1>8. w \in Here(fields, "dto", p)
  BY <1>2, <1>4, HereIs DEF Dto
<1>9. t.off \in OffsetsOf(fields, p)
  <2>1. t.off # None
    BY <1>6 DEF Explicit
  <2>2. PICK j \in Zone(fields, p) : TRUE
    BY <1>5, <1>7, <2>1, CompanionIs
  <2>3. fields[j].val = t.off
    BY <1>5, <1>7, <2>2, CompanionIs
  <2>4. t.off \in Here(fields, "offset", p)
    BY <2>2, <2>3, HereIs DEF Zone
  <2> QED
    BY <2>4 DEF OffsetsOf
<1>10. t.wall \in WallsOf(fields, w, p)
  <2>1. CASE Fine(fields, p) = {}
    <3>1. Here(fields, "subsec", p) = {}
      BY <2>1, HereIs DEF Fine
    <3> QED
      BY <1>7, <2>1, <3>1 DEF WallsOf
  <2>2. CASE Fine(fields, p) # {}
    <3>1. PICK j \in Fine(fields, p) : TRUE
      BY <2>2
    <3>2. fields[j].val = OneValue(fields, Fine(fields, p))
      BY <1>5, <3>1, CompanionIs
    <3>3. fields[j].val \in Here(fields, "subsec", p)
      BY <3>1, HereIs DEF Fine
    <3> QED
      BY <1>7, <2>2, <3>2, <3>3 DEF WallsOf, Later
  <2> QED
    BY <2>1, <2>2
<1> QED
  BY <1>3, <1>6, <1>8, <1>9, <1>10, ReadingIs

\* The decision and the selected candidate, case by case.
LEMMA AnalyzeIs ==
  ASSUME NEW fs, NEW h, NEW n, n = Analyze(fs, h)
  PROVE  /\ DOMAIN n = {"decision", "selected", "candidates"}
         /\ n.candidates = Candidates(fs, h)
         /\ Contrary(fs, h) => n.decision = "Conflict" /\ n.selected = None
         /\ ~Contrary(fs, h) /\ Candidates(fs, h) = {} =>
              n.decision = "NoUsableEvidence" /\ n.selected = None
         /\ ~Contrary(fs, h) /\ {c \in Candidates(fs, h) : Eligible(c)} # {} =>
              /\ n.decision = "EvidenceEligible"
              /\ n.selected = Best({c \in Candidates(fs, h) : Eligible(c)})
         /\ ~Contrary(fs, h) /\ Candidates(fs, h) # {}
            /\ {c \in Candidates(fs, h) : Eligible(c)} = {} =>
              n.decision = "ReviewRequired" /\ n.selected = Best(Candidates(fs, h))
<1> DEFINE C == Candidates(fs, h)
           fit == {c \in C : Eligible(c)}
           Answer(d, c) == [decision |-> d, selected |-> c, candidates |-> C]
<1>1. n = IF Contrary(fs, h) THEN Answer("Conflict", None)
          ELSE IF C = {} THEN Answer("NoUsableEvidence", None)
          ELSE IF fit # {} THEN Answer("EvidenceEligible", Best(fit))
          ELSE Answer("ReviewRequired", Best(C))
  BY DEF Analyze, Contrary
<1>2. \A d, c : /\ Answer(d, c).decision = d /\ Answer(d, c).selected = c
                /\ Answer(d, c).candidates = C
                /\ DOMAIN Answer(d, c) = {"decision", "selected", "candidates"}
  OBVIOUS
<1>3. fit # {} => C # {}
  OBVIOUS
<1>4. \A c : c \in fit <=> c \in C /\ Eligible(c)
  OBVIOUS
<1> HIDE DEF Answer, C, fit
<1>5. /\ DOMAIN n = {"decision", "selected", "candidates"}
      /\ n.candidates = C
      /\ Contrary(fs, h) => n.decision = "Conflict" /\ n.selected = None
      /\ ~Contrary(fs, h) /\ C = {}
           => n.decision = "NoUsableEvidence" /\ n.selected = None
      /\ ~Contrary(fs, h) /\ fit # {}
           => n.decision = "EvidenceEligible" /\ n.selected = Best(fit)
      /\ ~Contrary(fs, h) /\ C # {} /\ fit = {} =>
              n.decision = "ReviewRequired" /\ n.selected = Best(C)
  BY <1>1, <1>2, <1>3
<1> QED
  BY <1>5 DEF C, fit

\* What is selected is among the candidates.
LEMMA SelectedIs ==
  ASSUME NEW fs \in Seq(Supply), NEW h, NEW n, n = Analyze(fs, h)
  PROVE  /\ n.decision \in {"Conflict", "NoUsableEvidence"} => n.selected = None
         /\ n.decision \notin {"Conflict", "NoUsableEvidence"} =>
              n.selected \in Candidates(fs, h)
         /\ n.decision = "EvidenceEligible" => Eligible(n.selected)
<1>1. PICK C, fit : C = Candidates(fs, h) /\ fit = {c \in C : Eligible(c)}
  OBVIOUS
<1>2. /\ Contrary(fs, h) => n.decision = "Conflict" /\ n.selected = None
      /\ ~Contrary(fs, h) /\ C = {}
           => n.decision = "NoUsableEvidence" /\ n.selected = None
      /\ ~Contrary(fs, h) /\ fit # {}
           => n.decision = "EvidenceEligible" /\ n.selected = Best(fit)
      /\ ~Contrary(fs, h) /\ C # {} /\ fit = {} =>
              n.decision = "ReviewRequired" /\ n.selected = Best(C)
  BY <1>1, AnalyzeIs
<1>3. fit \in SUBSET C /\ \A c \in fit : Eligible(c)
  BY <1>1
<1>4. fit # {} => Best(fit) \in fit
  BY <1>1, <1>3, BestIs
<1>5. C # {} => Best(C) \in C
  BY <1>1, BestIs
<1> QED
  BY <1>1, <1>2, <1>3, <1>4, <1>5

\* An eligible decision has no issue against it, so that its value and all strong
\* readings are those of atoms within the tolerance of each other.
LEMMA Unanimous ==
  ASSUME fields \in Seq(Supply), damaged \in SUBSET Sources,
         analysis = Analyze(fields, damaged)
  PROVE  EligibleIsUnanimous
<1> SUFFICES ASSUME analysis.decision = "EvidenceEligible"
             PROVE  LET t == analysis.selected.ts
                    IN /\ damaged = {} /\ \A i \in DOMAIN fields : fields[i].val \notin Bad
                       /\ <<t.wall, t.off>> \in StrongReadings
                       /\ \A r \in StrongReadings :
                            IF r[2] = None THEN Abs(r[1] - t.wall) <= Tolerance
                            ELSE Abs(r[1] - r[2] * Hour - Instant(t)) <= Tolerance
  BY DEF EligibleIsUnanimous
<1>1. PICK c, t : c = analysis.selected /\ t = c.ts
  OBVIOUS
<1>2. c \in Candidates(fields, damaged) /\ Eligible(c)
  BY <1>1, SelectedIs
<1>3. t \in Times(fields, damaged) /\ c = Full(fields, damaged, t)
  BY <1>1, <1>2, CandidatesAre, FullIs
<1>4. /\ Issues(fields, damaged) = {} /\ Explicit(t)
      /\ \E a \in Mine(fields, damaged, t) : a.kind = "dto"
  BY <1>2, <1>3, EligibleIs
<1>5. damaged = {} /\ (\A i \in DOMAIN fields : fields[i].val \notin Bad)
      /\ StrongIssues(Atoms(fields, damaged)) = {}
  BY <1>4, Flawless
<1>6. PICK a \in Atoms(fields, damaged) : a.kind = "dto" /\ a.ts = t
  BY <1>4, TimesAre
<1>7. <<t.wall, t.off>> \in StrongReadings
  BY <1>4, <1>6, DtoIsReading
<1>8. a.strong
  BY <1>6, AtomsAre, AtomShape
<1>9. IsFiniteSet(Atoms(fields, damaged)) /\ Atoms(fields, damaged) \subseteq AtomRow
  BY AtomsFinite
<1>10. ASSUME NEW r \in StrongReadings
       PROVE  IF r[2] = None THEN Abs(r[1] - t.wall) <= Tolerance
              ELSE Abs(r[1] - r[2] * Hour - Instant(t)) <= Tolerance
  <2>1. PICK b \in Atoms(fields, damaged) : b.strong /\ r = <<b.ts.wall, b.ts.off>>
    BY <1>4, ReadingsAreAtoms
  <2>2. PICK u : u = b.ts
    OBVIOUS
  <2>3. r[1] = u.wall /\ r[2] = u.off
    BY <2>1, <2>2
  <2>4. /\ Explicit(u) /\ Explicit(t) => Abs(Instant(u) - Instant(t)) <= Tolerance
        /\ ~Explicit(u) => Abs(u.wall - t.wall) <= Tolerance
    BY <1>5, <1>6, <1>8, <1>9, <2>1, <2>2, Spread
  <2>5. Instant(u) = u.wall - u.off * Hour
    BY DEF Instant
  <2> QED
    BY <1>4, <2>3, <2>4, <2>5 DEF Explicit
<1> QED
  BY <1>1, <1>5, <1>7, <1>10

-----------------------------------------------------------------------------
(* Eligible evidence has its support in the store.                          *)

\* What a field of an atom's observations is: the original date or a companion
\* of its scope, or a date which says what the atom says.
LEMMA ObservedIs ==
  ASSUME NEW fs \in Seq(Supply), NEW h, NEW n \in UsableDates(fs, h),
         NEW a, a = AtomOf(fs, fs[n]),
         NEW i \in a.obs
  PROVE  /\ i \in DOMAIN fs /\ n \in a.obs /\ fs[n].kind = a.kind
         /\ SourceOf[fs[i].place] = a.source
         /\ a.kind = "dto" =>
              /\ fs[i].place = fs[n].place /\ fs[i].kind \in {"dto", "offset", "subsec"}
              /\ fs[i].kind = "dto" => fs[i].val = fs[n].val
              /\ a.ts = DtoStamp(fs, fs[n].place, fs[n].val)
              /\ Zone(fs, fs[n].place) \subseteq a.obs
              /\ Fine(fs, fs[n].place) \subseteq a.obs
         /\ a.kind # "dto" =>
              /\ fs[i].kind = a.kind /\ a.kind \in DateKinds
              /\ a.ts = SoloStamp(a.kind, fs[i].val, fs[i].off)
<1>1. /\ a.kind = fs[n].kind
      /\ n \in a.obs /\ a.obs \subseteq DOMAIN fs
      /\ \A j \in a.obs : SourceOf[fs[j].place] = a.source
  BY AtomShape
<1>2. ASSUME a.kind = "dto"
      PROVE  /\ fs[i].place = fs[n].place /\ fs[i].kind \in {"dto", "offset", "subsec"}
             /\ fs[i].kind = "dto" => fs[i].val = fs[n].val
             /\ a.ts = DtoStamp(fs, fs[n].place, fs[n].val)
             /\ Zone(fs, fs[n].place) \subseteq a.obs
             /\ Fine(fs, fs[n].place) \subseteq a.obs
  <2>1. PICK p, w : p = fs[n].place /\ w = fs[n].val
    OBVIOUS
  <2>2. /\ a.ts = DtoStamp(fs, p, w)
        /\ a.obs = {j \in Dto(fs, p) : fs[j].val = w} \cup (Zone(fs, p) \cup Fine(fs, p))
    BY <1>2, <2>1, AtomShape
  <2>3. /\ \A j \in Dto(fs, p) : fs[j].kind = "dto" /\ fs[j].place = p
        /\ \A j \in Zone(fs, p) : fs[j].kind = "offset" /\ fs[j].place = p
        /\ \A j \in Fine(fs, p) : fs[j].kind = "subsec" /\ fs[j].place = p
    BY DEF Dto, Zone, Fine, IndicesOf
  <2> QED
    BY <2>1, <2>2, <2>3
<1>3. ASSUME a.kind # "dto"
      PROVE  /\ fs[i].kind = a.kind /\ a.kind \in DateKinds
             /\ a.ts = SoloStamp(a.kind, fs[i].val, fs[i].off)
  <2>1. PICK v, o, P : v = fs[n].val /\ o = fs[n].off /\ P = Area(fs[n])
    OBVIOUS
  <2>2. /\ a.ts = SoloStamp(a.kind, v, o)
        /\ a.obs = {j \in IndicesOf(fs, a.kind, P) : fs[j].val = v /\ fs[j].off = o}
    BY <1>3, <2>1, AtomShape
  <2>3. fs[i].kind = a.kind /\ fs[i].val = v /\ fs[i].off = o
    BY <2>2 DEF IndicesOf
  <2> QED
    BY <1>1, <2>2, <2>3 DEF UsableDates
<1> QED
  BY <1>1, <1>2, <1>3

\* The observations of an eligible candidate say in each Exif scope what the
\* candidate says.
LEMMA ScopeAgrees ==
  ASSUME NEW fs \in Seq(Supply), NEW h \in SUBSET Sources, NEW t \in Times(fs, h),
         NEW c, c = Full(fs, h, t), Eligible(c),
         NEW i \in c.obs, fs[i].kind \in {"dto", "offset", "subsec"}
  PROVE  ScopeMatches(ScopeSays(fs, c.obs, fs[i].place), t)
<1>1. PICK I, p : I = c.obs /\ p = fs[i].place
  OBVIOUS
<1>2. \A j : j \in I <=> \E a \in Mine(fs, h, t) : j \in a.obs
  BY <1>1, FullIs, RawIs
<1>3. Issues(fs, h) = {} /\ Explicit(t)
  BY EligibleIs
<1>4. PICK a \in Mine(fs, h, t) : i \in a.obs
  BY <1>1, <1>2
<1>5. PICK n \in UsableDates(fs, h) : a = AtomOf(fs, fs[n])
  BY MineIs
<1>6. a.kind = "dto"
  BY <1>4, <1>5, ObservedIs DEF DateKinds
<1>7. PICK w : w = fs[n].val
  OBVIOUS
<1>8. /\ fs[n].place = p /\ n \in a.obs /\ fs[n].kind = "dto"
      /\ a.ts = DtoStamp(fs, p, w)
      /\ Zone(fs, p) \subseteq a.obs /\ Fine(fs, p) \subseteq a.obs
  BY <1>1, <1>4, <1>5, <1>6, <1>7, ObservedIs
<1>9. t = DtoStamp(fs, p, w)
  BY <1>8, TimesAre
<1>10. n \in Dto(fs, p) /\ n \in I /\ p \in Scopes
  BY <1>2, <1>5, <1>8, FieldIs DEF UsableDates, Dto, IndicesOf
<1>11. ~Disagree(fs, Dto(fs, p)) /\ ~BadCompanion(fs, p)
  BY <1>3, <1>10, Flawless
<1>12. \A j \in Dto(fs, p) : fs[j].val = w
  <2>1. IsFiniteSet(Dto(fs, p))
    BY IndicesFinite DEF Dto
  <2> QED
    BY <1>7, <1>10, <1>11, <2>1, DisagreeIs
<1>13. Zone(fs, p) \subseteq I /\ Fine(fs, p) \subseteq I
  BY <1>2, <1>8
<1>14. PICK says : says = ScopeSays(fs, I, p)
  OBVIOUS
<1>15. \A j \in I : j \in DOMAIN fs
  <2> TAKE j \in I
  <2>1. PICK b \in Mine(fs, h, t) : j \in b.obs
    BY <1>2
  <2> QED
    BY <2>1, MineIs, ObservedIs
<1>16. says.dto = {w}
  <2>1. says.dto = {fs[j].val : j \in {m \in I : fs[m].kind = "dto" /\ fs[m].place = p}}
    BY <1>14 DEF ScopeSays
  <2>2. \A m \in I : fs[m].kind = "dto" /\ fs[m].place = p => m \in Dto(fs, p)
    BY <1>15 DEF Dto, IndicesOf
  <2>3. n \in I /\ fs[n].kind = "dto" /\ fs[n].place = p /\ fs[n].val = w
    BY <1>7, <1>8, <1>10
  <2> QED
    BY <1>12, <2>1, <2>2, <2>3
<1>17. PICK o : o = OneValue(fs, Zone(fs, p))
  OBVIOUS
<1>18. PICK f : f = OneValue(fs, Fine(fs, p))
  OBVIOUS
<1>19. t = IF Fine(fs, p) = {} THEN Stamp(w, o, Second, FALSE)
           ELSE Stamp(Later(w, f), o, 1, FALSE)
  BY <1>9, <1>11, <1>17, <1>18, DtoStampIs
<1>20. t.off = o /\ o # None
  BY <1>3, <1>19 DEF Stamp, Explicit
<1>21. says.offset = {o}
  <2>1. says.offset = {fs[j].val :
                       j \in {m \in I : fs[m].kind = "offset" /\ fs[m].place = p}}
    BY <1>14 DEF ScopeSays
  <2>2. \A m \in I : fs[m].kind = "offset" /\ fs[m].place = p <=> m \in Zone(fs, p)
    BY <1>15 DEF Zone, IndicesOf
  <2>3. Zone(fs, p) # {} /\ \A m \in Zone(fs, p) : fs[m].val = o
    BY <1>11, <1>17, <1>20, CompanionIs
  <2>4. PICK m \in Zone(fs, p) : TRUE
    BY <2>3
  <2>5. m \in I /\ fs[m].kind = "offset" /\ fs[m].place = p /\ fs[m].val = o
    BY <1>13, <2>2, <2>3, <2>4
  <2> QED
    BY <2>1, <2>2, <2>3, <2>5
<1>22. says.subsec = IF Fine(fs, p) = {} THEN {} ELSE {f}
  <2>1. says.subsec = {fs[j].val :
                       j \in {m \in I : fs[m].kind = "subsec" /\ fs[m].place = p}}
    BY <1>14 DEF ScopeSays
  <2>2. \A m \in I : fs[m].kind = "subsec" /\ fs[m].place = p <=> m \in Fine(fs, p)
    BY <1>15 DEF Fine, IndicesOf
  <2>3. \A m \in Fine(fs, p) : fs[m].val = f /\ m \in I
    BY <1>11, <1>13, <1>18, CompanionIs
  <2>4. CASE Fine(fs, p) = {}
    BY <2>1, <2>2, <2>4
  <2>5. CASE Fine(fs, p) # {}
    <3>1. PICK m \in Fine(fs, p) : TRUE
      BY <2>5
    <3>2. m \in I /\ fs[m].kind = "subsec" /\ fs[m].place = p /\ fs[m].val = f
      BY <2>2, <2>3, <3>1
    <3> QED
      BY <2>1, <2>2, <2>3, <2>5, <3>2
  <2> QED
    BY <2>4, <2>5
<1>23. ScopeMatches(says, t)
  <2>1. CASE Fine(fs, p) = {}
    <3>1. t.wall = w /\ t.prec = Second /\ says.subsec = {}
      BY <1>19, <1>22, <2>1 DEF Stamp
    <3> QED
      BY <1>16, <1>20, <1>21, <3>1 DEF ScopeMatches
  <2>2. CASE Fine(fs, p) # {}
    <3>1. t.wall = w + f /\ t.prec = 1 /\ says.subsec = {f}
      BY <1>19, <1>22, <2>2 DEF Stamp, Later
    <3> QED
      BY <1>16, <1>20, <1>21, <3>1 DEF ScopeMatches
  <2> QED
    BY <2>1, <2>2
<1> QED
  BY <1>1, <1>14, <1>23

\* An eligible candidate that merges no repeated Exif field has support in the
\* store.
LEMMA Supported ==
  ASSUME fields \in Seq(Supply), damaged \in SUBSET Sources,
         NEW c \in Candidates(fields, damaged), Eligible(c), ~Repeated(fields, c.obs)
  PROVE  SupportAccepted(fields, damaged, c)
<1>1. PICK t \in Times(fields, damaged) : c = Full(fields, damaged, t)
  BY CandidatesAre
<1>2. /\ Issues(fields, damaged) = {} /\ Explicit(t) /\ ~t.assumed
      /\ "mvhd" \notin c.kinds
      /\ \E a \in Mine(fields, damaged, t) : a.kind = "dto"
  BY <1>1, EligibleIs
<1>3. damaged = {} /\ \A i \in DOMAIN fields : fields[i].val \notin Bad
  BY <1>2, Flawless
<1>4. PICK I : I = c.obs
  OBVIOUS
<1>5. /\ \A i : i \in I <=> \E a \in Mine(fields, damaged, t) : i \in a.obs
      /\ \A k : k \in c.kinds <=> \E a \in Mine(fields, damaged, t) : k = a.kind
      /\ \A s : s \in c.sources <=> \E a \in Mine(fields, damaged, t) : s = a.source
      /\ c.ts = t
  BY <1>1, <1>4, FullIs, RawIs
<1>6. ASSUME NEW a \in Mine(fields, damaged, t)
      PROVE  \E n \in I : n \in a.obs /\ fields[n].kind = a.kind
               /\ fields[n].kind \in DateKinds
                          /\ SourceOf[fields[n].place] = a.source
  <2>1. PICK n \in UsableDates(fields, damaged) : a = AtomOf(fields, fields[n])
    BY MineIs
  <2>2. n \in a.obs /\ fields[n].kind = a.kind /\ SourceOf[fields[n].place] = a.source
    BY <2>1, AtomShape
  <2> QED
    BY <1>5, <2>1, <2>2 DEF UsableDates
<1>7. ASSUME NEW i \in I
      PROVE  /\ i \in DOMAIN fields
             /\ \E a \in Mine(fields, damaged, t) :
                  /\ SourceOf[fields[i].place] = a.source
                  /\ a.kind = "dto" => fields[i].kind \in {"dto", "offset", "subsec"}
                  /\ a.kind # "dto" => /\ fields[i].kind = a.kind
                                       /\ t = SoloStamp(a.kind, fields[i].val,
                                                        fields[i].off)
  <2>1. PICK a \in Mine(fields, damaged, t) : i \in a.obs
    BY <1>5
  <2>2. PICK n \in UsableDates(fields, damaged) : a = AtomOf(fields, fields[n])
    BY MineIs
  <2>3. a.ts = t
    BY TimesAre
  <2>4. /\ i \in DOMAIN fields
        /\ SourceOf[fields[i].place] = a.source
        /\ a.kind = "dto" => fields[i].kind \in {"dto", "offset", "subsec"}
        /\ a.kind # "dto" =>
              /\ fields[i].kind = a.kind
              /\ a.ts = SoloStamp(a.kind, fields[i].val, fields[i].off)
    BY <2>1, <2>2, ObservedIs
  <2> QED
    BY <2>1, <2>3, <2>4
<1>8. {SourceOf[fields[i].place] : i \in I} = c.sources
  <2>1. \A s \in c.sources : \E i \in I : s = SourceOf[fields[i].place]
    BY <1>5, <1>6
  <2>2. \A i \in I : SourceOf[fields[i].place] \in c.sources
    BY <1>5, <1>7
  <2> QED
    BY <2>1, <2>2
<1>9. {fields[i].kind : i \in I} \ {"offset", "subsec"} = c.kinds
  <2>1. \A k \in c.kinds : (\E i \in I : k = fields[i].kind)
          /\ k \notin {"offset", "subsec"}
    BY <1>5, <1>6 DEF DateKinds
  <2>2. \A i \in I : fields[i].kind \notin {"offset", "subsec"}
        => fields[i].kind \in c.kinds
    <3> TAKE i \in I
    <3>1. PICK a \in Mine(fields, damaged, t) :
                  /\ a.kind = "dto" => fields[i].kind \in {"dto", "offset", "subsec"}
                  /\ a.kind # "dto" => fields[i].kind = a.kind
      BY <1>7
    <3> QED
      BY <1>5, <3>1
  <2> QED
    BY <2>1, <2>2
<1>10. PICK scoped : scoped = {i \in I : fields[i].kind \in {"dto", "offset", "subsec"}}
  OBVIOUS
<1>11. PICK scopes : scopes = {fields[i].place : i \in scoped}
  OBVIOUS
<1>12. I # {} /\ scopes # {}
  <2>1. PICK a \in Mine(fields, damaged, t) : a.kind = "dto"
    BY <1>2
  <2>2. PICK n \in I : fields[n].kind = "dto"
    BY <1>6, <2>1
  <2>3. n \in scoped
    BY <1>10, <2>2
  <2> QED
    BY <1>11, <2>3
<1>13. \A p \in scopes : ScopeMatches(ScopeSays(fields, I, p), t)
  <2> TAKE p \in scopes
  <2>1. PICK i \in I : fields[i].kind \in {"dto", "offset", "subsec"}
             /\ p = fields[i].place
    BY <1>10, <1>11
  <2> QED
    BY <1>1, <1>4, <2>1, ScopeAgrees
<1>14. ASSUME NEW i \in I \ scoped
       PROVE  t = Stamp(fields[i].val, fields[i].off, Second, FALSE)
              /\ fields[i].kind # "mvhd"
  <2>1. PICK a \in Mine(fields, damaged, t) :
                  /\ a.kind = "dto" => fields[i].kind \in {"dto", "offset", "subsec"}
                  /\ a.kind # "dto" => /\ fields[i].kind = a.kind
                                       /\ t = SoloStamp(a.kind, fields[i].val,
                                                        fields[i].off)
    BY <1>7
  <2>2. a.kind # "dto"
    BY <1>10, <2>1
  <2>3. a.kind # "mvhd"
    BY <1>2, <1>5
  <2> QED
    BY <2>1, <2>2, <2>3 DEF SoloStamp
<1>15. /\ \A i \in I : fields[i].val \notin Bad /\ SourceOf[fields[i].place] \notin damaged
       /\ ~Repeated(fields, I)
  BY <1>3, <1>4, <1>7
<1> QED
  BY <1>2, <1>4, <1>5, <1>8, <1>9, <1>10, <1>11, <1>12, <1>13, <1>14, <1>15
     DEF SupportAccepted, RowsUsable, DateMatches

-----------------------------------------------------------------------------
(* The invariant of the policy.                                             *)

\* A candidate is of the type the invariant gives it.
LEMMA CandidateTyped ==
  ASSUME NEW fs \in Seq(Supply), NEW h, NEW c \in Candidates(fs, h)
  PROVE  c \in TimeCandidates
<1>1. PICK t \in Times(fs, h) : c = Full(fs, h, t)
  BY CandidatesAre
<1>2. PICK r : r = Raw(fs, h, t)
  OBVIOUS
<1>3. /\ c.ts = t /\ t \in Stamps /\ c.kinds \in SUBSET DateKinds
      /\ c.confidence \in {"Conflict"} \cup Grades
  BY <1>1, CandidateShape
<1>4. /\ c.sources = r.sources /\ c.obs = r.obs /\ c.anomalies = r.anomalies
      /\ c.gate = r.gate \cup (IF Beside(fs, h, t) THEN {"NearValue"} ELSE {})
  BY <1>1, <1>2, FullIs
<1>5. \A a \in Mine(fs, h, t) : a.source \in Sources /\ a.obs \in SUBSET Nat
  BY MineIs DEF AtomRow
<1>6. c.sources \in SUBSET Sources
  <2>1. \A s : s \in r.sources <=> \E a \in Mine(fs, h, t) : s = a.source
    BY <1>2, RawIs
  <2> QED
    BY <1>4, <1>5, <2>1
<1>7. c.obs \in SUBSET Nat
  <2>1. \A i : i \in r.obs <=> \E a \in Mine(fs, h, t) : i \in a.obs
    BY <1>2, RawIs
  <2> QED
    BY <1>4, <1>5, <2>1
<1>8. c.anomalies \in SUBSET AnomalyCodes
  <2>1. \A x : x \in r.anomalies => x \in Anomalies(t, r.kinds) \/ x = "InvalidCompanion"
    BY <1>2, RawIs
  <2>2. \A x \in Anomalies(t, r.kinds) : x \in AnomalyCodes
    BY DEF Anomalies, AnomalyCodes
  <2> QED
    BY <1>4, <2>1, <2>2 DEF AnomalyCodes
<1>9. c.gate \in SUBSET GateReasons
  <2>1. \A x \in r.gate : BarredBy(fs, h, r, x)
    BY <1>2, RawIs
  <2>2. \A x \in r.gate : x \in GateReasons
    BY <1>4, <1>8, <2>1 DEF BarredBy, GateReasons
  <2> QED
    BY <1>4, <2>2 DEF GateReasons
<1>10. c = [ts |-> c.ts, kinds |-> c.kinds, sources |-> c.sources, obs |-> c.obs,
            confidence |-> c.confidence, anomalies |-> c.anomalies, gate |-> c.gate]
  <2>1. r = [ts |-> r.ts, kinds |-> r.kinds, sources |-> r.sources, obs |-> r.obs,
             confidence |-> r.confidence, anomalies |-> r.anomalies, gate |-> r.gate]
    BY <1>2 DEF Raw, Candidate
  <2>2. PICK g : g = IF Beside(fs, h, t) THEN r.gate \cup {"NearValue"} ELSE r.gate
    OBVIOUS
  <2>3. c = IF Beside(fs, h, t) THEN [r EXCEPT !.gate = @ \cup {"NearValue"}] ELSE r
    BY <1>1, <1>2 DEF Full
  <2>4. c = [r EXCEPT !.gate = g]
    BY <2>1, <2>2, <2>3
  <2>5. c = [ts |-> r.ts, kinds |-> r.kinds, sources |-> r.sources, obs |-> r.obs,
             confidence |-> r.confidence, anomalies |-> r.anomalies, gate |-> g]
    BY <2>1, <2>4
  <2> QED
    BY <2>5
<1> QED
  BY <1>3, <1>6, <1>7, <1>8, <1>9, <1>10 DEF TimeCandidates

\* So is the answer of the policy, which is never absent.
LEMMA AnalysisTyped ==
  ASSUME NEW fs \in Seq(Supply), NEW h
  PROVE  Analyze(fs, h) \in Analyses /\ Analyze(fs, h) # None
<1>1. PICK n, C, fit : /\ n = Analyze(fs, h) /\ C = Candidates(fs, h)
                       /\ fit = {c \in C : Eligible(c)}
  OBVIOUS
<1>2. /\ n.candidates = C
      /\ Contrary(fs, h) => n.decision = "Conflict" /\ n.selected = None
      /\ ~Contrary(fs, h) /\ C = {}
           => n.decision = "NoUsableEvidence" /\ n.selected = None
      /\ ~Contrary(fs, h) /\ fit # {}
           => n.decision = "EvidenceEligible" /\ n.selected = Best(fit)
      /\ ~Contrary(fs, h) /\ C # {} /\ fit = {} =>
              n.decision = "ReviewRequired" /\ n.selected = Best(C)
  BY <1>1, AnalyzeIs
<1>3. n.decision \in Decisions
  BY <1>2 DEF Decisions
<1>4. C \in SUBSET TimeCandidates
  BY <1>1, CandidateTyped
<1>5. n.selected \in TimeCandidates \cup {None}
  <2>1. n.selected = None \/ n.selected \in C
    BY <1>1, SelectedIs
  <2> QED
    BY <1>4, <2>1
<1>6. n = [decision |-> n.decision, selected |-> n.selected, candidates |-> n.candidates]
  <2>1. PICK d, s : n = [decision |-> d, selected |-> s, candidates |-> C]
    BY <1>1 DEF Analyze
  <2> QED
    BY <2>1
<1>7. n \in Analyses
  BY <1>2, <1>3, <1>4, <1>5, <1>6 DEF Analyses
<1> QED
  BY <1>1, <1>7, Absent

\* The sources are finitely many.
LEMMA SourcesFinite == IsFiniteSet(Sources)
<1> DEFINE f == [p \in Scopes |-> SourceOf[p]]
<1>1. \A s \in Sources : \E p \in Scopes : s = f[p]
  BY DEF Sources
<1>2. IsFiniteSet(Scopes)
  BY Layout
<1> HIDE DEF f
<1> QED
  BY <1>1, <1>2, ImageFinite

\* The inductive invariant: the answer is the policy's, what is refused lacks
\* support and what is misread is judged twice.
PolicyInv ==
  /\ PolicyTypeOK
  /\ phase # "extracting" => analysis = Analyze(fields, damaged)
  /\ phase = "refused" =>
       \E c \in analysis.candidates : Eligible(c) /\ ~SupportAccepted(fields, damaged, c)
  /\ phase = "misread" =>
       RuntimeSays(member, StrongCandidate) # StoreExpects(member, StrongCandidate)

\* The empty reports satisfy the invariant.
LEMMA PolicyInvInit == PolicyInit => PolicyInv
<1> SUFFICES ASSUME PolicyInit
             PROVE  PolicyInv
  OBVIOUS
<1>1. phase = "extracting" /\ fields = << >> /\ damaged = {} /\ analysis = None
      /\ member = None
  BY DEF PolicyInit
<1>2. Len(fields) + Cardinality(damaged) <= MaxFields
  <2>1. Cardinality(damaged) = 0 /\ Len(fields) = 0
    BY <1>1, FS_EmptySet
  <2> QED
    BY <2>1, Numbers
<1>3. fields \in Seq(Supply)
  BY <1>1
<1> QED
  BY <1>1, <1>2, <1>3 DEF PolicyInv, PolicyTypeOK

\* Every step keeps the invariant: a retained field, a damaged report, the
\* analysis, the store's check and a member's assessment.
LEMMA PolicyInvNext == PolicyInv /\ [PolicyNext]_policyVars => PolicyInv'
<1> SUFFICES ASSUME PolicyInv, [PolicyNext]_policyVars
             PROVE  PolicyInv'
  OBVIOUS
<1>1. /\ phase \in {"extracting", "analysed", "stored", "refused", "assessed", "misread"}
      /\ fields \in Seq(Supply) /\ damaged \in SUBSET Sources
      /\ Len(fields) + Cardinality(damaged) <= MaxFields
      /\ analysis \in Analyses \cup {None} /\ member \in Files \cup {None}
      /\ analysis = None <=> phase = "extracting"
      /\ member = None <=> phase \notin {"assessed", "misread"}
      /\ phase # "extracting" => analysis = Analyze(fields, damaged)
  BY DEF PolicyInv, PolicyTypeOK
<1>2. IsFiniteSet(damaged) /\ Cardinality(damaged) \in Nat /\ Len(fields) \in Nat
  BY <1>1, SourcesFinite, FS_Subset, FS_CardinalityType
<1>3. ASSUME Retain
      PROVE  PolicyInv'
  <2>1. PICK f \in Supply : fields' = Append(fields, f)
    BY <1>3 DEF Retain
  <2>2. /\ phase = "extracting" /\ phase' = phase /\ damaged' = damaged
        /\ analysis' = analysis /\ member' = member
        /\ Len(fields) + Cardinality(damaged) < MaxFields
    BY <1>3 DEF Retain, Room
  <2>3. fields' \in Seq(Supply) /\ Len(fields') = Len(fields) + 1
    BY <1>1, <2>1
  <2>4. (Len(fields) + Cardinality(damaged) <= MaxFields)'
    BY <1>2, <2>2, <2>3, Numbers
  <2> QED
    BY <1>1, <2>2, <2>3, <2>4 DEF PolicyInv, PolicyTypeOK
<1>4. ASSUME Spoil
      PROVE  PolicyInv'
  <2>1. PICK s \in Sources \ damaged : damaged' = damaged \cup {s}
    BY <1>4 DEF Spoil
  <2>2. /\ phase = "extracting" /\ phase' = phase /\ fields' = fields
        /\ analysis' = analysis /\ member' = member
        /\ Len(fields) + Cardinality(damaged) < MaxFields
    BY <1>4 DEF Spoil, Room
  <2>3. damaged' \in SUBSET Sources
    BY <1>1, <2>1
  <2>4. Cardinality(damaged') = Cardinality(damaged) + 1
    BY <1>2, <2>1, FS_AddElement
  <2>5. (Len(fields) + Cardinality(damaged) <= MaxFields)'
    BY <1>2, <2>2, <2>4, Numbers
  <2> QED
    BY <1>1, <2>2, <2>3, <2>5 DEF PolicyInv, PolicyTypeOK
<1>5. ASSUME AnalyzeReports
      PROVE  PolicyInv'
  <2>1. /\ phase = "extracting" /\ phase' = "analysed"
        /\ analysis' = Analyze(fields, damaged)
        /\ fields' = fields /\ damaged' = damaged /\ member' = member
    BY <1>5 DEF AnalyzeReports
  <2>2. analysis' \in Analyses /\ analysis' # None
    BY <1>1, <2>1, AnalysisTyped
  <2>3. analysis' = Analyze(fields', damaged')
    BY <2>1
  <2> QED
    BY <1>1, <2>1, <2>2, <2>3 DEF PolicyInv, PolicyTypeOK
<1>6. ASSUME StoreCandidate
      PROVE  PolicyInv'
  <2>1. /\ phase = "analysed"
        /\ phase' = IF \A c \in analysis.candidates : Eligible(c)
             => SupportAccepted(fields, damaged, c)
                    THEN "stored" ELSE "refused"
        /\ fields' = fields /\ damaged' = damaged /\ analysis' = analysis
        /\ member' = member
    BY <1>6 DEF StoreCandidate
  <2>2. ASSUME phase' = "refused"
        PROVE  \E c \in analysis.candidates : Eligible(c)
                 /\ ~SupportAccepted(fields, damaged, c)
    BY <2>1, <2>2
  <2>3. ASSUME phase' = "refused"
        PROVE  (\E c \in analysis.candidates : Eligible(c)
                  /\ ~SupportAccepted(fields, damaged, c))'
    BY <2>1, <2>2, <2>3
  <2>4. phase' \in {"stored", "refused"}
    BY <2>1
  <2>5. PolicyTypeOK'
    BY <1>1, <2>1, <2>4 DEF PolicyTypeOK
  <2>6. analysis' = Analyze(fields', damaged')
    BY <1>1, <2>1
  <2> QED
    BY <2>3, <2>4, <2>5, <2>6 DEF PolicyInv
<1>7. ASSUME Assess
      PROVE  PolicyInv'
  <2>1. PICK b \in FileTimes \cup {None}, m \in FileTimes, g \in Grains \cup {None} :
          /\ member' = [birth |-> b, modified |-> m, grain |-> g]
          /\ phase' = IF RuntimeSays([birth |-> b, modified |-> m, grain |-> g],
                                     StrongCandidate)
                           = StoreExpects([birth |-> b, modified |-> m, grain |-> g],
                                          StrongCandidate)
                      THEN "assessed" ELSE "misread"
    BY <1>7 DEF Assess
  <2>2. /\ phase = "stored" /\ fields' = fields /\ damaged' = damaged
        /\ analysis' = analysis
    BY <1>7 DEF Assess
  <2>3. phase' = IF RuntimeSays(member', StrongCandidate)
        = StoreExpects(member', StrongCandidate)
                 THEN "assessed" ELSE "misread"
    BY <2>1
  <2>4. StrongCandidate' = StrongCandidate
    BY <2>2 DEF StrongCandidate
  <2>5. member' \in Files /\ member' # None
    <3>1. member' \in Files
      BY <2>1 DEF Files
    <3> QED
      BY <3>1, Absent
  <2>6. phase' \in {"assessed", "misread"}
    BY <2>3
  <2>7. PolicyTypeOK'
    BY <1>1, <2>2, <2>5, <2>6 DEF PolicyTypeOK
  <2>8. phase' = "misread" =>
          (RuntimeSays(member, StrongCandidate) # StoreExpects(member, StrongCandidate))'
    BY <2>3, <2>4
  <2>9. analysis' = Analyze(fields', damaged')
    BY <1>1, <2>2
  <2> QED
    BY <2>6, <2>7, <2>8, <2>9 DEF PolicyInv
<1>8. CASE UNCHANGED policyVars
  <2>1. /\ phase' = phase /\ fields' = fields /\ damaged' = damaged
        /\ analysis' = analysis
        /\ member' = member
    BY <1>8 DEF policyVars
  <2>2. PolicyTypeOK'
    BY <1>1, <2>1 DEF PolicyTypeOK
  <2>3. phase' # "extracting" => analysis' = Analyze(fields', damaged')
    BY <1>1, <2>1
  <2>4. ASSUME phase' = "refused"
        PROVE  (\E c \in analysis.candidates : Eligible(c)
                  /\ ~SupportAccepted(fields, damaged, c))'
    <3>1. \E c \in analysis.candidates : Eligible(c)
            /\ ~SupportAccepted(fields, damaged, c)
      BY <2>1, <2>4 DEF PolicyInv
    <3> QED
      BY <2>1, <3>1
  <2>5. ASSUME phase' = "misread"
        PROVE  (RuntimeSays(member, StrongCandidate) # StoreExpects(member,
                                                                    StrongCandidate))'
    <3>1. StrongCandidate' = StrongCandidate
      BY <2>1 DEF StrongCandidate
    <3>2. RuntimeSays(member, StrongCandidate) # StoreExpects(member, StrongCandidate)
      BY <2>1, <2>5 DEF PolicyInv
    <3> QED
      BY <2>1, <3>1, <3>2
  <2> QED
    BY <2>2, <2>3, <2>4, <2>5 DEF PolicyInv
<1> QED
  BY <1>3, <1>4, <1>5, <1>6, <1>7, <1>8 DEF PolicyNext

\* The invariant holds in every state.
LEMMA PolicyInvHolds == PolicySpec => []PolicyInv
  BY PolicyInvInit, PolicyInvNext, PTL DEF PolicySpec

\* A member whose two file times agree with each other is judged alike.
LEMMA JudgedAlike ==
  ASSUME NEW m, NEW c, RuntimeSays(m, c) # StoreExpects(m, c)
  PROVE  /\ c # None /\ m.grain # None /\ m.birth # None
         /\ Relation(m.birth, m.grain, c.ts) # Relation(m.modified, m.grain, c.ts)
<1>1. c # None
  BY DEF RuntimeSays, StoreExpects
<1>2. m.grain # None
  BY DEF RuntimeSays, StoreExpects
<1>3. PICK b, d : b = Relation(m.birth, m.grain, c.ts)
           /\ d = Relation(m.modified, m.grain, c.ts)
  OBVIOUS
<1>4. b \in {"Matches", "Differs"} /\ d \in {"Matches", "Differs"}
  BY <1>3 DEF Relation
<1>5. PICK n : n = IF m.birth = None THEN "Unavailable" ELSE b
  OBVIOUS
<1>6. /\ RuntimeSays(m, c) = Assessment(n, d, IF n \in {"Matches", "Unavailable"}
                                        /\ d = "Matches"
                                             THEN "matches" ELSE "differs")
      /\ StoreExpects(m, c) = Assessment(n, d, IF n = "Matches" \/ d = "Matches"
                                              THEN "matches" ELSE "differs")
  BY <1>1, <1>2, <1>3, <1>5 DEF RuntimeSays, StoreExpects
<1>7. m.birth # None /\ b # d
  BY <1>4, <1>5, <1>6
<1> QED
  BY <1>1, <1>2, <1>3, <1>7

\* What the invariant says of the answer, of a refusal and of a disagreement is
\* enough for the properties about one report.
LEMMA PolicyInvImplies == PolicyInv => EligibleIsUnanimous /\ StoreAgrees
<1> SUFFICES ASSUME PolicyInv
             PROVE  EligibleIsUnanimous /\ StoreAgrees
  OBVIOUS
<1>1. /\ fields \in Seq(Supply) /\ damaged \in SUBSET Sources
      /\ phase # "extracting" => analysis = Analyze(fields, damaged)
  BY DEF PolicyInv, PolicyTypeOK
<1>2. EligibleIsUnanimous
  <2>1. CASE phase = "analysed"
    BY <1>1, <2>1, Unanimous
  <2>2. CASE phase # "analysed"
    BY <2>2 DEF EligibleIsUnanimous
  <2> QED
    BY <2>1, <2>2
<1>3. ASSUME phase = "refused"
      PROVE  \E c \in analysis.candidates : Eligible(c) /\ Repeated(fields, c.obs)
  <2>1. PICK c \in analysis.candidates : Eligible(c)
             /\ ~SupportAccepted(fields, damaged, c)
    BY <1>3 DEF PolicyInv
  <2>2. analysis.candidates = Candidates(fields, damaged)
    BY <1>1, <1>3, AnalyzeIs
  <2> QED
    BY <1>1, <2>1, <2>2, Supported
<1>4. ASSUME phase = "misread"
      PROVE  /\ StrongCandidate # None /\ member.grain # None /\ member.birth # None
             /\ Relation(member.birth, member.grain, StrongCandidate.ts)
                  # Relation(member.modified, member.grain, StrongCandidate.ts)
  <2>1. RuntimeSays(member, StrongCandidate) # StoreExpects(member, StrongCandidate)
    BY <1>4 DEF PolicyInv
  <2> QED
    BY <2>1, JudgedAlike
<1> QED
  BY <1>2, <1>3, <1>4 DEF StoreAgrees

\* The reports stay within their bound; an answer of the policy's type exists
\* from the analysis on (analyze_timestamp_evidence), and a member's times from
\* its assessment on (assess_member_filesystem_times).
THEOREM PolicyTypeCorrect == PolicySpec => []PolicyTypeOK
<1>1. PolicyInv => PolicyTypeOK
  BY DEF PolicyInv
<1> QED
  BY <1>1, PolicyInvHolds, PTL

\* An eligible decision rests on reports without an issue, on a value which one of
\* them states with its offset, and on the agreement of every strong value
\* within the tolerance (mark_strong_conflicts, evidence_gate).
THEOREM OnlyUnanimousEvidence == PolicySpec => []EligibleIsUnanimous
  BY PolicyInvHolds, PolicyInvImplies, PTL

\* The store refuses an eligible candidate only over a repeated Exif field, and a
\* member's assessment only when just one of its two file times matches
\* (validate_eligible_candidate_support, expected_member_assessment).
THEOREM StoreAgreesAlways == PolicySpec => []StoreAgrees
  BY PolicyInvHolds, PolicyInvImplies, PTL

\* What the runtime demands of a decision before it writes it: a selected
\* candidate that exists, is not eligible where review is required, and else is
\* eligible with high confidence and an instant.
DecisionBacked ==
  phase # "extracting" =>
    /\ analysis.decision = "ReviewRequired" =>
         analysis.selected \in analysis.candidates /\ ~Eligible(analysis.selected)
    /\ analysis.decision = "EvidenceEligible" =>
         /\ analysis.selected \in analysis.candidates /\ Eligible(analysis.selected)
         /\ analysis.selected.confidence = "High" /\ Explicit(analysis.selected.ts)

\* The checks the runtime makes of a decision before it writes it never fail: what it
\* refuses as unsupported evidence is no answer of the policy
\* (capture_time_decision).
THEOREM DecisionAlwaysBacked == PolicySpec => []DecisionBacked
<1>1. ASSUME PolicyInv
      PROVE  DecisionBacked
  <2> SUFFICES ASSUME phase # "extracting"
               PROVE  /\ analysis.decision = "ReviewRequired" =>
                           analysis.selected \in analysis.candidates
                           /\ ~Eligible(analysis.selected)
                      /\ analysis.decision = "EvidenceEligible" =>
                           /\ analysis.selected \in analysis.candidates
                           /\ Eligible(analysis.selected)
                           /\ analysis.selected.confidence = "High"
                           /\ Explicit(analysis.selected.ts)
    BY DEF DecisionBacked
  <2>1. fields \in Seq(Supply) /\ analysis = Analyze(fields, damaged)
    BY <1>1 DEF PolicyInv, PolicyTypeOK
  <2>2. PICK C, fit, s : /\ C = Candidates(fields, damaged) /\ s = analysis.selected
                         /\ fit = {c \in C : Eligible(c)}
    OBVIOUS
  <2>3. analysis.candidates = C
        /\ (analysis.decision \notin {"Conflict", "NoUsableEvidence"} => s \in C)
        /\ (analysis.decision = "EvidenceEligible" => Eligible(s))
    BY <2>1, <2>2, AnalyzeIs, SelectedIs
  <2>4. ASSUME analysis.decision = "ReviewRequired"
        PROVE  ~Eligible(s)
    <3>1. fit = {}
      <4>1. /\ Contrary(fields, damaged) => analysis.decision = "Conflict"
            /\ ~Contrary(fields, damaged) /\ fit # {} =>
                 analysis.decision = "EvidenceEligible"
        BY <2>1, <2>2, AnalyzeIs
      <4> QED
        BY <2>4, <4>1
    <3> QED
      BY <2>2, <2>3, <2>4, <3>1
  <2>5. ASSUME analysis.decision = "EvidenceEligible"
        PROVE  s.confidence = "High" /\ Explicit(s.ts)
    <3>1. s \in C /\ Eligible(s)
      BY <2>3, <2>5
    <3>2. PICK t \in Times(fields, damaged) : s = Full(fields, damaged, t)
      BY <2>2, <3>1, CandidatesAre
    <3>3. s.ts = t
      BY <3>2, FullIs
    <3> QED
      BY <2>1, <3>1, <3>2, <3>3, EligibleIs
  <2> QED
    BY <2>2, <2>3, <2>4, <2>5
<1> QED
  BY <1>1, PolicyInvHolds, PTL

-----------------------------------------------------------------------------
(* The order of the fields decides nothing.                                 *)

\* Two reports hold the same fields, in any order and any number.
SameFields(fs, gs) ==
  /\ \A i \in DOMAIN fs : \E j \in DOMAIN gs : gs[j] = fs[i]
  /\ \A j \in DOMAIN gs : \E i \in DOMAIN fs : fs[i] = gs[j]

\* What one report has at some place, the other has there.
LEMMA SameIndices ==
  ASSUME NEW fs, NEW gs, SameFields(fs, gs), NEW k, NEW P
  PROVE  /\ \A i \in IndicesOf(fs, k, P) : \E j \in IndicesOf(gs, k, P) : gs[j] = fs[i]
         /\ \A j \in IndicesOf(gs, k, P) : \E i \in IndicesOf(fs, k, P) : fs[i] = gs[j]
         /\ IndicesOf(fs, k, P) = {} <=> IndicesOf(gs, k, P) = {}
  BY DEF SameFields, IndicesOf

\* So the one companion value, what fields say and their disagreement are alike.
LEMMA SameValues ==
  ASSUME NEW fs, NEW gs, SameFields(fs, gs), NEW k, NEW P
  PROVE  /\ OneValue(fs, IndicesOf(fs, k, P)) = OneValue(gs, IndicesOf(gs, k, P))
         /\ Said(fs, IndicesOf(fs, k, P)) = Said(gs, IndicesOf(gs, k, P))
         /\ Disagree(fs, IndicesOf(fs, k, P)) <=> Disagree(gs, IndicesOf(gs, k, P))
<1>1. PICK I, J : I = IndicesOf(fs, k, P) /\ J = IndicesOf(gs, k, P)
  OBVIOUS
<1>2. /\ \A i \in I : \E j \in J : gs[j] = fs[i]
      /\ \A j \in J : \E i \in I : fs[i] = gs[j]
  BY <1>1, SameIndices
<1> DEFINE V == {fs[i].val : i \in I}
           W == {gs[j].val : j \in J}
<1>3. V = W
  BY <1>2
<1>4. /\ OneValue(fs, I) = IF Cardinality(V) = 1 /\ V \cap Bad = {}
                            THEN CHOOSE v \in V : TRUE ELSE None
      /\ OneValue(gs, J) = IF Cardinality(W) = 1 /\ W \cap Bad = {}
                            THEN CHOOSE v \in W : TRUE ELSE None
  BY DEF OneValue
<1> HIDE DEF V, W
<1>5. Said(fs, I) = Said(gs, J)
  BY <1>2 DEF Said
<1>6. OneValue(fs, I) = OneValue(gs, J)
  BY <1>3, <1>4
<1>7. Disagree(fs, I) <=> Disagree(gs, J)
  BY <1>5 DEF Disagree
<1> QED
  BY <1>1, <1>5, <1>6, <1>7

\* So is what a scope says.
LEMMA SameScopes ==
  ASSUME NEW fs, NEW gs, SameFields(fs, gs), NEW p
  PROVE  /\ BadCompanion(fs, p) <=> BadCompanion(gs, p)
         /\ \A w : DtoStamp(gs, p, w) = DtoStamp(fs, p, w)
<1>1. BadCompanion(fs, p) <=> BadCompanion(gs, p)
  <2>1. PICK P : P = {p}
    OBVIOUS
  <2>2. \A k : IndicesOf(fs, k, P) = {} <=> IndicesOf(gs, k, P) = {}
    BY SameIndices
  <2>3. \A k : OneValue(fs, IndicesOf(fs, k, P)) = OneValue(gs, IndicesOf(gs, k, P))
    BY SameValues
  <2> QED
    BY <2>1, <2>2, <2>3 DEF BadCompanion
<1>2. /\ OneValue(fs, Zone(fs, p)) = OneValue(gs, Zone(gs, p))
      /\ OneValue(fs, Fine(fs, p)) = OneValue(gs, Fine(gs, p))
  BY SameValues DEF Zone, Fine
<1>3. \A w : DtoStamp(fs, p, w) = DtoStamp(gs, p, w)
  BY <1>2 DEF DtoStamp
<1> QED
  BY <1>1, <1>3

\* The same sources are trusted.
LEMMA SameTrust ==
  ASSUME NEW fs, NEW gs, SameFields(fs, gs), NEW h
  PROVE  Mismatched(fs) = Mismatched(gs) /\ Trusted(fs, h) = Trusted(gs, h)
<1>1. \A s : s \in Mismatched(fs) <=>
        \E i \in DOMAIN fs : /\ ~OfBox(fs[i].kind)
                             /\ FormatOf[SourceOf[fs[i].place]] = "movie"
                             /\ s = SourceOf[fs[i].place]
  BY DEF Mismatched
<1>2. \A s : s \in Mismatched(gs) <=>
        \E i \in DOMAIN gs : /\ ~OfBox(gs[i].kind)
                             /\ FormatOf[SourceOf[gs[i].place]] = "movie"
                             /\ s = SourceOf[gs[i].place]
  BY DEF Mismatched
<1>3. \A s : s \in Mismatched(fs) <=> s \in Mismatched(gs)
  BY <1>1, <1>2 DEF SameFields
<1>4. Mismatched(fs) = Mismatched(gs)
  <2>1. PICK A, B : A = Mismatched(fs) /\ B = Mismatched(gs)
    OBVIOUS
  <2>2. \A s : s \in A <=> s \in B
    BY <1>3, <2>1
  <2> QED
    BY <2>1, <2>2
<1> QED
  BY <1>4 DEF Trusted

\* Atoms that differ in their observations at most.
Twins(a, b) == /\ a.ts = b.ts /\ a.kind = b.kind /\ a.source = b.source /\ a.base = b.base
               /\ a.strong <=> b.strong
               /\ a.conflicted <=> b.conflicted
               /\ a.bad <=> b.bad

\* To every atom of one report there is a twin in the other.
LEMMA TwinAtoms ==
  ASSUME NEW fs \in Seq(Supply), NEW gs \in Seq(Supply), SameFields(fs, gs), NEW h
  PROVE  \A a \in Atoms(fs, h) : \E b \in Atoms(gs, h) : Twins(a, b)
<1> TAKE a \in Atoms(fs, h)
<1>1. PICK i \in UsableDates(fs, h) : a = AtomOf(fs, fs[i])
  BY AtomsAre
<1>2. PICK j \in DOMAIN gs : gs[j] = fs[i]
  BY DEF UsableDates, SameFields
<1>3. j \in UsableDates(gs, h)
  BY <1>2, SameTrust DEF UsableDates
<1>4. PICK b : b = AtomOf(gs, gs[j])
  OBVIOUS
<1>5. b \in Atoms(gs, h)
  BY <1>3, <1>4, AtomsAre
<1>6. PICK f : f = fs[i] /\ f = gs[j]
  BY <1>2
<1>7. CASE f.kind = "dto"
  <2>1. PICK p, w, c, d, e : /\ p = f.place /\ w = f.val
                             /\ c = Disagree(fs, Dto(fs, p)) /\ d = BadCompanion(fs, p)
                             /\ e = OneValue(fs, Zone(fs, p))
    OBVIOUS
  <2>2. a = DtoAtom(fs, p, w) /\ b = DtoAtom(gs, p, w)
    BY <1>1, <1>4, <1>6, <1>7, <2>1 DEF AtomOf
  <2>3. /\ e = OneValue(gs, Zone(gs, p))
        /\ Disagree(fs, Dto(fs, p)) <=> Disagree(gs, Dto(gs, p))
    BY <2>1, SameValues DEF Zone, Dto
  <2>4. /\ BadCompanion(fs, p) <=> BadCompanion(gs, p)
        /\ DtoStamp(fs, p, w) = DtoStamp(gs, p, w)
    <3>1. BadCompanion(fs, p) <=> BadCompanion(gs, p)
      BY SameScopes
    <3>2. \A x : DtoStamp(gs, p, x) = DtoStamp(fs, p, x)
      BY SameScopes
    <3> QED
      BY <3>1, <3>2
  <2>5. /\ a.ts = DtoStamp(fs, p, w) /\ a.kind = "dto" /\ a.source = SourceOf[p]
        /\ a.base = IF e = None THEN "Medium" ELSE "High"
        /\ a.strong
        /\ a.conflicted <=> Disagree(fs, Dto(fs, p)) \/ BadCompanion(fs, p)
        /\ a.bad <=> BadCompanion(fs, p)
    BY <2>1, <2>2 DEF DtoAtom, Atom
  <2>6. /\ b.ts = DtoStamp(gs, p, w) /\ b.kind = "dto" /\ b.source = SourceOf[p]
        /\ b.base = IF e = None THEN "Medium" ELSE "High"
        /\ b.strong
        /\ b.conflicted <=> Disagree(gs, Dto(gs, p)) \/ BadCompanion(gs, p)
        /\ b.bad <=> BadCompanion(gs, p)
    BY <2>2, <2>3 DEF DtoAtom, Atom
  <2>7. Twins(a, b)
    BY <2>3, <2>4, <2>5, <2>6 DEF Twins
  <2> QED
    BY <1>5, <2>7
<1>8. CASE f.kind # "dto"
  <2>1. PICK k, P, t, v, o, l : /\ k = f.kind /\ P = Area(f) /\ v = f.val /\ o = f.off
                                /\ t = SoloStamp(k, v, o) /\ l = BaseOf[k]
    OBVIOUS
  <2>2. /\ a = SoloAtom(fs, k, P, l, k = "text", v, o)
        /\ b = SoloAtom(gs, k, P, l, k = "text", v, o)
    BY <1>1, <1>4, <1>6, <1>8, <2>1 DEF AtomOf
  <2>3. Disagree(fs, IndicesOf(fs, k, P)) <=> Disagree(gs, IndicesOf(gs, k, P))
    BY SameValues
  <2>4. /\ a.ts = t /\ a.kind = k /\ a.source = SourceOf[CHOOSE p \in P : TRUE]
        /\ a.base = IF Explicit(t) THEN l ELSE Lower(l)
        /\ a.strong <=> k = "text"
        /\ a.conflicted <=> Disagree(fs, IndicesOf(fs, k, P))
        /\ a.bad <=> FALSE
    BY <2>1, <2>2 DEF SoloAtom, Atom
  <2>5. /\ b.ts = t /\ b.kind = k /\ b.source = SourceOf[CHOOSE p \in P : TRUE]
        /\ b.base = IF Explicit(t) THEN l ELSE Lower(l)
        /\ b.strong <=> k = "text"
        /\ b.conflicted <=> Disagree(gs, IndicesOf(gs, k, P))
        /\ b.bad <=> FALSE
    BY <2>1, <2>2 DEF SoloAtom, Atom
  <2>6. Twins(a, b)
    BY <2>3, <2>4, <2>5 DEF Twins
  <2> QED
    BY <1>5, <2>6
<1> QED
  BY <1>7, <1>8

\* To hold the same fields is mutual.
LEMMA SameIsMutual ==
  ASSUME NEW fs, NEW gs, SameFields(fs, gs)
  PROVE  SameFields(gs, fs)
  BY DEF SameFields

\* A source has the same issues.
LEMMA SameSourceIssues ==
  ASSUME NEW fs, NEW gs, SameFields(fs, gs), NEW s
  PROVE  SourceIssues(fs, s) = SourceIssues(gs, s)
<1>1. /\ \A k, P : IndicesOf(fs, k, P) = {} <=> IndicesOf(gs, k, P) = {}
      /\ \A k, P : Disagree(fs, IndicesOf(fs, k, P)) <=> Disagree(gs, IndicesOf(gs, k, P))
      /\ \A p : BadCompanion(fs, p) <=> BadCompanion(gs, p)
  <2>1. \A k, P : IndicesOf(fs, k, P) = {} <=> IndicesOf(gs, k, P) = {}
    BY SameIndices
  <2>2. \A k, P : Disagree(fs, IndicesOf(fs, k, P)) <=> Disagree(gs, IndicesOf(gs, k, P))
    BY SameValues
  <2>3. \A p : BadCompanion(fs, p) <=> BadCompanion(gs, p)
    BY SameScopes
  <2> QED
    BY <2>1, <2>2, <2>3
<1> DEFINE P == ScopesOf(s)
           Repeats(xs) == \E d \in Compared(P) :
                            Disagree(xs, IndicesOf(xs, d[1], d[2]))
                            /\ (d[1] \in {"offset", "subsec"}
                                => IndicesOf(xs, "dto", d[2]) # {})
           Spoils(xs) == \E p \in P : IndicesOf(xs, "dto", {p}) # {}
               /\ BadCompanion(xs, p)
           Orphans(xs) == \E p \in P : /\ IndicesOf(xs, "dto", {p}) = {}
                                      /\ IndicesOf(xs, "offset", {p})
                                           \cup IndicesOf(xs, "subsec", {p}) # {}
<1>2. \A xs, c : c \in SourceIssues(xs, s) <=>
                   \/ c = "RepeatedFieldConflict" /\ Repeats(xs)
                   \/ c = "InvalidCompanion" /\ Spoils(xs)
                   \/ c = "OrphanExifCompanion" /\ Orphans(xs)
  BY DEF SourceIssues
<1>3. Repeats(fs) <=> Repeats(gs)
  BY <1>1
<1>4. Spoils(fs) <=> Spoils(gs)
  BY <1>1
<1>5. Orphans(fs) <=> Orphans(gs)
  BY <1>1
<1> HIDE DEF Repeats, Spoils, Orphans
<1>6. PICK A, B : A = SourceIssues(fs, s) /\ B = SourceIssues(gs, s)
  OBVIOUS
<1>7. \A c : c \in A <=> c \in B
  BY <1>2, <1>3, <1>4, <1>5, <1>6
<1> QED
  BY <1>6, <1>7

\* What the atoms say does not change when the observations do.
LEMMA TwinSets ==
  ASSUME NEW A, NEW B,
         \A a \in A : \E b \in B : Twins(a, b),
         \A b \in B : \E a \in A : Twins(b, a)
  PROVE  /\ StrongIssues(A) = StrongIssues(B)
         /\ LineageConflict(A) <=> LineageConflict(B)
         /\ {a.ts : a \in A} = {b.ts : b \in B}
<1>1. {a.ts : a \in {x \in A : x.strong}} = {b.ts : b \in {x \in B : x.strong}}
  BY DEF Twins
<1>2. StrongDistances(A) = StrongDistances(B)
  <2>1. PICK S : S = {a.ts : a \in {x \in A : x.strong}}
    OBVIOUS
  <2>2. S = {b.ts : b \in {x \in B : x.strong}}
    BY <1>1, <2>1
  <2> DEFINE instants == {Instant(t) : t \in {u \in S : Explicit(u)}}
             floating == {t \in S : ~Explicit(t)}
             walls == {t.wall : t \in S}
             D == (IF instants = {} THEN {} ELSE {Max(instants) - Min(instants)})
                    \cup {Max({t.wall - Min(walls), Max(walls) - t.wall}) :
                          t \in floating}
  <2>3. StrongDistances(A) = D
    BY <2>1 DEF StrongDistances
  <2>4. StrongDistances(B) = D
    BY <2>2 DEF StrongDistances
  <2> HIDE DEF D
  <2> QED
    BY <2>3, <2>4
<1>3. StrongIssues(A) = StrongIssues(B)
  BY <1>2 DEF StrongIssues
<1>4. LineageConflict(A) => LineageConflict(B)
  BY DEF LineageConflict, Twins
<1>5. LineageConflict(B) => LineageConflict(A)
  BY DEF LineageConflict, Twins
<1>6. {a.ts : a \in A} = {b.ts : b \in B}
  BY DEF Twins
<1> QED
  BY <1>3, <1>4, <1>5, <1>6

\* The reports have the same times and the same issues.
LEMMA SameIssues ==
  ASSUME NEW fs \in Seq(Supply), NEW gs \in Seq(Supply), SameFields(fs, gs), NEW h
  PROVE  Issues(fs, h) = Issues(gs, h) /\ Times(fs, h) = Times(gs, h)
<1>1. SameFields(gs, fs)
  BY SameIsMutual
<1>2. PICK A, B : A = Atoms(fs, h) /\ B = Atoms(gs, h)
  OBVIOUS
<1>3. (\A a \in A : \E b \in B : Twins(a, b)) /\ (\A b \in B : \E a \in A : Twins(b, a))
  BY <1>1, <1>2, TwinAtoms
<1>4. /\ StrongIssues(A) = StrongIssues(B)
      /\ LineageConflict(A) <=> LineageConflict(B)
  BY <1>3, TwinSets
<1>5. Times(fs, h) = Times(gs, h)
  <2>1. {a.ts : a \in A} = {b.ts : b \in B}
    BY <1>3, TwinSets
  <2> QED
    BY <1>2, <2>1 DEF Times
<1>6. Mismatched(fs) = Mismatched(gs) /\ Trusted(fs, h) = Trusted(gs, h)
  BY SameTrust
<1>7. \A s : SourceIssues(fs, s) = SourceIssues(gs, s)
  BY SameSourceIssues
<1>8. (\E i \in DOMAIN fs : fs[i].val \in Bad) <=> (\E i \in DOMAIN gs : gs[i].val \in Bad)
  BY DEF SameFields
<1>9. PICK C, D : C = Issues(fs, h) /\ D = Issues(gs, h)
  OBVIOUS
<1>10. \A c : c \in C <=> c \in D
  <2> TAKE c
  <2>1. c \in C <=>
           \/ \E s \in Trusted(fs, h) : c \in SourceIssues(fs, s)
           \/ c \in StrongIssues(A)
           \/ c = "LineageConflict" /\ LineageConflict(A)
           \/ c = "ExtractionReportUntrusted" /\ h # {}
           \/ c = "ContainerFormatMismatch" /\ Mismatched(fs) # {}
           \/ c = "InvalidField" /\ \E i \in DOMAIN fs : fs[i].val \in Bad
    BY <1>2, <1>9, IssueIs
  <2>2. c \in D <=>
           \/ \E s \in Trusted(gs, h) : c \in SourceIssues(gs, s)
           \/ c \in StrongIssues(B)
           \/ c = "LineageConflict" /\ LineageConflict(B)
           \/ c = "ExtractionReportUntrusted" /\ h # {}
           \/ c = "ContainerFormatMismatch" /\ Mismatched(gs) # {}
           \/ c = "InvalidField" /\ \E i \in DOMAIN gs : gs[i].val \in Bad
    BY <1>2, <1>9, IssueIs
  <2> QED
    BY <1>4, <1>6, <1>7, <1>8, <2>1, <2>2
<1> QED
  BY <1>5, <1>9, <1>10

\* Candidates that differ in their observations at most.
Alike(c, d) == /\ c.ts = d.ts /\ c.kinds = d.kinds /\ c.sources = d.sources
               /\ c.confidence = d.confidence /\ c.gate = d.gate

\* The atoms of one time are twins.
LEMMA SameMine ==
  ASSUME NEW fs \in Seq(Supply), NEW gs \in Seq(Supply), SameFields(fs, gs), NEW h, NEW t
  PROVE  /\ \A a \in Mine(fs, h, t) : \E b \in Mine(gs, h, t) : Twins(a, b)
         /\ \A b \in Mine(gs, h, t) : \E a \in Mine(fs, h, t) : Twins(b, a)
<1>1. SameFields(gs, fs)
  BY SameIsMutual
<1>2. PICK A, B : A = Atoms(fs, h) /\ B = Atoms(gs, h)
  OBVIOUS
<1>3. (\A a \in A : \E b \in B : Twins(a, b)) /\ (\A b \in B : \E a \in A : Twins(b, a))
  BY <1>1, <1>2, TwinAtoms
<1>4. ASSUME NEW a \in Mine(fs, h, t)
      PROVE  \E b \in Mine(gs, h, t) : Twins(a, b)
  <2>1. PICK b \in B : Twins(a, b)
    BY <1>2, <1>3, TimesAre
  <2>2. b \in Mine(gs, h, t)
    BY <1>2, <2>1, TimesAre DEF Twins
  <2> QED
    BY <2>1, <2>2
<1>5. ASSUME NEW b \in Mine(gs, h, t)
      PROVE  \E a \in Mine(fs, h, t) : Twins(b, a)
  <2>1. PICK a \in A : Twins(b, a)
    BY <1>2, <1>3, TimesAre
  <2>2. a \in Mine(fs, h, t)
    BY <1>2, <2>1, TimesAre DEF Twins
  <2> QED
    BY <2>1, <2>2
<1> QED
  BY <1>4, <1>5

\* The candidates of one time are alike before near values are looked for.
LEMMA SameRaw ==
  ASSUME NEW fs \in Seq(Supply), NEW gs \in Seq(Supply), SameFields(fs, gs), NEW h, NEW t
  PROVE  Alike(Raw(fs, h, t), Raw(gs, h, t))
<1>1. PICK r, q : r = Raw(fs, h, t) /\ q = Raw(gs, h, t)
  OBVIOUS
<1>2. PICK A, B : A = Mine(fs, h, t) /\ B = Mine(gs, h, t)
  OBVIOUS
<1>3. (\A a \in A : \E b \in B : Twins(a, b)) /\ (\A b \in B : \E a \in A : Twins(b, a))
  BY <1>2, SameMine
<1>4. /\ \A k : (\E a \in A : k = a.kind) <=> (\E b \in B : k = b.kind)
      /\ \A s : (\E a \in A : s = a.source) <=> (\E b \in B : s = b.source)
      /\ (\E a \in A : a.bad) <=> (\E b \in B : b.bad)
      /\ (\E a \in A : a.conflicted) <=> (\E b \in B : b.conflicted)
  BY <1>3 DEF Twins
<1>5. Bases(fs, h, t) = Bases(gs, h, t)
  <2>1. {a.base : a \in A} = {b.base : b \in B}
    BY <1>3 DEF Twins
  <2> QED
    BY <1>2, <2>1 DEF Bases
<1>6. (Contrary(fs, h) <=> Contrary(gs, h)) /\ (Doubtful(fs, h) <=> Doubtful(gs, h))
  BY SameIssues DEF Contrary, Doubtful
<1>7. r.kinds = q.kinds
  <2>1. PICK K, L : K = r.kinds /\ L = q.kinds
    OBVIOUS
  <2>2. \A k : k \in K <=> \E a \in A : k = a.kind
    BY <1>1, <1>2, <2>1, RawIs
  <2>3. \A k : k \in L <=> \E b \in B : k = b.kind
    BY <1>1, <1>2, <2>1, RawIs
  <2>4. \A k : k \in K <=> k \in L
    BY <1>4, <2>2, <2>3
  <2> QED
    BY <2>1, <2>4
<1>8. r.sources = q.sources
  <2>1. PICK K, L : K = r.sources /\ L = q.sources
    OBVIOUS
  <2>2. \A k : k \in K <=> \E a \in A : k = a.source
    BY <1>1, <1>2, <2>1, RawIs
  <2>3. \A k : k \in L <=> \E b \in B : k = b.source
    BY <1>1, <1>2, <2>1, RawIs
  <2>4. \A k : k \in K <=> k \in L
    BY <1>4, <2>2, <2>3
  <2> QED
    BY <2>1, <2>4
<1>9. r.anomalies = q.anomalies
  <2>1. PICK K, L : K = r.anomalies /\ L = q.anomalies
    OBVIOUS
  <2>2. \A x : x \in K <=> \/ x \in Anomalies(t, r.kinds)
                           \/ x = "InvalidCompanion" /\ \E a \in A : a.bad
    BY <1>1, <1>2, <2>1, RawIs
  <2>3. \A x : x \in L <=> \/ x \in Anomalies(t, q.kinds)
                           \/ x = "InvalidCompanion" /\ \E b \in B : b.bad
    BY <1>1, <1>2, <2>1, RawIs
  <2>4. \A x : x \in K <=> x \in L
    BY <1>4, <1>7, <2>2, <2>3
  <2> QED
    BY <2>1, <2>4
<1>10. r.confidence = q.confidence
  <2>1. r.confidence =
          IF Contrary(fs, h) \/ \E a \in A : a.conflicted THEN "Conflict"
          ELSE IF r.anomalies \cap {"Sentinel", "Future", "OutsideRange"} # {}
            THEN "Low" ELSE Highest(Bases(fs, h, t))
    BY <1>1, <1>2, RawIs
  <2>2. q.confidence =
          IF Contrary(gs, h) \/ \E b \in B : b.conflicted THEN "Conflict"
          ELSE IF q.anomalies \cap {"Sentinel", "Future", "OutsideRange"} # {}
            THEN "Low" ELSE Highest(Bases(gs, h, t))
    BY <1>1, <1>2, RawIs
  <2> QED
    BY <1>4, <1>5, <1>6, <1>9, <2>1, <2>2
<1>11. r.gate = q.gate
  <2>1. PICK K, L : K = r.gate /\ L = q.gate
    OBVIOUS
  <2>2. (\A x : x \in K <=> BarredBy(fs, h, r, x))
          /\ (\A x : x \in L <=> BarredBy(gs, h, q, x))
    BY <1>1, <2>1, RawIs
  <2>3. \A x : BarredBy(fs, h, r, x) <=> BarredBy(gs, h, q, x)
    BY <1>6, <1>9, <1>10 DEF BarredBy
  <2>4. \A x : x \in K <=> x \in L
    BY <2>2, <2>3
  <2> QED
    BY <2>1, <2>4
<1>12. r.ts = t /\ q.ts = t
  BY <1>1, RawIs
<1> QED
  BY <1>1, <1>7, <1>8, <1>10, <1>11, <1>12 DEF Alike

\* Alike candidates are near to, preferred to and as eligible as the same others.
LEMMA AlikeNear ==
  ASSUME NEW c, NEW d, Alike(c, d), NEW e, NEW f, Alike(e, f)
  PROVE  /\ Near(c, e) <=> Near(d, f)
         /\ Preferred(c, e) <=> Preferred(d, f)
         /\ Eligible(c) <=> Eligible(d)
<1>1. /\ c.ts = d.ts /\ c.kinds = d.kinds /\ c.confidence = d.confidence
      /\ c.gate = d.gate
      /\ e.ts = f.ts /\ e.kinds = f.kinds /\ e.confidence = f.confidence
  BY DEF Alike
<1>2. PriorityOf(c) = PriorityOf(d) /\ PriorityOf(e) = PriorityOf(f)
  BY <1>1 DEF PriorityOf
<1>3. Merit(c) = Merit(d) /\ Merit(e) = Merit(f)
  BY <1>1, <1>2 DEF Merit
<1>4. Preferred(c, e) <=> Preferred(d, f)
  BY <1>3 DEF Preferred
<1>5. Near(c, e) <=> Near(d, f)
  BY <1>1, <1>2 DEF Near
<1>6. Eligible(c) <=> Eligible(d)
  BY <1>1 DEF Eligible
<1> QED
  BY <1>4, <1>5, <1>6

\* The candidates of one time are alike.
LEMMA SameFull ==
  ASSUME NEW fs \in Seq(Supply), NEW gs \in Seq(Supply), SameFields(fs, gs), NEW h, NEW t
  PROVE  Alike(Full(fs, h, t), Full(gs, h, t))
<1>1. \A u : Alike(Raw(fs, h, u), Raw(gs, h, u))
  BY SameRaw
<1>2. Times(fs, h) = Times(gs, h)
  BY SameIssues
<1>3. \A u : Near(Raw(fs, h, t), Raw(fs, h, u)) <=> Near(Raw(gs, h, t), Raw(gs, h, u))
  BY <1>1, AlikeNear
<1>4. Beside(fs, h, t) <=> Beside(gs, h, t)
  BY <1>2, <1>3 DEF Beside
<1>5. PICK c, d, r, q : /\ c = Full(fs, h, t) /\ d = Full(gs, h, t)
                        /\ r = Raw(fs, h, t) /\ q = Raw(gs, h, t)
  OBVIOUS
<1>6. Alike(r, q)
  BY <1>1, <1>5
<1>7. /\ c.ts = t /\ c.kinds = r.kinds /\ c.sources = r.sources
      /\ c.confidence = r.confidence
      /\ c.gate = r.gate \cup (IF Beside(fs, h, t) THEN {"NearValue"} ELSE {})
  BY <1>5, FullIs
<1>8. /\ d.ts = t /\ d.kinds = q.kinds /\ d.sources = q.sources
      /\ d.confidence = q.confidence
      /\ d.gate = q.gate \cup (IF Beside(gs, h, t) THEN {"NearValue"} ELSE {})
  BY <1>5, FullIs
<1>9. c.gate = d.gate
  BY <1>4, <1>6, <1>7, <1>8 DEF Alike
<1> QED
  BY <1>5, <1>6, <1>7, <1>8, <1>9 DEF Alike

\* To every candidate of one report there is one alike in the other.
LEMMA SameCandidates ==
  ASSUME NEW fs \in Seq(Supply), NEW gs \in Seq(Supply), SameFields(fs, gs), NEW h
  PROVE  \A c \in Candidates(fs, h) : \E d \in Candidates(gs, h) : Alike(c, d)
<1> TAKE c \in Candidates(fs, h)
<1>1. PICK t \in Times(fs, h) : c = Full(fs, h, t)
  BY CandidatesAre
<1>2. t \in Times(gs, h)
  BY SameIssues
<1>3. Full(gs, h, t) \in Candidates(gs, h)
  BY <1>2, CandidatesAre
<1> QED
  BY <1>1, <1>3, SameFull

\* The best of two sets whose elements are alike, pair by pair, are alike.
LEMMA SameBest ==
  ASSUME NEW fs \in Seq(Supply), NEW gs \in Seq(Supply), NEW h,
         NEW C \in SUBSET Candidates(fs, h), NEW D \in SUBSET Candidates(gs, h), C # {},
         \A c \in C : \E d \in D : Alike(c, d),
         \A d \in D : \E c \in C : Alike(d, c)
  PROVE  Alike(Best(C), Best(D))
<1>1. Best(C) \in C /\ \A c \in C \ {Best(C)} : Preferred(Best(C), c)
  BY BestIs
<1>2. PICK b \in D : Alike(Best(C), b)
  BY <1>1
<1>3. ASSUME NEW d \in D \ {b}
      PROVE  Preferred(b, d)
  <2>1. PICK c \in C : Alike(d, c)
    OBVIOUS
  <2>2. CASE c # Best(C)
    <3>1. Preferred(Best(C), c)
      BY <1>1, <2>2
    <3>2. Alike(c, d)
      BY <2>1 DEF Alike
    <3> QED
      BY <1>2, <3>1, <3>2, AlikeNear
  <2>3. CASE c = Best(C)
    <3>1. d.ts = b.ts
      BY <1>2, <2>1, <2>3 DEF Alike
    <3>2. d = b
      <4>1. PICK t \in Times(gs, h) : d = Full(gs, h, t)
        BY CandidatesAre
      <4>2. PICK u \in Times(gs, h) : b = Full(gs, h, u)
        BY CandidatesAre
      <4>3. d.ts = t /\ b.ts = u
        BY <4>1, <4>2, FullIs
      <4> QED
        BY <3>1, <4>1, <4>2, <4>3
    <3> QED
      BY <3>2
  <2> QED
    BY <2>2, <2>3
<1>4. b = Best(D)
  BY <1>3, BestIs
<1> QED
  BY <1>2, <1>4

\* What a conclusion keeps of a candidate.
PlainOf(c) == [ts |-> c.ts, kinds |-> c.kinds, sources |-> c.sources,
               confidence |-> c.confidence, gate |-> c.gate]

\* A conclusion, by what it keeps of a candidate.
LEMMA ConclusionIs ==
  ASSUME NEW n
  PROVE  Conclusion(n) = <<n.decision, IF n.selected = None THEN None
         ELSE PlainOf(n.selected),
                           {PlainOf(c) : c \in n.candidates}>>
  BY DEF Conclusion, PlainOf

\* The decision, the selected candidate and all candidates depend on which
\* fields the reports hold and which of them are damaged, but on no order and no
\* number of repetitions: of several equal or different values none is preferred
\* (analyze_timestamp_evidence).
THEOREM SameConclusion ==
  ASSUME NEW fs \in Seq(Supply), NEW gs \in Seq(Supply), SameFields(fs, gs), NEW h
  PROVE  Conclusion(Analyze(fs, h)) = Conclusion(Analyze(gs, h))
<1>1. SameFields(gs, fs)
  BY SameIsMutual
<1>2. PICK C, D, fit, mate : /\ C = Candidates(fs, h) /\ D = Candidates(gs, h)
                             /\ fit = {c \in C : Eligible(c)}
                             /\ mate = {d \in D : Eligible(d)}
  OBVIOUS
<1>3. (\A c \in C : \E d \in D : Alike(c, d)) /\ (\A d \in D : \E c \in C : Alike(d, c))
  BY <1>1, <1>2, SameCandidates
<1>4. \A c, d : Alike(c, d) => (Eligible(c) <=> Eligible(d)) /\ PlainOf(c) = PlainOf(d)
  BY DEF Alike, Eligible, PlainOf
<1>5. /\ \A c \in fit : \E d \in mate : Alike(c, d)
      /\ \A d \in mate : \E c \in fit : Alike(d, c)
  BY <1>2, <1>3, <1>4
<1>6. fit \in SUBSET C /\ mate \in SUBSET D
  BY <1>2
<1>7. (C = {} <=> D = {}) /\ (fit = {} <=> mate = {})
  BY <1>3, <1>5
<1>8. Contrary(fs, h) <=> Contrary(gs, h)
  BY SameIssues DEF Contrary
<1>9. C # {} => Alike(Best(C), Best(D))
  BY <1>2, <1>3, SameBest
<1>10. fit # {} => Alike(Best(fit), Best(mate))
  BY <1>2, <1>5, <1>6, SameBest
<1>11. PICK n, m : n = Analyze(fs, h) /\ m = Analyze(gs, h)
  OBVIOUS
<1>12. /\ n.candidates = C
       /\ Contrary(fs, h) => n.decision = "Conflict" /\ n.selected = None
       /\ ~Contrary(fs, h) /\ C = {}
            => n.decision = "NoUsableEvidence" /\ n.selected = None
       /\ ~Contrary(fs, h) /\ fit # {} =>
            n.decision = "EvidenceEligible" /\ n.selected = Best(fit)
       /\ ~Contrary(fs, h) /\ C # {} /\ fit = {} =>
            n.decision = "ReviewRequired" /\ n.selected = Best(C)
  BY <1>2, <1>11, AnalyzeIs
<1>13. /\ m.candidates = D
       /\ Contrary(gs, h) => m.decision = "Conflict" /\ m.selected = None
       /\ ~Contrary(gs, h) /\ D = {}
            => m.decision = "NoUsableEvidence" /\ m.selected = None
       /\ ~Contrary(gs, h) /\ mate # {} =>
            m.decision = "EvidenceEligible" /\ m.selected = Best(mate)
       /\ ~Contrary(gs, h) /\ D # {} /\ mate = {} =>
            m.decision = "ReviewRequired" /\ m.selected = Best(D)
  BY <1>2, <1>11, AnalyzeIs
<1>14. (fit # {} => C # {}) /\ (mate # {} => D # {})
  BY <1>6
<1>15. (C # {} => Best(C) # None /\ Best(D) # None)
       /\ (fit # {} => Best(fit) # None /\ Best(mate) # None)
  <2>1. \A c : c \in C \/ c \in D => c # None
    BY <1>2, CandidateTyped, Absent
  <2>2. C # {} => Best(C) \in C /\ Best(D) \in D
    BY <1>2, <1>7, BestIs
  <2>3. fit # {} => Best(fit) \in fit /\ Best(mate) \in mate
    <3>1. fit \in SUBSET Candidates(fs, h) /\ mate \in SUBSET Candidates(gs, h)
      BY <1>2, <1>6
    <3>2. fit # {} => Best(fit) \in fit
      BY <3>1, BestIs
    <3>3. mate # {} => Best(mate) \in mate
      BY <3>1, BestIs
    <3> QED
      BY <1>7, <3>2, <3>3
  <2> QED
    BY <1>6, <2>1, <2>2, <2>3
<1>16. /\ n.decision = m.decision
       /\ \/ n.selected = None /\ m.selected = None
          \/ n.selected # None /\ m.selected # None /\ Alike(n.selected, m.selected)
  BY <1>7, <1>8, <1>9, <1>10, <1>12, <1>13, <1>14, <1>15
<1>17. (IF n.selected = None THEN None ELSE PlainOf(n.selected))
         = (IF m.selected = None THEN None ELSE PlainOf(m.selected))
  BY <1>4, <1>16
<1>18. {PlainOf(c) : c \in C} = {PlainOf(d) : d \in D}
  <2>1. \A c \in C : \E d \in D : PlainOf(c) = PlainOf(d)
    BY <1>3, <1>4
  <2>2. \A d \in D : \E c \in C : PlainOf(d) = PlainOf(c)
    BY <1>3, <1>4
  <2> QED
    BY <2>1, <2>2
<1>19. {PlainOf(c) : c \in n.candidates} = {PlainOf(c) : c \in m.candidates}
  BY <1>12, <1>13, <1>18
<1> QED
  BY <1>11, <1>16, <1>17, <1>19, ConclusionIs

\* A reversed report holds the same fields.
LEMMA ReverseIs ==
  ASSUME NEW fs \in Seq(Supply)
  PROVE  Reverse(fs) \in Seq(Supply) /\ SameFields(Reverse(fs), fs)
<1>1. PICK n : n = Len(fs) /\ n \in Nat
  OBVIOUS
<1>2. DOMAIN fs = 1..n /\ \A i \in 1..n : fs[i] \in Supply
  BY <1>1
<1>3. PICK gs : gs = [i \in 1..n |-> fs[(n - i) + 1]]
  OBVIOUS
<1>4. Reverse(fs) = gs
  BY <1>1, <1>3 DEF Reverse
<1>5. \A i \in 1..n : (n - i) + 1 \in 1..n /\ (n - ((n - i) + 1)) + 1 = i
  BY <1>1
<1>6. DOMAIN gs = 1..n /\ \A i \in 1..n : gs[i] = fs[(n - i) + 1]
  BY <1>3
<1>7. gs \in Seq(Supply)
  <2>1. gs \in [1..n -> Supply]
    BY <1>2, <1>3, <1>5
  <2> QED
    BY <1>1, <2>1
<1>8. \A i \in DOMAIN gs : \E j \in DOMAIN fs : fs[j] = gs[i]
  BY <1>2, <1>5, <1>6
<1>9. \A j \in DOMAIN fs : \E i \in DOMAIN gs : gs[i] = fs[j]
  BY <1>2, <1>5, <1>6
<1> QED
  BY <1>4, <1>7, <1>8, <1>9 DEF SameFields

\* A report reversed holds the same fields, so the invariant gives the same
\* conclusion.
LEMMA PolicyInvOrder == PolicyInv => OrderIrrelevant
<1> SUFFICES ASSUME PolicyInv, phase = "analysed"
             PROVE  Conclusion(Analyze(Reverse(fields), damaged)) = Conclusion(analysis)
  BY DEF OrderIrrelevant
<1>1. fields \in Seq(Supply) /\ analysis = Analyze(fields, damaged)
  BY DEF PolicyInv, PolicyTypeOK
<1>2. Reverse(fields) \in Seq(Supply) /\ SameFields(Reverse(fields), fields)
  BY <1>1, ReverseIs
<1> QED
  BY <1>1, <1>2, SameConclusion

\* The conclusion is the same for the report reversed: of repeated fields and
\* companions, the first has no preference (has_semantic_conflict, unique_offset,
\* unique_subsecond).
THEOREM OrderNeverMatters == PolicySpec => []OrderIrrelevant
  BY PolicyInvHolds, PolicyInvOrder, PTL
=============================================================================
