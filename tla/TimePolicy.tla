----------------------------- MODULE TimePolicy -----------------------------
(***************************************************************************)
(* What a group's metadata says of its capture time: the policy that turns *)
(* the extracted fields into candidates and one decision                   *)
(* (guiying-time/src/policy.rs), the check by which the store derives an   *)
(* eligible candidate's support again from its own rows, and the           *)
(* comparison of a member's file times, which runtime and store both make  *)
(* (guiying-runtime/src/time_bridge.rs, guiying-store/src/repository.rs).  *)
(*                                                                         *)
(* The policy is pure.  A report grows here by one retained field or one   *)
(* structural issue at a time, then it is analysed, its selected candidate *)
(* is stored and a member is assessed.  Times are integers in a unit finer *)
(* than a second; a wall time is written without its offset.  A value is   *)
(* the parsed one or, when strict parsing rejects it, a member of Bad that *)
(* stands for the error and the bytes; a field's other bytes, encoding,    *)
(* locator and parser, the limits, and rules on malformed reports which    *)
(* the extractor of this repository never makes are left out.              *)
(***************************************************************************)
EXTENDS Integers, Sequences, FiniteSets, FiniteSetsExt, SequencesExt

CONSTANTS
  Scopes,       \* metadata scopes, in the order a report lists them: 1..n
  SourceOf,     \* the concrete source a scope belongs to
  FormatOf,     \* its format: "photo" (JPEG, TIFF) or "movie" (ISO BMFF)
  LineageOf,    \* the lineage of a source: copies of one content share it
  Walls,        \* wall times a date field may hold, whole seconds
  Fractions,    \* subseconds a field may hold, each finer than Second
  Offsets,      \* UTC offsets in hours
  FileTimes,    \* times a member's birth and modification may have
  Grains,       \* timestamp granularities of a volume
  Bad,          \* values strict parsing rejects
  None,         \* no offset, no birth time, no granularity, no candidate
  Second, Hour, \* a second and an hour in time units
  Tolerance,    \* strong values within it do not contradict each other
  Sentinels,    \* wall times of sentinel years or rules
  Earliest,     \* first instant of the automatic range
  Horizon,      \* last instant that is not obviously in the future
  Supply,       \* fields the reports may retain
  MaxFields,    \* bound: fields and issues of all reports together
  MaxDamaged    \* bound: reports with an extraction issue

FieldKinds   == {"dto", "create", "modify", "offset", "subsec", "text", "mvhd"}
Sources == {SourceOf[p] : p \in Scopes}

ASSUME Layout ==
  /\ IsFiniteSet(Scopes) /\ Scopes = 1..Cardinality(Scopes)
  /\ SourceOf \in [Scopes -> Sources] /\ DOMAIN LineageOf = Sources
  /\ FormatOf \in [Sources -> {"photo", "movie"}]
ASSUME Scale ==
  /\ {Second, Hour, Tolerance, MaxFields, MaxDamaged} \subseteq Nat
  /\ Second > 1 /\ Fractions \subseteq 0..(Second - 1)
  /\ Walls \cup Offsets \cup FileTimes \cup Grains \cup {Earliest, Horizon} \subseteq Int

Stamps == [wall: Int, off: Int \cup {None}, prec: {1, Second}, assumed: BOOLEAN]

DateKinds == {"dto", "text", "create", "modify", "mvhd"}
Grades    == {"Low", "Medium", "High"}

AnomalyCodes == {"MissingOffset", "EpochUncertain", "Sentinel", "Future", "OutsideRange",
                 "InvalidCompanion"}
GateReasons  == (AnomalyCodes \ {"InvalidCompanion"})
                  \cup {"ConfidenceBelowHigh", "EvidenceConflict",
                        "InvalidEvidencePresent", "NearValue"}

TimeCandidates ==
  [ts: Stamps, kinds: SUBSET DateKinds, sources: SUBSET Sources, obs: SUBSET Nat,
   confidence: {"Conflict"} \cup Grades, anomalies: SUBSET AnomalyCodes,
   gate: SUBSET GateReasons]

Decisions == {"Conflict", "NoUsableEvidence", "EvidenceEligible", "ReviewRequired"}
Analyses  == [decision: Decisions, selected: TimeCandidates \cup {None},
              candidates: SUBSET TimeCandidates]

Files == [birth: FileTimes \cup {None}, modified: FileTimes, grain: Grains \cup {None}]

ASSUME Absent ==
  /\ None \notin Int \cup Bad /\ \A v \in Bad : v \notin Int
  /\ None \notin TimeCandidates /\ None \notin Analyses /\ None \notin Files

VARIABLES
  phase,      \* extracting, analysed, stored, refused, assessed or misread
  fields,     \* the retained fields of all sources, in order
  damaged,    \* sources whose report carries an extraction issue
  analysis,   \* the TimeAnalysis, None before
  member      \* file times of the member being assessed, None before

policyVars == <<phase, fields, damaged, analysis, member>>

\* what a report may retain: only the text form of a movie's date carries an
\* offset of its own
ASSUME Retainable ==
  \A f \in Supply :
    /\ DOMAIN f = {"kind", "place", "val", "off"}
    /\ f.kind \in FieldKinds /\ f.place \in Scopes
    /\ f.val \in CASE f.kind = "offset" -> Offsets \cup Bad
                   [] f.kind = "subsec" -> Fractions \cup Bad
                   [] OTHER -> Walls \cup Bad
    /\ f.off \in (IF f.kind = "text" THEN Offsets ELSE {}) \cup {None}

OfBox(k) == k \in {"text", "mvhd"}

Rank == [modify |-> 1, dto |-> 2, create |-> 3, offset |-> 4, subsec |-> 5,
         text |-> 6, mvhd |-> 7]

\* movie boxes only occur in ISO BMFF, whose HEIF item may hold an Exif block;
\* fields come place by place in tag order
Fits(f) ==
  /\ OfBox(f.kind) => FormatOf[SourceOf[f.place]] = "movie"
  /\ fields # << >> =>
       LET g == Last(fields)
       IN \/ g.place < f.place
          \/ g.place = f.place /\ Rank[g.kind] <= Rank[f.kind]

(***************************************************************************)
(* Interpreting the fields: sets of observation indices and what they say. *)
(***************************************************************************)
IndicesOf(fs, k, P) == {i \in DOMAIN fs : fs[i].kind = k /\ fs[i].place \in P}

Said(fs, I) == {<<fs[i].val, fs[i].off>> : i \in I}

\* repeated values of one kind that are not all the same
Disagree(fs, I) == Cardinality(Said(fs, I)) > 1

\* Variant: the first companion value counts
FirstValue(fs, I) ==
  IF I = {} \/ fs[Min(I)].val \in Bad THEN None ELSE fs[Min(I)].val

\* the one companion value, None when absent, malformed or not unique
OneValue(fs, I) ==
  LET V == {fs[i].val : i \in I}
  IN IF Cardinality(V) = 1 /\ V \cap Bad = {} THEN CHOOSE v \in V : TRUE ELSE None

Stamp(w, o, p, a) == [wall |-> w, off |-> o, prec |-> p, assumed |-> a]

Explicit(t) == t.off # None
Instant(t)  == t.wall - t.off * Hour

\* two readings of one instant mean the same whatever their precision
Meaning(t) == IF Explicit(t) THEN <<Instant(t), None>> ELSE <<t.wall, t.prec>>

Abs(n) == IF n < 0 THEN -n ELSE n

Levels == [Conflict |-> 0, Low |-> 1, Medium |-> 2, High |-> 3]
Lower(l) == IF l = "High" THEN "Medium" ELSE "Low"

Atom(t, k, s, obs, base, strong, conflicted, bad) ==
  [ts |-> t, kind |-> k, source |-> s, obs |-> obs, base |-> base,
   strong |-> strong, conflicted |-> conflicted, bad |-> bad]

BadCompanion(fs, p) ==
  \E k \in {"offset", "subsec"} :
    IndicesOf(fs, k, {p}) # {} /\ OneValue(fs, IndicesOf(fs, k, {p})) = None

\* DateTimeOriginal with the offset and the subsecond of its own scope
OriginalAtoms(fs, p) ==
  LET dto == IndicesOf(fs, "dto", {p})
      companions == IndicesOf(fs, "offset", {p}) \cup IndicesOf(fs, "subsec", {p})
      offset == OneValue(fs, IndicesOf(fs, "offset", {p}))
      fraction == OneValue(fs, IndicesOf(fs, "subsec", {p}))
      clash == Disagree(fs, dto) \/ BadCompanion(fs, p)
      Read(w) == IF fraction = None THEN Stamp(w, offset, Second, FALSE)
                                    ELSE Stamp(w + fraction, offset, 1, FALSE)
  IN {Atom(Read(w), "dto", SourceOf[p],
           {i \in dto : fs[i].val = w} \cup companions,
           IF offset = None THEN "Medium" ELSE "High", TRUE, clash,
           BadCompanion(fs, p)) :
        w \in {fs[i].val : i \in dto} \ Bad}

\* a date that stands alone; floating dates count one level less
SimpleAtoms(fs, k, P, base, strong) ==
  LET I == IndicesOf(fs, k, P)
      Read(v) == IF k = "mvhd" THEN Stamp(v[1], 0, Second, TRUE)
                               ELSE Stamp(v[1], v[2], Second, FALSE)
  IN {Atom(Read(v), k, SourceOf[CHOOSE p \in P : TRUE],
           {i \in I : <<fs[i].val, fs[i].off>> = v},
           IF Explicit(Read(v)) THEN base ELSE Lower(base), strong,
           Disagree(fs, I), FALSE) :
        v \in {u \in Said(fs, I) : u[1] \notin Bad}}

ScopesOf(s) == {p \in Scopes : SourceOf[p] = s}

SourceAtoms(fs, s) ==
  (UNION {OriginalAtoms(fs, p) \cup SimpleAtoms(fs, "create", {p}, "Medium", FALSE)
            \cup SimpleAtoms(fs, "modify", {p}, "Low", FALSE) : p \in ScopesOf(s)})
    \cup SimpleAtoms(fs, "text", ScopesOf(s), "Medium", TRUE)
    \cup SimpleAtoms(fs, "mvhd", ScopesOf(s), "Low", FALSE)

\* the container of a field must be the one of its report's format: Exif fields
\* of an ISO BMFF file contradict it, whatever item they came from
Mismatched(fs) ==
  {SourceOf[fs[i].place] :
     i \in {j \in DOMAIN fs : ~OfBox(fs[j].kind)
                              /\ FormatOf[SourceOf[fs[j].place]] = "movie"}}

\* a report with an issue or a contradiction supplies nothing
Trusted(fs, harmed) == Sources \ (harmed \cup Mismatched(fs))

Atoms(fs, harmed) == UNION {SourceAtoms(fs, s) : s \in Trusted(fs, harmed)}

(***************************************************************************)
(* Contradictions.                                                         *)
(***************************************************************************)
\* the values that are compared: by scope those of Exif, by source the others
Compared(P) ==
  {<<k, {p}>> : k \in {"dto", "offset", "subsec", "create", "modify"}, p \in P}
    \cup {<<"text", P>>, <<"mvhd", P>>}

SourceIssues(fs, s) ==
  LET P == ScopesOf(s)
  IN {c \in {"RepeatedFieldConflict", "InvalidCompanion", "OrphanExifCompanion"} :
       \/ /\ c = "RepeatedFieldConflict"
          /\ \E d \in Compared(P) :
               Disagree(fs, IndicesOf(fs, d[1], d[2]))
               /\ (d[1] \in {"offset", "subsec"} => IndicesOf(fs, "dto", d[2]) # {})
       \/ /\ c = "InvalidCompanion"
          /\ \E p \in P : IndicesOf(fs, "dto", {p}) # {} /\ BadCompanion(fs, p)
       \/ /\ c = "OrphanExifCompanion"
          /\ \E p \in P : /\ IndicesOf(fs, "dto", {p}) = {}
                          /\ IndicesOf(fs, "offset", {p})
                               \cup IndicesOf(fs, "subsec", {p}) # {}}

\* copies of one content cannot outvote each other
LineageConflict(atoms) ==
  \E a, b \in atoms :
    /\ LineageOf[a.source] = LineageOf[b.source] /\ a.kind = b.kind
    /\ Meaning(a.ts) # Meaning(b.ts)

\* Variant: floating values are not compared with the others
StrongDistancesOfInstants(atoms) ==
  LET instants == {Instant(a.ts) : a \in {b \in atoms : b.strong /\ Explicit(b.ts)}}
  IN IF instants = {} THEN {} ELSE {Max(instants) - Min(instants)}

\* the largest distance between explicit strong values, and, where a floating
\* one exists, the distances of the wall times from it
StrongDistances(atoms) ==
  LET strong == {a.ts : a \in {b \in atoms : b.strong}}
      instants == {Instant(t) : t \in {u \in strong : Explicit(u)}}
      floating == {t \in strong : ~Explicit(t)}
      walls == {t.wall : t \in strong}
  IN (IF instants = {} THEN {} ELSE {Max(instants) - Min(instants)})
       \cup {Max({t.wall - Min(walls), Max(walls) - t.wall}) : t \in floating}

\* one code stands for both: a distance near a whole hour is reported as
\* PossibleTimezoneConflict, which bars the group alike
StrongIssues(atoms) ==
  IF \E d \in StrongDistances(atoms) : d > Tolerance
    THEN {"StrongEvidenceConflict"} ELSE {}

\* an orphan or a rejected value only bars the automatic path
MakesConflict(c) == c \notin {"InvalidField", "OrphanExifCompanion"}

Issues(fs, harmed) ==
  (UNION {SourceIssues(fs, s) : s \in Trusted(fs, harmed)})
    \cup StrongIssues(Atoms(fs, harmed))
    \cup (IF LineageConflict(Atoms(fs, harmed)) THEN {"LineageConflict"} ELSE {})
    \cup (IF harmed # {} THEN {"ExtractionReportUntrusted"} ELSE {})
    \cup (IF Mismatched(fs) # {} THEN {"ContainerFormatMismatch"} ELSE {})
    \cup (IF \E i \in DOMAIN fs : fs[i].val \in Bad THEN {"InvalidField"} ELSE {})

(***************************************************************************)
(* Candidates: atoms with one timestamp become one candidate.              *)
(***************************************************************************)
Priority == [dto |-> 5, text |-> 4, create |-> 3, modify |-> 2, mvhd |-> 1]

PriorityOf(c) == Max({Priority[k] : k \in c.kinds})

Anomalies(t, kinds) ==
  {a \in {"MissingOffset", "EpochUncertain", "Sentinel", "Future", "OutsideRange"} :
     CASE a = "MissingOffset"  -> ~Explicit(t)
       [] a = "EpochUncertain" -> "mvhd" \in kinds
       [] a = "Sentinel"       -> t.wall \in Sentinels
       [] a = "Future"         -> Explicit(t) /\ Instant(t) > Horizon
       [] a = "OutsideRange"   -> Explicit(t) /\ Instant(t) < Earliest}

Highest(S) == CHOOSE l \in S : \A m \in S : Levels[m] <= Levels[l]

\* what bars a candidate from the automatic path, apart from near values
Blockers(level, anomalies, conflict, invalid) ==
  (IF level # "High" THEN {"ConfidenceBelowHigh"} ELSE {})
    \cup (anomalies \ {"InvalidCompanion"})
    \cup (IF conflict \/ level = "Conflict" THEN {"EvidenceConflict"} ELSE {})
    \cup (IF invalid \/ "InvalidCompanion" \in anomalies
             THEN {"InvalidEvidencePresent"} ELSE {})

Candidate(t, atoms, issues) ==
  LET mine == {a \in atoms : a.ts = t}
      kinds == {a.kind : a \in mine}
      anomalies == Anomalies(t, kinds)
                     \cup (IF \E a \in mine : a.bad THEN {"InvalidCompanion"} ELSE {})
      conflict == \E c \in issues : MakesConflict(c)
      invalid == issues \cap {"InvalidField", "InvalidCompanion",
                               "OrphanExifCompanion"} # {}
      level == IF conflict \/ \E a \in mine : a.conflicted THEN "Conflict"
               ELSE IF anomalies \cap {"Sentinel", "Future", "OutsideRange"} # {}
                 THEN "Low" ELSE Highest({a.base : a \in mine})
  IN [ts |-> t, kinds |-> kinds, sources |-> {a.source : a \in mine},
      obs |-> UNION {a.obs : a \in mine}, confidence |-> level,
      anomalies |-> anomalies, gate |-> Blockers(level, anomalies, conflict, invalid)]

\* High values of one priority that are near but not equal bar each other;
\* among sorted values a near one exists just when a neighbour is near
Near(c, d) ==
  /\ c.confidence = "High" /\ d.confidence = "High"
  /\ Explicit(c.ts) /\ Explicit(d.ts) /\ PriorityOf(c) = PriorityOf(d)
  /\ Instant(c.ts) # Instant(d.ts)
  /\ Abs(Instant(c.ts) - Instant(d.ts)) <= Tolerance

Candidates(fs, harmed) ==
  LET atoms == Atoms(fs, harmed)
      all == {Candidate(t, atoms, Issues(fs, harmed)) : t \in {a.ts : a \in atoms}}
  IN {IF \E d \in all : Near(c, d)
        THEN [c EXCEPT !.gate = @ \cup {"NearValue"}] ELSE c : c \in all}

Eligible(c) == c.gate = {}

\* the order of preference, most important first; the value itself breaks ties
Merit(c) == <<Levels[c.confidence], IF Explicit(c.ts) THEN 1 ELSE 0,
              PriorityOf(c), -c.ts.prec, -c.ts.wall,
              IF Explicit(c.ts) THEN -c.ts.off ELSE 0>>

Preferred(c, d) ==
  \E i \in 1..6 : /\ Merit(c)[i] > Merit(d)[i]
                 /\ \A j \in 1..(i - 1) : Merit(c)[j] = Merit(d)[j]

Best(C) == CHOOSE c \in C : \A d \in C \ {c} : Preferred(c, d)

Analyze(fs, harmed) ==
  LET C == Candidates(fs, harmed)
      fit == {c \in C : Eligible(c)}
      Answer(d, c) == [decision |-> d, selected |-> c, candidates |-> C]
  IN IF \E c \in Issues(fs, harmed) : MakesConflict(c) THEN Answer("Conflict", None)
     ELSE IF C = {} THEN Answer("NoUsableEvidence", None)
     ELSE IF fit # {} THEN Answer("EvidenceEligible", Best(fit))
     ELSE Answer("ReviewRequired", Best(C))

(***************************************************************************)
(* The store derives an eligible candidate's support from its own rows.    *)
(***************************************************************************)
Repeated(fs, I) ==
  \E i, j \in I : /\ i # j /\ fs[i].place = fs[j].place /\ fs[i].kind = fs[j].kind
                  /\ fs[i].kind \in {"dto", "offset", "subsec"}

\* what the observations of one Exif scope say together
ScopeSays(fs, I, p) ==
  LET V(k) == {fs[i].val : i \in {j \in I : fs[j].kind = k /\ fs[j].place = p}}
  IN [dto |-> V("dto"), offset |-> V("offset"), subsec |-> V("subsec")]

\* Variant: the precision of a subsecond is forgotten
ScopeMatchesInSeconds(says, t) ==
  /\ says.dto # {} /\ says.offset = {t.off} /\ t.prec = Second
  /\ \A w \in says.dto : \A f \in says.subsec \cup {0} : t.wall = w + f

ScopeMatches(says, t) ==
  /\ says.dto # {} /\ says.offset = {t.off}
  /\ \A w \in says.dto :
       IF says.subsec = {} THEN t.wall = w /\ t.prec = Second
       ELSE \A f \in says.subsec : t.wall = w + f /\ t.prec = 1

\* rows of reports without an issue, none of them rejected or repeated
RowsUsable(fs, harmed, I) ==
  /\ I # {} /\ ~Repeated(fs, I)
  /\ \A i \in I : fs[i].val \notin Bad /\ SourceOf[fs[i].place] \notin harmed

\* a date that stands alone says exactly the candidate's time
DateMatches(f, t) == t = Stamp(f.val, f.off, Second, FALSE) /\ f.kind # "mvhd"

SupportAccepted(fs, harmed, c) ==
  LET I == c.obs
      scoped == {i \in I : fs[i].kind \in {"dto", "offset", "subsec"}}
      scopes == {fs[i].place : i \in scoped}
  IN /\ RowsUsable(fs, harmed, I)
     /\ {SourceOf[fs[i].place] : i \in I} = c.sources
     /\ {fs[i].kind : i \in I} \ {"offset", "subsec"} = c.kinds
     /\ Explicit(c.ts) /\ ~c.ts.assumed
     /\ scopes # {} /\ \A p \in scopes : ScopeMatches(ScopeSays(fs, I, p), c.ts)
     /\ \A i \in I \ scoped : DateMatches(fs[i], c.ts)

(***************************************************************************)
(* A member's file times beside the selected candidate.                    *)
(***************************************************************************)
Relation(at, grain, t) ==
  IF Abs(at - Instant(t)) <= Max({grain, t.prec}) THEN "Matches" ELSE "Differs"

Assessment(birth, modified, reason) ==
  [birth |-> birth, modified |-> modified, reason |-> reason]

\* by the runtime, for c None unless the decision is eligible
RuntimeSays(m, c) ==
  LET b == Relation(m.birth, m.grain, c.ts)
      d == Relation(m.modified, m.grain, c.ts)
      Born(r) == IF m.birth = None THEN "Unavailable" ELSE r
  IN CASE c = None -> Assessment(Born("NotCompared"), "NotCompared", "no_candidate")
       [] c # None /\ m.grain = None ->
            Assessment(Born("PrecisionUnknown"), "PrecisionUnknown", "precision_unknown")
       [] OTHER ->
            Assessment(Born(b), d,
              IF Born(b) \in {"Matches", "Unavailable"} /\ d = "Matches"
                THEN "matches" ELSE "differs")

\* by the store, which accepts no other assessment
StoreExpects(m, c) ==
  LET b == Relation(m.birth, m.grain, c.ts)
      d == Relation(m.modified, m.grain, c.ts)
      Born(r) == IF m.birth = None THEN "Unavailable" ELSE r
  IN CASE c = None -> Assessment(Born("NotCompared"), "NotCompared", "no_candidate")
       [] c # None /\ m.grain = None ->
            Assessment(Born("PrecisionUnknown"), "PrecisionUnknown", "precision_unknown")
       [] OTHER ->
            Assessment(Born(b), d,
              IF Born(b) = "Matches" \/ d = "Matches" THEN "matches" ELSE "differs")

(***************************************************************************)
(* Actions.                                                                *)
(***************************************************************************)
\* An analysis exists once the reports are complete, a member's times once its
\* group's evidence is stored (the phases of write_group).
PolicyTypeOK ==
  /\ phase \in {"extracting", "analysed", "stored", "refused", "assessed", "misread"}
  /\ fields \in Seq(Supply) /\ damaged \subseteq Sources
  /\ Len(fields) + Cardinality(damaged) <= MaxFields
  /\ analysis \in Analyses \cup {None} /\ member \in Files \cup {None}
  /\ analysis = None <=> phase = "extracting"
  /\ member = None <=> phase \notin {"assessed", "misread"}

PolicyInit ==
  /\ phase = "extracting" /\ fields = << >> /\ damaged = {}
  /\ analysis = None /\ member = None

Room == Len(fields) + Cardinality(damaged) < MaxFields

Retain ==
  /\ phase = "extracting" /\ Room
  /\ \E f \in Supply : Fits(f) /\ fields' = Append(fields, f)
  /\ UNCHANGED <<phase, damaged, analysis, member>>

\* a structural problem in a source leaves an issue beside what was retained
Spoil ==
  /\ phase = "extracting" /\ Room /\ Cardinality(damaged) < MaxDamaged
  /\ \E s \in Sources \ damaged : damaged' = damaged \cup {s}
  /\ UNCHANGED <<phase, fields, analysis, member>>

AnalyzeReports ==
  /\ phase = "extracting"
  /\ phase' = "analysed" /\ analysis' = Analyze(fields, damaged)
  /\ UNCHANGED <<fields, damaged, member>>

\* only an eligible candidate's support is checked when it is appended
StoreCandidate ==
  /\ phase = "analysed"
  /\ phase' = IF \A c \in analysis.candidates :
                     Eligible(c) => SupportAccepted(fields, damaged, c)
                THEN "stored" ELSE "refused"
  /\ UNCHANGED <<fields, damaged, analysis, member>>

StrongCandidate ==
  IF analysis.decision = "EvidenceEligible" THEN analysis.selected ELSE None

Assess ==
  /\ phase = "stored"
  /\ \E b \in FileTimes \cup {None}, m \in FileTimes, g \in Grains \cup {None} :
       LET file == [birth |-> b, modified |-> m, grain |-> g]
       IN /\ member' = file
          /\ phase' = IF RuntimeSays(file, StrongCandidate)
                            = StoreExpects(file, StrongCandidate)
                        THEN "assessed" ELSE "misread"
  /\ UNCHANGED <<fields, damaged, analysis>>

PolicyNext == Retain \/ Spoil \/ AnalyzeReports \/ StoreCandidate \/ Assess

PolicySpec == PolicyInit /\ [][PolicyNext]_policyVars

(***************************************************************************)
(* Properties.                                                             *)
(***************************************************************************)

\* What the fields of the strong kinds say, read without the policy.
StrongReadings ==
  LET Here(k, p) == {fields[i].val : i \in IndicesOf(fields, k, {p})}
      Wall(w, p) == IF Here("subsec", p) = {} THEN {w}
                    ELSE {w + f : f \in Here("subsec", p)}
      Zone(p) == IF Here("offset", p) = {} THEN {None} ELSE Here("offset", p)
  IN (UNION {UNION {{<<x, o>> : x \in Wall(w, p), o \in Zone(p)} :
                      w \in Here("dto", p)} : p \in Scopes})
       \cup Said(fields, IndicesOf(fields, "text", Scopes))

\* An eligible decision rests on reports without any issue or rejected value,
\* its value is one that some scope states with its offset, and every strong
\* value of every source agrees with it: explicit ones as instants, floating
\* ones as wall times, within the tolerance.  (analyze_timestamp_evidence,
\* mark_strong_conflicts and evidence_gate: no average, no majority, no guess.)
EligibleIsUnanimous ==
  phase = "analysed" /\ analysis.decision = "EvidenceEligible" =>
    LET t == analysis.selected.ts
    IN /\ damaged = {} /\ \A i \in DOMAIN fields : fields[i].val \notin Bad
       /\ <<t.wall, t.off>> \in StrongReadings
       /\ \A r \in StrongReadings :
            IF r[2] = None THEN Abs(r[1] - t.wall) <= Tolerance
            ELSE Abs(r[1] - r[2] * Hour - Instant(t)) <= Tolerance

\* Of the answer, what does not name positions in the report.
Conclusion(a) ==
  LET Plain(c) == [ts |-> c.ts, kinds |-> c.kinds, sources |-> c.sources,
                   confidence |-> c.confidence, gate |-> c.gate]
  IN <<a.decision, IF a.selected = None THEN None ELSE Plain(a.selected),
       {Plain(c) : c \in a.candidates}>>

\* The order in which a report lists its fields decides nothing: the first of
\* several values is never preferred.  (has_semantic_conflict compares with the
\* first value, unique_offset and unique_subsecond with all of them.)
OrderIrrelevant ==
  phase = "analysed" =>
    Conclusion(Analyze(Reverse(fields), damaged)) = Conclusion(analysis)

\* Runtime and store judge the same evidence apart, and the store refuses what
\* it would judge otherwise.  They part in two cases only: an Exif scope that
\* repeats one value, which the policy merges and the store refuses, and a
\* member of whose two file times just one matches, which the runtime calls
\* different and the store a match.  (validate_eligible_candidate_support,
\* expected_member_assessment and assess_member_filesystem_times)
StoreAgrees ==
  /\ phase = "refused" =>
       \E c \in analysis.candidates : Eligible(c) /\ Repeated(fields, c.obs)
  /\ phase = "misread" =>
       /\ StrongCandidate # None /\ member.grain # None /\ member.birth # None
       /\ Relation(member.birth, member.grain, StrongCandidate.ts)
            # Relation(member.modified, member.grain, StrongCandidate.ts)

\* The README names HEIF item Exif among the extractions that become time
\* evidence, and the extractor reports such an item without an issue.  The
\* policy takes every such report for self-contradictory: a flawless date with
\* its offset, alone in the file, is decided to be a conflict.
HeifDatesCount ==
  phase = "analysed" /\ damaged = {} /\ Len(fields) = 2 =>
    LET d == fields[1]
        o == fields[2]
    IN /\ d.kind = "dto" /\ o.kind = "offset" /\ d.place = o.place
       /\ {d.val, o.val} \cap Bad = {}
       => analysis.decision # "Conflict"
=============================================================================
