---------------------------- MODULE MCTimePolicy ----------------------------
(* Two scopes of one photo, one scope of another, and a movie.  A second   *)
(* is two units, the tolerance two seconds and an hour twenty: of the      *)
(* instants below some are equal, some near, some just too far apart, some *)
(* an hour.                                                                *)
EXTENDS TimePolicy

ThreeFiles == <<1, 1, 2, 3>>
Formats == <<"photo", "photo", "movie">>
ThreeLineages == <<1, 2, 3>>

Entry(k, p, v) == [kind |-> k, place |-> p, val |-> v, off |-> None]

Entries ==
  {Entry("dto", 1, v) : v \in {50, 52, 94}}
    \cup {Entry("offset", 1, v) : v \in {0, 1} \cup Bad}
    \cup {Entry("create", 1, 52), Entry("subsec", 1, 1)}
    \cup {Entry("dto", 2, 52), Entry("dto", 3, 54)}
    \cup {Entry("dto", 3, b) : b \in Bad}
    \cup {Entry("dto", 4, 52)} \cup {Entry("offset", p, 0) : p \in 2..4}
    \cup {Entry("text", 4, 52), Entry("mvhd", 4, 54)}
    \cup {[kind |-> "text", place |-> 4, val |-> 54, off |-> o] : o \in Offsets}
=============================================================================
