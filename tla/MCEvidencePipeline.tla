------------------------- MODULE MCEvidencePipeline -------------------------
(* A small tree for EvidencePipeline: two files in the root and one in a   *)
(* subdirectory, and three contents of one size, of which two also share   *)
(* the sample and the full digest.                                         *)
EXTENDS EvidencePipeline, TLC

CONSTANTS f1, f2, f3, top, sub, x, y, z

TreeHome == (f1 :> top) @@ (f2 :> top) @@ (f3 :> sub) @@ (sub :> top)

Sizes   == (x :> 1) @@ (y :> 1) @@ (z :> 1)
Samples == (x :> 1) @@ (y :> 1) @@ (z :> 1)
Digests == (x :> 1) @@ (y :> 1) @@ (z :> 2)

\* Objects are interchangeable, so are the two files of the root and the two
\* contents that collide.
Alike == Permutations(Objects) \cup Permutations({f1, f2}) \cup Permutations({x, y})
=============================================================================
