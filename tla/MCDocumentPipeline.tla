------------------------- MODULE MCDocumentPipeline -------------------------
(* Small instances of DocumentPipeline.  Documents, jobs and passes are      *)
(* interchangeable.                                                          *)
EXTENDS DocumentPipeline, TLC

CONSTANTS c1, c2, c3, j1, j2, p1, p2

Symmetry == Permutations(Docs) \cup Permutations(Jobs) \cup Permutations(Passes)
=============================================================================
