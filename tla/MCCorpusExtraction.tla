------------------------- MODULE MCCorpusExtraction -------------------------
(* Instances of CorpusExtraction for TLC. *)
EXTENDS CorpusExtraction, TLC

CONSTANTS p1, p2, a1, a2, a3, b1, g1, g2

(* The first document has a blank chunk and two others, the second one. *)
MCChunksOf == <<{a1, a2, a3}, {b1}>>
MCChunksOfTwo == <<{a1, a2}, {b1}>>

(* Processes are interchangeable: they differ only in their local state. *)
Twins == Permutations(Processes)
=============================================================================
