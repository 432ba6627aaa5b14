-------------------------- MODULE MCVerificationRun --------------------------
(* Instances of VerificationRun for TLC. *)
EXTENDS VerificationRun, TLC

CONSTANTS w1, w2, o1, o2, o3, s1, s2, c1, c2, v1, v2

(* Two obligations of the first registry, one of its successor. *)
MCSourceOf == (o1 :> s1) @@ (o2 :> s1) @@ (o3 :> s2)
MCSourceOfOne == (o1 :> s1) @@ (o2 :> s1)
MCSourceOfSingle == (o1 :> s1)

(* Processes are interchangeable: they differ only in their local state. *)
Twins == Permutations(Workers)
(* So are requests of reviewers. *)
TwinsAndDesks == Twins \cup Permutations(Reviewers)
=============================================================================
