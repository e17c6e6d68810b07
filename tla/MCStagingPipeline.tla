------------------------- MODULE MCStagingPipeline -------------------------
(***************************************************************************)
(* Instances of StagingPipeline for TLC.  Paths, sessions and transfers    *)
(* are model values; nothing tells two paths, two sessions or two clean    *)
(* transfers apart, so that the safety runs may use Symmetry.              *)
(***************************************************************************)
EXTENDS StagingPipeline, TLC

CONSTANTS p1, p2, s1, s2, u1, u2

Symmetry == Permutations(Paths) \cup Permutations(Sessions)
            \cup Permutations(Uploads \ Infected)
=============================================================================
