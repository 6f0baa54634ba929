---------------------------- MODULE MCArtifactCas ----------------------------
(***************************************************************************)
(* Instances of ArtifactCas for TLC.                                       *)
(***************************************************************************)
EXTENDS ArtifactCas, TLC

CONSTANTS a1, a2, r1, safe, source

TheArtifacts == {a1, a2}
TheRuns == {r1}
TheMetas == {safe, source}
TheCollectable == {safe}

ArtifactSymmetry == Permutations(TheArtifacts)
=============================================================================
