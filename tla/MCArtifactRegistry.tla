------------------------- MODULE MCArtifactRegistry -------------------------
(***************************************************************************)
(* ArtifactRegistry on small sets, for TLC.                                *)
(***************************************************************************)
EXTENDS ArtifactRegistry, TLC

CONSTANTS version1, version2, place1, place2, job1

\* Two copies in the library, of which one may match and one be changed.
LibrarySites == {<<Library, place1>>, <<Library, place2>>}

Claim(artifact, output) ==
  [job |-> job1, completed |-> output # None, artifact |-> artifact, output |-> output]

\* Receipts of one job, each with an artifact that is not its output.
JobClaims == {Claim(version1, version2), Claim(version2, version1)}

\* Receipts of one job that report an output only.
OutputClaims == {Claim(None, version1), Claim(None, version2)}

\* Artifacts, locators, receipts and callers may be renamed.
RegistrySymmetry ==
  Permutations({version1, version2}) \cup Permutations({place1, place2})
    \cup Permutations(Receipts) \cup Permutations(Callers)
=============================================================================
