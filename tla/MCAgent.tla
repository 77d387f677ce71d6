------------------------------- MODULE MCAgent -------------------------------
(* Instances of Agent for TLC: two firmware versions, and for the second   *)
(* one a Spec whose URL serves the wrong image.                            *)
EXTENDS Agent, TLC

MCVersions == {"v1", "v2"}
MCImages == {"i1", "i2"}
MCUrls == {"u1", "u2"}
MCServes == [u \in MCUrls |-> IF u = "u1" THEN "i1" ELSE "i2"]

Spec1 == [version |-> "v1", checksum |-> "i1", url |-> "u1"]
Spec2 == [version |-> "v2", checksum |-> "i2", url |-> "u2"]
Spec2BadUrl == [version |-> "v2", checksum |-> "i2", url |-> "u1"]

AllSpecs == {Spec1, Spec2, Spec2BadUrl}
GoodSpecs == {Spec1, Spec2}
MixedSpecs == {Spec1, Spec2BadUrl}

GoroutineSymmetry == Permutations(Goroutines)
=============================================================================
