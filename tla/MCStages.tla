------------------------------ MODULE MCStages ------------------------------
(* A publish goes to dev; promotes and removals go anywhere.               *)
EXTENDS Stages, TLC

CONSTANTS a1, a2, b1, b2, dev, staging, prod, w1, w2

MCAsset == {a1, a2}
MCBytes == {b1, b2}
MCRepo == {dev, staging, prod}
MCRoots == {dev}
MCWorker == {w1, w2}
MCSymmetry == Permutations(MCAsset) \cup Permutations(MCBytes) \cup Permutations(MCWorker)
=============================================================================
