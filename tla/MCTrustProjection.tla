------------------------- MODULE MCTrustProjection -------------------------
(* Instances of TrustProjection for TLC. *)
EXTENDS TrustProjection, TLC

\* Scans are interchangeable (used by the safety run only).
ScanSymmetry == Permutations(Scans)
=============================================================================
