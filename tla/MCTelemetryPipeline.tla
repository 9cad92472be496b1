------------------------ MODULE MCTelemetryPipeline ------------------------
(* Small instances of TelemetryPipeline.                                   *)
EXTENDS TelemetryPipeline

CONSTANTS k1, k2, k3
MCKeys == {k1, k2, k3}
MCTwoKeys == {k1, k2}
KeySymmetry == Permutations(MCKeys)
============================================================================
