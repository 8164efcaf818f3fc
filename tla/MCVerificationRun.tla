------------------------- MODULE MCVerificationRun -------------------------
(* Two workers, two jobs of two attempts each, one crash; the liveness of  *)
(* a run is checked with one worker, in MCRecovery.                        *)
EXTENDS VerificationRun, TLC

MCSymmetry == Permutations(Workers)
=============================================================================
