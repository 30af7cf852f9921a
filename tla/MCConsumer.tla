----------------------------- MODULE MCConsumer -----------------------------
(* Two generations of the channel, so that Run, a recovery and a lost event   *)
(* meet. Messages are only compared with each other; the symmetry is for      *)
(* MCConsumerClose.cfg, which has two of them and no liveness.                *)
EXTENDS Consumer, TLC

MessageSymmetry == Permutations(Messages)
=============================================================================
