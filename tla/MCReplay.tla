------------------------------ MODULE MCReplay ------------------------------
EXTENDS Replay, TLC

CONSTANTS k1, k2, k3

\* One signature that is dated ahead, one of now and one that comes late.
MCSignedAt == k1 :> 4 @@ k2 :> 3 @@ k3 :> 6

RequestSymmetry == Permutations(Request)
=============================================================================
