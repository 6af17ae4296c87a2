----------------------------- MODULE MCFedKeys -----------------------------
(* Small instances of FedKeys for TLC.                                     *)
EXTENDS FedKeys, TLC

\* The callers are interchangeable, in runs without liveness properties.
CallerSymmetry == Permutations(Caller)
=============================================================================
