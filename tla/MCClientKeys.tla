----------------------------- MODULE MCClientKeys -----------------------------
EXTENDS ClientKeys, TLC

\* Runs differ in nothing but their name, and so do users.
NameSymmetry == Permutations(Run) \cup Permutations(Name)
=============================================================================
