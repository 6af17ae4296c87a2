------------------------------ MODULE MCDrafts ------------------------------
EXTENDS Drafts, TLC

CONSTANTS u, v, m   \* users, and a mail of theirs

MCParty == m :> u

CommandSymmetry == Permutations(Command)
=============================================================================
