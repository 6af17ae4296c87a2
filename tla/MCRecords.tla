----------------------------- MODULE MCRecords -----------------------------
\* Three commands, two users to write to, a mail and the reply to it.
EXTENDS Records, TLC

CONSTANTS c1, c2, c3, amy, bob, asked, reply

MCBox == asked :> "sent" @@ reply :> "inbox"
MCAnswers == asked :> NoMail @@ reply :> asked

Symmetry == Permutations({c1, c2, c3}) \cup Permutations({amy, bob})
=============================================================================
