------------------------------ MODULE MCUpdate ------------------------------
EXTENDS Update, TLC

\* The newest release is stable, so that the preview before it is an old one.
MCKind == <<"stable", "preview", "stable">>

\* Its build is uploaded again.
MCBuilds == <<1, 1, 3>>

HandlerSymmetry == Permutations(Handler)
=============================================================================
