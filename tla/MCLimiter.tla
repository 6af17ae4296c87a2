----------------------------- MODULE MCLimiter -----------------------------
EXTENDS Limiter, TLC

CONSTANTS near, far, proxy

MCNetOf == near :> near @@ far :> far @@ proxy :> proxy

\* Nothing, an address of another client, a proxy's, and no address.
MCForged == {<<>>, <<far>>, <<proxy>>, <<Junk>>}

\* One proxy, or two.
MCChains == {<<>>, <<proxy>>}

RequestSymmetry == Permutations(Place)
=============================================================================
