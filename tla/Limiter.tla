------------------------------ MODULE Limiter ------------------------------
(***************************************************************************)
(* The rate limit every request of the Go server passes first: a token     *)
(* bucket for each client (server/go/internal/api/server.go rateLimit,     *)
(* clientIP, allow; the bucket is golang.org/x/time/rate).                 *)
(*                                                                         *)
(* A bucket is filled at a steady rate and holds Burst tokens.  Here it    *)
(* holds ticks of the clock: it gains one in each tick, a request costs    *)
(* Cost of them, and it is full at Burst * Cost.  Buckets that were not    *)
(* used for a while are swept, since a new one, which is full, will do     *)
(* as well; nothing sweeps between requests.                               *)
(*                                                                         *)
(* rateLimit reads the clock before allow takes the lock, so calls may     *)
(* carry a time up to Lag old and come in another order than their times.  *)
(***************************************************************************)
EXTENDS Integers, Sequences, FiniteSetsExt

CONSTANTS Client,     \* addresses of clients
          Proxy,      \* addresses of trusted proxies (cfg.TrustedProxies)
          Junk,       \* an entry of X-Forwarded-For that is no address
          NetOf,      \* what an address is limited by: itself, or its /64
          Forged,     \* what clients write in X-Forwarded-For
          Chains,     \* the proxies that append to it, after the first one
          Place,      \* places for requests between the clock and the lock
          Burst,      \* RATE_BURST
          Cost,       \* ticks in which RATE_LIMIT gives a token
          Idle,       \* how long a bucket is kept unused: 10 minutes
          SweepEvery, \* how long between two sweeps: a minute
          Lag,        \* how old the time of a call may be
          MaxTime     \* bound: the clock stops here

Net == {NetOf[a] : a \in DOMAIN NetOf}

ASSUME LimiterAssumption ==
    /\ Client \cap Proxy = {} /\ Junk \notin Client \cup Proxy
    /\ DOMAIN NetOf = Client \cup Proxy
    /\ \A c \in Client, p \in Proxy : NetOf[c] # NetOf[p]
    /\ Forged \subseteq Seq(Client \cup Proxy \cup {Junk})
    /\ Chains \subseteq Seq(Proxy)
    /\ Burst \in Nat \ {0} /\ Cost \in Nat \ {0}
    /\ Idle \in Nat /\ SweepEvery \in Nat
    /\ Lag \in Nat /\ MaxTime \in Nat

VARIABLES clock,
          bucket,   \* the buckets by net, or None
          sweptAt,  \* the time of the last sweep, or Never
          call      \* the call of allow each request is about to make, or NoCall

\* History: what an exact bucket that sees the clock would hold, and what is
\* allowed for on top of that: the gifts of the code.
VARIABLES credit, gifts

limiterVars == <<clock, bucket, sweptAt, call, credit, gifts>>

Full == Burst * Cost
Never == -1
None == [level |-> 0, last |-> Never, used |-> Never]
NoCall == [net |-> {}, by |-> {}, at |-> Never]

Bucket == [level : 0 .. Full, last : Nat, used : Nat]

LimiterInit ==
    /\ clock = 0
    /\ bucket = [n \in Net |-> None]
    /\ sweptAt = Never
    /\ call = [r \in Place |-> NoCall]
    /\ credit = [n \in Net |-> Full]
    /\ gifts = [n \in Net |-> 0]

-----------------------------------------------------------------------------
\* The first entry, which the client may have written.
ClientIPFirst(peer, hops) ==
    IF peer \notin Proxy \/ hops = <<>> \/ Head(hops) = Junk THEN peer ELSE Head(hops)

\* clientIP: the entries of X-Forwarded-For from the right, as long as they
\* are addresses of proxies.
ClientIP(peer, hops) ==
    LET stops == {i \in DOMAIN hops : hops[i] \notin Proxy}
        stop  == Max(stops)
        seen  == IF stops = {} THEN hops
                 ELSE SubSeq(hops, IF hops[stop] = Junk THEN stop + 1 ELSE stop, Len(hops))
    IN  IF peer \notin Proxy \/ seen = <<>> THEN peer ELSE Head(seen)

\* A client calls by itself, or by proxies, each of which appends the address
\* it was called from.
Routes(c, forged) ==
    {[peer |-> c, hops |-> forged]}
    \cup {[peer |-> p, hops |-> Append(forged, c) \o chain] : p \in Proxy, chain \in Chains}

\* rateLimit reads the clock.
ReadClock(r, c, route) ==
    /\ call[r] = NoCall
    /\ call' = [call EXCEPT ![r] =
           [net |-> NetOf[ClientIP(route.peer, route.hops)], by |-> NetOf[c], at |-> clock]]
    /\ UNCHANGED <<clock, bucket, sweptAt, credit, gifts>>

-----------------------------------------------------------------------------
\* Never again after the first time.
SweepsOnce(t) == sweptAt = Never

Sweeps(t) == sweptAt = Never \/ t - sweptAt > SweepEvery

\* Every bucket, or none, is swept.
SweptAll(t) == [n \in Net |-> IF Sweeps(t) THEN None ELSE bucket[n]]

\* The buckets after the sweep that a call at t may begin with.
Swept(t) ==
    [n \in Net |-> IF Sweeps(t) /\ t - bucket[n].used > Idle THEN None ELSE bucket[n]]

\* The level of bucket b at t (rate.Limiter advance): a time before the last
\* one gains nothing.
LevelAt(b, t) ==
    IF b = None THEN Full
    ELSE Min({Full, b.level + Max({0, t - b.last})})

\* What a bucket that is swept may lack of a full one.  With the defaults, 30
\* tokens at 5 a second, ten minutes fill it many times over and it is nothing;
\* config.go asks only that rate and burst are positive.
Shortfall == Max({0, Full + 2 * Lag - (Idle + 1)})

\* Whose bucket is swept begins anew with a full one.
SweepGifts(t) ==
    [n \in Net |-> IF Swept(t)[n] = bucket[n] THEN gifts[n] ELSE gifts[n] + Shortfall]

\* AllowN(t, 1).  The bucket's time becomes t, be it an earlier one, when the
\* request is let in.
Allow(r) ==
    /\ call[r] # NoCall
    /\ LET n == call[r].net
           t == call[r].at
           b == Swept(t)[n]
           level == LevelAt(b, t)
       IN
       /\ sweptAt' = IF Sweeps(t) THEN t ELSE sweptAt
       /\ \/ /\ level >= Cost
             /\ bucket' = [Swept(t) EXCEPT ![n] =
                              [level |-> level - Cost, last |-> t, used |-> t]]
             /\ credit' = [credit EXCEPT ![call[r].by] = @ - Cost]
             /\ gifts' = [SweepGifts(t) EXCEPT ![n] = IF t < b.last THEN @ + Lag ELSE @]
          \/ /\ level < Cost
             /\ bucket' = [Swept(t) EXCEPT ![n].used = t]
             /\ gifts' = SweepGifts(t)
             /\ UNCHANGED credit
    /\ call' = [call EXCEPT ![r] = NoCall]
    /\ UNCHANGED clock

\* Nobody waits for the lock longer than Lag.
Tick ==
    /\ clock < MaxTime
    /\ \A r \in Place : call[r] # NoCall => call[r].at + Lag > clock
    /\ clock' = clock + 1
    /\ credit' = [n \in Net |-> Min({Full, credit[n] + 1})]
    /\ UNCHANGED <<bucket, sweptAt, call, gifts>>

LimiterNext ==
    \/ Tick
    \/ \E r \in Place :
          \/ Allow(r)
          \/ \E c \in Client, forged \in Forged :
                \E route \in Routes(c, forged) : ReadClock(r, c, route)

LimiterSpec == LimiterInit /\ [][LimiterNext]_limiterVars

-----------------------------------------------------------------------------
LimiterTypeOK ==
    /\ clock \in Nat
    /\ bucket \in [Net -> Bucket \cup {None}]
    /\ sweptAt \in Nat \cup {Never}
    /\ call \in [Place -> [net : Net, by : Net, at : Nat] \cup {NoCall}]
    /\ credit \in [Net -> Int]
    /\ gifts \in [Net -> Nat]

\* Never more requests of one client are let in than the limit allows: in no
\* interval more than a burst and what the interval refills, whatever clients
\* write in X-Forwarded-For, by whichever proxies they come, and however calls
\* and sweeps interleave (server.go:133-207).  The interval is one lag longer
\* for the time a call waits.  Two things come on top: a lag for each call that
\* is let in after one with a later time, since the bucket gains what is between
\* them again, and the shortfall, if the settings leave one, for each sweep that
\* drops the client's bucket.
RateHolds == \A n \in Net : credit[n] + gifts[n] + Lag >= 0

AnsweredWithRecent ==
    \A r \in Place, n \in Net :
        call[r] # NoCall /\ call'[r] = NoCall /\ bucket'[n] # None =>
            call[r].at - bucket'[n].used <= Idle + SweepEvery

\* The map of buckets does not keep clients that went away: when a call has
\* been answered, every bucket was used at most ten minutes and one sweep
\* before it (server.go:187-196).
SweepsForget == [][AnsweredWithRecent]_limiterVars
=============================================================================
