------------------------------ MODULE Versions ------------------------------
(***************************************************************************)
(* The news of client releases that an instance relays from GitHub         *)
(* (server/go/internal/api/version.go), and the releases themselves        *)
(* (.github/workflows/release.yml).                                        *)
(*                                                                         *)
(* Handlers share a cache and one fetch at a time (singleflight): a        *)
(* handler that finds the cache old joins the fetch under way or begins    *)
(* one, and every handler that waited for it stores what it brought.       *)
(*                                                                         *)
(* Releases are numbered as cli_version_cmp orders them, and published in  *)
(* that order, each when its first client build is uploaded; before that,  *)
(* summarize skips it.  Of the builds of a release one matters here, that  *)
(* for the platform at hand; it is told from an earlier one by its number. *)
(***************************************************************************)
EXTENDS Integers, FiniteSetsExt

CONSTANTS Handler,
          Last,     \* the newest release there will be
          Kind,     \* the channel of each release
          TTL,      \* versionTTL: an hour
          Timeout,  \* of a fetch: 15 seconds
          Builds,   \* bound: uploads and removals of the build of each release
          MaxTime   \* bound: the clock stops here

Release == 1 .. Last
Channel == {"stable", "preview"}

ASSUME VersionsAssumption ==
    /\ Last \in Nat \ {0} /\ Kind \in [Release -> Channel]
    /\ TTL \in Nat \ {0} /\ Timeout \in Nat
    /\ Builds \in [Release -> Nat] /\ Builds[1] > 0 /\ MaxTime \in Nat

VARIABLES clock,
          listed,  \* the newest release that has client builds
          build,   \* the build of each release: odd is there, even is not
          cache,   \* v.body and v.at
          flight,  \* the fetch under way, or NoFlight
          handler, \* where each handler of clientVersion is
          wentBack \* history: older news were stored over newer ones

versionVars == <<clock, listed, build, cache, flight, handler, wentBack>>

Never == -1
Nothing == [release |-> 0, digest |-> 0]
Offer == [release : 0 .. Last, digest : Nat]

\* What fetch answers, and when GitHub said so.
NoNews == [stable |-> Nothing, preview |-> Nothing, taken |-> Never]
News == [stable : Offer, preview : Offer, taken : Nat] \cup {NoNews}

NoFlight == [began |-> Never, news |-> NoNews]
Idle == [at |-> "idle", news |-> NoNews]

IsThere(n) == build[n] % 2 = 1

VersionsInit ==
    /\ clock = 0
    /\ listed = 1
    /\ build = [n \in Release |-> IF n = 1 THEN 1 ELSE 0]
    /\ cache = [news |-> NoNews, at |-> Never]
    /\ flight = NoFlight
    /\ handler = [h \in Handler |-> Idle]
    /\ wentBack = FALSE

-----------------------------------------------------------------------------
\* A release gets its first client build, one of another platform.
Publish ==
    /\ listed < Last
    /\ listed' = listed + 1
    /\ UNCHANGED <<clock, build, cache, flight, handler, wentBack>>

\* A build is uploaded, removed, uploaded again: upload --clobber.
Upload(n) ==
    /\ n <= listed /\ build[n] < Builds[n]
    /\ build' = [build EXCEPT ![n] = @ + 1]
    /\ UNCHANGED <<clock, listed, cache, flight, handler, wentBack>>

\* summarize: the newest release of a channel, and the digest of its build.
Newest(channel) ==
    LET n == Max({0} \cup {i \in 1 .. listed : Kind[i] = channel})
    IN  [release |-> n, digest |-> IF n > 0 /\ IsThere(n) THEN build[n] ELSE 0]

\* GitHub answers the fetch.
Read ==
    /\ flight # NoFlight /\ flight.news = NoNews
    /\ flight' = [flight EXCEPT !.news = [stable  |-> Newest("stable"),
                                          preview |-> Newest("preview"),
                                          taken   |-> clock]]
    /\ UNCHANGED <<clock, listed, build, cache, handler, wentBack>>

-----------------------------------------------------------------------------
\* A request comes in, and the cache is read under its lock.
Look(h) ==
    /\ handler[h] = Idle
    /\ LET isOld == cache.at = Never \/ clock - cache.at >= TTL
       IN  handler' = [handler EXCEPT ![h] =
               [at |-> IF isOld THEN "looked" ELSE "answered", news |-> cache.news]]
    /\ UNCHANGED <<clock, listed, build, cache, flight, wentBack>>

\* group.Do: join the fetch, or begin one.
Do(h) ==
    /\ handler[h].at = "looked"
    /\ flight' = IF flight = NoFlight THEN [NoFlight EXCEPT !.began = clock] ELSE flight
    /\ handler' = [handler EXCEPT ![h].at = "waiting"]
    /\ UNCHANGED <<clock, listed, build, cache, wentBack>>

\* The fetch ends: all who waited have the new body, and store it later.
Land ==
    /\ flight # NoFlight /\ flight.news # NoNews
    /\ handler' = [h \in Handler |->
           IF handler[h].at # "waiting" THEN handler[h]
           ELSE [handler[h] EXCEPT !.at = "storing", !.news = flight.news]]
    /\ flight' = NoFlight
    /\ UNCHANGED <<clock, listed, build, cache, wentBack>>

\* The fetch fails: all who waited answer what they found when they looked,
\* or that there is nothing.
FailedWith(h) ==
    IF handler[h].at # "waiting" THEN handler[h]
    ELSE [handler[h] EXCEPT !.at = IF handler[h].news = NoNews THEN "refused" ELSE "answered"]

Break ==
    /\ flight # NoFlight
    /\ handler' = [h \in Handler |-> FailedWith(h)]
    /\ flight' = NoFlight
    /\ UNCHANGED <<clock, listed, build, cache, wentBack>>

\* As if old news that are served were stored as new.
StoreStale(h) ==
    /\ handler[h].at = "storing"
    /\ cache' = [news |-> IF cache.at = Never THEN handler[h].news ELSE cache.news, at |-> clock]
    /\ wentBack' = wentBack
    /\ handler' = [handler EXCEPT ![h].at = "answered"]
    /\ UNCHANGED <<clock, listed, build, flight>>

\* The body is stored with the time of now, whatever was stored meanwhile.
Store(h) ==
    /\ handler[h].at = "storing"
    /\ cache' = [news |-> handler[h].news, at |-> clock]
    /\ wentBack' = (wentBack \/ \E channel \in Channel :
           handler[h].news[channel].release < cache.news[channel].release)
    /\ handler' = [handler EXCEPT ![h].at = "answered"]
    /\ UNCHANGED <<clock, listed, build, flight>>

\* A fetch ends in time; a handler stores in the tick in which it ended.
Tick ==
    /\ clock < MaxTime
    /\ flight # NoFlight => clock < flight.began + Timeout
    /\ \A h \in Handler : handler[h].at # "storing"
    /\ clock' = clock + 1
    /\ UNCHANGED <<listed, build, cache, flight, handler, wentBack>>

-----------------------------------------------------------------------------
VersionsTypeOK ==
    /\ clock \in Nat /\ listed \in Release /\ build \in [Release -> Nat]
    /\ cache \in [news : News, at : Nat \cup {Never}]
    /\ flight \in [began : Nat \cup {Never}, news : News]
    /\ handler \in [Handler ->
           [at   : {"idle", "looked", "waiting", "storing", "answered", "refused"},
            news : News]]
    /\ wentBack \in BOOLEAN

AnsweredRecent ==
    \A h \in Handler :
        handler[h].at \in {"idle", "storing"} /\ handler'[h].at = "answered"
        => clock - handler'[h].news.taken < TTL + Timeout

\* What an instance says of releases is at most an hour and one fetch old,
\* unless GitHub failed just then (version.go:57-60): also when many handlers
\* share a fetch, and when one of them stores its news late, over newer ones.
NewsBounded == [][AnsweredRecent]_versionVars
=============================================================================
