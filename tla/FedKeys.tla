------------------------------ MODULE FedKeys ------------------------------
(***************************************************************************)
(* How an instance learns the public keys of a user of another one         *)
(* (server/go/internal/federation/keys.go): a cache, filled by a request   *)
(* that all concurrent callers share.                                      *)
(*                                                                         *)
(* One remote user is modelled: entries of different users do not touch    *)
(* (the sweep of a large cache drops only entries no lookup would return). *)
(* The user's keys are numbered by rotation, 0 meaning that the instance   *)
(* knows no such user.  The singleflight group is a library: a call that   *)
(* finds one in flight waits for its answer, and a flight ends and frees   *)
(* its place in one step.  A caller's steps interleave with the flight and *)
(* with the remote user's rotations.  Time passes in ticks; a request to   *)
(* the remote instance is over within Timeout.                             *)
(***************************************************************************)
EXTENDS Integers

CONSTANTS Caller,     \* lookups that may run at a time
          TTL,        \* keyCacheTTL, in ticks
          Timeout,    \* of one request to the remote instance, in ticks
          None,       \* no entry, no flight
          MaxTime,    \* bound: the clock stops here
          MaxKeys     \* bound: the remote user's keys

Keys == 0 .. MaxKeys

Entry == [keys : Keys \ {0}, at : 0 .. MaxTime]

Flight == [stage : {"asking", "answered", "cached"}, keys : Keys, at : 0 .. MaxTime]

ASSUME FedKeysAssumption ==
    /\ TTL \in Nat \ {0} /\ Timeout \in Nat \ {0}
    /\ MaxTime \in Nat /\ MaxKeys \in Nat \ {0}
    /\ None \notin Entry \cup Flight

VARIABLES clock,
          remote,   \* the keys the remote user has now
          cache,    \* the entry: keys, and when they were stored
          flight,   \* the request each caller has in flight: stage, answer, start
          pc,       \* where each lookup is
          fresh,    \* its argument
          leader,   \* the caller whose request it waits for, itself at first
          result    \* the keys it returned, 0 for an error

\* History, for the properties.
VARIABLES changedAt,  \* when keys k were replaced
          began       \* when each lookup began

keysVars == <<clock, remote, cache, flight, pc, fresh, leader, result, changedAt, began>>

\* Keys k were the remote user's at t or later.
CurrentSince(k, t) == k = remote \/ changedAt[k] >= t

Flying == {c \in Caller : flight[c] # None}

KeysInit ==
    /\ clock = 0
    /\ remote \in {0, 1}
    /\ cache = None
    /\ flight = [c \in Caller |-> None]
    /\ pc = [c \in Caller |-> "idle"]
    /\ fresh = [c \in Caller |-> FALSE]
    /\ leader = [c \in Caller |-> c]
    /\ result = [c \in Caller |-> 0]
    /\ changedAt = [k \in Keys |-> 0]
    /\ began = [c \in Caller |-> 0]

-----------------------------------------------------------------------------
\* Lookup(ctx, addr, fresh) is called.
Begin(c, f) ==
    /\ pc[c] \in {"idle", "returned"}
    /\ pc' = [pc EXCEPT ![c] = IF f THEN "do" ELSE "look"]
    /\ fresh' = [fresh EXCEPT ![c] = f]
    /\ began' = [began EXCEPT ![c] = clock]
    /\ result' = [result EXCEPT ![c] = 0]
    /\ UNCHANGED <<clock, remote, cache, flight, leader, changedAt>>

\* The age of the entry forgotten.
PresentIsUsable == cache # None

\* An entry a lookup may return.
Usable == cache # None /\ clock - cache.at < TTL

\* The cache is read, under its mutex.
Look(c) ==
    /\ pc[c] = "look"
    /\ \/ /\ Usable
          /\ pc' = [pc EXCEPT ![c] = "returned"]
          /\ result' = [result EXCEPT ![c] = cache.keys]
       \/ /\ ~Usable
          /\ pc' = [pc EXCEPT ![c] = "do"]
          /\ UNCHANGED result
    /\ UNCHANGED <<clock, remote, cache, flight, fresh, leader, changedAt, began>>

Takeoff(c) ==
    /\ flight' = [flight EXCEPT ![c] = [stage |-> "asking", keys |-> 0, at |-> clock]]
    /\ leader' = [leader EXCEPT ![c] = c]

\* Without the singleflight group.
DoAlone(c) ==
    /\ pc[c] = "do"
    /\ pc' = [pc EXCEPT ![c] = "wait"]
    /\ Takeoff(c)
    /\ UNCHANGED <<clock, remote, cache, fresh, result, changedAt, began>>

\* group.Do: join the flight, or start one.
Do(c) ==
    /\ pc[c] = "do"
    /\ pc' = [pc EXCEPT ![c] = "wait"]
    /\ \/ /\ Flying = {}
          /\ Takeoff(c)
       \/ \E d \in Flying :
             /\ leader' = [leader EXCEPT ![c] = d]
             /\ UNCHANGED flight
    /\ UNCHANGED <<clock, remote, cache, fresh, result, changedAt, began>>

-----------------------------------------------------------------------------
\* The flight that caller d started.

\* The remote instance reads its database; its answer is on its way.
RemoteAnswers(d) ==
    /\ flight[d] # None /\ flight[d].stage = "asking"
    /\ flight' = [flight EXCEPT ![d].stage = "answered", ![d].keys = remote]
    /\ UNCHANGED <<clock, remote, cache, pc, fresh, leader, result, changedAt, began>>

\* The answer is here: keys go into the cache, an error does not.
StoreAnswer(d) ==
    /\ flight[d] # None /\ flight[d].stage = "answered"
    /\ flight' = [flight EXCEPT ![d].stage = "cached"]
    /\ cache' = IF flight[d].keys = 0 THEN cache
                ELSE [keys |-> flight[d].keys, at |-> clock]
    /\ UNCHANGED <<clock, remote, pc, fresh, leader, result, changedAt, began>>

\* The request fails, at the latest by its timeout.
FetchFails(d) ==
    /\ flight[d] # None /\ flight[d].stage \in {"asking", "answered"}
    /\ flight' = [flight EXCEPT ![d].stage = "cached", ![d].keys = 0]
    /\ UNCHANGED <<clock, remote, cache, pc, fresh, leader, result, changedAt, began>>

Waiting(d) == {c \in Caller : pc[c] = "wait" /\ leader[c] = d}

\* Only the caller that started the flight is answered.
LandAlone(d) ==
    /\ flight[d] # None /\ flight[d].stage = "cached"
    /\ flight' = [flight EXCEPT ![d] = None]
    /\ pc' = [pc EXCEPT ![d] = "returned"]
    /\ result' = [result EXCEPT ![d] = flight[d].keys]
    /\ UNCHANGED <<clock, remote, cache, fresh, leader, changedAt, began>>

\* Every waiter gets the flight's answer.
Land(d) ==
    /\ flight[d] # None /\ flight[d].stage = "cached"
    /\ flight' = [flight EXCEPT ![d] = None]
    /\ pc' = [c \in Caller |-> IF c \in Waiting(d) THEN "returned" ELSE pc[c]]
    /\ result' = [c \in Caller |-> IF c \in Waiting(d) THEN flight[d].keys ELSE result[c]]
    /\ UNCHANGED <<clock, remote, cache, fresh, leader, changedAt, began>>

-----------------------------------------------------------------------------
\* The rest of the world.

\* The remote user registers or rotates.
RemoteChanges ==
    /\ remote < MaxKeys
    /\ remote' = remote + 1
    /\ changedAt' = [changedAt EXCEPT ![remote] = clock]
    /\ UNCHANGED <<clock, cache, flight, pc, fresh, leader, result, began>>

\* A request does not outlive its timeout, and what the waiters do with its
\* answer takes no time.
Tick ==
    /\ clock < MaxTime
    /\ \A d \in Flying : flight[d].stage # "cached" /\ clock - flight[d].at < Timeout
    /\ clock' = clock + 1
    /\ UNCHANGED <<remote, cache, flight, pc, fresh, leader, result, changedAt, began>>

FlightStep(d) == RemoteAnswers(d) \/ StoreAnswer(d) \/ FetchFails(d) \/ Land(d)

KeysNext ==
    \/ \E c \in Caller, f \in BOOLEAN : Begin(c, f)
    \/ \E c \in Caller : Look(c) \/ Do(c) \/ FlightStep(c)
    \/ RemoteChanges
    \/ Tick

\* A lookup's goroutine runs on, and a request ends: it is answered or its
\* context times out.
KeysFairness ==
    \A c \in Caller : WF_keysVars(Look(c)) /\ WF_keysVars(Do(c)) /\ WF_keysVars(FlightStep(c))

KeysSpec == KeysInit /\ [][KeysNext]_keysVars

KeysFairSpec == KeysSpec /\ KeysFairness

-----------------------------------------------------------------------------
KeysTypeOK ==
    /\ clock \in 0 .. MaxTime
    /\ remote \in Keys
    /\ cache \in Entry \cup {None}
    /\ flight \in [Caller -> Flight \cup {None}]
    /\ pc \in [Caller -> {"idle", "look", "do", "wait", "returned"}]
    /\ fresh \in [Caller -> BOOLEAN]
    /\ leader \in [Caller -> Caller]
    /\ result \in [Caller -> Keys]
    /\ changedAt \in [Keys -> 0 .. MaxTime]
    /\ began \in [Caller -> 0 .. MaxTime]

\* How stale an answer may be: keys returned by a lookup were the user's less
\* than TTL + Timeout before the lookup began, and those of a fresh lookup at
\* most Timeout before (keys.go, keyCacheTTL and the timeout of fetch).
StalenessBounded ==
    \A c \in Caller :
        pc[c] = "returned" /\ result[c] # 0 =>
            IF fresh[c] THEN CurrentSince(result[c], began[c] - Timeout)
                        ELSE CurrentSince(result[c], began[c] - TTL - Timeout)

\* The cache never goes back to older keys: because requests of one user never
\* overlap, a slow answer cannot overwrite a newer one.
CacheMovesForward ==
    [][cache # None /\ cache' # cache => cache'.keys >= cache.keys]_keysVars

\* Every lookup returns, whatever the remote instance does, and whoever started
\* the flight it waits for (the flight keeps going when its caller hangs up).
LookupsReturn == \A c \in Caller : pc[c] = "wait" ~> pc[c] = "returned"
=============================================================================
