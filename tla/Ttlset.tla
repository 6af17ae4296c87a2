------------------------------- MODULE Ttlset -------------------------------
(***************************************************************************)
(* The replay memory of the Go server: a set that remembers a key for a    *)
(* while, in bounded memory (server/go/internal/ttlset/ttlset.go).  The    *)
(* server keeps two of them, "seen" for signatures and "spent" for proof-  *)
(* of-work tokens (server/go/internal/api/server.go).                      *)
(*                                                                         *)
(* A key goes into the current generation.  A call of Add that comes ttl   *)
(* after the last rotation, or that finds the generation full, makes it    *)
(* the previous one; nothing rotates between calls.  Add is atomic (the    *)
(* set has a mutex), but its caller reads the clock before it takes the    *)
(* lock, so a call may carry a time up to Lag behind the clock, and calls  *)
(* may reach the set in another order than their times.                    *)
(***************************************************************************)
EXTENDS Integers, FiniteSets

CONSTANTS Key,      \* hashes of signatures or tokens
          TTL,      \* how long a generation lasts, in ticks of the clock
          Max,      \* the most keys one generation holds
          Lag,      \* how old the time a call of Add carries may be
          MaxTime   \* bound: the clock stops here

ASSUME TtlsetAssumption ==
    /\ TTL \in Nat \ {0}
    /\ Max \in Nat \ {0}
    /\ Lag \in Nat
    /\ MaxTime \in Nat

VARIABLES clock,      \* the server's clock
          cur, prev,  \* the two generations
          rotatedAt,  \* when cur was opened, Unset before the first Add
          acceptedAt, \* history: the time of k's last accepted Add, or Unset
          others      \* history: how many keys Add accepted after k, up to Max

vars == <<clock, cur, prev, rotatedAt, acceptedAt, others>>

Unset == -1

\* The times a call of Add may carry.
Recent == {t \in 0 .. clock : t + Lag >= clock}

Init ==
    /\ clock = 0
    /\ cur = {}
    /\ prev = {}
    /\ rotatedAt = Unset
    /\ acceptedAt = [k \in Key |-> Unset]
    /\ others = [k \in Key |-> 0]

-----------------------------------------------------------------------------
\* When the generation that a call at t finds was opened.
OpenedAt(t) == IF rotatedAt = Unset THEN t ELSE rotatedAt

BothExpired(t) == t - OpenedAt(t) >= 2 * TTL

MustRotate(t) == t - OpenedAt(t) >= TTL \/ Cardinality(cur) >= Max

\* Mutants: what a plausible slip in Add would do instead.
GenerationsNoCap(t) ==
    IF BothExpired(t) THEN [cur |-> {}, prev |-> {}, at |-> t]
    ELSE IF t - OpenedAt(t) >= TTL THEN [cur |-> {}, prev |-> cur, at |-> t]
    ELSE [cur |-> cur, prev |-> prev, at |-> OpenedAt(t)]

GenerationsDropCur(t) ==
    IF MustRotate(t) THEN [cur |-> {}, prev |-> {}, at |-> t]
    ELSE [cur |-> cur, prev |-> prev, at |-> OpenedAt(t)]

\* The generations as a call at t leaves them before it looks k up.
Generations(t) ==
    IF BothExpired(t) THEN [cur |-> {}, prev |-> {}, at |-> t]
    ELSE IF MustRotate(t) THEN [cur |-> {}, prev |-> cur, at |-> t]
    ELSE [cur |-> cur, prev |-> prev, at |-> OpenedAt(t)]

\* A call at t would find k: it answers that k is not new.
Remembers(k, t) == k \in Generations(t).cur \cup Generations(t).prev

CountOthers(k) ==
    [j \in Key |-> IF j = k THEN 0
                   ELSE IF others[j] < Max THEN others[j] + 1 ELSE Max]

-----------------------------------------------------------------------------
Add(k, t) ==
    LET g == Generations(t) IN
    /\ rotatedAt' = g.at
    /\ prev' = g.prev
    /\ IF k \in g.cur \cup g.prev
       THEN /\ cur' = g.cur
            /\ UNCHANGED <<acceptedAt, others>>
       ELSE /\ cur' = g.cur \cup {k}
            /\ acceptedAt' = [acceptedAt EXCEPT ![k] = t]
            /\ others' = CountOthers(k)
    /\ UNCHANGED clock

Tick ==
    /\ clock < MaxTime
    /\ clock' = clock + 1
    /\ UNCHANGED <<cur, prev, rotatedAt, acceptedAt, others>>

Next ==
    \/ Tick
    \/ \E k \in Key, t \in Recent : Add(k, t)

Spec == Init /\ [][Next]_vars

-----------------------------------------------------------------------------
TypeOK ==
    /\ clock \in Nat
    /\ cur \subseteq Key
    /\ prev \subseteq Key
    /\ rotatedAt \in 0 .. clock \cup {Unset}
    /\ acceptedAt \in [Key -> 0 .. clock \cup {Unset}]
    /\ others \in [Key -> 0 .. Max]

\* Neither generation outgrows its limit, whatever the order and the times of
\* the calls: a flood rotates the set early instead of growing it
\* (ttlset.go, the doc comment and the second case of Add).
BoundedMemory ==
    /\ Cardinality(cur) <= Max
    /\ Cardinality(prev) <= Max

\* A key accepted less than ttl ago (less twice the lag of the callers) is
\* still refused, unless a whole generation's worth of other keys was accepted
\* after it: one early rotation is not enough to forget it.
NoEarlyForgetting ==
    \A k \in Key : \A t \in Recent :
        (/\ acceptedAt[k] # Unset
         /\ t - acceptedAt[k] < TTL - 2 * Lag
         /\ others[k] < Max)
        => Remembers(k, t)

\* A key is refused for less than 3*ttl (plus the lag) after it was accepted:
\* the set does not keep a client out for longer than that.
NoLateMemory ==
    \A k \in Key : \A t \in Recent :
        Remembers(k, t) => t - acceptedAt[k] < 3 * TTL + Lag
=============================================================================
