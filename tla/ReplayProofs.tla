---------------------------- MODULE ReplayProofs ----------------------------
(***************************************************************************)
(* What the replay memory guarantees, for every key set, ttl, limit and    *)
(* lag: memory is bounded, nothing is forgotten early except under a flood *)
(* and nothing is remembered for 3*ttl.  Then what the requests that use   *)
(* it are promised: a captured one is not used again unless it was first   *)
(* used at the very start of its window, for every window, unit and number *)
(* of requests; and handlers use the memory as Ttlset says.                *)
(***************************************************************************)
EXTENDS Replay, FiniteSetTheorems, TLAPS

-----------------------------------------------------------------------------
\* The inductive invariant, by parts.

FiniteGenerations ==
    /\ IsFiniteSet(cur) /\ Cardinality(cur) <= Max
    /\ IsFiniteSet(prev) /\ Cardinality(prev) <= Max
    /\ cur \cap prev = {}
    /\ rotatedAt = Unset => cur = {} /\ prev = {}

\* A key of the current generation was accepted while it was open.
CurrentInv ==
    \A k \in cur :
        /\ acceptedAt[k] # Unset
        /\ acceptedAt[k] < rotatedAt + TTL
        /\ acceptedAt[k] + Lag >= rotatedAt

\* A key of the previous generation was accepted before the last rotation and
\* less than 2*ttl before it; every key of cur was accepted after it.
PreviousInv ==
    \A k \in prev :
        /\ acceptedAt[k] # Unset
        /\ acceptedAt[k] <= rotatedAt + Lag
        /\ rotatedAt < acceptedAt[k] + Lag + 2 * TTL
        /\ others[k] >= Cardinality(cur)

\* A key of neither is old, or a generation's worth of others followed it.
ForgottenInv ==
    \A k \in Key \ (cur \cup prev) :
        \/ acceptedAt[k] = Unset
        \/ clock - acceptedAt[k] >= TTL - Lag
        \/ others[k] >= Max

IInv == TypeOK /\ FiniteGenerations /\ CurrentInv /\ PreviousInv /\ ForgottenInv

-----------------------------------------------------------------------------
\* The rotation at the head of Add (ttlset.go:36-46) leaves at most full
\* generations, and room in the current one.
LEMMA GenerationsBounded ==
    ASSUME IInv, NEW t \in Recent
    PROVE  LET g == Generations(t) IN
           /\ IsFiniteSet(g.cur) /\ Cardinality(g.cur) < Max
           /\ IsFiniteSet(g.prev) /\ Cardinality(g.prev) <= Max
           /\ g.cur \cap g.prev = {}
           /\ g.cur \subseteq Key /\ g.prev \subseteq Key
           /\ g.at \in 0 .. clock
<1> USE TtlsetAssumption
<1>1. IsFiniteSet({}) /\ Cardinality({}) = 0
  BY FS_EmptySet
<1>2. Cardinality(cur) \in Nat
  BY FS_CardinalityType DEF IInv, FiniteGenerations
<1>3. t \in 0 .. clock
  BY DEF Recent
<1>4. QED
  BY <1>1, <1>2, <1>3
     DEF IInv, TypeOK, FiniteGenerations, Generations, BothExpired, MustRotate, OpenedAt

\* After the rotation the keys still satisfy their parts of the invariant,
\* stated of the generations that Add is about to search.
LEMMA GenerationsKeep ==
    ASSUME IInv, NEW t \in Recent, NEW k \in Key
    PROVE  LET g == Generations(t) IN
           /\ k \in g.cur =>
                /\ acceptedAt[k] # Unset
                /\ acceptedAt[k] < g.at + TTL
                /\ acceptedAt[k] + Lag >= g.at
           /\ k \in g.prev =>
                /\ acceptedAt[k] # Unset
                /\ acceptedAt[k] <= g.at + Lag
                /\ g.at < acceptedAt[k] + Lag + 2 * TTL
                /\ others[k] >= Cardinality(g.cur)
           /\ k \notin g.cur \cup g.prev =>
                \/ acceptedAt[k] = Unset
                \/ clock - acceptedAt[k] >= TTL - Lag
                \/ others[k] >= Max
           /\ t < g.at + TTL /\ t + Lag >= g.at
<1> USE TtlsetAssumption
<1> DEFINE a == acceptedAt[k]
<1>1. /\ t \in Nat /\ clock \in Nat /\ t <= clock /\ t + Lag >= clock
      /\ a \in 0 .. clock \cup {Unset}
      /\ others[k] \in 0 .. Max
      /\ rotatedAt \in 0 .. clock \cup {Unset}
  BY DEF IInv, TypeOK, Recent
<1>2. /\ IsFiniteSet({}) /\ Cardinality({}) = 0
      /\ Cardinality(cur) \in Nat
  BY FS_EmptySet, FS_CardinalityType DEF IInv, FiniteGenerations
<1>3. k \in cur => /\ a # Unset /\ rotatedAt # Unset
                   /\ a < rotatedAt + TTL /\ a + Lag >= rotatedAt
  BY DEF IInv, CurrentInv, FiniteGenerations
<1>4. k \in prev => /\ a # Unset /\ rotatedAt # Unset
                    /\ a <= rotatedAt + Lag
                    /\ rotatedAt < a + Lag + 2 * TTL
                    /\ others[k] >= Cardinality(cur)
  BY DEF IInv, PreviousInv, FiniteGenerations
<1>5. k \notin cur \cup prev => \/ a = Unset
                                \/ clock - a >= TTL - Lag
                                \/ others[k] >= Max
  BY DEF IInv, ForgottenInv
<1> HIDE DEF a
<1>6. CASE BothExpired(t)
  <2>1. Generations(t) = [cur |-> {}, prev |-> {}, at |-> t]
    BY <1>6 DEF Generations
  <2>2. t - OpenedAt(t) >= 2 * TTL /\ rotatedAt # Unset /\ OpenedAt(t) = rotatedAt
    BY <1>6, <1>1 DEF BothExpired, OpenedAt
  <2>3. k \in cur \cup prev => clock - a >= TTL - Lag
    BY <2>2, <1>1, <1>3, <1>4 DEF Unset
  <2>4. QED
    BY <2>1, <2>3, <1>1, <1>5 DEF a
<1>7. CASE ~BothExpired(t) /\ MustRotate(t)
  <2>1. Generations(t) = [cur |-> {}, prev |-> cur, at |-> t]
    BY <1>7 DEF Generations
  <2>2. t - OpenedAt(t) < 2 * TTL
    BY <1>7, <1>1 DEF BothExpired, OpenedAt, Unset
  <2>3. k \in cur => /\ a <= t + Lag
                     /\ t < a + Lag + 2 * TTL
                     /\ others[k] >= 0
    BY <2>2, <1>1, <1>3 DEF OpenedAt, Unset
  <2>4. k \in prev => \/ clock - a >= TTL - Lag
                      \/ others[k] >= Max
    <3>1. CASE t - OpenedAt(t) >= TTL
      BY <3>1, <1>1, <1>4 DEF OpenedAt, Unset
    <3>2. CASE Cardinality(cur) >= Max
      BY <3>2, <1>1, <1>2, <1>4
    <3>3. QED
      BY <3>1, <3>2, <1>7 DEF MustRotate
  <2>5. QED
    BY <2>1, <2>3, <2>4, <1>1, <1>2, <1>3, <1>5 DEF a
<1>8. CASE ~BothExpired(t) /\ ~MustRotate(t)
  <2>1. Generations(t) = [cur |-> cur, prev |-> prev, at |-> OpenedAt(t)]
    BY <1>8 DEF Generations
  <2>2. t < OpenedAt(t) + TTL /\ t + Lag >= OpenedAt(t)
    BY <1>8, <1>1 DEF MustRotate, OpenedAt, Unset
  <2>3. k \in cur \cup prev => OpenedAt(t) = rotatedAt
    BY <1>3, <1>4 DEF OpenedAt
  <2>4. QED
    BY <2>1, <2>2, <2>3, <1>3, <1>4, <1>5 DEF a
<1>9. QED
  BY <1>6, <1>7, <1>8

-----------------------------------------------------------------------------
LEMMA InitEstablishes == Init => IInv
<1> USE TtlsetAssumption
<1>1. IsFiniteSet({}) /\ Cardinality({}) = 0
  BY FS_EmptySet
<1>2. QED
  BY <1>1 DEF Init, IInv, TypeOK, FiniteGenerations, CurrentInv, PreviousInv,
              ForgottenInv, Unset

LEMMA TickKeeps == IInv /\ Tick => IInv'
<1> USE TtlsetAssumption
<1>1. SUFFICES ASSUME IInv, Tick PROVE IInv'
  OBVIOUS
<1>2. TypeOK'
  BY <1>1 DEF Tick, IInv, TypeOK, Unset
<1>3. FiniteGenerations' /\ CurrentInv' /\ PreviousInv'
  BY <1>1 DEF Tick, IInv, FiniteGenerations, CurrentInv, PreviousInv
<1>4. ForgottenInv'
  <2>1. SUFFICES ASSUME NEW k \in Key \ (cur \cup prev)
                 PROVE  \/ acceptedAt[k] = Unset
                        \/ clock' - acceptedAt[k] >= TTL - Lag
                        \/ others[k] >= Max
    BY <1>1 DEF Tick, ForgottenInv
  <2>2. acceptedAt[k] \in Int /\ clock \in Int /\ clock' = clock + 1
    BY <1>1 DEF Tick, IInv, TypeOK, Unset
  <2>3. QED
    BY <1>1, <2>2 DEF IInv, ForgottenInv
<1>5. QED
  BY <1>2, <1>3, <1>4 DEF IInv

\* A call that finds its key: the generations rotate and nothing is recorded.
LEMMA RefusedAddKeeps ==
    ASSUME IInv, NEW k \in Key, NEW t \in Recent, Add(k, t),
           k \in Generations(t).cur \cup Generations(t).prev
    PROVE  IInv'
<1> USE TtlsetAssumption
<1> DEFINE g == Generations(t)
<1>1. /\ cur' = g.cur /\ prev' = g.prev /\ rotatedAt' = g.at
      /\ UNCHANGED <<clock, acceptedAt, others>>
  BY DEF Add
<1>2. /\ IsFiniteSet(g.cur) /\ Cardinality(g.cur) <= Max
      /\ IsFiniteSet(g.prev) /\ Cardinality(g.prev) <= Max
      /\ g.cur \cap g.prev = {}
      /\ g.cur \subseteq Key /\ g.prev \subseteq Key
      /\ g.at \in 0 .. clock
  BY GenerationsBounded, FS_CardinalityType
<1>3. TypeOK'
  BY <1>1, <1>2 DEF IInv, TypeOK
<1>4. FiniteGenerations'
  BY <1>1, <1>2 DEF IInv, TypeOK, FiniteGenerations, Unset
<1>5. CurrentInv' /\ PreviousInv' /\ ForgottenInv'
  BY <1>1, <1>2, GenerationsKeep
     DEF CurrentInv, PreviousInv, ForgottenInv
<1>6. QED
  BY <1>3, <1>4, <1>5 DEF IInv

\* A call with a new key: the key is recorded, and every other key counts it.
LEMMA AcceptedAddKeeps ==
    ASSUME IInv, NEW k \in Key, NEW t \in Recent, Add(k, t),
           k \notin Generations(t).cur \cup Generations(t).prev
    PROVE  IInv'
<1> USE TtlsetAssumption
<1> DEFINE g == Generations(t)
<1>1. /\ cur' = g.cur \cup {k} /\ prev' = g.prev /\ rotatedAt' = g.at
      /\ acceptedAt' = [acceptedAt EXCEPT ![k] = t]
      /\ others' = CountOthers(k)
      /\ UNCHANGED clock
  BY DEF Add
<1>2. /\ IsFiniteSet(g.cur) /\ Cardinality(g.cur) < Max
      /\ IsFiniteSet(g.prev) /\ Cardinality(g.prev) <= Max
      /\ g.cur \cap g.prev = {}
      /\ g.cur \subseteq Key /\ g.prev \subseteq Key
      /\ g.at \in 0 .. clock
  BY GenerationsBounded
<1>3. /\ IsFiniteSet(g.cur \cup {k})
      /\ Cardinality(g.cur \cup {k}) = Cardinality(g.cur) + 1
      /\ Cardinality(g.cur) \in Nat
  BY <1>2, FS_AddElement, FS_CardinalityType
<1>4. t \in 0 .. clock
  BY DEF Recent
<1>5. TypeOK'
  BY <1>1, <1>2, <1>4 DEF IInv, TypeOK, CountOthers, Unset
<1>6. FiniteGenerations'
  BY <1>1, <1>2, <1>3 DEF IInv, TypeOK, FiniteGenerations, Unset
<1>7. ASSUME NEW j \in Key, j # k
      PROVE  /\ acceptedAt'[j] = acceptedAt[j]
             /\ others'[j] = IF others[j] < Max THEN others[j] + 1 ELSE Max
             /\ others[j] \in 0 .. Max
  BY <1>1, <1>7 DEF IInv, TypeOK, CountOthers
<1>8. acceptedAt'[k] = t /\ t \in Nat
  BY <1>1, <1>4 DEF IInv, TypeOK
<1>9. CurrentInv'
  <2>1. SUFFICES ASSUME NEW j \in cur'
                 PROVE  /\ acceptedAt'[j] # Unset
                        /\ acceptedAt'[j] < rotatedAt' + TTL
                        /\ acceptedAt'[j] + Lag >= rotatedAt'
    BY DEF CurrentInv
  <2>2. CASE j = k
    BY <2>2, <1>1, <1>8, GenerationsKeep DEF Unset
  <2>3. CASE j # k
    BY <2>3, <1>1, <1>2, <1>7, GenerationsKeep
  <2>4. QED
    BY <2>2, <2>3
<1>10. PreviousInv'
  <2>1. SUFFICES ASSUME NEW j \in g.prev
                 PROVE  /\ acceptedAt'[j] # Unset
                        /\ acceptedAt'[j] <= rotatedAt' + Lag
                        /\ rotatedAt' < acceptedAt'[j] + Lag + 2 * TTL
                        /\ others'[j] >= Cardinality(cur')
    BY <1>1 DEF PreviousInv
  <2>2. j \in Key /\ j # k
    BY <1>2
  <2>3. /\ acceptedAt[j] # Unset
        /\ acceptedAt[j] <= g.at + Lag
        /\ g.at < acceptedAt[j] + Lag + 2 * TTL
        /\ others[j] >= Cardinality(g.cur)
    BY <2>2, GenerationsKeep
  <2>4. others'[j] >= Cardinality(g.cur) + 1
    BY <2>2, <2>3, <1>2, <1>3, <1>7
  <2>5. QED
    BY <2>2, <2>3, <2>4, <1>1, <1>3, <1>7
<1>11. ForgottenInv'
  <2>1. SUFFICES ASSUME NEW j \in Key \ (cur' \cup prev')
                 PROVE  \/ acceptedAt'[j] = Unset
                        \/ clock - acceptedAt'[j] >= TTL - Lag
                        \/ others'[j] >= Max
    BY <1>1 DEF ForgottenInv
  <2>2. j # k /\ j \notin g.cur \cup g.prev
    BY <1>1
  <2>3. \/ acceptedAt[j] = Unset
        \/ clock - acceptedAt[j] >= TTL - Lag
        \/ others[j] >= Max
    BY <2>2, GenerationsKeep
  <2>4. QED
    BY <2>2, <2>3, <1>7
<1>12. QED
  BY <1>5, <1>6, <1>9, <1>10, <1>11 DEF IInv

\* One step keeps the invariant.
LEMMA StepKeeps == IInv /\ [Next]_vars => IInv'
<1>1. SUFFICES ASSUME IInv, [Next]_vars PROVE IInv'
  OBVIOUS
<1>2. CASE Tick
  BY <1>1, <1>2, TickKeeps
<1>3. ASSUME NEW k \in Key, NEW t \in Recent, Add(k, t) PROVE IInv'
  <2>1. CASE k \in Generations(t).cur \cup Generations(t).prev
    BY <1>1, <1>3, <2>1, RefusedAddKeeps
  <2>2. CASE k \notin Generations(t).cur \cup Generations(t).prev
    BY <1>1, <1>3, <2>2, AcceptedAddKeeps
  <2>3. QED
    BY <2>1, <2>2
<1>4. CASE UNCHANGED vars
  BY <1>1, <1>4 DEF vars, IInv, TypeOK, FiniteGenerations, CurrentInv,
                    PreviousInv, ForgottenInv
<1>5. QED
  BY <1>1, <1>2, <1>3, <1>4 DEF Next

\* IInv is inductive.
THEOREM Invariance == Spec => []IInv
BY StepKeeps, InitEstablishes, PTL DEF Spec

-----------------------------------------------------------------------------
\* The set's variables always have their types.
THEOREM TypeCorrect == Spec => []TypeOK
<1>1. IInv => TypeOK
  BY DEF IInv
<1>2. QED
  BY <1>1, Invariance, PTL

\* Under any flood, and in any order of calls, neither generation of the set
\* outgrows maxPerGeneration (ttlset.go:43).
THEOREM MemoryBounded == Spec => []BoundedMemory
<1>1. IInv => BoundedMemory
  BY DEF IInv, FiniteGenerations, BoundedMemory
<1>2. QED
  BY <1>1, Invariance, PTL

\* What the invariant has to do with forgetting (ttlset.go:36-52).
LEMMA NotForgotten == IInv => NoEarlyForgetting
<1> USE TtlsetAssumption
<1>1. SUFFICES ASSUME IInv, NEW k \in Key, NEW t \in Recent,
                      acceptedAt[k] # Unset,
                      t - acceptedAt[k] < TTL - 2 * Lag,
                      others[k] < Max
               PROVE  Remembers(k, t)
  BY DEF NoEarlyForgetting
<1>2. /\ t \in Nat /\ clock \in Nat /\ t <= clock /\ t + Lag >= clock
      /\ acceptedAt[k] \in Nat /\ others[k] \in Nat
  BY <1>1 DEF IInv, TypeOK, Recent
<1>3. ~(clock - acceptedAt[k] >= TTL - Lag)
  BY <1>1, <1>2
<1>4. k \in Generations(t).cur \cup Generations(t).prev
  BY <1>1, <1>2, <1>3, GenerationsKeep
<1>5. QED
  BY <1>4 DEF Remembers

\* A signature or token accepted less than ttl - 2*Lag ago is refused, unless
\* Max others were accepted after it: what "remembered for at least ttl"
\* (ttlset.go:5) means in a program whose callers read the clock first.
THEOREM RemembersForTTL == Spec => []NoEarlyForgetting
BY NotForgotten, Invariance, PTL

\* A key is forgotten before 3*ttl + Lag have passed since it was accepted,
\* however rarely the set is used: rotation is lazy, and this is its price.
THEOREM ForgetsInTime == Spec => []NoLateMemory
<1> USE TtlsetAssumption
<1>1. IInv => NoLateMemory
  <2>1. SUFFICES ASSUME IInv, NEW k \in Key, NEW t \in Recent, Remembers(k, t)
                 PROVE  t - acceptedAt[k] < 3 * TTL + Lag
    BY DEF NoLateMemory
  <2>2. /\ t \in Nat
        /\ acceptedAt[k] \in Int
        /\ Generations(t).at \in Nat
    BY <2>1, GenerationsBounded DEF IInv, TypeOK, Recent, Unset
  <2>3. t < Generations(t).at + TTL
    BY <2>1, GenerationsKeep
  <2>4. Generations(t).at < acceptedAt[k] + Lag + 2 * TTL
    BY <2>1, <2>2, GenerationsKeep DEF Remembers
  <2>5. QED
    BY <2>2, <2>3, <2>4
<1>2. QED
  BY <1>1, Invariance, PTL

-----------------------------------------------------------------------------
\* Whole units bound ticks (auth.go inWindow truncates to seconds).
LEMMA WholeUnits ==
    ASSUME NEW c \in Nat, NEW u \in Nat \ {0}, NEW q \in Int, c \div u <= q
    PROVE  c < q * u + u
BY SMTT(20)

\* A pending call carries a time of now that lies in its key's window, or so
\* soon after it as the handler's work allows.
CallInv ==
    /\ call \in [Request -> Call]
    /\ \A r \in Request : call[r] # NoCall =>
          /\ call[r].at \in Recent
          /\ call[r].at < SignedAt[call[r].key] * Unit + Window * Unit + Unit + Stall

LEMMA CallInit == ReplayInit => CallInv
BY DEF ReplayInit, CallInv, Call

LEMMA CallKept == TypeOK /\ CallInv /\ [ReplayNext]_replayVars => CallInv'
<1> SUFFICES ASSUME TypeOK, CallInv, [ReplayNext]_replayVars
             PROVE  CallInv'
  OBVIOUS
<1> USE TtlsetAssumption, ReplayAssumption
<1>1. CASE TimePasses
  <2>1. clock' = clock + 1 /\ call' = call
    BY <1>1 DEF TimePasses, Tick
  <2>2. ASSUME NEW r \in Request, call[r] # NoCall
        PROVE  call[r].at \in Recent'
    BY <1>1, <2>1, <2>2 DEF TimePasses, CallInv, Recent, TypeOK
  <2>3. QED
    BY <2>1, <2>2 DEF CallInv
<1>2. ASSUME NEW r \in Request, Use(r)
      PROVE  CallInv'
  <2>1. call' = [call EXCEPT ![r] = NoCall] /\ clock' = clock
    BY <1>2 DEF Use, Add
  <2>2. QED
    BY <2>1 DEF CallInv, Recent, Call
<1>3. ASSUME NEW r \in Request, NEW k \in Key, Authenticate(r, k)
      PROVE  CallInv'
  <2>1. /\ call' = [call EXCEPT ![r] = [key |-> k, at |-> clock]]
        /\ clock' = clock
    BY <1>3 DEF Authenticate, vars
  <2>2. PICK checked \in 0 .. clock :
           clock <= checked + Stall /\ InWindow(k, checked)
    BY <1>3 DEF Authenticate
  <2>3. SignedAt[k] \in Int /\ checked \in Nat /\ clock \in Nat
    BY DEF TypeOK
  <2>4. checked \div Unit <= SignedAt[k] + Window
    BY <2>2, <2>3 DEF InWindow
  <2>5. checked < (SignedAt[k] + Window) * Unit + Unit
    BY <2>3, <2>4, WholeUnits
  <2>6. (SignedAt[k] + Window) * Unit = SignedAt[k] * Unit + Window * Unit
    BY <2>3
  <2>7. clock < SignedAt[k] * Unit + Window * Unit + Unit + Stall
    BY <2>2, <2>3, <2>5, <2>6
  <2>8. clock \in Recent
    BY <2>3 DEF Recent
  <2>9. [key |-> k, at |-> clock] \in Call
    BY <2>3 DEF Call
  <2>10. QED
    BY <2>1, <2>7, <2>8, <2>9 DEF CallInv, Recent
<1>4. CASE UNCHANGED replayVars
  BY <1>4 DEF replayVars, vars, CallInv, Recent
<1>5. QED
  BY <1>1, <1>2, <1>3, <1>4 DEF ReplayNext

-----------------------------------------------------------------------------
\* Every step of the handlers is a step of the memory or none, so that all
\* that is proved of Ttlset holds here (auth.go fresh, ttlset.go Add).
LEMMA StepRefines ==
    ASSUME CallInv, [ReplayNext]_replayVars
    PROVE  [Next]_vars
<1>1. CASE TimePasses
  BY <1>1 DEF TimePasses, Next
<1>2. ASSUME NEW r \in Request, Use(r)
      PROVE  Next
  <2>1. call[r].key \in Key /\ call[r].at \in Recent
    BY <1>2 DEF Use, CallInv, Call
  <2>2. QED
    BY <1>2, <2>1 DEF Use, Next
<1>3. ASSUME NEW r \in Request, NEW k \in Key, Authenticate(r, k)
      PROVE  UNCHANGED vars
  BY <1>3 DEF Authenticate
<1>4. CASE UNCHANGED replayVars
  BY <1>4 DEF replayVars
<1>5. QED
  BY <1>1, <1>2, <1>3, <1>4 DEF ReplayNext

\* The inductive invariant, of the memory and of the calls.
THEOREM ReplayInvariance == ReplaySpec => [](IInv /\ CallInv)
<1>1. ReplayInit => IInv /\ CallInv
  BY InitEstablishes, CallInit DEF ReplayInit
<1>2. IInv /\ CallInv /\ [ReplayNext]_replayVars => (IInv /\ CallInv)'
  <2> SUFFICES ASSUME IInv, CallInv, [ReplayNext]_replayVars
               PROVE  IInv' /\ CallInv'
    OBVIOUS
  <2>1. CallInv'
    BY CallKept DEF IInv
  <2>2. [Next]_vars
    BY StepRefines
  <2>3. IInv'
    BY <2>2, StepKeeps
  <2>4. QED
    BY <2>1, <2>3
<1>3. QED
  BY <1>1, <1>2, PTL DEF ReplaySpec

\* The variables keep their types, and the times that handlers carry to Add
\* are no older than Lag (auth.go fresh).
THEOREM ReplayTypes == ReplaySpec => []ReplayTypeOK
<1>1. IInv /\ CallInv => ReplayTypeOK
  BY DEF IInv, CallInv, ReplayTypeOK
<1>2. QED
  BY <1>1, ReplayInvariance, PTL

\* The handlers use the memory as Ttlset says (auth.go fresh).
THEOREM ImplementsTtlset == ReplaySpec => Spec
<1>1. ReplayInit => Init
  BY DEF ReplayInit
<1>2. CallInv /\ [ReplayNext]_replayVars => [Next]_vars
  BY StepRefines
<1>3. QED
  BY <1>1, <1>2, ReplayInvariance, PTL DEF ReplaySpec, Spec

-----------------------------------------------------------------------------
\* What is used a second time was first used at the start of its window.
LEMMA SecondUse ==
    ASSUME IInv, CallInv, NEW r \in Request, Use(r), NEW k \in Key,
           acceptedAt[k] # Unset, acceptedAt'[k] # acceptedAt[k], others[k] < Max
    PROVE  acceptedAt[k] < Opens(k) + Excess
<1> USE TtlsetAssumption, ReplayAssumption
<1> DEFINE t == call[r].at
           a == SignedAt[k] * Unit
           b == Window * Unit
<1>1. /\ call[r] \in Call /\ call[r] # NoCall
      /\ call[r].key \in Key /\ t \in Recent /\ Add(call[r].key, t)
  BY DEF Use, CallInv, Call
<1>2. acceptedAt \in [Key -> 0 .. clock \cup {Unset}] /\ clock \in Nat
  BY DEF IInv, TypeOK
<1>3. k = call[r].key /\ ~Remembers(k, t)
  BY <1>1, <1>2 DEF Add, Remembers
<1>4. ~(t - acceptedAt[k] < TTL - 2 * Lag)
  BY <1>1, <1>3, NotForgotten DEF NoEarlyForgetting
<1>5. SignedAt[k] \in Int /\ a \in Int /\ b \in Int /\ t \in Nat /\ acceptedAt[k] \in Nat
  BY <1>1, <1>2 DEF Recent
<1>6. t < a + b + Unit + Stall
  BY <1>1, <1>3 DEF CallInv
<1>7. Opens(k) = a - b
  BY <1>5 DEF Opens
<1>8. Excess = 2 * b + Unit - TTL + Stall + 2 * Lag
  BY DEF Excess
<1>9. QED
  BY <1>4, <1>5, <1>6, <1>7, <1>8

\* Nothing is used twice except what was first used at the very start of its
\* window, or under a flood (auth.go inWindow and fresh).
THEOREM NoReplay == ReplaySpec => ReplayOnlyLate
<1>1. ASSUME IInv, CallInv, [ReplayNext]_replayVars, NEW k \in Key,
             acceptedAt[k] # Unset, acceptedAt'[k] # acceptedAt[k], others[k] < Max
      PROVE  acceptedAt[k] < Opens(k) + Excess
  <2>1. CASE TimePasses
    BY <1>1, <2>1 DEF TimePasses, Tick
  <2>2. ASSUME NEW r \in Request, Use(r)
        PROVE  acceptedAt[k] < Opens(k) + Excess
    BY <1>1, <2>2, SecondUse
  <2>3. ASSUME NEW r \in Request, NEW j \in Key, Authenticate(r, j)
        PROVE  acceptedAt'[k] = acceptedAt[k]
    BY <2>3 DEF Authenticate, vars
  <2>4. CASE UNCHANGED replayVars
    BY <1>1, <2>4 DEF replayVars, vars
  <2>5. QED
    BY <1>1, <2>1, <2>2, <2>3, <2>4 DEF ReplayNext
<1>2. IInv /\ CallInv /\ [ReplayNext]_replayVars =>
        [FirstUseWasEarly]_replayVars
  BY <1>1 DEF FirstUseWasEarly
<1>3. QED
  BY <1>2, ReplayInvariance, PTL DEF ReplaySpec, ReplayOnlyLate

\* What was first used no earlier than its time is not used again.
PunctualStays ==
    \A k \in Key :
        (/\ acceptedAt[k] # Unset
         /\ acceptedAt[k] >= SignedAt[k] * Unit
         /\ others[k] < Max)
        => acceptedAt'[k] = acceptedAt[k]

\* A client whose clock is not ahead of the server's is never replayed, as
\* long as the window is longer than what it exceeds the memory by: 300
\* seconds against one, a day against nothing (server.go:61-64).
THEOREM NoReplayOfPunctual ==
    ASSUME Excess <= Window * Unit
    PROVE  ReplaySpec => [][PunctualStays]_replayVars
<1> USE TtlsetAssumption, ReplayAssumption
<1>1. ASSUME IInv, NEW k \in Key, acceptedAt[k] # Unset,
             acceptedAt[k] >= SignedAt[k] * Unit
      PROVE  ~(acceptedAt[k] < Opens(k) + Excess)
  <2>1. acceptedAt[k] \in Nat /\ SignedAt[k] * Unit \in Int /\ Window * Unit \in Int
    BY <1>1 DEF IInv, TypeOK
  <2>2. Opens(k) = SignedAt[k] * Unit - Window * Unit
    BY DEF Opens
  <2>3. Excess \in Int
    BY DEF Excess
  <2>4. QED
    BY <1>1, <2>1, <2>2, <2>3
<1>2. IInv /\ [FirstUseWasEarly]_replayVars => [PunctualStays]_replayVars
  BY <1>1 DEF FirstUseWasEarly, PunctualStays
<1>3. QED
  BY <1>2, ReplayInvariance, NoReplay, PTL DEF ReplayOnlyLate
=============================================================================
