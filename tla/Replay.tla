------------------------------- MODULE Replay -------------------------------
(***************************************************************************)
(* What keeps a captured request from being used again: the window of the  *)
(* time it carries and the memory of what was used, as requests meet them  *)
(* (server/go/internal/api/auth.go, protocol/pow.go freshDate).            *)
(*                                                                         *)
(* The window and the memory measure time in different units.  A signature *)
(* carries whole seconds, and the window is 300 of them to either side,    *)
(* both included: 601 seconds, of which the memory keeps 600.  A token     *)
(* carries a day and its window is a day to either side: three days, as    *)
(* long as the memory.  One module stands for both: Unit is the second or  *)
(* the day in ticks of the clock, Window is 300 or 1, and the memory is    *)
(* Ttlset's "seen" or "spent".                                             *)
(*                                                                         *)
(* A handler reads the clock for the window, works (looks up the user,     *)
(* verifies the signature), reads the clock again and calls Add with that. *)
(***************************************************************************)
EXTENDS Ttlset

CONSTANTS Request,    \* places for requests between their checks and Add
          Unit,       \* ticks in the unit that Key's times are in
          Window,     \* units that such a time may be off, either way
          SignedAt,   \* the time that each key carries, in units
          Stall       \* longest work between the two readings of the clock

ASSUME ReplayAssumption ==
    /\ Unit \in Nat \ {0}
    /\ Window \in Nat
    /\ SignedAt \in [Key -> Int]
    /\ Stall \in Nat

VARIABLE call  \* the call of Add each request is about to make, or NoCall

replayVars == <<vars, call>>

NoCall == [key |-> {}, at |-> Unset]
Call == [key : Key, at : Nat] \cup {NoCall}

ReplayInit == Init /\ call = [r \in Request |-> NoCall]

-----------------------------------------------------------------------------
\* Only times ahead are checked.
InWindowAhead(k, now) == SignedAt[k] - (now \div Unit) <= Window

\* inWindow: both sides are whole units.
InWindow(k, now) ==
    LET d == (now \div Unit) - SignedAt[k] IN d >= -Window /\ d <= Window

\* The request was in its window at some reading of the clock and passed the
\* other checks since; fresh reads the clock now.
Authenticate(r, k) ==
    /\ call[r] = NoCall
    /\ \E checked \in 0 .. clock : clock <= checked + Stall /\ InWindow(k, checked)
    /\ call' = [call EXCEPT ![r] = [key |-> k, at |-> clock]]
    /\ UNCHANGED vars

\* fresh: the call of Add.  Whether k was new is whether the request goes on.
Use(r) ==
    /\ call[r] # NoCall
    /\ Add(call[r].key, call[r].at)
    /\ call' = [call EXCEPT ![r] = NoCall]

\* Nobody waits for the mutex longer than Lag.
TimePasses ==
    /\ \A r \in Request : call[r] # NoCall => call[r].at + Lag > clock
    /\ Tick
    /\ UNCHANGED call

ReplayNext ==
    \/ TimePasses
    \/ \E r \in Request : Use(r) \/ \E k \in Key : Authenticate(r, k)

ReplaySpec == ReplayInit /\ [][ReplayNext]_replayVars

-----------------------------------------------------------------------------
\* The first tick at which k is in its window.
Opens(k) == (SignedAt[k] - Window) * Unit

\* How much longer than the memory's ttl the window is, and what the work and
\* the waits of handlers add to it.
Excess == (2 * Window + 1) * Unit - TTL + Stall + 2 * Lag

ReplayTypeOK ==
    /\ TypeOK
    /\ call \in [Request -> Call]
    /\ \A r \in Request : call[r] # NoCall => call[r].at \in Recent

FirstUseWasEarly ==
    \A k \in Key :
        (/\ acceptedAt[k] # Unset
         /\ acceptedAt'[k] # acceptedAt[k]
         /\ others[k] < Max)
        => acceptedAt[k] < Opens(k) + Excess

\* Nothing is used twice (auth.go fresh), with one exception: what was first
\* used at the very start of its window.  For a signature that is one whose
\* time was ahead of the server's clock by all of the 300 seconds, for the
\* window is a second longer than the memory; a client whose clock is right
\* is never in it.  (Nor does it hold under a flood: see NoEarlyForgetting.)
ReplayOnlyLate == [][FirstUseWasEarly]_replayVars
=============================================================================
