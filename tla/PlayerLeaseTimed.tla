--------------------------- MODULE PlayerLeaseTimed ---------------------------
(***************************************************************************)
(* PlayerLease with the clock: every key has a time to live (PX in the     *)
(* SET, PEXPIRE in the refresh) and every game runs a renewal pass each    *)
(* kRenewInterval, late by at most MaxDelay.  Times are counted down, so   *)
(* nothing has to be bounded.                                              *)
(*                                                                         *)
(* Each action is the action of PlayerLease and what it does to the times. *)
(***************************************************************************)
EXTENDS PlayerLease

CONSTANTS
    LeaseTtl,       \* kPlayerLeaseTtlSeconds
    RenewInterval,  \* kRenewInterval, the sleep between two passes
    MaxDelay        \* how late the loop's thread may come to a pass

ASSUME TimesAssumption ==
    LeaseTtl \in Nat \ {0} /\ RenewInterval \in Nat /\ MaxDelay \in Nat

VARIABLES
    ttl,    \* per player: time left before Redis drops the key, 0 if absent
    due     \* per game: time left before its next pass is MaxDelay late

timedVars == <<redis, mLeases, mRedis, running, ttl, due>>

\* What makes leases exclusive: the passes keep ahead of the expiry.
Timely == RenewInterval + MaxDelay < LeaseTtl

TimedTypeOK ==
    /\ LeaseTypeOK
    /\ ttl \in [Players -> 0 .. LeaseTtl]
    /\ due \in [Games -> 0 .. RenewInterval + MaxDelay]

TimedInit ==
    /\ LeaseInit
    /\ ttl = [p \in Players |-> 0]
    /\ due = [g \in Games |-> MaxDelay]

\* A key that went away took its time to live with it.
KeepTtl == ttl' = [p \in Players |-> IF redis'[p] = NoOwner THEN 0 ELSE ttl[p]]

\* The first pass follows Start without a sleep.
TimedBoot(g) ==
    /\ Boot(g)
    /\ due' = [due EXCEPT ![g] = MaxDelay]
    /\ UNCHANGED ttl

TimedShutdown(g) == Shutdown(g) /\ KeepTtl /\ UNCHANGED due

TimedCrash(g) == Crash(g) /\ UNCHANGED <<ttl, due>>

\* A key that was set by this step expires LeaseTtl from now.
SetTtl ==
    ttl' = [p \in Players |-> IF redis'[p] # redis[p] THEN LeaseTtl ELSE ttl[p]]

\* Mutant: the time to live is written whether or not the key was free.
TimedAcquireTouches(g, p, ok) ==
    /\ Acquire(g, p, ok)
    /\ ttl' = [ttl EXCEPT ![p] = IF redis'[p] = NoOwner THEN 0 ELSE LeaseTtl]
    /\ UNCHANGED due

TimedAcquire(g, p, ok) == Acquire(g, p, ok) /\ SetTtl /\ UNCHANGED due

TimedRelease(g, p) == Release(g, p) /\ KeepTtl /\ UNCHANGED due

\* Mutant: the refresh compares the value and forgets PEXPIRE.
TimedLoopNoExtend(g, lost) ==
    /\ due[g] <= MaxDelay
    /\ Loop(g, lost)
    /\ due' = [due EXCEPT ![g] = RenewInterval + MaxDelay]
    /\ UNCHANGED ttl

\* A pass restarts the time to live of every lease it keeps.  At most one
\* refresh can have been executed without its answer arriving.
TimedLoop(g, lost) ==
    /\ due[g] <= MaxDelay
    /\ Loop(g, lost)
    /\ \E refreshed \in SUBSET {p \in Tracked(g) : KeyIsMine(g, p)} :
           /\ Tracked(g) \ lost \subseteq refreshed
           /\ \A p, q \in refreshed \cap lost : p = q
           /\ ttl' = [p \in Players |-> IF p \in refreshed THEN LeaseTtl ELSE ttl[p]]
    /\ due' = [due EXCEPT ![g] = RenewInterval + MaxDelay]

\* One unit of time.  It does not pass while some loop is MaxDelay late.
Tick ==
    /\ \A g \in Games : running[g] => due[g] > 0
    /\ due' = [g \in Games |-> IF running[g] THEN due[g] - 1 ELSE due[g]]
    /\ ttl' = [p \in Players |-> IF ttl[p] > 0 THEN ttl[p] - 1 ELSE 0]
    /\ redis' = [p \in Players |-> IF ttl[p] = 1 THEN NoOwner ELSE redis[p]]
    /\ UNCHANGED <<mLeases, mRedis, running>>

TimedNext ==
    \/ \E g \in Games : TimedBoot(g) \/ TimedShutdown(g) \/ TimedCrash(g)
    \/ \E g \in Games, p \in Players :
           \/ TimedAcquire(g, p, TRUE)
           \/ TimedAcquire(g, p, FALSE)
           \/ TimedRelease(g, p)
    \/ \E g \in Games, lost \in SUBSET Players : TimedLoop(g, lost)
    \/ Tick

TimedSpec == TimedInit /\ [][TimedNext]_timedVars

\* The clock runs, and a loop that is due gets to its pass (Loop is a thread
\* of its own that only sleeps).
TimedFairSpec ==
    /\ TimedSpec
    /\ WF_timedVars(Tick)
    /\ \A g \in Games :
           WF_timedVars(\E lost \in SUBSET Players : TimedLoop(g, lost))

-----------------------------------------------------------------------------
(* Properties.                                                             *)

\* While the passes keep ahead of the expiry, no two games believe they hold
\* the same player: the promise that one authoritative game owns a player.
\* It has to survive lost replies, broken connections, crashes and restarts.
OneHolder ==
    Timely => \A p \in Players, g, h \in Games :
                 IsHeldLocally(g, p) /\ IsHeldLocally(h, p) => g = h

\* The same, seen from Redis: a game that believes it holds a player has its
\* own key behind it, and the key outlives the game's next pass.
BackedUntilPass ==
    Timely => \A g \in Games, p \in Players :
                 IsHeldLocally(g, p) => KeyIsMine(g, p) /\ ttl[p] > due[g]

\* A key nobody stands behind any more (its game crashed, or never saw the
\* reply of its SET) goes away by itself, so the player can be taken over.
Orphan(p) == redis[p] # NoOwner /\ \A g \in Games : ~KeyIsMine(g, p)

OrphanExpires == \A p \in Players : Orphan(p) ~> redis[p] = NoOwner
=============================================================================
