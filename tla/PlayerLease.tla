----------------------------- MODULE PlayerLease -----------------------------
(***************************************************************************)
(* PlayerLeaseService of every game process against the one Redis server   *)
(* that arbitrates player ownership (game/services/player_lease_service).  *)
(*                                                                         *)
(* A lease is a Redis key per player whose value names the game and a      *)
(* token (the millisecond at which it was taken).  A game takes the key    *)
(* with SET NX PX, extends it in a renewal pass and deletes it with a      *)
(* script that compares the value first; what the process believes it      *)
(* holds is its own map mLeases.  The service never reconnects: the first  *)
(* command whose reply is lost leaves the connection unusable until the    *)
(* process restarts, and that command may or may not have been executed.   *)
(*                                                                         *)
(* This module leaves time out: a key may expire at any moment.            *)
(* PlayerLeaseTimed adds the time to live and the pace of the passes.      *)
(***************************************************************************)
EXTENDS Naturals, GameCluster

CONSTANTS
    Stamps,     \* values of NowMs that a token can carry
    NoOwner     \* the value of an absent key

VARIABLES
    redis,      \* the Redis server: lease key of a player -> value
    mLeases,    \* per game: the leases it believes it holds
    mRedis,     \* per game: state of its Redis context
    running     \* per game: the service is between Start and Stop

leaseVars == <<redis, mLeases, mRedis, running>>

\* The value BuildValue writes: instance and token.  The player is in the key.
PlayerLeaseOwner == [game : Games, token : Stamps]

\* "null": Load could not connect.  "broken": a reply was lost, err is set.
Contexts == {"null", "ok", "broken"}

ASSUME NoOwnerAssumption == NoOwner \notin PlayerLeaseOwner

LeaseTypeOK ==
    /\ redis \in [Players -> PlayerLeaseOwner \cup {NoOwner}]
    /\ mLeases \in [Games -> [Players -> PlayerLeaseOwner \cup {NoOwner}]]
    /\ mRedis \in [Games -> Contexts]
    /\ running \in [Games -> BOOLEAN]

LeaseInit ==
    /\ redis = [p \in Players |-> NoOwner]
    /\ mLeases = [g \in Games |-> [p \in Players |-> NoOwner]]
    /\ mRedis = [g \in Games |-> "null"]
    /\ running = [g \in Games |-> FALSE]

-----------------------------------------------------------------------------
(* What the scripts and the map lookups decide.                            *)

IsHeldLocally(g, p) == mLeases[g][p] # NoOwner

\* GET == ARGV[1] in kRefreshScript and kReleaseScript.
KeyIsMine(g, p) == IsHeldLocally(g, p) /\ redis[p] = mLeases[g][p]

Tracked(g) == {p \in Players : IsHeldLocally(g, p)}

\* Mutant: kReleaseScript without the comparison.
AfterDeleteNoCompare(g, S) ==
    [p \in Players |-> IF p \in S THEN NoOwner ELSE redis[p]]

\* The keys a compare-and-delete by g removes when it is executed for S.
AfterDelete(g, S) ==
    [p \in Players |-> IF p \in S /\ KeyIsMine(g, p) THEN NoOwner ELSE redis[p]]

-----------------------------------------------------------------------------
(* Life of the service.                                                    *)

\* Load and Start: the context is null when Redis cannot be reached.
Boot(g) ==
    /\ ~running[g]
    /\ running' = [running EXCEPT ![g] = TRUE]
    /\ \E c \in {"null", "ok"} : mRedis' = [mRedis EXCEPT ![g] = c]
    /\ UNCHANGED <<redis, mLeases>>

\* Stop releases every tracked lease, Unload drops the context.  A context
\* that breaks on the way leaves some of the keys in place.
Shutdown(g) ==
    /\ running[g]
    /\ \E S \in SUBSET Tracked(g) :
           /\ mRedis[g] # "ok" => S = {}
           /\ redis' = AfterDelete(g, S)
    /\ running' = [running EXCEPT ![g] = FALSE]
    /\ mLeases' = [mLeases EXCEPT ![g] = [p \in Players |-> NoOwner]]
    /\ mRedis' = [mRedis EXCEPT ![g] = "null"]

\* The process dies: its memory is gone, its keys stay.
Crash(g) ==
    /\ running[g]
    /\ running' = [running EXCEPT ![g] = FALSE]
    /\ mLeases' = [mLeases EXCEPT ![g] = [p \in Players |-> NoOwner]]
    /\ mRedis' = [mRedis EXCEPT ![g] = "null"]
    /\ UNCHANGED redis

-----------------------------------------------------------------------------
(* Acquire and Release.  ok is the result the caller sees.                 *)

\* SET key value NX PX, executed while the key is absent.
SetKey(g, p, ms) == redis' = [redis EXCEPT ![p] = [game |-> g, token |-> ms]]

\* A lease the process already tracks is not asked for again.
AcquireTracked(g, p) ==
    /\ mRedis[g] # "null"
    /\ IsHeldLocally(g, p)
    /\ UNCHANGED leaseVars

\* Mutant: SET without NX.
AcquireFreeNoNx(g, p) ==
    /\ mRedis[g] = "ok"
    /\ ~IsHeldLocally(g, p)
    /\ \E ms \in Stamps :
           /\ SetKey(g, p, ms)
           /\ mLeases' = [mLeases EXCEPT ![g][p] = [game |-> g, token |-> ms]]
    /\ UNCHANGED <<mRedis, running>>

AcquireFree(g, p) ==
    /\ mRedis[g] = "ok"
    /\ ~IsHeldLocally(g, p)
    /\ redis[p] = NoOwner
    /\ \E ms \in Stamps :
           /\ SetKey(g, p, ms)
           /\ mLeases' = [mLeases EXCEPT ![g][p] = [game |-> g, token |-> ms]]
    /\ UNCHANGED <<mRedis, running>>

\* The context is unusable, or the reply is not OK: nil because the key is
\* there, or an error of the server.
AcquireRefused(g, p) ==
    /\ mRedis[g] = "null" \/ ~IsHeldLocally(g, p)
    /\ UNCHANGED leaseVars

\* The reply is lost.  The key may have been taken for a lease that nobody
\* tracks.
AcquireReplyLost(g, p) ==
    /\ mRedis[g] = "ok"
    /\ ~IsHeldLocally(g, p)
    /\ mRedis' = [mRedis EXCEPT ![g] = "broken"]
    /\ \/ UNCHANGED redis
       \/ redis[p] = NoOwner /\ \E ms \in Stamps : SetKey(g, p, ms)
    /\ UNCHANGED <<mLeases, running>>

Acquire(g, p, ok) ==
    /\ running[g]
    /\ \/ ok /\ (AcquireTracked(g, p) \/ AcquireFree(g, p))
       \/ ~ok /\ (AcquireRefused(g, p) \/ AcquireReplyLost(g, p))

\* The record is erased whatever Redis answers; an untracked lease is left
\* alone ("player lease is not tracked locally").
Release(g, p) ==
    /\ running[g]
    /\ mLeases' = [mLeases EXCEPT ![g][p] = NoOwner]
    /\ \/ UNCHANGED mRedis /\ mRedis[g] = "ok" /\ redis' = AfterDelete(g, {p})
       \/ UNCHANGED mRedis /\ mRedis[g] # "ok" /\ UNCHANGED redis
       \/ /\ mRedis[g] = "ok" /\ IsHeldLocally(g, p)
          /\ mRedis' = [mRedis EXCEPT ![g] = "broken"]
          /\ redis' \in {redis, AfterDelete(g, {p})}
       \/ UNCHANGED <<mRedis, redis>> /\ mRedis[g] = "ok" \* error reply
    /\ UNCHANGED running

-----------------------------------------------------------------------------
(* One renewal pass of Loop, under the service's mutex from end to end:    *)
(* every tracked lease is refreshed, and a refresh that is refused or gets *)
(* no answer (or an error) loses the lease locally.  lost is the set of    *)
(* lost leases.                                                            *)

RenewLost(g, lost) ==
    /\ lost \subseteq Tracked(g)
    /\ \/ /\ mRedis[g] = "ok"
          /\ lost = {p \in Tracked(g) : ~KeyIsMine(g, p)}
          /\ UNCHANGED mRedis
       \/ mRedis[g] # "ok" /\ lost = Tracked(g) /\ UNCHANGED mRedis
       \/ /\ mRedis[g] = "ok"
          /\ lost # {}
          /\ {p \in Tracked(g) : ~KeyIsMine(g, p)} \subseteq lost
          /\ mRedis' \in {mRedis, [mRedis EXCEPT ![g] = "broken"]}

Loop(g, lost) ==
    /\ running[g]
    /\ RenewLost(g, lost)
    /\ mLeases' = [mLeases EXCEPT ![g] =
                     [p \in Players |-> IF p \in lost THEN NoOwner ELSE mLeases[g][p]]]
    /\ UNCHANGED <<redis, running>>

-----------------------------------------------------------------------------
(* Redis drops keys whose time to live has run out.                        *)

Expire(S) ==
    /\ S # {}
    /\ \A p \in S : redis[p] # NoOwner
    /\ redis' = [p \in Players |-> IF p \in S THEN NoOwner ELSE redis[p]]
    /\ UNCHANGED <<mLeases, mRedis, running>>

LeaseNext ==
    \/ \E g \in Games : Boot(g) \/ Shutdown(g) \/ Crash(g)
    \/ \E g \in Games, p \in Players :
           Acquire(g, p, TRUE) \/ Acquire(g, p, FALSE) \/ Release(g, p)
    \/ \E g \in Games, lost \in SUBSET Players : Loop(g, lost)
    \/ \E S \in SUBSET Players : Expire(S)

LeaseSpec == LeaseInit /\ [][LeaseNext]_leaseVars

-----------------------------------------------------------------------------
(* Properties.                                                             *)

\* A lease record of a game always carries that game's own identity, so the
\* comparison in the scripts can tell a stale holder from the present one.
OwnIdentity ==
    \A g \in Games, p \in Players : IsHeldLocally(g, p) => mLeases[g][p].game = g

\* The key of a game that still tracks it is never taken or deleted by
\* another game: not by a SET, not by the release or the shutdown of a stale
\* holder.  It goes away by expiry (no game's memory changes) or because its
\* own holder let it go in the same step.
NoTheftStep ==
    \A g \in Games, p \in Players :
        KeyIsMine(g, p) /\ redis'[p] # redis[p] =>
            /\ redis'[p] = NoOwner
            /\ mLeases' = mLeases \/ mLeases'[g][p] = NoOwner

NoTheft == [][NoTheftStep]_leaseVars
=============================================================================
