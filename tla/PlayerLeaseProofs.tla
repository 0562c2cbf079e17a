-------------------------- MODULE PlayerLeaseProofs --------------------------
(***************************************************************************)
(* Theorems about the lease service, for any number of games and players   *)
(* and any time to live.                                                   *)
(***************************************************************************)
EXTENDS PlayerLeaseTimed, TLAPS

-----------------------------------------------------------------------------
(* The operators.                                                          *)

\* A compare-and-delete keeps the store well formed, and changes no key but
\* those that carry the deleting game's own lease.
LEMMA AfterDeleteFacts ==
    ASSUME LeaseTypeOK, NEW g \in Games, NEW S
    PROVE  /\ AfterDelete(g, S) \in [Players -> PlayerLeaseOwner \cup {NoOwner}]
           /\ \A p \in Players : AfterDelete(g, S)[p] # redis[p] =>
                  /\ KeyIsMine(g, p)
                  /\ p \in S
                  /\ AfterDelete(g, S)[p] = NoOwner
  BY DEF AfterDelete, LeaseTypeOK

-----------------------------------------------------------------------------
(* Types.                                                                  *)

LEMMA LeaseInitType == LeaseInit => LeaseTypeOK
  BY DEF LeaseInit, LeaseTypeOK, Contexts

LEMMA AcquireType ==
    ASSUME LeaseTypeOK, NEW g \in Games, NEW p \in Players, NEW ok, Acquire(g, p, ok)
    PROVE  LeaseTypeOK'
<1>1. CASE AcquireTracked(g, p) \/ AcquireRefused(g, p)
  BY <1>1 DEF AcquireTracked, AcquireRefused, leaseVars, LeaseTypeOK
<1>2. CASE AcquireFree(g, p)
  BY <1>2 DEF AcquireFree, SetKey, PlayerLeaseOwner, LeaseTypeOK
<1>3. CASE AcquireReplyLost(g, p)
  BY <1>3 DEF AcquireReplyLost, SetKey, PlayerLeaseOwner, LeaseTypeOK, Contexts
<1> QED
  BY <1>1, <1>2, <1>3 DEF Acquire

LEMMA ReleaseType ==
    ASSUME LeaseTypeOK, NEW g \in Games, NEW p \in Players, Release(g, p)
    PROVE  LeaseTypeOK'
<1>1. mRedis' \in [Games -> Contexts] /\ mLeases' \in [Games -> [Players -> PlayerLeaseOwner \cup {NoOwner}]]
      /\ running' \in [Games -> BOOLEAN]
  BY DEF Release, LeaseTypeOK, Contexts
<1>2. redis' \in {redis, AfterDelete(g, {p})}
  BY DEF Release
<1> QED
  BY <1>1, <1>2, AfterDeleteFacts DEF LeaseTypeOK

LEMMA LoopType ==
    ASSUME LeaseTypeOK, NEW g \in Games, NEW lost, Loop(g, lost)
    PROVE  LeaseTypeOK'
<1>1. mRedis' \in [Games -> Contexts]
  BY DEF Loop, RenewLost, LeaseTypeOK, Contexts
<1> QED
  BY <1>1 DEF Loop, LeaseTypeOK

\* Every step keeps the types, the silent ones included.
LEMMA LeaseStepType == LeaseTypeOK /\ [LeaseNext]_leaseVars => LeaseTypeOK'
<1> SUFFICES ASSUME LeaseTypeOK, [LeaseNext]_leaseVars PROVE LeaseTypeOK'
  OBVIOUS
<1>1. ASSUME NEW g \in Games, Boot(g) PROVE LeaseTypeOK'
  BY <1>1 DEF Boot, LeaseTypeOK, Contexts
<1>2. ASSUME NEW g \in Games, Shutdown(g) PROVE LeaseTypeOK'
  BY <1>2, AfterDeleteFacts DEF Shutdown, LeaseTypeOK, Contexts
<1>3. ASSUME NEW g \in Games, Crash(g) PROVE LeaseTypeOK'
  BY <1>3 DEF Crash, LeaseTypeOK, Contexts
<1>4. ASSUME NEW S \in SUBSET Players, Expire(S) PROVE LeaseTypeOK'
  BY <1>4 DEF Expire, LeaseTypeOK
<1>5. CASE UNCHANGED leaseVars
  BY <1>5 DEF leaseVars, LeaseTypeOK
<1> QED
  BY <1>1, <1>2, <1>3, <1>4, <1>5, AcquireType, ReleaseType, LoopType DEF LeaseNext

\* The lease service keeps its types, whatever replies are lost.
THEOREM LeaseTyping == LeaseSpec => []LeaseTypeOK
<1>1. LeaseInit => LeaseTypeOK
  BY LeaseInitType
<1>2. LeaseTypeOK /\ [LeaseNext]_leaseVars => LeaseTypeOK'
  BY LeaseStepType
<1> QED
  BY <1>1, <1>2, PTL DEF LeaseSpec

-----------------------------------------------------------------------------
(* Nobody's key is taken by another game.                                  *)

\* Records are written by AcquireFree only, with the game's own identity.
LEMMA IdentityStep ==
    LeaseTypeOK /\ OwnIdentity /\ [LeaseNext]_leaseVars => OwnIdentity'
<1> SUFFICES ASSUME LeaseTypeOK, OwnIdentity, [LeaseNext]_leaseVars
             PROVE  OwnIdentity'
  OBVIOUS
<1> SUFFICES ASSUME NEW h \in Games, NEW q \in Players, mLeases'[h][q] # NoOwner
             PROVE  mLeases'[h][q].game = h
  BY DEF OwnIdentity, IsHeldLocally
<1> SUFFICES mLeases'[h][q] = mLeases[h][q] \/ mLeases'[h][q].game = h
  BY DEF OwnIdentity, IsHeldLocally
<1> USE DEF LeaseTypeOK
<1>1. ASSUME NEW g \in Games, Boot(g) \/ Shutdown(g) \/ Crash(g)
      PROVE  mLeases'[h][q] = mLeases[h][q]
  BY <1>1 DEF Boot, Shutdown, Crash
<1>2. ASSUME NEW g \in Games, NEW p \in Players, NEW ok, Acquire(g, p, ok)
      PROVE  mLeases'[h][q] = mLeases[h][q] \/ mLeases'[h][q].game = h
  <2>1. CASE AcquireFree(g, p)
    BY <2>1 DEF AcquireFree
  <2>2. CASE AcquireTracked(g, p) \/ AcquireRefused(g, p) \/ AcquireReplyLost(g, p)
    BY <2>2 DEF AcquireTracked, AcquireRefused, AcquireReplyLost, leaseVars
  <2> QED
    BY <1>2, <2>1, <2>2 DEF Acquire
<1>3. ASSUME NEW g \in Games, NEW p \in Players, Release(g, p)
      PROVE  mLeases'[h][q] = mLeases[h][q]
  BY <1>3 DEF Release
<1>4. ASSUME NEW g \in Games, NEW lost, Loop(g, lost)
      PROVE  mLeases'[h][q] = mLeases[h][q]
  BY <1>4 DEF Loop
<1>5. ASSUME NEW S, Expire(S) PROVE mLeases'[h][q] = mLeases[h][q]
  BY <1>5 DEF Expire
<1> QED
  BY <1>1, <1>2, <1>3, <1>4, <1>5 DEF LeaseNext, leaseVars

\* One step: a key that carries a tracked lease can only go away, and only
\* by expiry or by the hand of the game that tracks it.  OwnIdentity is what
\* tells the compare-and-delete of a stale holder from that of the present one.
LEMMA NoTheftInStep ==
    LeaseTypeOK /\ OwnIdentity /\ [LeaseNext]_leaseVars => NoTheftStep
<1> SUFFICES ASSUME LeaseTypeOK, OwnIdentity, [LeaseNext]_leaseVars,
                    NEW h \in Games, NEW q \in Players,
                    KeyIsMine(h, q), redis'[q] # redis[q]
             PROVE  redis'[q] = NoOwner /\ (mLeases' = mLeases \/ mLeases'[h][q] = NoOwner)
  BY DEF NoTheftStep
<1>0. redis[q] # NoOwner /\ \A g \in Games : KeyIsMine(g, q) => g = h
  BY DEF KeyIsMine, IsHeldLocally, OwnIdentity
<1>1. ASSUME NEW g \in Games, Boot(g) \/ Crash(g) PROVE FALSE
  BY <1>1 DEF Boot, Crash
<1>2. ASSUME NEW g \in Games, Shutdown(g)
      PROVE  redis'[q] = NoOwner /\ mLeases'[h][q] = NoOwner
  BY <1>0, <1>2, AfterDeleteFacts DEF Shutdown, LeaseTypeOK
<1>3. ASSUME NEW g \in Games, NEW p \in Players, NEW ok, Acquire(g, p, ok) PROVE FALSE
  <2>1. CASE AcquireTracked(g, p) \/ AcquireRefused(g, p)
    BY <2>1 DEF AcquireTracked, AcquireRefused, leaseVars
  <2>2. CASE AcquireFree(g, p) \/ AcquireReplyLost(g, p)
    BY <1>0, <2>2 DEF AcquireFree, AcquireReplyLost, SetKey, LeaseTypeOK
  <2> QED
    BY <1>3, <2>1, <2>2 DEF Acquire
<1>4. ASSUME NEW g \in Games, NEW p \in Players, Release(g, p)
      PROVE  redis'[q] = NoOwner /\ mLeases'[h][q] = NoOwner
  <2>1. redis' = AfterDelete(g, {p})
    BY <1>4 DEF Release
  <2>2. KeyIsMine(g, q) /\ q = p /\ redis'[q] = NoOwner
    BY <2>1, AfterDeleteFacts
  <2> QED
    BY <1>0, <1>4, <2>2 DEF Release, LeaseTypeOK
<1>5. ASSUME NEW g \in Games, NEW lost, Loop(g, lost) PROVE FALSE
  BY <1>5 DEF Loop
<1>6. ASSUME NEW S \in SUBSET Players, Expire(S)
      PROVE  redis'[q] = NoOwner /\ mLeases' = mLeases
  BY <1>6 DEF Expire
<1> QED
  BY <1>1, <1>2, <1>3, <1>4, <1>5, <1>6 DEF LeaseNext, leaseVars

\* No game takes or deletes the key of a game that still tracks its lease.
THEOREM LeaseNoTheft == LeaseSpec => NoTheft
<1> DEFINE Inv == LeaseTypeOK /\ OwnIdentity
<1>1. LeaseInit => Inv
  BY LeaseInitType DEF LeaseInit, OwnIdentity, IsHeldLocally
<1>2. Inv /\ [LeaseNext]_leaseVars => Inv'
  BY LeaseStepType, IdentityStep
<1>3. Inv /\ [LeaseNext]_leaseVars => [NoTheftStep]_leaseVars
  BY NoTheftInStep
<1> QED
  BY <1>1, <1>2, <1>3, PTL DEF LeaseSpec, NoTheft

-----------------------------------------------------------------------------
(* The timed service implements the untimed one.                           *)

\* A tick of the clock is an expiry of the keys whose time has come, or
\* nothing that the untimed service could see.
LEMMA TickExpires ==
    ASSUME LeaseTypeOK, Tick
    PROVE  UNCHANGED leaseVars \/ \E S \in SUBSET Players : Expire(S)
<1> DEFINE S == {p \in Players : ttl[p] = 1 /\ redis[p] # NoOwner}
<1>1. redis' = [p \in Players |-> IF p \in S THEN NoOwner ELSE redis[p]]
  BY DEF Tick, LeaseTypeOK
<1>2. CASE S = {}
  BY <1>1, <1>2 DEF Tick, leaseVars, LeaseTypeOK
<1>3. CASE S # {}
  <2>1. S \in SUBSET Players /\ Expire(S)
    BY <1>1, <1>3 DEF Tick, Expire
  <2> QED
    BY <2>1
<1> QED
  BY <1>2, <1>3

LEMMA TimedStepIsLeaseStep ==
    LeaseTypeOK /\ [TimedNext]_timedVars => [LeaseNext]_leaseVars
<1> SUFFICES ASSUME LeaseTypeOK, [TimedNext]_timedVars PROVE [LeaseNext]_leaseVars
  OBVIOUS
<1>1. CASE Tick
  BY <1>1, TickExpires DEF LeaseNext
<1>2. CASE UNCHANGED timedVars
  BY <1>2 DEF timedVars, leaseVars
<1>3. ASSUME NEW g \in Games, TimedBoot(g) \/ TimedShutdown(g) \/ TimedCrash(g)
      PROVE  LeaseNext
  BY <1>3 DEF TimedBoot, TimedShutdown, TimedCrash, LeaseNext
<1>4. ASSUME NEW g \in Games, NEW p \in Players,
             TimedAcquire(g, p, TRUE) \/ TimedAcquire(g, p, FALSE) \/ TimedRelease(g, p)
      PROVE  LeaseNext
  BY <1>4 DEF TimedAcquire, TimedRelease, LeaseNext
<1>5. ASSUME NEW g \in Games, NEW lost \in SUBSET Players, TimedLoop(g, lost)
      PROVE  LeaseNext
  BY <1>5 DEF TimedLoop, LeaseNext
<1> QED
  BY <1>1, <1>2, <1>3, <1>4, <1>5 DEF TimedNext

\* Every behaviour of the timed service is one of the untimed service, so
\* what is proved of the latter (NoTheft) holds of the former.
THEOREM TimedImplementsLease == TimedSpec => LeaseSpec
<1>1. TimedInit => LeaseInit
  BY DEF TimedInit
<1>2. LeaseInit => LeaseTypeOK
  BY LeaseInitType
<1>3. LeaseTypeOK /\ [TimedNext]_timedVars => [LeaseNext]_leaseVars
  BY TimedStepIsLeaseStep
<1>4. LeaseTypeOK /\ [TimedNext]_timedVars => LeaseTypeOK'
  BY TimedStepIsLeaseStep, LeaseStepType
<1> QED
  BY <1>1, <1>2, <1>3, <1>4, PTL DEF TimedSpec, LeaseSpec

-----------------------------------------------------------------------------
(* One holder.                                                             *)

\* A process that does not run tracks nothing.
StoppedHoldsNothing ==
    \A g \in Games, p \in Players : IsHeldLocally(g, p) => running[g]

\* The inductive invariant.  OneHolder does not mention Redis, and Redis is
\* where the games meet: BackedUntilPass ties each record to the one key.
TimedInv == TimedTypeOK /\ OwnIdentity /\ StoppedHoldsNothing /\ BackedUntilPass

LEMMA TimedTypeStep == TimedTypeOK /\ [TimedNext]_timedVars => TimedTypeOK'
<1> SUFFICES ASSUME TimedTypeOK, [TimedNext]_timedVars PROVE TimedTypeOK'
  OBVIOUS
<1>1. LeaseTypeOK'
  BY TimedStepIsLeaseStep, LeaseStepType DEF TimedTypeOK
<1> SUFFICES /\ ttl' \in [Players -> 0 .. LeaseTtl]
             /\ due' \in [Games -> 0 .. RenewInterval + MaxDelay]
  BY <1>1 DEF TimedTypeOK
<1> USE TimesAssumption DEF TimedTypeOK
<1>2. ASSUME NEW g \in Games, TimedBoot(g)
      PROVE  ttl' = ttl /\ due' \in [Games -> 0 .. RenewInterval + MaxDelay]
  BY <1>2 DEF TimedBoot
<1>3. ASSUME NEW g \in Games, TimedShutdown(g) \/ TimedCrash(g)
      PROVE  ttl' \in [Players -> 0 .. LeaseTtl] /\ due' = due
  BY <1>3 DEF TimedShutdown, TimedCrash, KeepTtl
<1>4. ASSUME NEW g \in Games, NEW p \in Players, NEW ok, TimedAcquire(g, p, ok)
      PROVE  ttl' \in [Players -> 0 .. LeaseTtl] /\ due' = due
  BY <1>4 DEF TimedAcquire, SetTtl
<1>5. ASSUME NEW g \in Games, NEW p \in Players, TimedRelease(g, p)
      PROVE  ttl' \in [Players -> 0 .. LeaseTtl] /\ due' = due
  BY <1>5 DEF TimedRelease, KeepTtl
<1>6. ASSUME NEW g \in Games, NEW lost, TimedLoop(g, lost)
      PROVE  /\ ttl' \in [Players -> 0 .. LeaseTtl]
             /\ due' \in [Games -> 0 .. RenewInterval + MaxDelay]
  BY <1>6 DEF TimedLoop
<1>7. ASSUME Tick
      PROVE  /\ ttl' \in [Players -> 0 .. LeaseTtl]
             /\ due' \in [Games -> 0 .. RenewInterval + MaxDelay]
  BY <1>7 DEF Tick
<1>8. CASE UNCHANGED timedVars
  BY <1>8 DEF timedVars
<1> QED
  BY <1>2, <1>3, <1>4, <1>5, <1>6, <1>7, <1>8 DEF TimedNext

LEMMA StoppedStep ==
    LeaseTypeOK /\ StoppedHoldsNothing /\ [LeaseNext]_leaseVars => StoppedHoldsNothing'
<1> SUFFICES ASSUME LeaseTypeOK, StoppedHoldsNothing, [LeaseNext]_leaseVars,
                    NEW h \in Games, NEW q \in Players, mLeases'[h][q] # NoOwner
             PROVE  running'[h]
  BY DEF StoppedHoldsNothing, IsHeldLocally
<1>0. mLeases[h][q] # NoOwner => running[h]
  BY DEF StoppedHoldsNothing, IsHeldLocally
<1> USE <1>0 DEF LeaseTypeOK
<1>1. ASSUME NEW g \in Games, Boot(g) PROVE running'[h]
  BY <1>1 DEF Boot
<1>2. ASSUME NEW g \in Games, Shutdown(g) PROVE running'[h]
  BY <1>2 DEF Shutdown
<1>3. ASSUME NEW g \in Games, Crash(g) PROVE running'[h]
  BY <1>3 DEF Crash
<1>4. ASSUME NEW g \in Games, NEW p \in Players, NEW ok, Acquire(g, p, ok)
      PROVE  running'[h]
  <2>1. running[g] /\ running' = running
    BY <1>4 DEF Acquire, AcquireTracked, AcquireFree, AcquireRefused,
                AcquireReplyLost, leaseVars
  <2>2. h = g \/ mLeases'[h][q] = mLeases[h][q]
    BY <1>4 DEF Acquire, AcquireTracked, AcquireFree, AcquireRefused,
                AcquireReplyLost, leaseVars
  <2> QED
    BY <2>1, <2>2
<1>5. ASSUME NEW g \in Games, NEW p \in Players, Release(g, p) PROVE running'[h]
  BY <1>5 DEF Release
<1>6. ASSUME NEW g \in Games, NEW lost, Loop(g, lost) PROVE running'[h]
  BY <1>6 DEF Loop
<1>7. ASSUME NEW S, Expire(S) PROVE running'[h]
  BY <1>7 DEF Expire
<1> QED
  BY <1>1, <1>2, <1>3, <1>4, <1>5, <1>6, <1>7 DEF LeaseNext, leaseVars

\* The heart of the argument, one case per action: whoever holds a player
\* has its own key behind it, for longer than it takes to the next pass.
LEMMA BackedStep == TimedInv /\ [TimedNext]_timedVars => BackedUntilPass'
<1> SUFFICES ASSUME TimedInv, [TimedNext]_timedVars, Timely,
                    NEW h \in Games, NEW q \in Players, mLeases'[h][q] # NoOwner
             PROVE  redis'[q] = mLeases'[h][q] /\ ttl'[q] > due'[h]
  BY DEF BackedUntilPass, IsHeldLocally, KeyIsMine, Timely
<1> DEFINE Goal == redis'[q] = mLeases'[h][q] /\ ttl'[q] > due'[h]
<1>0. /\ LeaseTypeOK
      /\ ttl \in [Players -> 0 .. LeaseTtl]
      /\ due \in [Games -> 0 .. RenewInterval + MaxDelay]
      /\ due'[h] \in 0 .. RenewInterval + MaxDelay
  BY TimedTypeStep DEF TimedInv, TimedTypeOK
<1>a. ASSUME mLeases[h][q] # NoOwner
      PROVE  /\ KeyIsMine(h, q) /\ redis[q] = mLeases[h][q] /\ redis[q] # NoOwner
             /\ ttl[q] > due[h]
             /\ running[h]
             /\ \A g \in Games : KeyIsMine(g, q) => g = h
  BY <1>a DEF TimedInv, BackedUntilPass, StoppedHoldsNothing, OwnIdentity,
              IsHeldLocally, KeyIsMine
<1>b. \A n \in 0 .. RenewInterval + MaxDelay : LeaseTtl > n
  BY TimesAssumption DEF Timely
<1>1. ASSUME NEW g \in Games, TimedBoot(g) PROVE Goal
  <2>1. mLeases[h][q] # NoOwner /\ h # g
    BY <1>1, <1>a DEF TimedBoot, Boot
  <2> QED
    BY <1>0, <1>1, <1>a, <2>1 DEF TimedBoot, Boot
<1>2. ASSUME NEW g \in Games, TimedShutdown(g) PROVE Goal
  <2>1. mLeases[h][q] # NoOwner /\ h # g /\ mLeases'[h][q] = mLeases[h][q]
    BY <1>0, <1>2 DEF TimedShutdown, Shutdown, LeaseTypeOK
  <2>2. redis'[q] = redis[q]
    BY <1>0, <1>2, <1>a, <2>1, AfterDeleteFacts DEF TimedShutdown, Shutdown
  <2> QED
    BY <1>2, <1>a, <2>1, <2>2 DEF TimedShutdown, KeepTtl
<1>3. ASSUME NEW g \in Games, TimedCrash(g) PROVE Goal
  <2>1. mLeases[h][q] # NoOwner /\ mLeases'[h][q] = mLeases[h][q]
    BY <1>0, <1>3 DEF TimedCrash, Crash, LeaseTypeOK
  <2> QED
    BY <1>3, <1>a, <2>1 DEF TimedCrash, Crash
<1>4. ASSUME NEW g \in Games, NEW p \in Players, NEW ok, TimedAcquire(g, p, ok)
      PROVE  Goal
  <2>1. CASE AcquireTracked(g, p) \/ AcquireRefused(g, p)
    BY <1>4, <1>a, <2>1 DEF TimedAcquire, AcquireTracked, AcquireRefused,
                            leaseVars, SetTtl
  <2>2. CASE AcquireFree(g, p)
    <3>0. redis[p] = NoOwner
      BY <2>2 DEF AcquireFree
    <3>1. CASE h = g /\ q = p
      <4>1. redis'[q] = mLeases'[h][q] /\ redis'[q] # redis[q]
        BY <1>0, <2>2, <3>0, <3>1 DEF AcquireFree, SetKey, LeaseTypeOK
      <4> QED
        BY <1>0, <1>4, <1>b, <4>1 DEF TimedAcquire, SetTtl
    <3>2. CASE ~(h = g /\ q = p)
      <4>1. mLeases'[h][q] = mLeases[h][q]
        BY <1>0, <2>2, <3>2 DEF AcquireFree, LeaseTypeOK
      <4>2. q # p /\ redis'[q] = redis[q]
        BY <1>0, <1>a, <2>2, <3>0, <4>1 DEF AcquireFree, SetKey, LeaseTypeOK
      <4> QED
        BY <1>4, <1>a, <4>1, <4>2 DEF TimedAcquire, SetTtl
    <3> QED
      BY <3>1, <3>2
  <2>3. CASE AcquireReplyLost(g, p)
    <3>1. mLeases'[h][q] = mLeases[h][q]
      BY <2>3 DEF AcquireReplyLost
    <3>2. redis'[q] = redis[q]
      BY <1>0, <1>a, <2>3, <3>1 DEF AcquireReplyLost, SetKey, LeaseTypeOK
    <3> QED
      BY <1>4, <1>a, <3>1, <3>2 DEF TimedAcquire, SetTtl
  <2> QED
    BY <1>4, <2>1, <2>2, <2>3 DEF TimedAcquire, Acquire
<1>5. ASSUME NEW g \in Games, NEW p \in Players, TimedRelease(g, p) PROVE Goal
  <2>1. mLeases'[h][q] = mLeases[h][q] /\ ~(h = g /\ q = p)
    BY <1>0, <1>5 DEF TimedRelease, Release, LeaseTypeOK
  <2>2. redis' \in {redis, AfterDelete(g, {p})}
    BY <1>5 DEF TimedRelease, Release
  <2>3. redis'[q] = redis[q]
    BY <1>0, <1>a, <2>1, <2>2, AfterDeleteFacts
  <2> QED
    BY <1>5, <1>a, <2>1, <2>3 DEF TimedRelease, KeepTtl
<1>6. ASSUME NEW g \in Games, NEW lost \in SUBSET Players, TimedLoop(g, lost)
      PROVE  Goal
  <2>1. mLeases'[h][q] = mLeases[h][q] /\ redis' = redis /\ (h = g => q \notin lost)
    BY <1>0, <1>6 DEF TimedLoop, Loop, LeaseTypeOK
  <2>2. PICK refreshed \in SUBSET {p \in Tracked(g) : KeyIsMine(g, p)} :
            /\ Tracked(g) \ lost \subseteq refreshed
            /\ ttl' = [p \in Players |-> IF p \in refreshed THEN LeaseTtl ELSE ttl[p]]
    BY <1>6 DEF TimedLoop
  <2>3. CASE h = g
    BY <1>0, <1>a, <1>b, <2>1, <2>2, <2>3 DEF Tracked, IsHeldLocally
  <2>4. CASE h # g
    <3>1. due'[h] = due[h]
      BY <1>0, <1>6, <2>4 DEF TimedLoop
    <3>2. ttl'[q] = ttl[q]
      BY <1>a, <2>1, <2>2, <2>4
    <3> QED
      BY <1>a, <2>1, <3>1, <3>2
  <2> QED
    BY <2>3, <2>4
<1>7. CASE Tick
  <2>1. mLeases[h][q] # NoOwner /\ mLeases'[h][q] = mLeases[h][q] /\ running[h]
    BY <1>7, <1>a DEF Tick
  <2>2. due[h] > 0 /\ due'[h] = due[h] - 1
    BY <1>7, <2>1 DEF Tick
  <2>3. ttl[q] \in Nat /\ due[h] \in Nat /\ ttl[q] > due[h]
    BY <1>0, <1>a, <2>1, TimesAssumption
  <2>4. ttl[q] # 1 /\ ttl[q] > 0
    BY <2>2, <2>3
  <2>5. ttl'[q] = ttl[q] - 1 /\ redis'[q] = redis[q]
    BY <1>7, <2>4 DEF Tick
  <2> QED
    BY <1>a, <2>1, <2>2, <2>3, <2>5
<1>8. CASE UNCHANGED timedVars
  BY <1>8, <1>a DEF timedVars
<1> QED
  BY <1>1, <1>2, <1>3, <1>4, <1>5, <1>6, <1>7, <1>8 DEF TimedNext

LEMMA TimedInvariant == TimedSpec => []TimedInv
<1>1. TimedInit => TimedInv
  BY LeaseInitType, TimesAssumption
     DEF TimedInit, LeaseInit, TimedInv, TimedTypeOK, OwnIdentity,
         StoppedHoldsNothing, BackedUntilPass, IsHeldLocally
<1>2. TimedInv /\ [TimedNext]_timedVars => TimedInv'
  <2> SUFFICES ASSUME TimedInv, [TimedNext]_timedVars PROVE TimedInv'
    OBVIOUS
  <2>1. LeaseTypeOK /\ [LeaseNext]_leaseVars
    BY TimedStepIsLeaseStep DEF TimedInv, TimedTypeOK
  <2>2. OwnIdentity' /\ StoppedHoldsNothing'
    BY <2>1, IdentityStep, StoppedStep DEF TimedInv
  <2> QED
    BY <2>2, TimedTypeStep, BackedStep DEF TimedInv
<1> QED
  BY <1>1, <1>2, PTL DEF TimedSpec

\* The times stay in their ranges.
THEOREM TimedTyping == TimedSpec => []TimedTypeOK
  BY TimedInvariant, PTL DEF TimedInv

\* A game that believes it holds a player has its own key in Redis until
\* after its next renewal pass, provided passes come within the time to live.
THEOREM LeaseBacked == TimedSpec => []BackedUntilPass
  BY TimedInvariant, PTL DEF TimedInv

\* No two games believe they hold the same player.
THEOREM LeaseExclusive == TimedSpec => []OneHolder
<1>1. TimedInv => OneHolder
  BY DEF TimedInv, OneHolder, BackedUntilPass, KeyIsMine, OwnIdentity
<1> QED
  BY <1>1, TimedInvariant, PTL
=============================================================================
