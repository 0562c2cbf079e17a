----------------------- MODULE PlayerPersistenceProofs -----------------------
(***************************************************************************)
(* Theorems about the persistence passes of a game, for any set of         *)
(* players, any landing times and any number of failures.                  *)
(***************************************************************************)
EXTENDS PlayerPersistence, TLAPS

-----------------------------------------------------------------------------
(* The invariant.                                                          *)

Longest == Larger(LandingMin, LandingTime)
Shortest == Smaller(LandingMin, LandingTime)

\* The loop's pass has the player still before it.
Awaited(p) == scan["loop"] # Idle /\ (p \in scan["loop"].todo \/ scan["loop"].flushing = p)

ClockOK ==
    /\ lastScan <= now /\ now <= lastScan + ScanGap
    /\ \A s \in Scanners : scan[s] # Idle => scan[s].now <= now
    /\ scan["loop"] # Idle => scan["loop"].now = lastScan

\* The back-off of a player: never longer than landing_time_seconds from its
\* failure, and never shorter than the shortest delay.
RetryOK(p) ==
    mRetryStates[p] # NoRetry =>
       /\ mRetryStates[p].next <= now + LandingTime
       /\ mRetryStates[p].lastFailure + Shortest <= mRetryStates[p].next
       /\ record[p].dirty => mRetryStates[p].next <= waitingFrom[p] + LandingTime

DirtyOK(p) == waitingFrom[p] <= now /\ (record[p].dirty => record[p].lastDirty <= waitingFrom[p])

\* A player that waits: the last pass of the loop began soon enough after it began
\* to wait, and sooner still if that pass has left it behind.
WaitOK(p) ==
    record[p].loaded /\ record[p].dirty /\ held[p] =>
       /\ lastScan < waitingFrom[p] + Longest + ScanGap
       /\ ~Awaited(p) => lastScan < waitingFrom[p] + Longest

PersistenceInv ==
    /\ PersistenceTypeOK /\ ClockOK
    /\ \A p \in Players : RetryOK(p) /\ DirtyOK(p) /\ WaitOK(p)

-----------------------------------------------------------------------------
(* Facts about the constants, the types and the delay.                     *)

LEMMA ConstantFacts ==
    /\ LandingMin \in Nat /\ LandingTime \in Nat /\ ScanGap \in Nat /\ MaxTime \in Nat
    /\ LandingMin >= 1 /\ LandingTime >= 1 /\ ScanGap >= 1
    /\ Longest \in Nat /\ LandingMin <= Longest /\ LandingTime <= Longest
    /\ Shortest \in Nat /\ MaxFailures \in Nat
  BY PersistenceAssumption DEF Longest, Shortest, Larger, Smaller

LEMMA DelayFacts ==
    ASSUME NEW failures \in Nat, failures >= 1
    PROVE  /\ ComputeRetryDelay(failures) \in Nat
           /\ Shortest <= ComputeRetryDelay(failures) /\ ComputeRetryDelay(failures) <= LandingTime
<1>1. Smaller(failures, 4) \in {1, 2, 3, 4}
  BY DEF Smaller
<1>2. PICK m \in {1, 2, 4, 8} : m = Multiplier(failures)
  BY <1>1 DEF Multiplier
<1>3. LandingMin * m \in Nat /\ LandingMin <= LandingMin * m
  <2>1. LandingMin \in Nat
    BY ConstantFacts
  <2> QED
    BY <2>1
<1>4. ComputeRetryDelay(failures) = Smaller(LandingMin * m, LandingTime)
  BY <1>2 DEF ComputeRetryDelay
<1> QED
  BY <1>3, <1>4, ConstantFacts DEF Smaller, Shortest

LEMMA TypeFacts ==
    ASSUME PersistenceTypeOK
    PROVE  /\ now \in Nat /\ lastScan \in Nat /\ now <= MaxTime
           /\ \A p \in Players : /\ record[p] \in Record /\ record[p].lastDirty \in Nat
                                 /\ waitingFrom[p] \in Nat
                                 /\ mRetryStates[p] # NoRetry =>
                                       /\ mRetryStates[p] \in Retry /\ mRetryStates[p].next \in Nat
                                       /\ mRetryStates[p].lastFailure \in Nat
                                       /\ mRetryStates[p].failures \in Nat /\ mRetryStates[p].failures >= 1
           /\ \A s \in Scanners : scan[s] # Idle =>
                 scan[s] \in Pass /\ scan[s].now \in Nat /\ scan[s].now \in Times
<1>1. now \in Times /\ lastScan \in Times /\ MaxTime \in Nat /\ Times \subseteq Nat
  BY ConstantFacts DEF PersistenceTypeOK, Times
<1>2. \A p \in Players : /\ record[p] \in Record /\ waitingFrom[p] \in Times
                         /\ mRetryStates[p] \in Retry \cup {NoRetry}
  BY DEF PersistenceTypeOK
<1>3. \A s \in Scanners : scan[s] \in Pass \cup {Idle}
  BY DEF PersistenceTypeOK
<1>4. /\ \A r \in Record : r.lastDirty \in Nat
      /\ \A r \in Retry : /\ r.next \in Nat /\ r.lastFailure \in Nat /\ r.failures \in Nat
                          /\ r.failures >= 1
      /\ \A s \in Pass : s.now \in Nat /\ s.now \in Times
  <2>1. \A r \in Record : r.lastDirty \in Times
    BY DEF Record
  <2>2. \A r \in Retry : /\ r.failures \in 1..MaxFailures /\ r.lastFailure \in Times
                         /\ r.next \in 0..(MaxTime + LandingTime)
    BY DEF Retry
  <2>3. \A s \in Pass : s.now \in Times
    BY DEF Pass
  <2>4. /\ \A n \in 1..MaxFailures : n \in Nat /\ n >= 1
        /\ \A n \in 0..(MaxTime + LandingTime) : n \in Nat
    BY ConstantFacts
  <2> QED
    BY <1>1, <2>1, <2>2, <2>3, <2>4
<1>5. now <= MaxTime
  BY <1>1 DEF Times
<1> QED
  BY <1>1, <1>2, <1>3, <1>4, <1>5

\* The types after a step, one variable at a time.
LEMMA TypesKept ==
    ASSUME PersistenceTypeOK,
           now' = now \/ now' \in Times, lastScan' = lastScan \/ lastScan' \in Times,
           record' = record \/ record' \in [Players -> Record],
           held' = held \/ held' \in [Players -> BOOLEAN],
           detached' = detached \/ detached' \in [Players -> BOOLEAN],
           mRetryStates' = mRetryStates \/ mRetryStates' \in [Players -> Retry \cup {NoRetry}],
           scan' = scan \/ scan' \in [Scanners -> Pass \cup {Idle}],
           waitingFrom' = waitingFrom \/ waitingFrom' \in [Players -> Times]
    PROVE  PersistenceTypeOK'
  BY DEF PersistenceTypeOK

LEMMA TypesPrimed ==
    ASSUME PersistenceTypeOK'
    PROVE  /\ now' \in Nat /\ lastScan' \in Nat
           /\ \A p \in Players : waitingFrom'[p] \in Nat /\ record'[p] \in Record
<1>1. Times \subseteq Nat
  BY ConstantFacts DEF Times
<1>2. /\ now' \in Times /\ lastScan' \in Times
      /\ \A p \in Players : waitingFrom'[p] \in Times /\ record'[p] \in Record
  BY DEF PersistenceTypeOK
<1> QED
  BY <1>1, <1>2

-----------------------------------------------------------------------------
(* What a step does to one player.                                         *)

\* Nothing, at the same time or one tick later; its failures may be forgotten.
Untouched(p) ==
    /\ record'[p] = record[p] /\ held'[p] = held[p] /\ waitingFrom'[p] = waitingFrom[p]
    /\ mRetryStates'[p] \in {mRetryStates[p], NoRetry}

LEMMA UntouchedKept ==
    ASSUME PersistenceInv, PersistenceTypeOK', NEW p \in Players, Untouched(p),
           now' = now \/ now' = now + 1, lastScan' = lastScan, Awaited(p) => Awaited(p)'
    PROVE  RetryOK(p)' /\ DirtyOK(p)' /\ WaitOK(p)'
<1>1. PersistenceTypeOK /\ RetryOK(p) /\ DirtyOK(p) /\ WaitOK(p)
  BY DEF PersistenceInv
<1>2. /\ now \in Nat /\ lastScan \in Nat /\ waitingFrom[p] \in Nat
      /\ mRetryStates[p] # NoRetry => mRetryStates[p].next \in Nat /\ mRetryStates[p].lastFailure \in Nat
      /\ LandingTime \in Nat /\ Longest \in Nat /\ Shortest \in Nat /\ ScanGap \in Nat
  BY <1>1, TypeFacts, ConstantFacts
<1>3. now <= now'
  BY <1>2
<1>4. RetryOK(p)'
  <2>1. CASE mRetryStates'[p] = NoRetry
    BY <2>1 DEF RetryOK
  <2>2. CASE mRetryStates'[p] = mRetryStates[p]
    BY <1>1, <1>2, <1>3, <2>2 DEF RetryOK, Untouched, Shortest, Smaller
  <2> QED
    BY <2>1, <2>2 DEF Untouched
<1>5. DirtyOK(p)'
  BY <1>1, <1>2, <1>3 DEF DirtyOK, Untouched
<1>6. WaitOK(p)'
  BY <1>1, <1>2 DEF WaitOK, Untouched, Longest, Larger
<1> QED
  BY <1>4, <1>5, <1>6

\* It begins to wait now, or has nothing to wait for; its failures are as they were,
\* forgotten, or one more.
Renewed(p) ==
    /\ waitingFrom'[p] \in {0, now}
    /\ record'[p].dirty => waitingFrom'[p] = now /\ record'[p].lastDirty <= now
    /\ \/ mRetryStates'[p] \in {mRetryStates[p], NoRetry}
       \/ /\ mRetryStates'[p].next <= now + LandingTime
          /\ mRetryStates'[p].lastFailure + Shortest <= mRetryStates'[p].next

LEMMA RenewedKept ==
    ASSUME PersistenceInv, PersistenceTypeOK', NEW p \in Players, Renewed(p), UNCHANGED <<now, lastScan>>
    PROVE  RetryOK(p)' /\ DirtyOK(p)' /\ WaitOK(p)'
<1>1. PersistenceTypeOK /\ RetryOK(p) /\ ClockOK
  BY DEF PersistenceInv
<1>2. /\ now \in Nat /\ lastScan \in Nat /\ lastScan <= now
      /\ LandingTime \in Nat /\ Longest \in Nat /\ Shortest \in Nat /\ ScanGap \in Nat
      /\ LandingTime <= Longest /\ LandingTime >= 1 /\ ScanGap >= 1
  BY <1>1, TypeFacts, ConstantFacts DEF ClockOK
<1>3. RetryOK(p)'
  <2>1. CASE mRetryStates'[p] = NoRetry
    BY <2>1 DEF RetryOK
  <2>2. CASE mRetryStates'[p] # NoRetry
    <3>1. /\ mRetryStates'[p].next <= now + LandingTime
          /\ mRetryStates'[p].lastFailure + Shortest <= mRetryStates'[p].next
      BY <1>1, <2>2 DEF RetryOK, Renewed
    <3> QED
      BY <3>1 DEF RetryOK, Renewed, Shortest, Smaller
  <2> QED
    BY <2>1, <2>2
<1>4. DirtyOK(p)'
  BY <1>2 DEF DirtyOK, Renewed
<1>5. WaitOK(p)'
  BY <1>2 DEF WaitOK, Renewed, Longest, Larger
<1> QED
  BY <1>3, <1>4, <1>5

\* A step in which only one player is touched, and no pass.
LEMMA PlayerStep ==
    ASSUME PersistenceInv, PersistenceTypeOK', UNCHANGED <<now, lastScan, scan>>,
           \A p \in Players : Untouched(p) \/ Renewed(p)
    PROVE  PersistenceInv'
<1>1. ClockOK'
  BY DEF PersistenceInv, ClockOK
<1>2. \A p \in Players : Awaited(p) => Awaited(p)'
  BY DEF Awaited
<1>3. \A p \in Players : RetryOK(p)' /\ DirtyOK(p)' /\ WaitOK(p)'
  BY <1>2, UntouchedKept, RenewedKept
<1> QED
  BY <1>1, <1>3 DEF PersistenceInv

-----------------------------------------------------------------------------
(* What the rest of the process does to a player.                          *)

\* The state of one player is replaced.
LEMMA ReplaceFacts ==
    ASSUME NEW T, NEW f \in [Players -> T], NEW p \in Players, NEW x \in T
    PROVE  /\ [f EXCEPT ![p] = x] \in [Players -> T]
           /\ [f EXCEPT ![p] = x][p] = x
           /\ \A q \in Players : q # p => [f EXCEPT ![p] = x][q] = f[q]
  OBVIOUS

LEMMA StateFacts ==
    ASSUME PersistenceTypeOK
    PROVE  /\ record \in [Players -> Record] /\ waitingFrom \in [Players -> Times]
           /\ held \in [Players -> BOOLEAN] /\ detached \in [Players -> BOOLEAN]
           /\ mRetryStates \in [Players -> Retry \cup {NoRetry}]
           /\ scan \in [Scanners -> Pass \cup {Idle}] /\ now \in Times /\ 0 \in Times
<1>1. 0 \in Times
  BY ConstantFacts DEF Times
<1> QED
  BY <1>1 DEF PersistenceTypeOK

LEMMA RecordFacts ==
    ASSUME NEW loaded \in BOOLEAN, NEW dirty \in BOOLEAN, NEW pending \in BOOLEAN, NEW t \in Times
    PROVE  \E r \in Record : /\ r = [loaded |-> loaded, dirty |-> dirty, pending |-> pending, lastDirty |-> t]
                             /\ r.loaded = loaded /\ r.dirty = dirty /\ r.lastDirty = t
<1> DEFINE r == [loaded |-> loaded, dirty |-> dirty, pending |-> pending, lastDirty |-> t]
<1>1. r \in Record /\ r.loaded = loaded /\ r.dirty = dirty /\ r.lastDirty = t
  BY DEF Record
<1> QED
  BY <1>1

\* A new record of a player, which begins to wait now if it is dirty.
LEMMA NewRecordKept ==
    ASSUME PersistenceInv, NEW p \in Players, NEW r \in Record,
           record' = [record EXCEPT ![p] = r],
           r.dirty => r.lastDirty <= now,
           waitingFrom' = [waitingFrom EXCEPT ![p] = IF r.dirty THEN now ELSE 0],
           held' = held \/ \E b \in BOOLEAN : held' = [held EXCEPT ![p] = b],
           detached' = detached \/ \E b \in BOOLEAN : detached' = [detached EXCEPT ![p] = b],
           UNCHANGED <<now, lastScan, scan, mRetryStates>>
    PROVE  PersistenceInv'
<1>1. PersistenceTypeOK
  BY DEF PersistenceInv
<1>2. /\ record \in [Players -> Record] /\ waitingFrom \in [Players -> Times]
      /\ held \in [Players -> BOOLEAN] /\ detached \in [Players -> BOOLEAN]
      /\ now \in Times /\ 0 \in Times
  BY <1>1, StateFacts
<1>3. PICK w \in Times : w = (IF r.dirty THEN now ELSE 0)
  BY <1>2
<1>4. /\ record' \in [Players -> Record] /\ record'[p] = r
      /\ \A q \in Players : q # p => record'[q] = record[q]
  BY <1>2, ReplaceFacts
<1>5. /\ waitingFrom' \in [Players -> Times] /\ waitingFrom'[p] = w
      /\ \A q \in Players : q # p => waitingFrom'[q] = waitingFrom[q]
  BY <1>2, <1>3, ReplaceFacts
<1>6. held' \in [Players -> BOOLEAN] /\ \A q \in Players : q # p => held'[q] = held[q]
  BY <1>2
<1>7. detached' \in [Players -> BOOLEAN]
  BY <1>2
<1>8. PersistenceTypeOK'
  BY <1>1, <1>4, <1>5, <1>6, <1>7, TypesKept
<1>9. \A q \in Players : q # p => Untouched(q)
  BY <1>4, <1>5, <1>6 DEF Untouched
<1>10. Renewed(p)
  BY <1>3, <1>4, <1>5 DEF Renewed
<1> QED
  BY <1>8, <1>9, <1>10, PlayerStep

LEMMA LoadPlayerStep ==
    ASSUME PersistenceInv, NEW p \in Players, NEW isNew \in BOOLEAN, LoadPlayer(p, isNew)
    PROVE  PersistenceInv'
<1>1. now \in Times /\ 0 \in Times /\ now \in Nat
  BY StateFacts, TypeFacts DEF PersistenceInv
<1>2. PICK t \in Times : t = (IF isNew THEN now ELSE 0)
  BY <1>1
<1>3. PICK r \in Record :
         /\ r = [loaded |-> TRUE, dirty |-> isNew, pending |-> isNew, lastDirty |-> t]
         /\ r.dirty = isNew /\ r.lastDirty = t
  <2> DEFINE r == [loaded |-> TRUE, dirty |-> isNew, pending |-> isNew, lastDirty |-> t]
  <2>1. r \in Record /\ r.dirty = isNew /\ r.lastDirty = t
    BY DEF Record
  <2> QED
    BY <2>1
<1>4. record' = [record EXCEPT ![p] = r]
  BY <1>2, <1>3 DEF LoadPlayer
<1>5. waitingFrom' = [waitingFrom EXCEPT ![p] = IF r.dirty THEN now ELSE 0]
  BY <1>3 DEF LoadPlayer
<1>6. r.dirty => r.lastDirty <= now
  BY <1>1, <1>2, <1>3
<1>7. /\ held' = [held EXCEPT ![p] = TRUE] /\ detached' = [detached EXCEPT ![p] = FALSE]
      /\ UNCHANGED <<now, lastScan, scan, mRetryStates>>
  BY DEF LoadPlayer
<1> QED
  BY <1>4, <1>5, <1>6, <1>7, NewRecordKept

LEMMA ChangePlayerStep ==
    ASSUME PersistenceInv, NEW p \in Players, ChangePlayer(p)
    PROVE  PersistenceInv'
<1>1. now \in Times /\ now \in Nat /\ record[p] \in Record /\ record \in [Players -> Record]
  BY StateFacts, TypeFacts DEF PersistenceInv
<1>2. PICK r \in Record : /\ r = [record[p] EXCEPT !.dirty = TRUE, !.lastDirty = now]
                          /\ r.dirty = TRUE /\ r.lastDirty = now
  <2> DEFINE r == [record[p] EXCEPT !.dirty = TRUE, !.lastDirty = now]
  <2>1. r \in Record /\ r.dirty = TRUE /\ r.lastDirty = now
    BY <1>1 DEF Record
  <2> QED
    BY <2>1
<1>3. record' = [record EXCEPT ![p] = r]
  BY <1>1, <1>2 DEF ChangePlayer
<1>4. waitingFrom' = [waitingFrom EXCEPT ![p] = IF r.dirty THEN now ELSE 0]
  BY <1>2 DEF ChangePlayer
<1>5. UNCHANGED <<now, lastScan, scan, mRetryStates, held, detached>>
  BY DEF ChangePlayer
<1>6. r.dirty => r.lastDirty <= now
  BY <1>1, <1>2
<1> QED
  BY <1>3, <1>4, <1>5, <1>6, NewRecordKept

LEMMA SetDetachedStep ==
    ASSUME PersistenceInv, NEW p \in Players, SetDetached(p)
    PROVE  PersistenceInv'
<1>1. detached \in [Players -> BOOLEAN] /\ PersistenceTypeOK
  BY StateFacts DEF PersistenceInv
<1>2. /\ UNCHANGED <<now, record, held, mRetryStates, scan, lastScan, waitingFrom>>
      /\ detached' = [detached EXCEPT ![p] = ~detached[p]]
  BY DEF SetDetached
<1>3. detached' \in [Players -> BOOLEAN]
  BY <1>1, <1>2
<1>4. PersistenceTypeOK'
  BY <1>1, <1>2, <1>3, TypesKept
<1>5. \A q \in Players : Untouched(q)
  BY <1>2 DEF Untouched
<1> QED
  BY <1>2, <1>4, <1>5, PlayerStep

LEMMA SetHeldStep ==
    ASSUME PersistenceInv, NEW p \in Players, SetHeld(p)
    PROVE  PersistenceInv'
<1>1. /\ record \in [Players -> Record] /\ record[p] \in Record /\ held \in [Players -> BOOLEAN]
      /\ now \in Nat /\ record[p].lastDirty \in Nat /\ waitingFrom[p] \in Nat /\ DirtyOK(p)
  BY StateFacts, TypeFacts DEF PersistenceInv
<1>2. PICK r \in Record : r = record[p]
  BY <1>1
<1>3. record' = [record EXCEPT ![p] = r]
  BY <1>1, <1>2 DEF SetHeld
<1>4. waitingFrom' = [waitingFrom EXCEPT ![p] = IF r.dirty THEN now ELSE 0]
  BY <1>2 DEF SetHeld
<1>5. UNCHANGED <<now, lastScan, scan, mRetryStates, detached>> /\ held' = [held EXCEPT ![p] = ~held[p]]
  BY DEF SetHeld
<1>6. r.dirty => r.lastDirty <= now
  BY <1>1, <1>2 DEF DirtyOK
<1>7. (~held[p]) \in BOOLEAN
  OBVIOUS
<1> QED
  BY <1>3, <1>4, <1>5, <1>6, <1>7, NewRecordKept

\* What a flush stores is clean.
LEMMA StoredFacts ==
    ASSUME PersistenceInv, NEW p \in Players, Stored(p)
    PROVE  \E r \in Record : record' = [record EXCEPT ![p] = r] /\ r.dirty = FALSE
<1>1. record \in [Players -> Record] /\ record[p] \in Record /\ 0 \in Times
  BY StateFacts DEF PersistenceInv
<1> DEFINE r == [record[p] EXCEPT !.dirty = FALSE, !.pending = FALSE, !.lastDirty = 0]
<1>2. r \in Record /\ r.dirty = FALSE
  BY <1>1 DEF Record
<1>3. record' = [record EXCEPT ![p] = r]
  BY DEF Stored
<1> QED
  BY <1>2, <1>3

LEMMA FlushCommandStep ==
    ASSUME PersistenceInv, NEW p \in Players, FlushCommand(p)
    PROVE  PersistenceInv'
<1>1. PICK r \in Record : record' = [record EXCEPT ![p] = r] /\ r.dirty = FALSE
  BY StoredFacts DEF FlushCommand
<1>2. waitingFrom' = [waitingFrom EXCEPT ![p] = IF r.dirty THEN now ELSE 0]
  BY <1>1 DEF FlushCommand, Stored
<1>3. UNCHANGED <<now, lastScan, scan, mRetryStates, held, detached>>
  BY DEF FlushCommand
<1> QED
  BY <1>1, <1>2, <1>3, NewRecordKept

LEMMA ReleasePlayerStep ==
    ASSUME PersistenceInv, NEW p \in Players, ReleasePlayer(p)
    PROVE  PersistenceInv'
<1>1. 0 \in Times
  BY StateFacts DEF PersistenceInv
<1>2. PICK r \in Record : r = NoRecord /\ r.dirty = FALSE
  BY <1>1, RecordFacts DEF NoRecord
<1>3. record' = [record EXCEPT ![p] = r]
  BY <1>2 DEF ReleasePlayer
<1>4. waitingFrom' = [waitingFrom EXCEPT ![p] = IF r.dirty THEN now ELSE 0]
  BY <1>2 DEF ReleasePlayer
<1>5. /\ UNCHANGED <<now, lastScan, scan, mRetryStates>>
      /\ held' = [held EXCEPT ![p] = FALSE] /\ detached' = [detached EXCEPT ![p] = FALSE]
  BY DEF ReleasePlayer
<1> QED
  BY <1>2, <1>3, <1>4, <1>5, NewRecordKept

-----------------------------------------------------------------------------
(* The passes.                                                             *)

\* A step at the end of which every player is untouched, and still before the pass
\* that it was before, or renewed.
LEMMA PassStep ==
    ASSUME PersistenceInv, PersistenceTypeOK', ClockOK', UNCHANGED <<now, lastScan>>,
           \A p \in Players : \/ Untouched(p) /\ (Awaited(p) => Awaited(p)')
                             \/ Renewed(p)
    PROVE  PersistenceInv'
<1>1. \A p \in Players : RetryOK(p)' /\ DirtyOK(p)' /\ WaitOK(p)'
  BY UntouchedKept, RenewedKept
<1> QED
  BY <1>1 DEF PersistenceInv

LEMMA PassFacts ==
    ASSUME NEW t \in Times, NEW todo \in SUBSET Players, NEW f \in Players \cup {NoPlayer}
    PROVE  \E x \in Pass : /\ x = [now |-> t, todo |-> todo, flushing |-> f]
                           /\ x.now = t /\ x.todo = todo /\ x.flushing = f /\ x # Idle
<1> DEFINE x == [now |-> t, todo |-> todo, flushing |-> f]
<1>1. x \in Pass /\ x.now = t /\ x.todo = todo /\ x.flushing = f
  BY DEF Pass
<1>2. x # Idle
  BY <1>1, IdleAssumption
<1> QED
  BY <1>1, <1>2

\* One of the two passes moves on; the clock and the loop's last start fit it.
LEMMA ScanReplaced ==
    ASSUME PersistenceInv, NEW s \in Scanners, NEW x \in Pass \cup {Idle},
           scan' = [scan EXCEPT ![s] = x], UNCHANGED <<now, lastScan>>,
           x # Idle => x.now <= now /\ (s = "loop" => x.now = lastScan)
    PROVE  /\ scan' \in [Scanners -> Pass \cup {Idle}] /\ scan'[s] = x
           /\ \A u \in Scanners : u # s => scan'[u] = scan[u]
           /\ ClockOK'
<1>1. scan \in [Scanners -> Pass \cup {Idle}]
  BY StateFacts DEF PersistenceInv
<1>2. /\ scan' \in [Scanners -> Pass \cup {Idle}] /\ scan'[s] = x
      /\ \A u \in Scanners : u # s => scan'[u] = scan[u]
  BY <1>1
<1>3. "loop" \in Scanners
  BY DEF Scanners
<1>4. ClockOK
  BY DEF PersistenceInv
<1>5. ClockOK'
  <2>1. \A u \in Scanners : scan'[u] # Idle => scan'[u].now <= now
    BY <1>2, <1>4 DEF ClockOK
  <2>2. scan'["loop"] # Idle => scan'["loop"].now = lastScan
    BY <1>2, <1>3, <1>4 DEF ClockOK
  <2> QED
    BY <1>4, <2>1, <2>2 DEF ClockOK
<1> QED
  BY <1>2, <1>5

\* A pass of the other thread does not change which players the loop still has before it.
LEMMA AwaitedKept ==
    ASSUME NEW p \in Players, scan'["loop"] = scan["loop"]
    PROVE  Awaited(p) => Awaited(p)'
  BY DEF Awaited

\* What a running pass looks like.
LEMMA RunningPass ==
    ASSUME PersistenceInv, NEW s \in Scanners, scan[s] # Idle
    PROVE  /\ scan[s] \in Pass /\ scan[s].now \in Times /\ scan[s].now <= now
           /\ scan[s].todo \subseteq Players /\ scan[s].flushing \in Players \cup {NoPlayer}
           /\ s = "loop" => scan[s].now = lastScan
           /\ scan[s] = [now |-> scan[s].now, todo |-> scan[s].todo, flushing |-> scan[s].flushing]
<1>1. scan[s] \in Pass /\ scan[s].now \in Times
  BY TypeFacts DEF PersistenceInv
<1>2. /\ scan[s].todo \subseteq Players /\ scan[s].flushing \in Players \cup {NoPlayer}
      /\ scan[s] = [now |-> scan[s].now, todo |-> scan[s].todo, flushing |-> scan[s].flushing]
  BY <1>1 DEF Pass
<1>3. scan[s].now <= now /\ (s = "loop" => scan[s].now = lastScan)
  BY DEF PersistenceInv, ClockOK
<1> QED
  BY <1>1, <1>2, <1>3

\* The pass that StartPass makes.
LEMMA StartFacts ==
    ASSUME PersistenceInv, NEW s \in Scanners, StartPass(s)
    PROVE  \E x \in Pass : /\ scan' = [scan EXCEPT ![s] = x] /\ x # Idle /\ x.now = now
                           /\ x.todo = {p \in Players : record[p].loaded}
<1>1. now \in Times
  BY StateFacts DEF PersistenceInv
<1> DEFINE todo == {p \in Players : record[p].loaded}
<1>2. todo \in SUBSET Players
  OBVIOUS
<1>3. NoPlayer \in Players \cup {NoPlayer}
  OBVIOUS
<1> HIDE DEF todo
<1>4. PICK x \in Pass : /\ x = [now |-> now, todo |-> todo, flushing |-> NoPlayer]
                        /\ x.now = now /\ x.todo = todo /\ x # Idle
  BY <1>1, <1>2, <1>3, PassFacts
<1> QED
  BY <1>4 DEF StartPass, todo

\* The loop begins a pass: it was not in one, so that every player that waits was
\* left behind by the last, or began to wait after it.
LEMMA LoopPassStep ==
    ASSUME PersistenceInv, LoopPass
    PROVE  PersistenceInv'
<1>1. "loop" \in Scanners
  BY DEF Scanners
<1>2. /\ scan["loop"] = Idle /\ StartPass("loop") /\ lastScan' = now
      /\ UNCHANGED <<now, record, held, detached, mRetryStates, waitingFrom>>
  BY DEF LoopPass, StartPass
<1>3. PICK x \in Pass : /\ scan' = [scan EXCEPT !["loop"] = x] /\ x # Idle /\ x.now = now
                        /\ x.todo = {p \in Players : record[p].loaded}
  BY <1>1, <1>2, StartFacts
<1>4. /\ PersistenceTypeOK /\ ClockOK /\ now \in Times /\ now \in Nat /\ lastScan \in Nat
      /\ ScanGap \in Nat /\ Longest \in Nat /\ ScanGap >= 1
      /\ scan \in [Scanners -> Pass \cup {Idle}]
  BY StateFacts, TypeFacts, ConstantFacts DEF PersistenceInv
<1>5. /\ scan' \in [Scanners -> Pass \cup {Idle}] /\ scan'["loop"] = x
      /\ \A u \in Scanners : u # "loop" => scan'[u] = scan[u]
  BY <1>1, <1>3, <1>4
<1>6. PersistenceTypeOK'
  BY <1>2, <1>4, <1>5, TypesKept
<1>7. ClockOK'
  <2>1. \A u \in Scanners : scan'[u] # Idle => scan'[u].now <= now
    BY <1>3, <1>4, <1>5 DEF ClockOK
  <2>2. now <= now + ScanGap
    BY <1>4
  <2> QED
    BY <1>2, <1>3, <1>4, <1>5, <2>1, <2>2 DEF ClockOK
<1>8. ASSUME NEW p \in Players
      PROVE  RetryOK(p)' /\ DirtyOK(p)' /\ WaitOK(p)'
  <2>1. RetryOK(p) /\ DirtyOK(p) /\ WaitOK(p) /\ waitingFrom[p] \in Nat
    BY <1>4, TypeFacts DEF PersistenceInv
  <2>2. RetryOK(p)' /\ DirtyOK(p)'
    BY <1>2, <2>1 DEF RetryOK, DirtyOK, Shortest, Smaller
  <2>3. ASSUME record[p].loaded, record[p].dirty, held[p]
        PROVE  now < waitingFrom[p] + Longest + ScanGap /\ Awaited(p)'
    <3>1. ~Awaited(p)
      BY <1>2 DEF Awaited
    <3>2. lastScan < waitingFrom[p] + Longest
      BY <2>1, <2>3, <3>1 DEF WaitOK
    <3>3. now <= lastScan + ScanGap
      BY <1>4 DEF ClockOK
    <3>4. Awaited(p)'
      BY <1>3, <1>5, <2>3 DEF Awaited
    <3> QED
      BY <1>4, <2>1, <3>2, <3>3, <3>4
  <2>4. WaitOK(p)'
    BY <1>2, <2>3 DEF WaitOK, Longest, Larger
  <2> QED
    BY <2>2, <2>4
<1> QED
  BY <1>6, <1>7, <1>8 DEF PersistenceInv

\* A pass of an operator, which may have forgotten the failures first.
LEMMA ConsolePassStep ==
    ASSUME PersistenceInv, StartPass("console"),
           mRetryStates' = mRetryStates \/ mRetryStates' = [p \in Players |-> NoRetry],
           UNCHANGED <<now, record, held, detached, lastScan, waitingFrom>>
    PROVE  PersistenceInv'
<1>1. "console" \in Scanners /\ "loop" \in Scanners /\ "loop" # "console"
  BY DEF Scanners
<1>2. PICK x \in Pass : scan' = [scan EXCEPT !["console"] = x] /\ x # Idle /\ x.now = now
  BY <1>1, StartFacts
<1>3. PersistenceTypeOK /\ now \in Nat
  BY TypeFacts DEF PersistenceInv
<1>4. /\ scan' \in [Scanners -> Pass \cup {Idle}] /\ scan'["loop"] = scan["loop"] /\ ClockOK'
  <2>1. x \in Pass \cup {Idle} /\ x.now <= now
    BY <1>2, <1>3
  <2>2. /\ scan' \in [Scanners -> Pass \cup {Idle}] /\ ClockOK'
        /\ \A u \in Scanners : u # "console" => scan'[u] = scan[u]
    BY <1>1, <1>2, <2>1, ScanReplaced
  <2> QED
    BY <1>1, <2>2
<1>5. /\ mRetryStates' = mRetryStates \/ mRetryStates' \in [Players -> Retry \cup {NoRetry}]
      /\ \A p \in Players : mRetryStates'[p] \in {mRetryStates[p], NoRetry}
  OBVIOUS
<1>6. PersistenceTypeOK'
  BY <1>3, <1>4, <1>5, TypesKept
<1>7. \A p \in Players : Untouched(p) /\ (Awaited(p) => Awaited(p)')
  BY <1>4, <1>5, AwaitedKept DEF Untouched
<1> QED
  BY <1>4, <1>6, <1>7, PassStep

\* A player that waits and is not due began to wait less than the longest delay ago.
LEMMA NotDueFacts ==
    ASSUME PersistenceInv, NEW p \in Players, record[p].loaded, record[p].dirty,
           NEW t \in Nat, ~ShouldFlush(p, t)
    PROVE  t < waitingFrom[p] + Longest
<1>1. /\ waitingFrom[p] \in Nat /\ record[p].lastDirty \in Nat
      /\ mRetryStates[p] # NoRetry => mRetryStates[p].next \in Nat
      /\ LandingMin \in Nat /\ LandingTime \in Nat /\ Longest \in Nat
      /\ LandingMin <= Longest /\ LandingTime <= Longest
  BY TypeFacts, ConstantFacts DEF PersistenceInv
<1>2. RetryOK(p) /\ DirtyOK(p)
  BY DEF PersistenceInv
<1>3. CASE mRetryStates[p] # NoRetry /\ ~(mRetryStates[p].next <= t)
  <2>1. mRetryStates[p].next <= waitingFrom[p] + LandingTime
    BY <1>2, <1>3 DEF RetryOK
  <2> QED
    BY <1>1, <1>3, <2>1
<1>4. CASE ~(t >= record[p].lastDirty /\ t - record[p].lastDirty >= LandingMin)
  <2>1. record[p].lastDirty <= waitingFrom[p]
    BY <1>2 DEF DirtyOK
  <2> QED
    BY <1>1, <1>4, <2>1
<1> QED
  BY <1>3, <1>4 DEF ShouldFlush

\* A pass looks at a player: the loop's leaves one behind only if it is not held or
\* not due.
LEMMA ScanCheckStep ==
    ASSUME PersistenceInv, NEW s \in Scanners, NEW p \in Players, ScanCheck(s, p)
    PROVE  PersistenceInv'
<1>1. /\ scan[s] # Idle /\ scan[s].flushing = NoPlayer /\ p \in scan[s].todo
      /\ UNCHANGED <<now, record, held, detached, mRetryStates, lastScan, waitingFrom>>
  BY DEF ScanCheck
<1>2. /\ scan[s] \in Pass /\ scan[s].now \in Times /\ scan[s].now <= now
      /\ scan[s].todo \subseteq Players /\ (s = "loop" => scan[s].now = lastScan)
  BY <1>1, RunningPass
<1>3. /\ PersistenceTypeOK /\ "loop" \in Scanners /\ scan[s].now \in Nat /\ NoPlayer \notin Players
      /\ scan \in [Scanners -> Pass \cup {Idle}]
  BY <1>1, TypeFacts, StateFacts, PersistenceAssumption DEF PersistenceInv, Scanners
<1>4. PICK f \in Players \cup {NoPlayer} :
         f = (IF held[p] /\ ShouldFlush(p, scan[s].now) THEN p ELSE NoPlayer)
  OBVIOUS
<1>5. scan[s].todo \ {p} \in SUBSET Players
  BY <1>2
<1>6. PICK x \in Pass : /\ x = [now |-> scan[s].now, todo |-> scan[s].todo \ {p}, flushing |-> f]
                        /\ x.now = scan[s].now /\ x.todo = scan[s].todo \ {p} /\ x.flushing = f
                        /\ x # Idle
  <2>1. PICK t \in Times : t = scan[s].now
    BY <1>2, <1>5
  <2>2. PICK todo \in SUBSET Players : todo = scan[s].todo \ {p}
    BY <1>2, <1>5
  <2>3. \E x \in Pass : /\ x = [now |-> t, todo |-> todo, flushing |-> f]
                        /\ x.now = t /\ x.todo = todo /\ x.flushing = f /\ x # Idle
    BY <1>4, PassFacts
  <2> QED
    BY <2>1, <2>2, <2>3
<1>7. scan' = [scan EXCEPT ![s] = x]
  <2>1. scan' = [scan EXCEPT ![s] = [scan[s] EXCEPT !.todo = scan[s].todo \ {p}, !.flushing = f]]
    BY <1>3, <1>4 DEF ScanCheck
  <2>2. [scan[s] EXCEPT !.todo = scan[s].todo \ {p}, !.flushing = f] = x
    BY <1>2, <1>6 DEF Pass
  <2> QED
    BY <2>1, <2>2
<1>8. /\ scan' \in [Scanners -> Pass \cup {Idle}] /\ scan'[s] = x /\ ClockOK'
      /\ \A u \in Scanners : u # s => scan'[u] = scan[u]
  <2>1. x \in Pass \cup {Idle} /\ x.now <= now /\ (s = "loop" => x.now = lastScan)
    BY <1>2, <1>6
  <2> QED
    BY <1>1, <1>7, <2>1, ScanReplaced
<1>9. PersistenceTypeOK'
  BY <1>1, <1>3, <1>8, TypesKept
<1>10. \A q \in Players : Untouched(q)
  BY <1>1 DEF Untouched
<1>11. ASSUME NEW q \in Players, Awaited(q), ~Awaited(q)'
       PROVE  s = "loop" /\ q = p /\ f = NoPlayer
  <2>1. s = "loop"
    BY <1>3, <1>8, <1>11 DEF Awaited
  <2>2. ~(q \in x.todo) /\ x.flushing # q
    BY <1>6, <1>8, <1>11, <2>1 DEF Awaited
  <2>3. q \in scan[s].todo
    BY <1>1, <1>3, <1>11, <2>1 DEF Awaited
  <2> QED
    BY <1>4, <1>6, <2>1, <2>2, <2>3
<1>12. ASSUME NEW q \in Players
       PROVE  RetryOK(q)' /\ DirtyOK(q)' /\ WaitOK(q)'
  <2>1. CASE Awaited(q) => Awaited(q)'
    BY <1>1, <1>9, <1>10, <2>1, UntouchedKept
  <2>2. CASE Awaited(q) /\ ~Awaited(q)'
    <3>1. s = "loop" /\ q = p /\ f = NoPlayer /\ scan[s].now = lastScan
      BY <1>2, <1>11, <2>2
    <3>2. RetryOK(p) /\ DirtyOK(p) /\ WaitOK(p)
      BY DEF PersistenceInv
    <3>3. RetryOK(p)' /\ DirtyOK(p)'
      BY <1>1, <3>2 DEF RetryOK, DirtyOK, Shortest, Smaller
    <3>4. ASSUME record[p].loaded, record[p].dirty, held[p]
          PROVE  lastScan < waitingFrom[p] + Longest
      <4>1. ~ShouldFlush(p, scan[s].now)
        BY <1>3, <1>4, <3>1, <3>4
      <4> QED
        BY <1>3, <3>1, <3>4, <4>1, NotDueFacts
    <3>5. WaitOK(p)'
      BY <1>1, <3>2, <3>4 DEF WaitOK, Longest, Larger
    <3> QED
      BY <3>1, <3>3, <3>5
  <2> QED
    BY <2>1, <2>2
<1> QED
  BY <1>8, <1>9, <1>12 DEF PersistenceInv

\* A pass comes to the end of the flush it was in.
LEMMA FlushOverFacts ==
    ASSUME PersistenceInv, NEW s \in Scanners, scan[s] # Idle, scan[s].flushing # NoPlayer,
           scan' = [scan EXCEPT ![s].flushing = NoPlayer], UNCHANGED <<now, lastScan>>
    PROVE  /\ scan' \in [Scanners -> Pass \cup {Idle}] /\ ClockOK'
           /\ \A q \in Players : q # scan[s].flushing => (Awaited(q) => Awaited(q)')
<1>1. /\ scan[s] \in Pass /\ scan[s].now \in Times /\ scan[s].now <= now
      /\ scan[s].todo \in SUBSET Players /\ (s = "loop" => scan[s].now = lastScan)
  BY RunningPass
<1>2. "loop" \in Scanners /\ scan \in [Scanners -> Pass \cup {Idle}]
      /\ NoPlayer \in Players \cup {NoPlayer}
  BY StateFacts DEF PersistenceInv, Scanners
<1>3. PICK x \in Pass : /\ x = [now |-> scan[s].now, todo |-> scan[s].todo, flushing |-> NoPlayer]
                        /\ x.now = scan[s].now /\ x.todo = scan[s].todo /\ x.flushing = NoPlayer
                        /\ x # Idle
  <2>1. PICK t \in Times : t = scan[s].now
    BY <1>1, <1>2
  <2>2. PICK todo \in SUBSET Players : todo = scan[s].todo
    BY <1>1, <1>2
  <2>3. \E x \in Pass : /\ x = [now |-> t, todo |-> todo, flushing |-> NoPlayer]
                        /\ x.now = t /\ x.todo = todo /\ x.flushing = NoPlayer /\ x # Idle
    BY <1>2, PassFacts
  <2> QED
    BY <2>1, <2>2, <2>3
<1>4. scan' = [scan EXCEPT ![s] = x]
  <2>1. scan' = [scan EXCEPT ![s] = [scan[s] EXCEPT !.flushing = NoPlayer]]
    BY <1>2
  <2>2. [scan[s] EXCEPT !.flushing = NoPlayer] = x
    BY <1>1, <1>3 DEF Pass
  <2> QED
    BY <2>1, <2>2
<1>5. /\ scan' \in [Scanners -> Pass \cup {Idle}] /\ scan'[s] = x /\ ClockOK'
      /\ \A u \in Scanners : u # s => scan'[u] = scan[u]
  <2>1. x \in Pass \cup {Idle} /\ x.now <= now /\ (s = "loop" => x.now = lastScan)
    BY <1>1, <1>3
  <2> QED
    BY <1>4, <2>1, ScanReplaced
<1>6. ASSUME NEW q \in Players, q # scan[s].flushing, Awaited(q)
      PROVE  Awaited(q)'
  <2>1. CASE s = "loop"
    BY <1>3, <1>5, <1>6, <2>1 DEF Awaited
  <2>2. CASE s # "loop"
    BY <1>2, <1>5, <1>6, <2>2 DEF Awaited
  <2> QED
    BY <2>1, <2>2
<1> QED
  BY <1>5, <1>6

LEMMA ScanStoredStep ==
    ASSUME PersistenceInv, NEW s \in Scanners, ScanStored(s)
    PROVE  PersistenceInv'
<1>1. /\ scan[s] # Idle /\ scan[s].flushing # NoPlayer /\ Stored(scan[s].flushing)
      /\ mRetryStates' = [mRetryStates EXCEPT ![scan[s].flushing] = NoRetry]
      /\ scan' = [scan EXCEPT ![s].flushing = NoPlayer]
      /\ UNCHANGED <<now, held, detached, lastScan>>
  BY DEF ScanStored
<1>2. PICK p \in Players : p = scan[s].flushing
  BY <1>1, RunningPass
<1>3. /\ scan' \in [Scanners -> Pass \cup {Idle}] /\ ClockOK'
      /\ \A q \in Players : q # p => (Awaited(q) => Awaited(q)')
  BY <1>1, <1>2, FlushOverFacts
<1>4. PICK r \in Record : record' = [record EXCEPT ![p] = r] /\ r.dirty = FALSE
  BY <1>1, <1>2, StoredFacts
<1>5. /\ record \in [Players -> Record] /\ waitingFrom \in [Players -> Times]
      /\ mRetryStates \in [Players -> Retry \cup {NoRetry}] /\ 0 \in Times /\ PersistenceTypeOK
  BY StateFacts DEF PersistenceInv
<1>6. /\ record' \in [Players -> Record] /\ record'[p] = r
      /\ \A q \in Players : q # p => record'[q] = record[q]
  BY <1>4, <1>5, ReplaceFacts
<1>7. waitingFrom' = [waitingFrom EXCEPT ![p] = 0]
  BY <1>1, <1>2 DEF Stored
<1>8. /\ waitingFrom' \in [Players -> Times] /\ waitingFrom'[p] = 0
      /\ \A q \in Players : q # p => waitingFrom'[q] = waitingFrom[q]
  BY <1>5, <1>7, ReplaceFacts
<1>9. NoRetry \in Retry \cup {NoRetry}
  OBVIOUS
<1>10. /\ mRetryStates' \in [Players -> Retry \cup {NoRetry}] /\ mRetryStates'[p] = NoRetry
       /\ \A q \in Players : q # p => mRetryStates'[q] = mRetryStates[q]
  BY <1>1, <1>2, <1>5, <1>9, ReplaceFacts
<1>11. PersistenceTypeOK'
  BY <1>1, <1>3, <1>5, <1>6, <1>8, <1>10, TypesKept
<1>12. \A q \in Players : q # p => Untouched(q)
  BY <1>1, <1>6, <1>8, <1>10 DEF Untouched
<1>13. Renewed(p)
  BY <1>4, <1>6, <1>8, <1>10 DEF Renewed
<1> QED
  BY <1>1, <1>3, <1>11, <1>12, <1>13, PassStep

LEMMA ScanFailedStep ==
    ASSUME PersistenceInv, NEW s \in Scanners, ScanFailed(s)
    PROVE  PersistenceInv'
<1>1. /\ scan[s] # Idle /\ scan[s].flushing # NoPlayer
      /\ scan' = [scan EXCEPT ![s].flushing = NoPlayer]
      /\ UNCHANGED <<now, record, held, detached, lastScan>>
  BY DEF ScanFailed
<1>2. PICK p \in Players : p = scan[s].flushing
  BY <1>1, RunningPass
<1>3. PICK n : n = (IF mRetryStates[p] = NoRetry THEN 1 ELSE mRetryStates[p].failures + 1)
  OBVIOUS
<1>4. PICK t \in Times : t = scan[s].now /\ t <= now /\ t \in Nat /\ t <= MaxTime
  <2>1. scan[s].now \in Times /\ scan[s].now <= now
    BY <1>1, RunningPass
  <2>2. scan[s].now \in Nat /\ scan[s].now <= MaxTime
    BY <2>1, ConstantFacts DEF Times
  <2> QED
    BY <2>1, <2>2
<1>5. /\ n <= MaxFailures
      /\ mRetryStates' = [mRetryStates EXCEPT ![p] =
             [failures |-> n, lastFailure |-> t, next |-> t + ComputeRetryDelay(n)]]
      /\ waitingFrom' = [waitingFrom EXCEPT ![p] = IF record[p].dirty THEN now ELSE 0]
  BY <1>2, <1>3, <1>4 DEF ScanFailed
<1>6. n \in Nat /\ n >= 1
  <2>1. mRetryStates[p] # NoRetry => mRetryStates[p].failures \in Nat /\ mRetryStates[p].failures >= 1
    BY TypeFacts DEF PersistenceInv
  <2> QED
    BY <1>3, <2>1
<1>7. PICK d \in Nat : d = ComputeRetryDelay(n) /\ Shortest <= d /\ d <= LandingTime
  BY <1>6, DelayFacts
<1>8. PICK r \in Retry : /\ r = [failures |-> n, lastFailure |-> t, next |-> t + ComputeRetryDelay(n)]
                         /\ r.next = t + d /\ r.lastFailure = t
  <2> DEFINE r == [failures |-> n, lastFailure |-> t, next |-> t + d]
  <2>1. n \in 1..MaxFailures /\ t + d \in 0..(MaxTime + LandingTime)
    BY <1>4, <1>5, <1>6, <1>7, ConstantFacts
  <2>2. r \in Retry /\ r.next = t + d /\ r.lastFailure = t
    BY <2>1 DEF Retry
  <2> QED
    BY <1>7, <2>2
<1>9. /\ waitingFrom \in [Players -> Times] /\ now \in Times /\ now \in Nat /\ 0 \in Times
      /\ mRetryStates \in [Players -> Retry \cup {NoRetry}] /\ PersistenceTypeOK
      /\ Shortest \in Nat /\ LandingTime \in Nat
      /\ DirtyOK(p) /\ record[p].lastDirty \in Nat /\ waitingFrom[p] \in Nat
  BY StateFacts, TypeFacts, ConstantFacts DEF PersistenceInv
<1>10. r \in Retry \cup {NoRetry} /\ mRetryStates' = [mRetryStates EXCEPT ![p] = r]
  BY <1>5, <1>8
<1>11. /\ mRetryStates' \in [Players -> Retry \cup {NoRetry}] /\ mRetryStates'[p] = r
       /\ \A q \in Players : q # p => mRetryStates'[q] = mRetryStates[q]
  BY <1>9, <1>10, ReplaceFacts
<1>12. PICK w \in Times : w = (IF record[p].dirty THEN now ELSE 0)
  BY <1>9
<1>13. /\ waitingFrom' \in [Players -> Times] /\ waitingFrom'[p] = w
       /\ \A q \in Players : q # p => waitingFrom'[q] = waitingFrom[q]
  BY <1>5, <1>9, <1>12, ReplaceFacts
<1>14. /\ scan' \in [Scanners -> Pass \cup {Idle}] /\ ClockOK'
       /\ \A q \in Players : q # p => (Awaited(q) => Awaited(q)')
  BY <1>1, <1>2, FlushOverFacts
<1>15. PersistenceTypeOK'
  BY <1>1, <1>9, <1>11, <1>13, <1>14, TypesKept
<1>16. \A q \in Players : q # p => Untouched(q)
  BY <1>1, <1>11, <1>13 DEF Untouched
<1>17. Renewed(p)
  <2>1. record[p].dirty => w = now /\ record[p].lastDirty <= now
    BY <1>9, <1>12 DEF DirtyOK
  <2>2. r.next <= now + LandingTime /\ r.lastFailure + Shortest <= r.next
    BY <1>4, <1>7, <1>8, <1>9
  <2> QED
    BY <1>1, <1>11, <1>12, <1>13, <2>1, <2>2 DEF Renewed
<1> QED
  BY <1>1, <1>14, <1>15, <1>16, <1>17, PassStep

LEMMA ScanEndStep ==
    ASSUME PersistenceInv, NEW s \in Scanners, ScanEnd(s)
    PROVE  PersistenceInv'
<1>1. /\ scan[s] # Idle /\ scan[s].flushing = NoPlayer /\ scan[s].todo = {}
      /\ scan' = [scan EXCEPT ![s] = Idle]
      /\ UNCHANGED <<now, record, held, detached, mRetryStates, lastScan, waitingFrom>>
  BY DEF ScanEnd
<1>2. PersistenceTypeOK /\ "loop" \in Scanners /\ NoPlayer \notin Players
  BY PersistenceAssumption DEF PersistenceInv, Scanners
<1>3. Idle \in Pass \cup {Idle}
  OBVIOUS
<1>4. /\ scan' \in [Scanners -> Pass \cup {Idle}] /\ ClockOK'
      /\ \A u \in Scanners : u # s => scan'[u] = scan[u]
  BY <1>1, <1>3, ScanReplaced
<1>5. PersistenceTypeOK'
  BY <1>1, <1>2, <1>4, TypesKept
<1>6. \A q \in Players : Untouched(q)
  BY <1>1 DEF Untouched
<1>7. \A q \in Players : Awaited(q) => Awaited(q)'
  <2>1. CASE s = "loop"
    BY <1>1, <1>2, <2>1 DEF Awaited
  <2>2. CASE s # "loop"
    BY <1>2, <1>4, <2>2 DEF Awaited
  <2> QED
    BY <2>1, <2>2
<1> QED
  BY <1>1, <1>4, <1>5, <1>6, <1>7, PassStep

LEMMA TickStep ==
    ASSUME PersistenceInv, Tick
    PROVE  PersistenceInv'
<1>1. /\ now < MaxTime /\ now < lastScan + ScanGap /\ now' = now + 1
      /\ UNCHANGED <<record, held, detached, mRetryStates, scan, lastScan, waitingFrom>>
  BY DEF Tick
<1>2. /\ PersistenceTypeOK /\ ClockOK /\ now \in Nat /\ lastScan \in Nat
      /\ ScanGap \in Nat /\ MaxTime \in Nat
      /\ \A s \in Scanners : scan[s] # Idle => scan[s].now \in Nat
  BY TypeFacts, ConstantFacts DEF PersistenceInv
<1>3. now' \in Times
  BY <1>1, <1>2 DEF Times
<1>4. PersistenceTypeOK'
  BY <1>1, <1>2, <1>3, TypesKept
<1>5. ClockOK'
  BY <1>1, <1>2 DEF ClockOK
<1>6. \A q \in Players : Untouched(q) /\ (Awaited(q) => Awaited(q)')
  BY <1>1 DEF Untouched, Awaited
<1>7. \A q \in Players : RetryOK(q)' /\ DirtyOK(q)' /\ WaitOK(q)'
  BY <1>1, <1>4, <1>6, UntouchedKept
<1> QED
  BY <1>4, <1>5, <1>7 DEF PersistenceInv

-----------------------------------------------------------------------------
(* The theorems.                                                           *)

LEMMA InvInit ==
    Init => PersistenceInv
<1> SUFFICES ASSUME Init PROVE PersistenceInv
  OBVIOUS
<1>1. 0 \in Times /\ 1 \in Times
  BY PersistenceAssumption DEF Times
<1>2. NoRecord \in Record /\ NoRecord.loaded = FALSE /\ NoRecord.dirty = FALSE
  BY <1>1 DEF NoRecord, Record
<1>3. PersistenceTypeOK
  BY <1>1, <1>2 DEF Init, PersistenceTypeOK
<1>4. ClockOK
  BY ConstantFacts DEF Init, ClockOK, Scanners
<1>5. \A p \in Players : RetryOK(p) /\ DirtyOK(p) /\ WaitOK(p)
  BY <1>2 DEF Init, RetryOK, DirtyOK, WaitOK
<1> QED
  BY <1>3, <1>4, <1>5 DEF PersistenceInv

LEMMA InvStep ==
    PersistenceInv /\ [Next]_vars => PersistenceInv'
<1> SUFFICES ASSUME PersistenceInv, [Next]_vars PROVE PersistenceInv'
  OBVIOUS
<1>1. CASE UNCHANGED vars
  <2>1. /\ UNCHANGED <<now, record, held, detached, mRetryStates, scan, lastScan, waitingFrom>>
        /\ PersistenceTypeOK
    BY <1>1 DEF vars, PersistenceInv
  <2>2. PersistenceTypeOK'
    BY <2>1, TypesKept
  <2>3. \A p \in Players : Untouched(p)
    BY <2>1 DEF Untouched
  <2> QED
    BY <2>1, <2>2, <2>3, PlayerStep
<1>2. CASE LoopPass
  BY <1>2, LoopPassStep
<1>3. CASE FlushDueCommand
  BY <1>3, ConsolePassStep DEF FlushDueCommand
<1>4. CASE RecoverFlushCommand
  BY <1>4, ConsolePassStep DEF RecoverFlushCommand
<1>5. CASE Tick
  BY <1>5, TickStep
<1>6. ASSUME NEW s \in Scanners, NEW p \in Players, ScanCheck(s, p) PROVE PersistenceInv'
  BY <1>6, ScanCheckStep
<1>7. ASSUME NEW s \in Scanners, ScanStored(s) PROVE PersistenceInv'
  BY <1>7, ScanStoredStep
<1>8. ASSUME NEW s \in Scanners, ScanFailed(s) PROVE PersistenceInv'
  BY <1>8, ScanFailedStep
<1>9. ASSUME NEW s \in Scanners, ScanEnd(s) PROVE PersistenceInv'
  BY <1>9, ScanEndStep
<1>10. ASSUME NEW p \in Players, NEW isNew \in BOOLEAN, LoadPlayer(p, isNew) PROVE PersistenceInv'
  BY <1>10, LoadPlayerStep
<1>11. ASSUME NEW p \in Players, ChangePlayer(p) PROVE PersistenceInv'
  BY <1>11, ChangePlayerStep
<1>12. ASSUME NEW p \in Players, SetDetached(p) PROVE PersistenceInv'
  BY <1>12, SetDetachedStep
<1>13. ASSUME NEW p \in Players, SetHeld(p) PROVE PersistenceInv'
  BY <1>13, SetHeldStep
<1>14. ASSUME NEW p \in Players, FlushCommand(p) PROVE PersistenceInv'
  BY <1>14, FlushCommandStep
<1>15. ASSUME NEW p \in Players, ReleasePlayer(p) PROVE PersistenceInv'
  BY <1>15, ReleasePlayerStep
<1> QED
  BY <1>1, <1>2, <1>3, <1>4, <1>5, <1>6, <1>7, <1>8, <1>9, <1>10, <1>11, <1>12, <1>13,
     <1>14, <1>15 DEF Next

\* Records, back-offs and passes keep their shape whatever the passes, the operator and
\* the rest of the process do: a failure counter stays within its bound, and a back-off
\* never points further ahead than landing_time_seconds (RecordFailure).
THEOREM PersistenceTyping == Spec => []PersistenceTypeOK
<1>1. PersistenceInv => PersistenceTypeOK
  BY DEF PersistenceInv
<1> QED
  BY <1>1, InvInit, InvStep, PTL DEF Spec

LEMMA InvInTime ==
    ASSUME PersistenceInv
    PROVE  AttemptedInTime
<1>1. SUFFICES ASSUME NEW p \in Players, record[p].loaded, record[p].dirty, held[p]
               PROVE  now <= waitingFrom[p] + Larger(LandingMin, LandingTime) + 2 * ScanGap
  BY DEF AttemptedInTime
<1>2. /\ now \in Nat /\ lastScan \in Nat /\ waitingFrom[p] \in Nat /\ ScanGap \in Nat
      /\ Longest \in Nat /\ now <= lastScan + ScanGap /\ WaitOK(p)
  BY TypeFacts, ConstantFacts DEF PersistenceInv, ClockOK
<1>3. lastScan < waitingFrom[p] + Longest + ScanGap
  BY <1>1, <1>2 DEF WaitOK
<1>4. now <= waitingFrom[p] + Longest + 2 * ScanGap
  BY <1>2, <1>3
<1> QED
  BY <1>4 DEF Longest

\* Whatever fails, however often, and however the loop and an operator's passes overlap,
\* a dirty player whose lease is held is attempted again within landing_time_seconds and
\* two passes of the loop (Loop, ScanAndFlush, ComputeRetryDelay).
THEOREM PersistenceAttemptedInTime == Spec => []AttemptedInTime
  BY InvInTime, InvInit, InvStep, PTL DEF Spec

\* A pass that takes up a player takes it up because it is due.
LEMMA TakenUpIsDue ==
    ASSUME PersistenceInv, Next, NEW p \in Players, NEW s \in Scanners,
           scan[s] # Idle, scan'[s] # Idle, scan[s].flushing = NoPlayer, scan'[s].flushing = p
    PROVE  ShouldFlush(p, scan[s].now)
<1>1. scan \in [Scanners -> Pass \cup {Idle}] /\ NoPlayer \notin Players /\ scan[s] \in Pass
  BY StateFacts, RunningPass, PersistenceAssumption DEF PersistenceInv
<1>2. scan'[s] # scan[s]
  BY <1>1
<1>3. CASE \E q \in Players : ScanCheck(s, q)
  <2>1. PICK q \in Players : ScanCheck(s, q)
    BY <1>3
  <2>2. scan'[s].flushing = IF held[q] /\ ShouldFlush(q, scan[s].now) THEN q ELSE NoPlayer
    <3>1. scan' = [scan EXCEPT ![s] = [scan[s] EXCEPT !.todo = scan[s].todo \ {q},
                      !.flushing = IF held[q] /\ ShouldFlush(q, scan[s].now) THEN q ELSE NoPlayer]]
      BY <1>1, <2>1 DEF ScanCheck
    <3> QED
      BY <1>1, <3>1 DEF Pass
  <2> QED
    BY <1>1, <2>2
<1>4. CASE \E u \in Scanners : StartPass(u)
  BY <1>1, <1>2, <1>4 DEF StartPass
<1>5. CASE scan' = scan
  BY <1>2, <1>5
<1>6. ASSUME NEW u \in Scanners, u # s, NEW q \in Players, ScanCheck(u, q) PROVE FALSE
  BY <1>1, <1>2, <1>6 DEF ScanCheck
<1>7. ASSUME NEW u \in Scanners, ScanStored(u) \/ ScanFailed(u) PROVE FALSE
  <2>1. u # s /\ scan' = [scan EXCEPT ![u].flushing = NoPlayer]
    BY <1>7 DEF ScanStored, ScanFailed
  <2> QED
    BY <1>1, <1>2, <2>1
<1>8. ASSUME NEW u \in Scanners, ScanEnd(u) PROVE FALSE
  BY <1>1, <1>2, <1>8 DEF ScanEnd
<1>9. \/ \E u \in Scanners : StartPass(u)
      \/ scan' = scan
      \/ \E u \in Scanners : \/ \E q \in Players : ScanCheck(u, q)
                             \/ ScanStored(u) \/ ScanFailed(u) \/ ScanEnd(u)
  BY DEF Next, LoopPass, FlushDueCommand, RecoverFlushCommand, Tick, LoadPlayer, ChangePlayer,
         SetDetached, SetHeld, FlushCommand, ReleasePlayer, Scanners
<1> QED
  BY <1>3, <1>4, <1>5, <1>6, <1>7, <1>8, <1>9

\* A player that has been stored before is not attempted again until the shortest delay
\* has gone by since the pass that failed it (ScanAndFlush, ShouldFlush, RecordFailure).
THEOREM PersistenceRetryWaits == Spec => StoredRetryWaits
<1>1. PersistenceInv /\ [Next]_vars
        => [\A p \in Players : ~record[p].pending => RetryIsSpaced(p)]_vars
  <2> SUFFICES ASSUME PersistenceInv, Next, NEW p \in Players, ~record[p].pending
               PROVE  RetryIsSpaced(p)
    OBVIOUS
  <2>1. SUFFICES ASSUME NEW s \in Scanners, scan[s] # Idle, scan'[s] # Idle,
                        scan[s].flushing = NoPlayer, scan'[s].flushing = p, mRetryStates[p] # NoRetry
                 PROVE  scan[s].now >= mRetryStates[p].lastFailure + Shortest
    BY DEF RetryIsSpaced, Shortest
  <2>2. ShouldFlush(p, scan[s].now)
    BY <2>1, TakenUpIsDue
  <2>3. mRetryStates[p].next <= scan[s].now
    BY <2>1, <2>2 DEF ShouldFlush
  <2>4. mRetryStates[p].lastFailure + Shortest <= mRetryStates[p].next
    BY <2>1 DEF PersistenceInv, RetryOK
  <2>5. /\ scan[s].now \in Nat /\ mRetryStates[p].next \in Nat
        /\ mRetryStates[p].lastFailure \in Nat /\ Shortest \in Nat
    BY <2>1, TypeFacts, ConstantFacts DEF PersistenceInv
  <2> QED
    BY <2>3, <2>4, <2>5
<1> QED
  BY <1>1, InvInit, InvStep, PTL DEF Spec, StoredRetryWaits
=============================================================================
