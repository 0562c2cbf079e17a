--------------------------- MODULE PlayerPersistence ---------------------------
(***************************************************************************)
(* PlayerPersistenceService of one game process: which dirty players a     *)
(* pass over the repository flushes, and when a failed flush is tried      *)
(* again (game/services/player_persistence_service).  Passes are made by   *)
(* the service's thread once per kLoopInterval and by operator commands.   *)
(*                                                                         *)
(* Time is counted in kLoopInterval (one second), from 1 because a         *)
(* last_dirty_ms of 0 stands for none.  What a flush writes, and the gaps  *)
(* between its check of the lease and its write, are in PlayerSession.     *)
(***************************************************************************)
EXTENDS Naturals, FiniteSets

CONSTANTS
    Players,
    LandingMin,             \* landing_min_time_seconds
    LandingTime,            \* landing_time_seconds
    Commands,               \* operator commands in use
    ScanGap,                \* bound: time from one pass of the loop to the next
    MaxTime,                \* bound: length of a behaviour
    MaxFailures,            \* bound: consecutive failures
    NoRetry, Idle, NoPlayer

VARIABLES
    now,
    record,                 \* repository record of each player
    held,                   \* the lease is held locally
    detached,               \* the session is in state detached
    mRetryStates,
    scan,                   \* the pass of the loop and of the console thread
    lastScan,               \* start of the loop's last pass
    waitingFrom             \* history, of a dirty player: when it last changed,
                            \*   was attempted or its lease went or came

vars == <<now, record, held, detached, mRetryStates, scan, lastScan, waitingFrom>>

ASSUME PersistenceAssumption ==
    /\ LandingMin \in Nat \ {0} /\ LandingTime \in Nat \ {0}
    /\ ScanGap \in Nat \ {0} /\ MaxTime \in Nat \ {0} /\ MaxFailures \in Nat \ {0}
    /\ Commands \subseteq {"flushDue", "recover", "flush"}
    /\ NoPlayer \notin Players

Times == 0 .. MaxTime
Smaller(a, b) == IF a < b THEN a ELSE b
Larger(a, b) == IF a < b THEN b ELSE a

Scanners == {"loop", "console"}

Record == [loaded : BOOLEAN, dirty : BOOLEAN, pending : BOOLEAN, lastDirty : Times]
Retry == [failures : 1 .. MaxFailures, lastFailure : Times, next : 0 .. MaxTime + LandingTime]
Pass == [now : Times, todo : SUBSET Players, flushing : Players \cup {NoPlayer}]

ASSUME IdleAssumption == Idle \notin Pass /\ NoRetry \notin Retry

\* The shape of the state.
PersistenceTypeOK ==
    /\ now \in Times /\ lastScan \in Times
    /\ record \in [Players -> Record]
    /\ held \in [Players -> BOOLEAN] /\ detached \in [Players -> BOOLEAN]
    /\ mRetryStates \in [Players -> Retry \cup {NoRetry}]
    /\ scan \in [Scanners -> Pass \cup {Idle}]
    /\ waitingFrom \in [Players -> Times]

NoRecord == [loaded |-> FALSE, dirty |-> FALSE, pending |-> FALSE, lastDirty |-> 0]

Init ==
    /\ now = 1 /\ lastScan = 1
    /\ record = [p \in Players |-> NoRecord]
    /\ held = [p \in Players |-> FALSE]
    /\ detached = [p \in Players |-> FALSE]
    /\ mRetryStates = [p \in Players |-> NoRetry]
    /\ scan = [s \in Scanners |-> Idle]
    /\ waitingFrom = [p \in Players |-> 0]

-----------------------------------------------------------------------------
(* The back-off and what is due.                                           *)

\* The delay doubles with every failure, up to kMaxBackoffMultiplier times.
Multiplier(failures) == <<1, 2, 4, 8>>[Smaller(failures, 4)]

\* Mutant: the first failure is not delayed.
ComputeRetryDelayFromZero(failures) ==
    IF failures = 1 THEN 0 ELSE Smaller(LandingMin * Multiplier(failures - 1), LandingTime)

\* Never more than landing_time_seconds.
ComputeRetryDelay(failures) == Smaller(LandingMin * Multiplier(failures), LandingTime)

\* Mutant: a player that has failed is not due, whatever the time.
ShouldFlushNeverAgain(p, t) ==
    /\ record[p].loaded /\ record[p].dirty
    /\ \/ record[p].pending
       \/ /\ mRetryStates[p] = NoRetry
          /\ \/ detached[p]
             \/ record[p].lastDirty = 0
             \/ t >= record[p].lastDirty /\ t - record[p].lastDirty >= LandingMin

\* The order of the tests is the code's: a record that was never stored is
\* due whatever its back-off.
ShouldFlush(p, t) ==
    /\ record[p].loaded /\ record[p].dirty
    /\ \/ record[p].pending
       \/ /\ mRetryStates[p] = NoRetry \/ mRetryStates[p].next <= t
          /\ \/ detached[p]
             \/ record[p].lastDirty = 0
             \/ t >= record[p].lastDirty /\ t - record[p].lastDirty >= LandingMin

-----------------------------------------------------------------------------
(* Passes.                                                                 *)

StartPass(s) ==
    /\ scan[s] = Idle
    /\ scan' = [scan EXCEPT ![s] = [now |-> now,
                                    todo |-> {p \in Players : record[p].loaded},
                                    flushing |-> NoPlayer]]

\* Loop: the next iteration of the service's thread.
LoopPass ==
    /\ now > lastScan
    /\ StartPass("loop")
    /\ lastScan' = now
    /\ UNCHANGED <<now, record, held, detached, mRetryStates, waitingFrom>>

\* player_persistence_flush_due.
FlushDueCommand ==
    /\ "flushDue" \in Commands
    /\ StartPass("console")
    /\ UNCHANGED <<now, record, held, detached, mRetryStates, lastScan, waitingFrom>>

\* player_persistence_recover_flush, when the probe finds MariaDB: forget the
\* failures, then make a pass.
RecoverFlushCommand ==
    /\ "recover" \in Commands
    /\ StartPass("console")
    /\ mRetryStates' = [p \in Players |-> NoRetry]
    /\ UNCHANGED <<now, record, held, detached, lastScan, waitingFrom>>

\* One player of a pass: nothing is done, or its flush begins.
ScanCheck(s, p) ==
    /\ scan[s] # Idle /\ scan[s].flushing = NoPlayer /\ p \in scan[s].todo
    /\ scan' = [scan EXCEPT
           ![s].todo = @ \ {p},
           ![s].flushing = IF held[p] /\ ShouldFlush(p, scan[s].now) THEN p ELSE NoPlayer]
    /\ UNCHANGED <<now, record, held, detached, mRetryStates, lastScan, waitingFrom>>

\* What a successful FlushPlayer does.
Stored(p) ==
    /\ record[p].loaded
    /\ record' = [record EXCEPT ![p] = [@ EXCEPT !.dirty = FALSE, !.pending = FALSE, !.lastDirty = 0]]
    /\ waitingFrom' = [waitingFrom EXCEPT ![p] = 0]

\* FlushPlayer succeeds and the failures are forgotten.
ScanStored(s) ==
    LET p == scan[s].flushing IN
    /\ scan[s] # Idle /\ scan[s].flushing # NoPlayer
    /\ Stored(p)
    /\ mRetryStates' = [mRetryStates EXCEPT ![p] = NoRetry]
    /\ scan' = [scan EXCEPT ![s].flushing = NoPlayer]
    /\ UNCHANGED <<now, held, detached, lastScan>>

\* FlushPlayer fails, because storage does or because the player is gone.
\* The delay counts from the start of the pass.
ScanFailed(s) ==
    LET p == scan[s].flushing
        failures == IF mRetryStates[p] = NoRetry THEN 1 ELSE mRetryStates[p].failures + 1 IN
    /\ scan[s] # Idle /\ scan[s].flushing # NoPlayer
    /\ failures <= MaxFailures
    /\ mRetryStates' = [mRetryStates EXCEPT ![p] =
           [failures |-> failures, lastFailure |-> scan[s].now,
            next |-> scan[s].now + ComputeRetryDelay(failures)]]
    /\ scan' = [scan EXCEPT ![s].flushing = NoPlayer]
    /\ waitingFrom' = [waitingFrom EXCEPT ![p] = IF record[p].dirty THEN now ELSE 0]
    /\ UNCHANGED <<now, record, held, detached, lastScan>>

ScanEnd(s) ==
    /\ scan[s] # Idle /\ scan[s].flushing = NoPlayer /\ scan[s].todo = {}
    /\ scan' = [scan EXCEPT ![s] = Idle]
    /\ UNCHANGED <<now, record, held, detached, mRetryStates, lastScan, waitingFrom>>

-----------------------------------------------------------------------------
(* What the rest of the process does to a player.                          *)

\* A new player is dirty until its first flush.
LoadPlayer(p, isNew) ==
    /\ ~record[p].loaded
    /\ record' = [record EXCEPT ![p] = [loaded |-> TRUE, dirty |-> isNew, pending |-> isNew,
                                        lastDirty |-> IF isNew THEN now ELSE 0]]
    /\ held' = [held EXCEPT ![p] = TRUE]
    /\ detached' = [detached EXCEPT ![p] = FALSE]
    /\ waitingFrom' = [waitingFrom EXCEPT ![p] = IF isNew THEN now ELSE 0]
    /\ UNCHANGED <<now, mRetryStates, scan, lastScan>>

\* TouchLogin, SetDisplayName.
ChangePlayer(p) ==
    /\ record[p].loaded
    /\ record' = [record EXCEPT ![p].dirty = TRUE, ![p].lastDirty = now]
    /\ waitingFrom' = [waitingFrom EXCEPT ![p] = now]
    /\ UNCHANGED <<now, held, detached, mRetryStates, scan, lastScan>>

\* The gate session goes or comes back.
SetDetached(p) ==
    /\ record[p].loaded
    /\ detached' = [detached EXCEPT ![p] = ~@]
    /\ UNCHANGED <<now, record, held, mRetryStates, scan, lastScan, waitingFrom>>

\* The lease is lost or recovered.
SetHeld(p) ==
    /\ record[p].loaded
    /\ held' = [held EXCEPT ![p] = ~@]
    /\ waitingFrom' = [waitingFrom EXCEPT ![p] = IF record[p].dirty THEN now ELSE 0]
    /\ UNCHANGED <<now, record, detached, mRetryStates, scan, lastScan>>

\* player_flush: the back-off of the player is left as it is.
FlushCommand(p) ==
    /\ "flush" \in Commands
    /\ Stored(p)
    /\ UNCHANGED <<now, held, detached, mRetryStates, scan, lastScan>>

\* A release drops the record and gives the lease back; the back-off stays.
ReleasePlayer(p) ==
    /\ record[p].loaded
    /\ record' = [record EXCEPT ![p] = NoRecord]
    /\ held' = [held EXCEPT ![p] = FALSE]
    /\ detached' = [detached EXCEPT ![p] = FALSE]
    /\ waitingFrom' = [waitingFrom EXCEPT ![p] = 0]
    /\ UNCHANGED <<now, mRetryStates, scan, lastScan>>

\* The clock.  A pass of the loop begins at most ScanGap after the one before.
Tick ==
    /\ now < MaxTime /\ now < lastScan + ScanGap
    /\ now' = now + 1
    /\ UNCHANGED <<record, held, detached, mRetryStates, scan, lastScan, waitingFrom>>

Next ==
    \/ LoopPass \/ FlushDueCommand \/ RecoverFlushCommand \/ Tick
    \/ \E s \in Scanners :
          \/ \E p \in Players : ScanCheck(s, p)
          \/ ScanStored(s) \/ ScanFailed(s) \/ ScanEnd(s)
    \/ \E p \in Players :
          \/ \E isNew \in BOOLEAN : LoadPlayer(p, isNew)
          \/ ChangePlayer(p) \/ SetDetached(p) \/ SetHeld(p)
          \/ FlushCommand(p) \/ ReleasePlayer(p)

Spec == Init /\ [][Next]_vars

-----------------------------------------------------------------------------
(* Properties.                                                             *)

\* Whatever failed before, and for whichever record of the player, a dirty
\* player whose lease is held and that nobody changes is attempted again
\* within landing_time_seconds and two passes: back-off never grows into
\* losing sight of a player.
AttemptedInTime ==
    \A p \in Players :
        record[p].loaded /\ record[p].dirty /\ held[p]
            => now <= waitingFrom[p] + Larger(LandingMin, LandingTime) + 2 * ScanGap

\* A pass does not attempt a player again until the shortest delay has gone
\* by since the pass that failed to flush it.
RetryIsSpaced(p) ==
    \A s \in Scanners :
        /\ scan[s] # Idle /\ scan'[s] # Idle
        /\ scan[s].flushing = NoPlayer /\ scan'[s].flushing = p
        /\ mRetryStates[p] # NoRetry
        => scan[s].now >= mRetryStates[p].lastFailure + Smaller(LandingMin, LandingTime)

\* For a player that has been stored before, failed flushes are spaced by the
\* back-off, also when the loop and an operator's pass overlap.
StoredRetryWaits == [][\A p \in Players : ~record[p].pending => RetryIsSpaced(p)]_vars
=============================================================================
