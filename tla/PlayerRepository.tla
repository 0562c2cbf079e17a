--------------------------- MODULE PlayerRepository ---------------------------
(***************************************************************************)
(* PlayerRepository of every game process and the player dataset they      *)
(* share (game/services/player_repository on framework/storage).  Each     *)
(* operation runs under the repository's mutex, storage access included.   *)
(*                                                                         *)
(* Player data is the set of updates it contains, so that data written     *)
(* over newer data is seen to lose updates.  The dataset keeps an entry    *)
(* twice: as a row in MariaDB, which decides whether a put succeeded, and  *)
(* as a copy in Redis, which a get returns without looking at the row.     *)
(***************************************************************************)
EXTENDS Naturals, GameCluster

CONSTANTS
    MaxUpdates,     \* bound: updates of player data in a behaviour
    StorageFaults,  \* TRUE: gets and puts may fail
    HotFaults,      \* TRUE: writing the copy in Redis may fail on its own
    Absent          \* no record, no row, no copy

VARIABLES
    repo,       \* per game: mPlayers of the repository
    row,        \* MariaDB: the entry of a player
    hot,        \* Redis: the copy of that entry
    nextUpdate  \* the next update of player data, anywhere

repoVars == <<repo, row, hot, nextUpdate>>

Updates == 1 .. MaxUpdates
PlayerData == SUBSET Updates

ASSUME RepositoryAssumption ==
    MaxUpdates \in Nat /\ StorageFaults \in BOOLEAN /\ HotFaults \in BOOLEAN

PlayerRepositoryRecord == [loaded : BOOLEAN, dirty : BOOLEAN, data : PlayerData]

\* What mPlayers[player_id] default-constructs.
NewRecord == [loaded |-> FALSE, dirty |-> FALSE, data |-> {}]

RepoTypeOK ==
    /\ repo \in [Games -> [Players -> PlayerRepositoryRecord \cup {Absent}]]
    /\ row \in [Players -> {Absent} \cup PlayerData]
    /\ hot \in [Players -> {Absent} \cup PlayerData]
    /\ nextUpdate \in 1 .. MaxUpdates + 1

ASSUME AbsentAssumption ==
    Absent \notin PlayerRepositoryRecord /\ \A d \in PlayerData : d # Absent

RepoInit ==
    /\ repo = [g \in Games |-> [p \in Players |-> Absent]]
    /\ row = [p \in Players |-> Absent]
    /\ hot = [p \in Players |-> Absent]
    /\ nextUpdate = 1

Present(g, p) == repo[g][p] # Absent
Loaded(g, p) == Present(g, p) /\ repo[g][p].loaded
Dirty(g, p) == Present(g, p) /\ repo[g][p].dirty

-----------------------------------------------------------------------------
(* The dataset.                                                            *)

\* What DatasetGet finds: the copy in Redis before the row.
Stored(p) == IF hot[p] # Absent THEN hot[p] ELSE row[p]

\* RedisSet of the copy; its failure is not a failure of the operation.
SetHot(p, data) ==
    \/ hot' = [hot EXCEPT ![p] = data]
    \/ HotFaults /\ UNCHANGED hot

\* A row that was read because there was no copy is copied to Redis.
DatasetGet(p) ==
    /\ IF hot[p] = Absent /\ row[p] # Absent THEN SetHot(p, row[p]) ELSE UNCHANGED hot
    /\ UNCHANGED row

\* Mutant: the copy in Redis is left as it is.
DatasetPutNoCopy(p, data, ok) ==
    /\ ok
    /\ row' = [row EXCEPT ![p] = data]
    /\ UNCHANGED hot

\* The row first.  A put that fails may have reached the database.
DatasetPut(p, data, ok) ==
    \/ ok /\ row' = [row EXCEPT ![p] = data] /\ SetHot(p, data)
    \/ /\ ~ok /\ StorageFaults
       /\ row' \in {row, [row EXCEPT ![p] = data]}
       /\ UNCHANGED hot

-----------------------------------------------------------------------------
(* The repository.                                                         *)

\* Mutant: a failed read counts as a new player.
LoadPlayerDefaultOnError(g, p, ok) ==
    /\ ok
    /\ repo' = [repo EXCEPT ![g][p] =
                  IF Stored(p) = Absent \/ StorageFaults
                  THEN [loaded |-> TRUE, dirty |-> TRUE, data |-> {}]
                  ELSE [loaded |-> TRUE, dirty |-> FALSE, data |-> Stored(p)]]
    /\ UNCHANGED <<row, hot, nextUpdate>>

\* Stored data replaces the data of the record and leaves its dirty mark; a
\* player that is not stored gets default data that still has to be
\* persisted (also without Maria, when the directory has just created the
\* player); a failed read leaves the record as it was, or one not loaded.
LoadPlayer(g, p, ok) ==
    /\ LET record == IF Present(g, p) THEN repo[g][p] ELSE NewRecord IN
       \/ /\ ok /\ Stored(p) # Absent
          /\ DatasetGet(p)
          /\ repo' = [repo EXCEPT ![g][p] =
                        [record EXCEPT !.loaded = TRUE, !.data = Stored(p)]]
       \/ /\ ok /\ Stored(p) = Absent
          /\ repo' = [repo EXCEPT ![g][p] =
                        [loaded |-> TRUE, dirty |-> TRUE, data |-> {}]]
          /\ UNCHANGED <<row, hot>>
       \/ /\ ~ok /\ StorageFaults
          /\ repo' = [repo EXCEPT ![g][p] = record]
          /\ UNCHANGED <<row, hot>>
    /\ UNCHANGED nextUpdate

\* Mutant: a record that a failed load left behind is written too.
FlushPlayerNotLoaded(g, p, ok) ==
    /\ \/ /\ Present(g, p)
          /\ DatasetPut(p, repo[g][p].data, ok)
          /\ repo' = IF ok THEN [repo EXCEPT ![g][p].dirty = FALSE] ELSE repo
       \/ ~ok /\ ~Present(g, p) /\ UNCHANGED <<repo, row, hot>>
    /\ UNCHANGED nextUpdate

\* The mark goes only when the dataset reports success.
FlushPlayer(g, p, ok) ==
    /\ \/ /\ Loaded(g, p)
          /\ DatasetPut(p, repo[g][p].data, ok)
          /\ repo' = IF ok THEN [repo EXCEPT ![g][p].dirty = FALSE] ELSE repo
       \/ ~ok /\ ~Loaded(g, p) /\ UNCHANGED <<repo, row, hot>>
    /\ UNCHANGED nextUpdate

ReleaseRecord(g, p) ==
    /\ repo' = [repo EXCEPT ![g][p] = Absent]
    /\ UNCHANGED <<row, hot, nextUpdate>>

\* SetDisplayName and TouchLogin.
UpdateData(g, p) ==
    /\ nextUpdate \in Updates
    /\ Loaded(g, p)
    /\ repo' = [repo EXCEPT ![g][p].dirty = TRUE, ![g][p].data = @ \cup {nextUpdate}]
    /\ nextUpdate' = nextUpdate + 1
    /\ UNCHANGED <<row, hot>>
=============================================================================
