---------------------------- MODULE PlayerDirectory ----------------------------
(***************************************************************************)
(* PlayerDirectoryService of every game process: account -> player id      *)
(* (game/services/player_directory_service), kept in Redis and shared by   *)
(* the games.  ResolveOrCreate holds the service's mutex from end to end,  *)
(* but its Redis commands interleave with those of the other games; a      *)
(* process can end between any two of them.                                *)
(*                                                                         *)
(* When the id cannot be taken from Redis the process counts on its own,   *)
(* from the same first id.                                                 *)
(***************************************************************************)
EXTENDS Naturals, GameCluster

CONSTANTS
    Accounts,       \* platform, account and area: the key MakeKey builds
    Base,           \* 99999, the counter before the first player
    MaxCounter,     \* bound: value of the counters
    MaxFaults,      \* bound: how often a command gets an error or no reply, or
                    \*   a process starts without Redis
    NoId,           \* no entry, no counter
    NoOp            \* no ResolveOrCreate or Lookup in progress

VARIABLES
    entries,        \* Redis: directory:entry:<key>
    counter,        \* Redis: directory:next_player_id
    mEntries,       \* per game: the ids it has seen
    mNextPlayerId,  \* per game: the id it gives out without Redis
    context,        \* per game: its Redis context works
    op,             \* per game: ResolveOrCreate in progress
    granted,        \* history: ids that accounts have been logged in with
    faults          \* how often Redis has failed

dirVars == <<entries, counter, mEntries, mNextPlayerId, context, op, granted, faults>>

Ids == 1 .. MaxCounter

ASSUME DirectoryAssumption ==
    /\ Base \in Nat /\ MaxCounter \in Nat /\ Base < MaxCounter
    /\ MaxFaults \in Nat
    /\ NoId \notin 0 .. MaxCounter

Steps == {"get", "counterGet", "counterInit", "counterReset", "increment",
          "create", "retry", "fallback"}

ResolveOp == [pc : Steps, account : Accounts, id : Ids \cup {NoId}]

ASSUME NoOpAssumption == NoOp \notin ResolveOp

DirectoryTypeOK ==
    /\ entries \in [Accounts -> Ids \cup {NoId}]
    /\ counter \in 0 .. MaxCounter \cup {NoId}
    /\ mEntries \in [Games -> [Accounts -> Ids \cup {NoId}]]
    /\ mNextPlayerId \in [Games -> 1 .. MaxCounter + 1]
    /\ context \in [Games -> BOOLEAN]
    /\ op \in [Games -> ResolveOp \cup {NoOp}]
    /\ granted \in [Accounts -> SUBSET Ids]
    /\ faults \in 0 .. MaxFaults

DirectoryInit ==
    /\ entries = [a \in Accounts |-> NoId]
    /\ counter = NoId
    /\ mEntries = [g \in Games |-> [a \in Accounts |-> NoId]]
    /\ mNextPlayerId = [g \in Games |-> Base + 1]
    /\ context = [g \in Games |-> TRUE]
    /\ op = [g \in Games |-> NoOp]
    /\ granted = [a \in Accounts |-> {}]
    /\ faults = 0

-----------------------------------------------------------------------------

At(g, pc) == op[g] # NoOp /\ op[g].pc = pc
Goto(g, pc) == op' = [op EXCEPT ![g].pc = pc]

\* ResolveOrCreate returns id for the account, and remembers it.
Resolved(g, a, id) ==
    /\ mEntries' = [mEntries EXCEPT ![g][a] = id]
    /\ granted' = [granted EXCEPT ![a] = @ \cup {id}]
    /\ op' = [op EXCEPT ![g] = NoOp]

NothingResolved == UNCHANGED <<mEntries, granted>>

\* A Redis command that is executed and answered.
Answered(g) == context[g] /\ UNCHANGED <<context, faults>>

Fault == faults < MaxFaults /\ faults' = faults + 1

\* A Redis command that is not: no connection, an error, or no reply.  What
\* it would have done may have been done when the reply is lost.
Unanswered(g) ==
    \/ ~context[g] /\ UNCHANGED <<entries, counter, context, faults>>
    \/ Fault /\ context[g] /\ UNCHANGED <<entries, counter, context>>
    \/ Fault /\ context[g] /\ context' = [context EXCEPT ![g] = FALSE]

-----------------------------------------------------------------------------
(* ResolveOrCreate.                                                        *)

ResolveOrCreate(g, a) ==
    /\ op[g] = NoOp
    /\ mEntries[g][a] = NoId
    /\ op' = [op EXCEPT ![g] = [pc |-> "get", account |-> a, id |-> NoId]]
    /\ UNCHANGED <<entries, counter, mNextPlayerId, context, faults>> /\ NothingResolved

\* A remembered account is not looked up again.
ResolveCached(g, a) ==
    /\ op[g] = NoOp
    /\ mEntries[g][a] # NoId
    /\ granted' = [granted EXCEPT ![a] = @ \cup {mEntries[g][a]}]
    /\ UNCHANGED <<entries, counter, mEntries, mNextPlayerId, context, op, faults>>

\* The GET of the entry, first and again after a lost race.  Whatever goes
\* wrong is taken for a missing entry.
ResolveGet(g) ==
    LET a == op[g].account IN
    /\ At(g, "get") \/ At(g, "retry")
    /\ \/ Answered(g) /\ entries[a] # NoId /\ Resolved(g, a, entries[a])
       \/ Answered(g) /\ entries[a] = NoId /\ Goto(g, "counterGet") /\ NothingResolved
       \/ /\ Unanswered(g) /\ UNCHANGED <<entries, counter>>
          /\ Goto(g, "counterGet") /\ NothingResolved
    /\ UNCHANGED <<entries, counter, mNextPlayerId>>

CounterGet(g) ==
    /\ At(g, "counterGet")
    /\ \/ /\ Answered(g) /\ counter # NoId
          /\ Goto(g, IF counter < Base THEN "counterReset" ELSE "increment")
       \/ Answered(g) /\ counter = NoId /\ Goto(g, "counterInit")
       \/ Unanswered(g) /\ Goto(g, "counterInit")
    /\ UNCHANGED <<entries, counter, mNextPlayerId>> /\ NothingResolved

\* Mutant: the counter is set although another game has set it since.
CounterInitAlways(g) ==
    /\ At(g, "counterInit")
    /\ Answered(g) /\ counter' = Base
    /\ Goto(g, "increment")
    /\ UNCHANGED <<entries, mNextPlayerId>> /\ NothingResolved

\* SET NX of a missing counter.
CounterInit(g) ==
    /\ At(g, "counterInit")
    /\ \/ Answered(g) /\ counter' = IF counter = NoId THEN Base ELSE counter
       \/ Unanswered(g) /\ counter' \in {counter, IF counter = NoId THEN Base ELSE counter}
    /\ Goto(g, "increment")
    /\ UNCHANGED <<entries, mNextPlayerId>> /\ NothingResolved

\* SET of a counter that was seen below the base.
CounterReset(g) ==
    /\ At(g, "counterReset")
    /\ \/ Answered(g) /\ counter' = Base
       \/ Unanswered(g) /\ counter' \in {counter, Base}
    /\ Goto(g, "increment")
    /\ UNCHANGED <<entries, mNextPlayerId>> /\ NothingResolved

\* Mutant: the result of the INCRBY is used although it failed.
IncrementUnchecked(g) ==
    LET next == (IF counter = NoId THEN 0 ELSE counter) + 1 IN
    /\ At(g, "increment")
    /\ next \in Ids
    /\ \/ /\ Answered(g) /\ counter' = next
          /\ op' = [op EXCEPT ![g].pc = "create", ![g].id = next]
       \/ /\ Unanswered(g) /\ counter' \in {counter, next}
          /\ op' = [op EXCEPT ![g].pc = "create", ![g].id = 0]
    /\ UNCHANGED <<entries, mNextPlayerId>> /\ NothingResolved

\* INCRBY 1: a missing counter counts as 0.
Increment(g) ==
    LET next == (IF counter = NoId THEN 0 ELSE counter) + 1 IN
    /\ At(g, "increment")
    /\ next \in Ids
    /\ \/ /\ Answered(g) /\ counter' = next
          /\ op' = [op EXCEPT ![g].pc = "create", ![g].id = next]
       \/ Unanswered(g) /\ counter' \in {counter, next} /\ Goto(g, "fallback")
    /\ UNCHANGED <<entries, mNextPlayerId>> /\ NothingResolved

\* Mutant: SET without NX.
CreateAlways(g) ==
    LET a == op[g].account
        id == op[g].id IN
    /\ At(g, "create")
    /\ Answered(g)
    /\ entries' = [entries EXCEPT ![a] = id]
    /\ Resolved(g, a, id)
    /\ UNCHANGED <<counter, mNextPlayerId>>

\* SET NX of the entry.
Create(g) ==
    LET a == op[g].account
        id == op[g].id IN
    /\ At(g, "create")
    /\ \/ /\ Answered(g) /\ entries[a] = NoId
          /\ entries' = [entries EXCEPT ![a] = id]
          /\ Resolved(g, a, id)
       \/ /\ Answered(g) /\ entries[a] # NoId /\ UNCHANGED entries
          /\ Goto(g, "retry") /\ NothingResolved
       \/ /\ Unanswered(g)
          /\ entries' \in {entries, [entries EXCEPT ![a] = IF @ = NoId THEN id ELSE @]}
          /\ Goto(g, "fallback") /\ NothingResolved
    /\ UNCHANGED <<counter, mNextPlayerId>>

\* Without Redis: the process's own counter.
Fallback(g) ==
    /\ At(g, "fallback")
    /\ mNextPlayerId[g] \in Ids
    /\ Resolved(g, op[g].account, mNextPlayerId[g])
    /\ mNextPlayerId' = [mNextPlayerId EXCEPT ![g] = @ + 1]
    /\ UNCHANGED <<entries, counter, context, faults>>

-----------------------------------------------------------------------------

\* Lookup: the entry if Redis has it.
Lookup(g, a) ==
    /\ op[g] = NoOp
    /\ mEntries[g][a] = NoId
    /\ context[g] /\ entries[a] # NoId
    /\ mEntries' = [mEntries EXCEPT ![g][a] = entries[a]]
    /\ UNCHANGED <<entries, counter, mNextPlayerId, context, op, granted, faults>>

\* The process ends and starts again, at any point of a ResolveOrCreate; it
\* starts without a Redis context when it cannot connect.
Restart(g) ==
    /\ mEntries' = [mEntries EXCEPT ![g] = [a \in Accounts |-> NoId]]
    /\ mNextPlayerId' = [mNextPlayerId EXCEPT ![g] = Base + 1]
    /\ op' = [op EXCEPT ![g] = NoOp]
    /\ \/ context' = [context EXCEPT ![g] = TRUE] /\ UNCHANGED faults
       \/ context' = [context EXCEPT ![g] = FALSE] /\ Fault
    /\ UNCHANGED <<entries, counter, granted>>

\* storage_probe reconnects.
ProbeNow(g) ==
    /\ ~context[g]
    /\ context' = [context EXCEPT ![g] = TRUE]
    /\ UNCHANGED <<entries, counter, mEntries, mNextPlayerId, op, granted, faults>>

ResolveStep(g) ==
    \/ ResolveGet(g) \/ CounterGet(g) \/ CounterInit(g) \/ CounterReset(g)
    \/ Increment(g) \/ Create(g) \/ Fallback(g)

DirectoryNext ==
    \/ \E g \in Games, a \in Accounts :
           ResolveOrCreate(g, a) \/ ResolveCached(g, a) \/ Lookup(g, a)
    \/ \E g \in Games : ResolveStep(g) \/ Restart(g) \/ ProbeNow(g)

DirectorySpec == DirectoryInit /\ [][DirectoryNext]_dirVars

-----------------------------------------------------------------------------
(* Properties.                                                             *)

OneId == \A a \in Accounts : \A i, j \in granted[a] : i = j

\* While Redis answers, an account is one player: whatever game it logs in
\* to, and after whatever restarts, it gets the same id, although two games
\* may be creating the entry at the same time.
OneIdPerAccount == faults > 0 \/ OneId

\* While Redis answers, no two accounts get the same id, so no account is
\* logged in as the player of another.
NoSharedId ==
    faults > 0 \/ \A a, b \in Accounts : a # b => granted[a] \cap granted[b] = {}

\* An entry that is in Redis stays as it is: two games that create it at the
\* same time, or one that repeats a SET whose reply it did not see, do not
\* replace an id that may already be in use.
EntryKeptStep == \A a \in Accounts : entries[a] # NoId => entries'[a] = entries[a]

EntryKept == [][EntryKeptStep]_dirVars
=============================================================================
