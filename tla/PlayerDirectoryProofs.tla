------------------------- MODULE PlayerDirectoryProofs -------------------------
(***************************************************************************)
(* Theorems about the player directory, for any number of games and        *)
(* accounts, restarts and failures of Redis.                               *)
(***************************************************************************)
EXTENDS PlayerDirectory, TLAPS

-----------------------------------------------------------------------------
(* Types.                                                                  *)

\* A game that is about to create an entry has taken an id for it.
CreateHasId == \A g \in Games : At(g, "create") => op[g].id # NoId

TypeInv == DirectoryTypeOK /\ CreateHasId

LEMMA InitTypes == DirectoryInit => TypeInv
  BY DirectoryAssumption DEF DirectoryInit, TypeInv, DirectoryTypeOK, CreateHasId, At, Ids

\* What the record of an operation is while it is at a step.
LEMMA OpFacts ==
    ASSUME TypeInv, NEW g \in Games, op[g] # NoOp
    PROVE  /\ op[g] \in ResolveOp
           /\ op[g].account \in Accounts
           /\ op[g].id \in Ids \cup {NoId}
           /\ op[g].pc = "create" => op[g].id \in Ids
  BY DEF TypeInv, DirectoryTypeOK, CreateHasId, At, ResolveOp

\* An operation that goes on to another step stays well formed.
LEMMA GotoTypes ==
    ASSUME TypeInv, NEW g \in Games, op[g] # NoOp,
           NEW pc \in Steps \ {"create"}, Goto(g, pc)
    PROVE  op' \in [Games -> ResolveOp \cup {NoOp}] /\ CreateHasId'
<1>1. op' = [op EXCEPT ![g] = [op[g] EXCEPT !.pc = pc]]
  BY DEF Goto
<1>2. [op[g] EXCEPT !.pc = pc] \in ResolveOp
  BY OpFacts DEF ResolveOp
<1>3. [op[g] EXCEPT !.pc = pc].pc = pc
  BY OpFacts DEF ResolveOp
<1> QED
  BY <1>1, <1>2, <1>3 DEF TypeInv, DirectoryTypeOK, CreateHasId, At

\* An operation that ends leaves the types of what it returns.
LEMMA ResolvedTypes ==
    ASSUME TypeInv, NEW g \in Games, NEW a \in Accounts, NEW id \in Ids, Resolved(g, a, id)
    PROVE  /\ op' \in [Games -> ResolveOp \cup {NoOp}] /\ CreateHasId'
           /\ mEntries' \in [Games -> [Accounts -> Ids \cup {NoId}]]
           /\ granted' \in [Accounts -> SUBSET Ids]
  BY DEF TypeInv, DirectoryTypeOK, CreateHasId, At, Resolved

\* Whether a command is answered or not, the context and the count of faults
\* keep their types.
LEMMA CommandTypes ==
    ASSUME TypeInv, NEW g \in Games, Answered(g) \/ Unanswered(g)
    PROVE  context' \in [Games -> BOOLEAN] /\ faults' \in 0 .. MaxFaults
<1>1. context' \in [Games -> BOOLEAN]
  BY Zenon DEF TypeInv, DirectoryTypeOK, Answered, Unanswered
<1>2. faults' \in 0 .. MaxFaults
  BY DirectoryAssumption DEF TypeInv, DirectoryTypeOK, Answered, Unanswered, Fault
<1> QED
  BY <1>1, <1>2

LEMMA StepTypes ==
    ASSUME TypeInv, NEW g \in Games, ResolveStep(g)
    PROVE  TypeInv'
<1> USE DirectoryAssumption DEF Steps
<1>1. CASE ResolveGet(g)
  <2>1. op[g] # NoOp
    BY <1>1 DEF ResolveGet, At
  <2>2. CASE Answered(g) /\ entries[op[g].account] # NoId
                         /\ Resolved(g, op[g].account, entries[op[g].account])
    <3>1. entries[op[g].account] \in Ids
      BY <2>1, <2>2, OpFacts DEF TypeInv, DirectoryTypeOK
    <3> QED
      BY <1>1, <2>1, <2>2, <3>1, OpFacts, ResolvedTypes, CommandTypes
         DEF TypeInv, DirectoryTypeOK, ResolveGet
  <2>3. CASE (Answered(g) \/ Unanswered(g)) /\ Goto(g, "counterGet") /\ NothingResolved
    BY <1>1, <2>1, <2>3, GotoTypes, CommandTypes
       DEF TypeInv, DirectoryTypeOK, ResolveGet, NothingResolved
  <2> QED
    BY <1>1, <2>2, <2>3 DEF ResolveGet
<1>2. CASE CounterGet(g)
  <2>1. op[g] # NoOp
    BY <1>2 DEF CounterGet, At
  <2>2. PICK pc \in Steps \ {"create"} : Goto(g, pc)
    BY <1>2 DEF CounterGet
  <2> QED
    BY <1>2, <2>1, <2>2, GotoTypes, CommandTypes
       DEF TypeInv, DirectoryTypeOK, CounterGet, NothingResolved
<1>3. CASE CounterInit(g) \/ CounterReset(g)
  <2>1. op[g] # NoOp /\ Goto(g, "increment") /\ NothingResolved
        /\ UNCHANGED <<entries, mNextPlayerId>>
    BY <1>3 DEF CounterInit, CounterReset, At
  <2>2. counter' \in 0 .. MaxCounter \cup {NoId}
    BY <1>3 DEF TypeInv, DirectoryTypeOK, CounterInit, CounterReset
  <2>3. context' \in [Games -> BOOLEAN] /\ faults' \in 0 .. MaxFaults
    BY <1>3, CommandTypes DEF CounterInit, CounterReset
  <2> QED
    BY <2>1, <2>2, <2>3, GotoTypes DEF TypeInv, DirectoryTypeOK, NothingResolved
<1>4. CASE Increment(g)
  <2> DEFINE next == (IF counter = NoId THEN 0 ELSE counter) + 1
  <2>1. op[g] # NoOp /\ next \in Ids
    BY <1>4 DEF Increment, At
  <2>2. counter' \in 0 .. MaxCounter \cup {NoId}
    BY <1>4, <2>1 DEF TypeInv, DirectoryTypeOK, Increment, Ids
  <2>3. CASE op' = [op EXCEPT ![g].pc = "create", ![g].id = next]
    <3> DEFINE new == [op[g] EXCEPT !.pc = "create", !.id = next]
    <3>1. new \in ResolveOp /\ new.id = next
      BY <2>1, OpFacts DEF ResolveOp
    <3>2. op' = [op EXCEPT ![g] = new]
      BY <2>3
    <3>3. op' \in [Games -> ResolveOp \cup {NoOp}] /\ CreateHasId'
      BY <2>1, <3>1, <3>2 DEF TypeInv, DirectoryTypeOK, CreateHasId, At, Ids
    <3> QED
      BY <1>4, <2>2, <3>3, CommandTypes DEF TypeInv, DirectoryTypeOK, Increment, NothingResolved
  <2>4. CASE Goto(g, "fallback")
    BY <1>4, <2>1, <2>2, <2>4, GotoTypes, CommandTypes
       DEF TypeInv, DirectoryTypeOK, Increment, NothingResolved
  <2> QED
    BY <1>4, <2>3, <2>4 DEF Increment
<1>5. CASE Create(g)
  <2> DEFINE a == op[g].account
             id == op[g].id
  <2>1. op[g] # NoOp /\ a \in Accounts /\ id \in Ids
    BY <1>5, OpFacts DEF Create, At
  <2>2. entries' \in [Accounts -> Ids \cup {NoId}]
    BY <1>5, <2>1 DEF TypeInv, DirectoryTypeOK, Create
  <2>3. CASE Resolved(g, a, id)
    BY <1>5, <2>1, <2>2, <2>3, ResolvedTypes, CommandTypes DEF TypeInv, DirectoryTypeOK, Create
  <2>4. CASE \E pc \in {"retry", "fallback"} : Goto(g, pc) /\ NothingResolved
    BY <1>5, <2>1, <2>2, <2>4, GotoTypes, CommandTypes
       DEF TypeInv, DirectoryTypeOK, Create, NothingResolved
  <2> QED
    BY <1>5, <2>3, <2>4 DEF Create
<1>6. CASE Fallback(g)
  <2>1. op[g] # NoOp /\ op[g].account \in Accounts
    BY <1>6, OpFacts DEF Fallback, At
  <2>2. mNextPlayerId' \in [Games -> 1 .. MaxCounter + 1]
    BY <1>6 DEF TypeInv, DirectoryTypeOK, Fallback, Ids
  <2> QED
    BY <1>6, <2>1, <2>2, ResolvedTypes DEF TypeInv, DirectoryTypeOK, Fallback
<1> QED
  BY <1>1, <1>2, <1>3, <1>4, <1>5, <1>6 DEF ResolveStep

LEMMA NextTypes == TypeInv /\ [DirectoryNext]_dirVars => TypeInv'
<1> SUFFICES ASSUME TypeInv, [DirectoryNext]_dirVars PROVE TypeInv'
  OBVIOUS
<1> USE DirectoryAssumption DEF TypeInv, DirectoryTypeOK, CreateHasId, At
<1>1. ASSUME NEW g \in Games, NEW a \in Accounts, ResolveOrCreate(g, a) PROVE TypeInv'
  <2>1. [pc |-> "get", account |-> a, id |-> NoId] \in ResolveOp
    BY DEF ResolveOp, Steps
  <2> QED
    BY <1>1, <2>1 DEF ResolveOrCreate, NothingResolved
<1>2. ASSUME NEW g \in Games, NEW a \in Accounts, ResolveCached(g, a) PROVE TypeInv'
  BY <1>2 DEF ResolveCached
<1>3. ASSUME NEW g \in Games, NEW a \in Accounts, Lookup(g, a) PROVE TypeInv'
  BY <1>3 DEF Lookup
<1>4. ASSUME NEW g \in Games, Restart(g) PROVE TypeInv'
  <2>1. context' \in [Games -> BOOLEAN]
    BY <1>4, Zenon DEF Restart
  <2>2. faults' \in 0 .. MaxFaults
    BY <1>4 DEF Restart, Fault
  <2> QED
    BY <1>4, <2>1, <2>2 DEF Restart
<1>5. ASSUME NEW g \in Games, ProbeNow(g) PROVE TypeInv'
  BY <1>5 DEF ProbeNow
<1>6. CASE UNCHANGED dirVars
  BY <1>6 DEF dirVars
<1> QED
  BY <1>1, <1>2, <1>3, <1>4, <1>5, <1>6, StepTypes DEF DirectoryNext

\* The directory keeps its types: in particular no account is ever logged in
\* with an id that nobody has given out, although the INCRBY may fail.
THEOREM DirectoryTyping == DirectorySpec => []DirectoryTypeOK
<1>1. DirectoryInit => TypeInv
  BY InitTypes
<1>2. TypeInv /\ [DirectoryNext]_dirVars => TypeInv'
  BY NextTypes
<1>3. TypeInv => DirectoryTypeOK
  BY DEF TypeInv
<1> QED
  BY <1>1, <1>2, <1>3, PTL DEF DirectorySpec
-----------------------------------------------------------------------------
(* Entries are kept.                                                       *)

\* The only writes of an entry are SET NX, so that no step of any game, with
\* or without a reply, replaces an id that an account has.
THEOREM DirectoryEntryKept == DirectorySpec => EntryKept
<1>1. TypeInv /\ [DirectoryNext]_dirVars => [EntryKeptStep]_dirVars
  <2> SUFFICES ASSUME TypeInv, DirectoryNext PROVE EntryKeptStep
    OBVIOUS
  <2> SUFFICES ASSUME NEW b \in Accounts, entries[b] # NoId PROVE entries'[b] = entries[b]
    BY DEF EntryKeptStep
  <2>1. ASSUME NEW g \in Games, Create(g) PROVE entries'[b] = entries[b]
    BY <2>1 DEF Create, TypeInv, DirectoryTypeOK
  <2>2. ASSUME NEW g \in Games, ResolveStep(g), ~Create(g) PROVE UNCHANGED entries
    BY <2>2 DEF ResolveStep, ResolveGet, CounterGet, CounterInit, CounterReset, Increment, Fallback
  <2>3. ASSUME NEW g \in Games, Restart(g) \/ ProbeNow(g) PROVE UNCHANGED entries
    BY <2>3 DEF Restart, ProbeNow
  <2>4. ASSUME NEW g \in Games, NEW a \in Accounts,
               ResolveOrCreate(g, a) \/ ResolveCached(g, a) \/ Lookup(g, a)
        PROVE  UNCHANGED entries
    BY <2>4 DEF ResolveOrCreate, ResolveCached, Lookup
  <2> QED
    BY <2>1, <2>2, <2>3, <2>4 DEF DirectoryNext
<1>2. DirectoryInit => TypeInv
  BY InitTypes
<1>3. TypeInv /\ [DirectoryNext]_dirVars => TypeInv'
  BY NextTypes
<1> QED
  BY <1>1, <1>2, <1>3, PTL DEF DirectorySpec, EntryKept

-----------------------------------------------------------------------------
(* Ids while Redis answers.                                                *)

\* Nobody works without Redis.
AllAnswered == \A g \in Games : context[g] /\ ~At(g, "fallback")

\* The entry in Redis is what the games remember and have given out.
EntryIsKnown ==
    /\ \A g \in Games, a \in Accounts : mEntries[g][a] \in {NoId, entries[a]}
    /\ \A a \in Accounts, i \in Ids : i \in granted[a] => entries[a] = i

\* The counter is not below the base, and no game is about to reset it.
CounterAboveBase ==
    /\ counter = NoId \/ Base <= counter
    /\ \A g \in Games : /\ ~At(g, "counterReset")
                        /\ At(g, "increment") => counter # NoId

\* An id that was taken is counted.
Counted(i) == counter # NoId /\ i <= counter

\* The ids in Redis and the ones that games are about to write are different.
IdsDiffer ==
    /\ \A a, b \in Accounts : a # b /\ entries[a] # NoId => entries[a] # entries[b]
    /\ \A g, h \in Games : g # h /\ At(g, "create") /\ At(h, "create") => op[g].id # op[h].id
    /\ \A g \in Games, a \in Accounts : At(g, "create") => op[g].id # entries[a]

IdsCounted ==
    /\ \A a \in Accounts : entries[a] # NoId => Counted(entries[a])
    /\ \A g \in Games : At(g, "create") => Counted(op[g].id)

ReliableInv == AllAnswered /\ EntryIsKnown /\ CounterAboveBase /\ IdsDiffer /\ IdsCounted

DirectoryInv == TypeInv /\ (faults = 0 => ReliableInv)

LEMMA InitReliable == DirectoryInit => ReliableInv
  BY DirectoryAssumption
     DEF DirectoryInit, ReliableInv, AllAnswered, EntryIsKnown, CounterAboveBase, IdsDiffer,
         IdsCounted, At

\* Without a fault every command is answered.
LEMMA NoFaultAnswered ==
    ASSUME TypeInv, AllAnswered, NEW g \in Games, Answered(g) \/ Unanswered(g), faults' = 0
    PROVE  Answered(g) /\ ~Unanswered(g)
<1>1. faults \in Nat
  BY DirectoryAssumption DEF TypeInv, DirectoryTypeOK
<1>2. ~Fault
  BY <1>1 DEF Fault
<1> QED
  BY <1>2 DEF AllAnswered, Answered, Unanswered

\* Where the operations are after one of them has gone on, started or ended.
LEMMA GotoAt ==
    ASSUME TypeInv, NEW g \in Games, op[g] # NoOp, NEW pc \in Steps, Goto(g, pc)
    PROVE  /\ \A s \in Steps : At(g, s)' <=> s = pc
           /\ op'[g].id = op[g].id
           /\ \A h \in Games \ {g} : op'[h] = op[h]
<1>1. op' = [op EXCEPT ![g] = [op[g] EXCEPT !.pc = pc]]
  BY DEF Goto
<1>2. [op[g] EXCEPT !.pc = pc] \in ResolveOp
  BY OpFacts DEF ResolveOp
<1>3. [op[g] EXCEPT !.pc = pc].pc = pc /\ [op[g] EXCEPT !.pc = pc].id = op[g].id
  BY OpFacts DEF ResolveOp
<1>4. op'[g] = [op[g] EXCEPT !.pc = pc] /\ \A h \in Games \ {g} : op'[h] = op[h]
  BY <1>1 DEF TypeInv, DirectoryTypeOK
<1> QED
  BY <1>2, <1>3, <1>4, NoOpAssumption DEF At

\* A step of ResolveOrCreate that only changes where the operation is.
LEMMA GotoReliable ==
    ASSUME TypeInv, ReliableInv, NEW g \in Games, op[g] # NoOp,
           NEW pc \in Steps \ {"create", "fallback", "counterReset"}, Goto(g, pc), Answered(g),
           UNCHANGED entries, NothingResolved,
           counter' = counter \/ (counter = NoId /\ counter' = Base),
           pc = "increment" => counter' # NoId
    PROVE  ReliableInv'
<1> USE GotoAt DEF Steps
<1>1. \A h \in Games : \A s \in {"create", "fallback", "counterReset"} :
          At(h, s)' => At(h, s) /\ op'[h] = op[h]
  BY DEF At
<1>2. counter # NoId => counter' = counter
  OBVIOUS
<1>3. \A i : Counted(i) => Counted(i)'
  BY <1>2 DEF Counted
<1>4. AllAnswered'
  BY <1>1 DEF ReliableInv, AllAnswered, Answered
<1>5. EntryIsKnown'
  BY DEF ReliableInv, EntryIsKnown, NothingResolved
<1>6. CounterAboveBase'
  <2>1. counter' = NoId \/ Base <= counter'
    BY DirectoryAssumption DEF ReliableInv, CounterAboveBase
  <2>2. \A h \in Games : At(h, "increment")' => counter' # NoId
    <3> SUFFICES ASSUME NEW h \in Games, At(h, "increment")' PROVE counter' # NoId
      OBVIOUS
    <3>1. CASE h = g
      BY <3>1
    <3>2. CASE h # g
      BY <3>2, <1>2 DEF At, ReliableInv, CounterAboveBase
    <3> QED
      BY <3>1, <3>2
  <2> QED
    BY <1>1, <2>1, <2>2 DEF ReliableInv, CounterAboveBase
<1>7. IdsDiffer'
  BY <1>1 DEF ReliableInv, IdsDiffer
<1>8. IdsCounted'
  BY <1>1, <1>3 DEF ReliableInv, IdsCounted
<1> QED
  BY <1>4, <1>5, <1>6, <1>7, <1>8 DEF ReliableInv

\* A step after which the operation of the game is over, and nothing in Redis
\* is changed.
LEMMA EndReliable ==
    ASSUME TypeInv, ReliableInv, NEW g \in Games, op' = [op EXCEPT ![g] = NoOp],
           context'[g], \A h \in Games \ {g} : context'[h] = context[h],
           UNCHANGED <<entries, counter>>, EntryIsKnown'
    PROVE  ReliableInv'
<1>1. \A h \in Games : \A s : At(h, s)' => At(h, s) /\ op'[h] = op[h]
  BY DEF At, TypeInv, DirectoryTypeOK
<1> QED
  BY <1>1 DEF ReliableInv, AllAnswered, CounterAboveBase, IdsDiffer, IdsCounted, Counted

\* The INCRBY gives an id that no entry and no other operation has.
LEMMA IncrementReliable ==
    ASSUME TypeInv, ReliableInv, NEW g \in Games, Increment(g), faults' = 0
    PROVE  ReliableInv'
<1> DEFINE new == [op[g] EXCEPT !.pc = "create", !.id = counter + 1]
<1>1. Answered(g) /\ ~Unanswered(g)
  BY NoFaultAnswered DEF ReliableInv, Increment
<1>2. op[g] # NoOp /\ counter # NoId /\ UNCHANGED entries /\ NothingResolved
  BY DEF Increment, At, ReliableInv, CounterAboveBase
<1>3. counter' = counter + 1 /\ counter + 1 \in Ids /\ counter \in 0 .. MaxCounter
      /\ op' = [op EXCEPT ![g] = new]
  BY <1>1, <1>2 DEF Increment, TypeInv, DirectoryTypeOK
<1>4. new \in ResolveOp /\ new.id = counter + 1 /\ new.pc = "create"
  BY <1>2, <1>3, OpFacts DEF ResolveOp, Steps
<1>5. op'[g] = new /\ \A h \in Games \ {g} : op'[h] = op[h]
  BY <1>3 DEF TypeInv, DirectoryTypeOK
<1>6. counter' # NoId /\ MaxCounter \in Nat /\ Base \in Nat
  BY <1>3, DirectoryAssumption DEF Ids
<1>7. AllAnswered'
  BY <1>1, <1>4, <1>5 DEF ReliableInv, AllAnswered, At, Answered
<1>8. EntryIsKnown'
  BY <1>2 DEF ReliableInv, EntryIsKnown, NothingResolved
<1>9. CounterAboveBase'
  <2>1. Base <= counter'
    BY <1>2, <1>3, <1>6 DEF ReliableInv, CounterAboveBase
  <2> QED
    BY <1>4, <1>5, <1>6, <2>1 DEF ReliableInv, CounterAboveBase, At
<1>10. /\ \A a \in Accounts : entries[a] # NoId => entries[a] \in Ids /\ entries[a] <= counter
       /\ \A h \in Games : At(h, "create") => op[h].id \in Ids /\ op[h].id <= counter
  BY OpFacts DEF ReliableInv, IdsCounted, Counted, TypeInv, DirectoryTypeOK, At
<1>11. IdsDiffer'
  <2>1. \A a \in Accounts : entries'[a] # counter + 1
    BY <1>2, <1>3, <1>6, <1>10 DEF Ids
  <2>2. \A h \in Games \ {g} : At(h, "create")' =>
            At(h, "create") /\ op'[h].id = op[h].id /\ op[h].id # counter + 1
    BY <1>3, <1>5, <1>6, <1>10 DEF At, Ids
  <2>3. op'[g].id = counter + 1
    BY <1>4, <1>5
  <2>4. \A h, k \in Games : h # k /\ At(h, "create")' /\ At(k, "create")' => op'[h].id # op'[k].id
    <3> SUFFICES ASSUME NEW h \in Games, NEW k \in Games, h # k, At(h, "create")', At(k, "create")'
                 PROVE  op'[h].id # op'[k].id
      OBVIOUS
    <3>1. CASE h = g \/ k = g
      BY <3>1, <2>2, <2>3
    <3>2. CASE h # g /\ k # g
      BY <3>2, <2>2 DEF ReliableInv, IdsDiffer
    <3> QED
      BY <3>1, <3>2
  <2>5. \A h \in Games, a \in Accounts : At(h, "create")' => op'[h].id # entries'[a]
    BY <1>2, <2>1, <2>2, <2>3 DEF ReliableInv, IdsDiffer
  <2> QED
    BY <1>2, <2>4, <2>5 DEF ReliableInv, IdsDiffer
<1>12. IdsCounted'
  <2>1. \A a \in Accounts : entries'[a] # NoId => Counted(entries[a])'
    BY <1>2, <1>3, <1>6, <1>10 DEF Counted, Ids
  <2>2. \A h \in Games : At(h, "create")' => Counted(op[h].id)'
    <3> SUFFICES ASSUME NEW h \in Games, At(h, "create")' PROVE op'[h].id <= counter'
      BY <1>6 DEF Counted
    <3>1. CASE h = g
      <4>1. op'[h].id = counter + 1
        BY <3>1, <1>4, <1>5
      <4> QED
        BY <4>1, <1>3 DEF Ids
    <3>2. CASE h # g
      BY <3>2, <1>3, <1>5, <1>6, <1>10 DEF At, Ids
    <3> QED
      BY <3>1, <3>2
  <2> QED
    BY <1>2, <2>1, <2>2 DEF IdsCounted
<1> QED
  BY <1>7, <1>8, <1>9, <1>11, <1>12 DEF ReliableInv

\* The SET NX either gives the account its first id or finds another game's.
LEMMA CreateReliable ==
    ASSUME TypeInv, ReliableInv, NEW g \in Games, Create(g), faults' = 0
    PROVE  ReliableInv'
<1> DEFINE a == op[g].account
           id == op[g].id
<1>1. Answered(g) /\ ~Unanswered(g)
  BY NoFaultAnswered DEF ReliableInv, Create
<1>2. op[g] # NoOp /\ At(g, "create") /\ a \in Accounts /\ id \in Ids /\ id # NoId
  BY OpFacts, DirectoryAssumption DEF Create, At, Ids
<1>3. CASE entries[a] # NoId
  <2>1. Goto(g, "retry") /\ UNCHANGED <<entries, counter>> /\ NothingResolved
    BY <1>1, <1>3 DEF Create
  <2> QED
    BY <1>1, <1>2, <2>1, GotoReliable DEF Steps
<1>4. CASE entries[a] = NoId
  <2>1. entries' = [entries EXCEPT ![a] = id] /\ Resolved(g, a, id) /\ UNCHANGED counter
    BY <1>1, <1>4 DEF Create
  <2>2. entries'[a] = id /\ \A b \in Accounts \ {a} : entries'[b] = entries[b]
    BY <1>2, <2>1 DEF TypeInv, DirectoryTypeOK
  <2>3. \A h \in Games : \A s : At(h, s)' => At(h, s) /\ op'[h] = op[h] /\ h # g
    BY <2>1 DEF Resolved, At, TypeInv, DirectoryTypeOK
  <2>4. AllAnswered'
    BY <1>1, <2>3 DEF ReliableInv, AllAnswered, Answered
  <2>5. EntryIsKnown'
    <3>1. \A b \in Accounts : entries[b] # NoId => entries'[b] = entries[b]
      BY <1>4, <2>2
    <3>2. \A h \in Games, b \in Accounts : mEntries'[h][b] \in {NoId, entries'[b]}
      <4> SUFFICES ASSUME NEW h \in Games, NEW b \in Accounts
                   PROVE  mEntries'[h][b] \in {NoId, entries'[b]}
        OBVIOUS
      <4>1. mEntries'[h][b] = mEntries[h][b] \/ (b = a /\ mEntries'[h][b] = id)
        BY <1>2, <2>1 DEF Resolved, TypeInv, DirectoryTypeOK
      <4> QED
        BY <4>1, <2>2, <3>1 DEF ReliableInv, EntryIsKnown
    <3>3. \A b \in Accounts, i \in Ids : i \in granted'[b] => entries'[b] = i
      <4> SUFFICES ASSUME NEW b \in Accounts, NEW i \in Ids, i \in granted'[b]
                   PROVE  entries'[b] = i
        OBVIOUS
      <4>1. i \in granted[b] \/ (b = a /\ i = id)
        BY <1>2, <2>1 DEF Resolved, TypeInv, DirectoryTypeOK
      <4>2. i # NoId
        BY DirectoryAssumption DEF Ids
      <4> QED
        BY <4>1, <4>2, <2>2, <3>1 DEF ReliableInv, EntryIsKnown
    <3> QED
      BY <3>2, <3>3 DEF EntryIsKnown
  <2>6. CounterAboveBase'
    BY <2>1, <2>3 DEF ReliableInv, CounterAboveBase
  <2>7. IdsDiffer'
    <3>1. \A b \in Accounts : entries[b] # id
      BY <1>2 DEF ReliableInv, IdsDiffer
    <3>2. \A h \in Games : At(h, "create")' => op'[h].id # id
      BY <1>2, <2>3 DEF ReliableInv, IdsDiffer
    <3>3. \A b, c \in Accounts : b # c /\ entries'[b] # NoId => entries'[b] # entries'[c]
      BY <2>2, <3>1 DEF ReliableInv, IdsDiffer
    <3>4. \A h \in Games, b \in Accounts : At(h, "create")' => op'[h].id # entries'[b]
      BY <2>2, <2>3, <3>2 DEF ReliableInv, IdsDiffer
    <3> QED
      BY <2>3, <3>3, <3>4 DEF ReliableInv, IdsDiffer
  <2>8. IdsCounted'
    BY <1>2, <2>1, <2>2, <2>3 DEF ReliableInv, IdsCounted, Counted
  <2> QED
    BY <2>4, <2>5, <2>6, <2>7, <2>8 DEF ReliableInv
<1> QED
  BY <1>3, <1>4

LEMMA StepReliable ==
    ASSUME TypeInv, ReliableInv, NEW g \in Games, ResolveStep(g), faults' = 0
    PROVE  ReliableInv'
<1> USE NoFaultAnswered DEF ReliableInv
<1>1. CASE ResolveGet(g)
  <2> DEFINE a == op[g].account
  <2>1. op[g] # NoOp /\ a \in Accounts /\ UNCHANGED <<entries, counter>>
    BY <1>1, OpFacts DEF ResolveGet, At
  <2>2. Answered(g) /\ ~Unanswered(g)
    BY <1>1 DEF ResolveGet
  <2>3. CASE entries[a] = NoId
    <3>1. Goto(g, "counterGet") /\ NothingResolved
      BY <1>1, <2>2, <2>3 DEF ResolveGet
    <3> QED
      BY <2>1, <2>2, <3>1, GotoReliable DEF Steps
  <2>4. CASE entries[a] # NoId
    <3>1. Resolved(g, a, entries[a])
      BY <1>1, <2>2, <2>4 DEF ResolveGet
    <3>2. \A h \in Games, b \in Accounts : mEntries'[h][b] \in {NoId, entries'[b]}
      BY <2>1, <3>1 DEF Resolved, EntryIsKnown, TypeInv, DirectoryTypeOK
    <3>3. \A b \in Accounts, i \in Ids : i \in granted'[b] => entries'[b] = i
      BY <2>1, <3>1 DEF Resolved, EntryIsKnown, TypeInv, DirectoryTypeOK
    <3>4. context'[g] /\ \A h \in Games \ {g} : context'[h] = context[h]
      BY <2>2 DEF Answered
    <3> QED
      BY <2>1, <3>1, <3>2, <3>3, <3>4, EndReliable DEF Resolved, EntryIsKnown
  <2> QED
    BY <2>3, <2>4
<1>2. CASE CounterGet(g)
  <2>1. op[g] # NoOp /\ Answered(g) /\ ~Unanswered(g) /\ UNCHANGED <<entries, counter>>
        /\ NothingResolved
    BY <1>2 DEF CounterGet, At
  <2>2. CASE counter = NoId
    BY <1>2, <2>1, <2>2, GotoReliable DEF CounterGet, Steps
  <2>3. CASE counter # NoId
    <3>1. Goto(g, "increment")
      BY <1>2, <2>1, <2>3, DirectoryAssumption
         DEF CounterGet, CounterAboveBase, TypeInv, DirectoryTypeOK
    <3> QED
      BY <2>1, <2>3, <3>1, GotoReliable DEF Steps
  <2> QED
    BY <2>2, <2>3
<1>3. CASE CounterInit(g)
  <2>1. op[g] # NoOp /\ Answered(g) /\ ~Unanswered(g) /\ UNCHANGED entries
        /\ NothingResolved /\ Goto(g, "increment")
    BY <1>3 DEF CounterInit, At
  <2>2. counter' = IF counter = NoId THEN Base ELSE counter
    BY <1>3, <2>1 DEF CounterInit
  <2>3. Base # NoId
    BY DirectoryAssumption
  <2> QED
    BY <2>1, <2>2, <2>3, GotoReliable DEF Steps
<1>4. CASE CounterReset(g) \/ Fallback(g)
  BY <1>4 DEF CounterReset, Fallback, CounterAboveBase, AllAnswered
<1> QED
  BY <1>1, <1>2, <1>3, <1>4, IncrementReliable, CreateReliable DEF ResolveStep

LEMMA NextReliable == DirectoryInv /\ [DirectoryNext]_dirVars => DirectoryInv'
<1> SUFFICES ASSUME TypeInv, faults = 0 => ReliableInv, [DirectoryNext]_dirVars, faults' = 0
             PROVE  ReliableInv'
  BY NextTypes DEF DirectoryInv
<1>1. faults = 0 /\ ReliableInv
  <2>1. faults \in Nat
    BY DirectoryAssumption DEF TypeInv, DirectoryTypeOK
  <2>2. faults' = faults \/ faults' = faults + 1
    <3>1. ASSUME NEW g \in Games, Answered(g) \/ Unanswered(g)
          PROVE  faults' = faults \/ faults' = faults + 1
      BY <3>1 DEF Answered, Unanswered, Fault
    <3>2. ASSUME NEW g \in Games, ResolveStep(g) PROVE faults' = faults \/ faults' = faults + 1
      BY <3>1, <3>2 DEF ResolveStep, ResolveGet, CounterGet, CounterInit, CounterReset, Increment,
                        Create, Fallback
    <3> QED
      BY <3>2 DEF DirectoryNext, dirVars, ResolveOrCreate, ResolveCached, Lookup, Restart,
                  ProbeNow, Fault
  <2> QED
    BY <2>1, <2>2
<1>2. ASSUME NEW g \in Games, NEW a \in Accounts, ResolveOrCreate(g, a) PROVE ReliableInv'
  <2>1. /\ \A h \in Games : \A s \in Steps \ {"get"} : At(h, s)' => At(h, s) /\ op'[h] = op[h]
    <3>1. op'[g] = [pc |-> "get", account |-> a, id |-> NoId]
          /\ \A h \in Games \ {g} : op'[h] = op[h]
      BY <1>2 DEF ResolveOrCreate, TypeInv, DirectoryTypeOK
    <3> QED
      BY <3>1 DEF At
  <2> QED
    BY <1>1, <1>2, <2>1
       DEF ResolveOrCreate, NothingResolved, ReliableInv, AllAnswered, EntryIsKnown,
           CounterAboveBase, IdsDiffer, IdsCounted, Counted, Steps
<1>3. ASSUME NEW g \in Games, NEW a \in Accounts, ResolveCached(g, a) PROVE ReliableInv'
  <2>1. EntryIsKnown'
    BY <1>1, <1>3 DEF ResolveCached, ReliableInv, EntryIsKnown, TypeInv, DirectoryTypeOK
  <2> QED
    BY <1>1, <1>3, <2>1 DEF ResolveCached, ReliableInv, AllAnswered, CounterAboveBase, IdsDiffer,
                            IdsCounted, Counted, At
<1>4. ASSUME NEW g \in Games, NEW a \in Accounts, Lookup(g, a) PROVE ReliableInv'
  <2>1. EntryIsKnown'
    BY <1>1, <1>4 DEF Lookup, ReliableInv, EntryIsKnown, TypeInv, DirectoryTypeOK
  <2> QED
    BY <1>1, <1>4, <2>1 DEF Lookup, ReliableInv, AllAnswered, CounterAboveBase, IdsDiffer,
                            IdsCounted, Counted, At
<1>5. ASSUME NEW g \in Games, Restart(g) PROVE ReliableInv'
  <2>1. context' = [context EXCEPT ![g] = TRUE]
    BY <1>1, <1>5 DEF Restart, Fault
  <2>2. context'[g] /\ \A h \in Games \ {g} : context'[h] = context[h]
    BY <2>1, Zenon DEF TypeInv, DirectoryTypeOK
  <2>3. EntryIsKnown'
    BY <1>1, <1>5 DEF Restart, ReliableInv, EntryIsKnown, TypeInv, DirectoryTypeOK
  <2> QED
    BY <1>1, <1>5, <2>2, <2>3, EndReliable DEF Restart
<1>6. ASSUME NEW g \in Games, ProbeNow(g) PROVE ReliableInv'
  BY <1>1, <1>6 DEF ProbeNow, ReliableInv, AllAnswered
<1>7. CASE UNCHANGED dirVars
  BY <1>1, <1>7 DEF dirVars, ReliableInv, AllAnswered, EntryIsKnown, CounterAboveBase, IdsDiffer,
                    IdsCounted, Counted, At
<1> QED
  BY <1>1, <1>2, <1>3, <1>4, <1>5, <1>6, <1>7, StepReliable DEF DirectoryNext

\* While Redis answers, an account is logged in with one id only, in whatever
\* order the games create its entry and whenever they restart.
THEOREM DirectoryOneId == DirectorySpec => []OneIdPerAccount
<1>1. DirectoryInit => DirectoryInv
  BY InitTypes, InitReliable DEF DirectoryInv
<1>2. DirectoryInv /\ [DirectoryNext]_dirVars => DirectoryInv'
  BY NextReliable
<1>3. DirectoryInv => OneIdPerAccount
  BY DirectoryAssumption
     DEF DirectoryInv, TypeInv, DirectoryTypeOK, ReliableInv, EntryIsKnown, OneIdPerAccount, OneId
<1> QED
  BY <1>1, <1>2, <1>3, PTL DEF DirectorySpec

\* While Redis answers, two accounts are never logged in with the same id.
THEOREM DirectoryNoSharedId == DirectorySpec => []NoSharedId
<1>1. DirectoryInit => DirectoryInv
  BY InitTypes, InitReliable DEF DirectoryInv
<1>2. DirectoryInv /\ [DirectoryNext]_dirVars => DirectoryInv'
  BY NextReliable
<1>3. DirectoryInv => NoSharedId
  <2> SUFFICES ASSUME DirectoryInv, ~(faults > 0), NEW a \in Accounts, NEW b \in Accounts, a # b,
                      NEW i, i \in granted[a], i \in granted[b]
               PROVE  FALSE
    BY DEF NoSharedId
  <2>1. ReliableInv /\ i \in Ids
    BY DirectoryAssumption DEF DirectoryInv, TypeInv, DirectoryTypeOK
  <2>2. entries[a] = i /\ entries[b] = i /\ i # NoId
    BY <2>1, DirectoryAssumption DEF ReliableInv, EntryIsKnown, Ids
  <2> QED
    BY <2>1, <2>2 DEF ReliableInv, IdsDiffer
<1> QED
  BY <1>1, <1>2, <1>3, PTL DEF DirectorySpec
=============================================================================
