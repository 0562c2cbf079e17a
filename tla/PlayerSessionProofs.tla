------------------------- MODULE PlayerSessionProofs -------------------------
(***************************************************************************)
(* Theorems about the life of a player on a game process, for any number   *)
(* of games, players, gate sessions and updates: that its data is there    *)
(* while it is in service, that one game serves it, that no stored update  *)
(* is lost, that the whole keeps to the lease service, and that the games  *)
(* implement PlayerOwnership.                                              *)
(***************************************************************************)
EXTENDS PlayerSession, TLAPS

-----------------------------------------------------------------------------
(* The setting.                                                            *)

\* Players are activated by one handler thread of a game, and not from the console.
OneActivator == (\A t, u \in Handlers : t = u) /\ "activate" \notin Commands

\* Besides, leases are kept and no receiver is bound to another process.
LeasesKept == OneActivator /\ ~LeaseFaults /\ "bindRemote" \notin Commands

-----------------------------------------------------------------------------
(* The invariant: sessions and data.                                       *)

HasData(g, p) == Loaded(g, p) /\ p \in runtime[g]
InServiceState(state) == state \in {"online", "detached"}

\* The call c is at one of the steps, for player p.
Doing(c, p, steps) == c # NoCall /\ c.player = p /\ c.pc \in steps

\* Only handlers activate, only the console releases, and an activation that drops
\* the record at its end is not the recovery of a player in memory.
ThreadOK(t, c) ==
    c # NoCall => /\ c.pc \in ActivateSteps => t \in Handlers
                  /\ c.pc \in ReleaseSteps => t = "console"
                  /\ c.pc = "rollbackRecord" => ~c.reuse

\* A player that is being activated, and was not in memory, has no session yet; from
\* EnsurePlayer on it has its data.
ActivationOK(g, p, c) ==
    Doing(c, p, ActivateSteps) /\ ~c.reuse =>
       /\ session[g][p].state = "none"
       /\ c.pc \in {"emplace", "commit"} => Loaded(g, p)
       /\ c.pc = "commit" => p \in runtime[g]

\* A player that is being released is unloading; as long as its session may be put
\* back it has its data.
ReleaseOK(g, p, c) ==
    Doing(c, p, ReleaseSteps \ {"begin"}) =>
       /\ session[g][p].state = "unloading"
       /\ c.pc \in {"check", "flush", "restore"} /\ InServiceState(c.prev.state) => HasData(g, p)

MemoryOK(g, p) ==
    /\ InServiceState(session[g][p].state) => HasData(g, p)
    /\ \A t \in Handlers : ActivationOK(g, p, call[g][t])
    /\ ReleaseOK(g, p, call[g]["console"])

GameTypes ==
    /\ RepoTypeOK
    /\ session \in [Games -> [Players -> PlayerSessionRecord]]
    /\ runtime \in [Games -> SUBSET Players]
    /\ bound \in [Games -> [Players -> Owners]]
    /\ call \in [Games -> [Threads -> Call \cup {NoCall}]]

MemoryInv ==
    /\ GameTypes
    /\ \A g \in Games, t \in Threads : ThreadOK(t, call[g][t])
    /\ \A g \in Games, p \in Players : MemoryOK(g, p)

-----------------------------------------------------------------------------
(* The invariant: leases.                                                  *)

\* A lease that a game believes it holds is its own key in Redis.
HeldOK(g, p) ==
    IsHeldLocally(g, p) => /\ running[g] /\ mRedis[g] = "ok"
                           /\ redis[p] = mLeases[g][p] /\ mLeases[g][p].game = g

KeptOK(g, p) ==
    /\ HeldOK(g, p)
    /\ Loaded(g, p) => IsHeldLocally(g, p)
    /\ bound[g][p] # "other"
    /\ InServiceState(session[g][p].state) => IsHeldLocally(g, p) /\ bound[g][p] = "self"

\* The steps at which an activation, and a release, hold the lease.
HoldingSteps == {"load", "rollbackLoad", "bind", "ensure", "emplace", "commit"}

ActivationHolds(g, p, c) ==
    Doing(c, p, ActivateSteps) =>
       /\ ~c.reuse /\ c.pc \in HoldingSteps \cup {"acquire"}
       /\ c.pc \in HoldingSteps => IsHeldLocally(g, p)
       /\ c.pc \in {"load", "rollbackLoad"} => ~Loaded(g, p)
       /\ c.pc \in {"bind", "ensure", "emplace", "commit"} => Loaded(g, p)
       /\ c.pc \in {"ensure", "emplace", "commit"} => bound[g][p] = "self"

ReleaseHolds(g, p, c) ==
    Doing(c, p, ReleaseSteps \ {"begin"}) =>
       /\ c.pc \in {"check", "flush", "restore", "unbind"} => bound[g][p] = "self" /\ p \in runtime[g]
       /\ c.pc \in {"check", "flush", "restore", "unbind", "remove", "drop"} => Loaded(g, p)
       /\ c.pc = "release" => IsHeldLocally(g, p) /\ ~Loaded(g, p)
       /\ c.pc = "erase" => ~IsHeldLocally(g, p)
       /\ InServiceState(c.prev.state)

\* A session that is unloading is on its way, and a player without a session is held
\* only by its activation.
StateHolds(g, p) ==
    /\ session[g][p].state = "unloading" => Doing(call[g]["console"], p, ReleaseSteps \ {"begin"})
    /\ session[g][p].state = "none" /\ IsHeldLocally(g, p) =>
          \E t \in Handlers : Doing(call[g][t], p, HoldingSteps)

LeaseOK(g, p) ==
    /\ KeptOK(g, p) /\ StateHolds(g, p)
    /\ \A t \in Handlers : ActivationHolds(g, p, call[g][t])
    /\ ReleaseHolds(g, p, call[g]["console"])

NoReconcile(c) == c # NoCall => c.pc \notin {"reconcileUnbind", "reconcileCommit"}

LeaseInv ==
    /\ LeaseTypeOK
    /\ \A g \in Games : mRedis[g] # "broken"
    /\ \A g \in Games, t \in Threads : NoReconcile(call[g][t])
    /\ \A g \in Games, p \in Players : LeaseOK(g, p)

-----------------------------------------------------------------------------
(* The invariant: data.                                                    *)

\* What a game has of a player contains what is stored, and is what is stored unless it
\* is marked.
DataOK(g, p) ==
    Loaded(g, p) => /\ Stored(p) = Absent \/ Stored(p) \subseteq repo[g][p].data
                    /\ Dirty(g, p) \/ Stored(p) = repo[g][p].data

DataInv == \A g \in Games, p \in Players : DataOK(g, p)

-----------------------------------------------------------------------------
(* Facts about the state.                                                  *)

Steps == ActivateSteps \cup ReleaseSteps \cup OtherSteps
Records == PlayerRepositoryRecord \cup {Absent}

\* One entry of a table of games and players, or of games and threads, is replaced.
LEMMA PairReplaced ==
    ASSUME NEW S, NEW T, NEW f \in [Games -> [S -> T]], NEW g \in Games, NEW p \in S, NEW x \in T
    PROVE  /\ [f EXCEPT ![g][p] = x] \in [Games -> [S -> T]]
           /\ [f EXCEPT ![g][p] = x][g][p] = x
           /\ \A k \in Games, q \in S : (k # g \/ q # p) => [f EXCEPT ![g][p] = x][k][q] = f[k][q]
  OBVIOUS

LEMMA TypeFacts ==
    ASSUME GameTypes
    PROVE  /\ \A g \in Games, p \in Players : /\ session[g][p] \in PlayerSessionRecord
                                              /\ bound[g][p] \in Owners /\ repo[g][p] \in Records
           /\ \A g \in Games : runtime[g] \subseteq Players
           /\ \A g \in Games, t \in Threads : call[g][t] # NoCall => call[g][t] \in Call
  BY DEF GameTypes, RepoTypeOK, Records

\* The parts of a call.
LEMMA CallFacts ==
    ASSUME NEW c \in Call
    PROVE  /\ c # NoCall /\ c.pc \in Steps /\ c.player \in Players /\ c.reuse \in BOOLEAN
           /\ c.gate \in GateSessions \cup {0} /\ c.prev \in PlayerSessionRecord
  BY NoCallAssumption DEF Call, Steps

LEMMA AtFacts ==
    ASSUME GameTypes, NEW g \in Games, NEW t \in Threads, NEW pc, At(g, t, pc)
    PROVE  /\ call[g][t] \in Call /\ call[g][t] # NoCall /\ call[g][t].pc = pc
           /\ Player(g, t) = call[g][t].player /\ Player(g, t) \in Players
  BY TypeFacts, CallFacts DEF At, Player

\* Goto keeps the locals of the call.
LEMMA GotoFacts ==
    ASSUME GameTypes, NEW g \in Games, NEW t \in Threads, call[g][t] \in Call, NEW pc \in Steps,
           Goto(g, t, pc)
    PROVE  \E c \in Call : /\ call' = [call EXCEPT ![g][t] = c] /\ c.pc = pc
                           /\ c.player = call[g][t].player /\ c.reuse = call[g][t].reuse
                           /\ c.gate = call[g][t].gate /\ c.prev = call[g][t].prev
<1> DEFINE c == [call[g][t] EXCEPT !.pc = pc]
<1>1. /\ c \in Call /\ c.pc = pc /\ c.player = call[g][t].player /\ c.reuse = call[g][t].reuse
      /\ c.gate = call[g][t].gate /\ c.prev = call[g][t].prev
  BY DEF Call, Steps
<1>2. call' = [call EXCEPT ![g][t] = c]
  BY DEF Goto
<1> QED
  BY <1>1, <1>2

LEMMA RecordTypes ==
    /\ NoSession \in PlayerSessionRecord /\ NoSession.state = "none"
    /\ Detached \in PlayerSessionRecord /\ Detached.state = "detached"
    /\ \A gate \in GateSessions \cup {0} : Online(gate) \in PlayerSessionRecord /\ Online(gate).state = "online"
    /\ \A r \in PlayerSessionRecord : r.state \in {"none", "online", "detached", "unloading"}
  BY DEF NoSession, Detached, Online, PlayerSessionRecord

LEMMA EnterFacts ==
    ASSUME NEW g \in Games, NEW t \in Threads, NEW pc \in Steps, NEW p \in Players,
           NEW gate \in GateSessions \cup {0}, NEW reuse \in BOOLEAN, Enter(g, t, pc, p, gate, reuse)
    PROVE  \E c \in Call : /\ call' = [call EXCEPT ![g][t] = c] /\ c.pc = pc /\ c.player = p
                           /\ c.reuse = reuse /\ c.gate = gate
<1> DEFINE c == [pc |-> pc, player |-> p, gate |-> gate, reuse |-> reuse, prev |-> NoSession]
<1>1. c \in Call /\ c.pc = pc /\ c.player = p /\ c.reuse = reuse /\ c.gate = gate
  BY RecordTypes DEF Call, Steps
<1>2. call' = [call EXCEPT ![g][t] = c]
  BY DEF Enter
<1> QED
  BY <1>1, <1>2

-----------------------------------------------------------------------------
(* A step of one thread, for one player.                                   *)

\* Thread t of game g does something for player p, and to nothing else of that game's.
SessionMoves(g, p) ==
    session' = session \/ \E r \in PlayerSessionRecord : session' = [session EXCEPT ![g][p] = r]

RepoMoves(g, p) == repo' = repo \/ \E r \in Records : repo' = [repo EXCEPT ![g][p] = r]

BoundMoves(g, p) == bound' = bound \/ \E o \in Owners : bound' = [bound EXCEPT ![g][p] = o]

RuntimeMoves(g, p) ==
    \/ runtime' = runtime
    \/ runtime' = [runtime EXCEPT ![g] = runtime[g] \cup {p}]
    \/ runtime' = [runtime EXCEPT ![g] = runtime[g] \ {p}]

CallMoves(g, t, p) ==
    /\ \/ call' = call
       \/ \E c \in Call \cup {NoCall} : /\ c # NoCall => c.player = p
                                        /\ call' = [call EXCEPT ![g][t] = c]
    /\ call[g][t] # NoCall => call[g][t].player = p

Confined(g, t, p) ==
    SessionMoves(g, p) /\ RepoMoves(g, p) /\ BoundMoves(g, p) /\ RuntimeMoves(g, p) /\ CallMoves(g, t, p)

DatasetTypes == /\ row \in [Players -> {Absent} \cup PlayerData]
                /\ hot \in [Players -> {Absent} \cup PlayerData]
                /\ nextUpdate \in 1 .. MaxUpdates + 1

\* Such a step keeps the types.
LEMMA ConfinedTypes ==
    ASSUME GameTypes, NEW g \in Games, NEW t \in Threads, NEW p \in Players, Confined(g, t, p),
           DatasetTypes'
    PROVE  GameTypes'
<1>1. session' \in [Games -> [Players -> PlayerSessionRecord]]
  <2>1. session \in [Games -> [Players -> PlayerSessionRecord]]
    BY DEF GameTypes
  <2>2. ASSUME NEW x \in PlayerSessionRecord, session' = [session EXCEPT ![g][p] = x]
        PROVE  session' \in [Games -> [Players -> PlayerSessionRecord]]
    BY <2>1, <2>2
  <2> QED
    BY <2>1, <2>2 DEF Confined, SessionMoves, RepoMoves, BoundMoves, RuntimeMoves, CallMoves
<1>2. repo' \in [Games -> [Players -> PlayerRepositoryRecord \cup {Absent}]]
  <2>1. repo \in [Games -> [Players -> PlayerRepositoryRecord \cup {Absent}]]
    BY DEF GameTypes, RepoTypeOK
  <2>2. ASSUME NEW x \in Records, repo' = [repo EXCEPT ![g][p] = x]
        PROVE  repo' \in [Games -> [Players -> PlayerRepositoryRecord \cup {Absent}]]
    BY <2>1, <2>2 DEF Records
  <2> QED
    BY <2>1, <2>2 DEF Confined, SessionMoves, RepoMoves, BoundMoves, RuntimeMoves, CallMoves
<1>3. bound' \in [Games -> [Players -> Owners]]
  <2>1. bound \in [Games -> [Players -> Owners]]
    BY DEF GameTypes
  <2>2. ASSUME NEW x \in Owners, bound' = [bound EXCEPT ![g][p] = x]
        PROVE  bound' \in [Games -> [Players -> Owners]]
    BY <2>1, <2>2
  <2> QED
    BY <2>1, <2>2 DEF Confined, SessionMoves, RepoMoves, BoundMoves, RuntimeMoves, CallMoves
<1>4. runtime' \in [Games -> SUBSET Players]
  BY DEF Confined, SessionMoves, RepoMoves, BoundMoves, RuntimeMoves, CallMoves, GameTypes
<1>5. call' \in [Games -> [Threads -> Call \cup {NoCall}]]
  <2>1. call \in [Games -> [Threads -> Call \cup {NoCall}]]
    BY DEF GameTypes
  <2>2. ASSUME NEW x \in Call \cup {NoCall}, call' = [call EXCEPT ![g][t] = x]
        PROVE  call' \in [Games -> [Threads -> Call \cup {NoCall}]]
    BY <2>1, <2>2
  <2> QED
    BY <2>1, <2>2 DEF Confined, SessionMoves, RepoMoves, BoundMoves, RuntimeMoves, CallMoves
<1> QED
  BY <1>1, <1>2, <1>3, <1>4, <1>5 DEF GameTypes, RepoTypeOK, DatasetTypes

\* What such a step leaves as it is.
LEMMA ConfinedFacts ==
    ASSUME GameTypes, NEW g \in Games, NEW t \in Threads, NEW p \in Players, Confined(g, t, p)
    PROVE  /\ \A k \in Games, q \in Players : k # g \/ q # p =>
                 /\ session'[k][q] = session[k][q] /\ repo'[k][q] = repo[k][q]
                 /\ bound'[k][q] = bound[k][q] /\ (q \in runtime'[k] <=> q \in runtime[k])
           /\ \A k \in Games, u \in Threads : k # g \/ u # t => call'[k][u] = call[k][u]
           /\ call'[g][t] # NoCall => call'[g][t].player = p
<1>1. \A k \in Games, q \in Players : k # g \/ q # p => session'[k][q] = session[k][q]
  BY DEF Confined, SessionMoves, RepoMoves, BoundMoves, RuntimeMoves, CallMoves, GameTypes
<1>2. \A k \in Games, q \in Players : k # g \/ q # p => repo'[k][q] = repo[k][q]
  BY DEF Confined, SessionMoves, RepoMoves, BoundMoves, RuntimeMoves, CallMoves, GameTypes, RepoTypeOK
<1>3. \A k \in Games, q \in Players : k # g \/ q # p => bound'[k][q] = bound[k][q]
  BY DEF Confined, SessionMoves, RepoMoves, BoundMoves, RuntimeMoves, CallMoves, GameTypes
<1>4. \A k \in Games, q \in Players : k # g \/ q # p => (q \in runtime'[k] <=> q \in runtime[k])
  BY DEF Confined, SessionMoves, RepoMoves, BoundMoves, RuntimeMoves, CallMoves, GameTypes
<1>5. \A k \in Games, u \in Threads : k # g \/ u # t => call'[k][u] = call[k][u]
  BY DEF Confined, SessionMoves, RepoMoves, BoundMoves, RuntimeMoves, CallMoves, GameTypes
<1>6. call'[g][t] # NoCall => call'[g][t].player = p
  <2>1. CASE call' = call
    BY <2>1 DEF Confined, SessionMoves, RepoMoves, BoundMoves, RuntimeMoves, CallMoves
  <2>2. ASSUME NEW c \in Call \cup {NoCall}, c # NoCall => c.player = p, call' = [call EXCEPT ![g][t] = c]
        PROVE  call'[g][t] # NoCall => call'[g][t].player = p
    BY <2>2, PairReplaced DEF GameTypes
  <2> QED
    BY <2>1, <2>2 DEF Confined, SessionMoves, RepoMoves, BoundMoves, RuntimeMoves, CallMoves
<1> QED
  BY <1>1, <1>2, <1>3, <1>4, <1>5, <1>6

-----------------------------------------------------------------------------
(* Sessions and data in memory.                                            *)

\* A call that neither activates nor releases the player.
Neutral(c, p) == ~Doing(c, p, ActivateSteps \cup (ReleaseSteps \ {"begin"}))

\* Nothing that MemoryOK speaks of changes.
MemorySame(g, p) ==
    /\ session'[g][p].state = session[g][p].state
    /\ Loaded(g, p)' <=> Loaded(g, p)
    /\ p \in runtime'[g] <=> p \in runtime[g]
    /\ \A t \in Threads : \/ call'[g][t] = call[g][t]
                          \/ Neutral(call[g][t], p) /\ Neutral(call'[g][t], p)

LEMMA MemorySameKept ==
    ASSUME NEW g \in Games, NEW p \in Players, MemoryOK(g, p), MemorySame(g, p)
    PROVE  MemoryOK(g, p)'
<1>1. Handlers \subseteq Threads /\ "console" \in Threads
  BY DEF Threads
<1>2. HasData(g, p)' <=> HasData(g, p)
  BY DEF HasData, MemorySame
<1>3. InServiceState(session'[g][p].state) => HasData(g, p)'
  BY <1>2 DEF MemoryOK, MemorySame
<1>4. ASSUME NEW t \in Handlers PROVE ActivationOK(g, p, call[g][t])'
  BY <1>1 DEF MemoryOK, MemorySame, ActivationOK, Neutral, Doing
<1>5. ReleaseOK(g, p, call[g]["console"])'
  BY <1>1, <1>2 DEF MemoryOK, MemorySame, ReleaseOK, Neutral, Doing
<1> QED
  BY <1>3, <1>4, <1>5 DEF MemoryOK

\* What is left to show of a step of one thread for one player.
LEMMA MemoryStep ==
    ASSUME MemoryInv, NEW g \in Games, NEW t \in Threads, NEW p \in Players, Confined(g, t, p),
           DatasetTypes', ThreadOK(t, call'[g][t]), MemoryOK(g, p)'
    PROVE  MemoryInv'
<1>1. GameTypes /\ \A k \in Games, u \in Threads : ThreadOK(u, call[k][u])
  BY DEF MemoryInv
<1>2. GameTypes'
  BY <1>1, ConfinedTypes
<1>3. /\ \A k \in Games, q \in Players : k # g \/ q # p =>
            /\ session'[k][q] = session[k][q] /\ repo'[k][q] = repo[k][q]
            /\ (q \in runtime'[k] <=> q \in runtime[k])
      /\ \A k \in Games, u \in Threads : k # g \/ u # t => call'[k][u] = call[k][u]
      /\ call'[g][t] # NoCall => call'[g][t].player = p
      /\ call[g][t] # NoCall => call[g][t].player = p
  BY <1>1, ConfinedFacts DEF Confined, CallMoves
<1>4. ASSUME NEW k \in Games, NEW u \in Threads PROVE ThreadOK(u, call[k][u])'
  BY <1>1, <1>3 DEF ThreadOK
<1>5. ASSUME NEW k \in Games, NEW q \in Players, k # g \/ q # p
      PROVE  MemoryOK(k, q)'
  <2>1. MemorySame(k, q)
    <3>1. Loaded(k, q)' <=> Loaded(k, q)
      BY <1>3, <1>5 DEF Loaded, Present
    <3>2. \A u \in Threads : \/ call'[k][u] = call[k][u]
                             \/ Neutral(call[k][u], q) /\ Neutral(call'[k][u], q)
      BY <1>3, <1>5 DEF Neutral, Doing
    <3>3. session'[k][q] = session[k][q] /\ (q \in runtime'[k] <=> q \in runtime[k])
      BY <1>3, <1>5
    <3> QED
      BY <1>5, <3>1, <3>2, <3>3 DEF MemorySame
  <2> QED
    BY <1>5, <2>1, MemorySameKept DEF MemoryInv
<1> QED
  BY <1>2, <1>4, <1>5 DEF MemoryInv

\* A step of a handler: it activates the player, if anything.
LEMMA HandlerStep ==
    ASSUME MemoryInv, OneActivator, NEW g \in Games, NEW t \in Handlers, NEW p \in Players, Confined(g, t, p),
           DatasetTypes', ThreadOK(t, call'[g][t]),
           /\ InServiceState(session'[g][p].state) => HasData(g, p)'
           /\ ActivationOK(g, p, call[g][t])'
           /\ \/ session[g][p].state # "unloading"
              \/ session'[g][p] = session[g][p] /\ (HasData(g, p) => HasData(g, p)')
    PROVE  MemoryInv'
<1>1. t \in Threads /\ "console" \in Threads /\ t # "console"
  BY SessionAssumption DEF Threads
<1>2. GameTypes
  BY DEF MemoryInv
<1>3. call'[g]["console"] = call[g]["console"]
  BY <1>1, <1>2, ConfinedFacts
<1>4. MemoryOK(g, p)'
  <2>1. MemoryOK(g, p)
    BY DEF MemoryInv
  <2>2. \A u \in Handlers : ActivationOK(g, p, call[g][u])'
    BY DEF OneActivator
  <2>3. ReleaseOK(g, p, call[g]["console"])'
    BY <1>3, <2>1 DEF MemoryOK, ReleaseOK
  <2> QED
    BY <2>2, <2>3 DEF MemoryOK
<1> QED
  BY <1>1, <1>4, MemoryStep

\* A step of the console: it releases the player, if anything.
LEMMA ConsoleStep ==
    ASSUME MemoryInv, NEW g \in Games, NEW p \in Players, Confined(g, "console", p),
           DatasetTypes', ThreadOK("console", call'[g]["console"]),
           /\ InServiceState(session'[g][p].state) => HasData(g, p)'
           /\ ReleaseOK(g, p, call[g]["console"])'
           /\ \/ session[g][p].state # "none"
              \/ /\ session'[g][p] = session[g][p] /\ (Loaded(g, p) => Loaded(g, p)')
                 /\ p \in runtime[g] => p \in runtime'[g]
    PROVE  MemoryInv'
<1>1. "console" \in Threads
  BY DEF Threads
<1>2. GameTypes
  BY DEF MemoryInv
<1>3. \A u \in Handlers : call'[g][u] = call[g][u]
  <2>1. \A u \in Handlers : u \in Threads /\ u # "console"
    BY SessionAssumption DEF Threads
  <2> QED
    BY <1>1, <1>2, <2>1, ConfinedFacts
<1>4. MemoryOK(g, p)'
  <2>1. MemoryOK(g, p)
    BY DEF MemoryInv
  <2>2. ASSUME NEW u \in Handlers PROVE ActivationOK(g, p, call[g][u])'
    <3>1. ActivationOK(g, p, call[g][u]) /\ call'[g][u] = call[g][u]
      BY <1>3, <2>1 DEF MemoryOK
    <3> QED
      BY <3>1 DEF ActivationOK
  <2> QED
    BY <2>2 DEF MemoryOK
<1> QED
  BY <1>1, <1>4, MemoryStep

\* A step that neither activates nor releases.
LEMMA NeutralStep ==
    ASSUME MemoryInv, NEW g \in Games, NEW t \in Threads, NEW p \in Players, Confined(g, t, p),
           DatasetTypes', ThreadOK(t, call'[g][t]),
           session'[g][p] = session[g][p], runtime' = runtime, Loaded(g, p)' <=> Loaded(g, p),
           Neutral(call[g][t], p), Neutral(call'[g][t], p)
    PROVE  MemoryInv'
<1>1. GameTypes
  BY DEF MemoryInv
<1>2. \A u \in Threads : \/ call'[g][u] = call[g][u]
                         \/ Neutral(call[g][u], p) /\ Neutral(call'[g][u], p)
  BY <1>1, ConfinedFacts
<1>3. MemorySame(g, p)
  BY <1>2 DEF MemorySame
<1> QED
  BY <1>3, MemorySameKept, MemoryStep DEF MemoryInv

-----------------------------------------------------------------------------
(* The repository.                                                         *)

LEMMA RepoReplaced ==
    ASSUME GameTypes, NEW g \in Games, NEW p \in Players, NEW r \in Records,
           repo' = [repo EXCEPT ![g][p] = r]
    PROVE  repo'[g][p] = r
  BY PairReplaced DEF GameTypes, RepoTypeOK, Records

LEMMA DatasetKept ==
    ASSUME GameTypes, UNCHANGED <<row, hot, nextUpdate>>
    PROVE  DatasetTypes'
  BY DEF GameTypes, RepoTypeOK, DatasetTypes

LEMMA RecordFacts ==
    /\ NewRecord \in PlayerRepositoryRecord /\ ~NewRecord.loaded
    /\ \A r \in PlayerRepositoryRecord : /\ r # Absent /\ r.loaded \in BOOLEAN /\ r.dirty \in BOOLEAN
                                         /\ r.data \in PlayerData
<1>1. {} \in PlayerData
  BY DEF PlayerData
<1>2. NewRecord \in PlayerRepositoryRecord /\ ~NewRecord.loaded
  BY <1>1 DEF NewRecord, PlayerRepositoryRecord
<1>3. \A r \in PlayerRepositoryRecord : r.loaded \in BOOLEAN /\ r.dirty \in BOOLEAN /\ r.data \in PlayerData
  BY DEF PlayerRepositoryRecord
<1> QED
  BY <1>2, <1>3, AbsentAssumption

\* What is stored of a player.
LEMMA StoredFacts ==
    ASSUME GameTypes, NEW p \in Players
    PROVE  /\ Stored(p) \in PlayerData \cup {Absent}
           /\ row[p] \in PlayerData \cup {Absent} /\ hot[p] \in PlayerData \cup {Absent}
  BY DEF Stored, GameTypes, RepoTypeOK

\* A load, whether it succeeds or not, does not make a loaded record one that is not.
LEMMA LoadFacts ==
    ASSUME GameTypes, NEW g \in Games, NEW p \in Players, NEW ok \in BOOLEAN, LoadPlayer(g, p, ok)
    PROVE  /\ DatasetTypes' /\ RepoMoves(g, p)
           /\ ok => Loaded(g, p)'
           /\ ~ok => (Loaded(g, p)' <=> Loaded(g, p))
<1>1. PICK record \in PlayerRepositoryRecord : record = (IF Present(g, p) THEN repo[g][p] ELSE NewRecord)
  <2>1. repo[g][p] \in Records
    BY TypeFacts
  <2> QED
    BY <2>1, RecordFacts DEF Present, Records
<1>2. record.loaded <=> Loaded(g, p)
  BY <1>1, RecordFacts DEF Loaded
<1>3. CASE ok /\ Stored(p) # Absent
  <2> DEFINE r == [record EXCEPT !.loaded = TRUE, !.data = Stored(p)]
  <2>1. Stored(p) \in PlayerData
    BY <1>3, StoredFacts
  <2>2. r \in PlayerRepositoryRecord /\ r.loaded = TRUE
    BY <2>1 DEF PlayerRepositoryRecord
  <2>3. repo' = [repo EXCEPT ![g][p] = r] /\ DatasetGet(p) /\ nextUpdate' = nextUpdate
    BY <1>1, <1>3 DEF LoadPlayer
  <2>4. r \in Records /\ r # Absent
    BY <2>2, RecordFacts DEF Records
  <2> HIDE DEF r
  <2>5. Loaded(g, p)' /\ RepoMoves(g, p)
    BY <2>2, <2>3, <2>4, RepoReplaced DEF Loaded, Present, RepoMoves
  <2>6. DatasetTypes'
    <3>1. row' = row /\ (hot' = hot \/ (hot' = [hot EXCEPT ![p] = row[p]]))
      BY <2>3 DEF DatasetGet, SetHot
    <3>2. row[p] \in PlayerData \cup {Absent}
      BY StoredFacts
    <3> QED
      BY <2>3, <3>1, <3>2 DEF GameTypes, RepoTypeOK, DatasetTypes
  <2> QED
    BY <1>3, <2>5, <2>6
<1>4. CASE ok /\ Stored(p) = Absent
  <2> DEFINE r == [loaded |-> TRUE, dirty |-> TRUE, data |-> {}]
  <2>1. r \in PlayerRepositoryRecord /\ r.loaded = TRUE
    BY DEF PlayerRepositoryRecord, PlayerData
  <2>2. repo' = [repo EXCEPT ![g][p] = r] /\ UNCHANGED <<row, hot, nextUpdate>>
    BY <1>4 DEF LoadPlayer
  <2>3. r \in Records /\ r # Absent
    BY <2>1, RecordFacts DEF Records
  <2> HIDE DEF r
  <2>4. Loaded(g, p)' /\ RepoMoves(g, p)
    BY <2>1, <2>2, <2>3, RepoReplaced DEF Loaded, Present, RepoMoves
  <2> QED
    BY <1>4, <2>2, <2>4, DatasetKept
<1>5. CASE ~ok
  <2>1. repo' = [repo EXCEPT ![g][p] = record] /\ UNCHANGED <<row, hot, nextUpdate>>
    BY <1>1, <1>5 DEF LoadPlayer
  <2>2. record \in Records /\ record # Absent
    BY RecordFacts DEF Records
  <2>3. RepoMoves(g, p) /\ (Loaded(g, p)' <=> Loaded(g, p))
    BY <1>2, <2>1, <2>2, RepoReplaced DEF Loaded, Present, RepoMoves
  <2> QED
    BY <1>5, <2>1, <2>3, DatasetKept
<1> QED
  BY <1>3, <1>4, <1>5

LEMMA FlushFacts ==
    ASSUME GameTypes, NEW g \in Games, NEW p \in Players, NEW ok \in BOOLEAN, FlushPlayer(g, p, ok)
    PROVE  DatasetTypes' /\ RepoMoves(g, p) /\ (Loaded(g, p)' <=> Loaded(g, p))
<1>1. CASE ~Loaded(g, p)
  <2>1. UNCHANGED <<repo, row, hot, nextUpdate>>
    BY <1>1 DEF FlushPlayer
  <2> QED
    BY <2>1, DatasetKept DEF RepoMoves, Loaded, Present
<1>2. CASE Loaded(g, p)
  <2>1. repo[g][p] \in PlayerRepositoryRecord /\ repo[g][p].loaded
    BY <1>2, TypeFacts DEF Loaded, Present, Records
  <2>2. repo[g][p].data \in PlayerData
    BY <2>1, RecordFacts
  <2>3. /\ row' = row \/ row' = [row EXCEPT ![p] = repo[g][p].data]
        /\ hot' = hot \/ hot' = [hot EXCEPT ![p] = repo[g][p].data]
        /\ nextUpdate' = nextUpdate
        /\ repo' = repo \/ repo' = [repo EXCEPT ![g][p].dirty = FALSE]
    BY <1>2 DEF FlushPlayer, DatasetPut, SetHot
  <2>4. DatasetTypes'
    BY <2>2, <2>3 DEF GameTypes, RepoTypeOK, DatasetTypes
  <2>5. CASE repo' = repo
    BY <2>4, <2>5 DEF RepoMoves, Loaded, Present
  <2>6. CASE repo' = [repo EXCEPT ![g][p].dirty = FALSE]
    <3> DEFINE r == [repo[g][p] EXCEPT !.dirty = FALSE]
    <3>1. r \in PlayerRepositoryRecord /\ r.loaded = repo[g][p].loaded
      BY <2>1 DEF PlayerRepositoryRecord
    <3>2. repo' = [repo EXCEPT ![g][p] = r]
      BY <2>6
    <3>3. r \in Records /\ r # Absent
      BY <3>1, RecordFacts DEF Records
    <3> HIDE DEF r
    <3>4. RepoMoves(g, p) /\ (Loaded(g, p)' <=> Loaded(g, p))
      BY <1>2, <2>1, <3>1, <3>2, <3>3, RepoReplaced DEF Loaded, Present, RepoMoves
    <3> QED
      BY <2>4, <3>4
  <2> QED
    BY <2>3, <2>5, <2>6
<1> QED
  BY <1>1, <1>2

LEMMA UpdateFacts ==
    ASSUME GameTypes, NEW g \in Games, NEW p \in Players, UpdateData(g, p)
    PROVE  DatasetTypes' /\ RepoMoves(g, p) /\ (Loaded(g, p)' <=> Loaded(g, p))
<1>1. Loaded(g, p) /\ nextUpdate \in Updates /\ nextUpdate' = nextUpdate + 1 /\ UNCHANGED <<row, hot>>
  BY DEF UpdateData
<1>2. repo[g][p] \in PlayerRepositoryRecord /\ repo[g][p].loaded
  BY <1>1, TypeFacts DEF Loaded, Present, Records
<1> DEFINE r == [repo[g][p] EXCEPT !.dirty = TRUE, !.data = repo[g][p].data \cup {nextUpdate}]
<1>3. repo[g][p].data \cup {nextUpdate} \in PlayerData
  BY <1>1, <1>2, RecordFacts DEF PlayerData
<1>4. r \in PlayerRepositoryRecord /\ r.loaded = repo[g][p].loaded
  BY <1>2, <1>3 DEF PlayerRepositoryRecord
<1>5. repo' = [repo EXCEPT ![g][p] = r]
  <2>1. repo \in [Games -> [Players -> Records]]
    BY DEF GameTypes, RepoTypeOK, Records
  <2> QED
    BY <1>2, <2>1 DEF UpdateData
<1>6. r \in Records /\ r # Absent
  BY <1>4, RecordFacts DEF Records
<1> HIDE DEF r
<1>7. RepoMoves(g, p) /\ (Loaded(g, p)' <=> Loaded(g, p))
  BY <1>1, <1>2, <1>4, <1>5, <1>6, RepoReplaced DEF Loaded, Present, RepoMoves
<1>8. nextUpdate' \in 1 .. MaxUpdates + 1
  BY <1>1, RepositoryAssumption DEF Updates
<1> QED
  BY <1>1, <1>7, <1>8 DEF GameTypes, RepoTypeOK, DatasetTypes

LEMMA DropFacts ==
    ASSUME GameTypes, NEW g \in Games, NEW p \in Players, ReleaseRecord(g, p)
    PROVE  DatasetTypes' /\ RepoMoves(g, p) /\ ~Loaded(g, p)'
<1>1. repo' = [repo EXCEPT ![g][p] = Absent] /\ UNCHANGED <<row, hot, nextUpdate>> /\ Absent \in Records
  BY DEF ReleaseRecord, Records
<1>2. repo'[g][p] = Absent
  BY <1>1, RepoReplaced
<1> QED
  BY <1>1, <1>2, DatasetKept DEF RepoMoves, Loaded, Present

-----------------------------------------------------------------------------
(* How a call goes on.                                                     *)

\* The call of thread t of game g is now c.
LEMMA CallReplaced ==
    ASSUME GameTypes, NEW g \in Games, NEW t \in Threads, NEW p \in Players, NEW c \in Call \cup {NoCall},
           call' = [call EXCEPT ![g][t] = c], c # NoCall => c.player = p,
           call[g][t] # NoCall => call[g][t].player = p
    PROVE  CallMoves(g, t, p) /\ call'[g][t] = c
<1>1. call'[g][t] = c
  BY PairReplaced DEF GameTypes
<1> QED
  BY <1>1 DEF CallMoves

\* The step of a call at pc, for player p.
Busy(g, t, p, pc) ==
    call[g][t] \in Call /\ call[g][t] # NoCall /\ call[g][t].player = p /\ call[g][t].pc = pc

LEMMA AtBusy ==
    ASSUME GameTypes, NEW g \in Games, NEW t \in Threads, NEW pc, At(g, t, pc)
    PROVE  Player(g, t) \in Players /\ Busy(g, t, Player(g, t), pc)
  BY AtFacts DEF Busy

\* The call is now at pc, with the same locals.
GoesTo(g, t, p, pc) ==
    /\ call'[g][t] \in Call /\ call'[g][t] # NoCall /\ call'[g][t].pc = pc /\ call'[g][t].player = p
    /\ call'[g][t].reuse = call[g][t].reuse /\ call'[g][t].prev = call[g][t].prev
    /\ call'[g][t].gate = call[g][t].gate

LEMMA GotoMoves ==
    ASSUME GameTypes, NEW g \in Games, NEW t \in Threads, NEW p \in Players, NEW from, Busy(g, t, p, from),
           NEW pc \in Steps, Goto(g, t, pc)
    PROVE  CallMoves(g, t, p) /\ GoesTo(g, t, p, pc)
<1>1. PICK c \in Call : /\ call' = [call EXCEPT ![g][t] = c] /\ c.pc = pc
                        /\ c.player = call[g][t].player /\ c.reuse = call[g][t].reuse
                        /\ c.gate = call[g][t].gate /\ c.prev = call[g][t].prev
  BY GotoFacts DEF Busy
<1>2. c \in Call \cup {NoCall} /\ c # NoCall /\ c.player = p /\ call[g][t].player = p
  BY <1>1, CallFacts DEF Busy
<1>3. call' = [call EXCEPT ![g][t] = c]
  BY <1>1
<1>4. call'[g][t] = c
  BY <1>3, PairReplaced DEF GameTypes
<1>5. CallMoves(g, t, p)
  BY <1>2, <1>3 DEF CallMoves
<1> QED
  BY <1>1, <1>2, <1>4, <1>5 DEF GoesTo

LEMMA ReturnMoves ==
    ASSUME GameTypes, NEW g \in Games, NEW t \in Threads, NEW p \in Players, NEW from, Busy(g, t, p, from),
           Return(g, t)
    PROVE  CallMoves(g, t, p) /\ call'[g][t] = NoCall
<1>1. NoCall \in Call \cup {NoCall} /\ call' = [call EXCEPT ![g][t] = NoCall]
  BY DEF Return
<1>2. call[g][t].player = p
  BY DEF Busy
<1>3. call'[g][t] = NoCall
  BY <1>1, PairReplaced DEF GameTypes
<1> QED
  BY <1>1, <1>2, <1>3 DEF CallMoves

\* A thread takes up an operation.
Begins(g, t, p, pc, reuse) ==
    /\ call[g][t] = NoCall
    /\ call'[g][t] \in Call /\ call'[g][t] # NoCall /\ call'[g][t].pc = pc /\ call'[g][t].player = p
    /\ call'[g][t].reuse = reuse

LEMMA EnterMoves ==
    ASSUME GameTypes, NEW g \in Games, NEW t \in Threads, NEW p \in Players, Idle(g, t),
           NEW pc \in Steps, NEW gate \in GateSessions \cup {0}, NEW reuse \in BOOLEAN,
           Enter(g, t, pc, p, gate, reuse)
    PROVE  CallMoves(g, t, p) /\ Begins(g, t, p, pc, reuse)
<1>1. PICK c \in Call : /\ call' = [call EXCEPT ![g][t] = c] /\ c.pc = pc /\ c.player = p
                        /\ c.reuse = reuse
  BY EnterFacts
<1>2. c \in Call \cup {NoCall} /\ c # NoCall /\ call[g][t] = NoCall
  BY CallFacts DEF Idle
<1>3. CallMoves(g, t, p) /\ call'[g][t] = c
  BY <1>1, <1>2, CallReplaced
<1> QED
  BY <1>1, <1>2, <1>3 DEF Begins

LEMMA IdleMoves ==
    ASSUME NEW g \in Games, NEW t \in Threads, NEW p \in Players, Idle(g, t), call' = call
    PROVE  CallMoves(g, t, p) /\ call'[g][t] = NoCall /\ call[g][t] = NoCall
  BY DEF CallMoves, Idle

\* The steps are what they should be.
LEMMA StepNames ==
    /\ ActivateSteps \cap ReleaseSteps = {} /\ ActivateSteps \cap OtherSteps = {}
    /\ ReleaseSteps \cap OtherSteps = {}
    /\ ActivateSteps \subseteq Steps /\ ReleaseSteps \subseteq Steps /\ OtherSteps \subseteq Steps
  BY DEF ActivateSteps, ReleaseSteps, OtherSteps, Steps

\* Variables that a step does not touch.
LEMMA SessionSet ==
    ASSUME GameTypes, NEW g \in Games, NEW p \in Players, NEW r \in PlayerSessionRecord, SetSession(g, p, r)
    PROVE  SessionMoves(g, p) /\ session'[g][p] = r
<1>1. session'[g][p] = r
  BY PairReplaced DEF SetSession, GameTypes
<1> QED
  BY <1>1 DEF SetSession, SessionMoves

LEMMA OwnerSet ==
    ASSUME GameTypes, NEW g \in Games, NEW p \in Players, NEW o \in Owners, SetOwner(g, p, o)
    PROVE  BoundMoves(g, p) /\ bound'[g][p] = o
<1>1. bound'[g][p] = o
  BY PairReplaced DEF SetOwner, GameTypes
<1> QED
  BY <1>1 DEF SetOwner, BoundMoves

LEMMA NothingMoves ==
    ASSUME NEW g \in Games, NEW p \in Players
    PROVE  /\ session' = session => SessionMoves(g, p)
           /\ repo' = repo => RepoMoves(g, p) /\ (Loaded(g, p)' <=> Loaded(g, p))
           /\ bound' = bound => BoundMoves(g, p)
           /\ runtime' = runtime => RuntimeMoves(g, p)
  BY DEF SessionMoves, RepoMoves, BoundMoves, RuntimeMoves, Loaded, Present

-----------------------------------------------------------------------------
(* What the steps of ActivatePlayer do.                                    *)

LEMMA CheckFacts ==
    ASSUME GameTypes, NEW g \in Games, NEW t \in Threads, NEW p \in Players, NEW gate \in GateSessions,
           ActivateCheck(g, t, p, gate)
    PROVE  /\ Confined(g, t, p) /\ DatasetTypes' /\ call[g][t] = NoCall
           /\ UNCHANGED <<leaseVars, repoVars, runtime, bound>>
           /\ \/ /\ InServiceState(session[g][p].state) /\ IsHeldLocally(g, p)
                 /\ session'[g][p].state = "online" /\ call'[g][t] = NoCall
              \/ /\ InServiceState(session[g][p].state) /\ ~IsHeldLocally(g, p)
                 /\ session' = session /\ Begins(g, t, p, "acquire", TRUE)
              \/ /\ session[g][p].state = "none"
                 /\ session' = session /\ Begins(g, t, p, "acquire", FALSE)
<1>1. UNCHANGED <<leaseVars, repoVars, runtime, bound>> /\ Idle(g, t)
  BY DEF ActivateCheck
<1>2. UNCHANGED <<repo, row, hot, nextUpdate>>
  BY <1>1 DEF repoVars
<1>3. "acquire" \in Steps /\ gate \in GateSessions \cup {0} /\ TRUE \in BOOLEAN /\ FALSE \in BOOLEAN
  BY DEF Steps, ActivateSteps
<1>4. DatasetTypes' /\ RepoMoves(g, p) /\ BoundMoves(g, p) /\ RuntimeMoves(g, p)
  BY <1>1, <1>2, DatasetKept, NothingMoves
<1>5. CASE /\ InServiceState(session[g][p].state) /\ IsHeldLocally(g, p)
           /\ SetSession(g, p, Online(gate)) /\ call' = call
  <2>1. Online(gate) \in PlayerSessionRecord /\ Online(gate).state = "online"
    BY <1>3, RecordTypes
  <2>2. SessionMoves(g, p) /\ session'[g][p] = Online(gate)
    BY <1>5, <2>1, SessionSet
  <2>3. CallMoves(g, t, p) /\ call'[g][t] = NoCall /\ call[g][t] = NoCall
    BY <1>1, <1>5, IdleMoves
  <2> QED
    BY <1>1, <1>4, <1>5, <2>1, <2>2, <2>3 DEF Confined
<1>6. CASE /\ InServiceState(session[g][p].state) /\ ~IsHeldLocally(g, p)
           /\ Enter(g, t, "acquire", p, gate, TRUE) /\ session' = session
  <2>1. CallMoves(g, t, p) /\ Begins(g, t, p, "acquire", TRUE)
    BY <1>1, <1>3, <1>6, EnterMoves
  <2> QED
    BY <1>1, <1>4, <1>6, <2>1, NothingMoves DEF Confined, Begins
<1>7. CASE /\ session[g][p].state = "none"
           /\ Enter(g, t, "acquire", p, gate, FALSE) /\ session' = session
  <2>1. CallMoves(g, t, p) /\ Begins(g, t, p, "acquire", FALSE)
    BY <1>1, <1>3, <1>7, EnterMoves
  <2> QED
    BY <1>1, <1>4, <1>7, <2>1, NothingMoves DEF Confined, Begins
<1> QED
  BY <1>5, <1>6, <1>7 DEF ActivateCheck, InServiceState

LEMMA AcquireFacts ==
    ASSUME GameTypes, NEW g \in Games, NEW t \in Threads, ActivateAcquire(g, t)
    PROVE  \E p \in Players :
              /\ Busy(g, t, p, "acquire") /\ Confined(g, t, p) /\ DatasetTypes'
              /\ UNCHANGED <<repoVars, session, runtime, bound>> /\ ReliableRedis
              /\ \/ Acquire(g, p, TRUE) /\ GoesTo(g, t, p, "load")
                 \/ Acquire(g, p, FALSE) /\ call'[g][t] = NoCall
<1>1. PICK p \in Players : p = Player(g, t) /\ Busy(g, t, p, "acquire")
  BY AtBusy DEF ActivateAcquire
<1>2. /\ UNCHANGED <<repoVars, session, runtime, bound>> /\ ReliableRedis
      /\ UNCHANGED <<repo, row, hot, nextUpdate>>
  BY DEF ActivateAcquire, repoVars, sessionVars
<1>3. DatasetTypes' /\ RepoMoves(g, p) /\ BoundMoves(g, p) /\ RuntimeMoves(g, p) /\ SessionMoves(g, p)
  BY <1>2, DatasetKept, NothingMoves
<1>4. CASE Acquire(g, p, TRUE) /\ Goto(g, t, "load")
  <2>1. "load" \in Steps
    BY DEF Steps, ActivateSteps
  <2> QED
    BY <1>1, <1>2, <1>3, <1>4, <2>1, GotoMoves DEF Confined
<1>5. CASE Acquire(g, p, FALSE) /\ Return(g, t)
  BY <1>1, <1>2, <1>3, <1>5, ReturnMoves DEF Confined
<1> QED
  BY <1>1, <1>4, <1>5 DEF ActivateAcquire

LEMMA ActivateLoadFacts ==
    ASSUME GameTypes, NEW g \in Games, NEW t \in Threads, ActivateLoad(g, t)
    PROVE  \E p \in Players :
              /\ Busy(g, t, p, "load") /\ Confined(g, t, p) /\ DatasetTypes'
              /\ UNCHANGED <<leaseVars, session, runtime, bound>>
              /\ \/ /\ call[g][t].reuse /\ GoesTo(g, t, p, "bind")
                    /\ UNCHANGED repoVars /\ (Loaded(g, p)' <=> Loaded(g, p))
                 \/ LoadPlayer(g, p, TRUE) /\ Loaded(g, p)' /\ GoesTo(g, t, p, "bind")
                 \/ /\ LoadPlayer(g, p, FALSE) /\ (Loaded(g, p)' <=> Loaded(g, p))
                    /\ GoesTo(g, t, p, "rollbackLoad")
<1>1. PICK p \in Players : p = Player(g, t) /\ Busy(g, t, p, "load")
  BY AtBusy DEF ActivateLoad
<1>2. UNCHANGED <<leaseVars, session, runtime, bound>>
  BY DEF ActivateLoad, sessionVars
<1>3. BoundMoves(g, p) /\ RuntimeMoves(g, p) /\ SessionMoves(g, p)
  BY <1>2, NothingMoves
<1>4. "bind" \in Steps /\ "rollbackLoad" \in Steps /\ TRUE \in BOOLEAN /\ FALSE \in BOOLEAN
  BY DEF Steps, ActivateSteps
<1>5. CASE call[g][t].reuse /\ Goto(g, t, "bind") /\ UNCHANGED repoVars
  <2>1. UNCHANGED <<repo, row, hot, nextUpdate>>
    BY <1>5 DEF repoVars
  <2>2. DatasetTypes' /\ RepoMoves(g, p) /\ (Loaded(g, p)' <=> Loaded(g, p))
    BY <2>1, DatasetKept, NothingMoves
  <2> QED
    BY <1>1, <1>2, <1>3, <1>4, <1>5, <2>2, GotoMoves DEF Confined
<1>6. CASE LoadPlayer(g, p, TRUE) /\ Goto(g, t, "bind")
  <2>1. DatasetTypes' /\ RepoMoves(g, p) /\ Loaded(g, p)'
    BY <1>4, <1>6, LoadFacts
  <2> QED
    BY <1>1, <1>2, <1>3, <1>4, <1>6, <2>1, GotoMoves DEF Confined
<1>7. CASE LoadPlayer(g, p, FALSE) /\ Goto(g, t, "rollbackLoad")
  <2>1. DatasetTypes' /\ RepoMoves(g, p) /\ (Loaded(g, p)' <=> Loaded(g, p))
    BY <1>4, <1>7, LoadFacts
  <2> QED
    BY <1>1, <1>2, <1>3, <1>4, <1>7, <2>1, GotoMoves DEF Confined
<1> QED
  BY <1>1, <1>5, <1>6, <1>7 DEF ActivateLoad

LEMMA BindFacts ==
    ASSUME GameTypes, NEW g \in Games, NEW t \in Threads, ActivateBind(g, t)
    PROVE  \E p \in Players :
              /\ Busy(g, t, p, "bind") /\ Confined(g, t, p) /\ DatasetTypes'
              /\ UNCHANGED <<leaseVars, repoVars, session, runtime>>
              /\ \/ bound[g][p] = "other" /\ bound' = bound /\ GoesTo(g, t, p, "rollbackUnbound")
                 \/ bound[g][p] # "other" /\ bound'[g][p] = "self" /\ GoesTo(g, t, p, "ensure")
<1>1. PICK p \in Players : p = Player(g, t) /\ Busy(g, t, p, "bind")
  BY AtBusy DEF ActivateBind
<1>2. UNCHANGED <<leaseVars, repoVars, session, runtime>> /\ UNCHANGED <<repo, row, hot, nextUpdate>>
  BY DEF ActivateBind, repoVars
<1>3. DatasetTypes' /\ RepoMoves(g, p) /\ RuntimeMoves(g, p) /\ SessionMoves(g, p)
  BY <1>2, DatasetKept, NothingMoves
<1>4. "rollbackUnbound" \in Steps /\ "ensure" \in Steps /\ "self" \in Owners
  BY DEF Steps, ActivateSteps, Owners
<1>5. CASE bound[g][p] = "other"
  <2>1. Goto(g, t, "rollbackUnbound") /\ bound' = bound
    BY <1>1, <1>5 DEF ActivateBind
  <2> QED
    BY <1>1, <1>2, <1>3, <1>4, <1>5, <2>1, GotoMoves, NothingMoves DEF Confined
<1>6. CASE bound[g][p] # "other"
  <2>1. Goto(g, t, "ensure") /\ SetOwner(g, p, "self")
    BY <1>1, <1>6 DEF ActivateBind
  <2>2. BoundMoves(g, p) /\ bound'[g][p] = "self"
    BY <1>4, <2>1, OwnerSet
  <2> QED
    BY <1>1, <1>2, <1>3, <1>4, <1>6, <2>1, <2>2, GotoMoves DEF Confined
<1> QED
  BY <1>5, <1>6

LEMMA EnsureFacts ==
    ASSUME GameTypes, NEW g \in Games, NEW t \in Threads, ActivateEnsure(g, t)
    PROVE  \E p \in Players :
              /\ Busy(g, t, p, "ensure") /\ Confined(g, t, p) /\ DatasetTypes'
              /\ UNCHANGED <<leaseVars, repoVars, session, runtime, bound>>
              /\ Loaded(g, p)' <=> Loaded(g, p)
              /\ \/ Loaded(g, p) /\ GoesTo(g, t, p, "emplace")
                 \/ ~Loaded(g, p) /\ GoesTo(g, t, p, "rollbackLease")
<1>1. PICK p \in Players : p = Player(g, t) /\ Busy(g, t, p, "ensure")
  BY AtBusy DEF ActivateEnsure
<1>2. UNCHANGED <<leaseVars, repoVars, session, runtime, bound>> /\ UNCHANGED <<repo, row, hot, nextUpdate>>
  BY DEF ActivateEnsure, repoVars, sessionVars
<1>3. /\ DatasetTypes' /\ RepoMoves(g, p) /\ RuntimeMoves(g, p) /\ SessionMoves(g, p) /\ BoundMoves(g, p)
      /\ Loaded(g, p)' <=> Loaded(g, p)
  BY <1>2, DatasetKept, NothingMoves
<1>4. "emplace" \in Steps /\ "rollbackLease" \in Steps
  BY DEF Steps, ActivateSteps
<1>5. CASE Loaded(g, p)
  <2>1. Goto(g, t, "emplace")
    BY <1>1, <1>5 DEF ActivateEnsure
  <2> QED
    BY <1>1, <1>2, <1>3, <1>4, <1>5, <2>1, GotoMoves DEF Confined
<1>6. CASE ~Loaded(g, p)
  <2>1. Goto(g, t, "rollbackLease")
    BY <1>1, <1>6 DEF ActivateEnsure
  <2> QED
    BY <1>1, <1>2, <1>3, <1>4, <1>6, <2>1, GotoMoves DEF Confined
<1> QED
  BY <1>5, <1>6

LEMMA EmplaceFacts ==
    ASSUME GameTypes, NEW g \in Games, NEW t \in Threads, ActivateEmplace(g, t)
    PROVE  \E p \in Players :
              /\ Busy(g, t, p, "emplace") /\ Confined(g, t, p) /\ DatasetTypes'
              /\ UNCHANGED <<leaseVars, repoVars, session, bound>>
              /\ Loaded(g, p)' <=> Loaded(g, p)
              /\ p \in runtime'[g] /\ GoesTo(g, t, p, "commit")
<1>1. PICK p \in Players : p = Player(g, t) /\ Busy(g, t, p, "emplace")
  BY AtBusy DEF ActivateEmplace
<1>2. UNCHANGED <<leaseVars, repoVars, session, bound>> /\ UNCHANGED <<repo, row, hot, nextUpdate>>
  BY DEF ActivateEmplace, repoVars
<1>3. /\ DatasetTypes' /\ RepoMoves(g, p) /\ SessionMoves(g, p) /\ BoundMoves(g, p)
      /\ Loaded(g, p)' <=> Loaded(g, p)
  BY <1>2, DatasetKept, NothingMoves
<1>4. "commit" \in Steps
  BY DEF Steps, ActivateSteps
<1>5. runtime' = [runtime EXCEPT ![g] = runtime[g] \cup {p}] /\ Goto(g, t, "commit")
  BY <1>1 DEF ActivateEmplace
<1>6. p \in runtime'[g] /\ RuntimeMoves(g, p)
  BY <1>5 DEF GameTypes, RuntimeMoves
<1> QED
  BY <1>1, <1>2, <1>3, <1>4, <1>5, <1>6, GotoMoves DEF Confined

LEMMA CommitFacts ==
    ASSUME GameTypes, NEW g \in Games, NEW t \in Threads, ActivateCommit(g, t)
    PROVE  \E p \in Players :
              /\ Busy(g, t, p, "commit") /\ Confined(g, t, p) /\ DatasetTypes'
              /\ UNCHANGED <<repoVars, runtime, bound>> /\ call'[g][t] = NoCall
              /\ Loaded(g, p)' <=> Loaded(g, p)
              /\ \/ /\ call[g][t].reuse /\ session[g][p].state \in {"none", "unloading"}
                    /\ Release(g, p) /\ ReliableRedis /\ session' = session
                 \/ /\ ~(call[g][t].reuse /\ session[g][p].state \in {"none", "unloading"})
                    /\ session'[g][p].state = "online" /\ UNCHANGED leaseVars
<1>1. PICK p \in Players : p = Player(g, t) /\ Busy(g, t, p, "commit")
  BY AtBusy DEF ActivateCommit
<1>2. UNCHANGED <<repoVars, runtime, bound>> /\ UNCHANGED <<repo, row, hot, nextUpdate>> /\ Return(g, t)
  BY DEF ActivateCommit, repoVars
<1>3. /\ DatasetTypes' /\ RepoMoves(g, p) /\ RuntimeMoves(g, p) /\ BoundMoves(g, p)
      /\ Loaded(g, p)' <=> Loaded(g, p)
  BY <1>2, DatasetKept, NothingMoves
<1>4. CallMoves(g, t, p) /\ call'[g][t] = NoCall
  BY <1>1, <1>2, ReturnMoves
<1>5. CASE call[g][t].reuse /\ session[g][p].state \in {"none", "unloading"}
  <2>1. Release(g, p) /\ ReliableRedis /\ session' = session
    BY <1>1, <1>5 DEF ActivateCommit
  <2> QED
    BY <1>1, <1>2, <1>3, <1>4, <1>5, <2>1, NothingMoves DEF Confined
<1>6. CASE ~(call[g][t].reuse /\ session[g][p].state \in {"none", "unloading"})
  <2>1. SetSession(g, p, Online(call[g][t].gate)) /\ UNCHANGED leaseVars
    BY <1>1, <1>6 DEF ActivateCommit
  <2>2. /\ Online(call[g][t].gate) \in PlayerSessionRecord
        /\ Online(call[g][t].gate).state = "online"
    BY <1>1, CallFacts, RecordTypes DEF Busy
  <2>3. SessionMoves(g, p) /\ session'[g][p] = Online(call[g][t].gate)
    BY <2>1, <2>2, SessionSet
  <2> QED
    BY <1>1, <1>2, <1>3, <1>4, <1>6, <2>1, <2>2, <2>3 DEF Confined
<1> QED
  BY <1>5, <1>6

LEMMA RollbackLeaseFacts ==
    ASSUME GameTypes, NEW g \in Games, NEW t \in Threads, ActivateRollbackLease(g, t)
    PROVE  \E p \in Players, from \in {"rollbackLoad", "rollbackUnbound", "rollbackLease"} :
              /\ Busy(g, t, p, from) /\ Confined(g, t, p) /\ DatasetTypes'
              /\ UNCHANGED <<repoVars, session, runtime, bound>>
              /\ Loaded(g, p)' <=> Loaded(g, p)
              /\ Release(g, p) /\ ReliableRedis
              /\ \/ call'[g][t] = NoCall
                 \/ GoesTo(g, t, p, "rollbackBind")
                 \/ ~call[g][t].reuse /\ GoesTo(g, t, p, "rollbackRecord")
<1>1. /\ UNCHANGED <<repoVars, session, runtime, bound>> /\ UNCHANGED <<repo, row, hot, nextUpdate>>
      /\ Release(g, Player(g, t)) /\ ReliableRedis
  BY DEF ActivateRollbackLease, repoVars, sessionVars
<1>2. \A p \in Players :
         /\ DatasetTypes' /\ RepoMoves(g, p) /\ RuntimeMoves(g, p) /\ SessionMoves(g, p)
         /\ BoundMoves(g, p) /\ (Loaded(g, p)' <=> Loaded(g, p))
  BY <1>1, DatasetKept, NothingMoves
<1>3. "rollbackBind" \in Steps /\ "rollbackRecord" \in Steps
  BY DEF Steps, ActivateSteps
<1>4. CASE At(g, t, "rollbackLoad") /\ Return(g, t)
  <2>1. PICK p \in Players : p = Player(g, t) /\ Busy(g, t, p, "rollbackLoad")
    BY <1>4, AtBusy
  <2>2. CallMoves(g, t, p) /\ call'[g][t] = NoCall
    BY <1>4, <2>1, ReturnMoves
  <2> QED
    BY <1>1, <1>2, <2>1, <2>2 DEF Confined
<1>5. CASE At(g, t, "rollbackUnbound") /\ call[g][t].reuse /\ Return(g, t)
  <2>1. PICK p \in Players : p = Player(g, t) /\ Busy(g, t, p, "rollbackUnbound")
    BY <1>5, AtBusy
  <2>2. CallMoves(g, t, p) /\ call'[g][t] = NoCall
    BY <1>5, <2>1, ReturnMoves
  <2> QED
    BY <1>1, <1>2, <2>1, <2>2 DEF Confined
<1>6. CASE At(g, t, "rollbackUnbound") /\ ~call[g][t].reuse /\ Goto(g, t, "rollbackRecord")
  <2>1. PICK p \in Players : p = Player(g, t) /\ Busy(g, t, p, "rollbackUnbound")
    BY <1>6, AtBusy
  <2>2. CallMoves(g, t, p) /\ GoesTo(g, t, p, "rollbackRecord")
    BY <1>3, <1>6, <2>1, GotoMoves
  <2> QED
    BY <1>1, <1>2, <1>6, <2>1, <2>2 DEF Confined
<1>7. CASE At(g, t, "rollbackLease") /\ Goto(g, t, "rollbackBind")
  <2>1. PICK p \in Players : p = Player(g, t) /\ Busy(g, t, p, "rollbackLease")
    BY <1>7, AtBusy
  <2>2. CallMoves(g, t, p) /\ GoesTo(g, t, p, "rollbackBind")
    BY <1>3, <1>7, <2>1, GotoMoves
  <2> QED
    BY <1>1, <1>2, <2>1, <2>2 DEF Confined
<1> QED
  BY <1>4, <1>5, <1>6, <1>7 DEF ActivateRollbackLease

\* UnbindLocalPlayer sets an owner.
LEMMA UnbindFacts ==
    ASSUME GameTypes, NEW g \in Games, NEW p \in Players, UnbindLocalPlayer(g, p)
    PROVE  BoundMoves(g, p) /\ bound'[g][p] \in {"nobody", bound[g][p]}
<1> DEFINE o == IF bound[g][p] = "self" THEN "nobody" ELSE bound[g][p]
<1>1. o \in Owners /\ SetOwner(g, p, o) /\ o \in {"nobody", bound[g][p]}
  BY TypeFacts DEF Owners, UnbindLocalPlayer
<1> HIDE DEF o
<1> QED
  BY <1>1, OwnerSet

LEMMA RollbackBindFacts ==
    ASSUME GameTypes, NEW g \in Games, NEW t \in Threads, ActivateRollbackBind(g, t)
    PROVE  \E p \in Players :
              /\ Busy(g, t, p, "rollbackBind") /\ Confined(g, t, p) /\ DatasetTypes'
              /\ UNCHANGED <<leaseVars, repoVars, session, runtime>>
              /\ Loaded(g, p)' <=> Loaded(g, p)
              /\ \/ call'[g][t] = NoCall
                 \/ ~call[g][t].reuse /\ GoesTo(g, t, p, "rollbackRecord")
<1>1. PICK p \in Players : p = Player(g, t) /\ Busy(g, t, p, "rollbackBind")
  BY AtBusy DEF ActivateRollbackBind
<1>2. UNCHANGED <<leaseVars, repoVars, session, runtime>> /\ UNCHANGED <<repo, row, hot, nextUpdate>>
  BY DEF ActivateRollbackBind, repoVars
<1>3. /\ DatasetTypes' /\ RepoMoves(g, p) /\ RuntimeMoves(g, p) /\ SessionMoves(g, p)
      /\ Loaded(g, p)' <=> Loaded(g, p)
  BY <1>2, DatasetKept, NothingMoves
<1>4. BoundMoves(g, p)
  BY <1>1, UnbindFacts DEF ActivateRollbackBind
<1>5. "rollbackRecord" \in Steps
  BY DEF Steps, ActivateSteps
<1>6. CASE call[g][t].reuse
  <2>1. CallMoves(g, t, p) /\ call'[g][t] = NoCall
    BY <1>1, <1>6, ReturnMoves DEF ActivateRollbackBind
  <2> QED
    BY <1>1, <1>2, <1>3, <1>4, <2>1 DEF Confined
<1>7. CASE ~call[g][t].reuse
  <2>1. CallMoves(g, t, p) /\ GoesTo(g, t, p, "rollbackRecord")
    BY <1>1, <1>5, <1>7, GotoMoves DEF ActivateRollbackBind
  <2> QED
    BY <1>1, <1>2, <1>3, <1>4, <1>7, <2>1 DEF Confined
<1> QED
  BY <1>6, <1>7

LEMMA RollbackRecordFacts ==
    ASSUME GameTypes, NEW g \in Games, NEW t \in Threads, ActivateRollbackRecord(g, t)
    PROVE  \E p \in Players :
              /\ Busy(g, t, p, "rollbackRecord") /\ Confined(g, t, p) /\ DatasetTypes'
              /\ UNCHANGED <<leaseVars, session, runtime, bound>> /\ ReleaseRecord(g, p)
              /\ ~Loaded(g, p)' /\ call'[g][t] = NoCall
<1>1. PICK p \in Players : p = Player(g, t) /\ Busy(g, t, p, "rollbackRecord")
  BY AtBusy DEF ActivateRollbackRecord
<1>2. UNCHANGED <<leaseVars, session, runtime, bound>> /\ ReleaseRecord(g, p) /\ Return(g, t)
  BY <1>1 DEF ActivateRollbackRecord, sessionVars
<1>3. DatasetTypes' /\ RepoMoves(g, p) /\ ~Loaded(g, p)'
  BY <1>2, DropFacts
<1>4. RuntimeMoves(g, p) /\ SessionMoves(g, p) /\ BoundMoves(g, p)
  BY <1>2, NothingMoves
<1>5. CallMoves(g, t, p) /\ call'[g][t] = NoCall
  BY <1>1, <1>2, ReturnMoves
<1> QED
  BY <1>1, <1>2, <1>3, <1>4, <1>5 DEF Confined
-----------------------------------------------------------------------------
(* What the other steps do.                                                *)

\* A thread takes up an operation and does nothing else yet.
LEMMA EnterOnly ==
    ASSUME GameTypes, NEW g \in Games, NEW t \in Threads, NEW p \in Players, NEW pc \in Steps,
           Idle(g, t), Enter(g, t, pc, p, 0, FALSE), UNCHANGED <<leaseVars, repoVars, sessionVars>>
    PROVE  /\ Confined(g, t, p) /\ DatasetTypes' /\ Begins(g, t, p, pc, FALSE)
           /\ UNCHANGED <<leaseVars, repoVars, session, runtime, bound>> /\ (Loaded(g, p)' <=> Loaded(g, p))
<1>1. /\ UNCHANGED <<leaseVars, repoVars, session, runtime, bound>>
      /\ UNCHANGED <<repo, row, hot, nextUpdate>>
  BY DEF repoVars, sessionVars
<1>2. /\ DatasetTypes' /\ RepoMoves(g, p) /\ RuntimeMoves(g, p) /\ SessionMoves(g, p)
      /\ BoundMoves(g, p) /\ (Loaded(g, p)' <=> Loaded(g, p))
  BY <1>1, DatasetKept, NothingMoves
<1>3. CallMoves(g, t, p) /\ Begins(g, t, p, pc, FALSE)
  <2>1. 0 \in GateSessions \cup {0} /\ FALSE \in BOOLEAN
    OBVIOUS
  <2> QED
    BY <2>1, EnterMoves
<1> QED
  BY <1>1, <1>2, <1>3 DEF Confined

\* A thread goes on, or comes to an end, and does nothing else.
LEMMA GoOnly ==
    ASSUME GameTypes, NEW g \in Games, NEW t \in Threads, NEW p \in Players, NEW from, Busy(g, t, p, from),
           NEW pc \in Steps, Goto(g, t, pc) \/ Return(g, t), UNCHANGED <<leaseVars, repoVars, sessionVars>>
    PROVE  /\ Confined(g, t, p) /\ DatasetTypes'
           /\ Goto(g, t, pc) => GoesTo(g, t, p, pc)
           /\ GoesTo(g, t, p, pc) \/ call'[g][t] = NoCall
           /\ UNCHANGED <<leaseVars, repoVars, session, runtime, bound>> /\ (Loaded(g, p)' <=> Loaded(g, p))
<1>1. /\ UNCHANGED <<leaseVars, repoVars, session, runtime, bound>>
      /\ UNCHANGED <<repo, row, hot, nextUpdate>>
  BY DEF repoVars, sessionVars
<1>2. /\ DatasetTypes' /\ RepoMoves(g, p) /\ RuntimeMoves(g, p) /\ SessionMoves(g, p)
      /\ BoundMoves(g, p) /\ (Loaded(g, p)' <=> Loaded(g, p))
  BY <1>1, DatasetKept, NothingMoves
<1>3. Goto(g, t, pc) => CallMoves(g, t, p) /\ GoesTo(g, t, p, pc)
  BY GotoMoves
<1>4. Return(g, t) => CallMoves(g, t, p) /\ call'[g][t] = NoCall
  BY ReturnMoves
<1> QED
  BY <1>1, <1>2, <1>3, <1>4 DEF Confined

\* DetachMatching and DetachPlayer.
LEMMA DetachFacts ==
    ASSUME GameTypes, NEW g \in Games, NEW t \in Threads, NEW p \in Players, Idle(g, t),
           SetSession(g, p, Detached), UNCHANGED <<leaseVars, repoVars, runtime, bound, call>>
    PROVE  /\ Confined(g, t, p) /\ DatasetTypes' /\ call[g][t] = NoCall /\ call'[g][t] = NoCall
           /\ session'[g][p].state = "detached" /\ (Loaded(g, p)' <=> Loaded(g, p))
<1>1. UNCHANGED <<repo, row, hot, nextUpdate>>
  BY DEF repoVars
<1>2. /\ DatasetTypes' /\ RepoMoves(g, p) /\ RuntimeMoves(g, p) /\ BoundMoves(g, p)
      /\ Loaded(g, p)' <=> Loaded(g, p)
  BY <1>1, DatasetKept, NothingMoves
<1>3. SessionMoves(g, p) /\ session'[g][p].state = "detached"
  BY RecordTypes, SessionSet
<1>4. CallMoves(g, t, p) /\ call[g][t] = NoCall /\ call'[g][t] = NoCall
  BY IdleMoves
<1> QED
  BY <1>2, <1>3, <1>4 DEF Confined

LEMMA UnloadingFacts ==
    ASSUME GameTypes, NEW g \in Games, NEW p \in Players, StartUnloading(g, p),
           call[g]["console"] # NoCall => call[g]["console"].player = p,
           UNCHANGED <<leaseVars, repoVars, runtime, bound>>
    PROVE  /\ Confined(g, "console", p) /\ DatasetTypes' /\ (Loaded(g, p)' <=> Loaded(g, p))
           /\ session[g][p].state # "none" /\ session'[g][p].state = "unloading"
           /\ call'[g]["console"] \in Call /\ call'[g]["console"] # NoCall
           /\ call'[g]["console"].pc = "check" /\ call'[g]["console"].player = p
           /\ call'[g]["console"].prev = session[g][p] /\ ~call'[g]["console"].reuse
<1> DEFINE r == [session[g][p] EXCEPT !.state = "unloading"]
           c == [pc |-> "check", player |-> p, gate |-> 0, reuse |-> FALSE, prev |-> session[g][p]]
<1>1. session[g][p] \in PlayerSessionRecord /\ "console" \in Threads
  BY TypeFacts DEF Threads
<1>2. r \in PlayerSessionRecord /\ r.state = "unloading"
  BY <1>1 DEF PlayerSessionRecord
<1>3. c \in Call /\ c.pc = "check" /\ c.player = p /\ c.prev = session[g][p] /\ ~c.reuse
  BY <1>1 DEF Call, ReleaseSteps
<1>4. /\ session' = [session EXCEPT ![g][p] = r] /\ call' = [call EXCEPT ![g]["console"] = c]
      /\ session[g][p].state # "none"
  BY DEF StartUnloading
<1> HIDE DEF r, c
<1>5. session'[g][p] = r /\ SessionMoves(g, p)
  <2>1. session'[g][p] = r
    BY <1>2, <1>4, PairReplaced DEF GameTypes
  <2> QED
    BY <1>2, <1>4, <2>1 DEF SessionMoves
<1>6. c \in Call \cup {NoCall} /\ c # NoCall
  BY <1>3, CallFacts
<1>7. CallMoves(g, "console", p) /\ call'[g]["console"] = c
  <2>1. call'[g]["console"] = c
    BY <1>1, <1>4, <1>6, PairReplaced DEF GameTypes
  <2> QED
    BY <1>3, <1>4, <1>6, <2>1 DEF CallMoves
<1>8. UNCHANGED <<repo, row, hot, nextUpdate>>
  BY DEF repoVars
<1>9. /\ DatasetTypes' /\ RepoMoves(g, p) /\ RuntimeMoves(g, p) /\ BoundMoves(g, p)
      /\ Loaded(g, p)' <=> Loaded(g, p)
  BY <1>8, DatasetKept, NothingMoves
<1> QED
  BY <1>2, <1>3, <1>4, <1>5, <1>6, <1>7, <1>9 DEF Confined

LEMMA ReleaseCheckFacts ==
    ASSUME GameTypes, NEW g \in Games, ReleaseCheck(g)
    PROVE  \E p \in Players :
              /\ Busy(g, "console", p, "check") /\ Confined(g, "console", p) /\ DatasetTypes'
              /\ UNCHANGED <<leaseVars, repoVars, session, runtime, bound>>
              /\ Loaded(g, p)' <=> Loaded(g, p)
              /\ \/ GoesTo(g, "console", p, "flush")
                 \/ ~Dirty(g, p) /\ GoesTo(g, "console", p, "unbind")
<1>0. "console" \in Threads /\ "flush" \in Steps /\ "unbind" \in Steps
  BY DEF Threads, Steps, ReleaseSteps
<1>1. PICK p \in Players : p = Player(g, "console") /\ Busy(g, "console", p, "check")
  BY <1>0, AtBusy DEF ReleaseCheck
<1>2. CASE Dirty(g, p)
  <2>1. Goto(g, "console", "flush") /\ UNCHANGED <<leaseVars, repoVars, sessionVars>>
    BY <1>1, <1>2 DEF ReleaseCheck
  <2> QED
    BY <1>0, <1>1, <2>1, GoOnly
<1>3. CASE ~Dirty(g, p)
  <2>1. Goto(g, "console", "unbind") /\ UNCHANGED <<leaseVars, repoVars, sessionVars>>
    BY <1>1, <1>3 DEF ReleaseCheck
  <2> QED
    BY <1>0, <1>1, <1>3, <2>1, GoOnly
<1> QED
  BY <1>2, <1>3

LEMMA ReleaseFlushFacts ==
    ASSUME GameTypes, NEW g \in Games, ReleaseFlush(g)
    PROVE  \E p \in Players :
              /\ Busy(g, "console", p, "flush") /\ Confined(g, "console", p) /\ DatasetTypes'
              /\ UNCHANGED <<leaseVars, session, runtime, bound>>
              /\ Loaded(g, p)' <=> Loaded(g, p)
              /\ \/ FlushPlayer(g, p, TRUE) /\ GoesTo(g, "console", p, "unbind")
                 \/ FlushPlayer(g, p, FALSE) /\ GoesTo(g, "console", p, "restore")
<1>0. "console" \in Threads /\ "restore" \in Steps /\ "unbind" \in Steps
  BY DEF Threads, Steps, ReleaseSteps
<1>1. PICK p \in Players : p = Player(g, "console") /\ Busy(g, "console", p, "flush")
  BY <1>0, AtBusy DEF ReleaseFlush
<1>2. UNCHANGED <<leaseVars, session, runtime, bound>>
  BY DEF ReleaseFlush, sessionVars
<1>3. RuntimeMoves(g, p) /\ SessionMoves(g, p) /\ BoundMoves(g, p)
  BY <1>2, NothingMoves
<1>4. \A ok \in BOOLEAN : FlushPlayer(g, p, ok) =>
         DatasetTypes' /\ RepoMoves(g, p) /\ (Loaded(g, p)' <=> Loaded(g, p))
  BY FlushFacts
<1>5. CASE FlushPlayer(g, p, TRUE) /\ Goto(g, "console", "unbind")
  <2>1. CallMoves(g, "console", p) /\ GoesTo(g, "console", p, "unbind")
    BY <1>0, <1>1, <1>5, GotoMoves
  <2> QED
    BY <1>1, <1>2, <1>3, <1>4, <1>5, <2>1 DEF Confined
<1>6. CASE FlushPlayer(g, p, FALSE) /\ Goto(g, "console", "restore")
  <2>1. CallMoves(g, "console", p) /\ GoesTo(g, "console", p, "restore")
    BY <1>0, <1>1, <1>6, GotoMoves
  <2> QED
    BY <1>1, <1>2, <1>3, <1>4, <1>6, <2>1 DEF Confined
<1> QED
  BY <1>1, <1>5, <1>6 DEF ReleaseFlush

LEMMA ReleaseRestoreFacts ==
    ASSUME GameTypes, NEW g \in Games, ReleaseRestore(g)
    PROVE  \E p \in Players :
              /\ Busy(g, "console", p, "restore") /\ Confined(g, "console", p) /\ DatasetTypes'
              /\ UNCHANGED <<leaseVars, repoVars, runtime, bound>> /\ call'[g]["console"] = NoCall
              /\ Loaded(g, p)' <=> Loaded(g, p)
              /\ \/ session[g][p].state = "none" /\ session' = session
                 \/ session[g][p].state # "none" /\ session'[g][p] = call[g]["console"].prev
<1>0. "console" \in Threads
  BY DEF Threads
<1>1. PICK p \in Players : p = Player(g, "console") /\ Busy(g, "console", p, "restore")
  BY <1>0, AtBusy DEF ReleaseRestore
<1>2. UNCHANGED <<leaseVars, repoVars, runtime, bound>> /\ UNCHANGED <<repo, row, hot, nextUpdate>>
  BY DEF ReleaseRestore, repoVars
<1>3. /\ DatasetTypes' /\ RepoMoves(g, p) /\ RuntimeMoves(g, p) /\ BoundMoves(g, p)
      /\ Loaded(g, p)' <=> Loaded(g, p)
  BY <1>2, DatasetKept, NothingMoves
<1>4. CallMoves(g, "console", p) /\ call'[g]["console"] = NoCall
  BY <1>0, <1>1, ReturnMoves DEF ReleaseRestore
<1>5. CASE session[g][p].state = "none"
  <2>1. session' = session
    BY <1>1, <1>5 DEF ReleaseRestore
  <2> QED
    BY <1>1, <1>2, <1>3, <1>4, <1>5, <2>1, NothingMoves DEF Confined
<1>6. CASE session[g][p].state # "none"
  <2>1. SetSession(g, p, call[g]["console"].prev)
    BY <1>1, <1>6 DEF ReleaseRestore
  <2>2. call[g]["console"].prev \in PlayerSessionRecord
    BY <1>1, CallFacts DEF Busy
  <2>3. SessionMoves(g, p) /\ session'[g][p] = call[g]["console"].prev
    BY <2>1, <2>2, SessionSet
  <2> QED
    BY <1>1, <1>2, <1>3, <1>4, <1>6, <2>3 DEF Confined
<1> QED
  BY <1>5, <1>6
LEMMA ReleaseUnbindFacts ==
    ASSUME GameTypes, NEW g \in Games, ReleaseUnbind(g)
    PROVE  \E p \in Players :
              /\ Busy(g, "console", p, "unbind") /\ Confined(g, "console", p) /\ DatasetTypes'
              /\ UNCHANGED <<leaseVars, repoVars, session, runtime>>
              /\ Loaded(g, p)' <=> Loaded(g, p)
              /\ bound'[g][p] \in {"nobody", bound[g][p]}
              /\ \/ GoesTo(g, "console", p, "remove")
                 \/ bound[g][p] # "self" /\ call'[g]["console"] = NoCall
<1>0. "console" \in Threads /\ "remove" \in Steps
  BY DEF Threads, Steps, ReleaseSteps
<1>1. PICK p \in Players : p = Player(g, "console") /\ Busy(g, "console", p, "unbind")
  BY <1>0, AtBusy DEF ReleaseUnbind
<1>2. UNCHANGED <<leaseVars, repoVars, session, runtime>> /\ UNCHANGED <<repo, row, hot, nextUpdate>>
  BY DEF ReleaseUnbind, repoVars
<1>3. /\ DatasetTypes' /\ RepoMoves(g, p) /\ RuntimeMoves(g, p) /\ SessionMoves(g, p)
      /\ Loaded(g, p)' <=> Loaded(g, p)
  BY <1>2, DatasetKept, NothingMoves
<1>4. BoundMoves(g, p) /\ bound'[g][p] \in {"nobody", bound[g][p]}
  BY <1>1, UnbindFacts DEF ReleaseUnbind
<1>5. CASE bound[g][p] = "self"
  <2>1. CallMoves(g, "console", p) /\ GoesTo(g, "console", p, "remove")
    BY <1>0, <1>1, <1>5, GotoMoves DEF ReleaseUnbind
  <2> QED
    BY <1>1, <1>2, <1>3, <1>4, <2>1 DEF Confined
<1>6. CASE bound[g][p] # "self"
  <2>1. CallMoves(g, "console", p) /\ call'[g]["console"] = NoCall
    BY <1>0, <1>1, <1>6, ReturnMoves DEF ReleaseUnbind
  <2> QED
    BY <1>1, <1>2, <1>3, <1>4, <1>6, <2>1 DEF Confined
<1> QED
  BY <1>5, <1>6

LEMMA ReleaseRemoveFacts ==
    ASSUME GameTypes, NEW g \in Games, ReleaseRemove(g)
    PROVE  \E p \in Players :
              /\ Busy(g, "console", p, "remove") /\ Confined(g, "console", p) /\ DatasetTypes'
              /\ UNCHANGED <<leaseVars, repoVars, session, bound>>
              /\ Loaded(g, p)' <=> Loaded(g, p)
              /\ GoesTo(g, "console", p, "drop")
<1>0. "console" \in Threads /\ "drop" \in Steps
  BY DEF Threads, Steps, ReleaseSteps
<1>1. PICK p \in Players : p = Player(g, "console") /\ Busy(g, "console", p, "remove")
  BY <1>0, AtBusy DEF ReleaseRemove
<1>2. UNCHANGED <<leaseVars, repoVars, session, bound>> /\ UNCHANGED <<repo, row, hot, nextUpdate>>
  BY DEF ReleaseRemove, repoVars
<1>3. /\ DatasetTypes' /\ RepoMoves(g, p) /\ SessionMoves(g, p) /\ BoundMoves(g, p)
      /\ Loaded(g, p)' <=> Loaded(g, p)
  BY <1>2, DatasetKept, NothingMoves
<1>4. RuntimeMoves(g, p)
  BY <1>1 DEF ReleaseRemove, RuntimeMoves
<1>5. CallMoves(g, "console", p) /\ GoesTo(g, "console", p, "drop")
  BY <1>0, <1>1, GotoMoves DEF ReleaseRemove
<1> QED
  BY <1>1, <1>2, <1>3, <1>4, <1>5 DEF Confined

LEMMA ReleaseDropFacts ==
    ASSUME GameTypes, NEW g \in Games, ReleaseDrop(g)
    PROVE  \E p \in Players :
              /\ Busy(g, "console", p, "drop") /\ Confined(g, "console", p) /\ DatasetTypes'
              /\ UNCHANGED <<leaseVars, session, runtime, bound>> /\ ReleaseRecord(g, p)
              /\ ~Loaded(g, p)'
              /\ \/ GoesTo(g, "console", p, "release")
                 \/ ~Present(g, p) /\ call'[g]["console"] = NoCall
<1>0. "console" \in Threads /\ "release" \in Steps
  BY DEF Threads, Steps, ReleaseSteps
<1>1. PICK p \in Players : p = Player(g, "console") /\ Busy(g, "console", p, "drop")
  BY <1>0, AtBusy DEF ReleaseDrop
<1>2. UNCHANGED <<leaseVars, session, runtime, bound>> /\ ReleaseRecord(g, p)
  BY <1>1 DEF ReleaseDrop, sessionVars
<1>3. RuntimeMoves(g, p) /\ SessionMoves(g, p) /\ BoundMoves(g, p)
  BY <1>2, NothingMoves
<1>4. DatasetTypes' /\ RepoMoves(g, p) /\ ~Loaded(g, p)'
  BY <1>2, DropFacts
<1>5. CASE Present(g, p)
  <2>1. CallMoves(g, "console", p) /\ GoesTo(g, "console", p, "release")
    BY <1>0, <1>1, <1>5, GotoMoves DEF ReleaseDrop
  <2> QED
    BY <1>1, <1>2, <1>3, <1>4, <2>1 DEF Confined
<1>6. CASE ~Present(g, p)
  <2>1. CallMoves(g, "console", p) /\ call'[g]["console"] = NoCall
    BY <1>0, <1>1, <1>6, ReturnMoves DEF ReleaseDrop
  <2> QED
    BY <1>1, <1>2, <1>3, <1>4, <1>6, <2>1 DEF Confined
<1> QED
  BY <1>5, <1>6

LEMMA ReleaseLeaseFacts ==
    ASSUME GameTypes, NEW g \in Games, ReleaseLease(g)
    PROVE  \E p \in Players :
              /\ Busy(g, "console", p, "release") /\ Confined(g, "console", p) /\ DatasetTypes'
              /\ UNCHANGED <<repoVars, session, runtime, bound>>
              /\ Loaded(g, p)' <=> Loaded(g, p)
              /\ Release(g, p) /\ ReliableRedis /\ GoesTo(g, "console", p, "erase")
<1>0. "console" \in Threads /\ "erase" \in Steps
  BY DEF Threads, Steps, ReleaseSteps
<1>1. PICK p \in Players : p = Player(g, "console") /\ Busy(g, "console", p, "release")
  BY <1>0, AtBusy DEF ReleaseLease
<1>2. /\ UNCHANGED <<repoVars, session, runtime, bound>> /\ UNCHANGED <<repo, row, hot, nextUpdate>>
      /\ Release(g, p) /\ ReliableRedis
  BY <1>1 DEF ReleaseLease, repoVars, sessionVars
<1>3. /\ DatasetTypes' /\ RepoMoves(g, p) /\ RuntimeMoves(g, p) /\ SessionMoves(g, p) /\ BoundMoves(g, p)
      /\ Loaded(g, p)' <=> Loaded(g, p)
  BY <1>2, DatasetKept, NothingMoves
<1>4. CallMoves(g, "console", p) /\ GoesTo(g, "console", p, "erase")
  BY <1>0, <1>1, GotoMoves DEF ReleaseLease
<1> QED
  BY <1>1, <1>2, <1>3, <1>4 DEF Confined

LEMMA ReleaseEraseFacts ==
    ASSUME GameTypes, NEW g \in Games, ReleaseErase(g)
    PROVE  \E p \in Players :
              /\ Busy(g, "console", p, "erase") /\ Confined(g, "console", p) /\ DatasetTypes'
              /\ UNCHANGED <<leaseVars, repoVars, runtime, bound>>
              /\ Loaded(g, p)' <=> Loaded(g, p)
              /\ session'[g][p].state = "none" /\ call'[g]["console"] = NoCall
<1>0. "console" \in Threads
  BY DEF Threads
<1>1. PICK p \in Players : p = Player(g, "console") /\ Busy(g, "console", p, "erase")
  BY <1>0, AtBusy DEF ReleaseErase
<1>2. UNCHANGED <<leaseVars, repoVars, runtime, bound>> /\ UNCHANGED <<repo, row, hot, nextUpdate>>
  BY DEF ReleaseErase, repoVars
<1>3. /\ DatasetTypes' /\ RepoMoves(g, p) /\ RuntimeMoves(g, p) /\ BoundMoves(g, p)
      /\ Loaded(g, p)' <=> Loaded(g, p)
  BY <1>2, DatasetKept, NothingMoves
<1>4. SessionMoves(g, p) /\ session'[g][p].state = "none"
  BY <1>1, RecordTypes, SessionSet DEF ReleaseErase
<1>5. CallMoves(g, "console", p) /\ call'[g]["console"] = NoCall
  BY <1>0, <1>1, ReturnMoves DEF ReleaseErase
<1> QED
  BY <1>1, <1>2, <1>3, <1>4, <1>5 DEF Confined

LEMMA ReconcileUnbindFacts ==
    ASSUME GameTypes, NEW g \in Games, NEW t \in Threads, ReconcileUnbind(g, t)
    PROVE  \E p \in Players :
              /\ Busy(g, t, p, "reconcileUnbind") /\ Confined(g, t, p) /\ DatasetTypes'
              /\ UNCHANGED <<leaseVars, repoVars, session, runtime>>
              /\ Loaded(g, p)' <=> Loaded(g, p)
              /\ GoesTo(g, t, p, "reconcileCommit")
<1>0. "reconcileCommit" \in Steps
  BY DEF Steps, OtherSteps
<1>1. PICK p \in Players : p = Player(g, t) /\ Busy(g, t, p, "reconcileUnbind")
  BY AtBusy DEF ReconcileUnbind
<1>2. UNCHANGED <<leaseVars, repoVars, session, runtime>> /\ UNCHANGED <<repo, row, hot, nextUpdate>>
  BY DEF ReconcileUnbind, repoVars
<1>3. /\ DatasetTypes' /\ RepoMoves(g, p) /\ RuntimeMoves(g, p) /\ SessionMoves(g, p)
      /\ Loaded(g, p)' <=> Loaded(g, p)
  BY <1>2, DatasetKept, NothingMoves
<1>4. BoundMoves(g, p)
  BY <1>1, UnbindFacts DEF ReconcileUnbind
<1>5. CallMoves(g, t, p) /\ GoesTo(g, t, p, "reconcileCommit")
  BY <1>0, <1>1, GotoMoves DEF ReconcileUnbind
<1> QED
  BY <1>1, <1>2, <1>3, <1>4, <1>5 DEF Confined

LEMMA ReconcileCommitFacts ==
    ASSUME GameTypes, NEW g \in Games, NEW t \in Threads, ReconcileCommit(g, t)
    PROVE  \E p \in Players :
              /\ Busy(g, t, p, "reconcileCommit") /\ Confined(g, t, p) /\ DatasetTypes'
              /\ UNCHANGED <<leaseVars, repoVars, runtime, bound>>
              /\ Loaded(g, p)' <=> Loaded(g, p)
              /\ call'[g][t] = NoCall
              /\ \/ session' = session
                 \/ session[g][p].state = "online" /\ session'[g][p].state = "detached"
<1>1. PICK p \in Players : p = Player(g, t) /\ Busy(g, t, p, "reconcileCommit")
  BY AtBusy DEF ReconcileCommit
<1>2. UNCHANGED <<leaseVars, repoVars, runtime, bound>> /\ UNCHANGED <<repo, row, hot, nextUpdate>>
  BY DEF ReconcileCommit, repoVars
<1>3. /\ DatasetTypes' /\ RepoMoves(g, p) /\ RuntimeMoves(g, p) /\ BoundMoves(g, p)
      /\ Loaded(g, p)' <=> Loaded(g, p)
  BY <1>2, DatasetKept, NothingMoves
<1>4. CallMoves(g, t, p) /\ call'[g][t] = NoCall
  BY <1>1, ReturnMoves DEF ReconcileCommit
<1>5. CASE session[g][p].state = "online" /\ SetSession(g, p, Detached)
  <2>1. SessionMoves(g, p) /\ session'[g][p].state = "detached"
    BY <1>5, RecordTypes, SessionSet
  <2> QED
    BY <1>1, <1>2, <1>3, <1>4, <1>5, <2>1 DEF Confined
<1>6. CASE session' = session
  BY <1>1, <1>2, <1>3, <1>4, <1>6, NothingMoves DEF Confined
<1> QED
  BY <1>1, <1>5, <1>6 DEF ReconcileCommit
\* What happens to data that a game has: it is changed, or written, or left alone.
DataMoves(g, p) ==
    UpdateData(g, p) \/ (\E ok \in BOOLEAN : FlushPlayer(g, p, ok)) \/ UNCHANGED repoVars

LEMMA DataMovesFacts ==
    ASSUME GameTypes, NEW g \in Games, NEW p \in Players, DataMoves(g, p)
    PROVE  DatasetTypes' /\ RepoMoves(g, p) /\ (Loaded(g, p)' <=> Loaded(g, p))
<1>1. CASE UNCHANGED repoVars
  BY <1>1, DatasetKept, NothingMoves DEF repoVars
<1> QED
  BY <1>1, UpdateFacts, FlushFacts DEF DataMoves

\* MessageApply and PersistFlush, at their last step.
LEMMA WorkFacts ==
    ASSUME GameTypes, NEW g \in Games, NEW t \in Threads, NEW p \in Players, NEW pc, Busy(g, t, p, pc),
           DataMoves(g, p), Return(g, t), UNCHANGED <<leaseVars, sessionVars>>
    PROVE  /\ Confined(g, t, p) /\ DatasetTypes' /\ (Loaded(g, p)' <=> Loaded(g, p))
           /\ UNCHANGED <<leaseVars, session, runtime, bound>> /\ call'[g][t] = NoCall
<1>1. UNCHANGED <<leaseVars, session, runtime, bound>>
  BY DEF sessionVars
<1>2. RuntimeMoves(g, p) /\ SessionMoves(g, p) /\ BoundMoves(g, p)
  BY <1>1, NothingMoves
<1>3. CallMoves(g, t, p) /\ call'[g][t] = NoCall
  BY ReturnMoves
<1> QED
  BY <1>1, <1>2, <1>3, DataMovesFacts DEF Confined

\* FlushCommand and UpdateCommand.
LEMMA CommandFacts ==
    ASSUME GameTypes, NEW g \in Games, NEW p \in Players, Idle(g, "console"),
           DataMoves(g, p), UNCHANGED <<leaseVars, sessionVars, call>>
    PROVE  /\ Confined(g, "console", p) /\ DatasetTypes' /\ (Loaded(g, p)' <=> Loaded(g, p))
           /\ UNCHANGED <<leaseVars, session, runtime, bound>>
           /\ call[g]["console"] = NoCall /\ call'[g]["console"] = NoCall
<1>1. UNCHANGED <<leaseVars, session, runtime, bound>> /\ call' = call /\ "console" \in Threads
  BY DEF sessionVars, Threads
<1>2. RuntimeMoves(g, p) /\ SessionMoves(g, p) /\ BoundMoves(g, p)
  BY <1>1, NothingMoves
<1>3. CallMoves(g, "console", p) /\ call[g]["console"] = NoCall /\ call'[g]["console"] = NoCall
  BY <1>1, IdleMoves
<1> QED
  BY <1>1, <1>2, <1>3, DataMovesFacts DEF Confined

LEMMA BindCommandFacts ==
    ASSUME GameTypes, NEW g \in Games, NEW p \in Players, BindCommand(g, p)
    PROVE  /\ Confined(g, "console", p) /\ DatasetTypes' /\ (Loaded(g, p)' <=> Loaded(g, p))
           /\ UNCHANGED <<leaseVars, repoVars, session, runtime>> /\ bound[g][p] = "nobody"
           /\ bound'[g][p] = "self" \/ (bound'[g][p] = "other" /\ "bindRemote" \in Commands)
           /\ call[g]["console"] = NoCall /\ call'[g]["console"] = NoCall
<1>1. /\ UNCHANGED <<leaseVars, repoVars, session, runtime>> /\ call' = call /\ "console" \in Threads
      /\ bound[g][p] = "nobody" /\ Idle(g, "console") /\ UNCHANGED <<repo, row, hot, nextUpdate>>
  BY DEF BindCommand, Threads, repoVars
<1>2. /\ DatasetTypes' /\ RepoMoves(g, p) /\ RuntimeMoves(g, p) /\ SessionMoves(g, p)
      /\ Loaded(g, p)' <=> Loaded(g, p)
  BY <1>1, DatasetKept, NothingMoves
<1>3. CallMoves(g, "console", p) /\ call[g]["console"] = NoCall /\ call'[g]["console"] = NoCall
  BY <1>1, IdleMoves
<1>4. "self" \in Owners /\ "other" \in Owners
  BY DEF Owners
<1>5. /\ BoundMoves(g, p)
      /\ bound'[g][p] = "self" \/ (bound'[g][p] = "other" /\ "bindRemote" \in Commands)
  BY <1>4, OwnerSet DEF BindCommand
<1> QED
  BY <1>1, <1>2, <1>3, <1>5 DEF Confined

\* A game that loses its memory.
LEMMA ForgetFacts ==
    ASSUME GameTypes, NEW g \in Games, Forget(g)
    PROVE  /\ GameTypes' /\ UNCHANGED <<row, hot, nextUpdate>>
           /\ \A p \in Players : /\ session'[g][p].state = "none" /\ repo'[g][p] = Absent
                                 /\ bound'[g][p] = "nobody"
           /\ runtime'[g] = {}
           /\ \A t \in Threads : call'[g][t] = NoCall
           /\ \A k \in Games : k # g => /\ session'[k] = session[k] /\ repo'[k] = repo[k]
                                        /\ bound'[k] = bound[k] /\ runtime'[k] = runtime[k]
                                        /\ call'[k] = call[k]
<1>1. /\ session' \in [Games -> [Players -> PlayerSessionRecord]]
      /\ \A p \in Players : session'[g][p].state = "none"
      /\ \A k \in Games : k # g => session'[k] = session[k]
  BY RecordTypes DEF Forget, GameTypes
<1>2. /\ repo' \in [Games -> [Players -> PlayerRepositoryRecord \cup {Absent}]]
      /\ \A p \in Players : repo'[g][p] = Absent
      /\ \A k \in Games : k # g => repo'[k] = repo[k]
  BY DEF Forget, GameTypes, RepoTypeOK
<1>3. /\ bound' \in [Games -> [Players -> Owners]] /\ \A p \in Players : bound'[g][p] = "nobody"
      /\ \A k \in Games : k # g => bound'[k] = bound[k]
  BY DEF Forget, GameTypes, Owners
<1>4. /\ runtime' \in [Games -> SUBSET Players] /\ runtime'[g] = {}
      /\ \A k \in Games : k # g => runtime'[k] = runtime[k]
  BY DEF Forget, GameTypes
<1>5. /\ call' \in [Games -> [Threads -> Call \cup {NoCall}]] /\ \A t \in Threads : call'[g][t] = NoCall
      /\ \A k \in Games : k # g => call'[k] = call[k]
  BY DEF Forget, GameTypes
<1>6. UNCHANGED <<row, hot, nextUpdate>>
  BY DEF Forget
<1>7. GameTypes'
  BY <1>1, <1>2, <1>3, <1>4, <1>5, <1>6 DEF GameTypes, RepoTypeOK
<1> QED
  BY <1>1, <1>2, <1>3, <1>4, <1>5, <1>6, <1>7

-----------------------------------------------------------------------------
(* Sessions and data in memory: the steps.                                 *)

\* A call that has ended concerns nobody.
LEMMA NoCallFacts ==
    ASSUME NEW g, NEW p, NEW t
    PROVE  /\ ThreadOK(t, NoCall) /\ Neutral(NoCall, p)
           /\ ActivationOK(g, p, NoCall)' /\ ReleaseOK(g, p, NoCall)'
  BY DEF ThreadOK, Neutral, Doing, ActivationOK, ReleaseOK

LEMMA CheckMemory ==
    ASSUME MemoryInv, OneActivator, NEW g \in Games, NEW t \in Handlers, NEW p \in Players,
           NEW gate \in GateSessions, ActivateCheck(g, t, p, gate)
    PROVE  MemoryInv'
<1>0. t \in Threads /\ GameTypes /\ MemoryOK(g, p)
  BY DEF Threads, MemoryInv
<1>1. /\ Confined(g, t, p) /\ DatasetTypes' /\ call[g][t] = NoCall
      /\ UNCHANGED <<repoVars, runtime, bound>>
      /\ \/ /\ InServiceState(session[g][p].state)
            /\ session'[g][p].state = "online" /\ call'[g][t] = NoCall
         \/ /\ InServiceState(session[g][p].state)
            /\ session' = session /\ Begins(g, t, p, "acquire", TRUE)
         \/ /\ session[g][p].state = "none"
            /\ session' = session /\ Begins(g, t, p, "acquire", FALSE)
  BY <1>0, CheckFacts
<1>2. HasData(g, p)' <=> HasData(g, p)
  BY <1>1 DEF HasData, Loaded, Present, repoVars
<1>3. InServiceState(session'[g][p].state) => HasData(g, p)'
  BY <1>0, <1>1, <1>2 DEF MemoryOK, InServiceState
<1>4. ThreadOK(t, call'[g][t])
  BY <1>1, StepNames, NoCallFacts DEF ThreadOK, Begins, ActivateSteps
<1>5. ActivationOK(g, p, call[g][t])'
  BY <1>1, NoCallFacts DEF ActivationOK, Begins, Doing
<1>6. session[g][p].state # "unloading"
  BY <1>1 DEF InServiceState
<1> QED
  BY <1>0, <1>1, <1>3, <1>4, <1>5, <1>6, HandlerStep
LEMMA ActivatorFacts ==
    ASSUME MemoryInv, NEW g \in Games, NEW t \in Threads, NEW p \in Players, NEW pc \in ActivateSteps,
           Busy(g, t, p, pc)
    PROVE  /\ t \in Handlers /\ MemoryOK(g, p) /\ ActivationOK(g, p, call[g][t])
           /\ ThreadOK(t, call[g][t]) /\ call[g][t].reuse \in BOOLEAN
<1>1. t \in Handlers /\ ThreadOK(t, call[g][t])
  BY DEF MemoryInv, ThreadOK, Busy
<1> QED
  BY <1>1, CallFacts DEF MemoryInv, MemoryOK, Busy

\* A step of ActivatePlayer that leaves the session alone and drops no data.
LEMMA ActivateKeeps ==
    ASSUME MemoryInv, OneActivator, NEW g \in Games, NEW t \in Threads, NEW p \in Players,
           NEW from \in ActivateSteps, Busy(g, t, p, from), Confined(g, t, p), DatasetTypes',
           session' = session, Loaded(g, p) => Loaded(g, p)', p \in runtime[g] => p \in runtime'[g],
           \/ call'[g][t] = NoCall
           \/ \E to \in ActivateSteps : /\ GoesTo(g, t, p, to)
                                        /\ to \in {"emplace", "commit"} => Loaded(g, p)'
                                        /\ to = "commit" => p \in runtime'[g]
                                        /\ to = "rollbackRecord" => ~call[g][t].reuse
    PROVE  MemoryInv'
<1>1. /\ t \in Handlers /\ MemoryOK(g, p) /\ ActivationOK(g, p, call[g][t])
      /\ ThreadOK(t, call[g][t])
  BY ActivatorFacts
<1>2. ThreadOK(t, call'[g][t])
  BY <1>1, StepNames, NoCallFacts DEF ThreadOK, GoesTo
<1>3. ActivationOK(g, p, call[g][t])'
  BY <1>1, NoCallFacts DEF ActivationOK, GoesTo, Doing, Busy
<1>4. HasData(g, p) => HasData(g, p)'
  BY DEF HasData
<1>5. InServiceState(session'[g][p].state) => HasData(g, p)'
  BY <1>1, <1>4 DEF MemoryOK
<1> QED
  BY <1>1, <1>2, <1>3, <1>4, <1>5, HandlerStep

LEMMA CommitMemory ==
    ASSUME MemoryInv, OneActivator, NEW g \in Games, NEW t \in Threads, ActivateCommit(g, t)
    PROVE  MemoryInv'
<1>1. GameTypes
  BY DEF MemoryInv
<1>2. PICK p \in Players :
         /\ Busy(g, t, p, "commit") /\ Confined(g, t, p) /\ DatasetTypes'
         /\ UNCHANGED <<repoVars, runtime, bound>> /\ call'[g][t] = NoCall
         /\ Loaded(g, p)' <=> Loaded(g, p)
         /\ \/ session' = session
            \/ /\ ~(call[g][t].reuse /\ session[g][p].state \in {"none", "unloading"})
               /\ session'[g][p].state = "online"
  BY <1>1, CommitFacts
<1>3. /\ t \in Handlers /\ MemoryOK(g, p) /\ ActivationOK(g, p, call[g][t])
  BY <1>2, ActivatorFacts DEF ActivateSteps
<1>4. CASE session' = session
  BY <1>2, <1>4, ActivateKeeps DEF ActivateSteps
<1>5. CASE /\ ~(call[g][t].reuse /\ session[g][p].state \in {"none", "unloading"})
           /\ session'[g][p].state = "online"
  <2>1. HasData(g, p)
    <3>1. CASE call[g][t].reuse
      <4>1. session[g][p] \in PlayerSessionRecord
        BY <1>1, TypeFacts
      <4>2. InServiceState(session[g][p].state)
        BY <1>5, <3>1, <4>1, RecordTypes DEF InServiceState
      <4> QED
        BY <1>3, <4>2 DEF MemoryOK
    <3>2. CASE ~call[g][t].reuse
      BY <1>2, <1>3, <3>2 DEF ActivationOK, Doing, Busy, HasData, ActivateSteps
    <3> QED
      BY <3>1, <3>2
  <2>2. HasData(g, p)'
    BY <1>2, <2>1 DEF HasData
  <2>3. session[g][p].state # "unloading"
    BY <1>2, <1>3, <1>5 DEF ActivationOK, Doing, Busy, ActivateSteps
  <2> QED
    BY <1>2, <1>3, <2>2, <2>3, NoCallFacts, HandlerStep
<1> QED
  BY <1>2, <1>4, <1>5

LEMMA RollbackRecordMemory ==
    ASSUME MemoryInv, OneActivator, NEW g \in Games, NEW t \in Threads, ActivateRollbackRecord(g, t)
    PROVE  MemoryInv'
<1>1. GameTypes
  BY DEF MemoryInv
<1>2. PICK p \in Players :
         /\ Busy(g, t, p, "rollbackRecord") /\ Confined(g, t, p) /\ DatasetTypes'
         /\ session' = session /\ call'[g][t] = NoCall
  BY <1>1, RollbackRecordFacts
<1>3. /\ t \in Handlers /\ ActivationOK(g, p, call[g][t]) /\ ThreadOK(t, call[g][t])
  BY <1>2, ActivatorFacts DEF ActivateSteps
<1>4. session[g][p].state = "none"
  BY <1>2, <1>3 DEF ActivationOK, ThreadOK, Doing, Busy, ActivateSteps
<1> QED
  BY <1>2, <1>3, <1>4, NoCallFacts, HandlerStep DEF InServiceState

LEMMA ActivateMemory ==
    ASSUME MemoryInv, OneActivator, NEW g \in Games, NEW t \in Threads, ActivateStep(g, t)
    PROVE  MemoryInv'
<1>1. GameTypes
  BY DEF MemoryInv
<1>2. /\ "acquire" \in ActivateSteps /\ "load" \in ActivateSteps /\ "bind" \in ActivateSteps
      /\ "ensure" \in ActivateSteps /\ "emplace" \in ActivateSteps /\ "commit" \in ActivateSteps
      /\ {"rollbackLoad", "rollbackUnbound", "rollbackLease", "rollbackBind",
          "rollbackRecord"} \subseteq ActivateSteps
  BY DEF ActivateSteps
<1>3. CASE ActivateAcquire(g, t)
  <2>1. PICK p \in Players :
           /\ Busy(g, t, p, "acquire") /\ Confined(g, t, p) /\ DatasetTypes'
           /\ UNCHANGED <<repoVars, session, runtime, bound>>
           /\ GoesTo(g, t, p, "load") \/ call'[g][t] = NoCall
    BY <1>1, <1>3, AcquireFacts
  <2>2. Loaded(g, p)' <=> Loaded(g, p)
    BY <2>1, NothingMoves DEF repoVars
  <2> QED
    BY <1>2, <2>1, <2>2, ActivateKeeps
<1>4. CASE ActivateLoad(g, t)
  <2>1. PICK p \in Players :
           /\ Busy(g, t, p, "load") /\ Confined(g, t, p) /\ DatasetTypes'
           /\ UNCHANGED <<session, runtime, bound>> /\ (Loaded(g, p) => Loaded(g, p)')
           /\ GoesTo(g, t, p, "bind") \/ GoesTo(g, t, p, "rollbackLoad")
    BY <1>1, <1>4, ActivateLoadFacts
  <2> QED
    BY <1>2, <2>1, ActivateKeeps
<1>5. CASE ActivateBind(g, t)
  <2>1. PICK p \in Players :
           /\ Busy(g, t, p, "bind") /\ Confined(g, t, p) /\ DatasetTypes'
           /\ UNCHANGED <<repoVars, session, runtime>>
           /\ GoesTo(g, t, p, "rollbackUnbound") \/ GoesTo(g, t, p, "ensure")
    BY <1>1, <1>5, BindFacts
  <2>2. Loaded(g, p)' <=> Loaded(g, p)
    BY <2>1, NothingMoves DEF repoVars
  <2> QED
    BY <1>2, <2>1, <2>2, ActivateKeeps
<1>6. CASE ActivateEnsure(g, t)
  <2>1. PICK p \in Players :
           /\ Busy(g, t, p, "ensure") /\ Confined(g, t, p) /\ DatasetTypes'
           /\ UNCHANGED <<session, runtime, bound>> /\ (Loaded(g, p)' <=> Loaded(g, p))
           /\ (Loaded(g, p) /\ GoesTo(g, t, p, "emplace")) \/ GoesTo(g, t, p, "rollbackLease")
    BY <1>1, <1>6, EnsureFacts
  <2> QED
    BY <1>2, <2>1, ActivateKeeps
<1>7. CASE ActivateEmplace(g, t)
  <2>1. PICK p \in Players :
           /\ Busy(g, t, p, "emplace") /\ Confined(g, t, p) /\ DatasetTypes'
           /\ UNCHANGED <<session, bound>> /\ (Loaded(g, p)' <=> Loaded(g, p))
           /\ p \in runtime'[g] /\ GoesTo(g, t, p, "commit")
    BY <1>1, <1>7, EmplaceFacts
  <2> QED
    <3>1. /\ t \in Handlers /\ MemoryOK(g, p) /\ ActivationOK(g, p, call[g][t]) /\ ThreadOK(t, call[g][t])
      BY <1>2, <2>1, ActivatorFacts
    <3>2. ThreadOK(t, call'[g][t])
      BY <2>1, <3>1, StepNames DEF ThreadOK, GoesTo, ActivateSteps
    <3>3. ActivationOK(g, p, call[g][t])'
      BY <1>2, <2>1, <3>1 DEF ActivationOK, GoesTo, Doing, Busy
    <3>4. HasData(g, p) => HasData(g, p)'
      BY <2>1 DEF HasData
    <3> QED
      BY <2>1, <3>1, <3>2, <3>3, <3>4, HandlerStep DEF MemoryOK
<1>8. CASE ActivateRollbackLease(g, t)
  <2>1. PICK p \in Players, from \in {"rollbackLoad", "rollbackUnbound", "rollbackLease"} :
           /\ Busy(g, t, p, from) /\ Confined(g, t, p) /\ DatasetTypes'
           /\ UNCHANGED <<session, runtime, bound>> /\ (Loaded(g, p)' <=> Loaded(g, p))
           /\ \/ call'[g][t] = NoCall
              \/ GoesTo(g, t, p, "rollbackBind")
              \/ ~call[g][t].reuse /\ GoesTo(g, t, p, "rollbackRecord")
    BY <1>1, <1>8, RollbackLeaseFacts
  <2>2. from \in ActivateSteps /\ "rollbackBind" \in ActivateSteps /\ "rollbackRecord" \in ActivateSteps
    BY <1>2
  <2> QED
    BY <2>1, <2>2, ActivateKeeps
<1>9. CASE ActivateRollbackBind(g, t)
  <2>1. PICK p \in Players :
           /\ Busy(g, t, p, "rollbackBind") /\ Confined(g, t, p) /\ DatasetTypes'
           /\ UNCHANGED <<session, runtime>> /\ (Loaded(g, p)' <=> Loaded(g, p))
           /\ \/ call'[g][t] = NoCall
              \/ ~call[g][t].reuse /\ GoesTo(g, t, p, "rollbackRecord")
    BY <1>1, <1>9, RollbackBindFacts
  <2>2. "rollbackBind" \in ActivateSteps /\ "rollbackRecord" \in ActivateSteps
    BY <1>2
  <2> QED
    BY <2>1, <2>2, ActivateKeeps
<1> QED
  BY <1>3, <1>4, <1>5, <1>6, <1>7, <1>8, <1>9, CommitMemory, RollbackRecordMemory DEF ActivateStep
LEMMA ReleaserFacts ==
    ASSUME MemoryInv, NEW g \in Games, NEW p \in Players, NEW pc \in ReleaseSteps \ {"begin"},
           Busy(g, "console", p, pc)
    PROVE  /\ MemoryOK(g, p) /\ ReleaseOK(g, p, call[g]["console"])
           /\ session[g][p].state = "unloading"
<1>1. MemoryOK(g, p) /\ ReleaseOK(g, p, call[g]["console"])
  BY DEF MemoryInv, MemoryOK
<1> QED
  BY <1>1 DEF ReleaseOK, Doing, Busy

\* A step of ReleasePlayer that leaves the session alone.  As long as the release can
\* still fail it leaves the data too.
LEMMA ReleaseKeeps ==
    ASSUME MemoryInv, NEW g \in Games, NEW p \in Players,
           NEW from \in ReleaseSteps \ {"begin"}, Busy(g, "console", p, from), Confined(g, "console", p),
           DatasetTypes', session' = session,
           \/ call'[g]["console"] = NoCall
           \/ \E to \in ReleaseSteps \ {"begin", "check"} :
                 /\ GoesTo(g, "console", p, to)
                 /\ to \in {"flush", "restore"} =>
                      /\ from \in {"check", "flush"} /\ runtime' = runtime
                      /\ Loaded(g, p)' <=> Loaded(g, p)
    PROVE  MemoryInv'
<1>1. /\ MemoryOK(g, p) /\ ReleaseOK(g, p, call[g]["console"]) /\ session[g][p].state = "unloading"
  BY ReleaserFacts
<1>2. ThreadOK("console", call'[g]["console"])
  BY StepNames, NoCallFacts DEF ThreadOK, GoesTo, ActivateSteps, ReleaseSteps
<1>3. ~InServiceState(session'[g][p].state) /\ session[g][p].state # "none"
  BY <1>1 DEF InServiceState
<1>4. ReleaseOK(g, p, call[g]["console"])'
  <2>1. CASE call'[g]["console"] = NoCall
    BY <2>1, NoCallFacts
  <2>2. CASE call'[g]["console"] # NoCall
    <3>1. PICK to \in ReleaseSteps \ {"begin", "check"} :
             /\ GoesTo(g, "console", p, to)
             /\ to \in {"flush", "restore"} =>
                  /\ from \in {"check", "flush"} /\ runtime' = runtime
                  /\ Loaded(g, p)' <=> Loaded(g, p)
      BY <2>2
    <3>2. /\ call'[g]["console"].pc = to /\ call'[g]["console"].prev = call[g]["console"].prev
      BY <3>1 DEF GoesTo
    <3>3. /\ to \in {"flush", "restore"} /\ InServiceState(call[g]["console"].prev.state)
             => HasData(g, p)'
      <4>1. ASSUME to \in {"flush", "restore"}, InServiceState(call[g]["console"].prev.state)
            PROVE  HasData(g, p)'
        <5>1. HasData(g, p)
          BY <1>1, <3>1, <4>1 DEF ReleaseOK, Doing, Busy
        <5> QED
          BY <3>1, <4>1, <5>1 DEF HasData
      <4> QED
        BY <4>1
    <3> QED
      BY <1>1, <3>1, <3>2, <3>3 DEF ReleaseOK, Doing
  <2> QED
    BY <2>1, <2>2
<1> QED
  BY <1>2, <1>3, <1>4, ConsoleStep

LEMMA UnloadingMemory ==
    ASSUME MemoryInv, NEW g \in Games, NEW p \in Players, StartUnloading(g, p),
           call[g]["console"] # NoCall => call[g]["console"].player = p,
           UNCHANGED <<leaseVars, repoVars, runtime, bound>>
    PROVE  MemoryInv'
<1>1. GameTypes /\ MemoryOK(g, p)
  BY DEF MemoryInv
<1>2. /\ Confined(g, "console", p) /\ DatasetTypes' /\ (Loaded(g, p)' <=> Loaded(g, p))
      /\ session[g][p].state # "none" /\ session'[g][p].state = "unloading"
      /\ call'[g]["console"].pc = "check" /\ call'[g]["console"].player = p
      /\ call'[g]["console"].prev = session[g][p]
  BY <1>1, UnloadingFacts
<1>3. ThreadOK("console", call'[g]["console"])
  BY <1>2 DEF ThreadOK, ActivateSteps
<1>4. HasData(g, p)' <=> HasData(g, p)
  BY <1>2 DEF HasData
<1>5. ReleaseOK(g, p, call[g]["console"])'
  BY <1>1, <1>2, <1>4 DEF ReleaseOK, MemoryOK
<1>6. ~InServiceState(session'[g][p].state)
  BY <1>2 DEF InServiceState
<1> QED
  BY <1>2, <1>3, <1>5, <1>6, ConsoleStep

LEMMA ReleaseMemory ==
    ASSUME MemoryInv, NEW g \in Games, ReleaseStep(g)
    PROVE  MemoryInv'
<1>1. GameTypes /\ "console" \in Threads
  BY DEF MemoryInv, Threads
<1>2. {"check", "flush", "restore", "unbind", "remove", "drop", "release", "erase"}
         \subseteq ReleaseSteps \ {"begin"}
  BY DEF ReleaseSteps
<1>3. CASE ExpireBegin(g)
  <2>1. PICK p \in Players : p = Player(g, "console") /\ Busy(g, "console", p, "begin")
    BY <1>1, <1>3, AtBusy DEF ExpireBegin
  <2>2. CASE StartUnloading(g, p)
    BY <1>3, <2>1, <2>2, UnloadingMemory DEF ExpireBegin, Busy
  <2>3. CASE Return(g, "console") /\ UNCHANGED session
    <3>1. UNCHANGED <<leaseVars, repoVars, sessionVars>>
      BY <1>3, <2>3 DEF ExpireBegin, sessionVars
    <3>2. "erase" \in Steps
      BY DEF Steps, ReleaseSteps
    <3>3. CallMoves(g, "console", p) /\ call'[g]["console"] = NoCall
      BY <1>1, <2>1, <2>3, ReturnMoves
    <3>4. /\ Confined(g, "console", p) /\ DatasetTypes'
          /\ UNCHANGED <<session, runtime>> /\ (Loaded(g, p)' <=> Loaded(g, p))
      BY <1>1, <2>1, <2>3, <3>1, <3>2, GoOnly
    <3>5. Neutral(call[g]["console"], p)
      BY <2>1 DEF Neutral, Doing, Busy, ActivateSteps
    <3> QED
      BY <1>1, <3>3, <3>4, <3>5, NoCallFacts, NeutralStep
  <2> QED
    BY <1>3, <2>1, <2>2, <2>3 DEF ExpireBegin
<1>4. CASE ReleaseCheck(g)
  <2>1. PICK p \in Players :
           /\ Busy(g, "console", p, "check") /\ Confined(g, "console", p) /\ DatasetTypes'
           /\ UNCHANGED <<session, runtime>> /\ (Loaded(g, p)' <=> Loaded(g, p))
           /\ GoesTo(g, "console", p, "flush") \/ GoesTo(g, "console", p, "unbind")
    BY <1>1, <1>4, ReleaseCheckFacts
  <2>2. {"flush", "unbind"} \subseteq ReleaseSteps \ {"begin", "check"} /\ "check" \in ReleaseSteps \ {"begin"}
    BY DEF ReleaseSteps
  <2> QED
    BY <2>1, <2>2, ReleaseKeeps
<1>5. CASE ReleaseFlush(g)
  <2>1. PICK p \in Players :
           /\ Busy(g, "console", p, "flush") /\ Confined(g, "console", p) /\ DatasetTypes'
           /\ UNCHANGED <<session, runtime>> /\ (Loaded(g, p)' <=> Loaded(g, p))
           /\ GoesTo(g, "console", p, "restore") \/ GoesTo(g, "console", p, "unbind")
    BY <1>1, <1>5, ReleaseFlushFacts
  <2>2. {"restore", "unbind"} \subseteq ReleaseSteps \ {"begin", "check"} /\ "flush" \in ReleaseSteps \ {"begin"}
    BY DEF ReleaseSteps
  <2> QED
    BY <2>1, <2>2, ReleaseKeeps
<1>6. CASE ReleaseRestore(g)
  <2>1. PICK p \in Players :
           /\ Busy(g, "console", p, "restore") /\ Confined(g, "console", p) /\ DatasetTypes'
           /\ runtime' = runtime /\ call'[g]["console"] = NoCall
           /\ Loaded(g, p)' <=> Loaded(g, p)
           /\ \/ session[g][p].state = "none"
              \/ session'[g][p] = call[g]["console"].prev
    BY <1>1, <1>6, ReleaseRestoreFacts
  <2>2. /\ ReleaseOK(g, p, call[g]["console"]) /\ session[g][p].state = "unloading"
    BY <1>2, <2>1, ReleaserFacts
  <2>3. HasData(g, p)' <=> HasData(g, p)
    BY <2>1 DEF HasData
  <2>4. InServiceState(session'[g][p].state) => HasData(g, p)'
    BY <1>2, <2>1, <2>2, <2>3 DEF ReleaseOK, Doing, Busy
  <2> QED
    BY <2>1, <2>2, <2>4, NoCallFacts, ConsoleStep
<1>7. CASE ReleaseUnbind(g)
  <2>1. PICK p \in Players :
           /\ Busy(g, "console", p, "unbind") /\ Confined(g, "console", p) /\ DatasetTypes'
           /\ session' = session
           /\ GoesTo(g, "console", p, "remove") \/ call'[g]["console"] = NoCall
    BY <1>1, <1>7, ReleaseUnbindFacts
  <2>2. "remove" \in ReleaseSteps \ {"begin", "check"} /\ "unbind" \in ReleaseSteps \ {"begin"}
    BY DEF ReleaseSteps
  <2> QED
    BY <2>1, <2>2, ReleaseKeeps
<1>8. CASE ReleaseRemove(g)
  <2>1. PICK p \in Players :
           /\ Busy(g, "console", p, "remove") /\ Confined(g, "console", p) /\ DatasetTypes'
           /\ session' = session /\ GoesTo(g, "console", p, "drop")
    BY <1>1, <1>8, ReleaseRemoveFacts
  <2>2. "drop" \in ReleaseSteps \ {"begin", "check"} /\ "remove" \in ReleaseSteps \ {"begin"}
    BY DEF ReleaseSteps
  <2> QED
    BY <2>1, <2>2, ReleaseKeeps
<1>9. CASE ReleaseDrop(g)
  <2>1. PICK p \in Players :
           /\ Busy(g, "console", p, "drop") /\ Confined(g, "console", p) /\ DatasetTypes'
           /\ session' = session
           /\ GoesTo(g, "console", p, "release") \/ call'[g]["console"] = NoCall
    BY <1>1, <1>9, ReleaseDropFacts
  <2>2. "release" \in ReleaseSteps \ {"begin", "check"} /\ "drop" \in ReleaseSteps \ {"begin"}
    BY DEF ReleaseSteps
  <2> QED
    BY <2>1, <2>2, ReleaseKeeps
<1>10. CASE ReleaseLease(g)
  <2>1. PICK p \in Players :
           /\ Busy(g, "console", p, "release") /\ Confined(g, "console", p) /\ DatasetTypes'
           /\ session' = session /\ GoesTo(g, "console", p, "erase")
    BY <1>1, <1>10, ReleaseLeaseFacts
  <2>2. "erase" \in ReleaseSteps \ {"begin", "check"} /\ "release" \in ReleaseSteps \ {"begin"}
    BY DEF ReleaseSteps
  <2> QED
    BY <2>1, <2>2, ReleaseKeeps
<1>11. CASE ReleaseErase(g)
  <2>1. PICK p \in Players :
           /\ Busy(g, "console", p, "erase") /\ Confined(g, "console", p) /\ DatasetTypes'
           /\ session'[g][p].state = "none" /\ call'[g]["console"] = NoCall
    BY <1>1, <1>11, ReleaseEraseFacts
  <2>2. session[g][p].state = "unloading"
    BY <1>2, <2>1, ReleaserFacts
  <2>3. ~InServiceState(session'[g][p].state)
    BY <2>1 DEF InServiceState
  <2> QED
    BY <2>1, <2>2, <2>3, NoCallFacts, ConsoleStep
<1> QED
  BY <1>3, <1>4, <1>5, <1>6, <1>7, <1>8, <1>9, <1>10, <1>11 DEF ReleaseStep
\* A player that stays in service, detached or not.
LEMMA InServiceStep ==
    ASSUME MemoryInv, NEW g \in Games, NEW t \in Threads, NEW p \in Players, Confined(g, t, p),
           DatasetTypes', call'[g][t] = NoCall,
           InServiceState(session[g][p].state), InServiceState(session'[g][p].state),
           runtime' = runtime, Loaded(g, p)' <=> Loaded(g, p)
    PROVE  MemoryInv'
<1>1. GameTypes /\ MemoryOK(g, p) /\ Handlers \subseteq Threads /\ "console" \in Threads
  BY DEF MemoryInv, Threads
<1>2. \A u \in Threads : call'[g][u] = call[g][u] \/ call'[g][u] = NoCall
  BY <1>1, ConfinedFacts
<1>3. HasData(g, p)'
  BY <1>1 DEF MemoryOK, HasData
<1>4. session[g][p].state \notin {"none", "unloading"}
  BY DEF InServiceState
<1>5. ASSUME NEW u \in Handlers PROVE ActivationOK(g, p, call[g][u])'
  <2>1. ActivationOK(g, p, call[g][u]) /\ (call'[g][u] = call[g][u] \/ call'[g][u] = NoCall)
    BY <1>1, <1>2 DEF MemoryOK
  <2> QED
    BY <1>4, <2>1, NoCallFacts DEF ActivationOK
<1>6. ReleaseOK(g, p, call[g]["console"])'
  <2>1. /\ ReleaseOK(g, p, call[g]["console"])
        /\ call'[g]["console"] = call[g]["console"] \/ call'[g]["console"] = NoCall
    BY <1>1, <1>2 DEF MemoryOK
  <2> QED
    BY <1>4, <2>1, NoCallFacts DEF ReleaseOK
<1>7. MemoryOK(g, p)'
  BY <1>3, <1>5, <1>6 DEF MemoryOK
<1> QED
  BY <1>7, NoCallFacts, MemoryStep

\* A thread that takes up something other than an activation or a release.
LEMMA ScanMemory ==
    ASSUME MemoryInv, NEW g \in Games, NEW t \in Threads, NEW p \in Players,
           NEW pc \in OtherSteps \cup {"begin"}, pc = "begin" => t = "console",
           Idle(g, t), Enter(g, t, pc, p, 0, FALSE), UNCHANGED <<leaseVars, repoVars, sessionVars>>
    PROVE  MemoryInv'
<1>1. GameTypes /\ pc \in Steps
  BY DEF MemoryInv, Steps, ReleaseSteps
<1>2. /\ Confined(g, t, p) /\ DatasetTypes' /\ Begins(g, t, p, pc, FALSE)
      /\ UNCHANGED <<session, runtime>> /\ (Loaded(g, p)' <=> Loaded(g, p))
  BY <1>1, EnterOnly
<1>3. pc \notin ActivateSteps /\ pc \notin ReleaseSteps \ {"begin"}
  BY DEF OtherSteps, ActivateSteps, ReleaseSteps
<1>4. ThreadOK(t, call'[g][t])
  BY <1>2, <1>3 DEF ThreadOK, Begins, ActivateSteps
<1>5. Neutral(call'[g][t], p) /\ Neutral(call[g][t], p)
  BY <1>2, <1>3, NoCallFacts DEF Neutral, Doing, Begins
<1> QED
  BY <1>2, <1>4, <1>5, NeutralStep

\* A step of an operation that neither activates nor releases.
LEMMA WorkMemory ==
    ASSUME MemoryInv, NEW g \in Games, NEW t \in Threads, NEW p \in Players, NEW from \in OtherSteps,
           Busy(g, t, p, from), Confined(g, t, p), DatasetTypes', UNCHANGED <<session, runtime>>,
           Loaded(g, p)' <=> Loaded(g, p),
           call'[g][t] = NoCall \/ \E to \in OtherSteps : GoesTo(g, t, p, to)
    PROVE  MemoryInv'
<1>1. \A pc \in OtherSteps : pc \notin ActivateSteps /\ pc \notin ReleaseSteps
  BY DEF OtherSteps, ActivateSteps, ReleaseSteps
<1>2. Neutral(call[g][t], p)
  BY <1>1 DEF Neutral, Doing, Busy
<1>3. Neutral(call'[g][t], p) /\ ThreadOK(t, call'[g][t])
  <2>1. CASE call'[g][t] = NoCall
    BY <2>1, NoCallFacts
  <2>2. ASSUME NEW to \in OtherSteps, GoesTo(g, t, p, to)
        PROVE  Neutral(call'[g][t], p) /\ ThreadOK(t, call'[g][t])
    <3>1. "rollbackRecord" \notin OtherSteps
      BY DEF OtherSteps
    <3> QED
      BY <1>1, <2>2, <3>1 DEF Neutral, Doing, GoesTo, ThreadOK
  <2> QED
    BY <2>1, <2>2
<1> QED
  BY <1>2, <1>3, NeutralStep

LEMMA OtherMemory ==
    ASSUME MemoryInv, NEW g \in Games, NEW t \in Threads,
           \/ MessageLease(g, t) \/ MessageApply(g, t) \/ ReconcileUnbind(g, t)
           \/ ReconcileCommit(g, t) \/ PersistLease(g, t) \/ PersistFlush(g, t)
    PROVE  MemoryInv'
<1>1. GameTypes
  BY DEF MemoryInv
<1>2. /\ "messageLease" \in OtherSteps /\ "messageApply" \in OtherSteps
      /\ "persistLease" \in OtherSteps /\ "persistFlush" \in OtherSteps
      /\ "reconcileUnbind" \in OtherSteps /\ "reconcileCommit" \in OtherSteps
      /\ "messageApply" \in Steps /\ "persistFlush" \in Steps
  BY DEF OtherSteps, Steps
<1>3. CASE MessageLease(g, t)
  <2>1. PICK p \in Players : p = Player(g, t) /\ Busy(g, t, p, "messageLease")
    BY <1>1, <1>3, AtBusy DEF MessageLease
  <2>2. /\ Goto(g, t, "messageApply") \/ Return(g, t)
        /\ UNCHANGED <<leaseVars, repoVars, sessionVars>>
    BY <1>3 DEF MessageLease
  <2>3. /\ Confined(g, t, p) /\ DatasetTypes' /\ UNCHANGED <<session, runtime>>
        /\ Loaded(g, p)' <=> Loaded(g, p)
        /\ GoesTo(g, t, p, "messageApply") \/ call'[g][t] = NoCall
    BY <1>1, <1>2, <2>1, <2>2, GoOnly
  <2> QED
    BY <1>2, <2>1, <2>3, WorkMemory
<1>4. CASE MessageApply(g, t)
  <2>1. PICK p \in Players : p = Player(g, t) /\ Busy(g, t, p, "messageApply")
    BY <1>1, <1>4, AtBusy DEF MessageApply
  <2>2. DataMoves(g, p) /\ Return(g, t) /\ UNCHANGED <<leaseVars, sessionVars>>
    BY <1>4, <2>1 DEF MessageApply, DataMoves
  <2>3. /\ Confined(g, t, p) /\ DatasetTypes' /\ UNCHANGED <<session, runtime>>
        /\ Loaded(g, p)' <=> Loaded(g, p)
        /\ call'[g][t] = NoCall
    BY <1>1, <2>1, <2>2, WorkFacts
  <2> QED
    BY <1>2, <2>1, <2>3, WorkMemory
<1>5. CASE ReconcileUnbind(g, t)
  <2>1. PICK p \in Players :
           /\ Busy(g, t, p, "reconcileUnbind") /\ Confined(g, t, p) /\ DatasetTypes'
           /\ UNCHANGED <<session, runtime>> /\ (Loaded(g, p)' <=> Loaded(g, p))
           /\ GoesTo(g, t, p, "reconcileCommit")
    BY <1>1, <1>5, ReconcileUnbindFacts
  <2> QED
    BY <1>2, <2>1, WorkMemory
<1>6. CASE ReconcileCommit(g, t)
  <2>1. PICK p \in Players :
           /\ Busy(g, t, p, "reconcileCommit") /\ Confined(g, t, p) /\ DatasetTypes'
           /\ runtime' = runtime /\ (Loaded(g, p)' <=> Loaded(g, p)) /\ call'[g][t] = NoCall
           /\ \/ session' = session
              \/ session[g][p].state = "online" /\ session'[g][p].state = "detached"
    BY <1>1, <1>6, ReconcileCommitFacts
  <2>2. CASE session' = session
    BY <1>2, <2>1, <2>2, WorkMemory
  <2>3. CASE session[g][p].state = "online" /\ session'[g][p].state = "detached"
    BY <2>1, <2>3, InServiceStep DEF InServiceState
  <2> QED
    BY <2>1, <2>2, <2>3
<1>7. CASE PersistLease(g, t)
  <2>1. PICK p \in Players : p = Player(g, t) /\ Busy(g, t, p, "persistLease")
    BY <1>1, <1>7, AtBusy DEF PersistLease
  <2>2. /\ Goto(g, t, "persistFlush") \/ Return(g, t)
        /\ UNCHANGED <<leaseVars, repoVars, sessionVars>>
    BY <1>7 DEF PersistLease
  <2>3. /\ Confined(g, t, p) /\ DatasetTypes' /\ UNCHANGED <<session, runtime>>
        /\ Loaded(g, p)' <=> Loaded(g, p)
        /\ GoesTo(g, t, p, "persistFlush") \/ call'[g][t] = NoCall
    BY <1>1, <1>2, <2>1, <2>2, GoOnly
  <2> QED
    BY <1>2, <2>1, <2>3, WorkMemory
<1>8. CASE PersistFlush(g, t)
  <2>1. PICK p \in Players : p = Player(g, t) /\ Busy(g, t, p, "persistFlush")
    BY <1>1, <1>8, AtBusy DEF PersistFlush
  <2>2. DataMoves(g, p) /\ Return(g, t) /\ UNCHANGED <<leaseVars, sessionVars>>
    BY <1>8, <2>1 DEF PersistFlush, DataMoves
  <2>3. /\ Confined(g, t, p) /\ DatasetTypes' /\ UNCHANGED <<session, runtime>>
        /\ Loaded(g, p)' <=> Loaded(g, p)
        /\ call'[g][t] = NoCall
    BY <1>1, <2>1, <2>2, WorkFacts
  <2> QED
    BY <1>2, <2>1, <2>3, WorkMemory
<1> QED
  BY <1>3, <1>4, <1>5, <1>6, <1>7, <1>8
\* Operator commands that neither activate nor release.
LEMMA CommandMemory ==
    ASSUME MemoryInv, NEW g \in Games, NEW p \in Players,
           FlushCommand(g, p) \/ UpdateCommand(g, p) \/ BindCommand(g, p)
    PROVE  MemoryInv'
<1>1. GameTypes /\ "console" \in Threads
  BY DEF MemoryInv, Threads
<1>2. /\ Confined(g, "console", p) /\ DatasetTypes' /\ UNCHANGED <<session, runtime>>
      /\ Loaded(g, p)' <=> Loaded(g, p)
      /\ call[g]["console"] = NoCall /\ call'[g]["console"] = NoCall
  <2>1. CASE FlushCommand(g, p) \/ UpdateCommand(g, p)
    <3>1. /\ Idle(g, "console") /\ DataMoves(g, p) /\ UNCHANGED <<leaseVars, sessionVars, call>>
      BY <2>1 DEF FlushCommand, UpdateCommand, DataMoves
    <3> QED
      BY <1>1, <3>1, CommandFacts
  <2>2. CASE BindCommand(g, p)
    BY <1>1, <2>2, BindCommandFacts
  <2> QED
    BY <2>1, <2>2
<1> QED
  BY <1>1, <1>2, NoCallFacts, NeutralStep

\* A process that ends takes all of this with it.
LEMMA ForgetMemory ==
    ASSUME MemoryInv, NEW g \in Games, Forget(g)
    PROVE  MemoryInv'
<1>1. GameTypes
  BY DEF MemoryInv
<1>2. /\ GameTypes'
      /\ \A p \in Players : session'[g][p].state = "none"
      /\ \A t \in Threads : call'[g][t] = NoCall
      /\ \A k \in Games : k # g => /\ session'[k] = session[k] /\ repo'[k] = repo[k]
                                   /\ runtime'[k] = runtime[k] /\ call'[k] = call[k]
  BY <1>1, ForgetFacts
<1>3. ASSUME NEW k \in Games, NEW t \in Threads PROVE ThreadOK(t, call[k][t])'
  <2>1. CASE k = g
    BY <1>2, <2>1, NoCallFacts DEF ThreadOK
  <2>2. CASE k # g
    BY <1>2, <2>2 DEF MemoryInv, ThreadOK
  <2> QED
    BY <2>1, <2>2
<1>4. ASSUME NEW k \in Games, NEW p \in Players PROVE MemoryOK(k, p)'
  <2>1. CASE k = g
    <3>1. Handlers \subseteq Threads /\ "console" \in Threads
      BY DEF Threads
    <3>2. \A t \in Handlers : ActivationOK(g, p, call[g][t])'
      BY <1>2, <3>1, NoCallFacts DEF ActivationOK
    <3>3. ReleaseOK(g, p, call[g]["console"])'
      BY <1>2, <3>1, NoCallFacts DEF ReleaseOK
    <3> QED
      BY <1>2, <2>1, <3>2, <3>3 DEF MemoryOK, InServiceState
  <2>2. CASE k # g
    <3>1. MemorySame(k, p)
      BY <1>2, <2>2 DEF MemorySame, Loaded, Present
    <3> QED
      BY <3>1, MemorySameKept DEF MemoryInv
  <2> QED
    BY <2>1, <2>2
<1> QED
  BY <1>2, <1>3, <1>4 DEF MemoryInv

\* Steps outside a game's memory.
LEMMA MemoryUntouched ==
    ASSUME MemoryInv, UNCHANGED <<repoVars, sessionVars, call>>
    PROVE  MemoryInv'
<1>1. UNCHANGED <<repo, row, hot, nextUpdate, session, runtime, bound, call>>
  BY DEF repoVars, sessionVars
<1>2. GameTypes'
  BY <1>1 DEF MemoryInv, GameTypes, RepoTypeOK
<1>3. \A g \in Games, t \in Threads : ThreadOK(t, call[g][t])'
  BY <1>1 DEF MemoryInv, ThreadOK
<1>4. ASSUME NEW g \in Games, NEW p \in Players PROVE MemoryOK(g, p)'
  <2>1. MemorySame(g, p)
    BY <1>1 DEF MemorySame, Loaded, Present
  <2> QED
    BY <2>1, MemorySameKept DEF MemoryInv
<1> QED
  BY <1>2, <1>3, <1>4 DEF MemoryInv

LEMMA MemoryInit ==
    ASSUME Init PROVE MemoryInv
<1>1. GameTypes
  <2>1. repo \in [Games -> [Players -> PlayerRepositoryRecord \cup {Absent}]]
    BY DEF Init, RepoInit
  <2>2. row \in [Players -> {Absent} \cup PlayerData] /\ hot \in [Players -> {Absent} \cup PlayerData]
    BY DEF Init, RepoInit
  <2>3. nextUpdate \in 1 .. MaxUpdates + 1
    BY RepositoryAssumption DEF Init, RepoInit
  <2>4. session \in [Games -> [Players -> PlayerSessionRecord]]
    BY RecordTypes DEF Init
  <2>5. /\ runtime \in [Games -> SUBSET Players] /\ bound \in [Games -> [Players -> Owners]]
        /\ call \in [Games -> [Threads -> Call \cup {NoCall}]]
    BY DEF Init, Owners
  <2> QED
    BY <2>1, <2>2, <2>3, <2>4, <2>5 DEF GameTypes, RepoTypeOK
<1>2. \A g \in Games, t \in Threads : call[g][t] = NoCall /\ ThreadOK(t, call[g][t])
  BY DEF Init, ThreadOK
<1>3. ASSUME NEW g \in Games, NEW p \in Players PROVE MemoryOK(g, p)
  <2>1. Handlers \subseteq Threads /\ "console" \in Threads
    BY DEF Threads
  <2>2. ~InServiceState(session[g][p].state)
    BY RecordTypes DEF Init, InServiceState
  <2> QED
    BY <1>2, <2>1, <2>2 DEF MemoryOK, ActivationOK, ReleaseOK, Doing
<1> QED
  BY <1>1, <1>2, <1>3 DEF MemoryInv

LEMMA MemoryNext ==
    ASSUME MemoryInv, OneActivator, [Next]_vars
    PROVE  MemoryInv'
<1>1. GameTypes /\ Handlers \subseteq Threads /\ "console" \in Threads
  BY DEF MemoryInv, Threads
<1>2. Activators \subseteq Handlers
  BY DEF Activators, OneActivator
<1>3. CASE UNCHANGED vars
  BY <1>3, MemoryUntouched DEF vars
<1>4. ASSUME NEW g \in Games, NEW t \in Handlers, NEW p \in Players, NEW gate \in GateSessions,
             DetachMatching(g, t, p, gate)
      PROVE  MemoryInv'
  <2>1. /\ Idle(g, t) /\ SetSession(g, p, Detached) /\ UNCHANGED <<leaseVars, repoVars, runtime, bound, call>>
        /\ session[g][p].state = "online"
    BY <1>4, RecordTypes DEF DetachMatching
  <2>2. /\ Confined(g, t, p) /\ DatasetTypes' /\ call'[g][t] = NoCall
        /\ session'[g][p].state = "detached" /\ (Loaded(g, p)' <=> Loaded(g, p))
    BY <1>1, <2>1, DetachFacts
  <2> QED
    BY <1>1, <2>1, <2>2, InServiceStep DEF InServiceState
<1>5. ASSUME NEW g \in Games, NEW p \in Players, DetachPlayer(g, p)
      PROVE  MemoryInv'
  <2>1. /\ Idle(g, "console") /\ SetSession(g, p, Detached)
        /\ UNCHANGED <<leaseVars, repoVars, runtime, bound, call>> /\ session[g][p].state = "online"
    BY <1>5 DEF DetachPlayer
  <2>2. /\ Confined(g, "console", p) /\ DatasetTypes' /\ call'[g]["console"] = NoCall
        /\ session'[g][p].state = "detached" /\ (Loaded(g, p)' <=> Loaded(g, p))
    BY <1>1, <2>1, DetachFacts
  <2> QED
    BY <1>1, <2>1, <2>2, InServiceStep DEF InServiceState
<1>6. ASSUME NEW g \in Games, NEW p \in Players, ReleasePlayer(g, p)
      PROVE  MemoryInv'
  BY <1>6, UnloadingMemory DEF ReleasePlayer, Idle
<1>7. ASSUME NEW g \in Games, NEW p \in Players,
             \/ \E t \in Handlers : MessageCheck(g, t, p)
             \/ ExpireScan(g, p)
             \/ \E t \in Reconcilers : ReconcileScan(g, t, p)
             \/ \E t \in Flushers : PersistScan(g, t, p)
      PROVE  MemoryInv'
  <2>1. Reconcilers \subseteq Threads /\ Flushers \subseteq Threads
    BY DEF Reconcilers, Flushers, Threads
  <2>2. \E t \in Threads, pc \in OtherSteps \cup {"begin"} :
           /\ pc = "begin" => t = "console"
           /\ Idle(g, t) /\ Enter(g, t, pc, p, 0, FALSE) /\ UNCHANGED <<leaseVars, repoVars, sessionVars>>
    BY <1>1, <1>7, <2>1 DEF MessageCheck, ExpireScan, ReconcileScan, PersistScan, OtherSteps
  <2> QED
    BY <2>2, ScanMemory
<1>8. ASSUME NEW g \in Games, NEW t \in Threads, Continue(g, t)
      PROVE  MemoryInv'
  BY <1>8, ActivateMemory, ReleaseMemory, OtherMemory DEF Continue
<1>9. ASSUME NEW g \in Games, GameBoot(g) \/ GameCrash(g) \/ GameStop(g) \/ RenewPass(g)
      PROVE  MemoryInv'
  BY <1>9, ForgetMemory, MemoryUntouched DEF GameBoot, GameCrash, GameStop, RenewPass
<1>10. ASSUME NEW S \in SUBSET Players, ExpireKeys(S)
       PROVE  MemoryInv'
  BY <1>10, MemoryUntouched DEF ExpireKeys
<1> QED
  BY <1>2, <1>3, <1>4, <1>5, <1>6, <1>7, <1>8, <1>9, <1>10, CheckMemory, CommandMemory DEF Next

\* With one handler thread that activates players, and however many leases are lost, a
\* player in service has its data in memory and an instance.
THEOREM SessionHasData == OneActivator => (Spec => []InServiceHasData)
<1>1. SUFFICES ASSUME OneActivator PROVE Spec => []InServiceHasData
  OBVIOUS
<1>2. Init => MemoryInv
  BY MemoryInit
<1>3. MemoryInv /\ [Next]_vars => MemoryInv'
  BY <1>1, MemoryNext
<1>4. MemoryInv => InServiceHasData
  BY DEF MemoryInv, MemoryOK, InServiceHasData, InService, InServiceState, HasData
<1> QED
  BY <1>2, <1>3, <1>4, PTL DEF Spec
-----------------------------------------------------------------------------
(* Leases.                                                                 *)

\* A step for player p of game g does nothing to another lease that is held.
LeaseMoves(g, p) ==
    /\ LeaseTypeOK' /\ UNCHANGED <<mRedis, running>>
    /\ \A k \in Games, q \in Players : k # g \/ q # p =>
          /\ mLeases'[k][q] = mLeases[k][q]
          /\ IsHeldLocally(k, q) => redis'[q] = redis[q]
    /\ HeldOK(g, p)'

LEMMA LeaseUnmoved ==
    ASSUME LeaseInv, NEW g \in Games, NEW p \in Players, UNCHANGED leaseVars
    PROVE  LeaseMoves(g, p) /\ (IsHeldLocally(g, p)' <=> IsHeldLocally(g, p))
<1>1. LeaseTypeOK /\ HeldOK(g, p)
  BY DEF LeaseInv, LeaseOK, KeptOK
<1>2. LeaseTypeOK' /\ HeldOK(g, p)' /\ (IsHeldLocally(g, p)' <=> IsHeldLocally(g, p))
  BY <1>1 DEF LeaseTypeOK, HeldOK, IsHeldLocally, leaseVars
<1> QED
  BY <1>2 DEF LeaseMoves, leaseVars

LEMMA LeaseTypes ==
    ASSUME LeaseTypeOK, NEW g \in Games, NEW p \in Players
    PROVE  /\ redis[p] \in PlayerLeaseOwner \cup {NoOwner}
           /\ mLeases[g][p] \in PlayerLeaseOwner \cup {NoOwner}
  BY DEF LeaseTypeOK

\* Another game's lease is another key's value.
LEMMA OtherHolder ==
    ASSUME LeaseInv, NEW g \in Games, NEW k \in Games, NEW p \in Players, IsHeldLocally(g, p),
           IsHeldLocally(k, p)
    PROVE  g = k
  BY DEF LeaseInv, LeaseOK, KeptOK, HeldOK

LEMMA AcquireMoves ==
    ASSUME LeaseInv, NEW g \in Games, NEW p \in Players, Acquire(g, p, TRUE), ~IsHeldLocally(g, p)
    PROVE  LeaseMoves(g, p) /\ IsHeldLocally(g, p)'
<1>1. LeaseTypeOK
  BY DEF LeaseInv
<1>2. /\ running[g] /\ mRedis[g] = "ok" /\ redis[p] = NoOwner /\ UNCHANGED <<mRedis, running>>
      /\ \E ms \in Stamps : /\ redis' = [redis EXCEPT ![p] = [game |-> g, token |-> ms]]
                            /\ mLeases' = [mLeases EXCEPT ![g][p] = [game |-> g, token |-> ms]]
  BY DEF Acquire, AcquireTracked, AcquireFree, SetKey
<1>3. PICK ms \in Stamps : /\ redis' = [redis EXCEPT ![p] = [game |-> g, token |-> ms]]
                           /\ mLeases' = [mLeases EXCEPT ![g][p] = [game |-> g, token |-> ms]]
  BY <1>2
<1>4. PICK o \in PlayerLeaseOwner : o = [game |-> g, token |-> ms] /\ o.game = g /\ o # NoOwner
  <2> DEFINE new == [game |-> g, token |-> ms]
  <2>1. new \in PlayerLeaseOwner /\ new.game = g
    BY DEF PlayerLeaseOwner
  <2>2. new # NoOwner
    BY <2>1, NoOwnerAssumption
  <2> QED
    BY <2>1, <2>2
<1>5. redis' = [redis EXCEPT ![p] = o] /\ mLeases' = [mLeases EXCEPT ![g][p] = o]
  BY <1>3, <1>4
<1>6. /\ redis' \in [Players -> PlayerLeaseOwner \cup {NoOwner}] /\ redis'[p] = o
      /\ \A q \in Players : q # p => redis'[q] = redis[q]
  BY <1>1, <1>5 DEF LeaseTypeOK
<1>7. /\ mLeases' \in [Games -> [Players -> PlayerLeaseOwner \cup {NoOwner}]] /\ mLeases'[g][p] = o
      /\ \A k \in Games, q \in Players : k # g \/ q # p => mLeases'[k][q] = mLeases[k][q]
  <2>1. o \in PlayerLeaseOwner \cup {NoOwner}
    OBVIOUS
  <2> QED
    BY <1>1, <1>5, <2>1, PairReplaced DEF LeaseTypeOK
<1>8. LeaseTypeOK'
  BY <1>1, <1>2, <1>6, <1>7 DEF LeaseTypeOK
<1>9. \A k \in Games : ~IsHeldLocally(k, p)
  BY <1>2 DEF LeaseInv, LeaseOK, KeptOK, HeldOK, IsHeldLocally
<1>10. HeldOK(g, p)' /\ IsHeldLocally(g, p)'
  BY <1>2, <1>4, <1>6, <1>7 DEF HeldOK, IsHeldLocally
<1> QED
  BY <1>2, <1>6, <1>7, <1>8, <1>9, <1>10 DEF LeaseMoves

LEMMA AcquireNothing ==
    ASSUME LeaseInv, ~LeaseFaults, NEW g \in Games, NEW p \in Players, Acquire(g, p, FALSE), ReliableRedis
    PROVE  UNCHANGED leaseVars
<1>1. ~AcquireReplyLost(g, p)
  <2>1. SUFFICES ASSUME AcquireReplyLost(g, p) PROVE FALSE
    OBVIOUS
  <2>2. mRedis'[g] = "broken"
    BY <2>1 DEF AcquireReplyLost, LeaseInv, LeaseTypeOK
  <2> QED
    BY <2>2 DEF ReliableRedis
<1> QED
  BY <1>1 DEF Acquire, AcquireRefused

LEMMA ReleaseMoves ==
    ASSUME LeaseInv, ~LeaseFaults, NEW g \in Games, NEW p \in Players, Release(g, p), ReliableRedis
    PROVE  LeaseMoves(g, p) /\ ~IsHeldLocally(g, p)'
<1>1. LeaseTypeOK
  BY DEF LeaseInv
<1>2. UNCHANGED running /\ mLeases' = [mLeases EXCEPT ![g][p] = NoOwner]
  BY DEF Release
<1>3. /\ mLeases' \in [Games -> [Players -> PlayerLeaseOwner \cup {NoOwner}]] /\ mLeases'[g][p] = NoOwner
      /\ \A k \in Games, q \in Players : k # g \/ q # p => mLeases'[k][q] = mLeases[k][q]
  <2>1. NoOwner \in PlayerLeaseOwner \cup {NoOwner}
    OBVIOUS
  <2> QED
    BY <1>1, <1>2, <2>1, PairReplaced DEF LeaseTypeOK
<1>4. mRedis' # [mRedis EXCEPT ![g] = "broken"]
  <2>1. SUFFICES ASSUME mRedis' = [mRedis EXCEPT ![g] = "broken"] PROVE FALSE
    OBVIOUS
  <2>2. mRedis'[g] = "broken"
    BY <1>1, <2>1 DEF LeaseTypeOK
  <2> QED
    BY <2>2 DEF ReliableRedis
<1>5. mRedis' = mRedis /\ (redis' = redis \/ redis' = AfterDelete(g, {p}))
  BY <1>4 DEF Release
<1>6. redis' \in [Players -> PlayerLeaseOwner \cup {NoOwner}]
  BY <1>1, <1>5 DEF LeaseTypeOK, AfterDelete
<1>7. ASSUME NEW k \in Games, NEW q \in Players, k # g \/ q # p, IsHeldLocally(k, q)
      PROVE  redis'[q] = redis[q]
  <2>1. CASE redis' = redis
    BY <2>1
  <2>2. CASE redis' = AfterDelete(g, {p})
    <3>1. ~(q \in {p} /\ KeyIsMine(g, q))
      BY <1>7, OtherHolder DEF KeyIsMine
    <3> QED
      BY <2>2, <3>1 DEF AfterDelete
  <2> QED
    BY <1>5, <2>1, <2>2
<1>8. LeaseTypeOK'
  BY <1>1, <1>2, <1>3, <1>5, <1>6 DEF LeaseTypeOK
<1>9. HeldOK(g, p)' /\ ~IsHeldLocally(g, p)'
  BY <1>3 DEF HeldOK, IsHeldLocally
<1> QED
  BY <1>2, <1>3, <1>5, <1>7, <1>8, <1>9 DEF LeaseMoves

\* Nothing that LeaseOK speaks of changes.
LeaseSame(g, p) ==
    /\ session'[g][p].state = session[g][p].state
    /\ Loaded(g, p)' <=> Loaded(g, p)
    /\ p \in runtime'[g] <=> p \in runtime[g]
    /\ bound'[g][p] = bound[g][p]
    /\ IsHeldLocally(g, p)' <=> IsHeldLocally(g, p)
    /\ HeldOK(g, p)'
    /\ \A t \in Threads : \/ call'[g][t] = call[g][t]
                          \/ Neutral(call[g][t], p) /\ Neutral(call'[g][t], p)

LEMMA LeaseSameKept ==
    ASSUME NEW g \in Games, NEW p \in Players, LeaseOK(g, p), LeaseSame(g, p)
    PROVE  LeaseOK(g, p)'
<1>1. Handlers \subseteq Threads /\ "console" \in Threads
  BY DEF Threads
<1>2. KeptOK(g, p)'
  BY DEF LeaseOK, KeptOK, LeaseSame
<1>3. HoldingSteps \subseteq ActivateSteps
  BY DEF HoldingSteps, ActivateSteps
<1>4. StateHolds(g, p)'
  <2>1. session'[g][p].state = "unloading" => Doing(call'[g]["console"], p, ReleaseSteps \ {"begin"})
    BY <1>1 DEF LeaseOK, StateHolds, LeaseSame, Neutral, Doing
  <2>2. ASSUME session'[g][p].state = "none", IsHeldLocally(g, p)'
        PROVE  \E t \in Handlers : Doing(call'[g][t], p, HoldingSteps)
    <3>1. PICK t \in Handlers : Doing(call[g][t], p, HoldingSteps)
      BY <2>2 DEF LeaseOK, StateHolds, LeaseSame
    <3>2. ~Neutral(call[g][t], p)
      BY <1>3, <3>1 DEF Neutral, Doing
    <3> QED
      BY <1>1, <3>1, <3>2 DEF LeaseSame
  <2> QED
    BY <2>1, <2>2 DEF StateHolds
<1>5. ASSUME NEW t \in Handlers PROVE ActivationHolds(g, p, call[g][t])'
  <2>1. CASE call'[g][t] = call[g][t]
    BY <2>1 DEF LeaseOK, ActivationHolds, LeaseSame
  <2>2. CASE Neutral(call'[g][t], p)
    BY <2>2 DEF ActivationHolds, Neutral, Doing
  <2> QED
    BY <1>1, <2>1, <2>2 DEF LeaseSame
<1>6. ReleaseHolds(g, p, call[g]["console"])'
  <2>1. CASE call'[g]["console"] = call[g]["console"]
    BY <2>1 DEF LeaseOK, ReleaseHolds, LeaseSame
  <2>2. CASE Neutral(call'[g]["console"], p)
    BY <2>2 DEF ReleaseHolds, Neutral, Doing
  <2> QED
    BY <1>1, <2>1, <2>2 DEF LeaseSame
<1> QED
  BY <1>2, <1>4, <1>5, <1>6 DEF LeaseOK

\* What is left to show of a step of one thread for one player.
LEMMA LeaseStep ==
    ASSUME GameTypes, LeaseInv, NEW g \in Games, NEW t \in Threads, NEW p \in Players, Confined(g, t, p),
           LeaseMoves(g, p), NoReconcile(call'[g][t]), LeaseOK(g, p)'
    PROVE  LeaseInv'
<1>1. LeaseTypeOK' /\ \A k \in Games : mRedis'[k] # "broken"
  BY DEF LeaseInv, LeaseMoves
<1>2. /\ \A k \in Games, q \in Players : k # g \/ q # p =>
            /\ session'[k][q] = session[k][q] /\ repo'[k][q] = repo[k][q]
            /\ bound'[k][q] = bound[k][q] /\ (q \in runtime'[k] <=> q \in runtime[k])
      /\ \A k \in Games, u \in Threads : k # g \/ u # t => call'[k][u] = call[k][u]
      /\ call'[g][t] # NoCall => call'[g][t].player = p
      /\ call[g][t] # NoCall => call[g][t].player = p
  BY ConfinedFacts DEF Confined, CallMoves
<1>3. ASSUME NEW k \in Games, NEW u \in Threads PROVE NoReconcile(call[k][u])'
  BY <1>2 DEF LeaseInv, NoReconcile
<1>4. ASSUME NEW k \in Games, NEW q \in Players, k # g \/ q # p
      PROVE  LeaseOK(k, q)'
  <2>1. Loaded(k, q)' <=> Loaded(k, q)
    BY <1>2, <1>4 DEF Loaded, Present
  <2>2. \A u \in Threads : \/ call'[k][u] = call[k][u]
                           \/ Neutral(call[k][u], q) /\ Neutral(call'[k][u], q)
    BY <1>2, <1>4 DEF Neutral, Doing
  <2>3. (IsHeldLocally(k, q)' <=> IsHeldLocally(k, q)) /\ HeldOK(k, q)'
    <3>1. HeldOK(k, q)
      BY DEF LeaseInv, LeaseOK, KeptOK
    <3>2. mLeases'[k][q] = mLeases[k][q] /\ (IsHeldLocally(k, q) => redis'[q] = redis[q])
      BY <1>4 DEF LeaseMoves
    <3> QED
      BY <3>1, <3>2 DEF LeaseMoves, HeldOK, IsHeldLocally
  <2>4. LeaseSame(k, q)
    BY <1>2, <1>4, <2>1, <2>2, <2>3 DEF LeaseSame
  <2> QED
    BY <2>4, LeaseSameKept DEF LeaseInv
<1> QED
  BY <1>1, <1>3, <1>4 DEF LeaseInv
\* A call that has ended holds nothing.
LEMMA NoCallLease ==
    ASSUME NEW g, NEW p
    PROVE  /\ NoReconcile(NoCall) /\ ActivationHolds(g, p, NoCall)' /\ ReleaseHolds(g, p, NoCall)'
  BY DEF NoReconcile, ActivationHolds, ReleaseHolds, Doing

\* A step of a handler for a player that is not being released.
LEMMA HandlerLease ==
    ASSUME MemoryInv, LeaseInv, LeasesKept, NEW g \in Games, NEW t \in Handlers, NEW p \in Players,
           Confined(g, t, p), LeaseMoves(g, p), NoReconcile(call'[g][t]),
           session[g][p].state # "unloading", session'[g][p].state # "unloading",
           Loaded(g, p)' => IsHeldLocally(g, p)', bound'[g][p] # "other",
           InServiceState(session'[g][p].state) => IsHeldLocally(g, p)' /\ bound'[g][p] = "self",
           ActivationHolds(g, p, call[g][t])',
           session'[g][p].state = "none" /\ IsHeldLocally(g, p)' => Doing(call'[g][t], p, HoldingSteps)
    PROVE  LeaseInv'
<1>1. t \in Threads /\ "console" \in Threads /\ t # "console" /\ GameTypes /\ MemoryOK(g, p)
  BY SessionAssumption DEF Threads, MemoryInv
<1>2. call'[g]["console"] = call[g]["console"]
  BY <1>1, ConfinedFacts
<1>3. ReleaseHolds(g, p, call[g]["console"])'
  BY <1>1, <1>2 DEF MemoryOK, ReleaseOK, ReleaseHolds
<1>4. KeptOK(g, p)' /\ StateHolds(g, p)'
  BY DEF KeptOK, StateHolds, LeaseMoves
<1>5. \A u \in Handlers : ActivationHolds(g, p, call[g][u])'
  BY DEF LeasesKept, OneActivator
<1>6. LeaseOK(g, p)'
  BY <1>3, <1>4, <1>5 DEF LeaseOK
<1> QED
  BY <1>1, <1>6, LeaseStep

\* A step of the console for a player that has a session.
LEMMA ConsoleLease ==
    ASSUME MemoryInv, LeaseInv, NEW g \in Games, NEW p \in Players,
           Confined(g, "console", p), LeaseMoves(g, p), NoReconcile(call'[g]["console"]),
           session[g][p].state # "none",
           Loaded(g, p)' => IsHeldLocally(g, p)', bound'[g][p] # "other",
           InServiceState(session'[g][p].state) => IsHeldLocally(g, p)' /\ bound'[g][p] = "self",
           ReleaseHolds(g, p, call[g]["console"])',
           session'[g][p].state = "unloading" => Doing(call'[g]["console"], p, ReleaseSteps \ {"begin"}),
           session'[g][p].state = "none" => ~IsHeldLocally(g, p)'
    PROVE  LeaseInv'
<1>1. "console" \in Threads /\ GameTypes /\ MemoryOK(g, p) /\ LeaseOK(g, p)
  BY DEF Threads, MemoryInv, LeaseInv
<1>2. \A u \in Handlers : u \in Threads /\ u # "console"
  BY SessionAssumption DEF Threads
<1>3. ASSUME NEW u \in Handlers PROVE ActivationHolds(g, p, call[g][u])'
  <2>1. call'[g][u] = call[g][u]
    BY <1>1, <1>2, ConfinedFacts
  <2>2. ActivationOK(g, p, call[g][u]) /\ ActivationHolds(g, p, call[g][u])
    BY <1>1 DEF MemoryOK, LeaseOK
  <2>3. ~Doing(call[g][u], p, ActivateSteps)
    BY <2>2 DEF ActivationOK, ActivationHolds
  <2> QED
    BY <2>1, <2>3 DEF ActivationHolds
<1>4. KeptOK(g, p)' /\ StateHolds(g, p)'
  BY DEF KeptOK, StateHolds, LeaseMoves
<1>5. LeaseOK(g, p)'
  BY <1>3, <1>4 DEF LeaseOK
<1> QED
  BY <1>1, <1>5, LeaseStep

\* A step that neither activates nor releases.
LEMMA NeutralLease ==
    ASSUME GameTypes, LeaseInv, NEW g \in Games, NEW t \in Threads, NEW p \in Players, Confined(g, t, p),
           UNCHANGED <<leaseVars, session, runtime, bound>>, Loaded(g, p)' <=> Loaded(g, p),
           Neutral(call[g][t], p), Neutral(call'[g][t], p), NoReconcile(call'[g][t])
    PROVE  LeaseInv'
<1>1. LeaseMoves(g, p) /\ (IsHeldLocally(g, p)' <=> IsHeldLocally(g, p))
  BY LeaseUnmoved
<1>2. \A u \in Threads : \/ call'[g][u] = call[g][u]
                         \/ Neutral(call[g][u], p) /\ Neutral(call'[g][u], p)
  BY ConfinedFacts
<1>3. LeaseSame(g, p)
  BY <1>1, <1>2 DEF LeaseSame, LeaseMoves
<1> QED
  BY <1>1, <1>3, LeaseSameKept, LeaseStep DEF LeaseInv

\* A player that is detached stays in service.
LEMMA DetachLease ==
    ASSUME MemoryInv, LeaseInv, NEW g \in Games, NEW t \in Threads, NEW p \in Players, Idle(g, t),
           InServiceState(session[g][p].state), SetSession(g, p, Detached),
           UNCHANGED <<leaseVars, repoVars, runtime, bound, call>>
    PROVE  LeaseInv'
<1>1. GameTypes /\ MemoryOK(g, p) /\ LeaseOK(g, p) /\ "console" \in Threads
  BY DEF MemoryInv, LeaseInv, Threads
<1>2. /\ Confined(g, t, p) /\ call'[g][t] = NoCall /\ session'[g][p].state = "detached"
      /\ Loaded(g, p)' <=> Loaded(g, p)
  BY <1>1, DetachFacts
<1>3. LeaseMoves(g, p) /\ (IsHeldLocally(g, p)' <=> IsHeldLocally(g, p))
  BY LeaseUnmoved
<1>4. session[g][p].state \notin {"none", "unloading"}
  BY DEF InServiceState
<1>5. KeptOK(g, p)' /\ StateHolds(g, p)'
  BY <1>1, <1>2, <1>3 DEF LeaseOK, KeptOK, StateHolds, LeaseMoves
<1>6. ASSUME NEW u \in Handlers PROVE ActivationHolds(g, p, call[g][u])'
  <2>1. ActivationOK(g, p, call[g][u]) /\ ActivationHolds(g, p, call[g][u])
    BY <1>1 DEF MemoryOK, LeaseOK
  <2> QED
    BY <1>4, <2>1 DEF ActivationOK, ActivationHolds
<1>7. ReleaseHolds(g, p, call[g]["console"])'
  BY <1>1, <1>4 DEF MemoryOK, ReleaseOK, ReleaseHolds
<1>8. LeaseOK(g, p)'
  BY <1>5, <1>6, <1>7 DEF LeaseOK
<1> QED
  BY <1>1, <1>2, <1>3, <1>8, NoCallLease, LeaseStep

LEMMA BindLease ==
    ASSUME MemoryInv, LeaseInv, LeasesKept, NEW g \in Games, NEW p \in Players, BindCommand(g, p)
    PROVE  LeaseInv'
<1>1. GameTypes /\ LeaseOK(g, p) /\ "console" \in Threads /\ Handlers \subseteq Threads
  BY DEF MemoryInv, LeaseInv, Threads
<1>2. /\ Confined(g, "console", p) /\ (Loaded(g, p)' <=> Loaded(g, p))
      /\ UNCHANGED <<leaseVars, session, runtime>> /\ bound'[g][p] = "self"
      /\ call[g]["console"] = NoCall /\ call'[g]["console"] = NoCall
  BY <1>1, BindCommandFacts DEF LeasesKept
<1>3. LeaseMoves(g, p) /\ (IsHeldLocally(g, p)' <=> IsHeldLocally(g, p))
  BY <1>2, LeaseUnmoved
<1>4. \A u \in Handlers : call'[g][u] = call[g][u]
  BY <1>1, <1>2, ConfinedFacts
<1>5. KeptOK(g, p)'
  BY <1>1, <1>2, <1>3 DEF LeaseOK, KeptOK, LeaseMoves
<1>6. StateHolds(g, p)'
  BY <1>1, <1>2, <1>3, <1>4 DEF LeaseOK, StateHolds
<1>7. ASSUME NEW u \in Handlers PROVE ActivationHolds(g, p, call[g][u])'
  BY <1>1, <1>2, <1>3, <1>4 DEF LeaseOK, ActivationHolds
<1>8. LeaseOK(g, p)'
  BY <1>2, <1>5, <1>6, <1>7, NoCallLease DEF LeaseOK
<1> QED
  BY <1>1, <1>2, <1>3, <1>8, NoCallLease, LeaseStep
LEMMA ActivatorLease ==
    ASSUME MemoryInv, LeaseInv, NEW g \in Games, NEW t \in Threads, NEW p \in Players,
           NEW pc \in ActivateSteps, Busy(g, t, p, pc)
    PROVE  /\ t \in Handlers /\ LeaseOK(g, p) /\ ActivationHolds(g, p, call[g][t])
           /\ session[g][p].state = "none" /\ ~call[g][t].reuse
           /\ pc \in HoldingSteps \cup {"acquire"} /\ (pc \in HoldingSteps => IsHeldLocally(g, p))
<1>1. t \in Handlers /\ ActivationOK(g, p, call[g][t])
  BY ActivatorFacts
<1>2. LeaseOK(g, p) /\ ActivationHolds(g, p, call[g][t])
  BY <1>1 DEF LeaseInv, LeaseOK
<1> QED
  BY <1>1, <1>2 DEF ActivationOK, ActivationHolds, Doing, Busy

\* A step of an activation that holds the lease.
LEMMA HoldingLease ==
    ASSUME MemoryInv, LeaseInv, LeasesKept, NEW g \in Games, NEW t \in Threads, NEW p \in Players,
           NEW from \in HoldingSteps, Busy(g, t, p, from), Confined(g, t, p),
           UNCHANGED <<leaseVars, session>>, bound'[g][p] # "other",
           NEW to \in HoldingSteps, GoesTo(g, t, p, to),
           to \in {"load", "rollbackLoad"} => ~Loaded(g, p)',
           to \in {"bind", "ensure", "emplace", "commit"} => Loaded(g, p)',
           to \in {"ensure", "emplace", "commit"} => bound'[g][p] = "self"
    PROVE  LeaseInv'
<1>0. HoldingSteps \subseteq ActivateSteps /\ "reconcileUnbind" \notin HoldingSteps /\ "reconcileCommit" \notin HoldingSteps
  BY DEF HoldingSteps, ActivateSteps
<1>1. /\ t \in Handlers /\ session[g][p].state = "none" /\ ~call[g][t].reuse /\ IsHeldLocally(g, p)
  BY <1>0, ActivatorLease
<1>2. LeaseMoves(g, p) /\ IsHeldLocally(g, p)'
  BY <1>1, LeaseUnmoved
<1>3. ActivationHolds(g, p, call[g][t])' /\ Doing(call'[g][t], p, HoldingSteps)
  BY <1>1, <1>2 DEF ActivationHolds, GoesTo, Doing
<1>4. NoReconcile(call'[g][t])
  BY <1>0 DEF NoReconcile, GoesTo
<1>5. session'[g][p].state = "none" /\ ~InServiceState(session'[g][p].state)
  BY <1>1 DEF InServiceState
<1> QED
  BY <1>1, <1>2, <1>3, <1>4, <1>5, HandlerLease

LEMMA CheckLease ==
    ASSUME MemoryInv, LeaseInv, LeasesKept, NEW g \in Games, NEW t \in Handlers, NEW p \in Players,
           NEW gate \in GateSessions, ActivateCheck(g, t, p, gate)
    PROVE  LeaseInv'
<1>0. t \in Threads /\ GameTypes /\ MemoryOK(g, p) /\ LeaseOK(g, p)
  BY DEF Threads, MemoryInv, LeaseInv
<1>1. /\ Confined(g, t, p) /\ call[g][t] = NoCall
      /\ UNCHANGED <<leaseVars, repoVars, runtime, bound>>
      /\ \/ /\ InServiceState(session[g][p].state) /\ IsHeldLocally(g, p)
            /\ session'[g][p].state = "online" /\ call'[g][t] = NoCall
         \/ /\ InServiceState(session[g][p].state) /\ ~IsHeldLocally(g, p)
         \/ /\ session[g][p].state = "none"
            /\ session' = session /\ Begins(g, t, p, "acquire", FALSE)
  BY <1>0, CheckFacts
<1>2. LeaseMoves(g, p) /\ (IsHeldLocally(g, p)' <=> IsHeldLocally(g, p))
  BY <1>1, LeaseUnmoved
<1>3. Loaded(g, p)' <=> Loaded(g, p)
  BY <1>1, NothingMoves DEF repoVars
<1>4. (Loaded(g, p)' => IsHeldLocally(g, p)') /\ bound'[g][p] # "other"
  BY <1>0, <1>1, <1>2, <1>3 DEF LeaseOK, KeptOK
<1>5. CASE /\ InServiceState(session[g][p].state) /\ IsHeldLocally(g, p)
           /\ session'[g][p].state = "online" /\ call'[g][t] = NoCall
  <2>1. IsHeldLocally(g, p)' /\ bound'[g][p] = "self"
    BY <1>0, <1>1, <1>2, <1>5 DEF LeaseOK, KeptOK
  <2>2. session[g][p].state # "unloading" /\ session'[g][p].state \notin {"unloading", "none"}
    BY <1>5 DEF InServiceState
  <2> QED
    BY <1>1, <1>2, <1>4, <1>5, <2>1, <2>2, NoCallLease, HandlerLease
<1>6. CASE InServiceState(session[g][p].state) /\ ~IsHeldLocally(g, p)
  BY <1>0, <1>6 DEF LeaseOK, KeptOK
<1>7. CASE /\ session[g][p].state = "none"
           /\ session' = session /\ Begins(g, t, p, "acquire", FALSE)
  <2>1. ~IsHeldLocally(g, p)
    BY <1>0, <1>1, <1>7 DEF LeaseOK, StateHolds, LeasesKept, OneActivator, Doing
  <2>2. NoReconcile(call'[g][t]) /\ ActivationHolds(g, p, call[g][t])'
    BY <1>7 DEF NoReconcile, ActivationHolds, Begins, HoldingSteps
  <2>3. session[g][p].state # "unloading" /\ session'[g][p].state # "unloading" /\ ~InServiceState(session'[g][p].state)
    BY <1>7 DEF InServiceState
  <2> QED
    BY <1>1, <1>2, <1>4, <2>1, <2>2, <2>3, HandlerLease
<1> QED
  BY <1>1, <1>5, <1>6, <1>7

LEMMA AcquireLease ==
    ASSUME MemoryInv, LeaseInv, LeasesKept, NEW g \in Games, NEW t \in Threads, ActivateAcquire(g, t)
    PROVE  LeaseInv'
<1>1. GameTypes /\ ~LeaseFaults
  BY DEF MemoryInv, LeasesKept
<1>2. PICK p \in Players :
         /\ Busy(g, t, p, "acquire") /\ Confined(g, t, p)
         /\ UNCHANGED <<repoVars, session, runtime, bound>> /\ ReliableRedis
         /\ \/ Acquire(g, p, TRUE) /\ GoesTo(g, t, p, "load")
            \/ Acquire(g, p, FALSE) /\ call'[g][t] = NoCall
  BY <1>1, AcquireFacts
<1>3. /\ t \in Handlers /\ LeaseOK(g, p) /\ session[g][p].state = "none" /\ ~call[g][t].reuse
  BY <1>2, ActivatorLease DEF ActivateSteps
<1>4. ~IsHeldLocally(g, p) /\ ~Loaded(g, p) /\ bound[g][p] # "other"
  <2>1. ~IsHeldLocally(g, p)
    BY <1>2, <1>3 DEF LeaseOK, StateHolds, LeasesKept, OneActivator, Doing, Busy, HoldingSteps
  <2> QED
    BY <1>3, <2>1 DEF LeaseOK, KeptOK
<1>5. ~Loaded(g, p)' /\ bound'[g][p] # "other"
  BY <1>2, <1>4, NothingMoves DEF repoVars
<1>6. session[g][p].state # "unloading" /\ session'[g][p].state # "unloading" /\ ~InServiceState(session'[g][p].state)
  BY <1>2, <1>3 DEF InServiceState
<1>7. CASE Acquire(g, p, TRUE) /\ GoesTo(g, t, p, "load")
  <2>1. LeaseMoves(g, p) /\ IsHeldLocally(g, p)'
    BY <1>4, <1>7, AcquireMoves
  <2>2. NoReconcile(call'[g][t]) /\ ActivationHolds(g, p, call[g][t])' /\ Doing(call'[g][t], p, HoldingSteps)
    BY <1>3, <1>5, <1>7, <2>1 DEF NoReconcile, ActivationHolds, GoesTo, HoldingSteps, Doing
  <2> QED
    BY <1>2, <1>3, <1>5, <1>6, <2>1, <2>2, HandlerLease
<1>8. CASE Acquire(g, p, FALSE) /\ call'[g][t] = NoCall
  <2>1. UNCHANGED leaseVars
    BY <1>1, <1>2, <1>8, AcquireNothing
  <2>2. LeaseMoves(g, p) /\ ~IsHeldLocally(g, p)'
    BY <1>4, <2>1, LeaseUnmoved
  <2> QED
    BY <1>2, <1>3, <1>5, <1>6, <1>8, <2>2, NoCallLease, HandlerLease
<1> QED
  BY <1>2, <1>7, <1>8

LEMMA RollbackLeaseLease ==
    ASSUME MemoryInv, LeaseInv, LeasesKept, NEW g \in Games, NEW t \in Threads, ActivateRollbackLease(g, t)
    PROVE  LeaseInv'
<1>1. GameTypes /\ ~LeaseFaults
  BY DEF MemoryInv, LeasesKept
<1>2. PICK p \in Players, from \in {"rollbackLoad", "rollbackUnbound", "rollbackLease"} :
         /\ Busy(g, t, p, from) /\ Confined(g, t, p)
         /\ UNCHANGED <<repoVars, session, runtime, bound>>
         /\ Loaded(g, p)' <=> Loaded(g, p)
         /\ Release(g, p) /\ ReliableRedis
  BY <1>1, RollbackLeaseFacts
<1>3. from \in ActivateSteps
  BY DEF ActivateSteps
<1>4. /\ t \in Handlers /\ LeaseOK(g, p) /\ session[g][p].state = "none" /\ ~call[g][t].reuse
      /\ ActivationHolds(g, p, call[g][t]) /\ from \in HoldingSteps \cup {"acquire"}
  BY <1>2, <1>3, ActivatorLease
<1>5. from = "rollbackLoad"
  BY <1>4 DEF HoldingSteps
<1>6. ~Loaded(g, p) /\ bound[g][p] # "other"
  BY <1>2, <1>3, <1>4, <1>5 DEF ActivationHolds, Doing, Busy, LeaseOK, KeptOK
<1>7. LeaseMoves(g, p) /\ ~IsHeldLocally(g, p)'
  BY <1>1, <1>2, ReleaseMoves
<1>8. call'[g][t] = NoCall
  <2>1. At(g, t, "rollbackLoad") /\ Return(g, t)
    BY <1>2, <1>5 DEF ActivateRollbackLease, At, Busy
  <2> QED
    BY <1>1, <1>2, <2>1, ReturnMoves
<1>9. session'[g][p].state # "unloading" /\ ~InServiceState(session'[g][p].state)
  BY <1>2, <1>4 DEF InServiceState
<1> QED
  BY <1>2, <1>4, <1>6, <1>7, <1>8, <1>9, NoCallLease, HandlerLease

LEMMA CommitLease ==
    ASSUME MemoryInv, LeaseInv, LeasesKept, NEW g \in Games, NEW t \in Threads, ActivateCommit(g, t)
    PROVE  LeaseInv'
<1>1. GameTypes
  BY DEF MemoryInv
<1>2. PICK p \in Players :
         /\ Busy(g, t, p, "commit") /\ Confined(g, t, p)
         /\ UNCHANGED <<runtime, bound>> /\ call'[g][t] = NoCall
         /\ Loaded(g, p)' <=> Loaded(g, p)
         /\ \/ call[g][t].reuse
            \/ session'[g][p].state = "online" /\ UNCHANGED leaseVars
  BY <1>1, CommitFacts
<1>3. /\ t \in Handlers /\ session[g][p].state = "none" /\ ~call[g][t].reuse /\ LeaseOK(g, p)
      /\ ActivationHolds(g, p, call[g][t]) /\ IsHeldLocally(g, p)
  BY <1>2, ActivatorLease DEF ActivateSteps, HoldingSteps
<1>4. LeaseMoves(g, p) /\ IsHeldLocally(g, p)'
  BY <1>2, <1>3, LeaseUnmoved
<1>5. bound'[g][p] = "self"
  BY <1>2, <1>3 DEF ActivationHolds, Doing, Busy, ActivateSteps
<1> QED
  BY <1>2, <1>3, <1>4, <1>5, NoCallLease, HandlerLease

LEMMA ActivateLease ==
    ASSUME MemoryInv, LeaseInv, LeasesKept, NEW g \in Games, NEW t \in Threads, ActivateStep(g, t)
    PROVE  LeaseInv'
<1>1. GameTypes
  BY DEF MemoryInv
<1>2. /\ "load" \in HoldingSteps /\ "bind" \in HoldingSteps /\ "ensure" \in HoldingSteps
      /\ "emplace" \in HoldingSteps /\ "commit" \in HoldingSteps /\ "rollbackLoad" \in HoldingSteps
      /\ HoldingSteps \subseteq ActivateSteps
  BY DEF HoldingSteps, ActivateSteps
<1>3. ASSUME NEW p \in Players, NEW pc \in HoldingSteps, Busy(g, t, p, pc)
      PROVE  /\ ~call[g][t].reuse /\ bound[g][p] # "other"
             /\ pc \in {"load", "rollbackLoad"} => ~Loaded(g, p)
             /\ pc \in {"bind", "ensure", "emplace", "commit"} => Loaded(g, p)
             /\ pc \in {"ensure", "emplace", "commit"} => bound[g][p] = "self"
  <2>1. LeaseOK(g, p) /\ ActivationHolds(g, p, call[g][t])
    BY <1>2, <1>3, ActivatorLease
  <2> QED
    BY <1>2, <1>3, <2>1 DEF ActivationHolds, Doing, Busy, LeaseOK, KeptOK
<1>4. CASE ActivateLoad(g, t)
  <2>1. PICK p \in Players :
           /\ Busy(g, t, p, "load") /\ Confined(g, t, p)
           /\ UNCHANGED <<leaseVars, session, runtime, bound>>
           /\ \/ call[g][t].reuse
              \/ Loaded(g, p)' /\ GoesTo(g, t, p, "bind")
              \/ (Loaded(g, p)' <=> Loaded(g, p)) /\ GoesTo(g, t, p, "rollbackLoad")
    BY <1>1, <1>4, ActivateLoadFacts
  <2>2. ~call[g][t].reuse /\ bound'[g][p] # "other" /\ ~Loaded(g, p)
    BY <1>2, <1>3, <2>1
  <2> QED
    BY <1>2, <2>1, <2>2, HoldingLease
<1>5. CASE ActivateBind(g, t)
  <2>1. PICK p \in Players :
           /\ Busy(g, t, p, "bind") /\ Confined(g, t, p)
           /\ UNCHANGED <<leaseVars, repoVars, session, runtime>>
           /\ \/ bound[g][p] = "other"
              \/ bound'[g][p] = "self" /\ GoesTo(g, t, p, "ensure")
    BY <1>1, <1>5, BindFacts
  <2>2. bound'[g][p] = "self" /\ GoesTo(g, t, p, "ensure") /\ Loaded(g, p)
    BY <1>2, <1>3, <2>1
  <2>3. Loaded(g, p)'
    BY <2>1, <2>2, NothingMoves DEF repoVars
  <2> QED
    BY <1>2, <2>1, <2>2, <2>3, HoldingLease
<1>6. CASE ActivateEnsure(g, t)
  <2>1. PICK p \in Players :
           /\ Busy(g, t, p, "ensure") /\ Confined(g, t, p)
           /\ UNCHANGED <<leaseVars, session, bound>> /\ (Loaded(g, p)' <=> Loaded(g, p))
           /\ GoesTo(g, t, p, "emplace") \/ ~Loaded(g, p)
    BY <1>1, <1>6, EnsureFacts
  <2>2. Loaded(g, p) /\ bound'[g][p] = "self"
    BY <1>2, <1>3, <2>1
  <2> QED
    BY <1>2, <2>1, <2>2, HoldingLease
<1>7. CASE ActivateEmplace(g, t)
  <2>1. PICK p \in Players :
           /\ Busy(g, t, p, "emplace") /\ Confined(g, t, p)
           /\ UNCHANGED <<leaseVars, session, bound>> /\ (Loaded(g, p)' <=> Loaded(g, p))
           /\ GoesTo(g, t, p, "commit")
    BY <1>1, <1>7, EmplaceFacts
  <2>2. Loaded(g, p) /\ bound'[g][p] = "self"
    BY <1>2, <1>3, <2>1
  <2> QED
    BY <1>2, <2>1, <2>2, HoldingLease
<1>8. CASE ActivateRollbackBind(g, t)
  <2>1. PICK p \in Players : Busy(g, t, p, "rollbackBind")
    BY <1>1, <1>8, RollbackBindFacts
  <2> QED
    BY <2>1, ActivatorLease DEF HoldingSteps, ActivateSteps
<1>9. CASE ActivateRollbackRecord(g, t)
  <2>1. PICK p \in Players : Busy(g, t, p, "rollbackRecord")
    BY <1>1, <1>9, RollbackRecordFacts
  <2> QED
    BY <2>1, ActivatorLease DEF HoldingSteps, ActivateSteps
<1> QED
  BY <1>4, <1>5, <1>6, <1>7, <1>8, <1>9, AcquireLease, CommitLease, RollbackLeaseLease DEF ActivateStep
LEMMA ReleaserLease ==
    ASSUME MemoryInv, LeaseInv, NEW g \in Games, NEW p \in Players,
           NEW pc \in ReleaseSteps \ {"begin"}, Busy(g, "console", p, pc)
    PROVE  /\ LeaseOK(g, p) /\ session[g][p].state = "unloading" /\ bound[g][p] # "other"
           /\ InServiceState(call[g]["console"].prev.state)
           /\ pc \in {"check", "flush", "restore", "unbind"} => bound[g][p] = "self" /\ p \in runtime[g]
           /\ pc \in {"check", "flush", "restore", "unbind", "remove", "drop"} =>
                 Loaded(g, p) /\ IsHeldLocally(g, p)
           /\ pc = "release" => IsHeldLocally(g, p) /\ ~Loaded(g, p)
           /\ pc = "erase" => ~IsHeldLocally(g, p) /\ ~Loaded(g, p)
<1>1. LeaseOK(g, p) /\ session[g][p].state = "unloading" /\ ReleaseHolds(g, p, call[g]["console"])
  BY ReleaserFacts DEF LeaseInv, LeaseOK
<1>2. KeptOK(g, p)
  BY <1>1 DEF LeaseOK
<1> QED
  BY <1>1, <1>2 DEF ReleaseHolds, KeptOK, Doing, Busy

\* A step of a release that goes on.
LEMMA ReleaseGoesOn ==
    ASSUME MemoryInv, LeaseInv, NEW g \in Games, NEW p \in Players,
           NEW from \in ReleaseSteps \ {"begin"}, Busy(g, "console", p, from), Confined(g, "console", p),
           LeaseMoves(g, p), session' = session, bound'[g][p] # "other",
           Loaded(g, p)' => IsHeldLocally(g, p)',
           NEW to \in ReleaseSteps \ {"begin"}, GoesTo(g, "console", p, to),
           to \in {"check", "flush", "restore", "unbind"} => bound'[g][p] = "self" /\ p \in runtime'[g],
           to \in {"check", "flush", "restore", "unbind", "remove", "drop"} => Loaded(g, p)',
           to = "release" => IsHeldLocally(g, p)' /\ ~Loaded(g, p)',
           to = "erase" => ~IsHeldLocally(g, p)'
    PROVE  LeaseInv'
<1>1. session[g][p].state = "unloading" /\ InServiceState(call[g]["console"].prev.state)
  BY ReleaserLease
<1>2. ReleaseHolds(g, p, call[g]["console"])'
  BY <1>1 DEF ReleaseHolds, GoesTo
<1>3. Doing(call'[g]["console"], p, ReleaseSteps \ {"begin"}) /\ NoReconcile(call'[g]["console"])
  BY DEF Doing, GoesTo, NoReconcile, ReleaseSteps
<1>4. session[g][p].state # "none" /\ session'[g][p].state # "none" /\ ~InServiceState(session'[g][p].state)
  BY <1>1 DEF InServiceState
<1> QED
  BY <1>2, <1>3, <1>4, ConsoleLease

LEMMA UnloadingLease ==
    ASSUME MemoryInv, LeaseInv, NEW g \in Games, NEW p \in Players, StartUnloading(g, p),
           call[g]["console"] # NoCall => call[g]["console"].player = p /\ call[g]["console"].pc = "begin",
           UNCHANGED <<leaseVars, repoVars, runtime, bound>>
    PROVE  LeaseInv'
<1>1. GameTypes /\ MemoryOK(g, p) /\ LeaseOK(g, p) /\ session[g][p] \in PlayerSessionRecord
  BY TypeFacts DEF MemoryInv, LeaseInv
<1>2. /\ Confined(g, "console", p) /\ (Loaded(g, p)' <=> Loaded(g, p))
      /\ session[g][p].state # "none" /\ session'[g][p].state = "unloading"
      /\ call'[g]["console"] # NoCall
      /\ call'[g]["console"].pc = "check" /\ call'[g]["console"].player = p
      /\ call'[g]["console"].prev = session[g][p]
  BY <1>1, UnloadingFacts
<1>3. session[g][p].state # "unloading"
  BY <1>1 DEF LeaseOK, StateHolds, Doing
<1>4. InServiceState(session[g][p].state)
  BY <1>1, <1>2, <1>3, RecordTypes DEF InServiceState
<1>5. /\ Loaded(g, p) /\ p \in runtime[g] /\ IsHeldLocally(g, p) /\ bound[g][p] = "self"
  BY <1>1, <1>4 DEF MemoryOK, HasData, LeaseOK, KeptOK
<1>6. LeaseMoves(g, p) /\ IsHeldLocally(g, p)'
  BY <1>5, LeaseUnmoved
<1>7. ReleaseHolds(g, p, call[g]["console"])' /\ NoReconcile(call'[g]["console"])
  BY <1>2, <1>4, <1>5 DEF ReleaseHolds, NoReconcile
<1>8. Doing(call'[g]["console"], p, ReleaseSteps \ {"begin"}) /\ ~InServiceState(session'[g][p].state)
  BY <1>2 DEF Doing, ReleaseSteps, InServiceState
<1> QED
  BY <1>2, <1>5, <1>6, <1>7, <1>8, ConsoleLease

LEMMA ReleaseStepLease ==
    ASSUME MemoryInv, LeaseInv, LeasesKept, NEW g \in Games, ReleaseStep(g)
    PROVE  LeaseInv'
<1>1. GameTypes /\ "console" \in Threads /\ ~LeaseFaults
  BY DEF MemoryInv, Threads, LeasesKept
<1>2. /\ "check" \in ReleaseSteps \ {"begin"} /\ "flush" \in ReleaseSteps \ {"begin"}
      /\ "restore" \in ReleaseSteps \ {"begin"} /\ "unbind" \in ReleaseSteps \ {"begin"}
      /\ "remove" \in ReleaseSteps \ {"begin"} /\ "drop" \in ReleaseSteps \ {"begin"}
      /\ "release" \in ReleaseSteps \ {"begin"} /\ "erase" \in ReleaseSteps \ {"begin"}
  BY DEF ReleaseSteps
<1>3. CASE ExpireBegin(g)
  <2>1. PICK p \in Players : p = Player(g, "console") /\ Busy(g, "console", p, "begin")
    BY <1>1, <1>3, AtBusy DEF ExpireBegin
  <2>2. CASE StartUnloading(g, p)
    BY <1>3, <2>1, <2>2, UnloadingLease DEF ExpireBegin, Busy
  <2>3. CASE Return(g, "console") /\ UNCHANGED session
    <3>1. UNCHANGED <<leaseVars, repoVars, sessionVars>>
      BY <1>3, <2>3 DEF ExpireBegin, sessionVars
    <3>2. "erase" \in Steps
      BY DEF Steps, ReleaseSteps
    <3>3. call'[g]["console"] = NoCall
      BY <1>1, <2>1, <2>3, ReturnMoves
    <3>4. /\ Confined(g, "console", p) /\ (Loaded(g, p)' <=> Loaded(g, p))
          /\ UNCHANGED <<leaseVars, session, runtime, bound>>
      BY <1>1, <2>1, <2>3, <3>1, <3>2, GoOnly
    <3>5. Neutral(call[g]["console"], p)
      BY <2>1 DEF Neutral, Doing, Busy, ActivateSteps
    <3> QED
      BY <1>1, <3>3, <3>4, <3>5, NoCallFacts, NoCallLease, NeutralLease
  <2> QED
    BY <1>3, <2>1, <2>2, <2>3 DEF ExpireBegin
<1>4. CASE ReleaseCheck(g)
  <2>1. PICK p \in Players :
           /\ Busy(g, "console", p, "check") /\ Confined(g, "console", p)
           /\ UNCHANGED <<leaseVars, session, runtime, bound>> /\ (Loaded(g, p)' <=> Loaded(g, p))
           /\ GoesTo(g, "console", p, "flush") \/ GoesTo(g, "console", p, "unbind")
    BY <1>1, <1>4, ReleaseCheckFacts
  <2>2. Loaded(g, p) /\ IsHeldLocally(g, p) /\ bound[g][p] = "self" /\ p \in runtime[g]
    BY <1>2, <2>1, ReleaserLease
  <2>3. LeaseMoves(g, p) /\ IsHeldLocally(g, p)'
    BY <2>1, <2>2, LeaseUnmoved
  <2> QED
    BY <1>2, <2>1, <2>2, <2>3, ReleaseGoesOn
<1>5. CASE ReleaseFlush(g)
  <2>1. PICK p \in Players :
           /\ Busy(g, "console", p, "flush") /\ Confined(g, "console", p)
           /\ UNCHANGED <<leaseVars, session, runtime, bound>> /\ (Loaded(g, p)' <=> Loaded(g, p))
           /\ GoesTo(g, "console", p, "unbind") \/ GoesTo(g, "console", p, "restore")
    BY <1>1, <1>5, ReleaseFlushFacts
  <2>2. Loaded(g, p) /\ IsHeldLocally(g, p) /\ bound[g][p] = "self" /\ p \in runtime[g]
    BY <1>2, <2>1, ReleaserLease
  <2>3. LeaseMoves(g, p) /\ IsHeldLocally(g, p)'
    BY <2>1, <2>2, LeaseUnmoved
  <2> QED
    BY <1>2, <2>1, <2>2, <2>3, ReleaseGoesOn
<1>6. CASE ReleaseRestore(g)
  <2>1. PICK p \in Players :
           /\ Busy(g, "console", p, "restore") /\ Confined(g, "console", p)
           /\ UNCHANGED <<leaseVars, runtime, bound>> /\ call'[g]["console"] = NoCall
           /\ Loaded(g, p)' <=> Loaded(g, p)
           /\ session[g][p].state = "none" \/ session'[g][p] = call[g]["console"].prev
    BY <1>1, <1>6, ReleaseRestoreFacts
  <2>2. /\ Loaded(g, p) /\ IsHeldLocally(g, p) /\ bound[g][p] = "self"
        /\ session[g][p].state = "unloading" /\ InServiceState(call[g]["console"].prev.state)
    BY <1>2, <2>1, ReleaserLease
  <2>3. LeaseMoves(g, p) /\ IsHeldLocally(g, p)'
    BY <2>1, <2>2, LeaseUnmoved
  <2>4. InServiceState(session'[g][p].state)
    BY <2>1, <2>2
  <2>5. session'[g][p].state \notin {"none", "unloading"}
    BY <2>4 DEF InServiceState
  <2> QED
    BY <2>1, <2>2, <2>3, <2>5, NoCallLease, ConsoleLease
<1>7. CASE ReleaseUnbind(g)
  <2>1. PICK p \in Players :
           /\ Busy(g, "console", p, "unbind") /\ Confined(g, "console", p)
           /\ UNCHANGED <<leaseVars, session, runtime>> /\ (Loaded(g, p)' <=> Loaded(g, p))
           /\ bound'[g][p] \in {"nobody", bound[g][p]}
           /\ GoesTo(g, "console", p, "remove") \/ bound[g][p] # "self"
    BY <1>1, <1>7, ReleaseUnbindFacts
  <2>2. Loaded(g, p) /\ IsHeldLocally(g, p) /\ bound[g][p] = "self"
    BY <1>2, <2>1, ReleaserLease
  <2>3. LeaseMoves(g, p) /\ IsHeldLocally(g, p)'
    BY <2>1, <2>2, LeaseUnmoved
  <2> QED
    BY <1>2, <2>1, <2>2, <2>3, ReleaseGoesOn
<1>8. CASE ReleaseRemove(g)
  <2>1. PICK p \in Players :
           /\ Busy(g, "console", p, "remove") /\ Confined(g, "console", p)
           /\ UNCHANGED <<leaseVars, session, bound>> /\ (Loaded(g, p)' <=> Loaded(g, p))
           /\ GoesTo(g, "console", p, "drop")
    BY <1>1, <1>8, ReleaseRemoveFacts
  <2>2. Loaded(g, p) /\ IsHeldLocally(g, p) /\ bound[g][p] # "other"
    BY <1>2, <2>1, ReleaserLease
  <2>3. LeaseMoves(g, p) /\ IsHeldLocally(g, p)'
    BY <2>1, <2>2, LeaseUnmoved
  <2> QED
    BY <1>2, <2>1, <2>2, <2>3, ReleaseGoesOn
<1>9. CASE ReleaseDrop(g)
  <2>1. PICK p \in Players :
           /\ Busy(g, "console", p, "drop") /\ Confined(g, "console", p)
           /\ UNCHANGED <<leaseVars, session, runtime, bound>> /\ ~Loaded(g, p)'
           /\ GoesTo(g, "console", p, "release") \/ ~Present(g, p)
    BY <1>1, <1>9, ReleaseDropFacts
  <2>2. Loaded(g, p) /\ IsHeldLocally(g, p) /\ bound[g][p] # "other"
    BY <1>2, <2>1, ReleaserLease
  <2>3. LeaseMoves(g, p) /\ IsHeldLocally(g, p)'
    BY <2>1, <2>2, LeaseUnmoved
  <2>4. GoesTo(g, "console", p, "release")
    BY <2>1, <2>2 DEF Loaded
  <2> QED
    BY <1>2, <2>1, <2>2, <2>3, <2>4, ReleaseGoesOn
<1>10. CASE ReleaseLease(g)
  <2>1. PICK p \in Players :
           /\ Busy(g, "console", p, "release") /\ Confined(g, "console", p)
           /\ UNCHANGED <<session, runtime, bound>> /\ (Loaded(g, p)' <=> Loaded(g, p))
           /\ Release(g, p) /\ ReliableRedis /\ GoesTo(g, "console", p, "erase")
    BY <1>1, <1>10, ReleaseLeaseFacts
  <2>2. ~Loaded(g, p) /\ bound[g][p] # "other"
    BY <1>2, <2>1, ReleaserLease
  <2>3. LeaseMoves(g, p) /\ ~IsHeldLocally(g, p)'
    BY <1>1, <2>1, ReleaseMoves
  <2> QED
    BY <1>2, <2>1, <2>2, <2>3, ReleaseGoesOn
<1>11. CASE ReleaseErase(g)
  <2>1. PICK p \in Players :
           /\ Busy(g, "console", p, "erase") /\ Confined(g, "console", p)
           /\ UNCHANGED <<leaseVars, runtime, bound>> /\ (Loaded(g, p)' <=> Loaded(g, p))
           /\ session'[g][p].state = "none" /\ call'[g]["console"] = NoCall
    BY <1>1, <1>11, ReleaseEraseFacts
  <2>2. /\ ~IsHeldLocally(g, p) /\ ~Loaded(g, p) /\ bound[g][p] # "other"
        /\ session[g][p].state = "unloading"
    BY <1>2, <2>1, ReleaserLease
  <2>3. LeaseMoves(g, p) /\ ~IsHeldLocally(g, p)'
    BY <2>1, <2>2, LeaseUnmoved
  <2>4. ~InServiceState(session'[g][p].state)
    BY <2>1 DEF InServiceState
  <2> QED
    BY <2>1, <2>2, <2>3, <2>4, NoCallLease, ConsoleLease
<1> QED
  BY <1>3, <1>4, <1>5, <1>6, <1>7, <1>8, <1>9, <1>10, <1>11 DEF ReleaseStep
\* Operations that neither activate nor release.
LEMMA ScanLease ==
    ASSUME GameTypes, LeaseInv, NEW g \in Games, NEW t \in Threads, NEW p \in Players,
           NEW pc \in {"begin", "messageLease", "persistLease"},
           Idle(g, t), Enter(g, t, pc, p, 0, FALSE), UNCHANGED <<leaseVars, repoVars, sessionVars>>
    PROVE  LeaseInv'
<1>1. pc \in Steps /\ pc \notin ActivateSteps /\ pc \notin ReleaseSteps \ {"begin"}
  BY DEF Steps, ActivateSteps, ReleaseSteps, OtherSteps
<1>2. /\ Confined(g, t, p) /\ Begins(g, t, p, pc, FALSE)
      /\ UNCHANGED <<leaseVars, session, runtime, bound>> /\ (Loaded(g, p)' <=> Loaded(g, p))
  BY <1>1, EnterOnly
<1>3. NoReconcile(call'[g][t])
  BY <1>2 DEF NoReconcile, Begins
<1>4. Neutral(call'[g][t], p) /\ Neutral(call[g][t], p)
  BY <1>1, <1>2, NoCallFacts DEF Neutral, Doing, Begins
<1> QED
  BY <1>2, <1>3, <1>4, NeutralLease

LEMMA WorkLease ==
    ASSUME GameTypes, LeaseInv, NEW g \in Games, NEW t \in Threads, NEW p \in Players, NEW from \in OtherSteps,
           Busy(g, t, p, from), Confined(g, t, p), UNCHANGED <<leaseVars, session, runtime, bound>>,
           Loaded(g, p)' <=> Loaded(g, p),
           \/ call'[g][t] = NoCall
           \/ \E to \in {"messageApply", "persistFlush"} : GoesTo(g, t, p, to)
    PROVE  LeaseInv'
<1>1. \A pc \in OtherSteps : pc \notin ActivateSteps /\ pc \notin ReleaseSteps
  BY DEF OtherSteps, ActivateSteps, ReleaseSteps
<1>2. Neutral(call[g][t], p)
  BY <1>1 DEF Neutral, Doing, Busy
<1>3. Neutral(call'[g][t], p) /\ NoReconcile(call'[g][t])
  <2>1. CASE call'[g][t] = NoCall
    BY <2>1, NoCallFacts, NoCallLease
  <2>2. ASSUME NEW to \in {"messageApply", "persistFlush"}, GoesTo(g, t, p, to)
        PROVE  Neutral(call'[g][t], p) /\ NoReconcile(call'[g][t])
    <3>1. to \in OtherSteps
      BY DEF OtherSteps
    <3> QED
      BY <1>1, <2>2, <3>1 DEF Neutral, Doing, GoesTo, NoReconcile
  <2> QED
    BY <2>1, <2>2
<1> QED
  BY <1>2, <1>3, NeutralLease

LEMMA OtherLease ==
    ASSUME MemoryInv, LeaseInv, NEW g \in Games, NEW t \in Threads,
           \/ MessageLease(g, t) \/ MessageApply(g, t) \/ ReconcileUnbind(g, t)
           \/ ReconcileCommit(g, t) \/ PersistLease(g, t) \/ PersistFlush(g, t)
    PROVE  LeaseInv'
<1>1. GameTypes
  BY DEF MemoryInv
<1>2. /\ "messageLease" \in OtherSteps /\ "messageApply" \in OtherSteps
      /\ "persistLease" \in OtherSteps /\ "persistFlush" \in OtherSteps
      /\ "messageApply" \in Steps /\ "persistFlush" \in Steps
  BY DEF OtherSteps, Steps
<1>3. CASE MessageLease(g, t)
  <2>1. PICK p \in Players : p = Player(g, t) /\ Busy(g, t, p, "messageLease")
    BY <1>1, <1>3, AtBusy DEF MessageLease
  <2>2. /\ Goto(g, t, "messageApply") \/ Return(g, t)
        /\ UNCHANGED <<leaseVars, repoVars, sessionVars>>
    BY <1>3 DEF MessageLease
  <2>3. /\ Confined(g, t, p) /\ UNCHANGED <<leaseVars, session, runtime, bound>>
        /\ Loaded(g, p)' <=> Loaded(g, p)
        /\ GoesTo(g, t, p, "messageApply") \/ call'[g][t] = NoCall
    BY <1>1, <1>2, <2>1, <2>2, GoOnly
  <2> QED
    BY <1>1, <1>2, <2>1, <2>3, WorkLease
<1>4. CASE MessageApply(g, t)
  <2>1. PICK p \in Players : p = Player(g, t) /\ Busy(g, t, p, "messageApply")
    BY <1>1, <1>4, AtBusy DEF MessageApply
  <2>2. DataMoves(g, p) /\ Return(g, t) /\ UNCHANGED <<leaseVars, sessionVars>>
    BY <1>4, <2>1 DEF MessageApply, DataMoves
  <2>3. /\ Confined(g, t, p) /\ UNCHANGED <<leaseVars, session, runtime, bound>>
        /\ Loaded(g, p)' <=> Loaded(g, p)
        /\ call'[g][t] = NoCall
    BY <1>1, <2>1, <2>2, WorkFacts
  <2> QED
    BY <1>1, <1>2, <2>1, <2>3, WorkLease
<1>5. ~ReconcileUnbind(g, t) /\ ~ReconcileCommit(g, t)
  BY DEF LeaseInv, NoReconcile, ReconcileUnbind, ReconcileCommit, At
<1>6. CASE PersistLease(g, t)
  <2>1. PICK p \in Players : p = Player(g, t) /\ Busy(g, t, p, "persistLease")
    BY <1>1, <1>6, AtBusy DEF PersistLease
  <2>2. /\ Goto(g, t, "persistFlush") \/ Return(g, t)
        /\ UNCHANGED <<leaseVars, repoVars, sessionVars>>
    BY <1>6 DEF PersistLease
  <2>3. /\ Confined(g, t, p) /\ UNCHANGED <<leaseVars, session, runtime, bound>>
        /\ Loaded(g, p)' <=> Loaded(g, p)
        /\ GoesTo(g, t, p, "persistFlush") \/ call'[g][t] = NoCall
    BY <1>1, <1>2, <2>1, <2>2, GoOnly
  <2> QED
    BY <1>1, <1>2, <2>1, <2>3, WorkLease
<1>7. CASE PersistFlush(g, t)
  <2>1. PICK p \in Players : p = Player(g, t) /\ Busy(g, t, p, "persistFlush")
    BY <1>1, <1>7, AtBusy DEF PersistFlush
  <2>2. DataMoves(g, p) /\ Return(g, t) /\ UNCHANGED <<leaseVars, sessionVars>>
    BY <1>7, <2>1 DEF PersistFlush, DataMoves
  <2>3. /\ Confined(g, t, p) /\ UNCHANGED <<leaseVars, session, runtime, bound>>
        /\ Loaded(g, p)' <=> Loaded(g, p)
        /\ call'[g][t] = NoCall
    BY <1>1, <2>1, <2>2, WorkFacts
  <2> QED
    BY <1>1, <1>2, <2>1, <2>3, WorkLease
<1> QED
  BY <1>3, <1>4, <1>5, <1>6, <1>7

LEMMA CommandLease ==
    ASSUME MemoryInv, LeaseInv, LeasesKept, NEW g \in Games, NEW p \in Players,
           FlushCommand(g, p) \/ UpdateCommand(g, p) \/ BindCommand(g, p)
    PROVE  LeaseInv'
<1>1. GameTypes /\ "console" \in Threads
  BY DEF MemoryInv, Threads
<1>2. CASE FlushCommand(g, p) \/ UpdateCommand(g, p)
  <2>1. /\ Idle(g, "console") /\ DataMoves(g, p) /\ UNCHANGED <<leaseVars, sessionVars, call>>
    BY <1>2 DEF FlushCommand, UpdateCommand, DataMoves
  <2>2. /\ Confined(g, "console", p) /\ UNCHANGED <<leaseVars, session, runtime, bound>>
        /\ Loaded(g, p)' <=> Loaded(g, p)
        /\ call[g]["console"] = NoCall /\ call'[g]["console"] = NoCall
    BY <1>1, <2>1, CommandFacts
  <2> QED
    BY <1>1, <2>2, NoCallFacts, NoCallLease, NeutralLease
<1> QED
  BY <1>2, BindLease

\* Steps that change leases only, and none that is held.
LEMMA LeaseUntouched ==
    ASSUME LeaseInv, LeaseTypeOK', \A g \in Games : mRedis'[g] # "broken",
           UNCHANGED <<repoVars, sessionVars, call>>,
           \A g \in Games, p \in Players : (IsHeldLocally(g, p)' <=> IsHeldLocally(g, p)) /\ HeldOK(g, p)'
    PROVE  LeaseInv'
<1>1. UNCHANGED <<repo, session, runtime, bound, call>>
  BY DEF repoVars, sessionVars
<1>2. ASSUME NEW g \in Games, NEW p \in Players PROVE LeaseOK(g, p)'
  <2>1. LeaseSame(g, p)
    BY <1>1 DEF LeaseSame, Loaded, Present
  <2> QED
    BY <2>1, LeaseSameKept DEF LeaseInv
<1>3. \A g \in Games, t \in Threads : NoReconcile(call[g][t])'
  BY <1>1 DEF LeaseInv, NoReconcile
<1> QED
  BY <1>2, <1>3 DEF LeaseInv

LEMMA BootLease ==
    ASSUME LeaseInv, NEW g \in Games, GameBoot(g)
    PROVE  LeaseInv'
<1>1. /\ ~running[g] /\ running' = [running EXCEPT ![g] = TRUE] /\ UNCHANGED <<redis, mLeases>>
      /\ \E c \in {"null", "ok"} : mRedis' = [mRedis EXCEPT ![g] = c]
      /\ UNCHANGED <<repoVars, sessionVars, call>> /\ LeaseTypeOK
  BY DEF GameBoot, Boot, LeaseInv
<1>2. PICK c \in {"null", "ok"} : mRedis' = [mRedis EXCEPT ![g] = c]
  BY <1>1
<1>3. /\ LeaseTypeOK' /\ mRedis'[g] = c
      /\ \A k \in Games : k # g => mRedis'[k] = mRedis[k] /\ running'[k] = running[k]
  BY <1>1, <1>2 DEF LeaseTypeOK, Contexts
<1>4. \A k \in Games : mRedis'[k] # "broken"
  BY <1>3 DEF LeaseInv
<1>5. ASSUME NEW k \in Games, NEW p \in Players
      PROVE  (IsHeldLocally(k, p)' <=> IsHeldLocally(k, p)) /\ HeldOK(k, p)'
  BY <1>1, <1>3 DEF LeaseInv, LeaseOK, KeptOK, HeldOK, IsHeldLocally
<1> QED
  BY <1>1, <1>3, <1>4, <1>5, LeaseUntouched

LEMMA RenewLease ==
    ASSUME LeaseInv, ~LeaseFaults, NEW g \in Games, RenewPass(g)
    PROVE  LeaseInv'
<1>1. Loop(g, {}) /\ UNCHANGED <<repoVars, sessionVars, call>> /\ LeaseTypeOK
  BY DEF RenewPass, LeaseInv
<1>2. UNCHANGED <<redis, running, mRedis>>
  BY <1>1 DEF Loop, RenewLost
<1>3. /\ \A k \in Games, p \in Players : mLeases'[k][p] = mLeases[k][p]
      /\ mLeases' \in [Games -> [Players -> PlayerLeaseOwner \cup {NoOwner}]]
  BY <1>1 DEF Loop, LeaseTypeOK
<1>4. LeaseTypeOK' /\ \A k \in Games : mRedis'[k] # "broken"
  BY <1>1, <1>2, <1>3 DEF LeaseTypeOK, LeaseInv
<1>5. \A k \in Games, p \in Players : (IsHeldLocally(k, p)' <=> IsHeldLocally(k, p)) /\ HeldOK(k, p)'
  BY <1>2, <1>3 DEF LeaseInv, LeaseOK, KeptOK, HeldOK, IsHeldLocally
<1> QED
  BY <1>1, <1>4, <1>5, LeaseUntouched

LEMMA ExpireLease ==
    ASSUME LeaseInv, ~LeaseFaults, NEW S \in SUBSET Players, ExpireKeys(S)
    PROVE  LeaseInv'
<1>1. /\ redis' = [p \in Players |-> IF p \in S THEN NoOwner ELSE redis[p]]
      /\ UNCHANGED <<mLeases, mRedis, running>> /\ UNCHANGED <<repoVars, sessionVars, call>>
      /\ \A p \in S, g \in Games : ~KeyIsMine(g, p)
      /\ LeaseTypeOK
  BY DEF ExpireKeys, Expire, LeaseInv
<1>2. LeaseTypeOK' /\ \A k \in Games : mRedis'[k] # "broken"
  BY <1>1 DEF LeaseTypeOK, LeaseInv
<1>3. ASSUME NEW k \in Games, NEW p \in Players
      PROVE  (IsHeldLocally(k, p)' <=> IsHeldLocally(k, p)) /\ HeldOK(k, p)'
  <2>1. HeldOK(k, p)
    BY DEF LeaseInv, LeaseOK, KeptOK
  <2>2. IsHeldLocally(k, p) => p \notin S
    BY <1>1, <2>1 DEF HeldOK, KeyIsMine
  <2> QED
    BY <1>1, <2>1, <2>2 DEF HeldOK, IsHeldLocally
<1> QED
  BY <1>1, <1>2, <1>3, LeaseUntouched

\* A process that ends: its own leases are forgotten, the others stay.
LEMMA EndLease ==
    ASSUME GameTypes, LeaseInv, NEW g \in Games, GameCrash(g) \/ GameStop(g)
    PROVE  LeaseInv'
<1>1. /\ Forget(g) /\ LeaseTypeOK
      /\ running' = [running EXCEPT ![g] = FALSE]
      /\ mLeases' = [mLeases EXCEPT ![g] = [p \in Players |-> NoOwner]]
      /\ mRedis' = [mRedis EXCEPT ![g] = "null"]
      /\ redis' = redis \/ \E S \in SUBSET Tracked(g) : redis' = AfterDelete(g, S)
  BY DEF GameCrash, GameStop, Crash, Shutdown, LeaseInv
<1>2. /\ \A p \in Players : session'[g][p].state = "none" /\ repo'[g][p] = Absent /\ bound'[g][p] = "nobody"
      /\ \A t \in Threads : call'[g][t] = NoCall
      /\ \A k \in Games : k # g => /\ session'[k] = session[k] /\ repo'[k] = repo[k]
                                   /\ bound'[k] = bound[k] /\ runtime'[k] = runtime[k]
                                   /\ call'[k] = call[k]
  BY <1>1, ForgetFacts
<1>3. /\ mLeases' \in [Games -> [Players -> PlayerLeaseOwner \cup {NoOwner}]]
      /\ \A p \in Players : mLeases'[g][p] = NoOwner
      /\ \A k \in Games : k # g => mLeases'[k] = mLeases[k]
  BY <1>1 DEF LeaseTypeOK
<1>4. /\ mRedis' \in [Games -> Contexts] /\ mRedis'[g] = "null" /\ running' \in [Games -> BOOLEAN]
      /\ \A k \in Games : k # g => mRedis'[k] = mRedis[k] /\ running'[k] = running[k]
  BY <1>1 DEF LeaseTypeOK, Contexts
<1>5. redis' \in [Players -> PlayerLeaseOwner \cup {NoOwner}]
  BY <1>1 DEF LeaseTypeOK, AfterDelete
<1>6. LeaseTypeOK' /\ \A k \in Games : mRedis'[k] # "broken"
  BY <1>3, <1>4, <1>5 DEF LeaseTypeOK, LeaseInv
<1>7. \A k \in Games, t \in Threads : NoReconcile(call[k][t])'
  BY <1>2 DEF LeaseInv, NoReconcile
<1>8. ASSUME NEW p \in Players PROVE LeaseOK(g, p)'
  <2>1. Handlers \subseteq Threads /\ "console" \in Threads
    BY DEF Threads
  <2>2. ~IsHeldLocally(g, p)' /\ ~Loaded(g, p)'
    BY <1>2, <1>3 DEF IsHeldLocally, Loaded, Present
  <2>3. KeptOK(g, p)' /\ StateHolds(g, p)'
    BY <1>2, <2>2 DEF KeptOK, HeldOK, StateHolds, InServiceState
  <2>4. \A t \in Handlers : ActivationHolds(g, p, call[g][t])'
    BY <1>2, <2>1, NoCallLease DEF ActivationHolds
  <2>5. ReleaseHolds(g, p, call[g]["console"])'
    BY <1>2, <2>1, NoCallLease DEF ReleaseHolds
  <2> QED
    BY <2>3, <2>4, <2>5 DEF LeaseOK
<1>9. ASSUME NEW k \in Games, k # g, NEW p \in Players PROVE LeaseOK(k, p)'
  <2>1. IsHeldLocally(k, p)' <=> IsHeldLocally(k, p)
    BY <1>3, <1>9 DEF IsHeldLocally
  <2>2. IsHeldLocally(k, p) => redis'[p] = redis[p]
    <3>1. ASSUME NEW S \in SUBSET Tracked(g), redis' = AfterDelete(g, S), IsHeldLocally(k, p)
          PROVE  redis'[p] = redis[p]
      <4>1. ~KeyIsMine(g, p)
        BY <1>9, <3>1, OtherHolder DEF KeyIsMine
      <4> QED
        BY <3>1, <4>1 DEF AfterDelete
    <3> QED
      BY <1>1, <3>1
  <2>3. HeldOK(k, p)'
    BY <1>3, <1>4, <1>9, <2>1, <2>2 DEF LeaseInv, LeaseOK, KeptOK, HeldOK, IsHeldLocally
  <2>4. LeaseSame(k, p)
    BY <1>2, <1>9, <2>1, <2>3 DEF LeaseSame, Loaded, Present
  <2> QED
    BY <2>4, LeaseSameKept DEF LeaseInv
<1> QED
  BY <1>6, <1>7, <1>8, <1>9 DEF LeaseInv
LEMMA KeptInit ==
    ASSUME Init PROVE LeaseInv
<1>1. LeaseTypeOK
  BY DEF Init, LeaseInit, LeaseTypeOK, Contexts
<1>2. \A g \in Games : mRedis[g] = "null"
  BY DEF Init, LeaseInit
<1>3. \A g \in Games, t \in Threads : call[g][t] = NoCall /\ NoReconcile(call[g][t])
  BY DEF Init, NoReconcile
<1>4. ASSUME NEW g \in Games, NEW p \in Players PROVE LeaseOK(g, p)
  <2>1. Handlers \subseteq Threads /\ "console" \in Threads
    BY DEF Threads
  <2>2. /\ session[g][p].state = "none" /\ bound[g][p] = "nobody" /\ ~IsHeldLocally(g, p)
        /\ ~Loaded(g, p)
    BY RecordTypes DEF Init, LeaseInit, RepoInit, IsHeldLocally, Loaded, Present
  <2>3. KeptOK(g, p) /\ StateHolds(g, p)
    BY <2>2 DEF KeptOK, HeldOK, StateHolds, InServiceState
  <2> QED
    BY <1>3, <2>1, <2>3 DEF LeaseOK, ActivationHolds, ReleaseHolds, Doing
<1> QED
  BY <1>1, <1>2, <1>3, <1>4 DEF LeaseInv

LEMMA KeptNext ==
    ASSUME MemoryInv, LeaseInv, LeasesKept, [Next]_vars
    PROVE  LeaseInv'
<1>1. GameTypes /\ Handlers \subseteq Threads /\ "console" \in Threads /\ ~LeaseFaults /\ OneActivator
  BY DEF MemoryInv, Threads, LeasesKept
<1>2. Activators \subseteq Handlers
  BY <1>1 DEF Activators, OneActivator
<1>3. CASE UNCHANGED vars
  <2>1. UNCHANGED <<redis, mLeases, mRedis, running>> /\ UNCHANGED <<repoVars, sessionVars, call>>
    BY <1>3 DEF vars, leaseVars
  <2>2. /\ LeaseTypeOK' /\ \A g \in Games : mRedis'[g] # "broken"
        /\ \A g \in Games, p \in Players : (IsHeldLocally(g, p)' <=> IsHeldLocally(g, p)) /\ HeldOK(g, p)'
    BY <2>1 DEF LeaseInv, LeaseTypeOK, LeaseOK, KeptOK, HeldOK, IsHeldLocally
  <2> QED
    BY <2>1, <2>2, LeaseUntouched
<1>4. ASSUME NEW g \in Games, NEW t \in Handlers, NEW p \in Players, NEW gate \in GateSessions,
             DetachMatching(g, t, p, gate)
      PROVE  LeaseInv'
  <2>1. /\ Idle(g, t) /\ SetSession(g, p, Detached) /\ UNCHANGED <<leaseVars, repoVars, runtime, bound, call>>
        /\ InServiceState(session[g][p].state)
    BY <1>4, RecordTypes DEF DetachMatching, InServiceState
  <2> QED
    BY <1>1, <2>1, DetachLease
<1>5. ASSUME NEW g \in Games, NEW p \in Players, DetachPlayer(g, p)
      PROVE  LeaseInv'
  BY <1>1, <1>5, DetachLease DEF DetachPlayer, InServiceState
<1>6. ASSUME NEW g \in Games, NEW p \in Players, ReleasePlayer(g, p)
      PROVE  LeaseInv'
  BY <1>6, UnloadingLease DEF ReleasePlayer, Idle
<1>7. ASSUME NEW g \in Games, NEW p \in Players,
             \/ \E t \in Handlers : MessageCheck(g, t, p)
             \/ ExpireScan(g, p)
             \/ \E t \in Flushers : PersistScan(g, t, p)
      PROVE  LeaseInv'
  <2>1. Flushers \subseteq Threads
    BY DEF Flushers, Threads
  <2>2. \E t \in Threads, pc \in {"begin", "messageLease", "persistLease"} :
           Idle(g, t) /\ Enter(g, t, pc, p, 0, FALSE) /\ UNCHANGED <<leaseVars, repoVars, sessionVars>>
    BY <1>1, <1>7, <2>1 DEF MessageCheck, ExpireScan, PersistScan
  <2> QED
    BY <1>1, <2>2, ScanLease
<1>8. ASSUME NEW g \in Games, NEW p \in Players, NEW t \in Reconcilers, ReconcileScan(g, t, p)
      PROVE  LeaseInv'
  <2>1. InServiceState(session[g][p].state) /\ ~IsHeldLocally(g, p)
    BY <1>8 DEF ReconcileScan, InServiceState
  <2> QED
    BY <2>1 DEF LeaseInv, LeaseOK, KeptOK
<1>9. ASSUME NEW g \in Games, NEW t \in Threads, Continue(g, t)
      PROVE  LeaseInv'
  BY <1>9, ActivateLease, ReleaseStepLease, OtherLease DEF Continue
<1>10. ASSUME NEW g \in Games, GameBoot(g) \/ GameCrash(g) \/ GameStop(g) \/ RenewPass(g)
       PROVE  LeaseInv'
  BY <1>1, <1>10, BootLease, EndLease, RenewLease
<1>11. ASSUME NEW S \in SUBSET Players, ExpireKeys(S)
       PROVE  LeaseInv'
  BY <1>1, <1>11, ExpireLease
<1> QED
  BY <1>2, <1>3, <1>4, <1>5, <1>6, <1>7, <1>8, <1>9, <1>10, <1>11, CheckLease, CommandLease DEF Next

LEMMA KeptAlways ==
    ASSUME LeasesKept PROVE Spec => [](MemoryInv /\ LeaseInv)
<1>1. Init => MemoryInv /\ LeaseInv
  BY MemoryInit, KeptInit
<1>2. MemoryInv /\ LeaseInv /\ [Next]_vars => MemoryInv' /\ LeaseInv'
  BY MemoryNext, KeptNext DEF LeasesKept
<1> QED
  BY <1>1, <1>2, PTL DEF Spec

\* Who has a player loaded holds its lease, and one key has one holder.
LEMMA LeaseIsOneLoaded == LeaseInv => OneLoaded
<1>1. SUFFICES ASSUME LeaseInv, NEW p \in Players, NEW g \in Games, NEW h \in Games,
                      Loaded(g, p), Loaded(h, p)
               PROVE  g = h
  BY DEF OneLoaded
<1>2. IsHeldLocally(g, p) /\ IsHeldLocally(h, p)
  BY <1>1 DEF LeaseInv, LeaseOK, KeptOK
<1> QED
  BY <1>1, <1>2, OtherHolder

\* As long as leases are kept, a player is loaded by one game at a time, however loads,
\* flushes and processes fail.
THEOREM SessionOneLoaded == LeasesKept => (Spec => []OneLoaded)
<1>1. SUFFICES ASSUME LeasesKept PROVE Spec => []OneLoaded
  OBVIOUS
<1>2. Spec => [](MemoryInv /\ LeaseInv)
  BY <1>1, KeptAlways
<1> QED
  BY <1>2, LeaseIsOneLoaded, PTL

\* As long as leases are kept, a player in service has the lease, the data, the instance
\* and the receiver.
THEOREM SessionServed == LeasesKept => (Spec => []InServiceIsServed)
<1>1. SUFFICES ASSUME LeasesKept PROVE Spec => []InServiceIsServed
  OBVIOUS
<1>2. Spec => [](MemoryInv /\ LeaseInv)
  BY <1>1, KeptAlways
<1>3. MemoryInv /\ LeaseInv => InServiceIsServed
  BY DEF MemoryInv, MemoryOK, HasData, LeaseInv, LeaseOK, KeptOK, InServiceIsServed, InService, InServiceState
<1> QED
  BY <1>2, <1>3, PTL
-----------------------------------------------------------------------------
(* Data.                                                                   *)

\* A load is a step of an activation.
Loading(g, p, ok) == LoadPlayer(g, p, ok) /\ \E t \in Threads : Busy(g, t, p, "load")

\* An operation of a repository, for one player.
RepoOp(g, p) ==
    \/ \E ok \in BOOLEAN : Loading(g, p, ok) \/ FlushPlayer(g, p, ok)
    \/ ReleaseRecord(g, p)
    \/ UpdateData(g, p)

StoredGrows(p) == Stored(p) # Absent => Stored(p)' # Absent /\ Stored(p) \subseteq Stored(p)'

\* What an operation does to what is stored, and to the data of that player.
DataKept(g, p) ==
    /\ \A q \in Players : q # p => Stored(q)' = Stored(q)
    /\ Loaded(g, p) \/ Stored(p)' = Stored(p)
    /\ StoredGrows(p) /\ DataOK(g, p)'

\* The copy is what a reader finds.
LEMMA StoredSame ==
    ASSUME NEW p \in Players, row'[p] = row[p], hot'[p] = hot[p]
    PROVE  Stored(p)' = Stored(p)
  BY DEF Stored

\* A load puts a copy where there was none.
LEMMA LoadStored ==
    ASSUME GameTypes, NEW g \in Games, NEW p \in Players, NEW ok \in BOOLEAN, LoadPlayer(g, p, ok)
    PROVE  \A q \in Players : Stored(q)' = Stored(q)
<1>1. row' = row
  BY DEF LoadPlayer, DatasetGet
<1>2. \/ hot' = hot
      \/ hot[p] = Absent /\ row[p] # Absent /\ hot' = [hot EXCEPT ![p] = row[p]]
  BY DEF LoadPlayer, DatasetGet, SetHot
<1>3. CASE hot' = hot
  BY <1>1, <1>3, StoredSame
<1>4. CASE hot[p] = Absent /\ row[p] # Absent /\ hot' = [hot EXCEPT ![p] = row[p]]
  <2>1. hot'[p] = row[p] /\ \A q \in Players : q # p => hot'[q] = hot[q]
    BY <1>4 DEF GameTypes, RepoTypeOK
  <2> QED
    BY <1>1, <1>4, <2>1 DEF Stored
<1> QED
  BY <1>2, <1>3, <1>4

\* It gives the game what is stored, which leaves nothing to be written unless the player
\* is new.
LEMMA LoadData ==
    ASSUME GameTypes, NEW g \in Games, NEW p \in Players, DataOK(g, p), NEW ok \in BOOLEAN,
           LoadPlayer(g, p, ok)
    PROVE  DataKept(g, p)
<1>1. \A q \in Players : Stored(q)' = Stored(q)
  BY LoadStored
<1>2. PICK record \in PlayerRepositoryRecord : record = (IF Present(g, p) THEN repo[g][p] ELSE NewRecord)
  <2>1. repo[g][p] \in Records
    BY TypeFacts
  <2> QED
    BY <2>1, RecordFacts DEF Present, Records
<1>3. DataOK(g, p)'
  <2>1. CASE ok /\ Stored(p) # Absent
    <3> DEFINE r == [record EXCEPT !.loaded = TRUE, !.data = Stored(p)]
    <3>1. Stored(p) \in PlayerData
      BY <2>1, StoredFacts
    <3>2. r \in PlayerRepositoryRecord /\ r.data = Stored(p)
      BY <3>1 DEF PlayerRepositoryRecord
    <3>3. repo' = [repo EXCEPT ![g][p] = r]
      BY <1>2, <2>1 DEF LoadPlayer
    <3> HIDE DEF r
    <3>4. repo'[g][p] = r
      BY <3>2, <3>3, RepoReplaced DEF Records
    <3> QED
      BY <1>1, <3>2, <3>4 DEF DataOK
  <2>2. CASE ok /\ Stored(p) = Absent
    <3> DEFINE r == [loaded |-> TRUE, dirty |-> TRUE, data |-> {}]
    <3>1. r \in PlayerRepositoryRecord /\ r.dirty
      BY DEF PlayerRepositoryRecord, PlayerData
    <3>2. repo' = [repo EXCEPT ![g][p] = r]
      BY <2>2 DEF LoadPlayer
    <3>3. r \in Records /\ r # Absent
      BY <3>1, RecordFacts DEF Records
    <3> HIDE DEF r
    <3>4. repo'[g][p] = r
      BY <3>2, <3>3, RepoReplaced
    <3>5. Stored(p)' = Absent /\ Dirty(g, p)'
      BY <1>1, <2>2, <3>1, <3>3, <3>4 DEF Dirty, Present
    <3> QED
      BY <3>5 DEF DataOK
  <2>3. CASE ~ok
    <3>1. repo' = [repo EXCEPT ![g][p] = record] /\ record \in Records /\ record # Absent
      BY <1>2, <2>3, RecordFacts DEF LoadPlayer, Records
    <3>2. repo'[g][p] = record
      BY <3>1, RepoReplaced
    <3>3. CASE Present(g, p)
      BY <1>1, <1>2, <3>1, <3>2, <3>3 DEF DataOK, Loaded, Dirty, Present
    <3>4. CASE ~Present(g, p)
      BY <1>2, <3>2, <3>4, RecordFacts DEF DataOK, Loaded
    <3> QED
      BY <3>3, <3>4
  <2> QED
    BY <2>1, <2>2, <2>3
<1> QED
  BY <1>1, <1>3 DEF DataKept, StoredGrows

\* A write stores what the game has, which contains what was stored.
LEMMA FlushData ==
    ASSUME GameTypes, ~HotFaults, NEW g \in Games, NEW p \in Players, DataOK(g, p), NEW ok \in BOOLEAN,
           FlushPlayer(g, p, ok)
    PROVE  DataKept(g, p)
<1>1. CASE ~Loaded(g, p)
  <2>1. UNCHANGED <<repo, row, hot>>
    BY <1>1 DEF FlushPlayer
  <2>2. \A q \in Players : Stored(q)' = Stored(q)
    BY <2>1, StoredSame
  <2> QED
    BY <1>1, <2>1, <2>2 DEF DataKept, StoredGrows, DataOK, Loaded, Present
<1>2. CASE Loaded(g, p)
  <2> DEFINE data == repo[g][p].data
  <2>1. repo[g][p] \in PlayerRepositoryRecord /\ data \in PlayerData /\ data # Absent /\ repo[g][p] # Absent
    BY <1>2, TypeFacts, RecordFacts, AbsentAssumption DEF Loaded, Present, Records
  <2>2. DatasetPut(p, data, ok) /\ repo' = IF ok THEN [repo EXCEPT ![g][p].dirty = FALSE] ELSE repo
    BY <1>2 DEF FlushPlayer
  <2>3. Stored(p) = Absent \/ Stored(p) \subseteq data
    BY <1>2 DEF DataOK
  <2>4. Dirty(g, p) \/ Stored(p) = data
    BY <1>2 DEF DataOK
  <2>5. row \in [Players -> {Absent} \cup PlayerData] /\ hot \in [Players -> {Absent} \cup PlayerData]
    BY DEF GameTypes, RepoTypeOK
  <2> HIDE DEF data
  <2>6. CASE ok
    <3>1. row' = [row EXCEPT ![p] = data] /\ hot' = [hot EXCEPT ![p] = data]
      BY <2>2, <2>6 DEF DatasetPut, SetHot
    <3>2. Stored(p)' = data /\ \A q \in Players : q # p => Stored(q)' = Stored(q)
      BY <2>1, <2>5, <3>1 DEF Stored
    <3> DEFINE r == [repo[g][p] EXCEPT !.dirty = FALSE]
    <3>3. r \in PlayerRepositoryRecord /\ r.data = data
      BY <2>1 DEF PlayerRepositoryRecord, data
    <3>4. repo' = [repo EXCEPT ![g][p] = r]
      BY <2>2, <2>6
    <3> HIDE DEF r
    <3>5. repo'[g][p] = r
      BY <3>3, <3>4, RepoReplaced DEF Records
    <3>6. DataOK(g, p)'
      BY <3>2, <3>3, <3>5 DEF DataOK
    <3>7. StoredGrows(p)
      BY <2>1, <2>3, <3>2 DEF StoredGrows
    <3> QED
      BY <1>2, <3>2, <3>6, <3>7 DEF DataKept
  <2>7. CASE ~ok
    <3>1. repo' = repo /\ hot' = hot /\ (row' = row \/ row' = [row EXCEPT ![p] = data])
      BY <2>2, <2>7 DEF DatasetPut
    <3>2. /\ Stored(p)' = Stored(p) \/ Stored(p)' = data
          /\ \A q \in Players : q # p => Stored(q)' = Stored(q)
      BY <2>5, <3>1 DEF Stored
    <3>3. Dirty(g, p)' <=> Dirty(g, p)
      BY <3>1 DEF Dirty, Present
    <3>4. DataOK(g, p)'
      BY <2>3, <2>4, <3>1, <3>2, <3>3 DEF DataOK, data
    <3>5. StoredGrows(p)
      BY <2>1, <2>3, <3>2 DEF StoredGrows
    <3> QED
      BY <1>2, <3>2, <3>4, <3>5 DEF DataKept
  <2> QED
    BY <2>6, <2>7
<1> QED
  BY <1>1, <1>2

LEMMA UpdateIsData ==
    ASSUME GameTypes, NEW g \in Games, NEW p \in Players, DataOK(g, p), UpdateData(g, p)
    PROVE  DataKept(g, p)
<1>1. Loaded(g, p) /\ nextUpdate \in Updates /\ UNCHANGED <<row, hot>>
  BY DEF UpdateData
<1>2. \A q \in Players : Stored(q)' = Stored(q)
  BY <1>1, StoredSame
<1>3. repo[g][p] \in PlayerRepositoryRecord
  BY <1>1, TypeFacts DEF Loaded, Present, Records
<1> DEFINE r == [repo[g][p] EXCEPT !.dirty = TRUE, !.data = repo[g][p].data \cup {nextUpdate}]
<1>4. repo[g][p].data \cup {nextUpdate} \in PlayerData
  BY <1>1, <1>3, RecordFacts DEF PlayerData
<1>5. r \in PlayerRepositoryRecord /\ r.dirty = TRUE /\ r.data = repo[g][p].data \cup {nextUpdate}
  BY <1>3, <1>4 DEF PlayerRepositoryRecord
<1>6. repo' = [repo EXCEPT ![g][p] = r]
  <2>1. repo \in [Games -> [Players -> Records]]
    BY DEF GameTypes, RepoTypeOK, Records
  <2> QED
    BY <1>3, <2>1 DEF UpdateData
<1>7. r \in Records /\ r # Absent
  BY <1>5, RecordFacts DEF Records
<1> HIDE DEF r
<1>8. repo'[g][p] = r
  BY <1>6, <1>7, RepoReplaced
<1>9. Dirty(g, p)'
  BY <1>5, <1>7, <1>8 DEF Dirty, Present
<1>10. DataOK(g, p)'
  BY <1>1, <1>2, <1>5, <1>8, <1>9 DEF DataOK
<1> QED
  BY <1>2, <1>10 DEF DataKept, StoredGrows

LEMMA DropData ==
    ASSUME GameTypes, NEW g \in Games, NEW p \in Players, ReleaseRecord(g, p)
    PROVE  DataKept(g, p)
<1>1. UNCHANGED <<row, hot>> /\ ~Loaded(g, p)'
  BY DropFacts DEF ReleaseRecord
<1>2. \A q \in Players : Stored(q)' = Stored(q)
  BY <1>1, StoredSame
<1> QED
  BY <1>1, <1>2 DEF DataKept, StoredGrows, DataOK

\* An operation changes the repository of its game for its player only.
LEMMA OpConfined ==
    ASSUME GameTypes, NEW g \in Games, NEW p \in Players, RepoOp(g, p)
    PROVE  \A k \in Games, q \in Players : k # g \/ q # p => repo'[k][q] = repo[k][q]
<1>1. RepoMoves(g, p)
  BY LoadFacts, FlushFacts, UpdateFacts, DropFacts DEF RepoOp, Loading
<1> QED
  BY <1>1 DEF RepoMoves, GameTypes, RepoTypeOK

\* Every step is an operation of one repository, or loses a game's memory, or leaves the
\* repositories and the dataset alone.
LEMMA RepoSteps ==
    ASSUME GameTypes, [Next]_vars
    PROVE  \/ UNCHANGED repoVars
           \/ \E g \in Games : Forget(g)
           \/ \E g \in Games, p \in Players : RepoOp(g, p)
<1>1. ASSUME NEW g \in Games, NEW t \in Threads, NEW pc, At(g, t, pc)
      PROVE  Player(g, t) \in Players /\ Busy(g, t, Player(g, t), pc)
  BY <1>1, AtBusy
<1>2. "console" \in Threads
  BY DEF Threads
<1>3. ASSUME NEW g \in Games, NEW t \in Threads, ActivateStep(g, t)
      PROVE  UNCHANGED repoVars \/ \E p \in Players : RepoOp(g, p)
  <2>1. CASE ActivateLoad(g, t)
    BY <1>1, <2>1 DEF ActivateLoad, RepoOp, Loading
  <2>2. CASE ActivateRollbackRecord(g, t)
    BY <1>1, <2>2 DEF ActivateRollbackRecord, RepoOp
  <2> QED
    BY <1>3, <2>1, <2>2 DEF ActivateStep, ActivateAcquire, ActivateBind, ActivateEnsure, ActivateEmplace,
                            ActivateCommit, ActivateRollbackLease, ActivateRollbackBind
<1>4. ASSUME NEW g \in Games, ReleaseStep(g)
      PROVE  UNCHANGED repoVars \/ \E p \in Players : RepoOp(g, p)
  <2>1. CASE ReleaseFlush(g)
    BY <1>1, <1>2, <2>1 DEF ReleaseFlush, RepoOp
  <2>2. CASE ReleaseDrop(g)
    BY <1>1, <1>2, <2>2 DEF ReleaseDrop, RepoOp
  <2> QED
    BY <1>4, <2>1, <2>2 DEF ReleaseStep, ExpireBegin, ReleaseCheck, ReleaseRestore, ReleaseUnbind,
                            ReleaseRemove, ReleaseLease, ReleaseErase
<1>5. ASSUME NEW g \in Games, NEW t \in Threads, Continue(g, t)
      PROVE  UNCHANGED repoVars \/ \E p \in Players : RepoOp(g, p)
  <2>1. CASE MessageApply(g, t)
    BY <1>1, <2>1 DEF MessageApply, RepoOp
  <2>2. CASE PersistFlush(g, t)
    BY <1>1, <2>2 DEF PersistFlush, RepoOp
  <2> QED
    BY <1>3, <1>4, <1>5, <2>1, <2>2
       DEF Continue, MessageLease, ReconcileUnbind, ReconcileCommit, PersistLease
<1>6. CASE UNCHANGED vars
  BY <1>6 DEF vars
<1>7. ASSUME NEW g \in Games, NEW p \in Players,
             \/ DetachPlayer(g, p) \/ ReleasePlayer(g, p) \/ ExpireScan(g, p)
             \/ FlushCommand(g, p) \/ UpdateCommand(g, p) \/ BindCommand(g, p)
             \/ \E t \in Reconcilers : ReconcileScan(g, t, p)
             \/ \E t \in Flushers : PersistScan(g, t, p)
             \/ \E t \in Handlers : MessageCheck(g, t, p)
      PROVE  UNCHANGED repoVars \/ RepoOp(g, p)
  BY <1>7 DEF DetachPlayer, ReleasePlayer, ExpireScan, FlushCommand, UpdateCommand, BindCommand,
              ReconcileScan, PersistScan, MessageCheck, RepoOp
<1>8. ASSUME NEW g \in Games, NEW t, NEW p \in Players, NEW gate,
             ActivateCheck(g, t, p, gate) \/ DetachMatching(g, t, p, gate)
      PROVE  UNCHANGED repoVars
  BY <1>8 DEF ActivateCheck, DetachMatching
<1>9. ASSUME NEW g \in Games, GameBoot(g) \/ GameCrash(g) \/ GameStop(g) \/ RenewPass(g)
      PROVE  UNCHANGED repoVars \/ Forget(g)
  BY <1>9 DEF GameBoot, GameCrash, GameStop, RenewPass
<1>10. ASSUME NEW S, ExpireKeys(S) PROVE UNCHANGED repoVars
  BY <1>10 DEF ExpireKeys
<1> QED
  BY <1>5, <1>6, <1>7, <1>8, <1>9, <1>10 DEF Next

LEMMA DataInit ==
    ASSUME Init PROVE DataInv
  BY DEF Init, RepoInit, DataInv, DataOK, Loaded, Present

LEMMA OpData ==
    ASSUME GameTypes, ~HotFaults, OneLoaded, DataInv, NEW g \in Games, NEW p \in Players, RepoOp(g, p)
    PROVE  DataInv' /\ NoLostUpdateStep
<1>1. DataKept(g, p)
  BY LoadData, FlushData, UpdateIsData, DropData DEF RepoOp, Loading, DataInv
<1>2. \A k \in Games, q \in Players : k # g \/ q # p => repo'[k][q] = repo[k][q]
  BY OpConfined
<1>3. ASSUME NEW k \in Games, NEW q \in Players PROVE DataOK(k, q)'
  <2>1. CASE k = g /\ q = p
    BY <1>1, <2>1 DEF DataKept
  <2>2. CASE k # g \/ q # p
    <3>1. /\ Loaded(k, q)' <=> Loaded(k, q)
          /\ Dirty(k, q)' <=> Dirty(k, q)
          /\ repo'[k][q] = repo[k][q]
      BY <1>2, <2>2 DEF Loaded, Dirty, Present
    <3>2. Loaded(k, q) => Stored(q)' = Stored(q)
      BY <1>1, <2>2 DEF DataKept, OneLoaded
    <3> QED
      BY <3>1, <3>2 DEF DataInv, DataOK
  <2> QED
    BY <2>1, <2>2
<1>4. NoLostUpdateStep
  <2>1. ASSUME NEW q \in Players PROVE StoredGrows(q)
    <3>1. CASE q = p
      BY <1>1, <3>1 DEF DataKept
    <3>2. CASE q # p
      BY <1>1, <3>2 DEF DataKept, StoredGrows
    <3> QED
      BY <3>1, <3>2
  <2> QED
    BY <2>1 DEF NoLostUpdateStep, StoredGrows
<1> QED
  BY <1>3, <1>4 DEF DataInv

LEMMA DataNext ==
    ASSUME GameTypes, ~HotFaults, OneLoaded, DataInv, [Next]_vars
    PROVE  DataInv' /\ NoLostUpdateStep
<1>1. ASSUME UNCHANGED <<row, hot>>,
             \A k \in Games, q \in Players : repo'[k][q] = repo[k][q] \/ repo'[k][q] = Absent
      PROVE  DataInv' /\ NoLostUpdateStep
  <2>1. \A q \in Players : Stored(q)' = Stored(q)
    BY <1>1, StoredSame
  <2>2. NoLostUpdateStep
    BY <2>1 DEF NoLostUpdateStep
  <2>3. ASSUME NEW k \in Games, NEW q \in Players PROVE DataOK(k, q)'
    <3>1. CASE repo'[k][q] = repo[k][q]
      BY <2>1, <3>1 DEF DataInv, DataOK, Loaded, Dirty, Present
    <3>2. CASE repo'[k][q] = Absent
      BY <3>2 DEF DataOK, Loaded, Present
    <3> QED
      BY <1>1, <3>1, <3>2
  <2> QED
    BY <2>2, <2>3 DEF DataInv
<1>2. CASE UNCHANGED repoVars
  BY <1>1, <1>2 DEF repoVars
<1>3. ASSUME NEW g \in Games, Forget(g) PROVE DataInv' /\ NoLostUpdateStep
  <2>1. /\ UNCHANGED <<row, hot>> /\ \A q \in Players : repo'[g][q] = Absent
        /\ \A k \in Games : k # g => repo'[k] = repo[k]
    BY <1>3, ForgetFacts
  <2> QED
    BY <1>1, <2>1
<1> QED
  BY <1>2, <1>3, RepoSteps, OpData

LEMMA DataAlways ==
    ASSUME LeasesKept, ~HotFaults PROVE Spec => []DataInv /\ [][NoLostUpdateStep]_vars
<1>1. MemoryInv /\ LeaseInv => GameTypes /\ OneLoaded
  BY LeaseIsOneLoaded DEF MemoryInv
<1>2. Init => DataInv
  BY DataInit
<1>3. MemoryInv /\ LeaseInv /\ DataInv /\ [Next]_vars => DataInv' /\ NoLostUpdateStep
  BY <1>1, DataNext
<1> QED
  BY <1>2, <1>3, KeptAlways, PTL DEF Spec

\* As long as leases are kept and the copies in Redis are written, data that is not marked
\* is what the next load returns.
THEOREM SessionCleanIsStored == LeasesKept /\ ~HotFaults => (Spec => []CleanIsStored)
<1>1. SUFFICES ASSUME LeasesKept, ~HotFaults PROVE Spec => []CleanIsStored
  OBVIOUS
<1>2. Spec => []DataInv
  BY <1>1, DataAlways
<1>3. DataInv => CleanIsStored
  BY DEF DataInv, DataOK, CleanIsStored
<1> QED
  BY <1>2, <1>3, PTL

\* Under the same conditions no write loses an update that was stored, in any order of
\* loads, writes, releases and restarts of the games.
THEOREM SessionNoLostUpdate == LeasesKept /\ ~HotFaults => (Spec => NoLostUpdate)
<1>1. SUFFICES ASSUME LeasesKept, ~HotFaults PROVE Spec => NoLostUpdate
  OBVIOUS
<1>2. Spec => [][NoLostUpdateStep]_vars
  BY <1>1, DataAlways
<1> QED
  BY <1>2 DEF NoLostUpdate
-----------------------------------------------------------------------------
(* The whole, whatever the setting.                                        *)

\* Every step keeps the types.
LEMMA TypesNext ==
    ASSUME GameTypes, [Next]_vars
    PROVE  GameTypes'
<1>1. /\ Handlers \subseteq Threads /\ "console" \in Threads /\ Activators \subseteq Threads
      /\ Reconcilers \subseteq Threads /\ Flushers \subseteq Threads
  BY DEF Threads, Activators, Reconcilers, Flushers
<1>2. ASSUME UNCHANGED <<repoVars, sessionVars, call>> PROVE GameTypes'
  BY <1>2 DEF GameTypes, RepoTypeOK, repoVars, sessionVars
<1>3. CASE UNCHANGED vars
  BY <1>2, <1>3 DEF vars
<1>4. ASSUME NEW g \in Games, NEW t \in Threads, ActivateStep(g, t) PROVE GameTypes'
  <2>1. \E p \in Players : Confined(g, t, p) /\ DatasetTypes'
    <3>1. CASE ActivateAcquire(g, t)
      BY <3>1, AcquireFacts
    <3>2. CASE ActivateLoad(g, t)
      BY <3>2, ActivateLoadFacts
    <3>3. CASE ActivateBind(g, t)
      BY <3>3, BindFacts
    <3>4. CASE ActivateEnsure(g, t)
      BY <3>4, EnsureFacts
    <3>5. CASE ActivateEmplace(g, t)
      BY <3>5, EmplaceFacts
    <3>6. CASE ActivateCommit(g, t)
      BY <3>6, CommitFacts
    <3>7. CASE ActivateRollbackLease(g, t)
      BY <3>7, RollbackLeaseFacts
    <3>8. CASE ActivateRollbackBind(g, t)
      BY <3>8, RollbackBindFacts
    <3>9. CASE ActivateRollbackRecord(g, t)
      BY <3>9, RollbackRecordFacts
    <3> QED
      BY <1>4, <3>1, <3>2, <3>3, <3>4, <3>5, <3>6, <3>7, <3>8, <3>9 DEF ActivateStep
  <2> QED
    BY <2>1, ConfinedTypes
<1>5. ASSUME NEW g \in Games, ReleaseStep(g) PROVE GameTypes'
  <2>1. \E p \in Players : Confined(g, "console", p) /\ DatasetTypes'
    <3>1. CASE ExpireBegin(g)
      <4>1. PICK p \in Players : p = Player(g, "console") /\ Busy(g, "console", p, "begin")
        BY <1>1, <3>1, AtBusy DEF ExpireBegin
      <4>2. CASE StartUnloading(g, p)
        BY <3>1, <4>1, <4>2, UnloadingFacts DEF ExpireBegin, Busy
      <4>3. CASE Return(g, "console") /\ UNCHANGED session
        <5>1. UNCHANGED <<leaseVars, repoVars, sessionVars>> /\ "erase" \in Steps
          BY <3>1, <4>3 DEF ExpireBegin, sessionVars, Steps, ReleaseSteps
        <5> QED
          BY <1>1, <4>1, <4>3, <5>1, GoOnly
      <4> QED
        BY <3>1, <4>1, <4>2, <4>3 DEF ExpireBegin
    <3>2. CASE ReleaseCheck(g)
      BY <3>2, ReleaseCheckFacts
    <3>3. CASE ReleaseFlush(g)
      BY <3>3, ReleaseFlushFacts
    <3>4. CASE ReleaseRestore(g)
      BY <3>4, ReleaseRestoreFacts
    <3>5. CASE ReleaseUnbind(g)
      BY <3>5, ReleaseUnbindFacts
    <3>6. CASE ReleaseRemove(g)
      BY <3>6, ReleaseRemoveFacts
    <3>7. CASE ReleaseDrop(g)
      BY <3>7, ReleaseDropFacts
    <3>8. CASE ReleaseLease(g)
      BY <3>8, ReleaseLeaseFacts
    <3>9. CASE ReleaseErase(g)
      BY <3>9, ReleaseEraseFacts
    <3> QED
      BY <1>5, <3>1, <3>2, <3>3, <3>4, <3>5, <3>6, <3>7, <3>8, <3>9 DEF ReleaseStep
  <2> QED
    BY <1>1, <2>1, ConfinedTypes
<1>6. ASSUME NEW g \in Games, NEW t \in Threads,
             \/ MessageLease(g, t) \/ MessageApply(g, t) \/ ReconcileUnbind(g, t)
             \/ ReconcileCommit(g, t) \/ PersistLease(g, t) \/ PersistFlush(g, t)
      PROVE  GameTypes'
  <2>1. \E p \in Players : Confined(g, t, p) /\ DatasetTypes'
    <3>1. CASE ReconcileUnbind(g, t)
      BY <3>1, ReconcileUnbindFacts
    <3>2. CASE ReconcileCommit(g, t)
      BY <3>2, ReconcileCommitFacts
    <3>3. CASE MessageLease(g, t) \/ PersistLease(g, t)
      <4>1. PICK p \in Players, pc \in {"messageLease", "persistLease"} : Busy(g, t, p, pc)
        BY <3>3, AtBusy DEF MessageLease, PersistLease
      <4>2. /\ "messageApply" \in Steps /\ "persistFlush" \in Steps
            /\ UNCHANGED <<leaseVars, repoVars, sessionVars>>
            /\ Goto(g, t, "messageApply") \/ Goto(g, t, "persistFlush") \/ Return(g, t)
        BY <3>3 DEF MessageLease, PersistLease, Steps, OtherSteps
      <4> QED
        BY <4>1, <4>2, GoOnly
    <3>4. CASE MessageApply(g, t) \/ PersistFlush(g, t)
      <4>1. PICK p \in Players, pc \in {"messageApply", "persistFlush"} :
               p = Player(g, t) /\ Busy(g, t, p, pc)
        BY <3>4, AtBusy DEF MessageApply, PersistFlush
      <4>2. DataMoves(g, p) /\ Return(g, t) /\ UNCHANGED <<leaseVars, sessionVars>>
        BY <3>4, <4>1 DEF MessageApply, PersistFlush, DataMoves
      <4> QED
        BY <4>1, <4>2, WorkFacts
    <3> QED
      BY <1>6, <3>1, <3>2, <3>3, <3>4
  <2> QED
    BY <2>1, ConfinedTypes
<1>7. ASSUME NEW g \in Games, NEW p \in Players, NEW t \in Threads, NEW gate \in GateSessions,
             ActivateCheck(g, t, p, gate) \/ DetachMatching(g, t, p, gate)
      PROVE  GameTypes'
  <2>1. Confined(g, t, p) /\ DatasetTypes'
    BY <1>7, CheckFacts, DetachFacts DEF DetachMatching
  <2> QED
    BY <2>1, ConfinedTypes
<1>8. ASSUME NEW g \in Games, NEW p \in Players,
             \/ DetachPlayer(g, p) \/ ReleasePlayer(g, p)
             \/ FlushCommand(g, p) \/ UpdateCommand(g, p) \/ BindCommand(g, p)
      PROVE  GameTypes'
  <2>1. Confined(g, "console", p) /\ DatasetTypes'
    <3>1. CASE DetachPlayer(g, p)
      BY <1>1, <3>1, DetachFacts DEF DetachPlayer
    <3>2. CASE ReleasePlayer(g, p)
      BY <3>2, UnloadingFacts DEF ReleasePlayer, Idle
    <3>3. CASE FlushCommand(g, p) \/ UpdateCommand(g, p)
      <4>1. Idle(g, "console") /\ DataMoves(g, p) /\ UNCHANGED <<leaseVars, sessionVars, call>>
        BY <3>3 DEF FlushCommand, UpdateCommand, DataMoves
      <4> QED
        BY <4>1, CommandFacts
    <3>4. CASE BindCommand(g, p)
      BY <3>4, BindCommandFacts
    <3> QED
      BY <1>8, <3>1, <3>2, <3>3, <3>4
  <2> QED
    BY <1>1, <2>1, ConfinedTypes
<1>9. ASSUME NEW g \in Games, NEW p \in Players, NEW t \in Threads,
             \/ MessageCheck(g, t, p) \/ ReconcileScan(g, t, p) \/ PersistScan(g, t, p)
             \/ t = "console" /\ ExpireScan(g, p)
      PROVE  GameTypes'
  <2>1. \E pc \in Steps : /\ Idle(g, t) /\ Enter(g, t, pc, p, 0, FALSE)
                          /\ UNCHANGED <<leaseVars, repoVars, sessionVars>>
    BY <1>9 DEF MessageCheck, ReconcileScan, PersistScan, ExpireScan, Steps, OtherSteps, ReleaseSteps
  <2>2. Confined(g, t, p) /\ DatasetTypes'
    BY <2>1, EnterOnly
  <2> QED
    BY <2>2, ConfinedTypes
<1>10. ASSUME NEW g \in Games, GameBoot(g) \/ GameCrash(g) \/ GameStop(g) \/ RenewPass(g)
       PROVE  GameTypes'
  BY <1>2, <1>10, ForgetFacts DEF GameBoot, GameCrash, GameStop, RenewPass
<1>11. ASSUME NEW S \in SUBSET Players, ExpireKeys(S) PROVE GameTypes'
  BY <1>2, <1>11 DEF ExpireKeys
<1>12. ASSUME NEW g \in Games, NEW t \in Threads, Continue(g, t) PROVE GameTypes'
  BY <1>4, <1>5, <1>6, <1>12 DEF Continue
<1> QED
  BY <1>1, <1>3, <1>7, <1>8, <1>9, <1>10, <1>11, <1>12 DEF Next

\* Every step takes at most one step of the lease service, and that is one of its own.
LEMMA LeaseSteps ==
    ASSUME GameTypes, [Next]_vars
    PROVE  [LeaseNext]_leaseVars
<1>1. ASSUME NEW g \in Games, NEW t \in Threads, NEW pc, At(g, t, pc)
      PROVE  Player(g, t) \in Players
  BY <1>1, AtBusy
<1>2. "console" \in Threads
  BY DEF Threads
<1>3. ASSUME NEW g \in Games, NEW p \in Players,
             Acquire(g, p, TRUE) \/ Acquire(g, p, FALSE) \/ Release(g, p)
      PROVE  LeaseNext
  BY <1>3 DEF LeaseNext
<1>4. ASSUME NEW g \in Games, NEW t \in Threads, ActivateStep(g, t)
      PROVE  LeaseNext \/ UNCHANGED leaseVars
  <2>1. CASE ActivateAcquire(g, t)
    BY <1>1, <1>3, <2>1 DEF ActivateAcquire
  <2>2. CASE ActivateCommit(g, t)
    BY <1>1, <1>3, <2>2 DEF ActivateCommit
  <2>3. CASE ActivateRollbackLease(g, t)
    BY <1>1, <1>3, <2>3 DEF ActivateRollbackLease
  <2> QED
    BY <1>4, <2>1, <2>2, <2>3 DEF ActivateStep, ActivateLoad, ActivateBind, ActivateEnsure, ActivateEmplace,
                                  ActivateRollbackBind, ActivateRollbackRecord
<1>5. ASSUME NEW g \in Games, ReleaseStep(g)
      PROVE  LeaseNext \/ UNCHANGED leaseVars
  <2>1. CASE ReleaseLease(g)
    BY <1>1, <1>2, <1>3, <2>1 DEF ReleaseLease
  <2> QED
    BY <1>5, <2>1 DEF ReleaseStep, ExpireBegin, ReleaseCheck, ReleaseFlush, ReleaseRestore, ReleaseUnbind,
                      ReleaseRemove, ReleaseDrop, ReleaseErase
<1>6. ASSUME NEW g \in Games, NEW t \in Threads, Continue(g, t)
      PROVE  LeaseNext \/ UNCHANGED leaseVars
  BY <1>4, <1>5, <1>6 DEF Continue, MessageLease, MessageApply, ReconcileUnbind, ReconcileCommit,
                          PersistLease, PersistFlush
<1>7. CASE UNCHANGED vars
  BY <1>7 DEF vars
<1>8. ASSUME NEW g \in Games, NEW p \in Players,
             \/ DetachPlayer(g, p) \/ ReleasePlayer(g, p) \/ ExpireScan(g, p)
             \/ FlushCommand(g, p) \/ UpdateCommand(g, p) \/ BindCommand(g, p)
             \/ \E t \in Reconcilers : ReconcileScan(g, t, p)
             \/ \E t \in Flushers : PersistScan(g, t, p)
             \/ \E t \in Handlers : MessageCheck(g, t, p)
             \/ \E t \in Activators, gate \in GateSessions : ActivateCheck(g, t, p, gate)
             \/ \E t \in Handlers, gate \in GateSessions : DetachMatching(g, t, p, gate)
      PROVE  UNCHANGED leaseVars
  BY <1>8 DEF DetachPlayer, ReleasePlayer, ExpireScan, FlushCommand, UpdateCommand, BindCommand,
              ReconcileScan, PersistScan, MessageCheck, ActivateCheck, DetachMatching
<1>9. ASSUME NEW g \in Games, GameBoot(g) \/ GameCrash(g) \/ GameStop(g) \/ RenewPass(g)
      PROVE  LeaseNext
  BY <1>9 DEF GameBoot, GameCrash, GameStop, RenewPass, LeaseNext
<1>10. ASSUME NEW S \in SUBSET Players, ExpireKeys(S) PROVE LeaseNext
  BY <1>10 DEF ExpireKeys, LeaseNext
<1> QED
  BY <1>6, <1>7, <1>8, <1>9, <1>10 DEF Next

\* The life of players implements the lease service by itself: whatever PlayerLease
\* promises of leases and keys holds under the sessions, the loops and the commands.
THEOREM SessionImplementsLease == Spec => LeaseSpec
<1>1. Init => LeaseInit /\ GameTypes
  BY MemoryInit DEF Init, MemoryInv
<1>2. GameTypes /\ [Next]_vars => GameTypes' /\ [LeaseNext]_leaseVars
  BY TypesNext, LeaseSteps
<1> QED
  BY <1>1, <1>2, PTL DEF Spec, LeaseSpec

-----------------------------------------------------------------------------
(* Ownership.                                                              *)

\* What PlayerOwnership sees of a player, and what a step makes of it.
Owned(p) == <<Holders(p), HeldData(p), Stored(p)>>

OwnedBecomes(p, holders, data, stored) ==
    /\ Holders(p)' = holders /\ HeldData(p)' = data /\ Stored(p)' = stored
    /\ \A q \in Players : q # p => UNCHANGED Owned(q)

\* What PlayerOwnership sees.
ownedVars ==
    <<[p \in Players |-> Holders(p)], [p \in Players |-> HeldData(p)], [p \in Players |-> Stored(p)]>>

OwnershipStep == [Ownership!OwnershipNext]_ownedVars

LEMMA OwnedReplaced ==
    ASSUME NEW p \in Players, NEW STATE holders, NEW STATE data, NEW STATE stored,
           OwnedBecomes(p, holders, data, stored)
    PROVE  /\ [q \in Players |-> Holders(q)]' = [[q \in Players |-> Holders(q)] EXCEPT ![p] = holders]
           /\ [q \in Players |-> HeldData(q)]' = [[q \in Players |-> HeldData(q)] EXCEPT ![p] = data]
           /\ [q \in Players |-> Stored(q)]' = [[q \in Players |-> Stored(q)] EXCEPT ![p] = stored]
           /\ holders = Holders(p) => UNCHANGED [q \in Players |-> Holders(q)]
           /\ data = HeldData(p) => UNCHANGED [q \in Players |-> HeldData(q)]
           /\ stored = Stored(p) => UNCHANGED [q \in Players |-> Stored(q)]
  BY DEF OwnedBecomes, Owned

\* Nothing of it changes when the repositories and the dataset do not.
LEMMA OwnedUnchanged ==
    ASSUME UNCHANGED <<repo, row, hot>>
    PROVE  OwnershipStep
  BY DEF OwnershipStep, ownedVars, Holders, HeldData, Stored, Loaded, Present

\* A player nobody has loaded, and one that only game g has loaded.
LEMMA OwnedFacts ==
    ASSUME NEW g \in Games, NEW p \in Players, \A k \in Games : k # g => ~Loaded(k, p)
    PROVE  /\ ~Loaded(g, p) => Holders(p) = {} /\ HeldData(p) = {}
           /\ Loaded(g, p) => Holders(p) = {g} /\ HeldData(p) = repo[g][p].data
<1>1. CASE ~Loaded(g, p)
  <2>1. Holders(p) = {}
    BY <1>1 DEF Holders
  <2> QED
    BY <1>1, <2>1 DEF HeldData
<1>2. CASE Loaded(g, p)
  <2>1. Holders(p) = {g}
    BY <1>2 DEF Holders
  <2>2. {repo[k][p].data : k \in Holders(p)} = {repo[g][p].data}
    BY <2>1
  <2> QED
    BY <1>2, <2>1, <2>2 DEF HeldData
<1> QED
  BY <1>1, <1>2

LEMMA OwnedNextFacts ==
    ASSUME NEW g \in Games, NEW p \in Players, \A k \in Games : k # g => ~Loaded(k, p)'
    PROVE  /\ ~Loaded(g, p)' => Holders(p)' = {} /\ HeldData(p)' = {}
           /\ Loaded(g, p)' => Holders(p)' = {g} /\ HeldData(p)' = repo'[g][p].data
<1>1. CASE ~Loaded(g, p)'
  <2>1. Holders(p)' = {}
    BY <1>1 DEF Holders
  <2> QED
    BY <1>1, <2>1 DEF HeldData
<1>2. CASE Loaded(g, p)'
  <2>1. Holders(p)' = {g}
    BY <1>2 DEF Holders
  <2>2. {repo'[k][p].data : k \in Holders(p)'} = {repo'[g][p].data}
    BY <2>1
  <2> QED
    BY <1>2, <2>1, <2>2 DEF HeldData
<1> QED
  BY <1>1, <1>2

\* An operation leaves what the games have of the other players alone.
LEMMA OthersHeld ==
    ASSUME GameTypes, NEW g \in Games, NEW p \in Players, RepoOp(g, p), NEW q \in Players, q # p
    PROVE  Holders(q)' = Holders(q) /\ HeldData(q)' = HeldData(q)
<1>1. \A k \in Games : repo'[k][q] = repo[k][q]
  BY OpConfined
<1>2. \A k \in Games : Loaded(k, q)' <=> Loaded(k, q)
  BY <1>1 DEF Loaded, Present
<1>3. Holders(q)' = Holders(q) /\ Holders(q) \subseteq Games
  BY <1>2 DEF Holders
<1>4. {repo'[k][q].data : k \in Holders(q)} = {repo[k][q].data : k \in Holders(q)}
  BY <1>1, <1>3
<1> QED
  BY <1>3, <1>4 DEF HeldData

\* A game that is loading a player has not loaded it, and nobody else has: it holds the
\* lease.
LEMMA LoadingAlone ==
    ASSUME MemoryInv, LeaseInv, NEW g \in Games, NEW t \in Threads, NEW p \in Players,
           Busy(g, t, p, "load"), NEW k \in Games
    PROVE  ~Loaded(k, p)
<1>1. "load" \in ActivateSteps /\ "load" \in HoldingSteps
  BY DEF ActivateSteps, HoldingSteps
<1>2. ActivationHolds(g, p, call[g][t]) /\ IsHeldLocally(g, p)
  BY <1>1, ActivatorLease
<1>3. ~Loaded(g, p)
  BY <1>1, <1>2 DEF ActivationHolds, Doing, Busy
<1>4. Loaded(k, p) => IsHeldLocally(k, p)
  BY DEF LeaseInv, LeaseOK, KeptOK
<1> QED
  BY <1>2, <1>3, <1>4, OtherHolder

\* What a load reads.
LEMMA LoadReads ==
    ASSUME GameTypes, NEW g \in Games, NEW p \in Players, LoadPlayer(g, p, TRUE)
    PROVE  repo'[g][p].data = IF Stored(p) = Absent THEN {} ELSE Stored(p)
<1>1. PICK record \in PlayerRepositoryRecord : record = (IF Present(g, p) THEN repo[g][p] ELSE NewRecord)
  <2>1. repo[g][p] \in Records
    BY TypeFacts
  <2> QED
    BY <2>1, RecordFacts DEF Present, Records
<1>2. CASE Stored(p) # Absent
  <2> DEFINE r == [record EXCEPT !.loaded = TRUE, !.data = Stored(p)]
  <2>1. Stored(p) \in PlayerData
    BY <1>2, StoredFacts
  <2>2. r \in PlayerRepositoryRecord /\ r.data = Stored(p)
    BY <2>1 DEF PlayerRepositoryRecord
  <2>3. repo' = [repo EXCEPT ![g][p] = r]
    BY <1>1, <1>2 DEF LoadPlayer
  <2> HIDE DEF r
  <2> QED
    BY <1>2, <2>2, <2>3, RepoReplaced DEF Records
<1>3. CASE Stored(p) = Absent
  <2> DEFINE r == [loaded |-> TRUE, dirty |-> TRUE, data |-> {}]
  <2>1. r \in PlayerRepositoryRecord /\ r.data = {}
    BY DEF PlayerRepositoryRecord, PlayerData
  <2>2. repo' = [repo EXCEPT ![g][p] = r]
    BY <1>3 DEF LoadPlayer
  <2> HIDE DEF r
  <2> QED
    BY <1>3, <2>1, <2>2, RepoReplaced DEF Records
<1> QED
  BY <1>2, <1>3

\* A load is a take, or nothing when it fails.
LEMMA LoadOwns ==
    ASSUME MemoryInv, LeaseInv, NEW g \in Games, NEW p \in Players, NEW ok \in BOOLEAN, Loading(g, p, ok)
    PROVE  OwnershipStep
<1>1. GameTypes /\ RepoOp(g, p) /\ LoadPlayer(g, p, ok)
  BY DEF MemoryInv, RepoOp, Loading
<1>2. \A k \in Games : ~Loaded(k, p)
  BY LoadingAlone DEF Loading
<1>3. \A k \in Games : k # g => ~Loaded(k, p)'
  BY <1>1, <1>2, OpConfined DEF Loaded, Present
<1>4. \A q \in Players : Stored(q)' = Stored(q)
  BY <1>1, LoadStored
<1>5. \A q \in Players : q # p => UNCHANGED Owned(q)
  BY <1>1, <1>4, OthersHeld DEF Owned
<1>6. Holders(p) = {} /\ HeldData(p) = {}
  BY <1>2, OwnedFacts
<1>7. CASE ok
  <2> DEFINE taken == IF Stored(p) = Absent THEN {} ELSE Stored(p)
  <2>1. Loaded(g, p)' /\ repo'[g][p].data = taken
    BY <1>1, <1>7, LoadFacts, LoadReads
  <2>2. Holders(p)' = {g} /\ HeldData(p)' = taken
    BY <1>3, <2>1, OwnedNextFacts
  <2>3. OwnedBecomes(p, {g}, taken, Stored(p))
    BY <1>4, <1>5, <2>2 DEF OwnedBecomes
  <2>4. Ownership!Take(g, p)
    <3>1. [q \in Players |-> Holders(q)][p] = {} /\ [q \in Players |-> Stored(q)][p] = Stored(p)
      BY <1>6
    <3>2. taken = IF [q \in Players |-> Stored(q)][p] = Absent THEN {} ELSE [q \in Players |-> Stored(q)][p]
      BY <3>1
    <3> HIDE DEF taken
    <3>3. /\ [q \in Players |-> Holders(q)]' = [[q \in Players |-> Holders(q)] EXCEPT ![p] = {g}]
          /\ [q \in Players |-> HeldData(q)]' = [[q \in Players |-> HeldData(q)] EXCEPT ![p] = taken]
          /\ UNCHANGED [q \in Players |-> Stored(q)]
      BY <2>3 DEF OwnedBecomes, Owned
    <3> QED
      BY <3>1, <3>2, <3>3 DEF Ownership!Take
  <2> QED
    BY <2>4 DEF OwnershipStep, Ownership!OwnershipNext
<1>8. CASE ~ok
  <2>1. ~Loaded(g, p)'
    BY <1>1, <1>2, <1>8, LoadFacts
  <2>2. Holders(p)' = {} /\ HeldData(p)' = {}
    BY <1>3, <2>1, OwnedNextFacts
  <2>3. OwnedBecomes(p, Holders(p), HeldData(p), Stored(p))
    BY <1>4, <1>5, <1>6, <2>2 DEF OwnedBecomes
  <2>4. UNCHANGED ownedVars
    BY <2>3, OwnedReplaced DEF ownedVars
  <2> QED
    BY <2>4 DEF OwnershipStep
<1> QED
  BY <1>7, <1>8

\* A write stores what the game has or, when it fails or the copy in Redis is not
\* written, leaves what a reader finds as it was.
LEMMA FlushStores ==
    ASSUME GameTypes, NEW g \in Games, NEW p \in Players, NEW ok \in BOOLEAN, FlushPlayer(g, p, ok),
           Loaded(g, p)
    PROVE  /\ Stored(p)' = Stored(p) \/ Stored(p)' = repo[g][p].data
           /\ \A q \in Players : q # p => Stored(q)' = Stored(q)
           /\ Loaded(g, p)' /\ repo'[g][p].data = repo[g][p].data
<1> DEFINE data == repo[g][p].data
<1>1. repo[g][p] \in PlayerRepositoryRecord /\ data \in PlayerData /\ data # Absent
  BY TypeFacts, RecordFacts, AbsentAssumption DEF Loaded, Present, Records
<1>2. /\ row' = row \/ row' = [row EXCEPT ![p] = data]
      /\ hot' = hot \/ (row' = [row EXCEPT ![p] = data] /\ hot' = [hot EXCEPT ![p] = data])
      /\ repo' = repo \/ repo' = [repo EXCEPT ![g][p].dirty = FALSE]
  BY DEF FlushPlayer, DatasetPut, SetHot
<1>3. row \in [Players -> {Absent} \cup PlayerData] /\ hot \in [Players -> {Absent} \cup PlayerData]
  BY DEF GameTypes, RepoTypeOK
<1>4. Stored(p)' = Stored(p) \/ Stored(p)' = data
  <2> HIDE DEF data
  <2> QED
    BY <1>1, <1>2, <1>3 DEF Stored
<1>5. \A q \in Players : q # p => Stored(q)' = Stored(q)
  <2> HIDE DEF data
  <2> QED
    BY <1>2, <1>3 DEF Stored
<1>6. repo'[g][p].data = data
  <2>1. CASE repo' = repo
    BY <2>1
  <2>2. CASE repo' = [repo EXCEPT ![g][p].dirty = FALSE]
    <3> DEFINE r == [repo[g][p] EXCEPT !.dirty = FALSE]
    <3>1. r \in Records /\ r.data = data
      BY <1>1 DEF PlayerRepositoryRecord, Records
    <3>2. repo' = [repo EXCEPT ![g][p] = r]
      BY <2>2
    <3> HIDE DEF r
    <3>3. repo'[g][p] = r
      BY <3>1, <3>2, RepoReplaced
    <3> QED
      BY <3>1, <3>3
  <2> QED
    BY <1>2, <2>1, <2>2
<1> QED
  BY <1>4, <1>5, <1>6, FlushFacts

\* What an operation other than a load starts from: nobody else has the player.
LEMMA OpAlone ==
    ASSUME GameTypes, OneLoaded, NEW g \in Games, NEW p \in Players, RepoOp(g, p), Loaded(g, p)
    PROVE  /\ Holders(p) = {g} /\ HeldData(p) = repo[g][p].data
           /\ \A k \in Games : k # g => ~Loaded(k, p)'
<1>1. \A k \in Games : k # g => ~Loaded(k, p)
  BY DEF OneLoaded
<1>2. \A k \in Games : k # g => ~Loaded(k, p)'
  BY <1>1, OpConfined DEF Loaded, Present
<1> QED
  BY <1>1, <1>2, OwnedFacts

\* A write is a save or nothing.
LEMMA FlushOwns ==
    ASSUME GameTypes, OneLoaded, NEW g \in Games, NEW p \in Players, NEW ok \in BOOLEAN,
           FlushPlayer(g, p, ok)
    PROVE  OwnershipStep
<1>1. RepoOp(g, p)
  BY DEF RepoOp
<1>2. CASE ~Loaded(g, p)
  <2>1. UNCHANGED <<repo, row, hot>>
    BY <1>2 DEF FlushPlayer
  <2> QED
    BY <2>1, OwnedUnchanged
<1>3. CASE Loaded(g, p)
  <2>1. /\ Holders(p) = {g} /\ HeldData(p) = repo[g][p].data
        /\ \A k \in Games : k # g => ~Loaded(k, p)'
    BY <1>1, <1>3, OpAlone
  <2>2. /\ Stored(p)' = Stored(p) \/ Stored(p)' = repo[g][p].data
        /\ \A q \in Players : q # p => Stored(q)' = Stored(q)
        /\ Loaded(g, p)' /\ repo'[g][p].data = repo[g][p].data
    BY <1>3, FlushStores
  <2>3. Holders(p)' = Holders(p) /\ HeldData(p)' = HeldData(p)
    BY <2>1, <2>2, OwnedNextFacts
  <2>4. \A q \in Players : q # p => UNCHANGED Owned(q)
    BY <1>1, <2>2, OthersHeld DEF Owned
  <2>5. CASE Stored(p)' = Stored(p)
    <3>1. OwnedBecomes(p, Holders(p), HeldData(p), Stored(p))
      BY <2>3, <2>4, <2>5 DEF OwnedBecomes
    <3> QED
      BY <3>1, OwnedReplaced DEF OwnershipStep, ownedVars
  <2>6. CASE Stored(p)' = repo[g][p].data
    <3>1. OwnedBecomes(p, Holders(p), HeldData(p), HeldData(p))
      BY <2>1, <2>3, <2>4, <2>6 DEF OwnedBecomes
    <3>2. /\ [q \in Players |-> Stored(q)]' = [[q \in Players |-> Stored(q)] EXCEPT ![p] = HeldData(p)]
          /\ UNCHANGED <<[q \in Players |-> Holders(q)], [q \in Players |-> HeldData(q)]>>
      BY <3>1 DEF OwnedBecomes, Owned
    <3>3. [q \in Players |-> Holders(q)][p] # {} /\ [q \in Players |-> HeldData(q)][p] = HeldData(p)
      BY <2>1
    <3>4. Ownership!Save(p)
      BY <3>2, <3>3 DEF Ownership!Save
    <3> QED
      BY <3>4 DEF OwnershipStep, Ownership!OwnershipNext
  <2> QED
    BY <2>2, <2>5, <2>6
<1> QED
  BY <1>2, <1>3

\* An update is a change.
LEMMA UpdateOwns ==
    ASSUME GameTypes, OneLoaded, NEW g \in Games, NEW p \in Players, UpdateData(g, p)
    PROVE  OwnershipStep
<1>1. Loaded(g, p) /\ nextUpdate \in Updates /\ UNCHANGED <<row, hot>> /\ RepoOp(g, p)
  BY DEF UpdateData, RepoOp
<1>2. \A q \in Players : Stored(q)' = Stored(q)
  BY <1>1, StoredSame
<1>3. repo'[g][p].data = repo[g][p].data \cup {nextUpdate}
  <2>1. repo[g][p] \in PlayerRepositoryRecord
    BY <1>1, TypeFacts DEF Loaded, Present, Records
  <2> DEFINE r == [repo[g][p] EXCEPT !.dirty = TRUE, !.data = repo[g][p].data \cup {nextUpdate}]
  <2>2. repo[g][p].data \cup {nextUpdate} \in PlayerData
    BY <1>1, <2>1, RecordFacts DEF PlayerData
  <2>3. r \in Records /\ r.data = repo[g][p].data \cup {nextUpdate}
    BY <2>1, <2>2 DEF PlayerRepositoryRecord, Records
  <2>4. repo' = [repo EXCEPT ![g][p] = r]
    <3>1. repo \in [Games -> [Players -> Records]]
      BY DEF GameTypes, RepoTypeOK, Records
    <3> QED
      BY <2>1, <3>1 DEF UpdateData
  <2> HIDE DEF r
  <2> QED
    BY <2>3, <2>4, RepoReplaced
<1>4. Loaded(g, p)'
  BY <1>1, UpdateFacts
<1>5. /\ Holders(p) = {g} /\ HeldData(p) = repo[g][p].data
      /\ \A k \in Games : k # g => ~Loaded(k, p)'
  BY <1>1, OpAlone
<1>6. Holders(p)' = Holders(p) /\ HeldData(p)' = HeldData(p) \cup {nextUpdate}
  BY <1>3, <1>4, <1>5, OwnedNextFacts
<1>7. OwnedBecomes(p, Holders(p), HeldData(p) \cup {nextUpdate}, Stored(p))
  BY <1>1, <1>2, <1>6, OthersHeld DEF OwnedBecomes, Owned
<1>8. /\ [q \in Players |-> HeldData(q)]' =
            [[q \in Players |-> HeldData(q)] EXCEPT ![p] = HeldData(p) \cup {nextUpdate}]
      /\ UNCHANGED <<[q \in Players |-> Holders(q)], [q \in Players |-> Stored(q)]>>
  BY <1>7 DEF OwnedBecomes, Owned
<1>9. [q \in Players |-> Holders(q)][p] # {} /\ [q \in Players |-> HeldData(q)][p] = HeldData(p)
  BY <1>5
<1>10. Ownership!Change(p, nextUpdate)
  BY <1>8, <1>9 DEF Ownership!Change
<1> QED
  BY <1>1, <1>10 DEF OwnershipStep, Ownership!OwnershipNext

\* A game lets go of the players in S that it had.
LEMMA DropOwns ==
    ASSUME OneLoaded, NEW g \in Games, NEW S \in SUBSET Players, UNCHANGED <<row, hot>>,
           \A p \in Players, k \in Games :
              IF k = g /\ p \in S THEN repo'[k][p] = Absent ELSE repo'[k][p] = repo[k][p]
    PROVE  OwnershipStep
<1> DEFINE T == {p \in S : Loaded(g, p)}
<1>1. \A p \in Players : Stored(p)' = Stored(p)
  BY StoredSame
<1>2. \A p \in Players, k \in Games : Loaded(k, p)' <=> Loaded(k, p) /\ ~(k = g /\ p \in S)
  BY DEF Loaded, Present
<1>3. ASSUME NEW p \in T PROVE Holders(p) = {g} /\ Holders(p)' = {} /\ HeldData(p)' = {}
  <2>1. p \in Players /\ \A k \in Games : k # g => ~Loaded(k, p)
    BY <1>3 DEF OneLoaded
  <2>2. ~Loaded(g, p)' /\ \A k \in Games : k # g => ~Loaded(k, p)'
    BY <1>2, <1>3, <2>1
  <2> QED
    BY <1>3, <2>1, <2>2, OwnedFacts, OwnedNextFacts
<1>4. ASSUME NEW p \in Players, p \notin T PROVE Holders(p)' = Holders(p) /\ HeldData(p)' = HeldData(p)
  <2>1. \A k \in Games : Loaded(k, p)' <=> Loaded(k, p)
    BY <1>2, <1>4
  <2>2. Holders(p)' = Holders(p) /\ Holders(p) \subseteq Games
    BY <2>1 DEF Holders
  <2>3. \A k \in Holders(p) : repo'[k][p] = repo[k][p]
    BY <1>4 DEF Holders
  <2>4. {repo'[k][p].data : k \in Holders(p)} = {repo[k][p].data : k \in Holders(p)}
    BY <2>3
  <2> QED
    BY <2>2, <2>4 DEF HeldData
<1>5. T \in SUBSET Players
  OBVIOUS
<1> HIDE DEF T
<1>6. \A p \in T : [q \in Players |-> Holders(q)][p] = {g}
  BY <1>3, <1>5
<1>7. [p \in Players |-> Holders(p)]' =
        [p \in Players |-> IF p \in T THEN {} ELSE [q \in Players |-> Holders(q)][p]]
  BY <1>3, <1>4
<1>8. [p \in Players |-> HeldData(p)]' =
        [p \in Players |-> IF p \in T THEN {} ELSE [q \in Players |-> HeldData(q)][p]]
  BY <1>3, <1>4
<1>9. UNCHANGED [p \in Players |-> Stored(p)]
  BY <1>1
<1>10. Ownership!Drop(g, T)
  BY <1>6, <1>7, <1>8, <1>9 DEF Ownership!Drop
<1> QED
  BY <1>5, <1>10 DEF OwnershipStep, Ownership!OwnershipNext

\* As long as leases are kept the games implement PlayerOwnership: a load takes a player
\* nobody has, a write saves it, and a release or the end of a process lets go of it.
THEOREM SessionImplementsOwnership == LeasesKept => (Spec => OwnershipKept)
<1>1. SUFFICES ASSUME LeasesKept PROVE Spec => OwnershipKept
  OBVIOUS
<1>2. Init => Ownership!OwnershipInit
  <2> SUFFICES ASSUME Init PROVE Ownership!OwnershipInit
    OBVIOUS
  <2>1. \A p \in Players, g \in Games : ~Loaded(g, p)
    BY DEF Init, RepoInit, Loaded, Present
  <2>2. \A p \in Players : Holders(p) = {}
    BY <2>1 DEF Holders
  <2>3. \A p \in Players : HeldData(p) = {}
    BY <2>2 DEF HeldData
  <2>4. \A p \in Players : Stored(p) = Absent
    BY DEF Init, RepoInit, Stored
  <2> QED
    BY <2>2, <2>3, <2>4 DEF Ownership!OwnershipInit
<1>3. MemoryInv /\ LeaseInv /\ [Next]_vars => OwnershipStep
  <2> SUFFICES ASSUME MemoryInv, LeaseInv, [Next]_vars PROVE OwnershipStep
    OBVIOUS
  <2>1. GameTypes /\ OneLoaded
    BY LeaseIsOneLoaded DEF MemoryInv
  <2>2. CASE UNCHANGED repoVars
    BY <2>2, OwnedUnchanged DEF repoVars
  <2>3. ASSUME NEW g \in Games, Forget(g) PROVE OwnershipStep
    <3>1. /\ UNCHANGED <<row, hot>> /\ \A q \in Players : repo'[g][q] = Absent
          /\ \A k \in Games : k # g => repo'[k] = repo[k]
      BY <2>1, <2>3, ForgetFacts
    <3> QED
      BY <2>1, <3>1, DropOwns
  <2>4. ASSUME NEW g \in Games, NEW p \in Players, ReleaseRecord(g, p) PROVE OwnershipStep
    <3>1. RepoOp(g, p) /\ UNCHANGED <<row, hot>> /\ repo' = [repo EXCEPT ![g][p] = Absent]
      BY <2>4 DEF RepoOp, ReleaseRecord
    <3>2. repo'[g][p] = Absent /\ \A k \in Games, q \in Players : k # g \/ q # p => repo'[k][q] = repo[k][q]
      BY <2>1, <3>1, RepoReplaced, OpConfined DEF Records
    <3> DEFINE S == {p}
    <3>3. /\ S \in SUBSET Players
          /\ \A q \in Players, k \in Games :
                IF k = g /\ q \in S THEN repo'[k][q] = Absent ELSE repo'[k][q] = repo[k][q]
      BY <3>2
    <3> HIDE DEF S
    <3> QED
      BY <2>1, <3>1, <3>3, DropOwns
  <2>5. ASSUME NEW g \in Games, NEW p \in Players, RepoOp(g, p) PROVE OwnershipStep
    BY <2>1, <2>4, <2>5, LoadOwns, FlushOwns, UpdateOwns DEF RepoOp
  <2> QED
    BY <2>1, <2>2, <2>3, <2>5, RepoSteps
<1>4. OwnershipStep => [Ownership!OwnershipNext]_(Ownership!ownershipVars)
  BY DEF OwnershipStep, ownedVars, Ownership!ownershipVars
<1> QED
  BY <1>1, <1>2, <1>3, <1>4, KeptAlways, PTL DEF Spec, OwnershipKept, Ownership!OwnershipSpec

=============================================================================
