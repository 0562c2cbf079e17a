---------------------------- MODULE PlayerSession ----------------------------
(***************************************************************************)
(* Life of a player on a game process: PlayerSessionService composed with  *)
(* the lease service, the repository, the runtime, the receiver binding,   *)
(* the persistence scan and the message path.  Every service has a mutex   *)
(* of its own and none is held across a call sequence, so the operations   *)
(* are sequences of atomic calls (one step each) that interleave:          *)
(*                                                                         *)
(*   Handlers          threads that run IPC handlers, one per connection   *)
(*   "console"         operator commands                                   *)
(*   "sessionLoop"     ReconcileLeaseLosses, every second                  *)
(*   "persistenceLoop" FlushDuePlayersOnce, every second                   *)
(*                                                                         *)
(* and PlayerLease!Loop, the renewal pass.  The three loops over players   *)
(* (expiry, reconciliation, persistence) are modelled for the player they  *)
(* get to: what was read of it before is arbitrarily old.                  *)
(***************************************************************************)
EXTENDS PlayerLease, PlayerRepository

CONSTANTS
    Handlers,       \* handler threads of a game
    GateSessions,   \* gate sessions a player can come from
    Commands,       \* operator commands that are used
    LeaseFaults,    \* TRUE: held leases may expire, connections may break
    NoCall          \* a thread between two operations

VARIABLES
    session,    \* per game: mPlayers of the session service
    runtime,    \* per game: players with a PlayerInstance
    bound,      \* per game: the receiver directory's entry of each player
    call        \* per game and thread: the operation in progress

sessionVars == <<session, runtime, bound>>
vars == <<leaseVars, repoVars, sessionVars, call>>

AllCommands == {"activate", "detach", "release", "expire", "flush", "update",
                "reconcile", "flushDue", "bindLocal", "bindRemote"}
Threads == Handlers \cup {"console", "sessionLoop", "persistenceLoop"}

ASSUME SessionAssumption ==
    /\ LeaseFaults \in BOOLEAN
    /\ Commands \subseteq AllCommands
    /\ 0 \notin GateSessions
    /\ Handlers \cap {"console", "sessionLoop", "persistenceLoop"} = {}

\* gate is the gate triple, 0 when there is none.  loading is never assigned.
PlayerSessionRecord ==
    [state : {"none", "online", "detached", "unloading"}, gate : GateSessions \cup {0}]

\* The owner of a player's receiver: this process (the receiver host has the
\* player too), another one, or none.
Owners == {"nobody", "self", "other"}

NoSession == [state |-> "none", gate |-> 0]
Online(gate) == [state |-> "online", gate |-> gate]
Detached == [state |-> "detached", gate |-> 0]

ActivateSteps == {"acquire", "load", "bind", "ensure", "emplace", "commit",
                  "rollbackLoad", "rollbackUnbound", "rollbackLease", "rollbackBind",
                  "rollbackRecord"}
ReleaseSteps == {"begin", "check", "flush", "restore", "unbind", "remove",
                 "drop", "release", "erase"}
OtherSteps == {"reconcileUnbind", "reconcileCommit", "messageLease", "messageApply",
               "persistLease", "persistFlush"}

\* The locals of an operation: reuse is reuse_existing, prev previous_record.
Call == [pc : ActivateSteps \cup ReleaseSteps \cup OtherSteps, player : Players,
         gate : GateSessions \cup {0}, reuse : BOOLEAN, prev : PlayerSessionRecord]

ASSUME NoCallAssumption == NoCall \notin Call

\* The shape of the state.
SessionTypeOK ==
    /\ LeaseTypeOK
    /\ RepoTypeOK
    /\ session \in [Games -> [Players -> PlayerSessionRecord]]
    /\ runtime \in [Games -> SUBSET Players]
    /\ bound \in [Games -> [Players -> Owners]]
    /\ call \in [Games -> [Threads -> Call \cup {NoCall}]]

Init ==
    /\ LeaseInit
    /\ RepoInit
    /\ session = [g \in Games |-> [p \in Players |-> NoSession]]
    /\ runtime = [g \in Games |-> {}]
    /\ bound = [g \in Games |-> [p \in Players |-> "nobody"]]
    /\ call = [g \in Games |-> [t \in Threads |-> NoCall]]

-----------------------------------------------------------------------------
(* Steps of a call.                                                        *)

Idle(g, t) == running[g] /\ call[g][t] = NoCall
At(g, t, pc) == running[g] /\ call[g][t] # NoCall /\ call[g][t].pc = pc
Goto(g, t, pc) == call' = [call EXCEPT ![g][t].pc = pc]
Return(g, t) == call' = [call EXCEPT ![g][t] = NoCall]
Enter(g, t, pc, p, gate, reuse) ==
    call' = [call EXCEPT ![g][t] = [pc |-> pc, player |-> p, gate |-> gate,
                                    reuse |-> reuse, prev |-> NoSession]]

Player(g, t) == call[g][t].player
SetOwner(g, p, o) == bound' = [bound EXCEPT ![g][p] = o]
SetSession(g, p, r) == session' = [session EXCEPT ![g][p] = r]

\* Without lease faults every command gets its reply.
ReliableRedis == LeaseFaults \/ (\A g \in Games : mRedis'[g] # "broken")

-----------------------------------------------------------------------------
(* ActivatePlayer(player, gate session), from a login, a reconnect or the  *)
(* console.                                                                *)

Activators == Handlers \cup (IF "activate" \in Commands THEN {"console"} ELSE {})

\* Mutant: a player that is being released is taken for one in service.
ActivateCheckUnloading(g, t, p, gate) ==
    /\ Idle(g, t)
    /\ \/ /\ session[g][p].state # "none" /\ IsHeldLocally(g, p)
          /\ SetSession(g, p, Online(gate))
          /\ UNCHANGED call
       \/ /\ session[g][p].state = "none"
          /\ Enter(g, t, "acquire", p, gate, FALSE)
          /\ UNCHANGED session
    /\ UNCHANGED <<leaseVars, repoVars, runtime, bound>>

\* The first critical section.  A player in memory whose lease is gone is
\* recovered (reuse_existing), one in transition is refused.
ActivateCheck(g, t, p, gate) ==
    /\ Idle(g, t)
    /\ LET state == session[g][p].state IN
       \/ /\ state \in {"online", "detached"} /\ IsHeldLocally(g, p)
          /\ SetSession(g, p, Online(gate))
          /\ UNCHANGED call
       \/ /\ state \in {"online", "detached"} /\ ~IsHeldLocally(g, p)
          /\ Enter(g, t, "acquire", p, gate, TRUE)
          /\ UNCHANGED session
       \/ /\ state = "none"
          /\ Enter(g, t, "acquire", p, gate, FALSE)
          /\ UNCHANGED session
    /\ UNCHANGED <<leaseVars, repoVars, runtime, bound>>

ActivateAcquire(g, t) ==
    /\ At(g, t, "acquire")
    /\ \/ Acquire(g, Player(g, t), TRUE) /\ Goto(g, t, "load")
       \/ Acquire(g, Player(g, t), FALSE) /\ Return(g, t)
    /\ ReliableRedis
    /\ UNCHANGED <<repoVars, sessionVars>>

\* A recovered player that is still in the repository is not read again.
ActivateLoad(g, t) ==
    /\ At(g, t, "load")
    /\ \/ /\ call[g][t].reuse /\ Present(g, Player(g, t))
          /\ Goto(g, t, "bind")
          /\ UNCHANGED repoVars
       \/ /\ ~(call[g][t].reuse /\ Present(g, Player(g, t)))
          /\ \/ LoadPlayer(g, Player(g, t), TRUE) /\ Goto(g, t, "bind")
             \/ LoadPlayer(g, Player(g, t), FALSE) /\ Goto(g, t, "rollbackLoad")
    /\ UNCHANGED <<leaseVars, sessionVars>>

\* BindLocalPlayer fails when the receiver has another owner; "player is
\* already bound locally" is not an error here.
ActivateBind(g, t) ==
    LET p == Player(g, t) IN
    /\ At(g, t, "bind")
    /\ IF bound[g][p] = "other"
       THEN Goto(g, t, "rollbackUnbound") /\ UNCHANGED bound
       ELSE Goto(g, t, "ensure") /\ SetOwner(g, p, "self")
    /\ UNCHANGED <<leaseVars, repoVars, session, runtime>>

\* EnsurePlayer: look at the repository, then create the instance.
ActivateEnsure(g, t) ==
    /\ At(g, t, "ensure")
    /\ Goto(g, t, IF Loaded(g, Player(g, t)) THEN "emplace" ELSE "rollbackLease")
    /\ UNCHANGED <<leaseVars, repoVars, sessionVars>>

ActivateEmplace(g, t) ==
    /\ At(g, t, "emplace")
    /\ runtime' = [runtime EXCEPT ![g] = @ \cup {Player(g, t)}]
    /\ Goto(g, t, "commit")
    /\ UNCHANGED <<leaseVars, repoVars, session, bound>>

\* Mutant: a recovery does not look at the session again.
ActivateCommitUnchecked(g, t) ==
    /\ At(g, t, "commit")
    /\ SetSession(g, Player(g, t), Online(call[g][t].gate))
    /\ Return(g, t)
    /\ UNCHANGED <<leaseVars, repoVars, runtime, bound>>

\* The second critical section.  A recovery whose session went away or into
\* release gives the lease back.
ActivateCommit(g, t) ==
    LET p == Player(g, t) IN
    /\ At(g, t, "commit")
    /\ IF call[g][t].reuse /\ session[g][p].state \in {"none", "unloading"}
       THEN Release(g, p) /\ ReliableRedis /\ UNCHANGED session
       ELSE SetSession(g, p, Online(call[g][t].gate)) /\ UNCHANGED leaseVars
    /\ Return(g, t)
    /\ UNCHANGED <<repoVars, runtime, bound>>

\* UnbindLocalPlayer: nothing to do when the receiver is not bound here.
UnbindLocalPlayer(g, p) ==
    SetOwner(g, p, IF bound[g][p] = "self" THEN "nobody" ELSE bound[g][p])

\* The error returns: after LoadPlayer the lease goes; after BindLocalPlayer
\* the record too, unless the player was recovered; after EnsurePlayer also
\* the binding.
ActivateRollbackLease(g, t) ==
    /\ \/ At(g, t, "rollbackLoad") /\ Return(g, t)
       \/ /\ At(g, t, "rollbackUnbound")
          /\ IF call[g][t].reuse THEN Return(g, t) ELSE Goto(g, t, "rollbackRecord")
       \/ At(g, t, "rollbackLease") /\ Goto(g, t, "rollbackBind")
    /\ Release(g, Player(g, t)) /\ ReliableRedis
    /\ UNCHANGED <<repoVars, sessionVars>>

ActivateRollbackBind(g, t) ==
    /\ At(g, t, "rollbackBind")
    /\ UnbindLocalPlayer(g, Player(g, t))
    /\ IF call[g][t].reuse THEN Return(g, t) ELSE Goto(g, t, "rollbackRecord")
    /\ UNCHANGED <<leaseVars, repoVars, session, runtime>>

ActivateRollbackRecord(g, t) ==
    /\ At(g, t, "rollbackRecord")
    /\ ReleaseRecord(g, Player(g, t))
    /\ Return(g, t)
    /\ UNCHANGED <<leaseVars, sessionVars>>

-----------------------------------------------------------------------------
(* DetachPlayer.                                                           *)

\* HandlePlayerDisconnected: only the gate session the player is bound to.
DetachMatching(g, t, p, gate) ==
    /\ Idle(g, t)
    /\ session[g][p] = Online(gate)
    /\ SetSession(g, p, Detached)
    /\ UNCHANGED <<leaseVars, repoVars, runtime, bound, call>>

\* player_detach: whatever the gate session.
DetachPlayer(g, p) ==
    /\ Idle(g, "console") /\ "detach" \in Commands
    /\ session[g][p].state = "online"
    /\ SetSession(g, p, Detached)
    /\ UNCHANGED <<leaseVars, repoVars, runtime, bound, call>>

-----------------------------------------------------------------------------
(* ReleasePlayer, by player_release or for a player that                   *)
(* player_expire_detached found past its deadline.                         *)

\* The first critical section of ReleasePlayer.
StartUnloading(g, p) ==
    /\ session[g][p].state # "none"
    /\ session' = [session EXCEPT ![g][p].state = "unloading"]
    /\ call' = [call EXCEPT ![g]["console"] =
                  [pc |-> "check", player |-> p, gate |-> 0, reuse |-> FALSE,
                   prev |-> session[g][p]]]

ReleasePlayer(g, p) ==
    /\ Idle(g, "console") /\ "release" \in Commands
    /\ StartUnloading(g, p)
    /\ UNCHANGED <<leaseVars, repoVars, runtime, bound>>

\* The scan of ExpireDetachedPlayers, under the mutex.  The deadline may
\* have passed whenever the player is detached.
ExpireScan(g, p) ==
    /\ Idle(g, "console") /\ "expire" \in Commands
    /\ session[g][p].state = "detached"
    /\ Enter(g, "console", "begin", p, 0, FALSE)
    /\ UNCHANGED <<leaseVars, repoVars, sessionVars>>

\* ReleasePlayer on a player found by the scan, some time later.
ExpireBegin(g) ==
    LET p == Player(g, "console") IN
    /\ At(g, "console", "begin")
    /\ \/ StartUnloading(g, p)
       \/ /\ session[g][p].state = "none"
          /\ Return(g, "console")
          /\ UNCHANGED session
    /\ UNCHANGED <<leaseVars, repoVars, runtime, bound>>

ReleaseCheck(g) ==
    /\ At(g, "console", "check")
    /\ Goto(g, "console", IF Dirty(g, Player(g, "console")) THEN "flush" ELSE "unbind")
    /\ UNCHANGED <<leaseVars, repoVars, sessionVars>>

ReleaseFlush(g) ==
    /\ At(g, "console", "flush")
    /\ \/ FlushPlayer(g, Player(g, "console"), TRUE) /\ Goto(g, "console", "unbind")
       \/ FlushPlayer(g, Player(g, "console"), FALSE) /\ Goto(g, "console", "restore")
    /\ UNCHANGED <<leaseVars, sessionVars>>

\* Mutant: a failed flush returns without putting the session back.
ReleaseRestoreNothing(g) ==
    /\ At(g, "console", "restore")
    /\ Return(g, "console")
    /\ UNCHANGED <<leaseVars, repoVars, sessionVars>>

\* A failed flush puts the session back as it was.
ReleaseRestore(g) ==
    LET p == Player(g, "console") IN
    /\ At(g, "console", "restore")
    /\ IF session[g][p].state # "none"
       THEN SetSession(g, p, call[g]["console"].prev)
       ELSE UNCHANGED session
    /\ Return(g, "console")
    /\ UNCHANGED <<leaseVars, repoVars, runtime, bound>>

\* "player is not bound locally" ends the release where it stands.
ReleaseUnbind(g) ==
    LET p == Player(g, "console") IN
    /\ At(g, "console", "unbind")
    /\ IF bound[g][p] = "self" THEN Goto(g, "console", "remove") ELSE Return(g, "console")
    /\ UnbindLocalPlayer(g, p)
    /\ UNCHANGED <<leaseVars, repoVars, session, runtime>>

ReleaseRemove(g) ==
    /\ At(g, "console", "remove")
    /\ runtime' = [runtime EXCEPT ![g] = @ \ {Player(g, "console")}]
    /\ Goto(g, "console", "drop")
    /\ UNCHANGED <<leaseVars, repoVars, session, bound>>

\* "player is not tracked by repository" ends it too.
ReleaseDrop(g) ==
    LET p == Player(g, "console") IN
    /\ At(g, "console", "drop")
    /\ IF Present(g, p) THEN Goto(g, "console", "release") ELSE Return(g, "console")
    /\ ReleaseRecord(g, p)
    /\ UNCHANGED <<leaseVars, sessionVars>>

ReleaseLease(g) ==
    /\ At(g, "console", "release")
    /\ Release(g, Player(g, "console")) /\ ReliableRedis
    /\ Goto(g, "console", "erase")
    /\ UNCHANGED <<repoVars, sessionVars>>

ReleaseErase(g) ==
    /\ At(g, "console", "erase")
    /\ SetSession(g, Player(g, "console"), NoSession)
    /\ Return(g, "console")
    /\ UNCHANGED <<leaseVars, repoVars, runtime, bound>>

ReleaseStep(g) ==
    \/ ExpireBegin(g) \/ ReleaseCheck(g) \/ ReleaseFlush(g) \/ ReleaseRestore(g)
    \/ ReleaseUnbind(g) \/ ReleaseRemove(g) \/ ReleaseDrop(g)
    \/ ReleaseLease(g) \/ ReleaseErase(g)

-----------------------------------------------------------------------------
(* ReconcileLeaseLosses, by the session loop or player_reconcile_lease_loss. *)

Reconcilers == {"sessionLoop"} \cup (IF "reconcile" \in Commands THEN {"console"} ELSE {})

\* The scan: a player in service whose lease is gone.  (The gate session is
\* told with UnbindPlayerSession, which changes nothing here.)
ReconcileScan(g, t, p) ==
    /\ Idle(g, t)
    /\ session[g][p].state \in {"online", "detached"}
    /\ ~IsHeldLocally(g, p)
    /\ Enter(g, t, "reconcileUnbind", p, 0, FALSE)
    /\ UNCHANGED <<leaseVars, repoVars, sessionVars>>

ReconcileUnbind(g, t) ==
    /\ At(g, t, "reconcileUnbind")
    /\ UnbindLocalPlayer(g, Player(g, t))
    /\ Goto(g, t, "reconcileCommit")
    /\ UNCHANGED <<leaseVars, repoVars, session, runtime>>

\* Mutant: the lost player stays online.
ReconcileCommitNothing(g, t) ==
    /\ At(g, t, "reconcileCommit")
    /\ Return(g, t)
    /\ UNCHANGED <<leaseVars, repoVars, sessionVars>>

\* The lease is looked at again before the session is detached.
ReconcileCommit(g, t) ==
    LET p == Player(g, t) IN
    /\ At(g, t, "reconcileCommit")
    /\ IF session[g][p].state = "online" /\ ~IsHeldLocally(g, p)
       THEN SetSession(g, p, Detached)
       ELSE UNCHANGED session
    /\ Return(g, t)
    /\ UNCHANGED <<leaseVars, repoVars, runtime, bound>>

-----------------------------------------------------------------------------
(* HandleForwardPlayerMessageRequest with a rename: the session and the    *)
(* lease are checked one after the other, then the command runs under the  *)
(* runtime's mutex.  (Echo is the same without the update.)                *)

MessageCheck(g, t, p) ==
    /\ Idle(g, t)
    /\ session[g][p].state = "online"
    /\ Enter(g, t, "messageLease", p, 0, FALSE)
    /\ UNCHANGED <<leaseVars, repoVars, sessionVars>>

MessageLease(g, t) ==
    /\ At(g, t, "messageLease")
    /\ IF IsHeldLocally(g, Player(g, t)) THEN Goto(g, t, "messageApply") ELSE Return(g, t)
    /\ UNCHANGED <<leaseVars, repoVars, sessionVars>>

MessageApply(g, t) ==
    LET p == Player(g, t) IN
    /\ At(g, t, "messageApply")
    /\ \/ p \in runtime[g] /\ UpdateData(g, p)
       \/ ~(p \in runtime[g] /\ Loaded(g, p)) /\ UNCHANGED repoVars
       \/ nextUpdate \notin Updates /\ UNCHANGED repoVars
    /\ Return(g, t)
    /\ UNCHANGED <<leaseVars, sessionVars>>

-----------------------------------------------------------------------------
(* FlushDuePlayersOnce, by the persistence loop or an operator: the        *)
(* record, then the lease, then the flush.  When a dirty record is due     *)
(* (age, back-off) is left open.                                           *)

Flushers == {"persistenceLoop"} \cup (IF "flushDue" \in Commands THEN {"console"} ELSE {})

PersistScan(g, t, p) ==
    /\ Idle(g, t)
    /\ Loaded(g, p) /\ Dirty(g, p)
    /\ Enter(g, t, "persistLease", p, 0, FALSE)
    /\ UNCHANGED <<leaseVars, repoVars, sessionVars>>

PersistLease(g, t) ==
    /\ At(g, t, "persistLease")
    /\ IF IsHeldLocally(g, Player(g, t)) THEN Goto(g, t, "persistFlush") ELSE Return(g, t)
    /\ UNCHANGED <<leaseVars, repoVars, sessionVars>>

PersistFlush(g, t) ==
    /\ At(g, t, "persistFlush")
    /\ \E ok \in BOOLEAN : FlushPlayer(g, Player(g, t), ok)
    /\ Return(g, t)
    /\ UNCHANGED <<leaseVars, sessionVars>>

-----------------------------------------------------------------------------
(* player_flush, and player_set_name or player_touch_login: no lease, no   *)
(* session.                                                                *)

FlushCommand(g, p) ==
    /\ Idle(g, "console") /\ "flush" \in Commands
    /\ \E ok \in BOOLEAN : FlushPlayer(g, p, ok)
    /\ UNCHANGED <<leaseVars, sessionVars, call>>

UpdateCommand(g, p) ==
    /\ Idle(g, "console") /\ "update" \in Commands
    /\ UpdateData(g, p)
    /\ UNCHANGED <<leaseVars, sessionVars, call>>

\* ipc_bind_player_local, ipc_bind_player_remote: nothing else is looked at.
BindCommand(g, p) ==
    /\ Idle(g, "console")
    /\ bound[g][p] = "nobody"
    /\ \/ "bindLocal" \in Commands /\ SetOwner(g, p, "self")
       \/ "bindRemote" \in Commands /\ SetOwner(g, p, "other")
    /\ UNCHANGED <<leaseVars, repoVars, session, runtime, call>>

-----------------------------------------------------------------------------
(* The process.                                                            *)

\* Everything a game keeps in memory.
Forget(g) ==
    /\ session' = [session EXCEPT ![g] = [p \in Players |-> NoSession]]
    /\ runtime' = [runtime EXCEPT ![g] = {}]
    /\ bound' = [bound EXCEPT ![g] = [p \in Players |-> "nobody"]]
    /\ call' = [call EXCEPT ![g] = [t \in Threads |-> NoCall]]
    /\ repo' = [repo EXCEPT ![g] = [p \in Players |-> Absent]]
    /\ UNCHANGED <<row, hot, nextUpdate>>

GameBoot(g) == Boot(g) /\ UNCHANGED <<repoVars, sessionVars, call>>

GameCrash(g) == Crash(g) /\ Forget(g)

\* The services stop in reverse order: the handlers end first, the lease
\* service gives its leases back last.  Nothing is flushed.
GameStop(g) ==
    /\ \A t \in Threads : call[g][t] = NoCall
    /\ Shutdown(g)
    /\ Forget(g)

\* The renewal pass, and Redis dropping keys.
RenewPass(g) ==
    /\ \E lost \in SUBSET Players : Loop(g, lost) /\ (LeaseFaults \/ lost = {})
    /\ ReliableRedis
    /\ UNCHANGED <<repoVars, sessionVars, call>>

ExpireKeys(S) ==
    /\ Expire(S)
    /\ LeaseFaults \/ \A p \in S, g \in Games : ~KeyIsMine(g, p)
    /\ UNCHANGED <<repoVars, sessionVars, call>>

-----------------------------------------------------------------------------

ActivateStep(g, t) ==
    \/ ActivateAcquire(g, t) \/ ActivateLoad(g, t) \/ ActivateBind(g, t)
    \/ ActivateEnsure(g, t) \/ ActivateEmplace(g, t) \/ ActivateCommit(g, t)
    \/ ActivateRollbackLease(g, t) \/ ActivateRollbackBind(g, t)
    \/ ActivateRollbackRecord(g, t)

\* A call in progress takes its next step.
Continue(g, t) ==
    \/ ActivateStep(g, t)
    \/ MessageLease(g, t) \/ MessageApply(g, t)
    \/ t = "console" /\ ReleaseStep(g)
    \/ ReconcileUnbind(g, t) \/ ReconcileCommit(g, t)
    \/ PersistLease(g, t) \/ PersistFlush(g, t)

Next ==
    \/ \E g \in Games, t \in Activators, p \in Players, gate \in GateSessions :
           ActivateCheck(g, t, p, gate)
    \/ \E g \in Games, t \in Handlers, p \in Players, gate \in GateSessions :
           DetachMatching(g, t, p, gate)
    \/ \E g \in Games, t \in Handlers, p \in Players : MessageCheck(g, t, p)
    \/ \E g \in Games, p \in Players :
           \/ DetachPlayer(g, p) \/ ReleasePlayer(g, p) \/ ExpireScan(g, p)
           \/ FlushCommand(g, p) \/ UpdateCommand(g, p) \/ BindCommand(g, p)
           \/ \E t \in Reconcilers : ReconcileScan(g, t, p)
           \/ \E t \in Flushers : PersistScan(g, t, p)
    \/ \E g \in Games, t \in Threads : Continue(g, t)
    \/ \E g \in Games : GameBoot(g) \/ GameCrash(g) \/ GameStop(g) \/ RenewPass(g)
    \/ \E S \in SUBSET Players : ExpireKeys(S)

Spec == Init /\ [][Next]_vars

\* Threads that are in the middle of an operation go on with it, and the
\* three loops come round.  Operators, clients and failures owe nothing.
FairSpec ==
    /\ Spec
    /\ \A g \in Games, t \in Threads : WF_vars(Continue(g, t))
    /\ \A g \in Games : WF_vars(RenewPass(g))
    /\ \A g \in Games, p \in Players : WF_vars(ReconcileScan(g, "sessionLoop", p))
    /\ \A g \in Games, p \in Players : WF_vars(PersistScan(g, "persistenceLoop", p))

-----------------------------------------------------------------------------
(* Properties.                                                             *)

InService(g, p) == session[g][p].state \in {"online", "detached"}

\* No player is loaded by two games at a time: the lease is taken before the
\* load and given back after the record is gone, also when a load or a release
\* fails half-way or a process dies.  (The error return after a receiver bound
\* to another process is the exception: the lease goes first.)
OneLoaded ==
    \A p \in Players, g, h \in Games : Loaded(g, p) /\ Loaded(h, p) => g = h

\* A player in service can be served: its game holds the lease, has the data
\* and an instance, and its receiver is bound here.
InServiceIsServed ==
    \A g \in Games, p \in Players :
        InService(g, p) =>
            IsHeldLocally(g, p) /\ Loaded(g, p) /\ p \in runtime[g] /\ bound[g][p] = "self"

\* The dataset never loses an update it once returned: no flush writes data
\* that was loaded before somebody else's flush.
NoLostUpdateStep ==
    \A p \in Players :
        Stored(p) # Absent => Stored(p)' # Absent /\ Stored(p) \subseteq Stored(p)'

NoLostUpdate == [][NoLostUpdateStep]_vars

\* Data that is not marked dirty is what the next load will return, so a
\* player that is released clean comes back as it was.
CleanIsStored ==
    \A g \in Games, p \in Players :
        Loaded(g, p) /\ ~Dirty(g, p) => Stored(p) = repo[g][p].data

\* A release comes to an end: the session is gone or back as it was.
ReleaseEnds ==
    \A g \in Games, p \in Players :
        session[g][p].state = "unloading" ~> session[g][p].state # "unloading"

\* A game that lost the lease of a player it has online notices: the player
\* does not stay online without a lease.
LossNoticed ==
    \A g \in Games, p \in Players :
        session[g][p].state = "online" /\ ~IsHeldLocally(g, p)
            ~> session[g][p].state # "online" \/ IsHeldLocally(g, p)

\* Even when leases are lost, a player in service has its data in memory and
\* an instance: releases and recoveries of the same player do not leave one
\* without the other.
InServiceHasData ==
    \A g \in Games, p \in Players :
        InService(g, p) => Loaded(g, p) /\ p \in runtime[g]
-----------------------------------------------------------------------------
(* What the games promise together.                                        *)

Holders(p) == {g \in Games : Loaded(g, p)}
HeldData(p) == UNION {repo[g][p].data : g \in Holders(p)}

Ownership == INSTANCE PlayerOwnership WITH
    owners <- [p \in Players |-> Holders(p)],
    data <- [p \in Players |-> HeldData(p)],
    stored <- [p \in Players |-> Stored(p)]

\* The games implement PlayerOwnership: a player's data goes from one owner to
\* the next only through the dataset.  A load happens only when no game has the
\* player and returns what the last flush left; nobody but the owner changes or
\* flushes it, whatever calls interleave, fail half-way or die with a process.
OwnershipKept == Ownership!OwnershipSpec
=============================================================================
