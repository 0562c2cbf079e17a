------------------------------- MODULE IpcNode -------------------------------
(***************************************************************************)
(* Membership of one IPC node (a game, a gate or the relay): registration  *)
(* in etcd under a lease, the keep-alive thread and its recovery, the      *)
(* watch on the members with its two threads (EtcdDiscovery::WatchLoop and *)
(* the stream reader of the etcd client), and the automatic connection to  *)
(* one peer (the relay for a game or a gate, a game for the relay).        *)
(*                                                                         *)
(* EtcdDiscovery has one mutex, held for a whole RegisterSelf, Remove or   *)
(* ApplySnapshot but not across the RPC of a refresh or of a keep-alive:   *)
(* a refresh is two steps, Get and Apply, of the thread that makes it.     *)
(***************************************************************************)
EXTENDS Integers, Sequences, SequencesExt

CONSTANTS
    Endpoints,      \* endpoints the peer may listen on
    Refreshes,      \* ShouldRefreshAutoConnectLocked: TRUE for game and gate
    Stalls,         \* TRUE: the node's lease may run out between two renewals
    MaxLeases,      \* bound on the leases etcd grants
    MaxFaults,      \* bound on outages, broken streams, lost links, stalls
    MaxChanges,     \* bound on starts and ends of the peer
    None            \* no endpoint, no snapshot

ASSUME NodeAssumption ==
    /\ Refreshes \in BOOLEAN /\ Stalls \in BOOLEAN
    /\ MaxLeases \in Nat /\ MaxFaults \in Nat /\ MaxChanges \in Nat
    /\ None \notin Endpoints

VARIABLES
    etcd,       \* the etcd cluster: up, live leases, the node's and the peer's key
    peer,       \* the endpoint the peer process listens on
    link,       \* a healthy link to the peer exists
    faults, changes,
    disc,       \* EtcdDiscovery: mLeaseId, mSelf, mProcesses, mEvents, mStopWatch
    node,       \* IpcNodeCore: flags and mAutoConnectAttempts
    backend,    \* EtcdSdkDiscoveryBackend: mWatchRunning, the reader, mWatchQueue
    main, keep, auto, watcher, \* the threads
    seen,       \* what the drained membership events add up to
    undeleted   \* a put or a removal of the node's key got no answer

envVars == <<etcd, peer, link, faults, changes>>
historyVars == <<seen, undeleted>>
threadVars == <<main, keep, auto, watcher>>
vars == <<envVars, disc, node, backend, threadVars, historyVars>>

Lease == 1..MaxLeases
Maybe(S) == S \cup {None}

\* mProcesses, and a snapshot of the members: is the node in it, and the peer.
Members == [self : BOOLEAN, peer : Maybe(Endpoints)]

\* MembershipEvent of the peer; the value is the endpoint, None when removed.
Event == Maybe(Endpoints)

\* WatchPollKind; stream_closed and error are handled alike.
WatchPollKind == {"event", "stopped", "closed"}

MainSteps == {"loaded", "refresh", "refreshed", "watch", "watchRefresh", "watchRefreshed",
              "watchAgain", "watchedAgain", "loops", "running", "stopWatch", "joinWatch",
              "stopKeep", "remove", "stopped", "unloadJoin", "unloaded", "gone"}
KeepSteps == {"none", "wait", "refresh", "refreshed", "watch", "watchRefresh", "watchRefreshed",
              "watchAgain", "watchedAgain", "recovered", "reconcile", "ended"}
AutoSteps == {"none", "wait", "refresh", "refreshed", "reconcile", "ended"}
WatcherSteps == {"none", "start", "poll", "event", "eventApply", "closed", "closedApply",
                 "teardown", "ended"}

Thread(steps) == [at : steps, snap : Members \cup {None}]
At(t, label) == t.at = label
Step(t, label) == [t EXCEPT !.at = label]

\* The reader thread of the etcd client: spawned (its context not yet
\* published), connecting, open, finishing (mWatchRunning is false, the result
\* not yet queued), terminal (result queued, mWatchRunning not yet false).
ReaderSteps == {"none", "spawned", "connecting", "open", "finishing", "terminal"}

Etcd == [up : BOOLEAN, leases : SUBSET Lease, granted : 0..MaxLeases, self : {0} \cup Lease,
         peer : Maybe(Endpoints)]
Discovery == [lease : {0} \cup Lease, self : BOOLEAN, view : Members, events : Seq(Event),
              stopWatch : BOOLEAN]

\* The shape of the state.
NodeTypeOK ==
    /\ etcd \in Etcd /\ disc \in Discovery
    /\ peer \in Maybe(Endpoints) /\ link \in BOOLEAN
    /\ faults \in 0..MaxFaults /\ changes \in 0..MaxChanges
    /\ node \in [transportReady : BOOLEAN, registered : BOOLEAN, attempted : BOOLEAN,
                 stopKeep : BOOLEAN, stopAuto : BOOLEAN]
    /\ backend.running \in BOOLEAN /\ backend.stop \in BOOLEAN
    /\ backend.reader \in ReaderSteps /\ backend.queue \in Seq(WatchPollKind)
    /\ main \in Thread(MainSteps) /\ keep \in Thread(KeepSteps)
    /\ watcher \in Thread(WatcherSteps) /\ auto \in Thread(AutoSteps)
    /\ seen \in Maybe(Endpoints) /\ undeleted \in BOOLEAN

NoMembers == [self |-> FALSE, peer |-> None]

Init ==
    /\ etcd = [up |-> TRUE, leases |-> {}, granted |-> 0, self |-> 0, peer |-> None]
    /\ peer = None /\ link = FALSE /\ faults = 0 /\ changes = 0
    /\ disc = [lease |-> 0, self |-> FALSE, view |-> NoMembers, events |-> <<>>,
               stopWatch |-> FALSE]
    /\ node = [transportReady |-> FALSE, registered |-> FALSE, attempted |-> FALSE,
               stopKeep |-> FALSE, stopAuto |-> FALSE]
    /\ backend = [running |-> FALSE, stop |-> FALSE, reader |-> "none", queue |-> <<>>]
    /\ main = [at |-> "loaded", snap |-> None]
    /\ keep = [at |-> "none", snap |-> None]
    /\ watcher = [at |-> "none", snap |-> None]
    /\ auto = [at |-> "none", snap |-> None]
    /\ seen = None /\ undeleted = FALSE

-----------------------------------------------------------------------------
(* The environment: etcd, the peer process, the network.                   *)

Fault == faults < MaxFaults /\ faults' = faults + 1
Change == changes < MaxChanges /\ changes' = changes + 1
KeepNode == UNCHANGED <<disc, node, threadVars, historyVars>>

EtcdDown ==
    /\ Fault /\ etcd.up
    /\ etcd' = [etcd EXCEPT !.up = FALSE]
    /\ UNCHANGED <<peer, link, changes, backend>> /\ KeepNode

EtcdUp ==
    /\ ~etcd.up
    /\ etcd' = [etcd EXCEPT !.up = TRUE]
    /\ UNCHANGED <<peer, link, faults, changes, backend>> /\ KeepNode

\* A watch that is open at etcd reports every change of the members.
Notify == backend' = IF backend.reader = "open"
                     THEN [backend EXCEPT !.queue = Append(@, "event")]
                     ELSE backend

\* A lease runs out at etcd and takes its key with it.  The keep-alive period
\* is half the time to live, so a lease that is renewed runs out only when the
\* node stalls.  Leases that the node neither has nor uses make no difference.
Expire(l) ==
    /\ etcd.up /\ l \in etcd.leases /\ l \in {etcd.self, disc.lease}
    /\ \/ l # disc.lease /\ UNCHANGED faults
       \/ keep.at = "wait" /\ ~node.registered /\ UNCHANGED faults
       \/ Stalls /\ Fault
    /\ etcd' = [etcd EXCEPT !.leases = @ \ {l}, !.self = IF @ = l THEN 0 ELSE @]
    /\ IF etcd.self = l THEN Notify ELSE UNCHANGED backend
    /\ UNCHANGED <<peer, link, changes>> /\ KeepNode

\* The peer starts, also before its old key has run out.
PeerStart(e) ==
    /\ Change /\ etcd.up /\ peer = None
    /\ peer' = e /\ etcd' = [etcd EXCEPT !.peer = e]
    /\ Notify
    /\ UNCHANGED <<link, faults>> /\ KeepNode

\* The peer stops and removes its key, or dies and leaves it to its lease.
PeerEnd ==
    /\ Change /\ peer # None /\ peer' = None /\ link' = FALSE
    /\ \/ etcd.up /\ etcd' = [etcd EXCEPT !.peer = None] /\ Notify
       \/ UNCHANGED <<etcd, backend>>
    /\ UNCHANGED faults /\ KeepNode

PeerExpire ==
    /\ etcd.up /\ peer = None /\ etcd.peer # None
    /\ etcd' = [etcd EXCEPT !.peer = None] /\ Notify
    /\ UNCHANGED <<peer, link, faults, changes>> /\ KeepNode

LinkLost ==
    /\ Fault /\ link /\ link' = FALSE
    /\ UNCHANGED <<etcd, peer, changes, backend>> /\ KeepNode

-----------------------------------------------------------------------------
(* The etcd client's watch.                                                *)

Push(b, kind) == [b EXCEPT !.queue = Append(@, kind)]

\* WatchLoop publishes its context, then asks etcd for the watch.
ReaderPublish ==
    /\ backend.reader = "spawned"
    /\ backend' = [backend EXCEPT !.reader = "connecting"]

ReaderOpen ==
    /\ backend.reader = "connecting" /\ etcd.up
    /\ backend' = [backend EXCEPT !.reader = "open"]

\* The stream cannot be made, breaks or is cancelled: mWatchRunning becomes
\* false in one critical section, the result is queued in the next.
ReaderFinish ==
    /\ \/ backend.reader \in {"connecting", "open"} /\ ~etcd.up /\ UNCHANGED faults
       \/ backend.reader = "open" /\ Fault
    /\ backend' = [backend EXCEPT !.running = FALSE, !.reader = "finishing"]

ReaderReport ==
    /\ backend.reader = "finishing"
    /\ backend' = [Push(backend, IF backend.stop THEN "stopped" ELSE "closed")
                      EXCEPT !.reader = "none"]

\* etcd cancels the watch: the result is queued first.
ReaderCanceled ==
    /\ backend.reader = "open" /\ Fault
    /\ backend' = [Push(backend, "closed") EXCEPT !.reader = "terminal"]

ReaderEnd ==
    /\ backend.reader = "terminal"
    /\ backend' = [backend EXCEPT !.running = FALSE, !.reader = "none"]

Reader ==
    /\ \/ ReaderPublish /\ UNCHANGED faults
       \/ ReaderOpen /\ UNCHANGED faults
       \/ ReaderFinish
       \/ ReaderReport /\ UNCHANGED faults
       \/ ReaderCanceled
       \/ ReaderEnd /\ UNCHANGED faults
    /\ UNCHANGED <<etcd, peer, link, changes, disc, node, threadVars, historyVars>>

StartWatchPrefix(b) ==
    IF b.running THEN b
    ELSE [b EXCEPT !.stop = FALSE, !.queue = <<>>, !.running = TRUE, !.reader = "spawned"]

\* StopWatch up to its join.  A published context is cancelled, which ends the
\* reader; a reader that has not published one goes on.
StopWatchPrefix(b) ==
    [Push(b, "stopped") EXCEPT !.stop = TRUE, !.running = FALSE,
        !.reader = IF @ = "spawned" THEN "spawned" ELSE "none"]

\* The join of StopWatch.
ReaderJoined == backend.reader = "none"

\* EtcdDiscovery::StopWatch holds the mutex while it waits for the reader.
DiscFree == main.at \in {"joinWatch", "unloadJoin"} => ReaderJoined

-----------------------------------------------------------------------------
(* EtcdDiscovery.                                                          *)

\* The lease RegisterSelf puts its key under: the one it has, while etcd knows
\* it, else a new one.
LeaseToUse == IF disc.lease \in etcd.leases THEN disc.lease ELSE etcd.granted + 1

Put(l) == [etcd EXCEPT !.leases = @ \cup {l}, !.self = l,
                       !.granted = IF l > @ THEN l ELSE @]

\* RegisterSelf: grant, put, and once more with a new lease when the put fails.
\* The last case is a put whose answer is lost as etcd goes down.
RegisterSelf(ok) ==
    /\ DiscFree
    /\ \/ /\ ok /\ etcd.up /\ LeaseToUse <= MaxLeases
          /\ etcd' = Put(LeaseToUse)
          /\ disc' = [disc EXCEPT !.lease = LeaseToUse, !.self = TRUE, !.view.self = TRUE]
          /\ Notify
          /\ UNCHANGED <<faults, undeleted>>
       \/ /\ ~ok /\ ~etcd.up
          /\ disc' = [disc EXCEPT !.lease = 0]
          /\ UNCHANGED <<etcd, faults, backend, undeleted>>
       \/ /\ ~ok /\ etcd.up /\ LeaseToUse <= MaxLeases /\ Fault
          /\ etcd' = [Put(LeaseToUse) EXCEPT !.up = FALSE]
          /\ disc' = [disc EXCEPT !.lease = 0]
          /\ undeleted' = TRUE
          /\ UNCHANGED backend

\* The renewal of a lease fails when etcd is not reachable.  For a lease that
\* has run out etcd answers with the id and no time to live; only the id is
\* looked at.
RenewOk == disc.lease # 0 /\ etcd.up

Delete ==
    \/ /\ etcd.up
       /\ etcd' = [etcd EXCEPT !.self = 0]
       /\ disc' = [disc EXCEPT !.lease = 0, !.self = FALSE, !.view.self = FALSE]
       /\ Notify
       /\ UNCHANGED undeleted
    \/ /\ ~etcd.up
       /\ undeleted' = TRUE
       /\ UNCHANGED <<etcd, disc, backend>>

\* RefreshSnapshot: the RPC, then ApplySnapshot with the events of the changes.
\* The snapshot is read at one moment and applied at a later one.
Snapshot == [self |-> etcd.self # 0, peer |-> etcd.peer]

Get(t, t2, ok, fail) ==
    t2 = IF etcd.up THEN [t EXCEPT !.at = ok, !.snap = Snapshot] ELSE Step(t, fail)

\* Mutant: a member that is gone is not an event.
QueueDiffEventsPresent(previous, current) ==
    IF current.peer \in {None, previous.peer} THEN <<>> ELSE <<current.peer>>

QueueDiffEvents(previous, current) ==
    IF current.peer = previous.peer THEN <<>> ELSE <<current.peer>>

ApplySnapshot(snap) ==
    /\ DiscFree
    /\ disc' = [disc EXCEPT !.view = snap, !.events = @ \o QueueDiffEvents(disc.view, snap)]

Applied(t, label) == [t EXCEPT !.at = label, !.snap = None]

-----------------------------------------------------------------------------
(* Automatic connection to the peer; r is what it works on.                *)

TryAutoConnectMember(r, e) ==
    IF node.registered /\ e # None /\ ~r.link /\ ~r.attempted /\ peer = e
    THEN [attempted |-> TRUE, link |-> TRUE]
    ELSE r

HandleMembershipEvent(r, e) ==
    IF e = None THEN [r EXCEPT !.attempted = FALSE] ELSE TryAutoConnectMember(r, e)

Connecting(r) == node' = [node EXCEPT !.attempted = r.attempted] /\ link' = r.link

ReconcileAutoConnectMembers ==
    Connecting(TryAutoConnectMember([attempted |-> node.attempted, link |-> link], disc.view.peer))

\* Mutant: only the link is looked at.
ShouldGameReconcileByLink == Refreshes /\ ~link

\* ShouldRefreshAutoConnectLocked.
ShouldGameReconcile == Refreshes /\ (~link \/ disc.view.peer = None)

\* The peer connects to a node it has discovered.
PeerConnects ==
    /\ peer # None /\ etcd.self # 0 /\ ~link
    /\ main.at = "running"
    /\ link' = TRUE
    /\ UNCHANGED <<etcd, peer, faults, changes, backend>> /\ KeepNode

-----------------------------------------------------------------------------
(* The keep-alive thread.                                                  *)

KeepOnly == UNCHANGED <<peer, changes, main, auto, watcher, seen>>

\* Mutant: a renewal that fails does not degrade the node.
KeepAliveNotDegrading ==
    /\ At(keep, "wait") /\ ~node.stopKeep /\ node.registered /\ DiscFree
    /\ disc' = IF RenewOk THEN disc ELSE [disc EXCEPT !.lease = 0]
    /\ UNCHANGED <<etcd, link, faults, node, backend, keep, undeleted>> /\ KeepOnly

\* A renewal; when it fails the node is degraded (HandleDiscoveryFailureLocked).
KeepAlive ==
    /\ At(keep, "wait") /\ ~node.stopKeep /\ node.registered /\ DiscFree
    /\ IF RenewOk THEN UNCHANGED <<disc, node>>
       ELSE /\ disc' = [disc EXCEPT !.lease = 0]
            /\ node' = [node EXCEPT !.registered = FALSE, !.attempted = FALSE]
    /\ UNCHANGED <<etcd, link, faults, backend, keep, undeleted>> /\ KeepOnly

\* TryRecoverDiscovery: register, refresh, StartWatch, then in service again.
RecoverRegister ==
    /\ At(keep, "wait") /\ ~node.stopKeep /\ ~node.registered /\ node.transportReady
    /\ \/ RegisterSelf(TRUE) /\ keep' = Step(keep, "refresh")
       \/ RegisterSelf(FALSE) /\ UNCHANGED keep
    /\ UNCHANGED <<link, node>> /\ KeepOnly

RecoverRefresh ==
    /\ \/ At(keep, "refresh") /\ Get(keep, keep', "refreshed", "wait")
       \/ At(keep, "watchRefresh") /\ Get(keep, keep', "watchRefreshed", "wait")
       \/ At(keep, "watchAgain") /\ Get(keep, keep', "watchedAgain", "wait")
    /\ UNCHANGED <<etcd, link, faults, disc, node, backend, undeleted>> /\ KeepOnly

RecoverApply ==
    /\ \/ At(keep, "refreshed") /\ keep' = Applied(keep, "watch") /\ UNCHANGED watcher
       \/ At(keep, "watchRefreshed") /\ keep' = Applied(keep, "watchAgain")
          /\ watcher' = [at |-> "start", snap |-> None]
       \/ At(keep, "watchedAgain") /\ keep' = Applied(keep, "recovered") /\ UNCHANGED watcher
    /\ ApplySnapshot(keep.snap)
    /\ UNCHANGED <<etcd, link, faults, node, backend, undeleted>>
    /\ UNCHANGED <<peer, changes, main, auto, seen>>

\* StartWatch returns at once while the watch thread has not been joined.
RecoverWatch ==
    /\ At(keep, "watch") /\ DiscFree
    /\ IF watcher.at # "none" THEN keep' = Step(keep, "recovered") /\ UNCHANGED disc
       ELSE /\ keep' = Step(keep, "watchRefresh")
            /\ disc' = [disc EXCEPT !.stopWatch = FALSE]
    /\ UNCHANGED <<etcd, link, faults, node, backend, undeleted>> /\ KeepOnly

Recovered ==
    /\ At(keep, "recovered")
    /\ keep' = Step(keep, "reconcile")
    /\ node' = [node EXCEPT !.registered = TRUE]
    /\ UNCHANGED <<etcd, link, faults, disc, backend, undeleted>> /\ KeepOnly

OnDiscoveryRecovered ==
    /\ At(keep, "reconcile")
    /\ keep' = Step(keep, "wait")
    /\ ReconcileAutoConnectMembers
    /\ UNCHANGED <<etcd, faults, disc, backend, undeleted>> /\ KeepOnly

KeepEnd ==
    /\ At(keep, "wait") /\ node.stopKeep
    /\ keep' = Step(keep, "ended")
    /\ UNCHANGED <<etcd, link, faults, disc, node, backend, undeleted>> /\ KeepOnly

KeepAliveLoop == KeepAlive \/ RecoverRegister \/ RecoverRefresh \/ RecoverApply
                 \/ RecoverWatch \/ Recovered \/ OnDiscoveryRecovered \/ KeepEnd

-----------------------------------------------------------------------------
(* The auto-connect thread.                                                *)

AutoOnly == UNCHANGED <<etcd, peer, faults, changes, backend, main, keep, watcher,
                        undeleted>>

\* One round: does the role want a refresh, then the membership events so far.
AutoEvents ==
    /\ At(auto, "wait") /\ ~node.stopAuto /\ DiscFree
    /\ auto' = Step(auto, IF ShouldGameReconcile THEN "refresh" ELSE "wait")
    /\ Connecting(FoldLeft(HandleMembershipEvent,
                           [attempted |-> node.attempted, link |-> link], disc.events))
    /\ disc' = [disc EXCEPT !.events = <<>>]
    /\ seen' = IF disc.events = <<>> THEN seen ELSE Last(disc.events)
    /\ AutoOnly

AutoRefresh ==
    /\ At(auto, "refresh")
    /\ Get(auto, auto', "refreshed", "wait")
    /\ UNCHANGED <<link, disc, node, seen>> /\ AutoOnly

AutoApply ==
    /\ At(auto, "refreshed")
    /\ ApplySnapshot(auto.snap)
    /\ auto' = Applied(auto, "reconcile")
    /\ UNCHANGED <<link, node, seen>> /\ AutoOnly

AutoReconcile ==
    /\ At(auto, "reconcile") /\ DiscFree
    /\ ReconcileAutoConnectMembers
    /\ auto' = Step(auto, "wait")
    /\ UNCHANGED <<disc, seen>> /\ AutoOnly

AutoEnd ==
    /\ At(auto, "wait") /\ node.stopAuto
    /\ auto' = Step(auto, "ended")
    /\ UNCHANGED <<link, disc, node, seen>> /\ AutoOnly

AutoConnectLoop == AutoEvents \/ AutoRefresh \/ AutoApply \/ AutoReconcile \/ AutoEnd

-----------------------------------------------------------------------------
(* EtcdDiscovery::WatchLoop.                                               *)

WatcherOnly == UNCHANGED <<envVars, node, main, keep, auto, historyVars>>

WatchStart ==
    /\ At(watcher, "start") /\ DiscFree
    /\ IF disc.stopWatch
       THEN watcher' = Step(watcher, "teardown") /\ UNCHANGED backend
       ELSE watcher' = Step(watcher, "poll") /\ backend' = StartWatchPrefix(backend)
    /\ UNCHANGED disc /\ WatcherOnly

\* WaitForWatchEvent: an empty queue without a running watch reads as stopped.
WatchPoll ==
    /\ At(watcher, "poll")
    /\ \/ /\ backend.queue # <<>>
          /\ backend' = [backend EXCEPT !.queue = Tail(@)]
          /\ LET kind == Head(backend.queue) IN
             watcher' = Step(watcher, IF kind = "event" THEN "event"
                                      ELSE IF kind = "stopped" THEN "ended"
                                      ELSE IF disc.stopWatch THEN "teardown" ELSE "closed")
       \/ /\ backend.queue = <<>> /\ ~backend.running
          /\ watcher' = Step(watcher, "ended")
          /\ UNCHANGED backend
    /\ UNCHANGED disc /\ WatcherOnly

WatchRefresh ==
    /\ \/ At(watcher, "event") /\ Get(watcher, watcher', "eventApply", "poll")
       \/ At(watcher, "closed") /\ Get(watcher, watcher', "closedApply", "teardown")
    /\ UNCHANGED <<disc, backend>> /\ WatcherOnly

WatchApply ==
    /\ \/ At(watcher, "eventApply") /\ watcher' = Applied(watcher, "poll")
       \/ At(watcher, "closedApply") /\ watcher' = Applied(watcher, "teardown")
    /\ ApplySnapshot(watcher.snap)
    /\ UNCHANGED backend /\ WatcherOnly

\* The broken watch is joined and, unless the node stops, made anew later.
WatchTeardown ==
    /\ At(watcher, "teardown")
    /\ backend' = StopWatchPrefix(backend)
    /\ watcher' = Step(watcher, IF disc.stopWatch THEN "ended" ELSE "start")
    /\ UNCHANGED disc /\ WatcherOnly

WatchLoop == WatchStart \/ WatchPoll \/ WatchRefresh \/ WatchApply \/ WatchTeardown

-----------------------------------------------------------------------------
(* Start, Stop and Unload of the IPC service.                              *)

MainOnly == UNCHANGED <<peer, changes, seen>>

\* StartIpcRuntime: listen and register.  Without a registration nothing
\* further is started but the auto-connect loop.
StartRegister ==
    /\ At(main, "loaded")
    /\ \/ /\ main' = Step(main, "loops")
          /\ UNCHANGED <<etcd, faults, disc, node, backend, undeleted>>
       \/ /\ RegisterSelf(FALSE) /\ main' = Step(main, "loops")
          /\ node' = [node EXCEPT !.transportReady = TRUE]
       \/ /\ RegisterSelf(TRUE) /\ main' = Step(main, "refresh")
          /\ node' = [node EXCEPT !.transportReady = TRUE, !.registered = TRUE]
    /\ UNCHANGED <<link, keep, auto, watcher>> /\ MainOnly

StartRefresh ==
    /\ \/ At(main, "refresh") /\ Get(main, main', "refreshed", "watch")
       \/ At(main, "watchRefresh") /\ Get(main, main', "watchRefreshed", "loops")
       \/ At(main, "watchAgain") /\ Get(main, main', "watchedAgain", "loops")
    /\ UNCHANGED <<etcd, link, faults, disc, node, backend, keep, auto, watcher, undeleted>>
    /\ MainOnly

StartApply ==
    /\ \/ At(main, "refreshed") /\ main' = Applied(main, "watch") /\ UNCHANGED watcher
       \/ At(main, "watchRefreshed") /\ main' = Applied(main, "watchAgain")
          /\ watcher' = [at |-> "start", snap |-> None]
       \/ At(main, "watchedAgain") /\ main' = Applied(main, "loops") /\ UNCHANGED watcher
    /\ ApplySnapshot(main.snap)
    /\ UNCHANGED <<etcd, link, faults, node, backend, keep, auto, undeleted>> /\ MainOnly

StartWatch ==
    /\ At(main, "watch")
    /\ main' = Step(main, "watchRefresh")
    /\ disc' = [disc EXCEPT !.stopWatch = FALSE]
    /\ UNCHANGED <<etcd, link, faults, node, backend, keep, auto, watcher, undeleted>> /\ MainOnly

StartLoops ==
    /\ At(main, "loops")
    /\ main' = Step(main, "running")
    /\ keep' = IF node.registered THEN Step(keep, "wait") ELSE keep
    /\ auto' = Step(auto, "wait")
    /\ ReconcileAutoConnectMembers
    /\ UNCHANGED <<etcd, faults, disc, backend, watcher, undeleted>> /\ MainOnly

\* StopIpcRuntime: the auto-connect thread, the watch, the keep-alive thread,
\* and then the key.
Stop ==
    /\ At(main, "running")
    /\ main' = Step(main, "stopWatch")
    /\ node' = [node EXCEPT !.stopAuto = TRUE]
    /\ UNCHANGED <<etcd, link, faults, disc, backend, keep, auto, watcher, undeleted>> /\ MainOnly

Ended(t) == t.at \in {"none", "ended"}

StopWatch ==
    /\ \/ At(main, "stopWatch") /\ Ended(auto) /\ main' = Step(main, "joinWatch")
       \/ At(main, "stopped") /\ main' = Step(main, "unloadJoin")
    /\ disc' = [disc EXCEPT !.stopWatch = TRUE]
    /\ backend' = StopWatchPrefix(backend)
    /\ UNCHANGED <<etcd, link, faults, node, keep, auto, watcher, undeleted>> /\ MainOnly

JoinWatch ==
    /\ At(main, "joinWatch") /\ ReaderJoined /\ Ended(watcher)
    /\ watcher' = Step(watcher, "none")
    /\ main' = Step(main, "stopKeep")
    /\ UNCHANGED <<etcd, link, faults, disc, node, backend, keep, auto, undeleted>> /\ MainOnly

StopKeepAliveLoop ==
    /\ At(main, "stopKeep")
    /\ main' = Step(main, "remove")
    /\ node' = [node EXCEPT !.stopKeep = TRUE]
    /\ UNCHANGED <<etcd, link, faults, disc, backend, keep, auto, watcher, undeleted>> /\ MainOnly

RemoveSelf ==
    /\ At(main, "remove") /\ Ended(keep)
    /\ main' = Step(main, "stopped")
    /\ IF node.registered THEN Delete ELSE UNCHANGED <<etcd, disc, backend, undeleted>>
    /\ node' = [node EXCEPT !.registered = FALSE]
    /\ UNCHANGED <<link, faults, keep, auto, watcher>> /\ MainOnly

Unload ==
    /\ At(main, "unloadJoin") /\ ReaderJoined /\ Ended(watcher)
    /\ main' = Step(main, "unloaded")
    /\ watcher' = Step(watcher, "none")
    /\ node' = [node EXCEPT !.transportReady = FALSE, !.registered = FALSE, !.attempted = FALSE]
    /\ link' = FALSE
    /\ UNCHANGED <<etcd, faults, disc, backend, keep, auto, undeleted>> /\ MainOnly

\* Mutant: the destructor leaves the key.
DestroyOnly ==
    /\ At(main, "unloaded")
    /\ main' = Step(main, "gone")
    /\ UNCHANGED <<etcd, link, faults, disc, node, backend, keep, auto, watcher, undeleted>>
    /\ MainOnly

\* ~EtcdDiscovery removes a key that is still there.
Destroy ==
    /\ At(main, "unloaded")
    /\ main' = Step(main, "gone")
    /\ IF disc.self THEN Delete ELSE UNCHANGED <<etcd, disc, backend, undeleted>>
    /\ UNCHANGED <<link, faults, node, keep, auto, watcher>> /\ MainOnly

Main == StartRegister \/ StartRefresh \/ StartApply \/ StartWatch \/ StartLoops
        \/ StopWatch \/ JoinWatch \/ StopKeepAliveLoop \/ RemoveSelf \/ Unload \/ Destroy

Environment ==
    \/ EtcdDown \/ EtcdUp \/ PeerEnd \/ PeerExpire \/ LinkLost \/ PeerConnects
    \/ \E l \in Lease : Expire(l)
    \/ \E e \in Endpoints : PeerStart(e)

Next == (main.at # "gone" /\ Environment) \/ Reader \/ KeepAliveLoop \/ AutoConnectLoop
        \/ WatchLoop \/ Main \/ Stop

Spec == Init /\ [][Next]_vars

\* The threads of the process run; the operator need not stop it, and etcd, the
\* peer and the network promise nothing.
FairSpec == Spec /\ WF_vars(KeepAliveLoop) /\ WF_vars(AutoConnectLoop) /\ WF_vars(WatchLoop)
                 /\ WF_vars(Main) /\ WF_vars(Reader)

-----------------------------------------------------------------------------
(* Properties.                                                             *)

\* The membership events, drained and pending, add up to the members the node
\* knows, whichever threads refresh the snapshot (QueueDiffEvents, ApplySnapshot).
EventsMatchView ==
    disc.view.peer = IF disc.events = <<>> THEN seen ELSE Last(disc.events)

\* A node that has ended is no member any more, unless a put or a delete of its
\* key got no answer: no thread of it registers after Remove.
NoGhostMember == main.at = "gone" /\ ~undeleted => etcd.self = 0

\* An outage of etcd ends for a node that was registered: once etcd stays up
\* the keep-alive thread has it registered again for good (TryRecoverDiscovery).
RegistrationRecovers ==
    <>[](etcd.up /\ main.at = "running" /\ ~Ended(keep))
        => <>[](node.registered /\ etcd.self # 0 /\ disc.lease = etcd.self)

\* A game or gate sees the relay once it stays registered, also when the watch
\* lost the event or is gone (AutoConnectLoop, ShouldGameReconcile).
RelaySeen ==
    <>[](etcd.up /\ etcd.peer # None /\ main.at = "running") => <>[](disc.view.peer # None)
=============================================================================
