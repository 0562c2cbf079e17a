---------------------------- MODULE IpcNodeProofs ----------------------------
(***************************************************************************)
(* Theorems about the membership of an IPC node, for any number of leases, *)
(* faults, endpoints and changes of the peer, with stalls and without.     *)
(***************************************************************************)
EXTENDS IpcNode, TLAPS

-----------------------------------------------------------------------------
(* The invariant.                                                          *)

\* The steps at which a thread is about to apply the snapshot it has read.
Applying == {"refreshed", "watchRefreshed", "watchedAgain", "eventApply", "closedApply"}

ThreadOK(t, steps) == t \in Thread(steps) /\ (t.at \in Applying => t.snap \in Members)

\* A key that is in etcd is one EtcdDiscovery knows of, unless an answer was lost.
KeyOK == etcd.self # 0 /\ ~undeleted => disc.self

\* The keep-alive thread has ended, or was never started, before the key is removed.
KeepEnds == main.at \in {"stopped", "unloadJoin", "unloaded", "gone"} => Ended(keep)

NodeInv ==
    /\ etcd \in Etcd /\ disc \in Discovery /\ undeleted \in BOOLEAN
    /\ ThreadOK(main, MainSteps) /\ ThreadOK(keep, KeepSteps)
    /\ ThreadOK(auto, AutoSteps) /\ ThreadOK(watcher, WatcherSteps)
    /\ KeyOK /\ KeepEnds /\ EventsMatchView /\ NoGhostMember

-----------------------------------------------------------------------------
(* Facts about the operators.                                              *)

LEMMA StepFacts ==
    ASSUME NEW steps, NEW label \in steps, NEW t \in Thread(steps)
    PROVE  /\ Step(t, label) \in Thread(steps) /\ Step(t, label).at = label
           /\ Step(t, label).snap = t.snap
           /\ Applied(t, label) \in Thread(steps) /\ Applied(t, label).at = label
           /\ label \notin Applying => ThreadOK(Step(t, label), steps) /\ ThreadOK(Applied(t, label), steps)
  BY DEF Thread, Step, Applied, ThreadOK

LEMMA SnapshotFacts ==
    ASSUME etcd \in Etcd
    PROVE  Snapshot \in Members
  BY DEF Etcd, Snapshot, Members

\* The RPC of a refresh.
LEMMA GetFacts ==
    ASSUME etcd \in Etcd, NEW steps, NEW ok \in steps, NEW fail \in steps, NEW t \in Thread(steps),
           NEW t2, Get(t, t2, ok, fail), fail \notin Applying
    PROVE  ThreadOK(t2, steps) /\ t2.at \in {ok, fail}
<1>1. CASE etcd.up
  <2>1. t2 = [t EXCEPT !.at = ok, !.snap = Snapshot]
    BY <1>1 DEF Get
  <2>2. Snapshot \in Members
    BY SnapshotFacts
  <2> QED
    BY <2>1, <2>2 DEF Thread, ThreadOK
<1>2. CASE ~etcd.up
  <2>1. t2 = Step(t, fail)
    BY <1>2 DEF Get
  <2> QED
    BY <2>1, StepFacts
<1> QED
  BY <1>1, <1>2

\* ApplySnapshot queues what it changes.
LEMMA ApplyFacts ==
    ASSUME disc \in Discovery, NEW snap \in Members, ApplySnapshot(snap), EventsMatchView, seen' = seen
    PROVE  disc' \in Discovery /\ disc'.self = disc.self /\ EventsMatchView'
<1> DEFINE diff == QueueDiffEvents(disc.view, snap)
<1>1. disc' = [disc EXCEPT !.view = snap, !.events = disc.events \o diff]
  BY DEF ApplySnapshot
<1>2. disc.events \in Seq(Event) /\ disc.view \in Members /\ snap.peer \in Event
  BY DEF Discovery, Members, Event
<1>3. diff = <<>> \/ diff = <<snap.peer>>
  BY DEF QueueDiffEvents
<1>4. diff \in Seq(Event)
  <2>1. <<snap.peer>> \in Seq(Event) /\ <<>> \in Seq(Event)
    BY <1>2
  <2> QED
    BY <1>3, <2>1
<1>5. disc.events \o diff \in Seq(Event)
  BY <1>2, <1>4
<1>6. /\ disc' \in Discovery /\ disc'.self = disc.self
      /\ disc'.view = snap /\ disc'.events = disc.events \o diff
  BY <1>1, <1>5 DEF Discovery
<1>7. CASE snap.peer = disc.view.peer
  <2>1. disc.events \o diff = disc.events
    BY <1>2, <1>7 DEF QueueDiffEvents
  <2> QED
    BY <1>6, <1>7, <2>1 DEF EventsMatchView
<1>8. CASE snap.peer # disc.view.peer
  <2>1. diff = <<snap.peer>>
    BY <1>8 DEF QueueDiffEvents
  <2>2. disc.events \o diff # <<>> /\ Last(disc.events \o diff) = snap.peer
    BY <1>2, <2>1 DEF Last
  <2> QED
    BY <1>6, <2>2 DEF EventsMatchView
<1> QED
  BY <1>6, <1>7, <1>8

\* RegisterSelf: the key is known, or the answer was lost.
LEMMA RegisterFacts ==
    ASSUME etcd \in Etcd, disc \in Discovery, undeleted \in BOOLEAN, KeyOK, NEW ok, RegisterSelf(ok)
    PROVE  /\ etcd' \in Etcd /\ disc' \in Discovery /\ undeleted' \in BOOLEAN /\ KeyOK'
           /\ disc'.events = disc.events /\ disc'.view.peer = disc.view.peer
<1>1. LeaseToUse <= MaxLeases => LeaseToUse \in Lease
  BY NodeAssumption DEF Etcd, LeaseToUse, Lease
<1>2. ASSUME LeaseToUse \in Lease
      PROVE  /\ Put(LeaseToUse) \in Etcd
             /\ [Put(LeaseToUse) EXCEPT !.up = FALSE] \in Etcd
  <2>1. LeaseToUse \in Nat /\ LeaseToUse <= MaxLeases
    BY <1>2, NodeAssumption DEF Lease
  <2>2. PICK l \in Lease : l = LeaseToUse
    BY <1>2
  <2>3. PICK n \in 0..MaxLeases : n = (IF l > etcd.granted THEN l ELSE etcd.granted)
    BY <2>1, <2>2, NodeAssumption DEF Etcd, Lease
  <2>4. etcd.leases \cup {l} \in SUBSET Lease
    BY DEF Etcd
  <2>5. Put(l) = [etcd EXCEPT !.leases = etcd.leases \cup {l}, !.self = l, !.granted = n]
    BY <2>3 DEF Put, Etcd
  <2>6. Put(l) \in Etcd
    BY <2>4, <2>5 DEF Etcd
  <2> QED
    BY <2>2, <2>6 DEF Etcd
<1>3. CASE /\ etcd.up /\ LeaseToUse <= MaxLeases /\ etcd' = Put(LeaseToUse)
           /\ disc' = [disc EXCEPT !.lease = LeaseToUse, !.self = TRUE, !.view.self = TRUE]
           /\ UNCHANGED undeleted
  <2>1. LeaseToUse \in Lease /\ etcd' \in Etcd
    BY <1>1, <1>2, <1>3
  <2> HIDE DEF LeaseToUse
  <2>2. /\ disc' \in Discovery /\ disc'.self = TRUE /\ disc'.events = disc.events
        /\ disc'.view.peer = disc.view.peer
    BY <1>3, <2>1 DEF Discovery, Members
  <2> QED
    BY <1>3, <2>1, <2>2 DEF KeyOK
<1>4. CASE disc' = [disc EXCEPT !.lease = 0] /\ UNCHANGED <<etcd, undeleted>>
  <2>1. /\ disc' \in Discovery /\ disc'.self = disc.self /\ disc'.events = disc.events
        /\ disc'.view.peer = disc.view.peer
    BY <1>4 DEF Discovery
  <2> QED
    BY <1>4, <2>1 DEF KeyOK
<1>5. CASE /\ LeaseToUse <= MaxLeases /\ etcd' = [Put(LeaseToUse) EXCEPT !.up = FALSE]
           /\ disc' = [disc EXCEPT !.lease = 0] /\ undeleted' = TRUE
  <2>1. etcd' \in Etcd
    BY <1>1, <1>2, <1>5
  <2>2. /\ disc' \in Discovery /\ disc'.events = disc.events /\ disc'.view.peer = disc.view.peer
    BY <1>5 DEF Discovery
  <2> QED
    BY <1>5, <2>1, <2>2 DEF KeyOK
<1> QED
  BY <1>3, <1>4, <1>5 DEF RegisterSelf

\* Remove: the key is gone, or the answer was lost.
LEMMA DeleteFacts ==
    ASSUME etcd \in Etcd, disc \in Discovery, undeleted \in BOOLEAN, KeyOK, Delete
    PROVE  /\ etcd' \in Etcd /\ disc' \in Discovery /\ undeleted' \in BOOLEAN /\ KeyOK'
           /\ disc'.events = disc.events /\ disc'.view.peer = disc.view.peer
           /\ etcd'.self = 0 \/ undeleted'
<1>1. CASE /\ etcd' = [etcd EXCEPT !.self = 0] /\ UNCHANGED undeleted
           /\ disc' = [disc EXCEPT !.lease = 0, !.self = FALSE, !.view.self = FALSE]
  <2>1. etcd' \in Etcd /\ etcd'.self = 0
    BY <1>1 DEF Etcd
  <2>2. disc' \in Discovery /\ disc'.events = disc.events /\ disc'.view.peer = disc.view.peer
    BY <1>1 DEF Discovery, Members
  <2> QED
    BY <1>1, <2>1, <2>2 DEF KeyOK
<1>2. CASE undeleted' = TRUE /\ UNCHANGED <<etcd, disc>>
  BY <1>2 DEF KeyOK
<1> QED
  BY <1>1, <1>2 DEF Delete

-----------------------------------------------------------------------------
(* The steps.                                                              *)

Late == {"stopped", "unloadJoin", "unloaded", "gone"}

\* A step that neither registers the node nor removes it.
LEMMA QuietKept ==
    ASSUME NodeInv, UNCHANGED undeleted,
           etcd' = etcd \/ (etcd' \in Etcd /\ etcd'.self \in {etcd.self, 0}),
           disc' = disc \/ (disc' \in Discovery /\ disc'.self = disc.self),
           main' = main \/ ThreadOK(main, MainSteps)', keep' = keep \/ ThreadOK(keep, KeepSteps)',
           auto' = auto \/ ThreadOK(auto, AutoSteps)',
           watcher' = watcher \/ ThreadOK(watcher, WatcherSteps)',
           main'.at = main.at \/ main'.at \notin Late \/ (main'.at # "gone" /\ Ended(keep)),
           keep' = keep \/ ~Ended(keep) \/ main'.at \notin Late,
           UNCHANGED <<disc, seen>> \/ EventsMatchView'
    PROVE  NodeInv'
<1>1. etcd' \in Etcd /\ disc' \in Discovery /\ undeleted' \in BOOLEAN
  BY DEF NodeInv
<1>2. /\ ThreadOK(main, MainSteps)' /\ ThreadOK(keep, KeepSteps)'
      /\ ThreadOK(auto, AutoSteps)' /\ ThreadOK(watcher, WatcherSteps)'
  BY DEF NodeInv, ThreadOK
<1>3. KeyOK'
  BY DEF NodeInv, KeyOK
<1>4. KeepEnds'
  BY DEF NodeInv, KeepEnds, Late, Ended
<1>5. EventsMatchView'
  BY DEF NodeInv, EventsMatchView
<1>6. NoGhostMember'
  BY DEF NodeInv, NoGhostMember, Late
<1> QED
  BY <1>1, <1>2, <1>3, <1>4, <1>5, <1>6 DEF NodeInv

LEMMA EnvironmentStep ==
    ASSUME NodeInv, Environment
    PROVE  NodeInv'
<1>1. UNCHANGED <<disc, main, keep, auto, watcher, seen, undeleted>>
  BY DEF Environment, EtcdDown, EtcdUp, PeerEnd, PeerExpire, LinkLost, PeerConnects, Expire, PeerStart,
         KeepNode, threadVars, historyVars
<1>2. etcd' = etcd \/ (etcd' \in Etcd /\ etcd'.self \in {etcd.self, 0})
  <2>0. etcd \in Etcd
    BY DEF NodeInv
  <2>1. CASE EtcdDown \/ EtcdUp
    BY <2>0, <2>1 DEF EtcdDown, EtcdUp, Etcd
  <2>2. CASE PeerEnd \/ PeerExpire
    BY <2>0, <2>2 DEF PeerEnd, PeerExpire, Etcd, Maybe
  <2>3. CASE LinkLost \/ PeerConnects
    BY <2>3 DEF LinkLost, PeerConnects
  <2>4. ASSUME NEW l \in Lease, Expire(l)
        PROVE  etcd' \in Etcd /\ etcd'.self \in {etcd.self, 0}
    <3>1. etcd' = [etcd EXCEPT !.leases = @ \ {l}, !.self = IF @ = l THEN 0 ELSE @]
      BY <2>4 DEF Expire
    <3> QED
      BY <2>0, <3>1 DEF Etcd
  <2>5. ASSUME NEW e \in Endpoints, PeerStart(e)
        PROVE  etcd' \in Etcd /\ etcd'.self \in {etcd.self, 0}
    BY <2>0, <2>5 DEF PeerStart, Etcd, Maybe
  <2> QED
    BY <2>1, <2>2, <2>3, <2>4, <2>5 DEF Environment
<1> QED
  BY <1>1, <1>2, QuietKept

LEMMA ReaderStep ==
    ASSUME NodeInv, Reader
    PROVE  NodeInv'
<1>1. UNCHANGED <<etcd, disc, main, keep, auto, watcher, seen, undeleted>>
  BY DEF Reader, threadVars, historyVars
<1> QED
  BY <1>1, QuietKept

\* While the keep-alive thread runs the key has not been removed.
LEMMA KeepRuns ==
    ASSUME NodeInv, ~Ended(keep)
    PROVE  main.at \notin Late
  BY DEF NodeInv, KeepEnds, Late

\* The recovery registers the node, and the keep-alive thread goes on.
LEMMA RecoverRegisterStep ==
    ASSUME NodeInv, RecoverRegister
    PROVE  NodeInv'
<1>1. UNCHANGED <<main, auto, watcher, seen>>
  BY DEF RecoverRegister, KeepOnly
<1>2. main.at \notin Late
  BY KeepRuns DEF RecoverRegister, At, Ended
<1>3. ThreadOK(keep, KeepSteps)'
  <2>1. keep \in Thread(KeepSteps) /\ ThreadOK(keep, KeepSteps) /\ "refresh" \in KeepSteps
        /\ "refresh" \notin Applying
    BY DEF NodeInv, ThreadOK, KeepSteps, Applying
  <2>2. keep' = keep \/ keep' = Step(keep, "refresh")
    BY DEF RecoverRegister
  <2> QED
    BY <2>1, <2>2, StepFacts DEF ThreadOK
<1>4. /\ etcd' \in Etcd /\ disc' \in Discovery /\ undeleted' \in BOOLEAN /\ KeyOK'
      /\ disc'.events = disc.events /\ disc'.view.peer = disc.view.peer
  <2>1. \E ok \in BOOLEAN : RegisterSelf(ok)
    BY DEF RecoverRegister
  <2> QED
    BY <2>1, RegisterFacts DEF NodeInv
<1>5. KeepEnds' /\ NoGhostMember'
  BY <1>1, <1>2 DEF KeepEnds, NoGhostMember, Late
<1>6. EventsMatchView'
  BY <1>1, <1>4 DEF NodeInv, EventsMatchView
<1> QED
  BY <1>1, <1>3, <1>4, <1>5, <1>6 DEF NodeInv, ThreadOK

LEMMA KeepAliveLoopStep ==
    ASSUME NodeInv, KeepAliveLoop
    PROVE  NodeInv'
<1>0. /\ keep \in Thread(KeepSteps) /\ disc \in Discovery /\ etcd \in Etcd
      /\ (keep.at \in Applying => keep.snap \in Members) /\ EventsMatchView
  BY DEF NodeInv, ThreadOK
<1>1. CASE KeepAlive
  <2>1. UNCHANGED <<etcd, main, keep, auto, watcher, seen, undeleted>>
    BY <1>1 DEF KeepAlive, KeepOnly
  <2>2. \/ disc' = disc
        \/ /\ disc' \in Discovery /\ disc'.self = disc.self /\ disc'.events = disc.events
           /\ disc'.view = disc.view
    BY <1>0, <1>1 DEF KeepAlive, Discovery
  <2>3. EventsMatchView'
    BY <1>0, <2>1, <2>2 DEF EventsMatchView
  <2> QED
    BY <2>1, <2>2, <2>3, QuietKept
<1>2. CASE RecoverRefresh
  <2>1. UNCHANGED <<etcd, disc, main, auto, watcher, seen, undeleted>>
    BY <1>2 DEF RecoverRefresh, KeepOnly
  <2>2. {"refreshed", "wait", "watchRefreshed", "watchedAgain"} \subseteq KeepSteps /\ "wait" \notin Applying
    BY DEF KeepSteps, Applying
  <2>3. ThreadOK(keep', KeepSteps) /\ ~Ended(keep)
    BY <1>0, <1>2, <2>2, GetFacts DEF RecoverRefresh, At, Ended
  <2>4. ThreadOK(keep, KeepSteps)'
    BY <2>3 DEF ThreadOK
  <2> QED
    BY <2>1, <2>3, <2>4, QuietKept
<1>3. CASE RecoverApply
  <2>1. UNCHANGED <<etcd, main, auto, seen, undeleted>> /\ ApplySnapshot(keep.snap)
    BY <1>3 DEF RecoverApply
  <2>2. /\ keep.at \in Applying /\ ~Ended(keep)
        /\ \E label \in {"watch", "watchAgain", "recovered"} : keep' = Applied(keep, label)
        /\ watcher' = watcher \/ watcher' = [at |-> "start", snap |-> None]
    BY <1>3 DEF RecoverApply, At, Ended, Applying
  <2>3. ThreadOK(keep', KeepSteps)
    <3>1. {"watch", "watchAgain", "recovered"} \subseteq KeepSteps \ Applying
      BY DEF KeepSteps, Applying
    <3> QED
      BY <1>0, <2>2, <3>1, StepFacts
  <2>4. ThreadOK(keep, KeepSteps)' /\ (watcher' = watcher \/ ThreadOK(watcher, WatcherSteps)')
    BY <2>2, <2>3 DEF ThreadOK, Thread, WatcherSteps, Applying
  <2>5. disc' \in Discovery /\ disc'.self = disc.self /\ EventsMatchView'
    BY <1>0, <2>1, <2>2, ApplyFacts
  <2> QED
    BY <2>1, <2>2, <2>4, <2>5, QuietKept
<1>4. CASE RecoverWatch
  <2>1. UNCHANGED <<etcd, main, auto, watcher, seen, undeleted>>
    BY <1>4 DEF RecoverWatch, KeepOnly
  <2>2. ~Ended(keep) /\ \E label \in {"recovered", "watchRefresh"} : keep' = Step(keep, label)
    BY <1>4 DEF RecoverWatch, At, Ended
  <2>3. ThreadOK(keep', KeepSteps)
    <3>1. {"recovered", "watchRefresh"} \subseteq KeepSteps \ Applying
      BY DEF KeepSteps, Applying
    <3> QED
      BY <1>0, <2>2, <3>1, StepFacts
  <2>4. ThreadOK(keep, KeepSteps)'
    BY <2>3 DEF ThreadOK
  <2>5. /\ disc' \in Discovery /\ disc'.self = disc.self /\ disc'.events = disc.events
        /\ disc'.view = disc.view
    BY <1>0, <1>4 DEF RecoverWatch, Discovery
  <2>6. EventsMatchView'
    BY <1>0, <2>1, <2>5 DEF EventsMatchView
  <2> QED
    BY <2>1, <2>2, <2>4, <2>5, <2>6, QuietKept
<1>5. CASE Recovered \/ OnDiscoveryRecovered \/ KeepEnd
  <2>1. UNCHANGED <<etcd, disc, main, auto, watcher, seen, undeleted>>
    BY <1>5 DEF Recovered, OnDiscoveryRecovered, KeepEnd, KeepOnly
  <2>2. ~Ended(keep) /\ \E label \in {"reconcile", "wait", "ended"} : keep' = Step(keep, label)
    BY <1>5 DEF Recovered, OnDiscoveryRecovered, KeepEnd, At, Ended
  <2>3. ThreadOK(keep', KeepSteps)
    <3>1. {"reconcile", "wait", "ended"} \subseteq KeepSteps \ Applying
      BY DEF KeepSteps, Applying
    <3> QED
      BY <1>0, <2>2, <3>1, StepFacts
  <2>4. ThreadOK(keep, KeepSteps)'
    BY <2>3 DEF ThreadOK
  <2> QED
    BY <2>1, <2>2, <2>4, QuietKept
<1> QED
  BY <1>1, <1>2, <1>3, <1>4, <1>5, RecoverRegisterStep DEF KeepAliveLoop

LEMMA AutoConnectLoopStep ==
    ASSUME NodeInv, AutoConnectLoop
    PROVE  NodeInv'
<1>0. /\ auto \in Thread(AutoSteps) /\ disc \in Discovery /\ etcd \in Etcd
      /\ (auto.at \in Applying => auto.snap \in Members) /\ EventsMatchView
  BY DEF NodeInv, ThreadOK
<1>1. UNCHANGED <<etcd, main, keep, watcher, undeleted>>
  BY DEF AutoConnectLoop, AutoEvents, AutoRefresh, AutoApply, AutoReconcile, AutoEnd, AutoOnly
<1>2. CASE AutoEvents
  <2>1. \E label \in {"refresh", "wait"} : auto' = Step(auto, label)
    BY <1>2 DEF AutoEvents
  <2>2. ThreadOK(auto', AutoSteps)
    <3>1. {"refresh", "wait"} \subseteq AutoSteps \ Applying
      BY DEF AutoSteps, Applying
    <3> QED
      BY <1>0, <2>1, <3>1, StepFacts
  <2>3. /\ disc' = [disc EXCEPT !.events = <<>>]
        /\ seen' = IF disc.events = <<>> THEN seen ELSE Last(disc.events)
    BY <1>2 DEF AutoEvents
  <2>4. <<>> \in Seq(Event)
    OBVIOUS
  <2>5. /\ disc' \in Discovery /\ disc'.self = disc.self /\ disc'.events = <<>>
        /\ disc'.view = disc.view
    BY <1>0, <2>3, <2>4 DEF Discovery
  <2>6. EventsMatchView' /\ ThreadOK(auto, AutoSteps)'
    BY <1>0, <2>2, <2>3, <2>5 DEF EventsMatchView, ThreadOK
  <2> QED
    BY <1>1, <2>5, <2>6, QuietKept
<1>3. CASE AutoRefresh
  <2>1. UNCHANGED <<disc, seen>> /\ Get(auto, auto', "refreshed", "wait")
    BY <1>3 DEF AutoRefresh
  <2>2. {"refreshed", "wait"} \subseteq AutoSteps /\ "wait" \notin Applying
    BY DEF AutoSteps, Applying
  <2>3. ThreadOK(auto', AutoSteps)
    BY <1>0, <2>1, <2>2, GetFacts
  <2>4. ThreadOK(auto, AutoSteps)'
    BY <2>3 DEF ThreadOK
  <2> QED
    BY <1>1, <2>1, <2>4, QuietKept
<1>4. CASE AutoApply
  <2>1. /\ UNCHANGED seen /\ ApplySnapshot(auto.snap) /\ auto.at \in Applying
        /\ auto' = Applied(auto, "reconcile")
    BY <1>4 DEF AutoApply, At, Applying
  <2>2. "reconcile" \in AutoSteps \ Applying
    BY DEF AutoSteps, Applying
  <2>3. ThreadOK(auto', AutoSteps)
    BY <1>0, <2>1, <2>2, StepFacts
  <2>4. ThreadOK(auto, AutoSteps)'
    BY <2>3 DEF ThreadOK
  <2>5. disc' \in Discovery /\ disc'.self = disc.self /\ EventsMatchView'
    BY <1>0, <2>1, ApplyFacts
  <2> QED
    BY <1>1, <2>4, <2>5, QuietKept
<1>5. CASE AutoReconcile \/ AutoEnd
  <2>1. UNCHANGED <<disc, seen>> /\ \E label \in {"wait", "ended"} : auto' = Step(auto, label)
    BY <1>5 DEF AutoReconcile, AutoEnd
  <2>2. {"wait", "ended"} \subseteq AutoSteps \ Applying
    BY DEF AutoSteps, Applying
  <2>3. ThreadOK(auto', AutoSteps)
    BY <1>0, <2>1, <2>2, StepFacts
  <2>4. ThreadOK(auto, AutoSteps)'
    BY <2>3 DEF ThreadOK
  <2> QED
    BY <1>1, <2>1, <2>4, QuietKept
<1> QED
  BY <1>2, <1>3, <1>4, <1>5 DEF AutoConnectLoop

LEMMA WatchLoopStep ==
    ASSUME NodeInv, WatchLoop
    PROVE  NodeInv'
<1>0. /\ watcher \in Thread(WatcherSteps) /\ disc \in Discovery /\ etcd \in Etcd
      /\ (watcher.at \in Applying => watcher.snap \in Members) /\ EventsMatchView
  BY DEF NodeInv, ThreadOK
<1>1. UNCHANGED <<etcd, main, keep, auto, seen, undeleted>>
  BY DEF WatchLoop, WatchStart, WatchPoll, WatchRefresh, WatchApply, WatchTeardown, WatcherOnly,
         envVars, historyVars
<1>2. {"teardown", "poll", "event", "ended", "closed", "start"} \subseteq WatcherSteps \ Applying
  BY DEF WatcherSteps, Applying
<1>3. CASE WatchStart \/ WatchPoll \/ WatchTeardown
  <2>1. /\ UNCHANGED disc
        /\ \E label \in {"teardown", "poll", "event", "ended", "closed", "start"} :
              watcher' = Step(watcher, label)
    BY <1>3 DEF WatchStart, WatchPoll, WatchTeardown
  <2>2. ThreadOK(watcher', WatcherSteps)
    BY <1>0, <1>2, <2>1, StepFacts
  <2>3. ThreadOK(watcher, WatcherSteps)'
    BY <2>2 DEF ThreadOK
  <2> QED
    BY <1>1, <2>1, <2>3, QuietKept
<1>4. CASE WatchRefresh
  <2>1. /\ UNCHANGED disc
        /\ \/ Get(watcher, watcher', "eventApply", "poll")
           \/ Get(watcher, watcher', "closedApply", "teardown")
    BY <1>4 DEF WatchRefresh
  <2>2. {"eventApply", "closedApply"} \subseteq WatcherSteps
    BY DEF WatcherSteps
  <2>3. ThreadOK(watcher', WatcherSteps)
    BY <1>0, <1>2, <2>1, <2>2, GetFacts
  <2>4. ThreadOK(watcher, WatcherSteps)'
    BY <2>3 DEF ThreadOK
  <2> QED
    BY <1>1, <2>1, <2>4, QuietKept
<1>5. CASE WatchApply
  <2>1. /\ ApplySnapshot(watcher.snap) /\ watcher.at \in Applying
        /\ \E label \in {"poll", "teardown"} : watcher' = Applied(watcher, label)
    BY <1>5 DEF WatchApply, At, Applying
  <2>2. ThreadOK(watcher', WatcherSteps)
    BY <1>0, <1>2, <2>1, StepFacts
  <2>3. ThreadOK(watcher, WatcherSteps)'
    BY <2>2 DEF ThreadOK
  <2>4. disc' \in Discovery /\ disc'.self = disc.self /\ EventsMatchView'
    BY <1>0, <1>1, <2>1, ApplyFacts
  <2> QED
    BY <1>1, <2>3, <2>4, QuietKept
<1> QED
  BY <1>3, <1>4, <1>5 DEF WatchLoop

-----------------------------------------------------------------------------
(* Start, Stop and Unload.                                                 *)

\* The main thread goes on to a step that is before the removal of the key, or one
\* that only follows it.
LEMMA MainGoesOn ==
    ASSUME NodeInv, NEW label \in MainSteps \ Applying, label \in Late => main.at \in Late,
           main' = Step(main, label) \/ main' = Applied(main, label)
    PROVE  /\ ThreadOK(main, MainSteps)' /\ main'.at = label
           /\ label \in Late => Ended(keep)
<1>1. main \in Thread(MainSteps)
  BY DEF NodeInv, ThreadOK
<1>2. ThreadOK(main', MainSteps) /\ main'.at = label
  BY <1>1, StepFacts
<1> QED
  BY <1>2 DEF NodeInv, KeepEnds, Late, ThreadOK

LEMMA StartRegisterStep ==
    ASSUME NodeInv, StartRegister
    PROVE  NodeInv'
<1>0. main \in Thread(MainSteps) /\ {"loops", "refresh"} \subseteq (MainSteps \ Applying) \ Late
  BY DEF NodeInv, ThreadOK, MainSteps, Applying, Late
<1>1. /\ UNCHANGED <<keep, auto, watcher, seen>>
      /\ \E label \in {"loops", "refresh"} : main' = Step(main, label)
      /\ (\E ok \in BOOLEAN : RegisterSelf(ok)) \/ UNCHANGED <<etcd, disc, undeleted>>
  BY DEF StartRegister, MainOnly
<1>2. ThreadOK(main, MainSteps)' /\ main'.at \notin Late
  BY <1>0, <1>1, MainGoesOn
<1>3. /\ etcd' \in Etcd /\ disc' \in Discovery /\ undeleted' \in BOOLEAN /\ KeyOK'
      /\ disc'.events = disc.events /\ disc'.view.peer = disc.view.peer
  BY <1>1, RegisterFacts DEF NodeInv, KeyOK
<1>4. KeepEnds' /\ NoGhostMember'
  BY <1>2 DEF KeepEnds, NoGhostMember, Late
<1>5. EventsMatchView'
  BY <1>1, <1>3 DEF NodeInv, EventsMatchView
<1> QED
  BY <1>1, <1>2, <1>3, <1>4, <1>5 DEF NodeInv, ThreadOK

LEMMA StartStep ==
    ASSUME NodeInv, StartRefresh \/ StartApply \/ StartWatch \/ StartLoops
    PROVE  NodeInv'
<1>0. /\ main \in Thread(MainSteps) /\ disc \in Discovery /\ etcd \in Etcd
      /\ (main.at \in Applying => main.snap \in Members) /\ EventsMatchView
  BY DEF NodeInv, ThreadOK
<1>1. /\ {"watch", "watchRefresh", "watchAgain", "loops", "running"} \subseteq (MainSteps \ Applying) \ Late
      /\ {"refreshed", "watchRefreshed", "watchedAgain"} \subseteq MainSteps \ Late
  BY DEF MainSteps, Applying, Late
<1>2. CASE StartRefresh
  <2>1. /\ UNCHANGED <<etcd, disc, keep, auto, watcher, seen, undeleted>>
        /\ \/ Get(main, main', "refreshed", "watch")
           \/ Get(main, main', "watchRefreshed", "loops")
           \/ Get(main, main', "watchedAgain", "loops")
    BY <1>2 DEF StartRefresh, MainOnly
  <2>2. ThreadOK(main', MainSteps) /\ main'.at \notin Late
    BY <1>0, <1>1, <2>1, GetFacts
  <2>3. ThreadOK(main, MainSteps)'
    BY <2>2 DEF ThreadOK
  <2> QED
    BY <2>1, <2>2, <2>3, QuietKept
<1>3. CASE StartApply
  <2>1. UNCHANGED <<etcd, keep, auto, seen, undeleted>> /\ ApplySnapshot(main.snap)
    BY <1>3 DEF StartApply, MainOnly
  <2>2. /\ main.at \in Applying
        /\ \E label \in {"watch", "watchAgain", "loops"} : main' = Applied(main, label)
        /\ watcher' = watcher \/ watcher' = [at |-> "start", snap |-> None]
    BY <1>3 DEF StartApply, At, Applying
  <2>3. ThreadOK(main, MainSteps)' /\ main'.at \notin Late
    BY <1>1, <2>2, MainGoesOn
  <2>4. watcher' = watcher \/ ThreadOK(watcher, WatcherSteps)'
    BY <2>2 DEF ThreadOK, Thread, WatcherSteps, Applying
  <2>5. disc' \in Discovery /\ disc'.self = disc.self /\ EventsMatchView'
    BY <1>0, <2>1, <2>2, ApplyFacts
  <2> QED
    BY <2>1, <2>3, <2>4, <2>5, QuietKept
<1>4. CASE StartWatch
  <2>1. /\ UNCHANGED <<etcd, keep, auto, watcher, seen, undeleted>>
        /\ main' = Step(main, "watchRefresh") /\ disc' = [disc EXCEPT !.stopWatch = FALSE]
    BY <1>4 DEF StartWatch, MainOnly
  <2>2. ThreadOK(main, MainSteps)' /\ main'.at \notin Late
    BY <1>1, <2>1, MainGoesOn
  <2>3. /\ disc' \in Discovery /\ disc'.self = disc.self /\ disc'.events = disc.events
        /\ disc'.view = disc.view
    BY <1>0, <2>1 DEF Discovery
  <2>4. EventsMatchView'
    BY <1>0, <2>1, <2>3 DEF EventsMatchView
  <2> QED
    BY <2>1, <2>2, <2>3, <2>4, QuietKept
<1>5. CASE StartLoops
  <2>1. /\ UNCHANGED <<etcd, disc, watcher, seen, undeleted>>
        /\ main' = Step(main, "running") /\ auto' = Step(auto, "wait")
        /\ keep' = keep \/ keep' = Step(keep, "wait")
    BY <1>5 DEF StartLoops, MainOnly
  <2>2. ThreadOK(main, MainSteps)' /\ main'.at \notin Late
    BY <1>1, <2>1, MainGoesOn
  <2>3. /\ "wait" \in AutoSteps \ Applying /\ auto \in Thread(AutoSteps)
        /\ "wait" \in KeepSteps \ Applying /\ keep \in Thread(KeepSteps)
    BY DEF NodeInv, ThreadOK, AutoSteps, KeepSteps, Applying
  <2>4. ThreadOK(auto', AutoSteps) /\ (keep' = keep \/ ThreadOK(keep', KeepSteps))
    BY <2>1, <2>3, StepFacts
  <2>5. ThreadOK(auto, AutoSteps)' /\ (keep' = keep \/ ThreadOK(keep, KeepSteps)')
    BY <2>4 DEF ThreadOK
  <2> QED
    BY <2>1, <2>2, <2>5, QuietKept
<1> QED
  BY <1>2, <1>3, <1>4, <1>5

LEMMA StopStep ==
    ASSUME NodeInv, Stop \/ StopWatch \/ JoinWatch \/ StopKeepAliveLoop \/ Unload
    PROVE  NodeInv'
<1>0. /\ disc \in Discovery /\ EventsMatchView
      /\ watcher \in Thread(WatcherSteps) /\ "none" \in WatcherSteps \ Applying
  BY DEF NodeInv, ThreadOK, WatcherSteps, Applying
<1>1. /\ UNCHANGED <<etcd, keep, auto, seen, undeleted>>
      /\ \/ \E label \in {"stopWatch", "joinWatch", "stopKeep", "remove"} : main' = Step(main, label)
         \/ \E label \in {"unloadJoin", "unloaded"} : main.at \in Late /\ main' = Step(main, label)
      /\ watcher' = watcher \/ watcher' = Step(watcher, "none")
      /\ disc' = disc \/ disc' = [disc EXCEPT !.stopWatch = TRUE]
  BY DEF Stop, StopWatch, JoinWatch, StopKeepAliveLoop, Unload, MainOnly, At, Late
<1>2. /\ {"stopWatch", "joinWatch", "stopKeep", "remove"} \subseteq (MainSteps \ Applying) \ Late
      /\ {"unloadJoin", "unloaded"} \subseteq (MainSteps \ Applying) \ {"gone"}
  BY DEF MainSteps, Applying, Late
<1>3. /\ ThreadOK(main, MainSteps)'
      /\ main'.at \notin Late \/ (main'.at # "gone" /\ Ended(keep))
  BY <1>1, <1>2, MainGoesOn
<1>4. watcher' = watcher \/ ThreadOK(watcher', WatcherSteps)
  BY <1>0, <1>1, StepFacts
<1>5. watcher' = watcher \/ ThreadOK(watcher, WatcherSteps)'
  BY <1>4 DEF ThreadOK
<1>6. /\ disc' \in Discovery /\ disc'.self = disc.self /\ disc'.events = disc.events
      /\ disc'.view = disc.view
  BY <1>0, <1>1 DEF Discovery
<1>7. EventsMatchView'
  BY <1>0, <1>1, <1>6 DEF EventsMatchView
<1> QED
  BY <1>1, <1>3, <1>5, <1>6, <1>7, QuietKept

\* RemoveSelf and the destructor.
LEMMA RemoveStep ==
    ASSUME NodeInv, RemoveSelf \/ Destroy
    PROVE  NodeInv'
<1>0. main \in Thread(MainSteps) /\ {"stopped", "gone"} \subseteq MainSteps \ Applying
  BY DEF NodeInv, ThreadOK, MainSteps, Applying
<1>1. /\ UNCHANGED <<keep, auto, watcher, seen>> /\ Ended(keep)
      /\ Delete \/ UNCHANGED <<etcd, disc, undeleted>>
      /\ \/ main' = Step(main, "stopped")
         \/ main' = Step(main, "gone") /\ (Delete \/ ~disc.self)
  BY DEF RemoveSelf, Destroy, MainOnly, NodeInv, KeepEnds, At
<1>2. /\ ThreadOK(main', MainSteps)
      /\ main'.at = "stopped" \/ (main'.at = "gone" /\ (Delete \/ ~disc.self))
  BY <1>0, <1>1, StepFacts
<1>3. CASE Delete
  <2>1. /\ etcd' \in Etcd /\ disc' \in Discovery /\ undeleted' \in BOOLEAN /\ KeyOK'
        /\ disc'.events = disc.events /\ disc'.view.peer = disc.view.peer
        /\ etcd'.self = 0 \/ undeleted'
    BY <1>3, DeleteFacts DEF NodeInv
  <2>2. KeepEnds' /\ NoGhostMember' /\ EventsMatchView'
    BY <1>1, <2>1 DEF KeepEnds, NoGhostMember, EventsMatchView, NodeInv, Ended
  <2> QED
    BY <1>1, <1>2, <2>1, <2>2 DEF NodeInv, ThreadOK
<1>4. CASE ~Delete
  <2>1. UNCHANGED <<etcd, disc, undeleted, seen>> /\ (main'.at = "stopped" \/ ~disc.self)
    BY <1>1, <1>2, <1>4
  <2>2. etcd' \in Etcd /\ disc' \in Discovery /\ undeleted' \in BOOLEAN /\ KeyOK' /\ EventsMatchView'
    BY <2>1 DEF NodeInv, KeyOK, EventsMatchView
  <2>3. KeepEnds' /\ NoGhostMember'
    BY <1>1, <2>1 DEF KeepEnds, NoGhostMember, NodeInv, KeyOK, Ended
  <2> QED
    BY <1>1, <1>2, <2>2, <2>3 DEF NodeInv, ThreadOK
<1> QED
  BY <1>3, <1>4

-----------------------------------------------------------------------------
(* The theorems.                                                           *)

LEMMA NodeInvariant ==
    Spec => []NodeInv
<1>1. Init => NodeInv
  <2> SUFFICES ASSUME Init PROVE NodeInv
    OBVIOUS
  <2>1. etcd \in Etcd
    BY NodeAssumption DEF Init, Etcd, Maybe
  <2>2. disc \in Discovery
    <3>1. <<>> \in Seq(Event)
      OBVIOUS
    <3> QED
      BY <3>1 DEF Init, Discovery, NoMembers, Members, Maybe
  <2>3. ThreadOK(main, MainSteps) /\ ThreadOK(keep, KeepSteps)
    BY DEF Init, ThreadOK, Thread, MainSteps, KeepSteps, Applying
  <2>4. ThreadOK(auto, AutoSteps) /\ ThreadOK(watcher, WatcherSteps)
    BY DEF Init, ThreadOK, Thread, AutoSteps, WatcherSteps, Applying
  <2>5. KeyOK /\ KeepEnds /\ EventsMatchView /\ NoGhostMember /\ undeleted \in BOOLEAN
    BY DEF Init, KeyOK, KeepEnds, EventsMatchView, NoGhostMember, NoMembers
  <2> QED
    BY <2>1, <2>2, <2>3, <2>4, <2>5 DEF NodeInv
<1>2. NodeInv /\ [Next]_vars => NodeInv'
  <2> SUFFICES ASSUME NodeInv, [Next]_vars PROVE NodeInv'
    OBVIOUS
  <2>1. CASE UNCHANGED vars
    <3>1. UNCHANGED <<etcd, disc, main, keep, auto, watcher, seen, undeleted>>
      BY <2>1 DEF vars, envVars, threadVars, historyVars
    <3> QED
      BY <3>1, QuietKept
  <2>2. CASE Main \/ Stop
    BY <2>2, StartRegisterStep, StartStep, StopStep, RemoveStep DEF Main
  <2> QED
    BY <2>1, <2>2, EnvironmentStep, ReaderStep, KeepAliveLoopStep, AutoConnectLoopStep, WatchLoopStep
    DEF Next
<1> QED
  BY <1>1, <1>2, PTL DEF Spec

\* The membership events, drained and pending, add up to the members the node
\* knows, whichever of its threads refresh the snapshot (QueueDiffEvents,
\* ApplySnapshot).
THEOREM NodeEventsMatchView ==
    Spec => []EventsMatchView
<1>1. NodeInv => EventsMatchView
  BY DEF NodeInv
<1> QED
  BY <1>1, NodeInvariant, PTL

\* A node that has ended has left no key in etcd, unless a put or a delete of it
\* got no answer (RegisterSelf, Remove, StopIpcRuntime, ~EtcdDiscovery).
THEOREM NodeLeavesNoKey ==
    Spec => []NoGhostMember
<1>1. NodeInv => NoGhostMember
  BY DEF NodeInv
<1> QED
  BY <1>1, NodeInvariant, PTL
=============================================================================
