---------------------- MODULE ApplicationLifecycleProofs ----------------------
(***************************************************************************)
(* Theorems about the lifecycle of a process, for every list of services   *)
(* and every choice of batches.                                            *)
(***************************************************************************)
EXTENDS ApplicationLifecycle, FiniteSetTheorems, TLAPS

-----------------------------------------------------------------------------
(* std::stable_sort: mServicesInOrder holds every service once, by batch.  *)

Count == Len(Registered)
Index == 1 .. Count

\* Service i comes before service j.
Precedes(i, j) == \/ Batch[Registered[i]] < Batch[Registered[j]]
                  \/ Batch[Registered[i]] = Batch[Registered[j]] /\ i < j

Ahead(j) == {i \in Index : Precedes(i, j)}
Place(j) == 1 + Cardinality(Ahead(j))
Placed(n) == CHOOSE j \in Index : Place(j) = n

LEMMA IndexFacts ==
    /\ Count \in Nat /\ IsFiniteSet(Index) /\ Cardinality(Index) = Count
    /\ \A i \in Index : Registered[i] \in Services /\ Batch[Registered[i]] \in Nat
<1>1. Count \in Nat
  BY RegisteredAssumption DEF Count
<1>2. IsFiniteSet(Index) /\ Cardinality(Index) = Count
  BY <1>1, FS_Interval DEF Index
<1>3. \A i \in Index : Registered[i] \in Services
  BY DEF Index, Count, Services
<1> QED
  BY <1>1, <1>2, <1>3, RegisteredAssumption

\* A service that comes earlier has a smaller place.
LEMMA PlaceMonotone ==
    ASSUME NEW i \in Index, NEW j \in Index, Precedes(i, j)
    PROVE  Place(i) < Place(j)
<1> USE IndexFacts
<1>1. Ahead(i) \subseteq Ahead(j)
  <2> SUFFICES ASSUME NEW k \in Index, Precedes(k, i) PROVE Precedes(k, j)
    BY DEF Ahead
  <2> QED
    BY DEF Precedes, Index
<1>2. i \in Ahead(j) /\ i \notin Ahead(i)
  BY DEF Ahead, Precedes, Index
<1>3. IsFiniteSet(Ahead(j))
  BY FS_Subset DEF Ahead
<1>4. IsFiniteSet(Ahead(i)) /\ Cardinality(Ahead(i)) <= Cardinality(Ahead(j))
      /\ Cardinality(Ahead(i)) # Cardinality(Ahead(j))
  BY <1>1, <1>2, <1>3, FS_Subset
<1> QED
  BY <1>3, <1>4, FS_CardinalityType DEF Place

LEMMA PlaceType == \A j \in Index : Place(j) \in Index
<1> SUFFICES ASSUME NEW j \in Index PROVE Place(j) \in Index
  OBVIOUS
<1>1. Ahead(j) \subseteq Index \ {j}
  BY IndexFacts DEF Ahead, Precedes, Index
<1>2. IsFiniteSet(Index \ {j}) /\ Cardinality(Index \ {j}) = Count - 1
  BY IndexFacts, FS_RemoveElement
<1>3. IsFiniteSet(Ahead(j)) /\ Cardinality(Ahead(j)) <= Count - 1
  BY <1>1, <1>2, FS_Subset
<1> QED
  BY <1>3, IndexFacts, FS_CardinalityType DEF Place, Index

LEMMA PlaceInjective == \A i, j \in Index : Place(i) = Place(j) => i = j
<1> SUFFICES ASSUME NEW i \in Index, NEW j \in Index, i # j PROVE Place(i) # Place(j)
  OBVIOUS
<1>1. Precedes(i, j) \/ Precedes(j, i)
  BY IndexFacts DEF Precedes, Index
<1>2. Place(i) < Place(j) \/ Place(j) < Place(i)
  BY <1>1, PlaceMonotone
<1> QED
  BY <1>2, PlaceType, IndexFacts DEF Index

\* Every place is taken.
LEMMA PlacedFacts == \A n \in Index : Placed(n) \in Index /\ Place(Placed(n)) = n
<1> DEFINE f == [j \in Index |-> Place(j)]
<1>1. f \in Injection(Index, Index)
  BY PlaceType, PlaceInjective DEF Injection, IsInjective
<1>2. f \in Surjection(Index, Index)
  BY <1>1, IndexFacts, FS_Injection
<1>3. \A n \in Index : \E j \in Index : Place(j) = n
  BY <1>2 DEF Surjection
<1> QED
  BY <1>3 DEF Placed

Order == mServicesInOrder

LEMMA OrderIs == Order = [n \in Index |-> Registered[Placed(n)]]
  BY DEF Order, mServicesInOrder, Placed, Place, Ahead, Precedes, Index, Count

\* The list that Load and Start go through.
LEMMA OrderFacts ==
    /\ Count \in Nat /\ Order \in Seq(Services) /\ Len(Order) = Count
    /\ \A n \in Index : Order[n] \in Services
    /\ \A m, n \in Index : Order[m] = Order[n] => m = n
    /\ \A s \in Services : \E n \in Index : Order[n] = s
    /\ \A m, n \in Index : m < n => Batch[Order[m]] <= Batch[Order[n]]
<1> USE OrderIs, PlacedFacts, IndexFacts
<1>1. \A n \in Index : Order[n] = Registered[Placed(n)] /\ Order[n] \in Services
  OBVIOUS
<1>2. Order \in Seq(Services) /\ Len(Order) = Count
  BY <1>1 DEF Index
<1>3. \A m, n \in Index : Order[m] = Order[n] => m = n
  BY <1>1, RegisteredAssumption DEF Index, Count
<1>4. \A s \in Services : \E n \in Index : Order[n] = s
  <2> SUFFICES ASSUME NEW j \in Index PROVE \E n \in Index : Order[n] = Registered[j]
    BY DEF Services, Index, Count
  <2>1. Placed(Place(j)) = j
    BY PlaceType, PlaceInjective
  <2> QED
    BY <1>1, <2>1, PlaceType
<1>5. \A m, n \in Index : m < n => Batch[Order[m]] <= Batch[Order[n]]
  <2> SUFFICES ASSUME NEW m \in Index, NEW n \in Index, m < n
               PROVE  Batch[Registered[Placed(m)]] <= Batch[Registered[Placed(n)]]
    BY <1>1
  <2>1. ~Precedes(Placed(n), Placed(m))
    BY PlaceMonotone DEF Index
  <2> QED
    BY <2>1 DEF Precedes
<1> QED
  BY <1>1, <1>2, <1>3, <1>4, <1>5
-----------------------------------------------------------------------------
(* The inductive invariant.                                                *)

Before(n) == SubSeq(Order, 1, n)

\* Services up to place m were told x last, then up to n y, and the others z.
Told(m, x, n, y, z) ==
    \A i \in Index : life[Order[i]] = IF i <= m THEN x ELSE IF i <= n THEN y ELSE z

Up == {"loaded", "started", "stopped"}

\* How far the lists and the services have come, at each step of the
\* application thread, with l services loaded, s started and t still to call.
Stage(l, s, t) ==
    /\ pc \in {"OnLoad", "load"} => s = 0 /\ Told(0, "started", l, "loaded", "created")
    /\ pc = "OnLoad" => l = 0
    /\ pc = "unloadBack" => s = 0 /\ t <= l /\ Told(t, "loaded", l, "unloaded", "created")
    /\ pc \in {"OnStart", "start"} => l = Count /\ Told(0, "started", s, "started", "loaded")
    /\ pc = "OnStart" => s = 0
    /\ pc = "stopBack" => l = Count /\ t <= s /\ Told(t, "started", s, "stopped", "loaded")
    /\ pc \in {"signal", "wait"} => l = Count /\ s = Count /\ Told(0, "started", s, "started", "loaded")
    /\ pc = "stop" => l = Count /\ s = Count /\ Told(t, "started", s, "stopped", "stopped")
    /\ pc = "OnStop" => l = Count /\ s = 0 /\ Told(0, "started", 0, "stopped", "stopped")
    /\ pc = "unload" => l = Count /\ s = 0 /\ Told(t, "stopped", l, "unloaded", "unloaded")
    /\ pc = "OnUnload" => s = 0 /\ Told(0, "started", 0, "stopped", "unloaded")
    /\ pc \in {"catch", "done"} =>
          /\ \A i \in Index : life[Order[i]] # "started"
          /\ \/ \A i \in Index : life[Order[i]] \in Up
             \/ \A i \in Index : life[Order[i]] \notin Up

Lists(l, s, t) ==
    /\ mLoadedServices = Before(l) /\ mStartedServices = Before(s) /\ todo = Before(t)
    /\ s <= l
    /\ Stage(l, s, t)

\* The console reads commands only between the start and the request to stop.
ConsoleInv ==
    /\ console \in {"true", "false"} => pc = "done"
    /\ console # "waitStart" => runtime_state.start_completed
    /\ runtime_state.stop_requested => runtime_state.start_completed
    /\ pc \in {"OnLoad", "load", "unloadBack", "OnStart", "start", "stopBack", "signal"}
          => ~runtime_state.start_completed
    /\ console = "commands" => pc = "wait" /\ ~runtime_state.stop_requested
    /\ console = "waitStart" /\ runtime_state.start_completed /\ ~runtime_state.runtime_failed
          => pc = "wait" /\ ~runtime_state.stop_requested

SimpleTypes ==
    /\ pc \in Pcs
    /\ failed \in BOOLEAN
    /\ life \in [Services -> Lives]
    /\ runtime_state \in [start_completed : BOOLEAN, stop_requested : BOOLEAN,
                          runtime_failed : BOOLEAN]
    /\ console \in {"waitStart", "commands", "join", "true", "false", "terminated"}

LifecycleInv ==
    /\ SimpleTypes
    /\ ConsoleInv
    /\ \E l, s, t \in 0 .. Count : Lists(l, s, t)

LEMMA BeforeFacts ==
    /\ Before(0) = <<>>
    /\ \A n \in 0 .. Count :
          /\ Before(n) \in Seq(Services) /\ Len(Before(n)) = n
          /\ Before(n) = <<>> => n = 0
          /\ n < Count => n + 1 \in Index /\ Append(Before(n), Order[n + 1]) = Before(n + 1)
          /\ n > 0 => /\ n \in Index /\ n - 1 \in 0 .. Count
                      /\ Last(Before(n)) = Order[n]
                      /\ Front(Before(n)) = Before(n - 1)
<1> USE OrderFacts DEF Before, Index
<1>1. Before(0) = <<>>
  OBVIOUS
<1> SUFFICES ASSUME NEW n \in 0 .. Count
             PROVE  /\ Before(n) \in Seq(Services) /\ Len(Before(n)) = n
                    /\ Before(n) = <<>> => n = 0
                    /\ n < Count => n + 1 \in Index /\ Append(Before(n), Order[n + 1]) = Before(n + 1)
                    /\ n > 0 => /\ n \in Index /\ n - 1 \in 0 .. Count
                                /\ Last(Before(n)) = Order[n]
                                /\ Front(Before(n)) = Before(n - 1)
  BY <1>1
<1>2. Before(n) \in Seq(Services) /\ Len(Before(n)) = n /\ \A i \in 1 .. n : Before(n)[i] = Order[i]
  OBVIOUS
<1>3. Before(n) = <<>> => n = 0
  BY <1>2
<1>4. ASSUME n < Count
      PROVE  n + 1 \in Index /\ Append(Before(n), Order[n + 1]) = Before(n + 1)
  BY <1>2, <1>4
<1>5. ASSUME n > 0
      PROVE  n \in Index /\ n - 1 \in 0 .. Count /\ Last(Before(n)) = Order[n]
             /\ Front(Before(n)) = Before(n - 1)
  BY <1>2, <1>5 DEF Last, Front
<1> QED
  BY <1>2, <1>3, <1>4, <1>5

LEMMA TellFacts ==
    ASSUME SimpleTypes, NEW k \in Index, NEW what \in Lives, Tell(Order[k], what)
    PROVE  /\ life' \in [Services -> Lives]
           /\ \A i \in Index : life'[Order[i]] = IF i = k THEN what ELSE life[Order[i]]
  BY OrderFacts DEF SimpleTypes, Tell

-----------------------------------------------------------------------------
(* The application thread.                                                 *)

LEMMA CallBackFacts ==
    ASSUME SimpleTypes, NEW t \in 0 .. Count, todo = Before(t), NEW what \in Lives, CallBack(what)
    PROVE  /\ t \in Index /\ t - 1 \in 0 .. Count /\ todo' = Before(t - 1)
           /\ failed' \in BOOLEAN
           /\ life' \in [Services -> Lives]
           /\ \A i \in Index : life'[Order[i]] = IF i = t THEN what ELSE life[Order[i]]
<1>1. t > 0
  BY BeforeFacts, OrderFacts DEF CallBack
<1>2. t \in Index /\ t - 1 \in 0 .. Count /\ todo' = Before(t - 1) /\ Tell(Order[t], what)
  BY <1>1, BeforeFacts DEF CallBack
<1> QED
  BY <1>2, TellFacts DEF CallBack, SimpleTypes

NewLists == \E l, s, t \in 0 .. Count : Lists(l, s, t)

AppTypes == pc \in Pcs /\ failed \in BOOLEAN /\ life \in [Services -> Lives]

LEMMA ForwardStep ==
    ASSUME SimpleTypes, NEW l \in 0 .. Count, NEW s \in 0 .. Count, NEW t \in 0 .. Count,
           Lists(l, s, t),
           \/ Prepare("OnLoad", "load") \/ LoadNext \/ LoadEnd
           \/ Prepare("OnStart", "start") \/ StartNext \/ StartEnd
    PROVE  AppTypes' /\ NewLists'
<1> USE OrderFacts DEF NewLists, Lists, Index
<1>1. CASE Prepare("OnLoad", "load")
  <2>1. AppTypes' /\ pc = "OnLoad" /\ pc' \in {"load", "catch"} /\ UNCHANGED life
        /\ UNCHANGED <<mLoadedServices, mStartedServices, todo>>
    BY <1>1 DEF Prepare, SimpleTypes, AppTypes, Pcs
  <2>2. Stage(l, s, t)'
    BY <2>1 DEF Stage, Told, Up
  <2> QED
    BY <2>1, <2>2
<1>2. CASE Prepare("OnStart", "start")
  <2>1. AppTypes' /\ pc = "OnStart" /\ pc' \in {"start", "catch"} /\ UNCHANGED life
        /\ UNCHANGED <<mLoadedServices, mStartedServices, todo>>
    BY <1>2 DEF Prepare, SimpleTypes, AppTypes, Pcs
  <2>2. Stage(l, s, t)'
    BY <2>1 DEF Stage, Told, Up
  <2> QED
    BY <2>1, <2>2
<1>3. CASE LoadNext
  <2>1. pc = "load" /\ l < Count /\ l + 1 \in Index /\ UNCHANGED <<mStartedServices, failed>>
    BY <1>3, BeforeFacts DEF LoadNext, Order
  <2>2. CASE /\ mLoadedServices' = Append(mLoadedServices, Order[l + 1])
             /\ Tell(Order[l + 1], "loaded") /\ UNCHANGED <<pc, todo>>
    <3>1. mLoadedServices' = Before(l + 1)
      BY <2>1, <2>2, BeforeFacts
    <3>2. /\ life' \in [Services -> Lives]
          /\ \A i \in Index : life'[Order[i]] = IF i = l + 1 THEN "loaded" ELSE life[Order[i]]
      BY <2>1, <2>2, TellFacts DEF Lives
    <3>3. Stage(l + 1, s, t)'
      BY <2>1, <2>2, <3>2 DEF Stage, Told
    <3>4. l + 1 \in 0 .. Count /\ s <= l + 1
      BY <2>1
    <3>5. Lists(l + 1, s, t)'
      BY <2>1, <2>2, <3>1, <3>3, <3>4
    <3>6. AppTypes'
      BY <2>1, <2>2, <3>2 DEF AppTypes, SimpleTypes
    <3> QED
      BY <3>4, <3>5, <3>6
  <2>3. CASE pc' = "unloadBack" /\ todo' = mLoadedServices /\ UNCHANGED <<mLoadedServices, life>>
    <3>1. Stage(l, s, l)'
      BY <2>1, <2>3 DEF Stage, Told
    <3> QED
      BY <2>1, <2>3, <3>1 DEF AppTypes, SimpleTypes, Pcs
  <2> QED
    BY <1>3, <2>2, <2>3, BeforeFacts DEF LoadNext, Order
<1>4. CASE LoadEnd
  <2>1. pc = "load" /\ l = Count /\ pc' = "OnStart"
        /\ UNCHANGED <<mLoadedServices, mStartedServices, todo, failed, life>>
    BY <1>4, BeforeFacts DEF LoadEnd, Order
  <2>2. Stage(l, s, t)'
    BY <2>1 DEF Stage, Told
  <2> QED
    BY <2>1, <2>2 DEF AppTypes, SimpleTypes, Pcs
<1>5. CASE StartNext
  <2>1. pc = "start" /\ s < Count /\ s + 1 \in Index /\ l = Count
        /\ UNCHANGED <<mLoadedServices, failed>>
    BY <1>5, BeforeFacts DEF StartNext, Order, Stage
  <2>2. CASE /\ mStartedServices' = Append(mStartedServices, Order[s + 1])
             /\ Tell(Order[s + 1], "started") /\ UNCHANGED <<pc, todo>>
    <3>1. mStartedServices' = Before(s + 1)
      BY <2>1, <2>2, BeforeFacts
    <3>2. /\ life' \in [Services -> Lives]
          /\ \A i \in Index : life'[Order[i]] = IF i = s + 1 THEN "started" ELSE life[Order[i]]
      BY <2>1, <2>2, TellFacts DEF Lives
    <3>3. Stage(l, s + 1, t)'
      BY <2>1, <2>2, <3>2 DEF Stage, Told
    <3> QED
      BY <2>1, <2>2, <3>1, <3>2, <3>3 DEF AppTypes, SimpleTypes
  <2>3. CASE pc' = "stopBack" /\ todo' = mStartedServices /\ UNCHANGED <<mStartedServices, life>>
    <3>1. Stage(l, s, s)'
      BY <2>1, <2>3 DEF Stage, Told
    <3> QED
      BY <2>1, <2>3, <3>1 DEF AppTypes, SimpleTypes, Pcs
  <2> QED
    BY <1>5, <2>2, <2>3, BeforeFacts DEF StartNext, Order
<1>6. CASE StartEnd
  <2>1. pc = "start" /\ s = Count /\ pc' = "signal"
        /\ UNCHANGED <<mLoadedServices, mStartedServices, todo, failed, life>>
    BY <1>6, BeforeFacts DEF StartEnd, Order
  <2>2. Stage(l, s, t)'
    BY <2>1 DEF Stage, Told
  <2> QED
    BY <2>1, <2>2 DEF AppTypes, SimpleTypes, Pcs
<1> QED
  BY <1>1, <1>2, <1>3, <1>4, <1>5, <1>6

LEMMA BackwardStep ==
    ASSUME SimpleTypes, NEW l \in 0 .. Count, NEW s \in 0 .. Count, NEW t \in 0 .. Count,
           Lists(l, s, t),
           \/ RollbackNext \/ RollbackEnd \/ SignalStarted \/ WaitStop
           \/ ReverseNext \/ ReverseEnd \/ Finish \/ Catch
    PROVE  AppTypes' /\ NewLists'
<1> USE OrderFacts DEF NewLists, Lists, Index
<1>1. CASE RollbackNext \/ ReverseNext
  <2>1. PICK what \in {"stopped", "unloaded"} :
            /\ CallBack(what)
            /\ pc \in {"unloadBack", "unload"} => what = "unloaded"
            /\ pc \in {"stopBack", "stop"} => what = "stopped"
    BY <1>1 DEF RollbackNext, ReverseNext
  <2>2. pc \in {"unloadBack", "unload", "stopBack", "stop"}
        /\ UNCHANGED <<pc, mLoadedServices, mStartedServices>>
    BY <1>1 DEF RollbackNext, ReverseNext
  <2>3. /\ t \in Index /\ t - 1 \in 0 .. Count /\ todo' = Before(t - 1)
        /\ failed' \in BOOLEAN
        /\ life' \in [Services -> Lives]
        /\ \A i \in Index : life'[Order[i]] = IF i = t THEN what ELSE life[Order[i]]
    BY <2>1, CallBackFacts DEF Lives
  <2>4. Stage(l, s, t - 1)'
    BY <2>1, <2>2, <2>3 DEF Stage, Told
  <2> QED
    BY <2>2, <2>3, <2>4 DEF AppTypes, SimpleTypes
<1>2. CASE RollbackEnd
  <2>1. t = 0 /\ pc \in {"unloadBack", "stopBack"} /\ pc' = "catch" /\ failed' = TRUE
        /\ UNCHANGED <<todo, life>>
    BY <1>2, BeforeFacts DEF RollbackEnd
  <2>2. /\ mLoadedServices' = Before(l) \/ (mLoadedServices' = Before(0) /\ s = 0)
        /\ mStartedServices' = Before(s) \/ mStartedServices' = Before(0)
        /\ pc = "stopBack" => mLoadedServices' = Before(l)
        /\ pc = "unloadBack" => s = 0
    BY <1>2, BeforeFacts DEF RollbackEnd, Stage
  <2>3. \A m, n : Stage(m, n, t)'
    <3>1. \A i \in Index : life[Order[i]] # "started"
      BY <2>1 DEF Stage, Told
    <3>2. \/ \A i \in Index : life[Order[i]] \in Up
          \/ \A i \in Index : life[Order[i]] \notin Up
      BY <2>1 DEF Stage, Told, Up
    <3> QED
      BY <2>1, <3>1, <3>2 DEF Stage
  <2> QED
    BY <2>1, <2>2, <2>3 DEF AppTypes, SimpleTypes, Pcs
<1>3. CASE SignalStarted
  <2>1. pc = "signal" /\ pc' = "wait"
        /\ UNCHANGED <<mLoadedServices, mStartedServices, todo, failed, life>>
    BY <1>3 DEF SignalStarted
  <2>2. Stage(l, s, t)'
    BY <2>1 DEF Stage, Told
  <2> QED
    BY <2>1, <2>2 DEF AppTypes, SimpleTypes, Pcs
<1>4. CASE WaitStop
  <2>1. pc = "wait" /\ pc' = "stop" /\ todo' = Before(s)
        /\ UNCHANGED <<mLoadedServices, mStartedServices, failed, life>>
    BY <1>4 DEF WaitStop
  <2>2. Stage(l, s, s)'
    BY <2>1 DEF Stage, Told
  <2> QED
    BY <2>1, <2>2 DEF AppTypes, SimpleTypes, Pcs
<1>5. CASE ReverseEnd
  <2>1. t = 0 /\ UNCHANGED <<todo, failed, life>>
    BY <1>5, BeforeFacts DEF ReverseEnd
  <2>2. CASE pc = "stop"
    <3>1. pc' = "OnStop" /\ mStartedServices' = Before(0) /\ UNCHANGED mLoadedServices
      BY <1>5, <2>2, BeforeFacts DEF ReverseEnd
    <3>2. Stage(l, 0, t)'
      BY <2>1, <2>2, <3>1 DEF Stage, Told
    <3> QED
      BY <2>1, <3>1, <3>2 DEF AppTypes, SimpleTypes, Pcs
  <2>3. CASE pc = "unload"
    <3>1. pc' = "OnUnload" /\ mLoadedServices' = Before(0) /\ UNCHANGED mStartedServices
      BY <1>5, <2>3, BeforeFacts DEF ReverseEnd
    <3>2. Stage(0, s, t)' /\ s = 0
      BY <2>1, <2>3, <3>1 DEF Stage, Told
    <3> QED
      BY <2>1, <3>1, <3>2 DEF AppTypes, SimpleTypes, Pcs
  <2> QED
    BY <1>5, <2>2, <2>3 DEF ReverseEnd
<1>6. CASE Finish
  <2>1. failed' \in BOOLEAN /\ UNCHANGED <<mLoadedServices, mStartedServices, life>>
    BY <1>6 DEF Finish, SimpleTypes
  <2>2. CASE pc = "OnStop" /\ pc' = "unload" /\ todo' = mLoadedServices
    <3>1. Stage(l, s, l)'
      BY <2>1, <2>2 DEF Stage, Told
    <3> QED
      BY <2>1, <2>2, <3>1 DEF AppTypes, SimpleTypes, Pcs
  <2>3. CASE pc \in {"OnStop", "OnUnload"} /\ pc' \in {"catch", "done"} /\ UNCHANGED todo
    <3>1. Stage(l, s, t)'
      BY <2>1, <2>3 DEF Stage, Told, Up
    <3> QED
      BY <2>1, <2>3, <3>1 DEF AppTypes, SimpleTypes, Pcs
  <2> QED
    BY <1>6, <2>2, <2>3 DEF Finish
<1>7. CASE Catch
  <2>1. pc = "catch" /\ pc' = "done"
        /\ UNCHANGED <<mLoadedServices, mStartedServices, todo, failed, life>>
    BY <1>7 DEF Catch
  <2>2. Stage(l, s, t)'
    BY <2>1 DEF Stage, Told
  <2> QED
    BY <2>1, <2>2 DEF AppTypes, SimpleTypes, Pcs
<1> QED
  BY <1>1, <1>2, <1>3, <1>4, <1>5, <1>6, <1>7

-----------------------------------------------------------------------------
(* The two threads together.                                               *)

\* Steps of the application thread and what the console has seen.
LEMMA AppConsole ==
    ASSUME SimpleTypes, ConsoleInv, AppStep
    PROVE  ConsoleInv' /\ UNCHANGED console
           /\ runtime_state' \in [start_completed : BOOLEAN, stop_requested : BOOLEAN,
                                  runtime_failed : BOOLEAN]
<1> USE DEF SimpleTypes, ConsoleInv, Running
<1>1. CASE SignalStarted
  BY <1>1 DEF SignalStarted
<1>2. CASE Catch
  BY <1>2 DEF Catch
<1>3. CASE WaitStop
  BY <1>3 DEF WaitStop
<1>4. CASE Prepare("OnLoad", "load") \/ Prepare("OnStart", "start") \/ LoadNext \/ LoadEnd
           \/ StartNext \/ StartEnd
  BY <1>4 DEF Prepare, LoadNext, LoadEnd, StartNext, StartEnd
<1>5. CASE RollbackNext \/ RollbackEnd
  BY <1>5 DEF RollbackNext, RollbackEnd
<1>6. CASE ReverseNext \/ ReverseEnd \/ Finish
  BY <1>6 DEF ReverseNext, ReverseEnd, Finish
<1> QED
  BY <1>1, <1>2, <1>3, <1>4, <1>5, <1>6 DEF AppStep

LEMMA ConsoleStep ==
    ASSUME SimpleTypes, ConsoleInv,
           ConsoleStart \/ RequestStop \/ CommandThrows \/ ConsoleJoin
    PROVE  SimpleTypes' /\ ConsoleInv' /\ UNCHANGED appVars
  BY DEF SimpleTypes, ConsoleInv, ConsoleStart, RequestStop, CommandThrows, ConsoleJoin, appVars

LEMMA InitLifecycle == Init => LifecycleInv
<1> SUFFICES ASSUME Init PROVE LifecycleInv
  OBVIOUS
<1>1. SimpleTypes /\ ConsoleInv
  BY DEF Init, SimpleTypes, ConsoleInv, Pcs, Lives
<1>2. Lists(0, 0, 0)
  BY BeforeFacts, OrderFacts DEF Init, Lists, Stage, Told, Index
<1> QED
  BY <1>1, <1>2, OrderFacts DEF LifecycleInv

LEMMA NextLifecycle == LifecycleInv /\ [Next]_vars => LifecycleInv'
<1> SUFFICES ASSUME LifecycleInv, [Next]_vars PROVE LifecycleInv'
  OBVIOUS
<1>1. PICK l, s, t \in 0 .. Count : Lists(l, s, t)
  BY DEF LifecycleInv
<1>2. SimpleTypes /\ ConsoleInv
  BY DEF LifecycleInv
<1>3. CASE AppStep
  <2>1. AppTypes' /\ NewLists'
    BY <1>1, <1>2, <1>3, ForwardStep, BackwardStep DEF AppStep
  <2> QED
    BY <1>2, <1>3, <2>1, AppConsole DEF LifecycleInv, NewLists, AppTypes, SimpleTypes
<1>4. CASE UNCHANGED appVars
  <2>1. Lists(l, s, t)'
    BY <1>1, <1>4 DEF appVars, Lists, Stage, Told
  <2>2. SimpleTypes' /\ ConsoleInv'
    <3>1. CASE ConsoleStart \/ RequestStop \/ CommandThrows \/ ConsoleJoin
      BY <1>2, <3>1, ConsoleStep
    <3>2. CASE UNCHANGED vars
      BY <1>2, <3>2 DEF vars, SimpleTypes, ConsoleInv
    <3>3. CASE AppStep
      BY <1>2, <1>4, <3>3, AppConsole DEF SimpleTypes, appVars
    <3> QED
      BY <3>1, <3>2, <3>3 DEF Next
  <2> QED
    BY <2>1, <2>2 DEF LifecycleInv
<1> QED
  BY <1>2, <1>3, <1>4, ConsoleStep DEF Next, vars, appVars

LEMMA LifecycleInvariant == Spec => []LifecycleInv
<1>1. Init => LifecycleInv
  BY InitLifecycle
<1>2. LifecycleInv /\ [Next]_vars => LifecycleInv'
  BY NextLifecycle
<1> QED
  BY <1>1, <1>2, PTL DEF Spec

\* Load and Start go through the services by batch, and a rollback, Stop and
\* Unload go back the same way whatever throws: a service is up only while
\* the services of smaller batches are.
THEOREM LifecycleEarlierBatches == Spec => []EarlierBatchesRun
<1>1. LifecycleInv => EarlierBatchesRun
  <2> SUFFICES ASSUME LifecycleInv, NEW u \in Services, NEW v \in Services, Batch[v] < Batch[u]
               PROVE  /\ life[u] = "started" => life[v] = "started"
                      /\ life[u] \in Up => life[v] \in Up
    BY DEF EarlierBatchesRun, Up
  <2>1. PICK l, s, t \in 0 .. Count : Lists(l, s, t)
    BY DEF LifecycleInv
  <2>2. PICK m, n \in Index : Order[m] = u /\ Order[n] = v
    BY OrderFacts
  <2>3. n < m
    <3>1. Batch[Order[m]] \in Nat /\ Batch[Order[n]] \in Nat /\ Batch[Order[n]] < Batch[Order[m]]
      BY <2>2, RegisteredAssumption
    <3>2. ~(m < n) /\ m # n
      BY <3>1, OrderFacts
    <3> QED
      BY <3>2 DEF Index
  <2>4. pc \in Pcs
    BY DEF LifecycleInv, SimpleTypes
  <2> QED
    BY <2>1, <2>2, <2>3, <2>4, OrderFacts DEF Lists, Stage, Told, Up, Pcs, Index
<1> QED
  BY <1>1, LifecycleInvariant, PTL

\* Initialize returns only when no service is left running.
THEOREM LifecycleNothingLeft == Spec => []NothingLeftRunning
<1>1. LifecycleInv => NothingLeftRunning
  <2> SUFFICES ASSUME LifecycleInv, console \in {"true", "false"}, NEW u \in Services
               PROVE  life[u] # "started"
    BY DEF NothingLeftRunning
  <2>1. PICK l, s, t \in 0 .. Count : Lists(l, s, t)
    BY DEF LifecycleInv
  <2>2. PICK m \in Index : Order[m] = u
    BY OrderFacts
  <2> QED
    BY <2>1, <2>2 DEF LifecycleInv, ConsoleInv, Lists, Stage
<1> QED
  BY <1>1, LifecycleInvariant, PTL

\* The console reads commands only while every service is started.
THEOREM LifecycleCommands == Spec => []CommandsSeeServices
<1>1. LifecycleInv => CommandsSeeServices
  <2> SUFFICES ASSUME LifecycleInv, console = "commands", NEW u \in Services
               PROVE  life[u] = "started"
    BY DEF CommandsSeeServices
  <2>1. PICK l, s, t \in 0 .. Count : Lists(l, s, t)
    BY DEF LifecycleInv
  <2>2. PICK m \in Index : Order[m] = u
    BY OrderFacts
  <2>3. pc = "wait" /\ s = Count
    BY <2>1 DEF LifecycleInv, ConsoleInv, Lists, Stage
  <2> QED
    BY <2>1, <2>2, <2>3, OrderFacts DEF Lists, Stage, Told, Index
<1> QED
  BY <1>1, LifecycleInvariant, PTL
=============================================================================
