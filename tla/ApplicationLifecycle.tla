-------------------------- MODULE ApplicationLifecycle --------------------------
(***************************************************************************)
(* One process: ApplicationBase takes the registered services through      *)
(* Load, Start, Stop and Unload on the application thread, and Loader      *)
(* runs the operator's console beside it (framework/application/base.h,    *)
(* loader/loader.cpp).  The two threads share RuntimeState, a mutex and a  *)
(* condition variable.                                                     *)
(*                                                                         *)
(* Each call of a service may throw.  Waits are on a predicate under the   *)
(* mutex, so a wait is an action that is enabled when its predicate holds. *)
(***************************************************************************)
EXTENDS Naturals, Sequences, FiniteSets

CONSTANTS
    Registered,     \* the services, in the order of AddService
    Batch           \* GetBatch() of each service

VARIABLES
    pc,                 \* of the application thread
    mLoadedServices,
    mStartedServices,
    todo,               \* services that a rollback, Stop or Unload still calls
    failed,             \* an exception is being carried (first_error)
    life,               \* what each service has been told
    runtime_state,
    console             \* of the console thread

vars == <<pc, mLoadedServices, mStartedServices, todo, failed, life, runtime_state, console>>

Services == {Registered[i] : i \in 1 .. Len(Registered)}

ASSUME RegisteredAssumption ==
    /\ Registered \in Seq(Services)
    /\ \A i, j \in 1 .. Len(Registered) : Registered[i] = Registered[j] => i = j
    /\ Batch \in [Services -> Nat]

-----------------------------------------------------------------------------

\* Mutant: services in the order of their registration.
RegistrationOrder == Registered

\* std::stable_sort by batch.
mServicesInOrder ==
    LET Before(i, j) == \/ Batch[Registered[i]] < Batch[Registered[j]]
                        \/ Batch[Registered[i]] = Batch[Registered[j]] /\ i < j
        Rank(j) == 1 + Cardinality({i \in 1 .. Len(Registered) : Before(i, j)})
    IN  [n \in 1 .. Len(Registered) |->
            Registered[CHOOSE j \in 1 .. Len(Registered) : Rank(j) = n]]

Lives == {"created", "loaded", "started", "stopped", "unloaded"}
Pcs == {"OnLoad", "load", "unloadBack", "OnStart", "start", "stopBack", "signal", "wait",
        "stop", "OnStop", "unload", "OnUnload", "catch", "done"}

IsPrefixOf(s, t) == Len(s) <= Len(t) /\ s = SubSeq(t, 1, Len(s))

\* The lists are prefixes of one another.
LifecycleTypeOK ==
    /\ pc \in Pcs
    /\ IsPrefixOf(mLoadedServices, mServicesInOrder)
    /\ IsPrefixOf(mStartedServices, mLoadedServices)
    /\ IsPrefixOf(todo, mServicesInOrder)
    /\ failed \in BOOLEAN
    /\ life \in [Services -> Lives]
    /\ runtime_state \in [start_completed : BOOLEAN, stop_requested : BOOLEAN,
                          runtime_failed : BOOLEAN]
    /\ console \in {"waitStart", "commands", "join", "true", "false", "terminated"}

Init ==
    /\ pc = "OnLoad"
    /\ mLoadedServices = <<>> /\ mStartedServices = <<>> /\ todo = <<>>
    /\ failed = FALSE
    /\ life = [s \in Services |-> "created"]
    /\ runtime_state = [start_completed |-> FALSE, stop_requested |-> FALSE, runtime_failed |-> FALSE]
    /\ console = "waitStart"

Running == console # "terminated"
Last(seq) == seq[Len(seq)]
Front(seq) == SubSeq(seq, 1, Len(seq) - 1)
Tell(s, what) == life' = [life EXCEPT ![s] = what]

-----------------------------------------------------------------------------
(* The application thread.                                                 *)

\* OnLoad and OnStart throw, or the services' turn begins.  Registering the
\* services and the commands may throw as well.
Prepare(at, next) ==
    /\ Running /\ pc = at
    /\ \/ pc' = next /\ UNCHANGED failed
       \/ pc' = "catch" /\ failed' = TRUE
    /\ UNCHANGED <<mLoadedServices, mStartedServices, todo, life, runtime_state, console>>

\* RunForwardBatches: Load of the next service, or of none that is left.
LoadNext ==
    LET s == mServicesInOrder[Len(mLoadedServices) + 1] IN
    /\ Running /\ pc = "load" /\ Len(mLoadedServices) < Len(mServicesInOrder)
    /\ \/ /\ mLoadedServices' = Append(mLoadedServices, s)
          /\ Tell(s, "loaded")
          /\ UNCHANGED <<pc, todo>>
       \/ /\ pc' = "unloadBack" /\ todo' = mLoadedServices
          /\ UNCHANGED <<mLoadedServices, life>>
    /\ UNCHANGED <<mStartedServices, failed, runtime_state, console>>

LoadEnd ==
    /\ Running /\ pc = "load" /\ Len(mLoadedServices) = Len(mServicesInOrder)
    /\ pc' = "OnStart"
    /\ UNCHANGED <<mLoadedServices, mStartedServices, todo, failed, life, runtime_state, console>>

StartNext ==
    LET s == mServicesInOrder[Len(mStartedServices) + 1] IN
    /\ Running /\ pc = "start" /\ Len(mStartedServices) < Len(mServicesInOrder)
    /\ \/ /\ mStartedServices' = Append(mStartedServices, s)
          /\ Tell(s, "started")
          /\ UNCHANGED <<pc, todo>>
       \/ /\ pc' = "stopBack" /\ todo' = mStartedServices
          /\ UNCHANGED <<mStartedServices, life>>
    /\ UNCHANGED <<mLoadedServices, failed, runtime_state, console>>

StartEnd ==
    /\ Running /\ pc = "start" /\ Len(mStartedServices) = Len(mServicesInOrder)
    /\ pc' = "signal"
    /\ UNCHANGED <<mLoadedServices, mStartedServices, todo, failed, life, runtime_state, console>>

\* Mutant: a call that throws ends the sequence.
CallBackUntilThrow(what) ==
    /\ todo # <<>>
    /\ Tell(Last(todo), what)
    /\ \/ todo' = Front(todo) /\ UNCHANGED failed
       \/ todo' = <<>> /\ failed' = TRUE

\* CaptureFailure: a call that throws is remembered, and the next one made.
CallBack(what) ==
    /\ todo # <<>>
    /\ Tell(Last(todo), what)
    /\ todo' = Front(todo)
    /\ failed' \in {failed, TRUE}

\* Rollback of a Load or Start that threw.  When the rollback itself throws,
\* its list is left as it is.
RollbackNext ==
    /\ Running
    /\ \/ pc = "unloadBack" /\ CallBack("unloaded")
       \/ pc = "stopBack" /\ CallBack("stopped")
    /\ UNCHANGED <<pc, mLoadedServices, mStartedServices, runtime_state, console>>

RollbackEnd ==
    /\ Running /\ pc \in {"unloadBack", "stopBack"} /\ todo = <<>>
    /\ mLoadedServices' = IF pc = "unloadBack" /\ ~failed THEN <<>> ELSE mLoadedServices
    /\ mStartedServices' = IF pc = "stopBack" /\ ~failed THEN <<>> ELSE mStartedServices
    /\ pc' = "catch" /\ failed' = TRUE
    /\ UNCHANGED <<todo, life, runtime_state, console>>

\* start_completed, which lets the console read commands.
SignalStarted ==
    /\ Running /\ pc = "signal"
    /\ runtime_state' = [runtime_state EXCEPT !.start_completed = TRUE]
    /\ pc' = "wait"
    /\ UNCHANGED <<mLoadedServices, mStartedServices, todo, failed, life, console>>

WaitStop ==
    /\ Running /\ pc = "wait" /\ runtime_state.stop_requested
    /\ pc' = "stop" /\ todo' = mStartedServices
    /\ UNCHANGED <<mLoadedServices, mStartedServices, failed, life, runtime_state, console>>

\* RunReverseBatches over the started, then the loaded services.
ReverseNext ==
    /\ Running
    /\ \/ pc = "stop" /\ CallBack("stopped")
       \/ pc = "unload" /\ CallBack("unloaded")
    /\ UNCHANGED <<pc, mLoadedServices, mStartedServices, runtime_state, console>>

ReverseEnd ==
    /\ Running /\ todo = <<>>
    /\ \/ /\ pc = "stop" /\ pc' = "OnStop"
          /\ mStartedServices' = <<>> /\ UNCHANGED mLoadedServices
       \/ /\ pc = "unload" /\ pc' = "OnUnload"
          /\ mLoadedServices' = <<>> /\ UNCHANGED mStartedServices
    /\ UNCHANGED <<todo, failed, life, runtime_state, console>>

\* OnStop and OnUnload; what was thrown is thrown again, and a Stop that
\* throws skips Unload.
Finish ==
    /\ Running
    /\ \E throws \in {failed, TRUE} :
          /\ failed' = throws
          /\ \/ pc = "OnStop" /\ ~throws /\ pc' = "unload" /\ todo' = mLoadedServices
             \/ pc = "OnUnload" /\ ~throws /\ pc' = "done" /\ UNCHANGED todo
             \/ pc \in {"OnStop", "OnUnload"} /\ throws /\ pc' = "catch" /\ UNCHANGED todo
    /\ UNCHANGED <<mLoadedServices, mStartedServices, life, runtime_state, console>>

\* Mutant: a failure does not let the console go on.
CatchSilently ==
    /\ Running /\ pc = "catch"
    /\ runtime_state' = [runtime_state EXCEPT !.runtime_failed = TRUE]
    /\ pc' = "done"
    /\ UNCHANGED <<mLoadedServices, mStartedServices, todo, failed, life, console>>

Catch ==
    /\ Running /\ pc = "catch"
    /\ runtime_state' = [start_completed |-> TRUE, stop_requested |-> TRUE, runtime_failed |-> TRUE]
    /\ pc' = "done"
    /\ UNCHANGED <<mLoadedServices, mStartedServices, todo, failed, life, console>>

AppStep ==
    \/ Prepare("OnLoad", "load") \/ LoadNext \/ LoadEnd
    \/ Prepare("OnStart", "start") \/ StartNext \/ StartEnd
    \/ RollbackNext \/ RollbackEnd \/ SignalStarted \/ WaitStop
    \/ ReverseNext \/ ReverseEnd \/ Finish \/ Catch

-----------------------------------------------------------------------------
(* The console thread.                                                     *)

appVars == <<pc, mLoadedServices, mStartedServices, todo, failed, life>>

\* Mutant: commands are read without looking at runtime_failed.
ConsoleStartUnchecked ==
    /\ console = "waitStart" /\ runtime_state.start_completed
    /\ console' = "commands"
    /\ UNCHANGED <<appVars, runtime_state>>

ConsoleStart ==
    /\ console = "waitStart" /\ runtime_state.start_completed
    /\ console' = IF runtime_state.runtime_failed THEN "join" ELSE "commands"
    /\ UNCHANGED <<appVars, runtime_state>>

\* exit, or the end of the input.
RequestStop ==
    /\ console = "commands"
    /\ runtime_state' = [runtime_state EXCEPT !.stop_requested = TRUE]
    /\ console' = "join"
    /\ UNCHANGED appVars

\* A command whose handler throws: nothing catches it, and the application
\* thread is not joined.
CommandThrows ==
    /\ console = "commands"
    /\ console' = "terminated"
    /\ UNCHANGED <<appVars, runtime_state>>

\* join, and the result of Initialize.
ConsoleJoin ==
    /\ console = "join" /\ pc = "done"
    /\ console' = IF runtime_state.runtime_failed THEN "false" ELSE "true"
    /\ UNCHANGED <<appVars, runtime_state>>

Next == AppStep \/ ConsoleStart \/ RequestStop \/ CommandThrows \/ ConsoleJoin

Spec == Init /\ [][Next]_vars

\* The threads run, calls of services return, and the operator ends the
\* process some time.
FairSpec ==
    /\ Spec
    /\ WF_vars(AppStep)
    /\ WF_vars(ConsoleStart) /\ WF_vars(RequestStop) /\ WF_vars(ConsoleJoin)

-----------------------------------------------------------------------------
(* Properties.                                                             *)

\* A service runs only while every service of a smaller batch, which it may
\* use, runs too; and it is loaded only while they are.  Also in the middle
\* of a rollback, and when calls throw.
EarlierBatchesRun ==
    \A s, t \in Services :
        Batch[t] < Batch[s] =>
            /\ life[s] = "started" => life[t] = "started"
            /\ life[s] \in {"loaded", "started", "stopped"} => life[t] \in {"loaded", "started", "stopped"}

\* When Initialize returns, no service is left running, whatever threw.
NothingLeftRunning ==
    console \in {"true", "false"} => \A s \in Services : life[s] # "started"

\* Commands are only read while every service is started: never before the
\* start is complete, after a failure, or during the stop.
CommandsSeeServices ==
    console = "commands" => \A s \in Services : life[s] = "started"

\* The process ends: no exception or stop request leaves one thread waiting
\* for the other.
ProcessEnds == <>(console \in {"true", "false", "terminated"})
=============================================================================
