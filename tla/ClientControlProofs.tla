------------------------- MODULE ClientControlProofs -------------------------
(***************************************************************************)
(* Proofs about module ClientControl: what the prompt says of the system   *)
(* is true, and a run thread never outlives the running state, whatever    *)
(* commands are typed and whenever the posted stop events are handled.     *)
(***************************************************************************)
EXTENDS ClientControl, TLAPS

\* A handler that waits for the run thread is in the running state, alone.
LeavingInv ==
    /\ \A t \in Handlers : leaving[t] # "idle" => state \in {"running", "crashed"}
    /\ leaving["session"] = "idle" \/ leaving["io"] = "idle"

\* The system of a run was reset while the run is on.
ResetUnderRun == leaving["session"] = "active"

\* What the run thread has still to say of the system: between the step that
\* ended it and the flag complete, the thread is at "ended".
RunInv ==
    state = "running" /\ ~ResetUnderRun =>
        /\ complete => ended
        /\ ended => complete \/ thread = "ended"
        /\ thread = "ended" => ended
        /\ thread \in {"checking", "stepping"} => ~ended

\* The inductive invariant.  PromptIsTrue is not inductive: whether a run that
\* is left is shown as paused depends on the flag its thread set earlier.
IInv ==
    /\ ControlType /\ LeavingInv /\ RunInv
    /\ state = "paused" => ~ended /\ ~complete
    /\ state = "completed" => ended
    /\ ThreadInRunningState

LEMMA MayEndType == \A end \in MayEnd : end \in BOOLEAN
BY ControlAssumption DEF MayEnd

\* The initial state is ready, without a run.
LEMMA InitInv == Init => IInv
BY DEF Init, IInv, ControlType, LeavingInv, RunInv, ThreadInRunningState, ActiveStates,
       Handlers, Targets

\* A command finds the machine outside any transition, and leaves it so or at
\* the wait for the run thread.
LEMMA CommandInv == IInv /\ Command => IInv'
<1> SUFFICES ASSUME IInv, Command PROVE IInv'
    OBVIOUS
<1> USE DEF IInv, ControlType, LeavingInv, RunInv, ThreadInRunningState, ResetUnderRun,
        Alone, Up, ActiveStates, Handlers, Targets
<1>1. CASE Initialize
    BY <1>1 DEF Initialize, Transit, Enter, Leave
<1>2. CASE Modify
    BY <1>2 DEF Modify, systemVars, ioVars
<1>3. CASE EditorExit
    BY <1>3 DEF EditorExit, Transit, Enter, Leave, systemVars
<1>4. CASE Step
    BY <1>4, MayEndType DEF Step, ioVars
<1>5. CASE Run
    BY <1>5 DEF Run, systemVars, ioVars
<1>6. CASE Stop
    BY <1>6 DEF Stop, Transit, Leave, Interrupted, systemVars
<1>7. CASE Exit
    <2>1. CASE state = "running"
        BY <1>7, <2>1 DEF Exit, Transit, Leave, Interrupted, systemVars
    <2>2. CASE state # "running"
        BY <1>7, <2>2 DEF Exit, Transit, Enter, Leave, systemVars
    <2> QED
        BY <2>1, <2>2
<1>8. CASE Reset
    BY <1>8 DEF Reset, Transit, Enter, Leave, Interrupted, systemVars
<1>9. CASE Quit
    <2>1. CASE state = "running"
        BY <1>9, <2>1 DEF Quit, Transit, Leave, Interrupted, systemVars
    <2>2. CASE state # "running"
        BY <1>9, <2>2 DEF Quit, Transit, Enter, Leave, systemVars
    <2> QED
        BY <2>1, <2>2
<1> QED
    BY <1>1, <1>2, <1>3, <1>4, <1>5, <1>6, <1>7, <1>8, <1>9 DEF Command

\* The thread of the io_service stops a run, races with a command, or ends.
LEMMA IoInv == IInv /\ (IoService \/ RaceOnCommand) => IInv'
<1> SUFFICES ASSUME IInv, IoService \/ RaceOnCommand PROVE IInv'
    OBVIOUS
<1> USE DEF IInv, ControlType, LeavingInv, RunInv, ThreadInRunningState, ResetUnderRun,
        Alone, Up, ActiveStates, Handlers, Targets
<1>1. CASE HandleStop
    <2>1. CASE state = "running"
        BY <1>1, <2>1 DEF HandleStop, Transit, Leave, Interrupted, systemVars
    <2>2. CASE state # "running"
        BY <1>1, <2>2 DEF HandleStop, systemVars
    <2> QED
        BY <2>1, <2>2
<1>2. CASE RaceOnStop
    BY <1>2 DEF RaceOnStop, systemVars, ioVars
<1>3. CASE ServiceReturns
    BY <1>3 DEF ServiceReturns, systemVars
<1>4. CASE RaceOnCommand
    BY <1>4 DEF RaceOnCommand, systemVars, ioVars
<1> QED
    BY <1>1, <1>2, <1>3, <1>4 DEF IoService

\* The run thread takes a step; a reset may have gone on meanwhile.
LEMMA RunThreadInv == IInv /\ RunThread => IInv'
<1> SUFFICES ASSUME IInv, RunThread PROVE IInv'
    OBVIOUS
<1> USE DEF IInv, ControlType, LeavingInv, RunInv, ThreadInRunningState, ResetUnderRun,
        Up, ActiveStates, Handlers, Targets
<1>1. CASE CheckInterrupt
    BY <1>1 DEF CheckInterrupt, systemVars, ioVars
<1>2. CASE StepSystem
    <2>1. PICK end \in MayEnd :
            ended' = end /\ thread' = IF end THEN "ended" ELSE "checking"
        BY <1>2 DEF StepSystem
    <2>2. end \in BOOLEAN
        BY MayEndType
    <2>3. ~ResetUnderRun => ~ended /\ ~complete
        BY <1>2 DEF StepSystem
    <2>. /\ thread = "stepping" /\ state = "running"
         /\ UNCHANGED <<state, complete, interrupt, stops, leaving>>
        BY <1>2 DEF StepSystem
    <2>4. CASE end = TRUE
        <3>. ended' = TRUE /\ thread' = "ended"
            BY <2>1, <2>4
        <3> QED
            BY <2>3
    <2>5. CASE end = FALSE
        <3>. ended' = FALSE /\ thread' = "checking"
            BY <2>1, <2>5
        <3> QED
            BY <2>3
    <2> QED
        BY <2>2, <2>4, <2>5
<1>3. CASE SetComplete
    BY <1>3 DEF SetComplete, ioVars
<1>4. CASE PostStop
    BY <1>4 DEF PostStop, systemVars, ioVars
<1> QED
    BY <1>1, <1>2, <1>3, <1>4 DEF RunThread

\* The wait for the run thread ends: complete has its final value.
LEMMA ReturnInv == ASSUME IInv, NEW t \in Handlers, Return(t) PROVE IInv'
<1> USE DEF IInv, ControlType, LeavingInv, RunInv, ThreadInRunningState, ResetUnderRun,
        ActiveStates, Handlers, Targets
<1>1. state = "running" /\ thread = "done" /\ leaving[t] \in Targets
    BY DEF Return, Up, Joined
<1>2. CASE leaving[t] = "not_running"
    BY <1>1, <1>2 DEF Return, Enter, IsCompletedChoice, systemVars
<1>3. CASE leaving[t] = "active"
    BY <1>1, <1>3 DEF Return, Enter
<1>4. CASE leaving[t] \in {"ready", "quit"}
    BY <1>1, <1>4 DEF Return, Enter, systemVars
<1> QED
    BY <1>1, <1>2, <1>3, <1>4

LEMMA NextInv == IInv /\ [Next]_vars => IInv'
<1> SUFFICES ASSUME IInv, [Next]_vars PROVE IInv'
    OBVIOUS
<1>1. CASE UNCHANGED vars
    BY <1>1 DEF vars, IInv, ControlType, LeavingInv, RunInv, ThreadInRunningState, ResetUnderRun
<1> QED
    BY <1>1, CommandInv, IoInv, RunThreadInv, ReturnInv DEF Next

\* The number of waiting stop events counts down only from above zero.
LEMMA StopsInv == stops \in Nat /\ [Next]_vars => (stops \in Nat)'
<1> SUFFICES ASSUME stops \in Nat, [Next]_vars PROVE stops' \in Nat
    OBVIOUS
<1>1. CASE Command
    BY <1>1 DEF Command, Initialize, Modify, EditorExit, Step, Run, Stop, Exit, Reset, Quit
<1>2. CASE IoService \/ RaceOnCommand
    BY <1>2 DEF IoService, HandleStop, RaceOnStop, ServiceReturns, RaceOnCommand
<1>3. CASE RunThread
    BY <1>3 DEF RunThread, CheckInterrupt, StepSystem, SetComplete, PostStop, Posted
<1>4. CASE \E t \in Handlers : Return(t)
    BY <1>4 DEF Return
<1>5. CASE UNCHANGED vars
    BY <1>5 DEF vars
<1> QED
    BY <1>1, <1>2, <1>3, <1>4, <1>5 DEF Next

IoFlags == ioWork \in BOOLEAN /\ ioDone \in BOOLEAN

\* Each step keeps io_work, drops it, or ends the io_service.
LEMMA IoFlagsInv == IoFlags /\ [Next]_vars => IoFlags'
<1> SUFFICES ASSUME IoFlags, [Next]_vars PROVE IoFlags'
    OBVIOUS
<1> USE DEF IoFlags
<1>1. ASSUME NEW t \in Handlers, NEW target, Transit(t, target) PROVE ioWork' \in BOOLEAN
    BY <1>1 DEF Transit, Enter, Leave, KeepsWorking
<1>2. CASE Initialize \/ Modify \/ EditorExit \/ Step \/ Run \/ Stop \/ Exit \/ Quit
    BY <1>1, <1>2 DEF Initialize, Modify, EditorExit, Step, Run, Stop, Exit, Quit, ioVars, Handlers
<1>3. CASE Reset
    BY <1>1, <1>3 DEF Reset, Leave, Handlers
<1>4. CASE HandleStop
    BY <1>1, <1>4 DEF HandleStop, Handlers
<1>5. CASE RaceOnStop \/ ServiceReturns \/ RaceOnCommand
    BY <1>5 DEF RaceOnStop, ServiceReturns, RaceOnCommand, ioVars
<1>6. CASE RunThread
    BY <1>6 DEF RunThread, CheckInterrupt, StepSystem, SetComplete, PostStop, ioVars
<1>7. CASE \E t \in Handlers : Return(t)
    BY <1>7 DEF Return, Enter, KeepsWorking
<1>8. CASE UNCHANGED vars
    BY <1>8 DEF vars
<1> QED
    BY <1>2, <1>3, <1>4, <1>5, <1>6, <1>7, <1>8 DEF Next, Command, IoService

\* In every reachable state every variable has its type.
THEOREM TypeCorrect == Spec => []TypeOK
<1>1. Init => stops \in Nat /\ IoFlags
    <2>1. Init => stops = 0 /\ ioWork = TRUE /\ ioDone = FALSE
        BY Zenon DEF Init
    <2>2. ioWork = TRUE /\ ioDone = FALSE => IoFlags
        BY Zenon DEF IoFlags
    <2>3. stops = 0 => stops \in Nat
        BY SMT
    <2> QED
        BY Zenon, <2>1, <2>2, <2>3
<1>2. IInv /\ stops \in Nat /\ IoFlags => TypeOK
    BY DEF IInv, TypeOK, IoType, IoFlags
<1> QED
    BY <1>1, <1>2, InitInv, NextInv, StopsInv, IoFlagsInv, PTL DEF Spec

\* In every reachable state a system that has ended is shown as completed, and
\* never as paused (is_completed_choice.h, paused_state.cpp, do_run).
THEOREM PromptCorrect == Spec => []PromptIsTrue
<1>1. IInv => PromptIsTrue
    BY DEF IInv, PromptIsTrue
<1> QED
    BY <1>1, InitInv, NextInv, PTL DEF Spec

\* In every reachable state a run thread has its running state around it, whose
\* destructor joins it (running_state.cpp).
THEOREM ThreadCorrect == Spec => []ThreadInRunningState
<1>1. IInv => ThreadInRunningState
    BY DEF IInv
<1> QED
    BY <1>1, InitInv, NextInv, PTL DEF Spec

=============================================================================
