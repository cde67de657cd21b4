---------------------------- MODULE ClientControl ----------------------------
(***************************************************************************)
(* The command-line state machine of the two interactive clients,          *)
(* system_sim_client and ga_client, which share their shape: the control   *)
(* machine, the thread that runs the simulation or the evolution, and the  *)
(* two threads that feed events to the machine.                            *)
(*                                                                         *)
(* Commands are handled on the Wt session thread, which calls              *)
(* process_event itself; the stop event that a run thread posts is handled *)
(* on the thread of the io_service.  Nothing keeps the two out of the      *)
(* machine at the same time.  A handler takes effect in one step, except   *)
(* that leaving the running state waits for its thread: until it returns,  *)
(* an event handled by the other thread meets a machine in mid-transition  *)
(* and is either dropped or ends the process.                              *)
(*                                                                         *)
(* States that hold one innermost state only (root, inactive, active,      *)
(* not_running) and the choice points are folded into the innermost state. *)
(* Left out: the commands that change no control state (get, drawer,       *)
(* chart, pop, best, store) and those that no state in force parses.       *)
(***************************************************************************)
EXTENDS Naturals

CONSTANTS
    CanEnd,       \* whether a step may report the end: never in ga_client
    MaxPending    \* bound on the stop events waiting in the io_service

ASSUME ControlAssumption == CanEnd \in BOOLEAN /\ MaxPending \in Nat

VARIABLES
    state,        \* the innermost state of the machine; "crashed" is no state of it
    ended,        \* the system of the active state has reported its end
    complete,     \* active::complete
    interrupt,    \* running::interrupt_request
    thread,       \* where the run thread is in do_run; "done" if there is none
    stops,        \* the stop events waiting in the io_service
    leaving,      \* leaving[t]: where t's transition leads while it waits in ~running
    ioWork,       \* the io_service is kept running by io_work
    ioDone        \* io_service::run has returned: the client ends

vars == <<state, ended, complete, interrupt, thread, stops, leaving, ioWork, ioDone>>
systemVars == <<ended, complete>>
ioVars == <<ioWork, ioDone>>

Handlers == {"session", "io"}
ActiveStates == {"paused", "completed", "running"}
Targets == {"not_running", "active", "ready", "quit"}

Up == state # "crashed" /\ ~ioDone

\* t can handle an event, and the other handler is not in the machine.
Alone(t) == Up /\ \A u \in Handlers : leaving[u] = "idle"

\* Whether a step, or a sequence of them, reports the end.
MayEnd == {FALSE, CanEnd}

-----------------------------------------------------------------------------
(* Transitions. *)

\* Faulty: the flag is not looked at.
IsCompletedChoiceUnseen == "paused"

IsCompletedChoice == IF complete THEN "completed" ELSE "paused"

\* Faulty: the io_service is kept waiting for work after the end.
KeepsWorkingAlways(target) == ioWork

\* The command handler drops io_work when a command has ended the machine.
KeepsWorking(target) == ioWork /\ target # "quit"

\* The machine enters target; the active state is entered with a new system.
Enter(target) ==
    /\ state' = CASE target = "not_running" -> IsCompletedChoice
                  [] target = "active" -> "paused"
                  [] OTHER -> target
    /\ IF target = "active" THEN ended' = FALSE /\ complete' = FALSE
                            ELSE UNCHANGED systemVars
    /\ ioWork' = KeepsWorking(target)

\* Faulty: the run thread is not told to stop.
InterruptUnset == interrupt

\* ~running sets interrupt_request, then joins the thread.
Interrupted == TRUE

\* t starts to leave the running state for target, and waits for its thread.
Leave(t, target) ==
    /\ state = "running"
    /\ interrupt' = Interrupted
    /\ leaving' = [leaving EXCEPT ![t] = target]
    /\ UNCHANGED <<state, ioWork>>

\* A transition of t to target.
Transit(t, target) ==
    \/ /\ state # "running"
       /\ Enter(target)
       /\ UNCHANGED <<interrupt, leaving>>
    \/ /\ Leave(t, target)
       /\ UNCHANGED systemVars

\* Faulty: the thread is not joined.
JoinedAtOnce == TRUE

Joined == thread = "done"

\* The destructor of the running state returns, and the transition goes on.
Return(t) ==
    /\ Up
    /\ leaving[t] # "idle"
    /\ Joined
    /\ Enter(leaving[t])
    /\ leaving' = [leaving EXCEPT ![t] = "idle"]
    /\ UNCHANGED <<interrupt, thread, stops, ioDone>>

-----------------------------------------------------------------------------
(* Commands, on the session thread. *)

Initialize ==
    /\ Alone("session") /\ state = "ready"
    /\ Transit("session", "active")
    /\ UNCHANGED <<thread, stops, ioDone>>

\* The definition counts as complete whatever was edited: inactive is ready.
Modify ==
    /\ Alone("session") /\ state = "ready"
    /\ state' = "editing"
    /\ UNCHANGED <<systemVars, interrupt, thread, stops, leaving, ioVars>>

EditorExit ==
    /\ Alone("session") /\ state = "editing"
    /\ Transit("session", "ready")
    /\ UNCHANGED <<thread, stops, ioDone>>

\* Steps the system; complete is not set when that ends it.
Step ==
    /\ Alone("session") /\ state = "paused"
    /\ \E end \in MayEnd :
         /\ ended' = end
         /\ state' = IF end THEN "completed" ELSE "paused"
    /\ UNCHANGED <<complete, interrupt, thread, stops, leaving, ioVars>>

Run ==
    /\ Alone("session") /\ state = "paused"
    /\ stops < MaxPending
    /\ state' = "running"
    /\ interrupt' = FALSE
    /\ thread' = "checking"
    /\ UNCHANGED <<systemVars, stops, leaving, ioVars>>

Stop ==
    /\ Alone("session") /\ state = "running"
    /\ Transit("session", "not_running")
    /\ UNCHANGED <<thread, stops, ioDone>>

Exit ==
    /\ Alone("session") /\ state \in ActiveStates
    /\ Transit("session", "ready")
    /\ UNCHANGED <<thread, stops, ioDone>>

\* The system is reset under the feet of a run thread, before that is stopped.
Reset ==
    /\ Alone("session") /\ state \in ActiveStates
    /\ \/ /\ state # "running"
          /\ Transit("session", "active")
       \/ /\ Leave("session", "active")
          /\ ended' = FALSE /\ complete' = FALSE
    /\ UNCHANGED <<thread, stops, ioDone>>

Quit ==
    /\ Alone("session") /\ state # "quit"
    /\ Transit("session", "quit")
    /\ UNCHANGED <<thread, stops, ioDone>>

Command == Initialize \/ Modify \/ EditorExit \/ Step \/ Run \/ Stop \/ Exit \/ Reset \/ Quit

-----------------------------------------------------------------------------
(* Events posted by run threads, on the thread of the io_service. *)

\* A stop event ends whatever run is on, and is ignored in the other states.
HandleStop ==
    /\ Alone("io") /\ stops > 0
    /\ stops' = stops - 1
    /\ IF state = "running" THEN Transit("io", "not_running")
       ELSE UNCHANGED <<state, systemVars, interrupt, leaving, ioWork>>
    /\ UNCHANGED <<thread, ioDone>>

\* A second thread enters a machine in mid-transition.
RaceOnStop ==
    /\ Up /\ leaving["session"] # "idle" /\ stops > 0
    /\ stops' = stops - 1
    /\ state' \in {state, "crashed"}
    /\ UNCHANGED <<systemVars, interrupt, thread, leaving, ioVars>>

\* A command that is dropped changes nothing.
RaceOnCommand ==
    /\ Up /\ leaving["io"] # "idle"
    /\ state' = "crashed"
    /\ UNCHANGED <<systemVars, interrupt, thread, stops, leaving, ioVars>>

ServiceReturns ==
    /\ Alone("io") /\ ~ioWork /\ stops = 0
    /\ ioDone' = TRUE
    /\ UNCHANGED <<state, systemVars, interrupt, thread, stops, leaving, ioWork>>

-----------------------------------------------------------------------------
(* The run thread. *)

CheckInterrupt ==
    /\ Up /\ thread = "checking"
    /\ thread' = IF interrupt THEN "posting" ELSE "stepping"
    /\ UNCHANGED <<state, systemVars, interrupt, stops, leaving, ioVars>>

StepSystem ==
    /\ Up /\ thread = "stepping"
    /\ \E end \in MayEnd :
         /\ ended' = end
         /\ thread' = IF end THEN "ended" ELSE "checking"
    /\ UNCHANGED <<state, complete, interrupt, stops, leaving, ioVars>>

SetComplete ==
    /\ Up /\ thread = "ended"
    /\ complete' = TRUE
    /\ thread' = "posting"
    /\ UNCHANGED <<state, ended, interrupt, stops, leaving, ioVars>>

\* Faulty: only an interrupted run posts the event.
PostedWhenInterrupted == IF interrupt THEN stops + 1 ELSE stops

Posted == stops + 1

\* A stop event is posted whether the run ended or was interrupted.
PostStop ==
    /\ Up /\ thread = "posting"
    /\ stops' = Posted
    /\ thread' = "done"
    /\ UNCHANGED <<state, systemVars, interrupt, leaving, ioVars>>

RunThread == CheckInterrupt \/ StepSystem \/ SetComplete \/ PostStop

-----------------------------------------------------------------------------

Init ==
    /\ state = "ready"
    /\ ended = FALSE /\ complete = FALSE /\ interrupt = FALSE
    /\ thread = "done"
    /\ stops = 0
    /\ leaving = [t \in Handlers |-> "idle"]
    /\ ioWork = TRUE /\ ioDone = FALSE

IoService == HandleStop \/ RaceOnStop \/ ServiceReturns

Next ==
    \/ Command \/ RaceOnCommand
    \/ IoService
    \/ RunThread
    \/ \E t \in Handlers : Return(t)

Spec == Init /\ [][Next]_vars

\* Threads run; no command is ever typed unless the user likes to.
Fairness ==
    /\ WF_vars(IoService)
    /\ WF_vars(RunThread)
    /\ \A t \in Handlers : WF_vars(Return(t))

FairSpec == Spec /\ Fairness

-----------------------------------------------------------------------------
(* Properties. *)

ControlType ==
    /\ state \in {"ready", "editing", "quit", "crashed"} \cup ActiveStates
    /\ ended \in BOOLEAN /\ complete \in BOOLEAN /\ interrupt \in BOOLEAN
    /\ thread \in {"checking", "stepping", "ended", "posting", "done"}
    /\ leaving \in [Handlers -> Targets \cup {"idle"}]

IoType == stops \in Nat /\ ioWork \in BOOLEAN /\ ioDone \in BOOLEAN

\* Every variable holds a state of the machine, of do_run or of the io_service.
TypeOK == ControlType /\ IoType

\* The prompt tells the truth: a system that has ended is shown as completed,
\* never as paused with more steps to take, however its last step, a stop, a
\* reset and the flag set by the run thread interleave.
PromptIsTrue ==
    /\ state = "paused" => ~ended
    /\ state = "completed" => ended

\* A run thread only runs in the running state, so it never touches an active
\* state (its system, charts and mutex) that is gone.
ThreadInRunningState == state # "crashed" /\ thread # "done" => state = "running"

\* The command prompt does not freeze: a handler that waits in ~running for the
\* run thread comes back.
JoinsReturn ==
    \A t \in Handlers : leaving[t] # "idle" ~> (leaving[t] = "idle" \/ state = "crashed")

\* A run whose system has ended is left without a command from the user.
EndIsNoticed == complete /\ state = "running" ~> state # "running"

\* Once the user quits, the client ends.
QuitEnds == state = "quit" ~> ioDone

\* The comment in do_run: the stop event of a run that a command has stopped
\* already is ignored.  So the io_service never stops a thread that is going on.
DuplicateStopIgnored ==
    [][leaving["io"] = "idle" /\ leaving'["io"] # "idle" => thread = "done"]_vars

=============================================================================
