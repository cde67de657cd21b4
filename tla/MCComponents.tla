---------------------------- MODULE MCComponents ----------------------------
(***************************************************************************)
(* Components that share no state, checked together: a behaviour is one of *)
(* its subject's, while the others stay where they begin.                  *)
(***************************************************************************)
EXTENDS Elevator, DisplayRegistry, CommandInput, Genalg, ParamTree, ActivationRange

\* Signals are added to the sum and taken away from it.
WeightsOfBothSigns == {-1, 2}

VARIABLE subject

allVars == <<subject, elevatorVars, displayVars, inputVars, genalgVars, paramVars, rangeVars>>

Init ==
    /\ subject \in {"elevator", "displays", "input", "genalg", "params", "ranges"}
    /\ ElevatorInit /\ DisplayInit /\ InputInit /\ GenalgInit /\ ParamInit /\ RangeInit

Next ==
    /\ UNCHANGED subject
    /\ \/ /\ subject = "elevator" /\ ElevatorNext
          /\ UNCHANGED <<displayVars, inputVars, genalgVars, paramVars, rangeVars>>
       \/ /\ subject = "displays" /\ DisplayNext
          /\ UNCHANGED <<elevatorVars, inputVars, genalgVars, paramVars, rangeVars>>
       \/ /\ subject = "input" /\ InputNext
          /\ UNCHANGED <<elevatorVars, displayVars, genalgVars, paramVars, rangeVars>>
       \/ /\ subject = "genalg" /\ GenalgNext
          /\ UNCHANGED <<elevatorVars, displayVars, inputVars, paramVars, rangeVars>>
       \/ /\ subject = "params" /\ ParamNext
          /\ UNCHANGED <<elevatorVars, displayVars, inputVars, genalgVars, rangeVars>>
       \/ /\ subject = "ranges" /\ RangeNext
          /\ UNCHANGED <<elevatorVars, displayVars, inputVars, genalgVars, paramVars>>

\* The fairness of the displays holds by itself where they are not the subject: nothing of
\* theirs is enabled in the states they begin in.
Spec == Init /\ [][Next]_allVars /\ DisplayFairness

=============================================================================
