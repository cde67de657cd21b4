----------------------------- MODULE JobService -----------------------------
(***************************************************************************)
(* What clients are promised of a posted job, whichever peers and messages *)
(* carry it out: an accepted job is one client's; it is answered to that   *)
(* client only, at most once, and only after an executor has run it.  A    *)
(* job may be executed more than once.                                     *)
(***************************************************************************)
EXTENDS Bags

CONSTANTS Clients, Jobs

VARIABLES
    accepted,   \* the bag of <<client, job>> that clients were told of
    executed,   \* the jobs some executor has run to its end
    answered    \* the bag of <<client, job>> results sent to clients

Init ==
    /\ accepted = EmptyBag
    /\ executed = {}
    /\ answered = EmptyBag

\* x = <<client, job>>.  The job is new to the service.
Accept(x) ==
    /\ x \in Clients \X Jobs
    /\ \A y \in DOMAIN accepted : y[2] # x[2]
    /\ accepted' = accepted (+) SetToBag({x})
    /\ UNCHANGED <<executed, answered>>

Execute(x) ==
    /\ executed' = executed \cup {x[2]}
    /\ UNCHANGED <<accepted, answered>>

Answer(x) ==
    /\ x[2] \in executed
    /\ x \notin DOMAIN answered
    /\ answered' = answered (+) SetToBag({x})
    /\ UNCHANGED <<accepted, executed>>

\* Jobs may be infinite: the job accepted is found in accepted'.
Next ==
    \/ \E x \in DOMAIN accepted' : Accept(x)
    \/ \E x \in DOMAIN accepted : Execute(x) \/ Answer(x)

Spec == Init /\ [][Next]_<<accepted, executed, answered>>

=============================================================================
