------------------------------ MODULE Elevator ------------------------------
(***************************************************************************)
(* elevator_system: people arrive at the floors of a building, queue there *)
(* for the way up or the way down, and are carried by one elevator, whose  *)
(* controller decides in each update where to go and whether to stop.      *)
(*                                                                         *)
(* Abstractions: people are numbered as they arrive, so that a queue is a  *)
(* set whose first person has the lowest number; the update period is the  *)
(* unit of time; how many arrive in a period and what the controller       *)
(* decides is any choice.  Sensors, observers and output are left out.     *)
(***************************************************************************)
EXTENDS Integers, FiniteSets, FiniteSetsExt, Functions

CONSTANTS
    NumFloors,      \* m_num_floors
    EndTime,        \* update reports the end at this time: 20 in the code
    MaxArrivals,    \* bound on the arrivals of one update
    MaxRestarts     \* bound on the calls of initialize after the first one

ASSUME ElevatorAssumption ==
    /\ NumFloors \in Nat \ {0, 1}
    /\ {EndTime, MaxArrivals, MaxRestarts} \subseteq Nat

VARIABLES
    location,       \* m_state: the floor the elevator is at
    direction,      \* its last movement
    pressed,        \* pressed[c]: the button of call c is lit
    pressedTime,    \* and since when
    queues,         \* queues[c]: the people waiting there
    passengers,     \* passengers[f]: the people on board who go to floor f
    counts,         \* their number, as the code keeps it
    occupancy,
    transitions,    \* what the last update did
    history,        \* m_history, which initialize leaves alone
    now,            \* m_time
    abandoned       \* auxiliary: what the calls of initialize took away

elevatorVars == <<location, direction, pressed, pressedTime, queues, passengers, counts,
                  occupancy, transitions, history, now, abandoned>>

Floors == 0..(NumFloors - 1)
Calls == Floors \X {"up", "down"}
Directions == {"up", "down", "none"}
Decisions == [direction : Directions, stop : BOOLEAN]
\* What is drawn for a person: the floor, and a destination that leaves out the top.
Draws == Floors \X (0..(NumFloors - 2))
Person == [nr : Nat, from : Floors, to : Floors, since : Nat]

Waiting == UNION {queues[c] : c \in Calls}
Aboard == UNION {passengers[f] : f \in Floors}

\* How long the people of S have been in the system, in all.
Spent(S) == SumFunctionOnSet([p \in S |-> now - p.since], S)

Larger(a, b) == IF a > b THEN a ELSE b

-----------------------------------------------------------------------------
(* initialize *)

NoTransitions == [arrivals |-> [c \in Calls |-> 0], off |-> 0, on |-> 0]

NoHistory ==
    [arrived |-> 0, boarded |-> 0, delivered |-> 0, distance |-> 0, idle |-> 0,
     queuing |-> 0, maxQueuing |-> 0, inclusiveQueuing |-> 0,
     delivery |-> 0, maxDelivery |-> 0, inclusiveDelivery |-> 0]

NothingAbandoned == [restarts |-> 0, waiting |-> 0, aboard |-> 0, queuing |-> 0, delivery |-> 0]

ElevatorInit ==
    /\ location = 0
    /\ direction = "none"
    /\ pressed = [c \in Calls |-> FALSE]
    /\ pressedTime = [c \in Calls |-> 0]
    /\ queues = [c \in Calls |-> {}]
    /\ passengers = [f \in Floors |-> {}]
    /\ counts = [f \in Floors |-> 0]
    /\ occupancy = 0
    /\ transitions = NoTransitions
    /\ history = NoHistory
    /\ now = 0
    /\ abandoned = NothingAbandoned

\* Also restarts the system: whoever is in it is gone, and the history goes on.
Initialize ==
    /\ abandoned.restarts < MaxRestarts
    /\ location' = 0
    /\ direction' = "none"
    /\ pressed' = [c \in Calls |-> FALSE]
    /\ pressedTime' = [c \in Calls |-> 0]
    /\ queues' = [c \in Calls |-> {}]
    /\ passengers' = [f \in Floors |-> {}]
    /\ counts' = [f \in Floors |-> 0]
    /\ occupancy' = 0
    /\ transitions' = NoTransitions
    /\ now' = 0
    /\ abandoned' = [restarts |-> abandoned.restarts + 1,
                     waiting |-> abandoned.waiting + Cardinality(Waiting),
                     aboard |-> abandoned.aboard + Cardinality(Aboard),
                     queuing |-> abandoned.queuing + Spent(Waiting),
                     delivery |-> abandoned.delivery + Spent(Waiting \cup Aboard)]
    /\ UNCHANGED history

-----------------------------------------------------------------------------
(* process_arrivals: who is the draws of the people who arrive. *)

Destination(from, drawn) == IF drawn = from THEN NumFloors - 1 ELSE drawn

GetDirection(from, to) == IF from > to THEN "down" ELSE "up"

\* Faulty: people are noted as coming at the end of the period.
ArrivingLater(who) ==
    {[nr |-> history.arrived + i, from |-> who[i][1],
      to |-> Destination(who[i][1], who[i][2]), since |-> now + 1] : i \in DOMAIN who}

Arriving(who) ==
    {[nr |-> history.arrived + i, from |-> who[i][1],
      to |-> Destination(who[i][1], who[i][2]), since |-> now] : i \in DOMAIN who}

\* The call that a person makes.
Asks(p) == <<p.from, GetDirection(p.from, p.to)>>

Callers(who, c) == {p \in Arriving(who) : Asks(p) = c}

Queue(who, c) == queues[c] \cup Callers(who, c)

-----------------------------------------------------------------------------
(* validate_decision and process_stop *)

\* Faulty: not validated.
HeadingAsDecided(dec) == dec.direction

Heading(dec) ==
    IF \/ dec.direction = "up" /\ location = NumFloors - 1
       \/ dec.direction = "down" /\ location = 0
    THEN "none" ELSE dec.direction

Served(dec, c) == dec.stop /\ c = <<location, Heading(dec)>>

GettingOff(dec) == IF dec.stop THEN passengers[location] ELSE {}
NumOff(dec) == IF dec.stop THEN counts[location] ELSE 0

Boarding(who, dec) ==
    IF dec.stop /\ Heading(dec) # "none" THEN Queue(who, <<location, Heading(dec)>>) ELSE {}

\* Faulty: leaves out who has come in this update.
NumOnBefore(who, dec) == Cardinality(Boarding(who, dec) \ Arriving(who))

NumOn(who, dec) == Cardinality(Boarding(who, dec))

\* Faulty: the number of the floor is kept.
CountKept(who, dec, f) == counts[f] + Cardinality({p \in Boarding(who, dec) : p.to = f})

Count(who, dec, f) ==
    (IF dec.stop /\ f = location THEN 0 ELSE counts[f])
        + Cardinality({p \in Boarding(who, dec) : p.to = f})

LongestDelivery(dec) ==
    IF GettingOff(dec) = {} THEN 0 ELSE now - Min({p.since : p \in GettingOff(dec)})

\* Faulty: the last of the queue for the first one.
QueuingOfLast(who, dec) ==
    IF Boarding(who, dec) = {} THEN 0
    ELSE LET last == CHOOSE p \in Boarding(who, dec) :
                        \A q \in Boarding(who, dec) : q.nr <= p.nr
         IN now - last.since

LongestQueuing(who, dec) ==
    IF Boarding(who, dec) = {} THEN 0
    ELSE LET front == CHOOSE p \in Boarding(who, dec) :
                         \A q \in Boarding(who, dec) : p.nr <= q.nr
         IN now - front.since

-----------------------------------------------------------------------------
(* update *)

\* Faulty: a stop resets both buttons of the floor.
ServeCallsOfFloor(who, dec) ==
    LET reset(c) == Served(dec, c) \/ (dec.stop /\ c[1] = location)
    IN /\ queues' = [c \in Calls |-> IF Served(dec, c) THEN {} ELSE Queue(who, c)]
       /\ pressed' = [c \in Calls |-> ~reset(c) /\ (pressed[c] \/ Callers(who, c) # {})]
       /\ pressedTime' = [c \in Calls |-> IF reset(c) THEN 0
                                          ELSE IF ~pressed[c] /\ Callers(who, c) # {} THEN now
                                          ELSE pressedTime[c]]

ServeCalls(who, dec) ==
    /\ queues' = [c \in Calls |-> IF Served(dec, c) THEN {} ELSE Queue(who, c)]
    /\ pressed' = [c \in Calls |-> ~Served(dec, c) /\ (pressed[c] \/ Callers(who, c) # {})]
    /\ pressedTime' = [c \in Calls |-> IF Served(dec, c) THEN 0
                                       ELSE IF ~pressed[c] /\ Callers(who, c) # {} THEN now
                                       ELSE pressedTime[c]]

ServePassengers(who, dec) ==
    /\ passengers' = [f \in Floors |-> (passengers[f] \ GettingOff(dec))
                                           \cup {p \in Boarding(who, dec) : p.to = f}]
    /\ counts' = [f \in Floors |-> Count(who, dec, f)]
    /\ occupancy' = occupancy - NumOff(dec) + NumOn(who, dec)

Move(dec) ==
    /\ direction' = Heading(dec)
    /\ location' = CASE Heading(dec) = "up" -> location + 1
                     [] Heading(dec) = "down" -> location - 1
                     [] OTHER -> location

\* People who board or get off in an update have not waited or travelled in it.
Record(who, dec) ==
    LET waiting == Cardinality(Waiting')
        moves == IF Heading(dec) = "none" THEN 0 ELSE 1
    IN history' =
        [arrived |-> history.arrived + Cardinality(DOMAIN who),
         boarded |-> history.boarded + NumOn(who, dec),
         delivered |-> history.delivered + NumOff(dec),
         distance |-> history.distance + moves,
         idle |-> history.idle + 1 - moves,
         queuing |-> history.queuing + Spent(Boarding(who, dec)),
         maxQueuing |-> Larger(history.maxQueuing, LongestQueuing(who, dec)),
         inclusiveQueuing |-> history.inclusiveQueuing + waiting,
         delivery |-> history.delivery + Spent(GettingOff(dec)),
         maxDelivery |-> Larger(history.maxDelivery, LongestDelivery(dec)),
         inclusiveDelivery |-> history.inclusiveDelivery + waiting + occupancy']

UpdateSystem(who, dec) ==
    /\ now < EndTime
    /\ ServeCalls(who, dec)
    /\ ServePassengers(who, dec)
    /\ Move(dec)
    /\ Record(who, dec)
    /\ transitions' = [arrivals |-> [c \in Calls |-> Cardinality(Callers(who, c))],
                       off |-> NumOff(dec), on |-> NumOn(who, dec)]
    /\ now' = now + 1
    /\ UNCHANGED abandoned

ElevatorNext ==
    \/ Initialize
    \/ \E n \in 0..MaxArrivals : \E who \in [1..n -> Draws], dec \in Decisions : UpdateSystem(who, dec)

ElevatorSpec == ElevatorInit /\ [][ElevatorNext]_elevatorVars

-----------------------------------------------------------------------------
(* Properties *)

\* Everything has its type: the elevator stays between the floors and no number,
\* all of them unsigned in the code, falls below zero.
ElevatorTypeOK ==
    /\ location \in Floors
    /\ direction \in Directions
    /\ pressed \in [Calls -> BOOLEAN]
    /\ pressedTime \in [Calls -> Nat]
    /\ queues \in [Calls -> SUBSET Person]
    /\ passengers \in [Floors -> SUBSET Person]
    /\ counts \in [Floors -> Nat]
    /\ occupancy \in Nat
    /\ transitions \in [arrivals : [Calls -> Nat], off : Nat, on : Nat]
    /\ DOMAIN history = DOMAIN NoHistory /\ \A h \in DOMAIN NoHistory : history[h] \in Nat
    /\ now \in Nat
    /\ DOMAIN abandoned = DOMAIN NothingAbandoned
    /\ \A a \in DOMAIN NothingAbandoned : abandoned[a] \in Nat

\* The totals of the history account for everybody: who arrived has boarded, waits
\* or was abandoned, and who boarded was delivered, is on board or was abandoned.
\* The counters are kept apart from the queues, in process_arrivals and process_stop.
PeopleConserved ==
    /\ history.arrived = history.boarded + Cardinality(Waiting) + abandoned.waiting
    /\ history.boarded = history.delivered + occupancy + abandoned.aboard

\* The numbers of passengers that the code keeps besides their lists are right, so that
\* process_stop, which subtracts one from the other, never wraps the unsigned occupancy.
OccupancyRight ==
    /\ occupancy = Cardinality(Aboard)
    /\ \A f \in Floors : counts[f] = Cardinality(passengers[f])

\* A button is lit exactly while somebody waits for it, since the first one came:
\* is_pressed, which asks the button, and the state value UpPressed, which asks the
\* queue, agree, and the pressed duration is the first person's wait.
ButtonsTellQueues ==
    \A c \in Calls :
        /\ pressed[c] <=> queues[c] # {}
        /\ pressed[c] => /\ \A p \in queues[c] : pressedTime[c] <= p.since
                         /\ \E p \in queues[c] : pressedTime[c] = p.since

\* The inclusive totals, which update adds up from the numbers present, are the times of
\* the people who boarded or arrived plus what those still there have spent so far.
InclusiveTimesAgree ==
    /\ history.inclusiveQueuing = history.queuing + Spent(Waiting) + abandoned.queuing
    /\ history.inclusiveDelivery =
           history.delivery + Spent(Waiting \cup Aboard) + abandoned.delivery

\* Nobody boards after a longer wait than the longest on record: process_stop looks at
\* the front of the queue only.
LongestWaitRecorded ==
    [][\A p \in Waiting : p \in Aboard' => now - p.since <= history'.maxQueuing]_elevatorVars

=============================================================================
