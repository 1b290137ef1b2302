------------------------------ MODULE Traction ------------------------------
(***************************************************************************)
(* What LokiMotion promises its clients, without threads, ramps or timers: *)
(* a speed order reaches the motor before the next one is taken up, and    *)
(* the direction changes only on a locomotive at rest.                     *)
(***************************************************************************)
EXTENDS Integers

CONSTANTS SpeedSteps, FullDuty

VARIABLES
    order,      \* the speed last ordered
    direction,  \* 1 forward, 2 reverse, 0 neither
    output      \* what the bridge delivers in percent, reverse counted negative

tvars == <<order, direction, output>>

\* The output that carries out an order of v in direction d.
OutputOf(v, d) ==
    LET duty == (v * FullDuty) \div SpeedSteps
    IN  IF d = 1 THEN duty ELSE IF d = 2 THEN -duty ELSE 0

CarriedOut == output = OutputOf(order, direction)

Init == order = 0 /\ direction = 0 /\ output = 0

\* A client or a ramp orders a speed.
Order(v) ==
    /\ CarriedOut
    /\ order' = v
    /\ UNCHANGED <<direction, output>>

\* The bridge takes on the duty of the order, in one step.
Deliver ==
    /\ output' = OutputOf(order, direction)
    /\ UNCHANGED <<order, direction>>

\* A locomotive at rest is reversed.
Reverse(d) ==
    /\ order = 0 /\ output = 0
    /\ direction' = d
    /\ UNCHANGED <<order, output>>

Next ==
    \/ \E v \in 0 .. SpeedSteps : Order(v)
    \/ Deliver
    \/ \E d \in 0 .. 2 : Reverse(d)

Spec == Init /\ [][Next]_tvars

\* No order is left undelivered.
Delivers == WF_tvars(Deliver)
=============================================================================
