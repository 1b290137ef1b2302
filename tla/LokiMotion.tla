----------------------------- MODULE LokiMotion -----------------------------
(***************************************************************************)
(* Speed, ramp and direction of the locomotive: src/main_loki.c, the parts *)
(* of src/main.c and of the GATT and CoAP handlers that drive it, and the  *)
(* H-bridge driver drivers/motor/tb67h453.c underneath.                    *)
(*                                                                         *)
(* Three threads share plain globals without a lock: "ot" runs the CoAP    *)
(* handlers, "bt" the GATT write handlers, "wq" (the system workqueue) the *)
(* ramp step that the 1 Hz timer's interrupt submits.  A handler is a      *)
(* sequence of labelled steps, in the order of the C statements; thread t  *)
(* is at label th[t].pc.  There is one CPU.  A cooperative thread gives it *)
(* up only at YieldPoints, a thread of Preemptive between any two steps.   *)
(***************************************************************************)
EXTENDS Integers

CONSTANTS
    SpeedSteps,     \* SPEED_STEPS, also the largest uint8_t: 255 in the code
    FullDuty,       \* duty of full speed, in percent: 100 in the code
    BrakeDivisor,   \* the 3 of "-1 * (speed_value / 3)"
    Orders,         \* acceleration orders the clients send (int8_t)
    Patterns,       \* direction patterns the clients send (uint8_t)
    PwmBases,       \* PWM base frequencies the clients send, in Hz
    NanoPerSecond,  \* NANO_PER_SECOND
    U16,            \* 2^16, the modulus of the uint16_t PWM variables
    HasDisplay,     \* the build has an SSD1306: updates take its mutex
    Preemptive      \* threads of preemptible priority (at most "ot")

ASSUME SpeedAssumption ==
    /\ SpeedSteps \in Nat \ {0}
    /\ FullDuty \in Nat \ {0}
    /\ BrakeDivisor \in Nat \ {0}

ASSUME InputAssumption ==
    /\ Orders \subseteq Int
    /\ Patterns \subseteq Nat
    /\ PwmBases \subseteq Nat \ {0}
    /\ NanoPerSecond \in Nat
    /\ U16 \in Nat \ {0}

ASSUME BuildAssumption ==
    /\ HasDisplay \in BOOLEAN
    /\ Preemptive \subseteq {"ot"}

VARIABLES
    speed_value, accel_order, direction_pattern, speed_notify_enabled,
    pwm,            \* pwm_base, pwm_period, pwm_pulse
    data_direction, \* the driver's data->direction
    in1, in2,       \* duty on the two inputs of the H-bridge, in percent
    my_timer,       \* the 1 s periodic timer is running
    work_pending,   \* accel_apply_work is queued
    th,             \* per thread: where it is and the values in its registers
    last,           \* history: a stop that no later command overrides
    unannounced     \* history: a ramp step the subscriber is not told of yet

motion == <<speed_value, accel_order>>
driver == <<data_direction, in1, in2>>
history == <<last, unannounced>>
vars == <<motion, direction_pattern, speed_notify_enabled, pwm, driver,
          my_timer, work_pending, th, history>>

-----------------------------------------------------------------------------
Speed == 0 .. SpeedSteps
Duty == 0 .. FullDuty
Controllers == {"ot", "bt"}
Threads == Controllers \cup {"wq"}

DisplayCalls == {"display", "dirDisplay", "notifyDisplay", "finalDisplay"}
NotifyCalls == {"notify", "finalNotify"}
Labels == {"idle", "setSpeed", "drivePin", "storeSpeed", "checkDir", "brake",
           "setDir", "dirStore", "orderAccel", "checkTimer", "apply",
           "applyWrite", "startTimer", "tickEnd"} \cup DisplayCalls \cup NotifyCalls
\* What the handler does after the steps it shares with others: set a speed,
\* stop, order an acceleration (from GATT with a final notification), ...
Jobs == {"none", "direct", "stop", "accel", "gattAccel", "direction", "tick"}

\* Where a cooperative thread lets others run: with nothing to do, waiting for
\* the display mutex, waiting for a GATT notification buffer.
YieldPoints ==
    {"idle"} \cup NotifyCalls \cup (IF HasDisplay THEN DisplayCalls ELSE {})

CanRun(t) ==
    \A u \in Threads \ {t} : u \in Preemptive \/ th[u].pc \in YieldPoints

Idle == [pc |-> "idle", job |-> "none", arg |-> 0, tmp |-> 0]

At(t, label) == CanRun(t) /\ th[t].pc = label
Goto(t, label) == th' = [th EXCEPT ![t].pc = label]
\* ... with new values in the registers (0 when they are dead).
GotoWith(t, label, v, w) ==
    th' = [th EXCEPT ![t].pc = label, ![t].arg = v, ![t].tmp = w]
Return(t) == th' = [th EXCEPT ![t] = Idle]

\* The conversions of the code.
Percent(v) == (v * FullDuty) \div SpeedSteps
DriverDirection(p) == IF p \in {1, 2} THEN p ELSE 0
PwmOf(base) ==
    LET period == (NanoPerSecond \div base) % U16
    IN [base |-> base, period |-> period, pulse |-> period \div SpeedSteps]

-----------------------------------------------------------------------------
\* The state main() leaves behind: init_default_values() after the driver's init.
BootPwmBase == 1000

Init ==
    /\ speed_value = 0 /\ accel_order = 0 /\ direction_pattern = 0
    /\ speed_notify_enabled = FALSE
    /\ pwm = PwmOf(BootPwmBase)
    /\ data_direction = 0 /\ in1 = 0 /\ in2 = 0
    /\ my_timer = FALSE /\ work_pending = FALSE
    /\ th = [t \in Threads |-> Idle]
    /\ last = "none" /\ unannounced = FALSE

-----------------------------------------------------------------------------
(* The requests that enter the system.  Each one starts a handler.         *)

Begin(t, job, label, v) ==
    /\ At(t, "idle")
    /\ th' = [th EXCEPT ![t] = [pc |-> label, job |-> job, arg |-> v, tmp |-> 0]]

Command(t, job, label, v) ==
    /\ Begin(t, job, label, v)
    /\ last' = "none"
    /\ UNCHANGED <<motion, direction_pattern, speed_notify_enabled, pwm, driver,
                   my_timer, work_pending, unannounced>>

speed_request(v) == Command("ot", "direct", "setSpeed", v)
acceleration_request(a) == Command("ot", "accel", "orderAccel", a)
direction_request(p) == Command("ot", "direction", "checkDir", p)

stop_request ==
    /\ Begin("ot", "stop", "setSpeed", 0)
    /\ UNCHANGED <<motion, direction_pattern, speed_notify_enabled, pwm, driver,
                   my_timer, work_pending, history>>

write_speed(v) == Command("bt", "direct", "setSpeed", v)
write_accelation(a) == Command("bt", "gattAccel", "orderAccel", a)
write_direction(p) == Command("bt", "direction", "checkDir", p)

\* change_pwm_base(): new period and pulse, then the current speed once more.
write_pwm(base) ==
    /\ Begin("bt", "direct", "setSpeed", speed_value)
    /\ pwm' = PwmOf(base)
    /\ UNCHANGED <<motion, direction_pattern, speed_notify_enabled, driver,
                   my_timer, work_pending, history>>

\* The client (un)subscribes.
speed_ccc_cfg_changed(enable) ==
    /\ At("bt", "idle")
    /\ speed_notify_enabled' = enable
    /\ unannounced' = FALSE
    /\ UNCHANGED <<motion, direction_pattern, pwm, driver, my_timer, work_pending,
                   th, last>>

Request ==
    \/ \E v \in Speed : speed_request(v) \/ write_speed(v)
    \/ \E a \in Orders : acceleration_request(a) \/ write_accelation(a)
    \/ \E p \in Patterns : direction_request(p) \/ write_direction(p)
    \/ \E base \in PwmBases : write_pwm(base)
    \/ \E enable \in BOOLEAN : speed_ccc_cfg_changed(enable)
    \/ stop_request

-----------------------------------------------------------------------------
(* change_speed_directly(): the driver's set_speed, then the global, then   *)
(* the display.                                                             *)

\* set_speed reads data->direction and first silences the other input.
SilencePin(t) ==
    /\ At(t, "setSpeed")
    /\ in1' = IF data_direction = 1 THEN in1 ELSE 0
    /\ in2' = IF data_direction = 1 THEN 0 ELSE in2
    /\ GotoWith(t, "drivePin", th[t].arg, data_direction)
    /\ UNCHANGED <<motion, direction_pattern, speed_notify_enabled, pwm,
                   data_direction, my_timer, work_pending, history>>

\* Mutant: the branch of the forward direction, copied, drives its pin in reverse too.
DriveCopiedBranch(t) ==
    LET d == th[t].tmp
    IN  /\ At(t, "drivePin")
        /\ in1' = IF d \in {1, 2} THEN Percent(th[t].arg) ELSE in1
        /\ in2' = IF d = 1 THEN in2 ELSE IF d = 2 THEN Percent(th[t].arg) ELSE 0
        /\ GotoWith(t, "storeSpeed", th[t].arg, 0)
        /\ UNCHANGED <<motion, direction_pattern, speed_notify_enabled, pwm,
                       data_direction, my_timer, work_pending, history>>

\* Mutant: the driver is given the speed of before the order.
DriveOldSpeed(t) ==
    LET d == th[t].tmp
    IN  /\ At(t, "drivePin")
        /\ in1' = IF d = 1 THEN Percent(speed_value) ELSE in1
        /\ in2' = IF d = 1 THEN in2 ELSE IF d = 2 THEN Percent(speed_value) ELSE 0
        /\ GotoWith(t, "storeSpeed", th[t].arg, 0)
        /\ UNCHANGED <<motion, direction_pattern, speed_notify_enabled, pwm,
                       data_direction, my_timer, work_pending, history>>

DrivePin(t) ==
    LET d == th[t].tmp
    IN  /\ At(t, "drivePin")
        /\ in1' = IF d = 1 THEN Percent(th[t].arg) ELSE in1
        /\ in2' = IF d = 1 THEN in2 ELSE IF d = 2 THEN Percent(th[t].arg) ELSE 0
        /\ GotoWith(t, "storeSpeed", th[t].arg, 0)
        /\ UNCHANGED <<motion, direction_pattern, speed_notify_enabled, pwm,
                       data_direction, my_timer, work_pending, history>>

StoreSpeed(t) ==
    /\ At(t, "storeSpeed")
    /\ speed_value' = th[t].arg
    /\ GotoWith(t, "display", 0, 0)
    /\ UNCHANGED <<accel_order, direction_pattern, speed_notify_enabled, pwm, driver,
                   my_timer, work_pending, history>>

\* Mutant: subscribers are never told.
NotifyNobody(t) == Goto(t, "notifyDisplay")

\* notify_motion_change() looks for a subscriber, then updates the display.
NotifyMotionChange(t) ==
    Goto(t, IF speed_notify_enabled THEN "notify" ELSE "notifyDisplay")
FinalNotifyMotionChange(t) ==
    Goto(t, IF speed_notify_enabled THEN "finalNotify" ELSE "finalDisplay")

\* Back from the display: a ramp step goes on to notify_motion_change().
DisplayDone(t) ==
    /\ At(t, "display")
    /\ IF th[t].job \in {"direct", "stop"} THEN Return(t) ELSE NotifyMotionChange(t)
    /\ last' = IF /\ th[t].job = "stop"
                  /\ \A c \in Controllers \ {t} : th[c].pc = "idle"
               THEN "stop" ELSE last
    /\ UNCHANGED <<motion, direction_pattern, speed_notify_enabled, pwm, driver,
                   my_timer, work_pending, unannounced>>

-----------------------------------------------------------------------------
(* change_direction()                                                       *)

\* Mutant: nobody asks whether the locomotive moves.
CheckPatternOnly(t) ==
    /\ At(t, "checkDir")
    /\ IF direction_pattern = th[t].arg THEN Return(t) ELSE Goto(t, "setDir")
    /\ UNCHANGED <<motion, direction_pattern, speed_notify_enabled, pwm, driver,
                   my_timer, work_pending, history>>

CheckDirection(t) ==
    /\ At(t, "checkDir")
    /\ IF direction_pattern = th[t].arg THEN Return(t)
       ELSE IF speed_value > 0 THEN GotoWith(t, "brake", 0, 0)
       ELSE Goto(t, "setDir")
    /\ UNCHANGED <<motion, direction_pattern, speed_notify_enabled, pwm, driver,
                   my_timer, work_pending, history>>

Brake(t) ==
    /\ At(t, "brake")
    /\ th' = [th EXCEPT ![t] = [pc |-> "orderAccel", job |-> "accel", tmp |-> 0,
                                arg |-> -(speed_value \div BrakeDivisor)]]
    /\ last' = "none"
    /\ UNCHANGED <<motion, direction_pattern, speed_notify_enabled, pwm, driver,
                   my_timer, work_pending, unannounced>>

SetDirection(t) ==
    /\ At(t, "setDir")
    /\ data_direction' = DriverDirection(th[t].arg)
    /\ Goto(t, "dirDisplay")
    /\ UNCHANGED <<motion, direction_pattern, speed_notify_enabled, pwm, in1, in2,
                   my_timer, work_pending, history>>

DirectionDisplayDone(t) ==
    /\ At(t, "dirDisplay")
    /\ Goto(t, "dirStore")
    /\ UNCHANGED <<motion, direction_pattern, speed_notify_enabled, pwm, driver,
                   my_timer, work_pending, history>>

StoreDirection(t) ==
    /\ At(t, "dirStore")
    /\ direction_pattern' = th[t].arg
    /\ Return(t)
    /\ UNCHANGED <<motion, speed_notify_enabled, pwm, driver, my_timer,
                   work_pending, history>>

-----------------------------------------------------------------------------
(* speed_set_acceleration() and apply_current_acceleration()                *)

OrderAcceleration(t) ==
    /\ At(t, "orderAccel")
    /\ accel_order' = th[t].arg
    /\ GotoWith(t, "checkTimer", 0, 0)
    /\ UNCHANGED <<speed_value, direction_pattern, speed_notify_enabled, pwm, driver,
                   my_timer, work_pending, history>>

\* k_timer_remaining_get() is 0 for a stopped timer, and also (in whole
\* milliseconds) during the last millisecond of a running one.
RemainingIsZero == IF my_timer THEN BOOLEAN ELSE {TRUE}

CheckTimer(t) ==
    /\ At(t, "checkTimer")
    /\ \E zero \in RemainingIsZero :
          IF zero THEN Goto(t, "apply")
          ELSE IF th[t].job = "gattAccel" THEN FinalNotifyMotionChange(t)
          ELSE Return(t)
    /\ UNCHANGED <<motion, direction_pattern, speed_notify_enabled, pwm, driver,
                   my_timer, work_pending, history>>

\* Mutants: no stop at 0; an order that full speed does not end.
RampThroughZero(speed, order) ==
    IF speed + order > SpeedSteps THEN [speed |-> SpeedSteps, done |-> 1]
    ELSE [speed |-> speed + order, done |-> 0]

RampGoesOn(speed, order) ==
    IF order < 0 /\ -order >= speed THEN [speed |-> 0, done |-> 1]
    ELSE IF speed + order >= SpeedSteps THEN [speed |-> SpeedSteps, done |-> 0]
    ELSE [speed |-> speed + order, done |-> 0]

\* The branch taken: the new speed, and whether the order is thereby exhausted.
RampStep(speed, order) ==
    IF order < 0 /\ -order >= speed THEN [speed |-> 0, done |-> 1]
    ELSE IF speed + order > SpeedSteps THEN [speed |-> SpeedSteps, done |-> 1]
    ELSE [speed |-> speed + order, done |-> 0]

Apply(t) ==
    LET step == RampStep(speed_value, accel_order)
    IN  /\ At(t, "apply")
        /\ GotoWith(t, "applyWrite", step.speed, step.done)
        /\ UNCHANGED <<motion, direction_pattern, speed_notify_enabled, pwm, driver,
                       my_timer, work_pending, history>>

\* The sum may come from registers or be formed from a second read (uint8_t).
Written(t) ==
    IF th[t].tmp = 1 THEN {th[t].arg}
    ELSE {th[t].arg, (speed_value + accel_order) % (SpeedSteps + 1)}

NewSpeed(v) ==
    /\ speed_value' = v
    /\ unannounced' = (speed_notify_enabled /\ (unannounced \/ v # speed_value))

\* Mutant: the ramp step does not hand the new speed to the driver.
ApplyWriteOnly(t) ==
    /\ At(t, "applyWrite")
    /\ \E v \in Written(t) : NewSpeed(v) /\ GotoWith(t, "display", 0, 0)
    /\ accel_order' = IF th[t].tmp = 1 THEN 0 ELSE accel_order
    /\ UNCHANGED <<direction_pattern, speed_notify_enabled, pwm, driver, my_timer,
                   work_pending, last>>

ApplyWrite(t) ==
    /\ At(t, "applyWrite")
    /\ \E v \in Written(t) : NewSpeed(v) /\ GotoWith(t, "setSpeed", v, 0)
    /\ accel_order' = IF th[t].tmp = 1 THEN 0 ELSE accel_order
    /\ UNCHANGED <<direction_pattern, speed_notify_enabled, pwm, driver, my_timer,
                   work_pending, last>>

\* The GATT notification carries the speed of the moment it is sent.
Notify(t) ==
    /\ \/ At(t, "notify") /\ Goto(t, "notifyDisplay")
       \/ At(t, "finalNotify") /\ Goto(t, "finalDisplay")
    /\ unannounced' = FALSE
    /\ UNCHANGED <<motion, direction_pattern, speed_notify_enabled, pwm, driver,
                   my_timer, work_pending, last>>

NotifyDisplayDone(t) ==
    /\ \/ At(t, "notifyDisplay") /\ Goto(t, IF t = "wq" THEN "tickEnd" ELSE "startTimer")
       \/ At(t, "finalDisplay") /\ Return(t)
    /\ UNCHANGED <<motion, direction_pattern, speed_notify_enabled, pwm, driver,
                   my_timer, work_pending, history>>

StartTimer(t) ==
    /\ At(t, "startTimer")
    /\ my_timer' = TRUE
    /\ IF th[t].job = "gattAccel" THEN FinalNotifyMotionChange(t) ELSE Return(t)
    /\ UNCHANGED <<motion, direction_pattern, speed_notify_enabled, pwm, driver,
                   work_pending, history>>

-----------------------------------------------------------------------------
(* The periodic timer and the work item it submits.                         *)

\* re_apply_acceleration(), an interrupt: it runs whatever the threads do.
\* Submitting a work item that is queued already has no effect.
re_apply_acceleration ==
    /\ my_timer
    /\ work_pending' = TRUE
    /\ UNCHANGED <<motion, direction_pattern, speed_notify_enabled, pwm, driver,
                   my_timer, th, history>>

\* accel_apply_work_handler() begins ...
TickBegin ==
    /\ work_pending
    /\ Begin("wq", "tick", "apply", 0)
    /\ work_pending' = FALSE
    /\ UNCHANGED <<motion, direction_pattern, speed_notify_enabled, pwm, driver,
                   my_timer, history>>

\* Mutants: a standing locomotive loses its order; a timer that goes on for ever.
TickEndAtRest ==
    /\ At("wq", "tickEnd")
    /\ my_timer' = IF speed_value = 0 THEN FALSE ELSE my_timer
    /\ Return("wq")
    /\ UNCHANGED <<motion, direction_pattern, speed_notify_enabled, pwm, driver,
                   work_pending, history>>

TickEndWithoutStop ==
    /\ At("wq", "tickEnd")
    /\ Return("wq")
    /\ UNCHANGED <<motion, direction_pattern, speed_notify_enabled, pwm, driver,
                   my_timer, work_pending, history>>

\* ... and ends: the timer is stopped at rest without an order.
TickEnd ==
    /\ At("wq", "tickEnd")
    /\ my_timer' = IF speed_value = 0 /\ accel_order = 0 THEN FALSE ELSE my_timer
    /\ Return("wq")
    /\ UNCHANGED <<motion, direction_pattern, speed_notify_enabled, pwm, driver,
                   work_pending, history>>

-----------------------------------------------------------------------------
Step(t) ==
    \/ SilencePin(t) \/ DrivePin(t) \/ StoreSpeed(t) \/ DisplayDone(t)
    \/ CheckDirection(t) \/ Brake(t) \/ SetDirection(t)
    \/ DirectionDisplayDone(t) \/ StoreDirection(t)
    \/ OrderAcceleration(t) \/ CheckTimer(t) \/ Apply(t) \/ ApplyWrite(t)
    \/ Notify(t) \/ NotifyDisplayDone(t) \/ StartTimer(t)

Next ==
    \/ Request
    \/ \E t \in Threads : Step(t)
    \/ re_apply_acceleration
    \/ TickBegin
    \/ TickEnd

Spec == Init /\ [][Next]_vars

\* Threads that can run do run, the timer fires and its work is carried out;
\* clients owe nothing.
Fairness ==
    /\ \A t \in Threads : WF_vars(Step(t))
    /\ WF_vars(re_apply_acceleration)
    /\ WF_vars(TickBegin)
    /\ WF_vars(TickEnd)

FairSpec == Spec /\ Fairness

-----------------------------------------------------------------------------
(* Properties                                                               *)

\* Every variable stays in its C type; the pins carry a duty the driver accepts.
TypeOK ==
    /\ speed_value \in Speed
    /\ accel_order \in Int
    /\ direction_pattern \in Nat
    /\ speed_notify_enabled \in BOOLEAN
    /\ pwm \in [base : Nat, period : Nat, pulse : Nat]
    /\ data_direction \in {0, 1, 2}
    /\ in1 \in Duty /\ in2 \in Duty
    /\ my_timer \in BOOLEAN /\ work_pending \in BOOLEAN
    /\ th \in [Threads -> [pc : Labels, job : Jobs, arg : Int, tmp : {0, 1, 2}]]
    /\ last \in {"none", "stop"} /\ unannounced \in BOOLEAN

\* The H-bridge is never driven from both sides (tb67h453.c:57-67): one input
\* is silenced before the other is driven, whichever handlers interleave.
PinsExclusive == in1 = 0 \/ in2 = 0

\* Outside a speed update the bridge delivers exactly the duty of speed_value,
\* on the input of the driver's direction: no interleaving of GATT writes, CoAP
\* requests and ramp steps leaves the motor at a speed the firmware forgot.
Updating(t) == th[t].pc \in {"setSpeed", "drivePin", "storeSpeed"}
UpdatingSpeed == \E t \in Threads : Updating(t)
MotorFollowsSpeed ==
    UpdatingSpeed \/ /\ in1 = IF data_direction = 1 THEN Percent(speed_value) ELSE 0
                     /\ in2 = IF data_direction = 2 THEN Percent(speed_value) ELSE 0

\* An acceleration order in force always has a ramp to carry it out: the timer
\* runs, or the thread that gave the order is still about to start it.  (The
\* check of k_timer_remaining_get at main_loki.c:115 races the k_timer_stop of
\* line 86.)
StartingRamp == {"checkTimer", "apply", "applyWrite", "setSpeed", "drivePin", "storeSpeed",
                 "display", "notify", "notifyDisplay", "startTimer"}
RampArmed ==
    accel_order # 0 =>
        \/ my_timer
        \/ \E c \in Controllers : /\ th[c].pc \in StartingRamp
                                  /\ th[c].job \in {"accel", "gattAccel"}

\* The bridge changes direction only while it delivers nothing: change_direction
\* reverses a standing locomotive and brakes a moving one (main_loki.c:137-147).
ReversesAtStandstill == [][data_direction' # data_direction => in1 = 0 /\ in2 = 0]_vars

\* A ramp step makes progress the way the order says or ends the order, and it ends
\* it nowhere but at the end of the range, instead of wrapping the uint8_t or going
\* on for ever at full speed (main_loki.c:52-66).
RampAdvances ==
    [][\A t \in Threads :
          th[t].pc = "applyWrite" /\ th'[t].pc = "setSpeed" =>
              /\ accel_order > 0 => speed_value' > speed_value \/ accel_order' = 0
              /\ accel_order < 0 => speed_value' < speed_value \/ accel_order' = 0
              /\ accel_order = 0 => speed_value' = speed_value
              /\ accel_order' # accel_order =>
                    /\ accel_order' = 0
                    /\ speed_value' = IF accel_order > 0 THEN SpeedSteps ELSE 0]_vars

\* A ramp step that changes the speed a client subscribed to is announced: its
\* thread is still on the way to bt_notify_speed, whatever the client and the
\* other handlers do meanwhile (main_loki.c:67-68, main.c:143-155).
BeforeNotify == {"setSpeed", "drivePin", "storeSpeed", "display", "notify"}
RampAnnounced ==
    unannounced =>
        \E t \in Threads : th[t].pc \in BeforeNotify /\ th[t].job \in {"accel", "gattAccel", "tick"}

\* Once the clients fall silent, an acceleration order ends: every ramp reaches
\* full speed or standstill (main_loki.c:52-66, 78-98).
Silence == <>[](\A c \in Controllers : th[c].pc = "idle")
RampCompletes == Silence => <>[](accel_order = 0)

\* Once the clients fall silent, a locomotive at rest without an order has its
\* 1 Hz timer switched off (main_loki.c:82-87).
TimerRetires ==
    Silence => <>[](speed_value = 0 /\ accel_order = 0 => ~my_timer /\ ~work_pending)

\* The module implements Traction: however GATT writes, CoAP requests, ramp steps
\* and direction changes interleave, a speed order looks as if it reached the
\* bridge in one step, before the next order is taken up, and only a locomotive
\* at rest is reversed (main_loki.c:32-37, 52-66, 121-149).  The order in force is the
\* one a thread is carrying out, else the one carried out last.
OrderInForce ==
    IF UpdatingSpeed THEN th[CHOOSE t \in Threads : Updating(t)].arg ELSE speed_value
Bridge == INSTANCE Traction WITH
    order <- OrderInForce, direction <- data_direction, output <- in1 - in2
ImplementsTraction == Bridge!Spec

\* No order is forgotten on the way to the bridge: a handler that has taken up a
\* speed hands it to the driver, whatever ramp steps and timer interrupts come.
OrdersReachBridge == Bridge!Delivers

\* What the documents promise of /stop (OVERVIEW/communication.md:43,
\* INTERFACES.md:239): after it the locomotive stands until the next command.
StopIsFinal == last = "stop" => speed_value = 0
=============================================================================
