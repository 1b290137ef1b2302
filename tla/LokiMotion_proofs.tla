-------------------------- MODULE LokiMotion_proofs --------------------------
(***************************************************************************)
(* What LokiMotion guarantees for every speed range, every set of orders,  *)
(* patterns and frequencies: TypeCorrect and RampAlwaysArmed hold whatever *)
(* the priority of the OpenThread thread; the theorems about the pins and  *)
(* about monotone ramps need cooperative threads.                          *)
(***************************************************************************)
EXTENDS LokiMotion, TLAPS

-----------------------------------------------------------------------------
(* Arithmetic of the conversions.                                          *)

\* change_speed_directly's percentage is a duty the driver need not clamp.
LEMMA PercentType == \A v \in Speed : Percent(v) \in Duty
<1> SUFFICES ASSUME NEW v \in Speed
             PROVE  Percent(v) \in Duty
  OBVIOUS
<1>1. v \in Nat /\ SpeedSteps \in Nat /\ SpeedSteps > 0 /\ FullDuty \in Nat /\ v =< SpeedSteps
  BY SpeedAssumption DEF Speed
<1>2. v * FullDuty =< SpeedSteps * FullDuty /\ v * FullDuty \in Nat
  BY <1>1
<1>3. DEFINE q == (v * FullDuty) \div SpeedSteps
<1>4. q \in Int /\ SpeedSteps * q =< v * FullDuty /\ v * FullDuty < SpeedSteps * (q + 1)
  BY <1>1, <1>2
<1>5. q >= 0
  <2>1. SUFFICES ASSUME q + 1 =< 0 PROVE FALSE
    BY <1>4
  <2>2. SpeedSteps * (q + 1) =< 0
    BY <2>1, <1>1, <1>4
  <2> QED
    BY <2>2, <1>2, <1>4, <1>1
<1>6. q =< FullDuty
  <2>1. SUFFICES ASSUME q >= FullDuty + 1 PROVE FALSE
    BY <1>4, <1>1
  <2>2. SpeedSteps * q >= SpeedSteps * (FullDuty + 1)
    BY <2>1, <1>1, <1>4
  <2>3. SpeedSteps * (FullDuty + 1) = SpeedSteps * FullDuty + SpeedSteps
    BY <1>1
  <2>4. SpeedSteps * q \in Int /\ SpeedSteps * FullDuty \in Int
    BY <1>1, <1>4
  <2> QED
    BY <2>2, <2>3, <2>4, <1>1, <1>2, <1>4
<1> QED
  BY <1>4, <1>5, <1>6 DEF Percent, Duty

\* No speed asks for no duty: speed 0 is 0 percent of the PWM period.
LEMMA PercentZero == Percent(0) = 0
  BY SpeedAssumption DEF Percent

\* Every non-zero PWM base SetPwmBase is given yields a natural period and pulse.
LEMMA PwmType == \A base \in Nat \ {0} : PwmOf(base) \in [base : Nat, period : Nat, pulse : Nat]
<1> SUFFICES ASSUME NEW base \in Nat \ {0}
             PROVE  PwmOf(base) \in [base : Nat, period : Nat, pulse : Nat]
  OBVIOUS
<1>1. NanoPerSecond \div base \in Nat
  BY InputAssumption
<1>2. (NanoPerSecond \div base) % U16 \in Nat
  BY <1>1, InputAssumption
<1>3. ((NanoPerSecond \div base) % U16) \div SpeedSteps \in Nat
  BY <1>2, SpeedAssumption
<1> QED
  BY <1>2, <1>3 DEF PwmOf

\* A ramp step, from any speed and under any order, ends inside the range.
LEMMA RampStepType ==
    \A speed \in Speed, order \in Int :
        /\ RampStep(speed, order).speed \in Speed
        /\ RampStep(speed, order).done \in {0, 1}
  BY SpeedAssumption DEF RampStep, Speed

\* The sum formed as a uint8_t is in range, whatever it was formed from.
LEMMA SumType == \A s \in Speed, a \in Int : (s + a) % (SpeedSteps + 1) \in Speed
<1> SUFFICES ASSUME NEW s \in Speed, NEW a \in Int
             PROVE  (s + a) % (SpeedSteps + 1) \in Speed
  OBVIOUS
<1>1. s + a \in Int /\ SpeedSteps + 1 \in Nat /\ SpeedSteps + 1 > 0
  BY SpeedAssumption DEF Speed
<1>2. (s + a) % (SpeedSteps + 1) \in 0 .. (SpeedSteps + 1) - 1
  BY <1>1
<1> QED
  BY <1>2, SpeedAssumption DEF Speed

-----------------------------------------------------------------------------
(* Type correctness.  The registers of a thread hold a speed or a pattern  *)
(* where the next step uses them as one.                                   *)

Thread == [pc : Labels, job : Jobs, arg : Int, tmp : {0, 1, 2}]

Registers ==
    \A t \in Threads :
        /\ th[t].pc \in {"setSpeed", "drivePin", "storeSpeed", "applyWrite"}
              => th[t].arg \in Speed
        /\ th[t].pc \in {"checkDir", "setDir", "dirDisplay", "dirStore"}
              => th[t].arg \in Nat

TypeInv == TypeOK /\ Registers

\* The decoder boots with every variable and every register in range.
LEMMA TypeInit == Init => TypeInv
<1> SUFFICES ASSUME Init PROVE TypeInv
  OBVIOUS
<1>1. pwm \in [base : Nat, period : Nat, pulse : Nat]
  BY PwmType DEF Init, BootPwmBase
<1>2. 0 \in Speed /\ 0 \in Duty
  BY SpeedAssumption DEF Speed, Duty
<1>3. th \in [Threads -> Thread]
  BY DEF Init, Idle, Thread, Labels, Jobs
<1>4. Registers
  BY DEF Init, Idle, Registers
<1>5. direction_pattern \in Nat /\ accel_order \in Int /\ data_direction \in {0, 1, 2}
  BY DEF Init
<1>6. /\ speed_notify_enabled \in BOOLEAN /\ my_timer \in BOOLEAN
      /\ work_pending \in BOOLEAN /\ unannounced \in BOOLEAN
      /\ last \in {"none", "stop"}
  BY Zenon DEF Init
<1>7. speed_value \in Speed /\ in1 \in Duty /\ in2 \in Duty
  BY <1>2 DEF Init
<1> QED
  BY <1>1, <1>3, <1>4, <1>5, <1>6, <1>7 DEF TypeInv, TypeOK, Thread

\* What the four ways to move a thread make of th.
LEMMA GotoType ==
    ASSUME th \in [Threads -> Thread], NEW t \in Threads, NEW label \in Labels, Goto(t, label)
    PROVE  /\ th' \in [Threads -> Thread]
           /\ th'[t].pc = label /\ th'[t].job = th[t].job
           /\ th'[t].arg = th[t].arg /\ th'[t].tmp = th[t].tmp
           /\ \A u \in Threads \ {t} : th'[u] = th[u]
  BY DEF Goto, Thread

\* A thread that moves on to a label with a value that label expects stays typed.
LEMMA GotoWithType ==
    ASSUME th \in [Threads -> Thread], NEW t \in Threads, NEW label \in Labels,
           NEW v \in Int, NEW w \in {0, 1, 2}, GotoWith(t, label, v, w)
    PROVE  /\ th' \in [Threads -> Thread]
           /\ th'[t].pc = label /\ th'[t].job = th[t].job
           /\ th'[t].arg = v /\ th'[t].tmp = w
           /\ \A u \in Threads \ {t} : th'[u] = th[u]
  BY DEF GotoWith, Thread

\* A handler that returns leaves its thread idle, and typed.
LEMMA ReturnType ==
    ASSUME th \in [Threads -> Thread], NEW t \in Threads, Return(t)
    PROVE  /\ th' \in [Threads -> Thread]
           /\ th'[t].pc = "idle"
           /\ \A u \in Threads \ {t} : th'[u] = th[u]
  BY DEF Return, Idle, Thread, Labels, Jobs

\* A request that a thread takes up starts at a label with a value it expects.
LEMMA BeginType ==
    ASSUME th \in [Threads -> Thread], NEW t \in Threads, NEW job \in Jobs,
           NEW label \in Labels, NEW v \in Int, Begin(t, job, label, v)
    PROVE  /\ th' \in [Threads -> Thread]
           /\ th[t].pc = "idle"
           /\ th'[t] = [pc |-> label, job |-> job, arg |-> v, tmp |-> 0]
           /\ \A u \in Threads \ {t} : th'[u] = th[u]
  BY DEF Begin, At, Thread

\* Every step of a handler or of the work item keeps the types and the registers.
LEMMA TypeStep == TypeInv /\ [Next]_vars => TypeInv'
<1> SUFFICES ASSUME TypeInv, [Next]_vars PROVE TypeInv'
  OBVIOUS
<1> USE DEF TypeInv, TypeOK, Thread, motion, driver, history
<1>1. ASSUME NEW t \in Controllers, NEW job \in Jobs, NEW v \in Int,
             \/ Command(t, job, "setSpeed", v) /\ v \in Speed
             \/ Command(t, job, "orderAccel", v)
             \/ Command(t, job, "checkDir", v) /\ v \in Nat
      PROVE  TypeInv'
  BY <1>1 DEF Command, Begin, Registers, Labels
<1>2. ASSUME stop_request PROVE TypeInv'
  BY <1>2, SpeedAssumption DEF stop_request, Begin, Registers, Labels, Jobs, Speed, Threads, Controllers
<1>3. ASSUME NEW base \in PwmBases, write_pwm(base) PROVE TypeInv'
  BY <1>3, PwmType, InputAssumption
     DEF write_pwm, Begin, Registers, Labels, Jobs, Speed, Threads, Controllers
<1>4. ASSUME NEW enable \in BOOLEAN, speed_ccc_cfg_changed(enable) PROVE TypeInv'
  BY <1>4 DEF speed_ccc_cfg_changed, Registers
<1>5. ASSUME NEW t \in Threads, SilencePin(t) PROVE TypeInv'
  <2>1. "drivePin" \in Labels /\ 0 \in Duty /\ th[t].arg \in Int
    BY SpeedAssumption DEF Labels, Duty
  <2>2. /\ th' \in [Threads -> Thread] /\ th'[t].arg = th[t].arg
        /\ th'[t].pc = "drivePin" /\ \A u \in Threads \ {t} : th'[u] = th[u]
    BY <1>5, <2>1, GotoWithType DEF SilencePin
  <2>3. Registers'
    BY <1>5, <2>2 DEF Registers, SilencePin, At
  <2> QED
    BY <1>5, <2>1, <2>2, <2>3 DEF SilencePin
<1>6. ASSUME NEW t \in Threads, DrivePin(t) PROVE TypeInv'
  <2>1. "storeSpeed" \in Labels /\ 0 \in Duty /\ th[t].arg \in Speed
    BY <1>6, SpeedAssumption DEF Labels, Duty, DrivePin, At, Registers
  <2>2. /\ th' \in [Threads -> Thread] /\ th'[t].arg = th[t].arg
        /\ th'[t].pc = "storeSpeed" /\ \A u \in Threads \ {t} : th'[u] = th[u]
    BY <1>6, <2>1, GotoWithType DEF DrivePin
  <2>3. Registers'
    BY <2>1, <2>2 DEF Registers
  <2>4. Percent(th[t].arg) \in Duty
    BY <2>1, PercentType
  <2> QED
    BY <1>6, <2>1, <2>2, <2>3, <2>4 DEF DrivePin
<1>7. ASSUME NEW t \in Threads, StoreSpeed(t) PROVE TypeInv'
  <2>1. "display" \in Labels /\ th[t].arg \in Speed
    BY <1>7 DEF Labels, DisplayCalls, StoreSpeed, At, Registers
  <2>2. /\ th' \in [Threads -> Thread] /\ th'[t].pc = "display"
        /\ \A u \in Threads \ {t} : th'[u] = th[u]
    BY <1>7, <2>1, GotoWithType DEF StoreSpeed
  <2>3. Registers'
    BY <2>2 DEF Registers
  <2>4. unannounced' \in BOOLEAN
    BY <1>7, Zenon DEF StoreSpeed, NewSpeed
  <2> QED
    BY <1>7, <2>1, <2>2, <2>3, <2>4 DEF StoreSpeed, NewSpeed
<1>8. ASSUME NEW t \in Threads, DisplayDone(t) PROVE TypeInv'
  BY <1>8 DEF DisplayDone, NotifyMotionChange, At, Goto, Return, Idle, Registers, Labels,
              Jobs, DisplayCalls, NotifyCalls
<1>9. ASSUME NEW t \in Threads, CheckDirection(t) PROVE TypeInv'
  BY <1>9 DEF CheckDirection, At, Goto, GotoWith, Return, Idle, Registers, Labels, Jobs
<1>10. ASSUME NEW t \in Threads, Brake(t) PROVE TypeInv'
  BY <1>10, SpeedAssumption DEF Brake, At, Registers, Labels, Jobs, Speed
<1>11. ASSUME NEW t \in Threads, SetDirection(t) PROVE TypeInv'
  BY <1>11 DEF SetDirection, DriverDirection, At, Goto, Registers, Labels, DisplayCalls
<1>12. ASSUME NEW t \in Threads, DirectionDisplayDone(t) PROVE TypeInv'
  BY <1>12 DEF DirectionDisplayDone, At, Goto, Registers, Labels
<1>13. ASSUME NEW t \in Threads, StoreDirection(t) PROVE TypeInv'
  BY <1>13 DEF StoreDirection, At, Return, Idle, Registers, Labels, Jobs
<1>14. ASSUME NEW t \in Threads, OrderAcceleration(t) PROVE TypeInv'
  <2>1. "checkTimer" \in Labels /\ th[t].arg \in Int
    BY DEF Labels
  <2>2. /\ th' \in [Threads -> Thread] /\ th'[t].pc = "checkTimer"
        /\ \A u \in Threads \ {t} : th'[u] = th[u]
    BY <1>14, <2>1, GotoWithType DEF OrderAcceleration
  <2>3. Registers'
    BY <2>2 DEF Registers
  <2> QED
    BY <1>14, <2>1, <2>2, <2>3 DEF OrderAcceleration
<1>15. ASSUME NEW t \in Threads, CheckTimer(t) PROVE TypeInv'
  BY <1>15 DEF CheckTimer, RemainingIsZero, FinalNotifyMotionChange, At, Goto, Return, Idle,
               Registers, Labels, Jobs, DisplayCalls, NotifyCalls
<1>16. ASSUME NEW t \in Threads, Apply(t) PROVE TypeInv'
  <2> DEFINE step == RampStep(speed_value, accel_order)
  <2>1. "applyWrite" \in Labels /\ step.speed \in Speed /\ step.done \in {0, 1}
    BY RampStepType DEF Labels
  <2> HIDE DEF step
  <2>2. step.speed \in Int /\ step.done \in {0, 1, 2}
    BY <2>1 DEF Speed
  <2>3. GotoWith(t, "applyWrite", step.speed, step.done)
    BY <1>16 DEF Apply, step
  <2>4. /\ th' \in [Threads -> Thread] /\ th'[t].arg = step.speed
        /\ th'[t].pc = "applyWrite" /\ \A u \in Threads \ {t} : th'[u] = th[u]
    BY <2>1, <2>2, <2>3, GotoWithType
  <2>5. Registers'
    BY <2>1, <2>4 DEF Registers
  <2> QED
    BY <1>16, <2>4, <2>5 DEF Apply
<1>17. ASSUME NEW t \in Threads, ApplyWrite(t) PROVE TypeInv'
  <2>1. th[t].arg \in Speed /\ "setSpeed" \in Labels
    BY <1>17 DEF ApplyWrite, At, Registers, Labels
  <2>2. PICK v \in Written(t) : NewSpeed(v) /\ GotoWith(t, "setSpeed", v, 0)
    BY <1>17 DEF ApplyWrite
  <2>3. v \in Speed
    <3>1. speed_value \in Speed /\ accel_order \in Int
      OBVIOUS
    <3>2. (speed_value + accel_order) % (SpeedSteps + 1) \in Speed
      BY <3>1, SumType
    <3>3. v = th[t].arg \/ v = (speed_value + accel_order) % (SpeedSteps + 1)
      BY <2>2 DEF Written
    <3> QED
      BY <2>1, <3>2, <3>3
  <2>4. /\ th' \in [Threads -> Thread] /\ th'[t].arg = v
        /\ th'[t].pc = "setSpeed" /\ \A u \in Threads \ {t} : th'[u] = th[u]
    BY <2>1, <2>2, <2>3, GotoWithType DEF Speed
  <2>5. Registers'
    BY <2>3, <2>4 DEF Registers
  <2>6. unannounced' \in BOOLEAN
    BY <2>2, Zenon DEF NewSpeed
  <2> QED
    BY <1>17, <2>2, <2>3, <2>4, <2>5, <2>6 DEF ApplyWrite, NewSpeed
<1>18. ASSUME NEW t \in Threads, Notify(t) PROVE TypeInv'
  <2>1. "notifyDisplay" \in Labels /\ "finalDisplay" \in Labels
    BY DEF Labels, DisplayCalls
  <2>2. Goto(t, "notifyDisplay") \/ Goto(t, "finalDisplay")
    BY <1>18 DEF Notify
  <2>3. /\ th' \in [Threads -> Thread] /\ th'[t].pc \in {"notifyDisplay", "finalDisplay"}
        /\ \A u \in Threads \ {t} : th'[u] = th[u]
    BY <2>1, <2>2, GotoType
  <2>4. Registers'
    BY <2>3 DEF Registers
  <2> QED
    BY <1>18, <2>3, <2>4 DEF Notify
<1>19. ASSUME NEW t \in Threads, NotifyDisplayDone(t) PROVE TypeInv'
  BY <1>19 DEF NotifyDisplayDone, At, Goto, Return, Idle, Registers, Labels, Jobs
<1>20. ASSUME NEW t \in Threads, StartTimer(t) PROVE TypeInv'
  BY <1>20 DEF StartTimer, FinalNotifyMotionChange, At, Goto, Return, Idle, Registers,
               Labels, Jobs, DisplayCalls, NotifyCalls
<1>21. CASE re_apply_acceleration
  BY <1>21 DEF re_apply_acceleration, Registers
<1>22. CASE TickBegin
  <2>1. "wq" \in Threads /\ "tick" \in Jobs /\ "apply" \in Labels
    BY DEF Threads, Jobs, Labels
  <2>0. Begin("wq", "tick", "apply", 0) /\ 0 \in Int /\ th \in [Threads -> Thread]
    BY <1>22 DEF TickBegin
  <2>2. /\ th' \in [Threads -> Thread] /\ th'["wq"].pc = "apply"
        /\ \A u \in Threads \ {"wq"} : th'[u] = th[u]
    <3> HIDE DEF TypeInv, TypeOK, Thread
    <3>1. th'["wq"] = [pc |-> "apply", job |-> "tick", arg |-> 0, tmp |-> 0]
      BY <2>0, <2>1, BeginType
    <3> QED
      BY <2>0, <2>1, <3>1, BeginType
  <2>3. Registers'
    BY <2>2 DEF Registers
  <2> QED
    BY <1>22, <2>2, <2>3 DEF TickBegin
<1>23. CASE TickEnd
  <2>1. /\ th' \in [Threads -> Thread] /\ th'["wq"].pc = "idle"
        /\ \A u \in Threads \ {"wq"} : th'[u] = th[u]
    BY <1>23, ReturnType DEF TickEnd, Threads
  <2>2. Registers'
    BY <2>1 DEF Registers
  <2>3. my_timer' \in BOOLEAN
    BY <1>23, Zenon DEF TickEnd
  <2> QED
    BY <1>23, <2>1, <2>2, <2>3 DEF TickEnd
<1>24. CASE UNCHANGED vars
  BY <1>24 DEF vars, Registers
<1>25. CASE Request
  <2>1. ASSUME NEW v \in Speed, speed_request(v) \/ write_speed(v) PROVE TypeInv'
    BY <1>1, <2>1 DEF speed_request, write_speed, Jobs, Labels, Controllers, Speed
  <2>2. ASSUME NEW a \in Orders, acceleration_request(a) \/ write_accelation(a)
        PROVE  TypeInv'
    <3>1. /\ a \in Int /\ "accel" \in Jobs /\ "gattAccel" \in Jobs /\ "ot" \in Controllers /\ "bt" \in Controllers
      BY InputAssumption DEF Jobs, Controllers
    <3>2. \/ Command("ot", "accel", "orderAccel", a)
          \/ Command("bt", "gattAccel", "orderAccel", a)
      BY <2>2 DEF acceleration_request, write_accelation
    <3> HIDE DEF TypeInv, TypeOK, Thread
    <3>3. CASE Command("ot", "accel", "orderAccel", a)
      BY <1>1, <3>1, <3>3
    <3>4. CASE Command("bt", "gattAccel", "orderAccel", a)
      BY <1>1, <3>1, <3>4
    <3> QED
      BY <3>2, <3>3, <3>4
  <2>3. ASSUME NEW p \in Patterns, direction_request(p) \/ write_direction(p)
        PROVE  TypeInv'
    BY <1>1, <2>3, InputAssumption
       DEF direction_request, write_direction, Jobs, Labels, Controllers
  <2> QED
    BY <1>25, <1>2, <1>3, <1>4, <2>1, <2>2, <2>3 DEF Request
<1> QED
  BY <1>5, <1>6, <1>7, <1>8, <1>9, <1>10, <1>11, <1>12, <1>13, <1>14, <1>15, <1>16, <1>17,
     <1>18, <1>19, <1>20, <1>21, <1>22, <1>23, <1>24, <1>25 DEF Next, Step

\* Type correctness: the speed never leaves 0 .. SPEED_STEPS and the driver never
\* sees a duty beyond 100 %, for either priority of the OpenThread thread.
THEOREM TypeCorrect == Spec => []TypeOK
<1>1. TypeInv => TypeOK
  BY DEF TypeInv
<1> QED
  BY TypeInit, TypeStep, <1>1, PTL DEF Spec

-----------------------------------------------------------------------------
(* The ramp.  RampArmed is not inductive by itself: the order is stored by  *)
(* a thread that must still be on its way to check the timer, and the work  *)
(* queue never is.                                                          *)

WorkLabels == {"idle", "apply", "applyWrite", "setSpeed", "drivePin", "storeSpeed", "display",
               "notify", "notifyDisplay", "tickEnd"}

RampInv ==
    /\ TypeInv
    /\ th["wq"].pc \in WorkLabels
    /\ \A t \in Threads : th[t].pc = "orderAccel" => th[t].job \in {"accel", "gattAccel"}
    /\ RampArmed

\* Every step keeps a pending acceleration with something that will serve it.
LEMMA RampStepInv == RampInv /\ [Next]_vars => RampInv'
<1> SUFFICES ASSUME RampInv, [Next]_vars PROVE RampInv'
  OBVIOUS
<1> USE DEF RampInv, WorkLabels, RampArmed, StartingRamp, Threads, Controllers
<1>0. TypeInv' /\ th \in [Threads -> Thread]
  BY TypeStep DEF TypeInv, TypeOK, Thread
<1>1. ASSUME NEW t \in Controllers, NEW job, NEW label, NEW v, Begin(t, job, label, v),
             UNCHANGED <<motion, my_timer>>,
             label = "orderAccel" => job \in {"accel", "gattAccel"}
      PROVE  RampInv'
  BY <1>0, <1>1 DEF Begin, At, motion, Thread
<1>2. ASSUME NEW enable \in BOOLEAN, speed_ccc_cfg_changed(enable) PROVE RampInv'
  BY <1>0, <1>2 DEF speed_ccc_cfg_changed, motion
<1>3. ASSUME Request PROVE RampInv'
  BY <1>1, <1>2, <1>3 DEF Request, speed_request, write_speed, acceleration_request,
     write_accelation, direction_request, write_direction, write_pwm, stop_request, Command,
     motion
<1>5. ASSUME NEW t \in Threads, SilencePin(t) PROVE RampInv'
  BY <1>0, <1>5 DEF SilencePin, At, GotoWith, motion, Thread
<1>6. ASSUME NEW t \in Threads, DrivePin(t) PROVE RampInv'
  BY <1>0, <1>6 DEF DrivePin, At, GotoWith, motion, Thread
<1>7. ASSUME NEW t \in Threads, StoreSpeed(t) PROVE RampInv'
  BY <1>0, <1>7 DEF StoreSpeed, NewSpeed, At, GotoWith, motion, Thread
<1>8. ASSUME NEW t \in Threads, DisplayDone(t) PROVE RampInv'
  BY <1>0, <1>8 DEF DisplayDone, NotifyMotionChange, At, Goto, Return, Idle, motion, Thread
<1>9. ASSUME NEW t \in Threads, CheckDirection(t) PROVE RampInv'
  BY <1>0, <1>9 DEF CheckDirection, At, Goto, GotoWith, Return, Idle, motion, Thread
<1>10. ASSUME NEW t \in Threads, Brake(t) PROVE RampInv'
  BY <1>0, <1>10 DEF Brake, At, motion, Thread
<1>11. ASSUME NEW t \in Threads, SetDirection(t) PROVE RampInv'
  BY <1>0, <1>11 DEF SetDirection, At, Goto, motion, Thread
<1>12. ASSUME NEW t \in Threads, DirectionDisplayDone(t) PROVE RampInv'
  BY <1>0, <1>12 DEF DirectionDisplayDone, At, Goto, motion, Thread
<1>13. ASSUME NEW t \in Threads, StoreDirection(t) PROVE RampInv'
  BY <1>0, <1>13 DEF StoreDirection, At, Return, Idle, motion, Thread
<1>14. ASSUME NEW t \in Threads, OrderAcceleration(t) PROVE RampInv'
  BY <1>0, <1>14 DEF OrderAcceleration, At, GotoWith, Thread
<1>15. ASSUME NEW t \in Threads, CheckTimer(t) PROVE RampInv'
  <2>1. \/ Goto(t, "apply")
        \/ my_timer /\ (Return(t) \/ FinalNotifyMotionChange(t))
    BY <1>15, Zenon DEF CheckTimer, RemainingIsZero
  <2>2. CASE Goto(t, "apply")
    BY <1>0, <1>15, <2>2 DEF CheckTimer, At, Goto, motion, Thread
  <2>3. CASE my_timer /\ (Return(t) \/ FinalNotifyMotionChange(t))
    BY <1>0, <1>15, <2>3 DEF CheckTimer, FinalNotifyMotionChange, At, Goto, Return, Idle, motion,
                             Thread
  <2> QED
    BY <2>1, <2>2, <2>3
<1>16. ASSUME NEW t \in Threads, Apply(t) PROVE RampInv'
  BY <1>0, <1>16 DEF Apply, At, GotoWith, motion, Thread
<1>17. ASSUME NEW t \in Threads, ApplyWrite(t) PROVE RampInv'
  BY <1>0, <1>17 DEF ApplyWrite, NewSpeed, At, GotoWith, Thread
<1>18. ASSUME NEW t \in Threads, Notify(t) PROVE RampInv'
  BY <1>0, <1>18 DEF Notify, At, Goto, motion, Thread
<1>19. ASSUME NEW t \in Threads, NotifyDisplayDone(t) PROVE RampInv'
  BY <1>0, <1>19 DEF NotifyDisplayDone, At, Goto, Return, Idle, motion, Thread
<1>20. ASSUME NEW t \in Threads, StartTimer(t) PROVE RampInv'
  BY <1>0, <1>20 DEF StartTimer, FinalNotifyMotionChange, At, Goto, Return, Idle, motion, Thread
<1>21. CASE re_apply_acceleration
  BY <1>0, <1>21 DEF re_apply_acceleration, motion
<1>22. CASE TickBegin
  BY <1>0, <1>22 DEF TickBegin, Begin, At, motion, Thread
<1>23. CASE TickEnd
  BY <1>0, <1>23 DEF TickEnd, At, Return, Idle, motion, Thread
<1>24. CASE UNCHANGED vars
  BY <1>0, <1>24 DEF vars, motion
<1> QED
  BY <1>3, <1>5, <1>6, <1>7, <1>8, <1>9, <1>10, <1>11, <1>12, <1>13, <1>14, <1>15, <1>16,
     <1>17, <1>18, <1>19, <1>20, <1>21, <1>22, <1>23, <1>24 DEF Next, Step

\* An acceleration order in force is never left without a running timer or a
\* handler about to start it, for either priority of the OpenThread thread: the
\* check of k_timer_remaining_get loses no race against the k_timer_stop.
THEOREM RampAlwaysArmed == Spec => []RampArmed
<1>1. Init => RampInv
  BY TypeInit DEF Init, RampInv, Idle, Threads, WorkLabels, RampArmed
<1>2. RampInv => RampArmed
  BY DEF RampInv
<1> QED
  BY <1>1, RampStepInv, <1>2, PTL DEF Spec

-----------------------------------------------------------------------------
(* The announcements.  A step that is not announced yet belongs to a client *)
(* who is still subscribed, and whoever takes a ramp step serves an order   *)
(* or a tick and so passes by the notification.                             *)

RampJobs == {"accel", "gattAccel", "tick"}

AnnounceInv ==
    /\ unannounced => speed_notify_enabled
    /\ \A t \in Threads : th[t].pc \in {"orderAccel", "checkTimer", "apply", "applyWrite"}
                              => th[t].job \in RampJobs
    /\ RampAnnounced

\* Every step keeps an unannounced change with a thread on its way to announce it.
LEMMA AnnounceStep == TypeInv /\ AnnounceInv /\ [Next]_vars => AnnounceInv'
<1> SUFFICES ASSUME TypeInv, AnnounceInv, [Next]_vars PROVE AnnounceInv'
  OBVIOUS
<1> USE DEF AnnounceInv, RampJobs, RampAnnounced, BeforeNotify, history
<1>0. th \in [Threads -> Thread]
  BY DEF TypeInv, TypeOK, Thread
<1>1. ASSUME NEW t \in Threads, NEW job, NEW label, NEW v, Begin(t, job, label, v),
             UNCHANGED <<unannounced, speed_notify_enabled>>,
             label \in {"orderAccel", "apply"} => job \in RampJobs,
             label \notin {"checkTimer", "applyWrite"}
      PROVE  AnnounceInv'
  BY <1>0, <1>1 DEF Begin, At, Thread
<1>2. ASSUME NEW enable \in BOOLEAN, speed_ccc_cfg_changed(enable) PROVE AnnounceInv'
  BY <1>2 DEF speed_ccc_cfg_changed
<1>3. ASSUME Request PROVE AnnounceInv'
  BY <1>1, <1>2, <1>3 DEF Request, speed_request, write_speed, acceleration_request,
     write_accelation, direction_request, write_direction, write_pwm, stop_request, Command,
     Threads, Controllers
<1>4. ASSUME NEW t \in Threads, SilencePin(t) PROVE AnnounceInv'
  BY <1>0, <1>4 DEF SilencePin, At, GotoWith, Thread
<1>5. ASSUME NEW t \in Threads, DrivePin(t) PROVE AnnounceInv'
  BY <1>0, <1>5 DEF DrivePin, At, GotoWith, Thread
<1>6. ASSUME NEW t \in Threads, StoreSpeed(t) PROVE AnnounceInv'
  BY <1>0, <1>6 DEF StoreSpeed, At, GotoWith, Thread
<1>7. ASSUME NEW t \in Threads, DisplayDone(t) PROVE AnnounceInv'
  BY <1>0, <1>7 DEF DisplayDone, NotifyMotionChange, At, Goto, Return, Idle, Thread
<1>8. ASSUME NEW t \in Threads, CheckDirection(t) PROVE AnnounceInv'
  BY <1>0, <1>8 DEF CheckDirection, At, Goto, GotoWith, Return, Idle, Thread
<1>9. ASSUME NEW t \in Threads, Brake(t) PROVE AnnounceInv'
  BY <1>0, <1>9 DEF Brake, At, Thread
<1>10. ASSUME NEW t \in Threads, SetDirection(t) PROVE AnnounceInv'
  BY <1>0, <1>10 DEF SetDirection, At, Goto, Thread
<1>11. ASSUME NEW t \in Threads, DirectionDisplayDone(t) PROVE AnnounceInv'
  BY <1>0, <1>11 DEF DirectionDisplayDone, At, Goto, Thread
<1>12. ASSUME NEW t \in Threads, StoreDirection(t) PROVE AnnounceInv'
  BY <1>0, <1>12 DEF StoreDirection, At, Return, Idle, Thread
<1>13. ASSUME NEW t \in Threads, OrderAcceleration(t) PROVE AnnounceInv'
  BY <1>0, <1>13 DEF OrderAcceleration, At, GotoWith, Thread
<1>14. ASSUME NEW t \in Threads, Apply(t) PROVE AnnounceInv'
  BY <1>0, <1>14 DEF Apply, At, GotoWith, Thread
<1>15. ASSUME NEW t \in Threads, Notify(t) PROVE AnnounceInv'
  BY <1>0, <1>15 DEF Notify, At, Goto, Thread
<1>16. ASSUME NEW t \in Threads, NotifyDisplayDone(t) PROVE AnnounceInv'
  BY <1>0, <1>16 DEF NotifyDisplayDone, At, Goto, Return, Idle, Thread
<1>17. ASSUME NEW t \in Threads, StartTimer(t) PROVE AnnounceInv'
  BY <1>0, <1>17 DEF StartTimer, FinalNotifyMotionChange, At, Goto, Return, Idle, Thread
<1>18. ASSUME NEW t \in Threads, CheckTimer(t) PROVE AnnounceInv'
  <2>1. Goto(t, "apply") \/ Return(t) \/ FinalNotifyMotionChange(t)
    BY <1>18, Zenon DEF CheckTimer
  <2> QED
    BY <1>0, <1>18, <2>1 DEF CheckTimer, FinalNotifyMotionChange, At, Goto, Return, Idle, Thread
<1>19. ASSUME NEW t \in Threads, ApplyWrite(t) PROVE AnnounceInv'
  <2>1. /\ th'[t].pc = "setSpeed" /\ th'[t].job \in RampJobs
        /\ \A u \in Threads \ {t} : th'[u] = th[u]
    BY <1>0, <1>19 DEF ApplyWrite, At, GotoWith, Thread
  <2>2. unannounced' => speed_notify_enabled'
    BY <1>19 DEF ApplyWrite, NewSpeed
  <2> QED
    BY <2>1, <2>2
<1>20. CASE TickBegin
  BY <1>1, <1>20 DEF TickBegin, Threads
<1>21. CASE TickEnd
  BY <1>0, <1>21 DEF TickEnd, At, Return, Idle, Thread, Threads
<1>22. CASE re_apply_acceleration \/ UNCHANGED vars
  BY <1>22 DEF re_apply_acceleration, vars
<1> QED
  BY <1>3, <1>4, <1>5, <1>6, <1>7, <1>8, <1>9, <1>10, <1>11, <1>12, <1>13, <1>14, <1>15,
     <1>16, <1>17, <1>18, <1>19, <1>20, <1>21, <1>22 DEF Next, Step

\* For any priorities: a ramp step that changes the speed a client subscribed to
\* is on its way to bt_notify_speed, whatever else happens (main_loki.c:67-68).
THEOREM RampIsAnnounced == Spec => []RampAnnounced
<1>1. Init => AnnounceInv
  BY DEF Init, AnnounceInv, RampAnnounced, Idle
<1>2. AnnounceInv => RampAnnounced
  BY DEF AnnounceInv
<1> QED
  BY TypeInit, TypeStep, <1>1, AnnounceStep, <1>2, PTL DEF Spec

-----------------------------------------------------------------------------
(* The bridge, with cooperative threads.  What a thread knows between two   *)
(* steps stays true until its next step, for no other thread runs there.    *)

PinsFollowDirection == (data_direction # 1 => in1 = 0) /\ (data_direction # 2 => in2 = 0)

Knows(t) ==
    /\ th[t].pc = "drivePin" => th[t].tmp = data_direction
    /\ th[t].pc = "storeSpeed" =>
          /\ in1 = IF data_direction = 1 THEN Percent(th[t].arg) ELSE 0
          /\ in2 = IF data_direction = 2 THEN Percent(th[t].arg) ELSE 0
    /\ th[t].pc = "setDir" => speed_value = 0
    /\ th[t].pc = "applyWrite" =>
          [speed |-> th[t].arg, done |-> th[t].tmp] = RampStep(speed_value, accel_order)

BridgeInv ==
    /\ TypeInv
    /\ PinsFollowDirection
    /\ MotorFollowsSpeed
    /\ \A t \in Threads : Knows(t)

\* No other cooperative thread stands between two steps that t runs in one go.
LEMMA OthersYield ==
    ASSUME Preemptive = {}, NEW t \in Threads, CanRun(t)
    PROVE  \A u \in Threads \ {t} : th[u].pc \notin {"setSpeed", "drivePin", "storeSpeed",
                                                    "setDir", "applyWrite"}
  BY DEF CanRun, YieldPoints, DisplayCalls, NotifyCalls

\* While the speed is in range, the sum formed as a uint8_t is the sum.
LEMMA WrittenIsStep ==
    ASSUME TypeInv, NEW t \in Threads, th[t].pc = "applyWrite", Knows(t), NEW v \in Written(t)
    PROVE  v = RampStep(speed_value, accel_order).speed
<1>1. speed_value \in Speed /\ accel_order \in Int /\ SpeedSteps \in Nat
  BY SpeedAssumption DEF TypeInv, TypeOK
<1>2. [speed |-> th[t].arg, done |-> th[t].tmp] = RampStep(speed_value, accel_order)
  BY DEF Knows
<1>3. th[t].arg = RampStep(speed_value, accel_order).speed
      /\ th[t].tmp = RampStep(speed_value, accel_order).done
  BY <1>2
<1>4. CASE v = th[t].arg
  BY <1>3, <1>4
<1>5. CASE th[t].tmp # 1 /\ v = (speed_value + accel_order) % (SpeedSteps + 1)
  <2>1. /\ ~(accel_order < 0 /\ -accel_order >= speed_value)
        /\ ~(speed_value + accel_order > SpeedSteps)
        /\ RampStep(speed_value, accel_order).speed = speed_value + accel_order
    BY <1>1, <1>3, <1>5 DEF RampStep
  <2>2. speed_value + accel_order \in 0 .. SpeedSteps
    BY <1>1, <2>1 DEF Speed
  <2>3. (speed_value + accel_order) % (SpeedSteps + 1) = speed_value + accel_order
    BY <1>1, <2>2
  <2> QED
    BY <1>5, <2>1, <2>3
<1> QED
  BY <1>4, <1>5 DEF Written

\* Every step of cooperative threads keeps the bridge in line with the state.
LEMMA BridgeStepInv ==
    ASSUME Preemptive = {}
    PROVE  BridgeInv /\ [Next]_vars => BridgeInv'
<1> SUFFICES ASSUME BridgeInv, [Next]_vars PROVE BridgeInv'
  OBVIOUS
<1> USE DEF BridgeInv, PinsFollowDirection, MotorFollowsSpeed, UpdatingSpeed, Updating
<1>0. /\ TypeInv' /\ th \in [Threads -> Thread] /\ data_direction \in {0, 1, 2}
      /\ speed_value \in Nat
  BY TypeStep, SpeedAssumption DEF TypeInv, TypeOK, Thread, Speed
\* A step that leaves the bridge, the speed and the order alone, to a label
\* about which a thread knows nothing.
<1>1. ASSUME NEW t \in Threads, CanRun(t), UNCHANGED <<motion, driver>>,
             \A u \in Threads \ {t} : th'[u] = th[u],
             th'[t].pc \notin {"drivePin", "storeSpeed", "setDir", "applyWrite"},
             th[t].pc \notin {"setSpeed", "drivePin", "storeSpeed"}
      PROVE  BridgeInv'
  BY <1>0, <1>1, OthersYield DEF Knows, motion, driver
<1>2. ASSUME NEW t \in Controllers, NEW job, NEW label, NEW v, Begin(t, job, label, v),
             UNCHANGED <<motion, driver>>, label \in {"setSpeed", "orderAccel", "checkDir"}
      PROVE  BridgeInv'
  BY <1>0, <1>1, <1>2 DEF Begin, At, Thread, Threads
<1>3. ASSUME NEW enable \in BOOLEAN, speed_ccc_cfg_changed(enable) PROVE BridgeInv'
  BY <1>0, <1>3 DEF speed_ccc_cfg_changed, motion, driver, Knows
<1>4. ASSUME Request PROVE BridgeInv'
  BY <1>2, <1>3, <1>4 DEF Request, speed_request, write_speed, acceleration_request,
     write_accelation, direction_request, write_direction, write_pwm, stop_request, Command,
     Controllers
<1>5. ASSUME NEW t \in Threads, SilencePin(t) PROVE BridgeInv'
  BY <1>0, <1>5, OthersYield DEF SilencePin, At, GotoWith, Knows, motion, Thread
<1>6. ASSUME NEW t \in Threads, DrivePin(t) PROVE BridgeInv'
  BY <1>0, <1>6, OthersYield DEF DrivePin, At, GotoWith, Knows, motion, Thread
<1>7. ASSUME NEW t \in Threads, StoreSpeed(t) PROVE BridgeInv'
  BY <1>0, <1>7, OthersYield DEF StoreSpeed, NewSpeed, At, GotoWith, Knows, driver, Thread
<1>8. ASSUME NEW t \in Threads, DisplayDone(t) PROVE BridgeInv'
  BY <1>0, <1>1, <1>8 DEF DisplayDone, NotifyMotionChange, At, Goto, Return, Idle, Thread
<1>9. ASSUME NEW t \in Threads, CheckDirection(t) PROVE BridgeInv'
  BY <1>0, <1>9, OthersYield
     DEF CheckDirection, At, Goto, GotoWith, Return, Idle, motion, driver, Thread, Knows
<1>10. ASSUME NEW t \in Threads, Brake(t) PROVE BridgeInv'
  BY <1>0, <1>1, <1>10 DEF Brake, At, Thread
<1>11. ASSUME NEW t \in Threads, SetDirection(t) PROVE BridgeInv'
  BY <1>0, <1>11, OthersYield, PercentZero
     DEF SetDirection, At, Goto, motion, Thread, Knows
<1>12. ASSUME NEW t \in Threads, DirectionDisplayDone(t) PROVE BridgeInv'
  BY <1>0, <1>1, <1>12 DEF DirectionDisplayDone, At, Goto, Thread
<1>13. ASSUME NEW t \in Threads, StoreDirection(t) PROVE BridgeInv'
  BY <1>0, <1>1, <1>13 DEF StoreDirection, At, Return, Idle, Thread
<1>14. ASSUME NEW t \in Threads, OrderAcceleration(t) PROVE BridgeInv'
  BY <1>0, <1>14, OthersYield DEF OrderAcceleration, At, GotoWith, Knows, driver, Thread
<1>15. ASSUME NEW t \in Threads, CheckTimer(t) PROVE BridgeInv'
  BY <1>0, <1>1, <1>15 DEF CheckTimer, FinalNotifyMotionChange, At, Goto, Return, Idle, Thread
<1>16. ASSUME NEW t \in Threads, Apply(t) PROVE BridgeInv'
  BY <1>0, <1>16, OthersYield DEF Apply, At, GotoWith, Knows, motion, driver, Thread, RampStep
<1>17. ASSUME NEW t \in Threads, ApplyWrite(t) PROVE BridgeInv'
  BY <1>0, <1>17, OthersYield DEF ApplyWrite, NewSpeed, At, GotoWith, Knows, driver, Thread
<1>18. ASSUME NEW t \in Threads, Notify(t) PROVE BridgeInv'
  BY <1>0, <1>1, <1>18 DEF Notify, At, Goto, Thread
<1>19. ASSUME NEW t \in Threads, NotifyDisplayDone(t) PROVE BridgeInv'
  BY <1>0, <1>1, <1>19 DEF NotifyDisplayDone, At, Goto, Return, Idle, Thread
<1>20. ASSUME NEW t \in Threads, StartTimer(t) PROVE BridgeInv'
  BY <1>0, <1>1, <1>20 DEF StartTimer, FinalNotifyMotionChange, At, Goto, Return, Idle, Thread
<1>21. CASE re_apply_acceleration
  BY <1>0, <1>21 DEF re_apply_acceleration, motion, driver, Knows
<1>22. CASE TickBegin
  BY <1>0, <1>1, <1>22 DEF TickBegin, Begin, At, Thread, Threads
<1>23. CASE TickEnd
  BY <1>0, <1>1, <1>23 DEF TickEnd, At, Return, Idle, Thread, Threads
<1>24. CASE UNCHANGED vars
  BY <1>0, <1>24 DEF vars, motion, driver, Knows
<1> QED
  BY <1>4, <1>5, <1>6, <1>7, <1>8, <1>9, <1>10, <1>11, <1>12, <1>13, <1>14, <1>15, <1>16,
     <1>17, <1>18, <1>19, <1>20, <1>21, <1>22, <1>23, <1>24 DEF Next, Step

\* At boot the pins are forward and the motor is off, as direction and speed say.
LEMMA BridgeInit == Init => BridgeInv
  BY TypeInit, PercentZero
     DEF Init, Idle, BridgeInv, PinsFollowDirection, MotorFollowsSpeed, Knows, Threads

\* With cooperative threads the bridge is never driven from both sides.
THEOREM PinsNeverBoth ==
    ASSUME Preemptive = {}
    PROVE  Spec => []PinsExclusive
<1>1. BridgeInv => PinsExclusive
  BY DEF BridgeInv, PinsFollowDirection, PinsExclusive
<1> QED
  BY BridgeInit, BridgeStepInv, <1>1, PTL DEF Spec

\* ... and delivers the duty of speed_value whenever no speed update is under way.
THEOREM MotorObeys ==
    ASSUME Preemptive = {}
    PROVE  Spec => []MotorFollowsSpeed
<1>1. BridgeInv => MotorFollowsSpeed
  BY DEF BridgeInv
<1> QED
  BY BridgeInit, BridgeStepInv, <1>1, PTL DEF Spec

\* With cooperative threads the bridge is reversed only while it delivers nothing.
THEOREM ReversalIsSafe ==
    ASSUME Preemptive = {}
    PROVE  Spec => ReversesAtStandstill
<1>1. ASSUME BridgeInv, [Next]_vars, data_direction' # data_direction
      PROVE  in1 = 0 /\ in2 = 0
  <2>1. PICK t \in Threads : SetDirection(t)
    BY <1>1 DEF Next, Request, speed_request, write_speed, acceleration_request,
       write_accelation, direction_request, write_direction, write_pwm, stop_request, Command,
       speed_ccc_cfg_changed, Step, SilencePin, DrivePin, StoreSpeed, DisplayDone,
       CheckDirection, Brake, DirectionDisplayDone, StoreDirection, OrderAcceleration,
       CheckTimer, Apply, ApplyWrite, Notify, NotifyDisplayDone, StartTimer,
       re_apply_acceleration, TickBegin, TickEnd, driver, vars
  <2>2. ~UpdatingSpeed /\ speed_value = 0
    BY <1>1, <2>1, OthersYield DEF SetDirection, At, UpdatingSpeed, Updating, BridgeInv, Knows
  <2> QED
    BY <1>1, <2>2, PercentZero DEF BridgeInv, MotorFollowsSpeed
<1>2. BridgeInv /\ [Next]_vars => [data_direction' # data_direction => in1 = 0 /\ in2 = 0]_vars
  BY <1>1
<1> QED
  BY BridgeInit, BridgeStepInv, <1>2, PTL DEF Spec, ReversesAtStandstill

\* With cooperative threads every ramp step moves the speed as its order says or ends
\* the order, and an order ends only at its end of the range: none wraps the uint8_t.
THEOREM RampNeverWraps ==
    ASSUME Preemptive = {}
    PROVE  Spec => RampAdvances
<1> DEFINE Advances ==
      \A t \in Threads :
          th[t].pc = "applyWrite" /\ th'[t].pc = "setSpeed" =>
              /\ accel_order > 0 => speed_value' > speed_value \/ accel_order' = 0
              /\ accel_order < 0 => speed_value' < speed_value \/ accel_order' = 0
              /\ accel_order = 0 => speed_value' = speed_value
              /\ accel_order' # accel_order =>
                    /\ accel_order' = 0
                    /\ speed_value' = IF accel_order > 0 THEN SpeedSteps ELSE 0
<1>1. ASSUME BridgeInv, [Next]_vars, NEW t \in Threads,
             th[t].pc = "applyWrite", th'[t].pc = "setSpeed"
      PROVE  /\ accel_order > 0 => speed_value' > speed_value \/ accel_order' = 0
             /\ accel_order < 0 => speed_value' < speed_value \/ accel_order' = 0
             /\ accel_order = 0 => speed_value' = speed_value
             /\ accel_order' # accel_order =>
                   /\ accel_order' = 0
                   /\ speed_value' = IF accel_order > 0 THEN SpeedSteps ELSE 0
  <2>0. th \in [Threads -> Thread] /\ speed_value \in Speed /\ accel_order \in Int
    BY <1>1 DEF BridgeInv, TypeInv, TypeOK, Thread
  <2>1. ApplyWrite(t)
    <3>1. ASSUME NEW u, NEW job, NEW label, NEW v, Begin(u, job, label, v) PROVE FALSE
      BY <1>1, <2>0, <3>1 DEF Begin, At, Thread
    <3>2. ~Request /\ ~TickBegin /\ ~TickEnd /\ ~re_apply_acceleration /\ ~UNCHANGED vars
      <4>1. ~Request
        BY <1>1, <3>1 DEF Request, speed_request, write_speed, acceleration_request,
           write_accelation, direction_request, write_direction, write_pwm, stop_request,
           Command, speed_ccc_cfg_changed
      <4>2. ~TickBegin
        BY <3>1 DEF TickBegin
      <4>3. ~TickEnd
        <5>1. ASSUME Return("wq") PROVE FALSE
          BY <1>1, <2>0, <5>1 DEF Return, Idle, Thread
        <5> QED
          BY <5>1 DEF TickEnd
      <4>4. ~re_apply_acceleration /\ ~UNCHANGED vars
        BY <1>1 DEF re_apply_acceleration, vars
      <4> QED
        BY <4>1, <4>2, <4>3, <4>4
    <3>3. PICK u \in Threads : Step(u)
      BY <1>1, <3>2 DEF Next
    <3>4. u = t
      BY <1>1, <2>0, <3>3 DEF Step, SilencePin, DrivePin, StoreSpeed, DisplayDone,
         CheckDirection, Brake, SetDirection, DirectionDisplayDone, StoreDirection,
         OrderAcceleration, CheckTimer, Apply, ApplyWrite, Notify, NotifyDisplayDone,
         StartTimer, NotifyMotionChange, FinalNotifyMotionChange, Goto, GotoWith, Return, Thread
    <3> QED
      BY <1>1, <3>3, <3>4 DEF Step, At, SilencePin, DrivePin, StoreSpeed, DisplayDone,
         CheckDirection, Brake, SetDirection, DirectionDisplayDone, StoreDirection,
         OrderAcceleration, CheckTimer, Apply, Notify, NotifyDisplayDone, StartTimer
  <2>2. speed_value' = RampStep(speed_value, accel_order).speed
    BY <1>1, <2>1, WrittenIsStep DEF ApplyWrite, NewSpeed, BridgeInv
  <2>3. /\ RampStep(speed_value, accel_order).done = 1 => accel_order' = 0
        /\ RampStep(speed_value, accel_order).done # 1 => accel_order' = accel_order
    <3>1. th[t].tmp = RampStep(speed_value, accel_order).done
      BY <1>1 DEF BridgeInv, Knows
    <3> QED
      BY <2>1, <3>1 DEF ApplyWrite
  <2> QED
    BY <2>0, <2>2, <2>3, SpeedAssumption DEF RampStep, Speed
<1>2. BridgeInv /\ [Next]_vars => [Advances]_vars
  BY <1>1
<1> QED
  BY BridgeInit, BridgeStepInv, <1>2, PTL DEF Spec, RampAdvances
=============================================================================
