--------------------------- MODULE Traction_proofs ---------------------------
(***************************************************************************)
(* LokiMotion implements Traction for every speed range, every set of      *)
(* orders, patterns and frequencies, with or without a display, as long as *)
(* the threads are cooperative.                                            *)
(***************************************************************************)
EXTENDS LokiMotion_proofs

-----------------------------------------------------------------------------
(* The order in force is well defined because one thread at a time is      *)
(* between taking up a speed and storing it.                               *)

OneUpdates == \A t, u \in Threads : Updating(t) /\ Updating(u) => t = u

TractionInv == BridgeInv /\ OneUpdates

\* While t updates the speed, the order in force is the one t carries out.
LEMMA OrderOfUpdater ==
    ASSUME OneUpdates, NEW t \in Threads, Updating(t)
    PROVE  OrderInForce = th[t].arg
<1>1. (CHOOSE u \in Threads : Updating(u)) = t
  <2>1. \E u \in Threads : Updating(u)
    OBVIOUS
  <2>2. /\ (CHOOSE u \in Threads : Updating(u)) \in Threads
        /\ Updating(CHOOSE u \in Threads : Updating(u))
    BY <2>1
  <2> QED
    BY <2>2 DEF OneUpdates
<1> QED
  BY <1>1 DEF OrderInForce, UpdatingSpeed

\* The same after a step.
LEMMA OrderOfUpdaterNext ==
    ASSUME OneUpdates', NEW t \in Threads, Updating(t)'
    PROVE  OrderInForce' = th'[t].arg
<1> DEFINE c == CHOOSE u \in Threads : th'[u].pc \in {"setSpeed", "drivePin", "storeSpeed"}
<1>1. c = t
  <2>1. c \in Threads /\ th'[c].pc \in {"setSpeed", "drivePin", "storeSpeed"}
    BY Zenon DEF Updating
  <2> QED
    BY <2>1 DEF OneUpdates, Updating
<1>2. OrderInForce' = th'[c].arg
  BY DEF OrderInForce, UpdatingSpeed, Updating
<1> QED
  BY <1>1, <1>2

\* A cooperative thread that runs finds nobody else inside a speed update.
LEMMA AloneAtUpdate ==
    ASSUME Preemptive = {}, NEW t \in Threads, CanRun(t)
    PROVE  \A u \in Threads \ {t} : ~Updating(u)
  BY OthersYield DEF Updating

-----------------------------------------------------------------------------
(* One lemma for each kind of step of the abstract specification.          *)

\* Between updates the bridge delivers the order carried out last.
LEMMA AtRestCarriedOut ==
    ASSUME BridgeInv, ~UpdatingSpeed
    PROVE  OrderInForce = speed_value /\ Bridge!CarriedOut
<1>1. OrderInForce = speed_value
  BY DEF OrderInForce
<1>2. /\ in1 = IF data_direction = 1 THEN Percent(speed_value) ELSE 0
      /\ in2 = IF data_direction = 2 THEN Percent(speed_value) ELSE 0
  BY DEF BridgeInv, MotorFollowsSpeed
<1>3. Percent(speed_value) \in Int /\ data_direction \in {0, 1, 2}
  BY PercentType DEF BridgeInv, TypeInv, TypeOK, Duty
<1>4. CASE data_direction = 1
  BY <1>1, <1>2, <1>3, <1>4 DEF Bridge!CarriedOut, Bridge!OutputOf, Percent
<1>5. CASE data_direction = 2
  BY <1>1, <1>2, <1>3, <1>5 DEF Bridge!CarriedOut, Bridge!OutputOf, Percent
<1>6. CASE data_direction = 0
  BY <1>1, <1>2, <1>3, <1>6 DEF Bridge!CarriedOut, Bridge!OutputOf
<1> QED
  BY <1>1, <1>3, <1>4, <1>5, <1>6

\* A step away from every update is a stutter.
LEMMA QuietStep ==
    ASSUME ~UpdatingSpeed, ~UpdatingSpeed', UNCHANGED <<speed_value, driver>>
    PROVE  UNCHANGED Bridge!tvars
  BY DEF OrderInForce, driver, Bridge!tvars

\* Taking up a speed is an order.
LEMMA TakeUp ==
    ASSUME BridgeInv, ~UpdatingSpeed, OneUpdates', NEW t \in Threads,
           th'[t].pc = "setSpeed", th'[t].arg \in Speed, UNCHANGED driver
    PROVE  Bridge!Next
<1>1. Bridge!CarriedOut
  BY AtRestCarriedOut
<1>2. OrderInForce' = th'[t].arg
  BY OrderOfUpdaterNext DEF Updating
<1>3. Bridge!Order(th'[t].arg)
  BY <1>1, <1>2 DEF Bridge!Order, driver
<1> QED
  BY <1>3 DEF Bridge!Next, Speed

-----------------------------------------------------------------------------
(* The steps of LokiMotion.                                                *)

\* A step of t to a label outside an update, from a label outside an update,
\* that leaves the speed and the driver alone.
LEMMA StepAside ==
    ASSUME Preemptive = {}, TractionInv, NEW t \in Threads, CanRun(t),
           \A u \in Threads \ {t} : th'[u] = th[u],
           th[t].pc \notin {"setSpeed", "drivePin", "storeSpeed"},
           th'[t].pc \notin {"setSpeed", "drivePin", "storeSpeed"},
           UNCHANGED <<speed_value, driver>>
    PROVE  OneUpdates' /\ UNCHANGED Bridge!tvars
<1>1. ~UpdatingSpeed /\ ~UpdatingSpeed'
  BY AloneAtUpdate DEF UpdatingSpeed, Updating
<1>2. OneUpdates'
  BY <1>1 DEF UpdatingSpeed, OneUpdates
<1> QED
  BY <1>1, <1>2, QuietStep

\* A step of t that takes up a speed.
LEMMA StepUp ==
    ASSUME Preemptive = {}, TractionInv, NEW t \in Threads, CanRun(t),
           \A u \in Threads \ {t} : th'[u] = th[u],
           th[t].pc \notin {"setSpeed", "drivePin", "storeSpeed"},
           th'[t].pc = "setSpeed", th'[t].arg \in Speed, UNCHANGED driver
    PROVE  OneUpdates' /\ Bridge!Next
<1>1. ~UpdatingSpeed
  BY AloneAtUpdate DEF UpdatingSpeed, Updating
<1>2. \A u \in Threads \ {t} : ~Updating(u)'
  BY AloneAtUpdate DEF Updating
<1>3. OneUpdates'
  BY <1>2 DEF OneUpdates
<1> QED
  BY <1>1, <1>3, TakeUp DEF TractionInv

\* A step inside an update: nobody else is inside one, before or after.
LEMMA StepInside ==
    ASSUME Preemptive = {}, TractionInv, NEW t \in Threads, CanRun(t), Updating(t),
           \A u \in Threads \ {t} : th'[u] = th[u]
    PROVE  /\ OneUpdates'
           /\ OrderInForce = th[t].arg
           /\ Updating(t)' => OrderInForce' = th'[t].arg
           /\ ~Updating(t)' => OrderInForce' = speed_value'
<1>1. \A u \in Threads \ {t} : ~Updating(u)'
  BY AloneAtUpdate DEF Updating
<1>2. OneUpdates'
  BY <1>1 DEF OneUpdates
<1>3. OrderInForce = th[t].arg
  BY OrderOfUpdater DEF TractionInv
<1>4. Updating(t)' => OrderInForce' = th'[t].arg
  BY <1>2, OrderOfUpdaterNext
<1>5. ~Updating(t)' => OrderInForce' = speed_value'
  BY <1>1 DEF OrderInForce, UpdatingSpeed
<1> QED
  BY <1>2, <1>3, <1>4, <1>5

\* Silencing the other pin changes no output: it carried nothing.
LEMMA SilenceStutters ==
    ASSUME Preemptive = {}, TractionInv, NEW t \in Threads, SilencePin(t)
    PROVE  OneUpdates' /\ UNCHANGED Bridge!tvars
<1>1. /\ th \in [Threads -> Thread] /\ CanRun(t) /\ Updating(t)
      /\ GotoWith(t, "drivePin", th[t].arg, data_direction)
  BY DEF SilencePin, At, Updating, TractionInv, BridgeInv, TypeInv, TypeOK, Thread
<1>2. /\ th'[t].pc = "drivePin" /\ th'[t].arg = th[t].arg
      /\ \A u \in Threads \ {t} : th'[u] = th[u]
  BY <1>1 DEF GotoWith, Thread
<1>3. OneUpdates' /\ OrderInForce' = OrderInForce
  BY <1>1, <1>2, StepInside DEF Updating
<1>4. in1' = in1 /\ in2' = in2 /\ data_direction' = data_direction
  BY DEF SilencePin, TractionInv, BridgeInv, PinsFollowDirection
<1> QED
  BY <1>3, <1>4 DEF Bridge!tvars

\* Driving the pin of the direction delivers the order.
LEMMA DriveDelivers ==
    ASSUME Preemptive = {}, TractionInv, NEW t \in Threads, DrivePin(t)
    PROVE  OneUpdates' /\ Bridge!Next
<1>1. /\ th \in [Threads -> Thread] /\ CanRun(t) /\ Updating(t)
      /\ GotoWith(t, "storeSpeed", th[t].arg, 0)
  BY DEF DrivePin, At, Updating, TractionInv, BridgeInv, TypeInv, TypeOK, Thread
<1>2. /\ th'[t].pc = "storeSpeed" /\ th'[t].arg = th[t].arg
      /\ \A u \in Threads \ {t} : th'[u] = th[u]
  BY <1>1 DEF GotoWith, Thread
<1>3. OneUpdates' /\ OrderInForce' = OrderInForce /\ OrderInForce = th[t].arg
  BY <1>1, <1>2, StepInside DEF Updating
<1>4. /\ th[t].tmp = data_direction /\ data_direction \in {0, 1, 2}
      /\ data_direction # 1 => in1 = 0
      /\ data_direction # 2 => in2 = 0
      /\ th[t].arg \in Speed
  BY DEF DrivePin, At, TractionInv, BridgeInv, PinsFollowDirection, Knows, TypeInv, TypeOK,
         Registers
<1>5. Percent(th[t].arg) \in Int
  BY <1>4, PercentType DEF Duty
<1>6. /\ data_direction = 1 => in1' = Percent(th[t].arg) /\ in2' = 0
      /\ data_direction = 2 => in1' = 0 /\ in2' = Percent(th[t].arg)
      /\ data_direction = 0 => in1' = 0 /\ in2' = 0
  BY <1>4 DEF DrivePin
<1>7. in1' - in2' = Bridge!OutputOf(th[t].arg, data_direction)
  BY <1>4, <1>5, <1>6 DEF Bridge!OutputOf, Percent
<1>8. Bridge!Deliver
  BY <1>3, <1>7 DEF Bridge!Deliver, DrivePin
<1> QED
  BY <1>3, <1>8 DEF Bridge!Next

\* Storing the speed makes it the order carried out last: no change outside.
LEMMA StoreStutters ==
    ASSUME Preemptive = {}, TractionInv, NEW t \in Threads, StoreSpeed(t)
    PROVE  OneUpdates' /\ UNCHANGED Bridge!tvars
<1>1. /\ th \in [Threads -> Thread] /\ CanRun(t) /\ Updating(t)
      /\ GotoWith(t, "display", 0, 0) /\ speed_value' = th[t].arg
  BY DEF StoreSpeed, At, Updating, TractionInv, BridgeInv, TypeInv, TypeOK, Thread
<1>2. th'[t].pc = "display" /\ \A u \in Threads \ {t} : th'[u] = th[u]
  BY <1>1 DEF GotoWith, Thread
<1>3. OneUpdates' /\ OrderInForce' = OrderInForce
  BY <1>1, <1>2, StepInside DEF Updating
<1> QED
  BY <1>3 DEF Bridge!tvars, StoreSpeed, driver

\* change_direction reaches the driver only at rest.
LEMMA SetDirectionReverses ==
    ASSUME Preemptive = {}, TractionInv, NEW t \in Threads, SetDirection(t)
    PROVE  OneUpdates' /\ Bridge!Next
<1>1. /\ th \in [Threads -> Thread] /\ CanRun(t) /\ th[t].pc = "setDir" /\ speed_value = 0
      /\ Goto(t, "dirDisplay")
  BY DEF SetDirection, At, TractionInv, BridgeInv, TypeInv, TypeOK, Thread, Knows
<1>2. th'[t].pc = "dirDisplay" /\ \A u \in Threads \ {t} : th'[u] = th[u]
  BY <1>1 DEF Goto, Thread
<1>3. ~UpdatingSpeed /\ ~UpdatingSpeed'
  BY <1>1, <1>2, AloneAtUpdate DEF UpdatingSpeed, Updating
<1>4. OneUpdates' /\ OrderInForce = 0 /\ OrderInForce' = 0
  BY <1>1, <1>3 DEF OrderInForce, UpdatingSpeed, OneUpdates, SetDirection, motion
<1>5. in1 = 0 /\ in2 = 0
  BY <1>1, <1>3, PercentZero DEF TractionInv, BridgeInv, MotorFollowsSpeed
<1>6. data_direction' \in 0 .. 2 /\ in1' = in1 /\ in2' = in2
  BY DEF SetDirection, DriverDirection
<1>7. Bridge!Reverse(data_direction')
  BY <1>4, <1>5, <1>6 DEF Bridge!Reverse
<1> QED
  BY <1>4, <1>6, <1>7 DEF Bridge!Next

-----------------------------------------------------------------------------
\* Every step of cooperative threads is a step of the abstract specification, or
\* changes nothing in it.
LEMMA TractionStep ==
    ASSUME Preemptive = {}
    PROVE  TractionInv /\ [Next]_vars => TractionInv' /\ [Bridge!Next]_Bridge!tvars
<1> SUFFICES ASSUME TractionInv, [Next]_vars
             PROVE  OneUpdates' /\ (Bridge!Next \/ UNCHANGED Bridge!tvars)
  BY BridgeStepInv DEF TractionInv
<1>0. /\ th \in [Threads -> Thread] /\ BridgeInv /\ TypeInv' /\ SpeedSteps \in Nat
      /\ speed_value \in Speed
  BY TypeStep, SpeedAssumption DEF TractionInv, BridgeInv, TypeInv, TypeOK, Thread
\* A request that takes up a speed, and one that starts another handler.
<1>1. ASSUME NEW t \in Controllers, NEW job, NEW label, NEW v, Begin(t, job, label, v),
             UNCHANGED <<speed_value, driver>>,
             (label = "setSpeed" /\ v \in Speed) \/ label \in {"orderAccel", "checkDir"}
      PROVE  OneUpdates' /\ (Bridge!Next \/ UNCHANGED Bridge!tvars)
  <2>1. /\ t \in Threads /\ CanRun(t) /\ th[t].pc = "idle"
        /\ th'[t].pc = label /\ th'[t].arg = v
        /\ \A u \in Threads \ {t} : th'[u] = th[u]
    BY <1>0, <1>1 DEF Begin, At, Thread, Threads
  <2>2. CASE label = "setSpeed" /\ v \in Speed
    BY <1>1, <2>1, <2>2, StepUp
  <2>3. CASE label \in {"orderAccel", "checkDir"}
    BY <1>1, <2>1, <2>3, StepAside
  <2> QED
    BY <1>1, <2>2, <2>3
<1>2. ASSUME NEW enable \in BOOLEAN, speed_ccc_cfg_changed(enable)
      PROVE  OneUpdates' /\ UNCHANGED Bridge!tvars
  <2>1. UNCHANGED <<th, speed_value, driver>>
    BY <1>2 DEF speed_ccc_cfg_changed, motion
  <2> QED
    BY <2>1 DEF TractionInv, OneUpdates, Updating, OrderInForce, UpdatingSpeed, Bridge!tvars,
                driver
<1>3. ASSUME Request PROVE OneUpdates' /\ (Bridge!Next \/ UNCHANGED Bridge!tvars)
  <2>1. 0 \in Speed /\ "ot" \in Controllers /\ "bt" \in Controllers
    BY <1>0 DEF Speed, Controllers
  <2>2. ASSUME stop_request
        PROVE  Begin("ot", "stop", "setSpeed", 0) /\ UNCHANGED <<speed_value, driver>>
    BY <2>2 DEF stop_request, motion
  <2>3. ASSUME NEW base \in PwmBases, write_pwm(base)
        PROVE  Begin("bt", "direct", "setSpeed", speed_value) /\ UNCHANGED <<speed_value, driver>>
    BY <2>3 DEF write_pwm, motion
  <2>4. ASSUME NEW t, NEW job, NEW label, NEW v, Command(t, job, label, v)
        PROVE  Begin(t, job, label, v) /\ UNCHANGED <<speed_value, driver>>
    BY <2>4 DEF Command, motion
  <2> QED
    BY <1>0, <1>1, <1>2, <1>3, <2>1, <2>2, <2>3, <2>4
       DEF Request, speed_request, write_speed, acceleration_request, write_accelation,
           direction_request, write_direction
\* A step of another kind.
<1>4. ASSUME NEW t \in Threads, CanRun(t), UNCHANGED <<speed_value, driver>>,
             \A u \in Threads \ {t} : th'[u] = th[u],
             th[t].pc \notin {"setSpeed", "drivePin", "storeSpeed"},
             th'[t].pc \notin {"setSpeed", "drivePin", "storeSpeed"}
      PROVE  OneUpdates' /\ UNCHANGED Bridge!tvars
  BY <1>4, StepAside
<1>5. ASSUME NEW t \in Threads, SilencePin(t) \/ DrivePin(t) \/ StoreSpeed(t) \/ SetDirection(t)
      PROVE  OneUpdates' /\ (Bridge!Next \/ UNCHANGED Bridge!tvars)
  BY <1>5, SilenceStutters, DriveDelivers, StoreStutters, SetDirectionReverses
<1>6. ASSUME NEW t \in Threads, DisplayDone(t) \/ Notify(t) \/ NotifyDisplayDone(t) \/ StartTimer(t)
      PROVE  OneUpdates' /\ UNCHANGED Bridge!tvars
  BY <1>0, <1>4, <1>6 DEF DisplayDone, Notify, NotifyDisplayDone, StartTimer, NotifyMotionChange,
     FinalNotifyMotionChange, At, Goto, Return, Idle, motion, Thread
<1>7. ASSUME NEW t \in Threads, CheckDirection(t) \/ DirectionDisplayDone(t) \/ StoreDirection(t)
      PROVE  OneUpdates' /\ UNCHANGED Bridge!tvars
  BY <1>0, <1>4, <1>7 DEF CheckDirection, DirectionDisplayDone, StoreDirection, At, Goto, GotoWith,
     Return, Idle, motion, Thread
<1>8. ASSUME NEW t \in Threads, Brake(t) PROVE OneUpdates' /\ UNCHANGED Bridge!tvars
  BY <1>0, <1>4, <1>8 DEF Brake, At, motion, Thread
<1>9. ASSUME NEW t \in Threads, OrderAcceleration(t) PROVE OneUpdates' /\ UNCHANGED Bridge!tvars
  BY <1>0, <1>4, <1>9 DEF OrderAcceleration, At, GotoWith, Thread
<1>10. ASSUME NEW t \in Threads, CheckTimer(t) PROVE OneUpdates' /\ UNCHANGED Bridge!tvars
  BY <1>0, <1>4, <1>10 DEF CheckTimer, FinalNotifyMotionChange, At, Goto, Return, Idle, motion,
                          Thread
<1>11. ASSUME NEW t \in Threads, Apply(t) PROVE OneUpdates' /\ UNCHANGED Bridge!tvars
  BY <1>0, <1>4, <1>11 DEF Apply, At, GotoWith, motion, Thread
<1>12. ASSUME NEW t \in Threads, ApplyWrite(t)
       PROVE  OneUpdates' /\ (Bridge!Next \/ UNCHANGED Bridge!tvars)
  <2>1. PICK v \in Written(t) : NewSpeed(v) /\ GotoWith(t, "setSpeed", v, 0)
    BY <1>12 DEF ApplyWrite
  <2>2. /\ th'[t].pc = "setSpeed" /\ \A u \in Threads \ {t} : th'[u] = th[u]
        /\ CanRun(t) /\ th[t].pc = "applyWrite" /\ UNCHANGED driver
    BY <1>0, <1>12, <2>1 DEF ApplyWrite, At, GotoWith, Thread
  <2>3. th'[t].arg \in Speed
    BY <1>0, <2>2 DEF TypeInv, Registers
  <2> QED
    BY <2>2, <2>3, StepUp
<1>13. CASE re_apply_acceleration \/ UNCHANGED vars
  <2>1. UNCHANGED <<th, speed_value, driver>>
    BY <1>13 DEF re_apply_acceleration, vars, motion
  <2> QED
    BY <2>1 DEF TractionInv, OneUpdates, Updating, OrderInForce, UpdatingSpeed, Bridge!tvars,
                driver
<1>14. CASE TickBegin
  BY <1>0, <1>4, <1>14 DEF TickBegin, Begin, At, motion, Thread, Threads
<1>15. CASE TickEnd
  BY <1>0, <1>4, <1>15 DEF TickEnd, At, Return, Idle, motion, Thread, Threads
<1> QED
  BY <1>3, <1>5, <1>6, <1>7, <1>8, <1>9, <1>10, <1>11, <1>12, <1>13, <1>14, <1>15 DEF Next, Step

\* With cooperative threads LokiMotion implements Traction: seen from the bridge,
\* every speed order is carried out in one step, before the next is taken up, and
\* the direction changes only on a locomotive at rest.
THEOREM MotionIsTraction ==
    ASSUME Preemptive = {}
    PROVE  Spec => ImplementsTraction
<1>1. Init => TractionInv /\ Bridge!Init
  <2> SUFFICES ASSUME Init PROVE TractionInv /\ Bridge!Init
    OBVIOUS
  <2>1. BridgeInv
    BY BridgeInit
  <2>2. OneUpdates /\ ~UpdatingSpeed
    BY DEF Init, Idle, Threads, OneUpdates, UpdatingSpeed, Updating
  <2>3. Bridge!Init
    BY <2>2 DEF Init, Bridge!Init, OrderInForce
  <2> QED
    BY <2>1, <2>2, <2>3 DEF TractionInv
<1> QED
  BY <1>1, TractionStep, PTL DEF Spec, ImplementsTraction, Bridge!Spec
=============================================================================
