------------------------ MODULE RemoteControl_proofs ------------------------
(***************************************************************************)
(* LokiMotion behind the CoAP server keeps what either promises alone, and *)
(* the two together promise the client more: its orders are carried out as *)
(* given, and what it reads is what the locomotive does.                   *)
(***************************************************************************)
EXTENDS RemoteControl, Traction_proofs

-----------------------------------------------------------------------------
(* The callbacks of a client's requests.                                   *)

\* A byte is a byte.
LEMMA PayloadOfRequest ==
    ASSUME NEW m \in Coap!Requests
    PROVE  m.uri \in {"acceleration", "direction"} => m.payload \in {NoPayload} \cup Bytes
<1>1. PICK u \in Coap!URIs : m \in
        [uri : {u}, type : {"NON", "CON"}, code : {"GET", "PUT", "POST"},
         format : IF u = "speed" THEN Coap!Formats ELSE {"absent"},
         payload : Coap!Payloads(u)]
  BY DEF Coap!Requests
<1>2. m.uri = u /\ m.payload \in Coap!Payloads(u)
  BY <1>1
<1> QED BY <1>2 DEF Coap!Payloads

\* A request begins a callback that LokiMotion knows with an argument it knows, one of
\* the two callbacks that are none of its business, or none.
LEMMA CallbackBegun ==
    ASSUME NEW m \in Coap!Requests, Coap!Receive(m), pc' = "callback"
    PROVE  \/ \E v \in Speed : order' = [op |-> "speed", arg |-> v]
           \/ \E a \in Orders : order' = [op |-> "acceleration", arg |-> a]
           \/ \E p \in Patterns : order' = [op |-> "direction", arg |-> p]
           \/ order' = [op |-> "stop", arg |-> 0]
           \/ order'.op \in {"name", "ble-recovery"}
<1> USE DEF Coap!Call, Coap!NewMessage, Coap!Ignore, Coap!message
<1>0. pc = "idle"
  BY DEF Coap!Receive
<1>1. CASE m.uri = "speed" /\ Coap!speed_request_handler(m)
  BY <1>0, <1>1 DEF Coap!speed_request_handler, Speed
<1>2. CASE m.uri = "acceleration" /\ Coap!acceleration_request_handler(m)
  <2>1. m.payload # NoPayload /\ order' = [op |-> "acceleration", arg |-> Signed(m.payload)]
    BY <1>0, <1>2 DEF Coap!acceleration_request_handler, Signed
  <2>2. m.payload \in Bytes
    BY <1>2, <2>1, PayloadOfRequest
  <2> QED BY <2>1, <2>2, RemoteAssumption
<1>3. CASE m.uri = "direction" /\ Coap!direction_request_handler(m)
  <2>1. m.payload # NoPayload /\ order' = [op |-> "direction", arg |-> m.payload]
    BY <1>0, <1>3 DEF Coap!direction_request_handler
  <2>2. m.payload \in Patterns
    BY <1>3, <2>1, PayloadOfRequest, RemoteAssumption
  <2> QED BY <2>1, <2>2
<1>4. CASE Coap!stop_request_handler(m) \/ Coap!ble_recovery_request_handler(m)
  BY <1>4 DEF Coap!stop_request_handler, Coap!ble_recovery_request_handler
<1>5. CASE Coap!name_request_handler(m)
  BY <1>0, <1>5 DEF Coap!name_request_handler
<1>6. CASE Coap!well_known_core_request_handler(m) \/ Coap!coap_default_handler(m)
  BY <1>0, <1>6 DEF Coap!well_known_core_request_handler, Coap!coap_default_handler
<1> QED BY <1>1, <1>2, <1>3, <1>4, <1>5, <1>6 DEF Coap!Receive, Coap!OtherRequest

\* Carrying it out is a request of LokiMotion: the thread has begun with the argument.
LEMMA CallbackCarriedOut ==
    ASSUME Receive, pc' = "callback"
    PROVE  \/ \E v \in Speed : order' = [op |-> "speed", arg |-> v] /\ speed_request(v)
           \/ \E a \in Orders :
                 order' = [op |-> "acceleration", arg |-> a] /\ acceleration_request(a)
           \/ \E p \in Patterns : order' = [op |-> "direction", arg |-> p] /\ direction_request(p)
           \/ order' = [op |-> "stop", arg |-> 0] /\ stop_request
           \/ order'.op \in {"name", "ble-recovery"} /\ UNCHANGED vars
<1>1. Obey(order')
  BY DEF Receive
<1>2. PICK m \in Coap!Requests : Coap!Receive(m)
  BY DEF Receive
<1>3. CASE \E v \in Speed : order' = [op |-> "speed", arg |-> v]
  BY <1>1, <1>3 DEF Obey
<1>4. CASE \E a \in Orders : order' = [op |-> "acceleration", arg |-> a]
  BY <1>1, <1>4 DEF Obey
<1>5. CASE \E p \in Patterns : order' = [op |-> "direction", arg |-> p]
  BY <1>1, <1>5 DEF Obey
<1>6. CASE order' = [op |-> "stop", arg |-> 0]
  BY <1>1, <1>6 DEF Obey
<1>7. CASE order'.op \in {"name", "ble-recovery"}
  BY <1>1, <1>7 DEF Obey
<1> QED BY <1>2, <1>3, <1>4, <1>5, <1>6, <1>7, CallbackBegun

-----------------------------------------------------------------------------
(* The motion underneath.                                                  *)

\* Every step of the server and its callbacks is a step of LokiMotion or none.
LEMMA MotionSimulated == [RNext]_rvars => [Next]_vars
<1> SUFFICES ASSUME [RNext]_rvars PROVE [Next]_vars
  OBVIOUS
<1>1. CASE Receive
  <2>1. CASE pc' = "callback"
    BY <1>1, <2>1, CallbackCarriedOut DEF Next, Request
  <2> QED BY <1>1, <2>1 DEF Receive
<1>2. CASE CallbackDone \/ Answering \/ Transmit \/ loki_coap_init
  BY <1>2 DEF CallbackDone, Answering, Transmit, loki_coap_init
<1>3. CASE MotionStep
  BY <1>3 DEF MotionStep, GattRequest, Next, Request
<1>4. CASE UNCHANGED rvars
  BY <1>4 DEF rvars
<1> QED BY <1>1, <1>2, <1>3, <1>4 DEF RNext

\* Behind the CoAP server the motion is that of LokiMotion, whatever clients send: all
\* that is proved of LokiMotion holds for orders that come through the server.
THEOREM RemoteIsMotion == RSpec => Spec
<1>1. RInit => Init
  BY DEF RInit
<1> QED BY <1>1, MotionSimulated, PTL DEF RSpec, Spec

-----------------------------------------------------------------------------
(* The orders: what clients may give, and the brakes of change_direction.  *)

Given == Orders \cup Brakes

OrdersInv ==
    /\ accel_order \in Given
    /\ \A t \in Threads : th[t].pc = "orderAccel" => th[t].arg \in Given

\* 0 is the mildest brake, and every brake is mild enough for an int8_t.
LEMMA BrakesFit == 0 \in Given /\ Speed \subseteq 0 .. 255 /\ Given \subseteq -128 .. 127
<1> USE SpeedAssumption, RemoteAssumption DEF Speed
<1>1. ASSUME NEW v \in Speed
      PROVE  v \div BrakeDivisor \in 0 .. 127 /\ -(v \div BrakeDivisor) \in -128 .. 127
  <2> DEFINE q == v \div BrakeDivisor
             d == BrakeDivisor
  <2>1. v \in 0 .. 255 /\ d \in Nat /\ d >= 2
    OBVIOUS
  <2>2. q \in Int /\ d * q =< v /\ v < d * (q + 1)
    BY <2>1
  <2>3. q >= 0
    <3>1. ASSUME q + 1 =< 0 PROVE FALSE
      <4>1. d * (q + 1) =< 0
        BY <2>1, <2>2, <3>1
      <4> QED BY <2>1, <2>2, <4>1
    <3> QED BY <2>2, <3>1
  <2>4. q =< 127
    <3>1. ASSUME q >= 128 PROVE FALSE
      <4>1. d * q >= 2 * q
        BY <2>1, <2>2, <3>1
      <4>2. d * q \in Int
        BY <2>1, <2>2
      <4> QED BY <2>1, <2>2, <3>1, <4>1, <4>2
    <3> QED BY <2>2, <3>1
  <2> QED BY <2>2, <2>3, <2>4
<1>2. 0 \in Brakes
  <2>1. -(0 \div BrakeDivisor) = 0
    OBVIOUS
  <2> QED BY <2>1 DEF Brakes
<1>3. ASSUME NEW a \in Given PROVE a \in -128 .. 127
  <2>1. CASE a \in Orders
    BY <2>1
  <2>2. CASE a \in Brakes
    <3> HIDE DEF Speed
    <3>1. PICK v \in Speed : a = -(v \div BrakeDivisor)
      BY <2>2 DEF Brakes
    <3> QED BY <1>1, <3>1
  <2> QED BY <2>1, <2>2 DEF Given
<1>4. Speed \subseteq 0 .. 255
  OBVIOUS
<1> QED BY <1>2, <1>3, <1>4 DEF Given

\* An order given is a client's or a brake, one in force is one given or ended.
LEMMA OrdersStep ==
    ASSUME TypeInv, OrdersInv, [Next]_vars
    PROVE  OrdersInv'
<1> USE DEF OrdersInv, Given
<1>0. th \in [Threads -> Thread] /\ 0 \in Given
  BY BrakesFit DEF TypeInv, TypeOK, Thread
\* A step of one thread to another label, that leaves the order alone.
<1>1. ASSUME NEW t \in Threads, UNCHANGED accel_order, \A u \in Threads \ {t} : th'[u] = th[u],
             th'[t].pc # "orderAccel"
      PROVE  OrdersInv'
  BY <1>1
<1>2. ASSUME NEW t \in Controllers, NEW job, NEW label, NEW v, Begin(t, job, label, v),
             UNCHANGED accel_order, label = "orderAccel" => v \in Given
      PROVE  OrdersInv'
  BY <1>0, <1>2 DEF Begin, Thread, Threads
<1>3. ASSUME Request PROVE OrdersInv'
  BY <1>0, <1>2, <1>3 DEF Request, speed_request, write_speed, acceleration_request,
     write_accelation, direction_request, write_direction, write_pwm, stop_request, Command,
     speed_ccc_cfg_changed, Controllers, motion
<1>4. ASSUME NEW t \in Threads, Brake(t) PROVE OrdersInv'
  <2>1. -(speed_value \div BrakeDivisor) \in Brakes
    BY DEF Brakes, TypeInv, TypeOK
  <2> QED BY <1>0, <1>4, <2>1 DEF Brake, Thread, motion
<1>5. ASSUME NEW t \in Threads, OrderAcceleration(t) PROVE OrdersInv'
  BY <1>0, <1>5 DEF OrderAcceleration, At, GotoWith, Thread
<1>6. ASSUME NEW t \in Threads, ApplyWrite(t) PROVE OrdersInv'
  BY <1>0, <1>6 DEF ApplyWrite, GotoWith, Thread
<1>7. ASSUME NEW t \in Threads, SilencePin(t) \/ DrivePin(t) \/ StoreSpeed(t) \/ DisplayDone(t)
      PROVE  OrdersInv'
  BY <1>0, <1>1, <1>7 DEF SilencePin, DrivePin, StoreSpeed, DisplayDone, NotifyMotionChange,
     Goto, GotoWith, Return, Idle, Thread, motion
<1>8. ASSUME NEW t \in Threads, CheckDirection(t) \/ SetDirection(t) \/ DirectionDisplayDone(t)
             \/ StoreDirection(t)
      PROVE  OrdersInv'
  BY <1>0, <1>1, <1>8 DEF CheckDirection, SetDirection, DirectionDisplayDone, StoreDirection,
     Goto, GotoWith, Return, Idle, Thread, motion
<1>9. ASSUME NEW t \in Threads, CheckTimer(t) \/ Apply(t) PROVE OrdersInv'
  BY <1>0, <1>1, <1>9 DEF CheckTimer, Apply, FinalNotifyMotionChange, Goto, GotoWith, Return,
     Idle, Thread, motion
<1>10. ASSUME NEW t \in Threads, Notify(t) \/ NotifyDisplayDone(t) \/ StartTimer(t)
       PROVE  OrdersInv'
  BY <1>0, <1>1, <1>10 DEF Notify, NotifyDisplayDone, StartTimer, FinalNotifyMotionChange,
     Goto, Return, Idle, Thread, motion
<1>11. CASE TickBegin \/ TickEnd
  <2>1. CASE TickBegin
    BY <1>0, <1>1, <2>1 DEF TickBegin, Begin, Thread, Threads, motion
  <2>2. CASE TickEnd
    BY <1>0, <1>1, <2>2 DEF TickEnd, Return, Idle, Thread, Threads, motion
  <2> QED BY <1>11, <2>1, <2>2
<1>12. CASE re_apply_acceleration \/ UNCHANGED vars
  BY <1>12 DEF re_apply_acceleration, vars, motion
<1> QED BY <1>3, <1>4, <1>5, <1>6, <1>7, <1>8, <1>9, <1>10, <1>11, <1>12 DEF Next, Step

-----------------------------------------------------------------------------
(* The server on top.                                                      *)

\* Every step of the whole is one of the server, or none: the motion changes within
\* what the server supposes of it.
LEMMA ServerSimulated ==
    ASSUME TypeInv, OrdersInv, [RNext]_rvars
    PROVE  [Coap!Next]_(Coap!vars)
<1>1. speed_value' \in Speed /\ accel_order' \in Orders \cup Brakes
  <2>1. [Next]_vars
    BY MotionSimulated
  <2> QED BY <2>1, TypeStep, OrdersStep DEF TypeInv, TypeOK, OrdersInv, Given
<1>2. CASE MotionStep
  BY <1>1, <1>2 DEF MotionStep, Coap!Next
<1>3. CASE Receive \/ CallbackDone \/ Answering \/ Transmit \/ loki_coap_init
  BY <1>3 DEF Receive, CallbackDone, Answering, Transmit, loki_coap_init, Coap!Next
<1>4. CASE UNCHANGED rvars
  BY <1>4 DEF rvars, vars, motion, Coap!vars, Coap!motion, Coap!message
<1> QED BY <1>2, <1>3, <1>4 DEF RNext

\* The server behind which the motion really runs is one of CoapServer, which supposes
\* of the motion no more than its range: all that is proved of it alone holds here.
THEOREM RemoteIsServer == RSpec => ImplementsServer
<1>1. RInit => TypeInv /\ OrdersInv /\ Coap!Init
  BY TypeInit, BrakesFit DEF RInit, Init, OrdersInv, Idle
<1>2. TypeInv /\ OrdersInv /\ [RNext]_rvars => TypeInv' /\ OrdersInv'
  BY MotionSimulated, TypeStep, OrdersStep
<1>3. TypeInv /\ OrdersInv /\ [RNext]_rvars => [Coap!Next]_(Coap!vars)
  BY ServerSimulated
<1> QED BY <1>1, <1>2, <1>3, PTL DEF RSpec, ImplementsServer, Coap!Spec

-----------------------------------------------------------------------------
(* The orders are carried out as given.                                    *)

\* The thread works on nothing but the callback begun, and a ramp step of its own is
\* that of an acceleration: its handler does not pass for one that sets a speed.
ObeyInv ==
    /\ ClientObeyed
    /\ th["ot"].pc # "idle" => pc = "callback"
    /\ th["ot"].pc = "brake" => order.op = "direction"
    /\ th["ot"].pc \in {"orderAccel", "checkTimer", "apply", "applyWrite"} => th["ot"].job = "accel"

\* A thread at rest obeys nobody.
LEMMA RestObeys ==
    ASSUME th'["ot"].pc = "idle"
    PROVE  ObeyInv'
  BY DEF ObeyInv, ClientObeyed, Updating

\* A request starts the handler of its callback.
LEMMA RequestObeyed ==
    ASSUME TypeInv, Receive
    PROVE  ObeyInv'
<1> USE DEF ObeyInv, ClientObeyed, Updating
<1>0. th \in [Threads -> Thread] /\ "ot" \in Threads /\ th["ot"].pc = "idle"
  BY DEF TypeInv, TypeOK, Thread, Threads, Controllers, Receive, At
<1>1. CASE pc' # "callback" \/ UNCHANGED vars
  BY <1>0, <1>1, RestObeys DEF Receive, vars
<1>2. ASSUME NEW v \in Speed, pc' = "callback", order' = [op |-> "speed", arg |-> v],
             speed_request(v)
      PROVE  ObeyInv'
  BY <1>0, <1>2 DEF speed_request, Command, Begin, Thread
<1>3. ASSUME NEW a \in Orders, pc' = "callback", order' = [op |-> "acceleration", arg |-> a],
             acceleration_request(a)
      PROVE  ObeyInv'
  BY <1>0, <1>3 DEF acceleration_request, Command, Begin, Thread
<1>4. ASSUME NEW p \in Patterns, pc' = "callback", order' = [op |-> "direction", arg |-> p],
             direction_request(p)
      PROVE  ObeyInv'
  BY <1>0, <1>4 DEF direction_request, Command, Begin, Thread
<1>5. ASSUME pc' = "callback", order' = [op |-> "stop", arg |-> 0], stop_request
      PROVE  ObeyInv'
  BY <1>0, <1>5 DEF stop_request, Begin, Thread
<1> QED BY <1>1, <1>2, <1>3, <1>4, <1>5, CallbackCarriedOut

\* The handler's own steps hand its argument on, or work on a brake or a ramp step.
LEMMA HandlerObeys ==
    ASSUME TypeInv, ObeyInv, Step("ot"), UNCHANGED <<order, pc>>
    PROVE  ObeyInv'
<1> USE DEF ObeyInv, ClientObeyed, Updating
<1>0. th \in [Threads -> Thread] /\ "ot" \in Threads /\ speed_value \in Nat
  BY SpeedAssumption DEF TypeInv, TypeOK, Thread, Threads, Controllers, Speed
<1>1. CASE SilencePin("ot")
  BY <1>0, <1>1 DEF SilencePin, At, GotoWith, Thread
<1>2. CASE DrivePin("ot")
  BY <1>0, <1>2 DEF DrivePin, At, GotoWith, Thread
<1>3. CASE StoreSpeed("ot")
  BY <1>0, <1>3 DEF StoreSpeed, At, GotoWith, Thread
<1>4. CASE DisplayDone("ot")
  BY <1>0, <1>4 DEF DisplayDone, NotifyMotionChange, At, Goto, Return, Idle, Thread
<1>5. CASE CheckDirection("ot")
  BY <1>0, <1>5 DEF CheckDirection, At, Goto, GotoWith, Return, Idle, Thread
<1>6. CASE Brake("ot")
  <2>1. -(speed_value \div BrakeDivisor) =< 0
    <3> DEFINE q == speed_value \div BrakeDivisor
    <3>1. q \in Int /\ speed_value < BrakeDivisor * (q + 1)
      BY <1>0, SpeedAssumption
    <3>2. ASSUME q + 1 =< 0 PROVE FALSE
      <4>1. BrakeDivisor * (q + 1) =< 0
        BY <3>1, <3>2, SpeedAssumption
      <4> QED BY <1>0, <3>1, <4>1, SpeedAssumption
    <3> QED BY <3>1, <3>2
  <2> QED BY <1>0, <1>6, <2>1 DEF Brake, At, Thread
<1>7. CASE SetDirection("ot")
  BY <1>0, <1>7 DEF SetDirection, At, Goto, Thread
<1>8. CASE DirectionDisplayDone("ot")
  BY <1>0, <1>8 DEF DirectionDisplayDone, At, Goto, Thread
<1>9. CASE StoreDirection("ot")
  BY <1>0, <1>9 DEF StoreDirection, Return, Idle, Thread
<1>10. CASE OrderAcceleration("ot")
  BY <1>0, <1>10 DEF OrderAcceleration, At, GotoWith, Thread
<1>11. CASE CheckTimer("ot")
  BY <1>0, <1>11 DEF CheckTimer, FinalNotifyMotionChange, At, Goto, Return, Idle, Thread
<1>12. CASE Apply("ot")
  BY <1>0, <1>12 DEF Apply, At, GotoWith, Thread
<1>13. CASE ApplyWrite("ot")
  BY <1>0, <1>13 DEF ApplyWrite, At, GotoWith, Thread
<1>14. CASE Notify("ot")
  BY <1>0, <1>14 DEF Notify, At, Goto, Thread
<1>15. CASE NotifyDisplayDone("ot")
  BY <1>0, <1>15 DEF NotifyDisplayDone, At, Goto, Return, Idle, Thread
<1>16. CASE StartTimer("ot")
  BY <1>0, <1>16 DEF StartTimer, FinalNotifyMotionChange, At, Goto, Return, Idle, Thread
<1> QED BY <1>1, <1>2, <1>3, <1>4, <1>5, <1>6, <1>7, <1>8, <1>9, <1>10, <1>11, <1>12, <1>13,
           <1>14, <1>15, <1>16 DEF Step

\* The other threads and the interrupt leave the handler alone.
LEMMA OthersLeaveHandler ==
    ASSUME TypeInv, MotionStep
    PROVE  Step("ot") \/ th'["ot"] = th["ot"]
<1>0. th \in [Threads -> Thread] /\ "ot" \in Threads
  BY DEF TypeInv, TypeOK, Thread, Threads, Controllers
<1>1. ASSUME NEW t \in Threads \ {"ot"}, NEW job, NEW label, NEW v, Begin(t, job, label, v)
      PROVE  th'["ot"] = th["ot"]
  BY <1>0, <1>1 DEF Begin
<1>2. CASE GattRequest
  BY <1>1, <1>2 DEF GattRequest, write_speed, write_accelation, write_direction, write_pwm,
     speed_ccc_cfg_changed, Command, Threads, Controllers
<1>3. ASSUME NEW t \in Threads \ {"ot"}, Step(t) PROVE th'["ot"] = th["ot"]
  BY <1>0, <1>3 DEF Step, SilencePin, DrivePin, StoreSpeed, DisplayDone, CheckDirection, Brake,
     SetDirection, DirectionDisplayDone, StoreDirection, OrderAcceleration, CheckTimer, Apply,
     ApplyWrite, Notify, NotifyDisplayDone, StartTimer, NotifyMotionChange,
     FinalNotifyMotionChange, Goto, GotoWith, Return
<1>4. CASE TickBegin
  BY <1>1, <1>4 DEF TickBegin, Threads
<1>5. CASE TickEnd
  BY <1>0, <1>5 DEF TickEnd, Return
<1>6. CASE re_apply_acceleration
  BY <1>6 DEF re_apply_acceleration
<1> QED BY <1>2, <1>3, <1>4, <1>5, <1>6 DEF MotionStep

\* Every step of the whole keeps the handler on its callback.
LEMMA ObeyStep ==
    ASSUME TypeInv, ObeyInv, [RNext]_rvars
    PROVE  ObeyInv'
<1>1. CASE Receive
  BY <1>1, RequestObeyed
<1>2. CASE CallbackDone \/ Answering \/ Transmit \/ loki_coap_init
  BY <1>2, RestObeys DEF CallbackDone, Answering, Transmit, loki_coap_init, At, vars
<1>3. CASE MotionStep
  <2>1. UNCHANGED <<order, pc>>
    BY <1>3 DEF MotionStep, Coap!MotionChanges
  <2>2. CASE th'["ot"] = th["ot"]
    BY <2>1, <2>2 DEF ObeyInv, ClientObeyed, Updating
  <2> QED BY <1>3, <2>1, <2>2, HandlerObeys, OthersLeaveHandler
<1>4. CASE UNCHANGED rvars
  BY <1>4 DEF rvars, vars, ObeyInv, ClientObeyed, Updating
<1> QED BY <1>1, <1>2, <1>3, <1>4 DEF RNext

\* The OpenThread thread carries out the callback begun with the argument it was given
\* (ClientObeyed), whatever the other threads do while it waits, on any build.
THEOREM ClientsAreObeyed == RSpec => []ClientObeyed
<1>1. RInit => TypeInv /\ ObeyInv
  BY TypeInit DEF RInit, Init, Idle, ObeyInv, ClientObeyed, Updating, Threads, Controllers
<1>2. TypeInv /\ ObeyInv /\ [RNext]_rvars => TypeInv' /\ ObeyInv'
  BY MotionSimulated, TypeStep, ObeyStep
<1>3. ObeyInv => ClientObeyed
  BY DEF ObeyInv
<1> QED BY <1>1, <1>2, <1>3, PTL DEF RSpec

-----------------------------------------------------------------------------
(* What clients read, with cooperative threads.                            *)

IsText == request.uri = "speed" /\ Coap!getContentFormat(request) = "text"

\* While an answer is built no thread is in the middle of anything, so that what is
\* copied is still so when the answer is sent.
AnswerInv ==
    /\ outbox \in Nat
    /\ pc \in Coap!Steps \cup {"idle", "callback"}
    /\ pc \in Coap!Steps =>
          /\ \A t \in Threads : th[t].pc \in YieldPoints
          /\ pc \in {"marker", "append", "send"} /\ IsText => payload = speed_value
          /\ pc = "send" /\ IsText => response = speed_value
          /\ pc = "send" /\ request.uri = "acceleration" => response = accel_order

\* The thread that answers has the CPU, and the others have given it up.
LEMMA AnsweringAlone ==
    ASSUME Preemptive = {}, At("ot", "idle")
    PROVE  \A t \in Threads : th[t].pc \in YieldPoints
  BY DEF At, CanRun, YieldPoints

\* A request finds the others where they wait, and its answer begins there.
LEMMA RequestAnswered ==
    ASSUME Preemptive = {}, AnswerInv, Receive
    PROVE  AnswerInv'
<1> USE DEF AnswerInv, Coap!Steps
<1>1. PICK m \in Coap!Requests : Coap!Receive(m)
  BY DEF Receive
<1>2. pc' \in {"idle", "callback", "token"} /\ outbox' = outbox
  BY <1>1 DEF Coap!Receive, Coap!OtherRequest, Coap!speed_request_handler,
     Coap!acceleration_request_handler,
     Coap!direction_request_handler, Coap!stop_request_handler, Coap!name_request_handler,
     Coap!ble_recovery_request_handler, Coap!well_known_core_request_handler,
     Coap!coap_default_handler, Coap!Call, Coap!Ignore, Coap!NewMessage, Coap!message
<1>3. CASE pc' = "token"
  <2>1. UNCHANGED th
    BY <1>3 DEF Receive, vars
  <2>2. \A t \in Threads : th[t].pc \in YieldPoints
    BY AnsweringAlone DEF Receive
  <2> QED BY <1>2, <1>3, <2>1, <2>2
<1> QED BY <1>2, <1>3

\* One step of the building.
LEMMA BuildingTrue ==
    ASSUME Preemptive = {}, AnswerInv, Answering
    PROVE  AnswerInv'
<1> USE DEF AnswerInv, Coap!Steps, IsText, Coap!getContentFormat
<1>0. UNCHANGED <<th, speed_value, accel_order>>
  BY DEF Answering, vars, motion
<1>1. CASE Coap!SendResponse \/ Coap!GiveUp
  BY <1>1 DEF Coap!SendResponse, Coap!GiveUp, Coap!Return
<1>2. CASE Coap!BuildStep /\ pc = "token"
  BY <1>0, <1>2 DEF Coap!BuildStep, Coap!After
<1>3. CASE Coap!BuildStep /\ pc = "format"
  BY <1>0, <1>3 DEF Coap!BuildStep, Coap!After, Coap!FormatSpeed
<1>4. CASE Coap!BuildStep /\ pc = "marker"
  BY <1>0, <1>4 DEF Coap!BuildStep, Coap!After
<1>5. CASE Coap!BuildStep /\ pc = "append"
  BY <1>0, <1>5 DEF Coap!BuildStep, Coap!After, Coap!Content
<1> QED BY <1>1, <1>2, <1>3, <1>4, <1>5 DEF Answering, Coap!Answering, Coap!BuildStep

\* Every step of the whole keeps the answer under construction true.
LEMMA AnswerStep ==
    ASSUME Preemptive = {}, AnswerInv, [RNext]_rvars
    PROVE  AnswerInv'
<1> USE DEF AnswerInv
<1>1. CASE Receive
  BY <1>1, RequestAnswered
<1>2. CASE Answering
  BY <1>2, BuildingTrue
<1>3. CASE CallbackDone
  BY <1>3 DEF CallbackDone, Coap!CallbackDone, Coap!Return, Coap!Steps
<1>4. CASE Transmit
  BY <1>4 DEF Transmit, Coap!Transmit, Coap!Steps
<1>8. CASE loki_coap_init
  BY <1>8 DEF loki_coap_init, Coap!loki_coap_init, Coap!message, vars, motion, IsText,
     Coap!getContentFormat
<1>5. CASE MotionStep /\ ServerYields
  BY <1>5 DEF MotionStep, ServerYields, Coap!MotionChanges, Coap!Steps
<1>6. CASE MotionStep /\ re_apply_acceleration
  BY <1>6 DEF MotionStep, re_apply_acceleration, Coap!MotionChanges, motion, IsText,
     Coap!getContentFormat
<1>7. CASE UNCHANGED rvars
  BY <1>7 DEF rvars, vars, motion, IsText, Coap!getContentFormat
<1> QED BY <1>1, <1>2, <1>3, <1>4, <1>5, <1>6, <1>7, <1>8 DEF RNext, MotionStep

\* With cooperative threads the speed a client reads is the one the bridge delivers as
\* the answer goes out, and the acceleration the order in force (AnswerIsTrue).
THEOREM AnswersAreTrue ==
    ASSUME Preemptive = {}
    PROVE  RSpec => AnswerIsTrue
<1> DEFINE Told == outbox' > outbox =>
                     /\ IsText => in1 - in2 = Bridge!OutputOf(response, data_direction)
                     /\ request.uri = "acceleration" => response = accel_order
<1>1. RInit => BridgeInv /\ AnswerInv
  BY BridgeInit DEF RInit, Coap!Init, AnswerInv, Coap!Steps
<1>2. BridgeInv /\ AnswerInv /\ [RNext]_rvars => BridgeInv' /\ AnswerInv'
  BY MotionSimulated, BridgeStepInv, AnswerStep
<1>3. BridgeInv /\ AnswerInv /\ [RNext]_rvars => [Told]_rvars
  <2> SUFFICES ASSUME BridgeInv, AnswerInv, [RNext]_rvars, outbox' > outbox
               PROVE  Told
    OBVIOUS
  <2>1. pc = "send"
    <3>1. CASE Receive
      <4>1. outbox' = outbox
        BY <3>1 DEF Receive, Coap!Receive, Coap!OtherRequest, Coap!speed_request_handler,
           Coap!acceleration_request_handler, Coap!direction_request_handler,
           Coap!stop_request_handler, Coap!name_request_handler,
           Coap!ble_recovery_request_handler, Coap!well_known_core_request_handler,
           Coap!coap_default_handler, Coap!Call, Coap!Ignore, Coap!NewMessage, Coap!message
      <4> QED BY <4>1 DEF AnswerInv
    <3>2. CASE Answering
      BY <3>2 DEF AnswerInv, Answering, Coap!Answering, Coap!BuildStep, Coap!SendResponse, Coap!GiveUp
    <3>3. CASE CallbackDone \/ Transmit \/ loki_coap_init \/ MotionStep \/ UNCHANGED rvars
      BY <3>3 DEF AnswerInv, CallbackDone, Transmit, loki_coap_init, MotionStep, Coap!CallbackDone,
         Coap!Transmit, Coap!loki_coap_init, Coap!MotionChanges, Coap!message, rvars
    <3> QED BY <3>1, <3>2, <3>3 DEF RNext
  <2>2. ~ UpdatingSpeed
    BY <2>1 DEF AnswerInv, Coap!Steps, YieldPoints, DisplayCalls, NotifyCalls, UpdatingSpeed,
       Updating
  <2>3. in1 - in2 = Bridge!OutputOf(speed_value, data_direction)
    BY <2>2, AtRestCarriedOut DEF Bridge!CarriedOut
  <2> QED BY <2>1, <2>3 DEF AnswerInv, Coap!Steps
<1> QED BY <1>1, <1>2, <1>3, PTL DEF RSpec, AnswerIsTrue, IsText
=============================================================================
