--------------------------- MODULE RemoteControl ---------------------------
(***************************************************************************)
(* LokiMotion behind the CoAP server: main() passes its handlers to        *)
(* loki_coap_init() as callbacks (src/main.c:683-690), and the server      *)
(* answers from the globals that the ramp and the GATT handlers write.     *)
(*                                                                         *)
(* The server's handlers run on the OpenThread thread, "ot" in LokiMotion. *)
(* A callback is a handler of LokiMotion, which may wait for the display.  *)
(* An answer is built without waiting: while it is, no other thread runs   *)
(* unless "ot" is preemptible, but interrupts do.                          *)
(***************************************************************************)
EXTENDS LokiMotion, Sequences

CONSTANTS PoolSize, Texts, Bytes, Lengths, MAX_LEN_FULL_NAME, NoPayload, None

VARIABLES server, request, pc, response, payload, speed_input_value, free, outbox, order, seen

\* The orders that change_direction() gives by itself.
Brakes == {-(v \div BrakeDivisor) : v \in Speed}

Coap == INSTANCE CoapServer WITH
    MaxSpeed <- SpeedSteps, Speeds <- Speed, Orders <- Orders \cup Brakes

\* The byte of /acceleration as the int8_t it is read into.
Signed(b) == IF b < 128 THEN b ELSE b - 256

\* Speeds are a uint8_t, orders an int8_t, and what LokiMotion takes from clients
\* includes what this server can be sent.
ASSUME RemoteAssumption ==
    /\ SpeedSteps =< 255 /\ BrakeDivisor >= 2
    /\ Orders \subseteq -128 .. 127
    /\ Bytes \subseteq Patterns \cap (0 .. 255)
    /\ \A b \in Bytes : Signed(b) \in Orders
    /\ PoolSize \in Nat \ {0} /\ MAX_LEN_FULL_NAME \in Nat \ {0}
    /\ Lengths \subseteq Nat \ {0}
    /\ NoPayload \notin Int

ASSUME RemoteTexts == Texts \subseteq Seq(0 .. 255) \ {<<>>} /\ NoPayload \notin Texts

rvars == <<vars, server, request, pc, response, payload, speed_input_value, free, outbox, order,
           seen>>

RInit == Init /\ Coap!Init

-----------------------------------------------------------------------------
\* Mutant: two callbacks of the same C type change places.
ObeySwapped(callback) ==
    \/ callback.op = "speed" /\ direction_request(callback.arg)
    \/ callback.op = "acceleration" /\ acceleration_request(callback.arg)
    \/ callback.op = "direction" /\ speed_request(callback.arg)
    \/ callback.op = "stop" /\ stop_request
    \/ callback.op \in {"name", "ble-recovery"} /\ UNCHANGED vars

\* The callbacks as main() passes them, change_speed_directly() first; the last two,
\* modify_full_name() and ble_lifecycle_force_recovery(), are no concern of motion.
Obey(callback) ==
    \/ callback.op = "speed" /\ speed_request(callback.arg)
    \/ callback.op = "acceleration" /\ acceleration_request(callback.arg)
    \/ callback.op = "direction" /\ direction_request(callback.arg)
    \/ callback.op = "stop" /\ stop_request
    \/ callback.op \in {"name", "ble-recovery"} /\ UNCHANGED vars

Receive ==
    /\ At("ot", "idle")
    /\ \E m \in Coap!Requests : Coap!Receive(m)
    /\ IF pc' = "callback" THEN Obey(order') ELSE UNCHANGED vars

\* The callback has come back.
CallbackDone == At("ot", "idle") /\ Coap!CallbackDone /\ UNCHANGED vars

Answering == At("ot", "idle") /\ Coap!Answering /\ UNCHANGED vars

\* OpenThread's own work, on its thread; main() has OpenThread's mutex when it
\* starts the server.
Transmit == At("ot", "idle") /\ pc = "idle" /\ Coap!Transmit /\ UNCHANGED vars
loki_coap_init == At("ot", "idle") /\ Coap!loki_coap_init /\ UNCHANGED vars

GattRequest ==
    \/ \E v \in Speed : write_speed(v)
    \/ \E a \in Orders : write_accelation(a)
    \/ \E p \in Patterns : write_direction(p)
    \/ \E base \in PwmBases : write_pwm(base)
    \/ \E enable \in BOOLEAN : speed_ccc_cfg_changed(enable)

\* A thread that is building an answer keeps the CPU like any other.
ServerYields == pc \notin Coap!Steps \/ "ot" \in Preemptive

MotionStep ==
    /\ \/ /\ ServerYields
          /\ GattRequest \/ (\E t \in Threads : Step(t)) \/ TickBegin \/ TickEnd
       \/ re_apply_acceleration
    /\ Coap!MotionChanges(speed_value', accel_order')

RNext ==
    \/ Receive
    \/ CallbackDone
    \/ Answering
    \/ Transmit
    \/ loki_coap_init
    \/ MotionStep

RSpec == RInit /\ [][RNext]_rvars

-----------------------------------------------------------------------------
(* Properties                                                               *)

\* The motion underneath is all that CoapServer supposes of it (MotionChanges), and
\* the server is one of CoapServer: what is proved of it alone holds here.
ImplementsServer == Coap!Spec

\* What a client reads of the speed is what the bridge delivers when the answer is
\* sent, and what it reads of the acceleration is the order in force: however ramp
\* steps, GATT writes and CoAP orders interleave, no answer is of a speed that is
\* only half carried out or just replaced (loki_coap_utils.c:258, main_loki.c:121-133).
AnswerIsTrue ==
    [][outbox' > outbox =>
          /\ request.uri = "speed" /\ Coap!getContentFormat(request) = "text" =>
                in1 - in2 = Bridge!OutputOf(response, data_direction)
          /\ request.uri = "acceleration" => response = accel_order]_rvars

\* What the OpenThread thread carries out is the callback the server began, with its
\* argument: the driver is given the speed, the direction check the pattern, the ramp
\* the acceleration (or a brake), though nothing but the place of an argument binds
\* the callbacks and two of them have the same C type (main.c:683-690,
\* loki_coap_utils.c:31-33), and the thread waits for the display on its way.
ClientObeyed ==
    /\ Updating("ot") /\ th["ot"].job = "direct" => order = [op |-> "speed", arg |-> th["ot"].arg]
    /\ Updating("ot") /\ th["ot"].job = "stop" => order.op = "stop" /\ th["ot"].arg = 0
    /\ th["ot"].pc \in {"checkDir", "setDir", "dirDisplay", "dirStore"} =>
        order = [op |-> "direction", arg |-> th["ot"].arg]
    /\ th["ot"].pc = "orderAccel" =>
        \/ order = [op |-> "acceleration", arg |-> th["ot"].arg]
        \/ order.op = "direction" /\ th["ot"].arg =< 0
=============================================================================
