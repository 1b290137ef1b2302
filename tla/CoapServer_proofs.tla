-------------------------- MODULE CoapServer_proofs --------------------------
(***************************************************************************)
(* Proofs about CoapServer, for any number of buffers and any requests.    *)
(***************************************************************************)
EXTENDS CoapServer, TLAPS

-----------------------------------------------------------------------------
(* The message buffers.                                                    *)

PoolInv == pc \in Steps \cup {"idle", "callback"} /\ free \in Nat /\ outbox \in Nat /\ PoolRestored

\* What a request's handler does to the buffers: nothing, or it takes one.
LEMMA HandlersTake ==
    ASSUME PoolInv, NEW m, Receive(m)
    PROVE  PoolInv'
<1> USE ServerAssumption DEF PoolInv, PoolRestored, Steps
<1>1. pc = "idle" BY DEF Receive
<1>2. \/ pc' \in {"idle", "callback"} /\ UNCHANGED <<free, outbox>>
      \/ pc' = "token" /\ free # 0 /\ free' = free - 1 /\ outbox' = outbox
  BY <1>1 DEF Receive, OtherRequest, speed_request_handler, acceleration_request_handler,
         direction_request_handler, stop_request_handler, name_request_handler,
         ble_recovery_request_handler, well_known_core_request_handler,
         coap_default_handler, Call, Ignore, NewMessage, message
<1>3. CASE pc' \in {"idle", "callback"} /\ UNCHANGED <<free, outbox>>
  BY <1>1, <1>3
<1>4. CASE pc' = "token" /\ free # 0 /\ free' = free - 1 /\ outbox' = outbox
  BY <1>1, <1>4
<1> QED BY <1>2, <1>3, <1>4

LEMMA PoolStep == PoolInv /\ [Next]_vars => PoolInv'
<1> USE ServerAssumption DEF PoolInv, PoolRestored, Steps
<1> SUFFICES ASSUME PoolInv, [Next]_vars PROVE PoolInv'
  OBVIOUS
<1>1. CASE loki_coap_init
  BY <1>1 DEF loki_coap_init, message
<1>2. ASSUME NEW m \in Requests, Receive(m) PROVE PoolInv'
  BY <1>2, HandlersTake
<1>3. CASE BuildStep
  BY <1>3 DEF BuildStep, After
<1>4. CASE SendResponse
  BY <1>4 DEF SendResponse, Return
<1>5. CASE GiveUp \/ CallbackDone
  BY <1>5 DEF GiveUp, CallbackDone, Return
<1>6. CASE Transmit
  BY <1>6 DEF Transmit
<1>7. ASSUME NEW s \in Speeds, NEW a \in Orders, MotionChanges(s, a) PROVE PoolInv'
  BY <1>7 DEF MotionChanges
<1>8. CASE UNCHANGED vars
  BY <1>8 DEF vars, message
<1> QED BY <1>1, <1>2, <1>3, <1>4, <1>5, <1>6, <1>7, <1>8 DEF Next, Answering

\* No answer leaks its buffer or frees it twice, wherever building it fails:
\* PoolRestored holds however many buffers there are.
THEOREM NothingLeaks == Spec => []PoolRestored
<1> USE ServerAssumption DEF PoolInv, PoolRestored, Steps
<1>1. Init => PoolInv
  BY DEF Init
<1>2. PoolInv => PoolRestored
  OBVIOUS
<1> QED BY <1>1, PoolStep, <1>2, PTL DEF Spec

-----------------------------------------------------------------------------
(* What is answered.                                                       *)

Asked == {"speed", "acceleration", ".well-known/core"}

\* What the resource asked for holds now.
Holds == CASE request.uri = "speed" -> speed_value
           [] request.uri = "acceleration" -> accel_order
           [] OTHER -> "link-format"

AsText == request.uri = "speed" => getContentFormat(request) = "text"

\* While an answer is built, seen has what the resource holds now; from the
\* formatting on it has the text, and at the end it has the response.
AnswerInv ==
    /\ pc \in Steps \cup {"idle", "callback"}
    /\ pc \in Steps => request.uri \in Asked /\ Holds \in seen
    /\ pc \in {"marker", "append", "send"} /\ request.uri = "speed" /\ AsText
        => payload \in seen
    /\ pc = "send" /\ AsText => response \in seen

\* A request starts with what the resource holds when it arrives.
LEMMA HandlersAsk ==
    ASSUME AnswerInv, NEW m, Receive(m)
    PROVE  AnswerInv'
<1> USE DEF AnswerInv, Steps, Asked, Holds
<1>1. pc = "idle" /\ (pc' = "token" => request' = m) /\ UNCHANGED motion BY DEF Receive
<1>2. CASE m.uri = "speed"
  BY <1>1, <1>2 DEF Receive, speed_request_handler, Call, Ignore, NewMessage, message, motion
<1>3. CASE m.uri = "acceleration"
  BY <1>1, <1>3 DEF Receive, OtherRequest, acceleration_request_handler,
         Call, Ignore, NewMessage, message, motion
<1>4. CASE m.uri = ".well-known/core"
  BY <1>1, <1>4 DEF Receive, OtherRequest, well_known_core_request_handler,
         Ignore, NewMessage, message, motion
<1>5. CASE m.uri \notin Asked
  BY <1>1, <1>5 DEF Receive, OtherRequest, direction_request_handler, stop_request_handler,
     name_request_handler, ble_recovery_request_handler, coap_default_handler,
     Call, Ignore, message
<1> QED BY <1>2, <1>3, <1>4, <1>5

\* One step of the building, the formatting and the copying among them.
LEMMA BuildingKeeps ==
    ASSUME AnswerInv, BuildStep, UNCHANGED motion
    PROVE  AnswerInv'
<1> USE DEF AnswerInv, Steps, Asked, Holds, BuildStep, motion, AsText, getContentFormat
<1>1. CASE pc = "token"
  BY <1>1 DEF After
<1>2. CASE pc = "format"
  BY <1>2 DEF After, FormatSpeed
<1>3. CASE pc = "marker"
  BY <1>3 DEF After
<1>4. CASE pc = "append"
  BY <1>4 DEF After, Content
<1> QED BY <1>1, <1>2, <1>3, <1>4

\* Every step of the server keeps the answer under construction a value seen.
LEMMA AnswerInvInductive ==
    ASSUME AnswerInv, [Next]_vars
    PROVE  AnswerInv'
<1> USE DEF AnswerInv, Steps
<1>1. CASE loki_coap_init
  BY <1>1 DEF loki_coap_init, message, motion, Holds, AsText, getContentFormat
<1>2. ASSUME NEW m \in Requests, Receive(m) PROVE AnswerInv'
  BY <1>2, HandlersAsk
<1>3. CASE BuildStep /\ UNCHANGED <<server, order, speed_input_value, motion>>
  BY <1>3, BuildingKeeps
<1>4. CASE SendResponse \/ GiveUp \/ CallbackDone
  BY <1>4 DEF SendResponse, GiveUp, CallbackDone, Return
<1>5. CASE Transmit
  BY <1>5 DEF Transmit, motion, Holds, AsText, getContentFormat
<1>6. ASSUME NEW s \in Speeds, NEW a \in Orders, MotionChanges(s, a) PROVE AnswerInv'
  BY <1>6 DEF MotionChanges, Holds, AsText, getContentFormat, Asked
<1>7. CASE UNCHANGED vars
  BY <1>7 DEF vars, message, motion, Holds, AsText, getContentFormat
<1> QED BY <1>1, <1>2, <1>3, <1>4, <1>5, <1>6, <1>7 DEF Next, Answering

\* What is answered was true while the request was handled (AnswerIsCurrent),
\* whatever the motion does and whatever the static buffer held before.
THEOREM AnswersAreCurrent == Spec => AnswerIsCurrent
<1>1. Init => PoolInv /\ AnswerInv
  BY ServerAssumption DEF Init, PoolInv, PoolRestored, AnswerInv, Steps
<1>2. PoolInv /\ AnswerInv /\ [Next]_vars => PoolInv' /\ AnswerInv'
  BY PoolStep, AnswerInvInductive
<1>3. PoolInv /\ AnswerInv /\ [Next]_vars =>
        [/\ outbox' > outbox
         /\ request.uri = "speed" => getContentFormat(request) = "text"
         => response \in seen]_vars
  <2> SUFFICES ASSUME PoolInv, AnswerInv, [Next]_vars, outbox' > outbox, AsText
               PROVE  response \in seen
    BY DEF AsText
  <2>1. SendResponse
    BY DEF PoolInv, Next, vars, loki_coap_init, Receive, OtherRequest, Answering, BuildStep, GiveUp,
           CallbackDone, Return, Transmit, MotionChanges, speed_request_handler,
           acceleration_request_handler, direction_request_handler, stop_request_handler,
           name_request_handler, ble_recovery_request_handler,
           well_known_core_request_handler, coap_default_handler, Call, Ignore, NewMessage,
           message
  <2> QED BY <2>1 DEF SendResponse, AnswerInv
<1> QED BY <1>1, <1>2, <1>3, PTL DEF Spec, AnswerIsCurrent

-----------------------------------------------------------------------------
(* Types.                                                                   *)

Fits(callback) ==
    callback # None =>
        callback.arg \in CASE callback.op = "acceleration" -> -128 .. 127
                           [] callback.op = "name" -> 1 .. MAX_LEN_FULL_NAME
                           [] OTHER -> 0 .. 255
OrderType == Fits(order)

\* The buffer holds bytes, and its last one is never written.
BufferType == speed_input_value \in [1 .. 5 -> 0 .. 255] /\ speed_input_value[5] = 0

TypeInv ==
    /\ PoolInv /\ OrderType
    /\ server \in {"off", "started", "failed"}
    /\ request \in Requests \cup {None}
    /\ speed_value \in Speeds \cup {0} /\ accel_order \in Orders \cup {0}
    /\ payload \in Speeds \cup {0, None}
    /\ BufferType

\* A text is of bytes, a byte a byte and a length a length, whatever the request says
\* of itself.
LEMMA PayloadTyped ==
    ASSUME NEW m \in Requests
    PROVE  /\ m.uri = "speed" => m.payload \in {NoPayload} \cup Texts
           /\ m.uri \in {"acceleration", "direction"} => m.payload \in {NoPayload} \cup 0 .. 255
           /\ m.uri = "name" => m.payload \in {NoPayload} \cup Lengths
<1>1. PICK u \in URIs : m \in
        [uri : {u}, type : {"NON", "CON"}, code : {"GET", "PUT", "POST"},
         format : IF u = "speed" THEN Formats ELSE {"absent"}, payload : Payloads(u)]
  BY DEF Requests
<1>2. m.uri = u /\ m.payload \in Payloads(u)
  BY <1>1
<1> QED BY <1>2, ServerAssumption DEF Payloads

\* The byte of an acceleration, read into an int8_t.
LEMMA ByteSigned ==
    ASSUME NEW b \in 0 .. 255
    PROVE  (IF b < 128 THEN b ELSE b - 256) \in -128 .. 127
  OBVIOUS

\* What is read of a text is at most four bytes, and no more than it has.
LEMMA AtMostFour ==
    ASSUME NEW k \in Nat
    PROVE  (IF k < 4 THEN k ELSE 4) \in 0 .. 4 /\ (IF k < 4 THEN k ELSE 4) =< k
  OBVIOUS

\* A speed that is obeyed fits a uint8_t.
LEMMA SpeedFits == 0 .. MaxSpeed \subseteq 0 .. 255
  BY ServerAssumption

\* Copying the beginning of a text over a buffer leaves the buffer of its kind.
LEMMA Overwritten ==
    ASSUME NEW Char, 0 \in Char, NEW buffer \in [1 .. 5 -> Char], NEW text \in Seq(Char),
           NEW n \in Nat, n =< Len(text)
    PROVE  [i \in 1 .. 5 |-> IF i =< n THEN text[i] ELSE IF i = n + 1 THEN 0 ELSE buffer[i]]
                \in [1 .. 5 -> Char]
  OBVIOUS

\* No text is written past the buffer's end or leaves it without one.
LEMMA BufferTyped ==
    ASSUME BufferType, NEW m \in Requests, Receive(m)
    PROVE  BufferType'
<1>1. CASE speed_input_value' = speed_input_value
  BY <1>1 DEF BufferType
<1>2. CASE m.uri = "speed" /\ m.payload # NoPayload /\ speed_input_value' = ReadText(m.payload)
  <2> DEFINE text == m.payload
             n == IF Len(text) < 4 THEN Len(text) ELSE 4
  <2>1. text \in Seq(0 .. 255) /\ Len(text) \in Nat
    BY <1>2, PayloadTyped, TextAssumption
  <2>2. n \in 0 .. 4 /\ n =< Len(text)
    BY <2>1, AtMostFour, Zenon
  <2>3. speed_input_value' =
          [i \in 1 .. 5 |-> IF i =< n THEN text[i]
                            ELSE IF i = n + 1 THEN 0 ELSE speed_input_value[i]]
    BY <1>2 DEF ReadText
  <2> HIDE DEF text, n
  <2>4. speed_input_value' \in [1 .. 5 -> 0 .. 255]
    <3>1. 0 \in 0 .. 255 /\ n \in Nat
      BY <2>2
    <3>2. speed_input_value \in [1 .. 5 -> 0 .. 255]
      BY DEF BufferType
    <3> DEFINE Char == 0 .. 255
    <3>3. 0 \in Char /\ speed_input_value \in [1 .. 5 -> Char] /\ text \in Seq(Char)
      BY <2>1, <3>1, <3>2
    <3> HIDE DEF Char
    <3>4. speed_input_value' \in [1 .. 5 -> Char]
      BY <2>2, <2>3, <3>1, <3>3, Overwritten
    <3> QED BY <3>4 DEF Char
  <2>5. speed_input_value'[5] = 0
    <3>1. speed_input_value'[5] =
            IF 5 =< n THEN text[5] ELSE IF 5 = n + 1 THEN 0 ELSE speed_input_value[5]
      BY <2>3
    <3> QED BY <2>2, <3>1 DEF BufferType
  <2> QED BY <2>4, <2>5 DEF BufferType
<1> QED BY <1>1, <1>2 DEF Receive, speed_request_handler

\* Whatever a request asks for, the callback it begins gets an argument of its type.
LEMMA OrderTyped ==
    ASSUME OrderType, NEW m \in Requests, Receive(m)
    PROVE  OrderType'
<1>0. CASE order' = order
  BY <1>0 DEF OrderType
<1> USE ServerAssumption DEF OrderType, Fits, Call, Ignore, NewMessage
<1>1. CASE m.uri = "speed" /\ speed_request_handler(m)
  <2>1. ASSUME NEW n \in 0 .. MaxSpeed, order' = [op |-> "speed", arg |-> n] PROVE OrderType'
    <3>1. n \in 0 .. 255
      BY <2>1, SpeedFits
    <3> QED BY <2>1, <3>1
  <2> QED BY <1>0, <1>1, <2>1 DEF speed_request_handler, message
<1>2. CASE m.uri = "acceleration" /\ acceleration_request_handler(m)
  <2>1. m.payload \in {NoPayload} \cup 0 .. 255
    BY <1>2, PayloadTyped
  <2>2. PICK n : n = IF m.payload < 128 THEN m.payload ELSE m.payload - 256
    OBVIOUS
  <2>3. m.payload # NoPayload => n \in -128 .. 127
    <3> HIDE DEF OrderType, Fits
    <3>1. m.payload # NoPayload => m.payload \in 0 .. 255
      BY <2>1
    <3> QED BY <2>2, <3>1, ByteSigned
  <2>4. CASE m.payload # NoPayload /\ order' = [op |-> "acceleration", arg |-> n]
    BY <2>3, <2>4
  <2>5. CASE order' = order
    BY <1>0, <2>5
  <2> QED BY <1>2, <2>2, <2>4, <2>5 DEF acceleration_request_handler
<1>3. CASE m.uri = "direction" /\ direction_request_handler(m)
  <2>1. m.payload \in {NoPayload} \cup 0 .. 255
    BY <1>3, PayloadTyped
  <2>2. CASE m.payload # NoPayload /\ order' = [op |-> "direction", arg |-> m.payload]
    BY <2>1, <2>2
  <2> QED BY <1>0, <1>3, <2>2 DEF direction_request_handler
<1>4. CASE m.uri = "name" /\ name_request_handler(m)
  <2>1. m.payload \in {NoPayload} \cup Lengths
    BY <1>4, PayloadTyped
  <2>2. CASE m.payload # NoPayload /\ \E n \in 1 .. MAX_LEN_FULL_NAME :
                                         order' = [op |-> "name", arg |-> n]
    BY <2>2
  <2> QED BY <1>0, <1>4, <2>1, <2>2 DEF name_request_handler
<1>5. CASE stop_request_handler(m) \/ ble_recovery_request_handler(m)
  BY <1>5 DEF stop_request_handler, ble_recovery_request_handler
<1>6. CASE well_known_core_request_handler(m) \/ coap_default_handler(m)
  BY <1>0, <1>6 DEF well_known_core_request_handler, coap_default_handler, message
<1> QED BY <1>1, <1>2, <1>3, <1>4, <1>5, <1>6 DEF Receive, OtherRequest

\* Every variable stays in its type (TypeOK): a callback's argument fits the type the
\* C code passes it in, for any requests.
THEOREM ServerTyped == Spec => []TypeOK
<1>1. Init => TypeInv
  BY ServerAssumption DEF Init, TypeInv, PoolInv, PoolRestored, Steps, OrderType, Fits, BufferType
<1>2. TypeInv /\ [Next]_vars => TypeInv'
  <2> SUFFICES ASSUME TypeInv, [Next]_vars PROVE TypeInv'
    OBVIOUS
  <2>0. PoolInv'
    BY PoolStep DEF TypeInv
  <2> USE DEF TypeInv, OrderType
  <2>1. CASE loki_coap_init
    BY <2>0, <2>1 DEF loki_coap_init, message, motion, BufferType
  <2>2. ASSUME NEW m \in Requests, Receive(m) PROVE TypeInv'
    <3>1. OrderType'
      BY <2>2, OrderTyped
    <3>2. request' \in {m, None} /\ UNCHANGED <<server, speed_value, accel_order>>
      BY <2>2 DEF Receive, motion
    <3>3. payload' = payload
      BY <2>2 DEF Receive, OtherRequest, speed_request_handler, acceleration_request_handler,
         direction_request_handler, stop_request_handler, name_request_handler,
         ble_recovery_request_handler, well_known_core_request_handler,
         coap_default_handler, Call, Ignore, NewMessage, message
    <3>4. BufferType'
      BY <2>2, BufferTyped
    <3> QED BY <2>0, <3>1, <3>2, <3>3, <3>4
  <2>3. CASE BuildStep /\ UNCHANGED <<server, order, speed_input_value, motion>>
    BY <2>0, <2>3 DEF BuildStep, FormatSpeed, motion, BufferType
  <2>4. CASE (SendResponse \/ GiveUp) /\ UNCHANGED <<server, order, speed_input_value, motion>>
    BY <2>0, <2>4 DEF SendResponse, GiveUp, Return, motion, BufferType
  <2>8. CASE CallbackDone
    <3>1. Fits(order)'
      BY <2>8 DEF CallbackDone, Fits
    <3> QED BY <2>0, <2>8, <3>1 DEF CallbackDone, Return, motion, BufferType
  <2>5. CASE Transmit
    BY <2>0, <2>5 DEF Transmit, motion, BufferType
  <2>6. ASSUME NEW s \in Speeds, NEW a \in Orders, MotionChanges(s, a) PROVE TypeInv'
    BY <2>0, <2>6 DEF MotionChanges, BufferType
  <2>7. CASE UNCHANGED vars
    BY <2>0, <2>7 DEF vars, message, motion, BufferType
  <2> QED BY <2>1, <2>2, <2>3, <2>4, <2>5, <2>6, <2>7, <2>8 DEF Next, Answering
<1>3. TypeInv => TypeOK
  BY ServerAssumption DEF TypeInv, PoolInv, PoolRestored, OrderType, Fits, TypeOK, Steps, BufferType
<1> QED BY <1>1, <1>2, <1>3, PTL DEF Spec
=============================================================================
