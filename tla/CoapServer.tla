----------------------------- MODULE CoapServer -----------------------------
(***************************************************************************)
(* The CoAP server of src/loki_coap_utils.c: which requests it obeys, what *)
(* it answers, and what becomes of the message buffers its answers take.   *)
(*                                                                         *)
(* The handlers run on the OpenThread thread, one request at a time.  An   *)
(* order is handed to a callback, which takes its time (RemoteControl puts *)
(* LokiMotion in its place, BleLifecycle and SrpServices model the other   *)
(* two); an answer is built in steps, each of which may run out of buffers,*)
(* and the motion may change between any two of them: the Bluetooth thread *)
(* and the ramp write what the answer reads.                               *)
(*                                                                         *)
(* A request's payload is for /speed its text, byte for byte, for          *)
(* /acceleration and /direction the byte, for /name the length.  Lost,     *)
(* repeated and reordered requests are arrivals like any other.            *)
(***************************************************************************)
EXTENDS Integers, Sequences

CONSTANTS
    PoolSize,       \* OpenThread's message buffers
    Speeds,         \* values speed_value takes
    Orders,         \* values accel_order takes
    MaxSpeed,       \* the largest speed a client may order: 255
    Texts,          \* texts a client may PUT to /speed
    Bytes,          \* bytes a client may PUT to /acceleration and /direction
    Lengths,        \* lengths of the names a client may PUT to /name
    MAX_LEN_FULL_NAME,
    NoPayload,
    None            \* no request, no response, no order, no text yet

ASSUME ServerAssumption ==
    /\ PoolSize \in Nat \ {0}
    /\ MaxSpeed \in 0 .. 255
    /\ Speeds \subseteq 0 .. 255 /\ Orders \subseteq -128 .. 127
    /\ Bytes \subseteq 0 .. 255
    /\ Lengths \subseteq Nat \ {0} /\ MAX_LEN_FULL_NAME \in Nat \ {0}
    /\ NoPayload \notin Int

ASSUME TextAssumption == Texts \subseteq Seq(0 .. 255) \ {<<>>} /\ NoPayload \notin Texts

VARIABLES
    server,         \* loki_coap_init() has not run, failed, or started it
    request,        \* the request being answered
    pc,             \* where its handler is
    response,       \* content of the response being built
    payload,        \* speed_request_handler's static payload[]: the number in it ...
    speed_input_value, \* ... and its other static buffer, for the text of a PUT
    free,           \* message buffers left
    outbox,         \* responses OpenThread has still to send
    speed_value, accel_order,
    order,          \* the callback under way, if any: [op, arg]
    seen            \* history: values the resource asked for had since the request came

message == <<pc, response, payload, free, outbox, seen>>
motion == <<speed_value, accel_order>>
vars == <<server, request, order, message, speed_input_value, motion>>

-----------------------------------------------------------------------------
URIs == {"speed", "acceleration", "direction", "stop", "name",
         "ble-recovery", ".well-known/core", "unknown"}
Formats == {"absent", "text", "octet", "other"}
Payloads(uri) ==
    {NoPayload} \cup (CASE uri = "speed" -> Texts
                        [] uri \in {"acceleration", "direction"} -> Bytes
                        [] uri = "name" -> Lengths
                        [] OTHER -> {})
Requests ==
    UNION {[uri : {u}, type : {"NON", "CON"}, code : {"GET", "PUT", "POST"},
            format : IF u = "speed" THEN Formats ELSE {"absent"},
            payload : Payloads(u)] : u \in URIs}
Steps == {"token", "format", "marker", "append", "send"}

Init ==
    /\ server = "off" /\ request = None /\ pc = "idle"
    /\ response = None /\ payload = None /\ speed_input_value = [i \in 1 .. 5 |-> 0]
    /\ free = PoolSize /\ outbox = 0
    /\ speed_value = 0 /\ accel_order = 0
    /\ order = None /\ seen = {}

-----------------------------------------------------------------------------
(* What a handler does with a request.                                     *)

\* getContentFormat(): without the option, text/plain.
getContentFormat(m) == IF m.format = "absent" THEN "text" ELSE m.format

Ignore == UNCHANGED <<order, message>>

\* A callback of srv_context begins.
Call(op, arg) ==
    /\ pc' = "callback"
    /\ order' = [op |-> op, arg |-> arg]
    /\ UNCHANGED <<response, payload, free, outbox, seen>>

\* otCoapNewMessage(): without a buffer there is no answer.
NewMessage(current) ==
    /\ IF free = 0
       THEN UNCHANGED <<pc, free, seen>>
       ELSE pc' = "token" /\ free' = free - 1 /\ seen' = current
    /\ UNCHANGED <<response, payload, outbox, order>>

NonConfirmable(m, code) == m.type = "NON" /\ m.code = code

\* The bytes that strtoul() tells apart.
IsDigit(c) == c \in 48 .. 57
IsBlank(c) == c \in {32} \cup 9 .. 13
IsSign(c) == c \in {43, 45}

\* strtoul(): blanks, a sign, digits up to the first other byte.  Without a digit there
\* is no number, -1 here.  A number below 0 stays what it is: C's is modulo 2^32, and of
\* no more than three digits, so neither is a speed.
strtoul(buffer) ==
    LET sign == CHOOSE i \in 1 .. 5 :
                   ~IsBlank(buffer[i]) /\ \A j \in 1 .. i - 1 : IsBlank(buffer[j])
        from == IF IsSign(buffer[sign]) THEN sign + 1 ELSE sign
        end == CHOOSE i \in from .. 5 :
                   ~IsDigit(buffer[i]) /\ \A j \in from .. i - 1 : IsDigit(buffer[j])
        number[i \in from .. end] ==
            IF i = from THEN 0 ELSE 10 * number[i - 1] + buffer[i - 1] - 48
    IN  IF end = from THEN -1
        ELSE IF buffer[sign] = 45 THEN -number[end]
        ELSE number[end]

\* Mutant: the text is not terminated.
OtMessageReadOnly(text) ==
    [i \in 1 .. 5 |-> IF i =< Len(text) /\ i =< 4 THEN text[i] ELSE speed_input_value[i]]

\* otMessageRead() of at most four bytes, and the byte that ends them.
ReadText(text) ==
    LET n == IF Len(text) < 4 THEN Len(text) ELSE 4
    IN  [i \in 1 .. 5 |-> IF i =< n THEN text[i]
                          ELSE IF i = n + 1 THEN 0 ELSE speed_input_value[i]]

\* PUT: a number that fits a uint8_t.
speed_request_handler(m) ==
    LET put == NonConfirmable(m, "PUT") /\ m.payload # NoPayload
        parsed == strtoul(speed_input_value')
    IN  \/ /\ put
           /\ speed_input_value' = ReadText(m.payload)
           /\ IF parsed \in 0 .. MaxSpeed THEN Call("speed", parsed) ELSE Ignore
        \/ /\ ~put
           /\ UNCHANGED speed_input_value
           /\ IF NonConfirmable(m, "GET") THEN NewMessage({speed_value}) ELSE Ignore

\* PUT: one byte, an int8_t.
acceleration_request_handler(m) ==
    LET obeyed == NonConfirmable(m, "PUT") /\ m.payload # NoPayload
    IN  \/ /\ obeyed
           /\ Call("acceleration",
                   IF m.payload < 128 THEN m.payload ELSE m.payload - 256)
        \/ NonConfirmable(m, "GET") /\ NewMessage({accel_order})
        \/ ~ obeyed /\ ~ NonConfirmable(m, "GET") /\ Ignore

direction_request_handler(m) ==
    IF NonConfirmable(m, "PUT") /\ m.payload # NoPayload
    THEN Call("direction", m.payload)
    ELSE Ignore

\* These three look at neither the type nor the code.
stop_request_handler(m) == Call("stop", 0)

name_request_handler(m) ==
    IF m.payload # NoPayload
    THEN Call("name", IF m.payload > MAX_LEN_FULL_NAME
                      THEN MAX_LEN_FULL_NAME ELSE m.payload)
    ELSE Ignore

ble_recovery_request_handler(m) == Call("ble-recovery", 0)

well_known_core_request_handler(m) ==
    IF NonConfirmable(m, "GET") THEN NewMessage({"link-format"}) ELSE Ignore

coap_default_handler(m) == Ignore

-----------------------------------------------------------------------------
(* Building the response.  Every step but the first and the last has the   *)
(* same two outcomes: it is done, or the message is freed.                 *)

\* /acceleration answers without a Content-Format option.
After(step) ==
    CASE step = "token" -> IF request.uri = "acceleration" THEN "marker" ELSE "format"
      [] step = "format" -> "marker"
      [] step = "marker" -> "append"
      [] step = "append" -> "send"

\* Mutant: a buffer that is filled once.
FormatOnce == payload' = IF payload = None THEN speed_value ELSE payload

\* snprintk("%u", speed_value) into the static buffer.
FormatSpeed == payload' = speed_value

\* A number in decimal, and what the first byte of the buffer holds: its first
\* digit, or the initial 0.
Decimal(n) ==
    (IF n >= 100 THEN <<48 + (n \div 100)>> ELSE <<>>)
    \o (IF n >= 10 THEN <<48 + ((n \div 10) % 10)>> ELSE <<>>)
    \o <<48 + (n % 10)>>
FirstByte(n) == IF n = None THEN 0 ELSE Head(Decimal(n))

\* What otMessageAppend() copies.
Content ==
    CASE request.uri = "acceleration" -> accel_order
      [] request.uri = ".well-known/core" -> "link-format"
      [] request.uri = "speed" ->
            IF getContentFormat(request) = "text" THEN payload
            ELSE FirstByte(payload)

BuildStep ==
    /\ pc \in Steps \ {"send"}
    /\ pc' = After(pc)
    /\ IF pc = "format" /\ request.uri = "speed" /\ getContentFormat(request) = "text"
       THEN FormatSpeed
       ELSE UNCHANGED payload
    /\ response' = IF pc = "append" THEN Content ELSE response
    /\ UNCHANGED <<request, free, outbox, seen>>

\* The handler returns; OpenThread frees the request.
Return == pc' = "idle" /\ request' = None /\ response' = None /\ seen' = {}

\* otCoapSendResponse(): the message is OpenThread's from then on.
SendResponse ==
    /\ pc = "send" /\ Return
    /\ outbox' = outbox + 1
    /\ UNCHANGED <<payload, free>>

\* Mutant: the error path forgets the message.
GiveUpOnly ==
    /\ pc \in Steps /\ Return
    /\ UNCHANGED <<payload, free, outbox>>

\* Out of buffers: otMessageFree().
GiveUp ==
    /\ pc \in Steps /\ Return
    /\ free' = free + 1
    /\ UNCHANGED <<payload, outbox>>

-----------------------------------------------------------------------------
\* loki_coap_init(), at boot on a commissioned device; otCoapStart() may fail.
loki_coap_init ==
    /\ server = "off" /\ server' \in {"started", "failed"}
    /\ UNCHANGED <<request, order, message, speed_input_value, motion>>

OtherRequest(m) ==
    \/ m.uri = "acceleration" /\ acceleration_request_handler(m)
    \/ m.uri = "direction" /\ direction_request_handler(m)
    \/ m.uri = "stop" /\ stop_request_handler(m)
    \/ m.uri = "name" /\ name_request_handler(m)
    \/ m.uri = "ble-recovery" /\ ble_recovery_request_handler(m)
    \/ m.uri = ".well-known/core" /\ well_known_core_request_handler(m)
    \/ m.uri = "unknown" /\ coap_default_handler(m)

Receive(m) ==
    /\ server = "started" /\ pc = "idle"
    /\ \/ m.uri = "speed" /\ speed_request_handler(m)
       \/ m.uri # "speed" /\ UNCHANGED speed_input_value /\ OtherRequest(m)
    /\ request' = IF pc' = "token" THEN m ELSE None
    /\ UNCHANGED <<server, motion>>

\* The callback comes back.
CallbackDone ==
    /\ pc = "callback" /\ Return
    /\ order' = None
    /\ UNCHANGED <<server, payload, speed_input_value, free, outbox, motion>>

Answering ==
    /\ BuildStep \/ SendResponse \/ GiveUp
    /\ UNCHANGED <<server, order, speed_input_value, motion>>

\* OpenThread sends a response, or drops it, and frees its buffer.
Transmit ==
    /\ outbox > 0 /\ outbox' = outbox - 1 /\ free' = free + 1
    /\ UNCHANGED <<server, request, order, pc, response, payload, speed_input_value, seen,
                   motion>>

\* LokiMotion, on any thread.
MotionChanges(s, a) ==
    /\ speed_value' = s /\ accel_order' = a
    /\ seen' = IF pc \notin Steps THEN seen
               ELSE seen \cup {CASE request.uri = "speed" -> s
                                 [] request.uri = "acceleration" -> a
                                 [] OTHER -> "link-format"}
    /\ UNCHANGED <<server, request, order, pc, response, payload, speed_input_value, free,
                   outbox>>

Next ==
    \/ loki_coap_init
    \/ \E m \in Requests : Receive(m)
    \/ CallbackDone
    \/ Answering
    \/ Transmit
    \/ \E s \in Speeds, a \in Orders : MotionChanges(s, a)

Spec == Init /\ [][Next]_vars

-----------------------------------------------------------------------------
TypeOK ==
    /\ server \in {"off", "started", "failed"}
    /\ request \in Requests \cup {None}
    /\ pc \in Steps \cup {"idle", "callback"}
    /\ free \in 0 .. PoolSize /\ outbox \in 0 .. PoolSize
    /\ speed_value \in Speeds \cup {0} /\ accel_order \in Orders \cup {0}
    /\ payload \in Speeds \cup {0, None}
    /\ speed_input_value \in [1 .. 5 -> 0 .. 255] /\ speed_input_value[5] = 0
    /\ order # None =>
        order.arg \in CASE order.op = "acceleration" -> -128 .. 127
                        [] order.op = "name" -> 1 .. MAX_LEN_FULL_NAME
                        [] OTHER -> 0 .. 255

\* However an answer ends (sent, out of buffers at any step, no buffer to begin
\* with), its message is freed once: by the handler until it is handed over, by
\* OpenThread afterwards.  A leak would silence the server after PoolSize GETs.
PoolRestored == free + outbox + (IF pc \in Steps THEN 1 ELSE 0) = PoolSize

\* A text answer about the speed, and every answer about the acceleration, is a
\* value the resource had at some moment while the request was being handled,
\* though the buffer it is written to outlives the request and the motion
\* changes meanwhile.
AnswerIsCurrent ==
    [][/\ outbox' > outbox
       /\ request.uri = "speed" => getContentFormat(request) = "text"
       => response \in seen]_vars

\* A PUT to /speed of up to four digits, which is what INTERFACES.md:216 asks for, is
\* obeyed if and only if they say a number of a speed, and with that number: whatever
\* texts, longer or shorter, the static buffer held before, with leading zeros and
\* at the largest speed and one above it (loki_coap_utils.c:190-215).
Says(text, n) ==
    \E zeros \in {<<>>, <<48>>, <<48, 48>>, <<48, 48, 48>>} : text = zeros \o Decimal(n)
IsNumeral(text) == Len(text) =< 4 /\ \A i \in DOMAIN text : IsDigit(text[i])
SpeedAsWritten ==
    [][pc = "idle" =>
          \A m \in [uri : {"speed"}, type : {"NON"}, code : {"PUT"}, format : Formats,
                    payload : {text \in Texts : IsNumeral(text)}] :
             Receive(m) => \A n \in 0 .. MaxSpeed :
                 order' = [op |-> "speed", arg |-> n] <=> Says(m.payload, n)]_vars
=============================================================================
