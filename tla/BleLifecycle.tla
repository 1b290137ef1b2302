---------------------------- MODULE BleLifecycle ----------------------------
(***************************************************************************)
(* When the locomotive is visible over Bluetooth, and under which name:    *)
(* the advertising lifecycle of src/main_ble_utils.c, its callers in       *)
(* src/main_ot_utils.c and src/main.c, and the renaming of src/main.c.     *)
(*                                                                         *)
(* "ot" runs the Thread role callback and the CoAP handlers, "bt" the      *)
(* connection callbacks and the GATT write handlers, "main" the boot.  The *)
(* system workqueue runs one queued work item after the other.  As in      *)
(* LokiMotion a cooperative thread gives up the CPU only at YieldPoints,   *)
(* and a thread of Preemptive between any two steps.                       *)
(*                                                                         *)
(* External, as src/ uses it: the work queue and its delayed work, the     *)
(* controller behind bt_le_adv_start, _stop and _update_data (one          *)
(* connection at a time, and no advertising while it lasts), the role.     *)
(***************************************************************************)
EXTENDS Sequences, Naturals

CONSTANTS
    OffAfterAttach, \* CONFIG_LOKI_BLE_OFF_AFTER_ATTACH_MINUTES is not 0 ...
    StopDelay,      \* ... and how many ticks of the clock it lasts
    Names,          \* long names
    FirstName,      \* the one loaded at boot
    HasDisplay,     \* updates of the display take its mutex
    Preemptive      \* threads of preemptible priority

ASSUME LifecycleAssumption ==
    /\ OffAfterAttach \in BOOLEAN /\ HasDisplay \in BOOLEAN
    /\ StopDelay \in Nat \ {0}
    /\ FirstName \in Names
    /\ Preemptive \subseteq {"ot", "main"}

VARIABLES
    ble_should_advertise, \* the intent flag
    stop_delayed,         \* the delay of ble_stop_work is running ...
    due,                  \* ... and has so many ticks to go
    queue,                \* work items submitted to the system workqueue
    wq,                   \* what the workqueue is doing
    th,                   \* per thread: label, and the operation it belongs to
    attached,             \* the Thread role is CHILD, ROUTER or LEADER
    conn,                 \* the connection object: "free", "up", or "down"
                          \*   (lost, with disconnected_cb still to come)
    advertising,          \* the controller advertises ...
    on_air,               \* ... this text under this length, once it was told one
    full_name,            \* the text of the long name
    sd_len,               \* whose length the scan response declares
    cause,                \* history: the last operation on ble_stop_work
    since,                \* history: ticks that the delay last scheduled has run
    failed                \* history: a connection attempt failed, and the controller
                          \*   has not advertised since

intent == <<ble_should_advertise, stop_delayed, due>>
radio == <<conn, advertising, on_air>>
name == <<full_name, sd_len>>
history == <<cause, since, failed>>
vars == <<intent, queue, wq, th, attached, radio, name, history>>

-----------------------------------------------------------------------------
Threads == {"ot", "bt", "main"}
Works == {"start", "stop", "refresh"}
\* What the workqueue waits for: the controller, or the display mutex ("show").
WorkSteps == {"idle", "setData", "enable", "disable", "show", "update"}
LifecycleSteps == {"cancelStop", "setIntent", "submitStart", "schedule"}
Labels == {"idle", "boot", "disconnected", "saveName", "setLength"} \cup LifecycleSteps
Recoveries == {"recover", "bootRecover"}
Jobs == {"none", "boot", "attach", "detach", "rename"} \cup Recoveries

\* Where a cooperative thread lets others run: idle, in the flash driver, waiting
\* for the display mutex.
YieldPoints == {"idle", "saveName"} \cup (IF HasDisplay THEN {"disconnected"} ELSE {})
CanRun(t) ==
    \A u \in Threads \ {t} : u \in Preemptive \/ th[u].pc \in YieldPoints
At(t, label) == th[t].pc = label /\ CanRun(t)
Idle == [pc |-> "idle", job |-> "none"]
Goto(t, label) == th' = [th EXCEPT ![t].pc = label]
Begin(t, job, label) == th' = [th EXCEPT ![t] = [pc |-> label, job |-> job]]
Return(t) == th' = [th EXCEPT ![t] = Idle]

Queued(work) == \E i \in DOMAIN queue : queue[i] = work
\* k_work_submit(): an item that is queued already stays where it is.
Submit(work) == queue' = IF Queued(work) THEN queue ELSE Append(queue, work)

\* An item that is queued leaves the queue; it is there once.
Withdraw(work) ==
    queue' = IF ~Queued(work) THEN queue
             ELSE LET i == CHOOSE j \in DOMAIN queue : queue[j] = work
                  IN  SubSeq(queue, 1, i - 1) \o SubSeq(queue, i + 1, Len(queue))

Init ==
    /\ ble_should_advertise = TRUE /\ stop_delayed = FALSE /\ due = 0
    /\ queue = <<>> /\ wq = "idle"
    /\ th = [t \in Threads |->
                IF t = "main" THEN [pc |-> "boot", job |-> "boot"] ELSE Idle]
    /\ attached = FALSE
    /\ conn = "free" /\ advertising = FALSE
    /\ on_air = [text |-> FirstName, len |-> FirstName]
    /\ full_name = FirstName /\ sd_len = FirstName
    /\ cause = "none" /\ since = 0 /\ failed = FALSE

-----------------------------------------------------------------------------
(* The entry points: main(), on_thread_state_changed(), /ble-recovery and  *)
(* the failures of SRP calls, write_long_name and /name.                   *)

Enter(t, job, label) ==
    /\ At(t, "idle")
    /\ Begin(t, job, label)
    /\ UNCHANGED <<intent, queue, wq, radio, history>>

\* The role becomes, or stays, one of the attached roles.
ble_lifecycle_on_thread_attached ==
    /\ attached' = TRUE
    /\ IF OffAfterAttach THEN Enter("ot", "attach", "schedule")
       ELSE At("ot", "idle") /\ UNCHANGED <<intent, queue, wq, th, radio, history>>
    /\ UNCHANGED name

ble_lifecycle_on_thread_detached ==
    /\ attached' = FALSE
    /\ Enter("ot", "detach", "cancelStop")
    /\ UNCHANGED name

\* From CoAP on "ot", from write_dcc on "bt".
ble_lifecycle_force_recovery(t) ==
    /\ OffAfterAttach
    /\ Enter(t, "recover", "setIntent")
    /\ UNCHANGED <<attached, name>>

\* main() hands over the short name and then the long one, before it submits the
\* first start_advertising, or has SRP fail first.
Boot ==
    /\ At("main", "boot")
    /\ \/ Begin("main", "boot", "setLength") /\ Submit("refresh")
       \/ OffAfterAttach /\ Begin("main", "bootRecover", "setIntent") /\ UNCHANGED queue
    /\ UNCHANGED <<intent, wq, attached, radio, name, history>>

\* modify_full_name(): the buffer of the scan response is overwritten in place.
modify_full_name(t, new) ==
    /\ new # full_name
    /\ Enter(t, "rename", "saveName")
    /\ full_name' = new
    /\ UNCHANGED <<attached, sd_len>>

-----------------------------------------------------------------------------
(* The steps of the lifecycle operations.                                  *)

\* The delay is over, or was never started.
NoDelay == stop_delayed' = FALSE /\ due' = 0

\* Mutant: the delay is cancelled, a queued stop is not.
CancelDelayOnly(t) ==
    /\ At(t, "cancelStop")
    /\ NoDelay /\ since' = 0
    /\ Goto(t, "setIntent")
    /\ cause' = "detach"
    /\ UNCHANGED <<ble_should_advertise, queue, wq, attached, radio, name, failed>>

\* k_work_cancel_delayable(): neither delayed nor queued any more.
CancelStop(t) ==
    /\ At(t, "cancelStop")
    /\ NoDelay /\ since' = 0
    /\ Withdraw("stop")
    /\ Goto(t, "setIntent")
    /\ cause' = "detach"
    /\ UNCHANGED <<ble_should_advertise, wq, attached, radio, name, failed>>

\* Mutant: the flag is raised, but nobody starts advertising.
SetIntentOnly(t) ==
    /\ At(t, "setIntent")
    /\ ble_should_advertise' = TRUE
    /\ IF th[t].job \in Recoveries THEN Goto(t, "schedule") ELSE Return(t)
    /\ UNCHANGED <<stop_delayed, due, queue, wq, attached, radio, name, history>>

\* atomic_set() returns the flag it replaces.
SetIntent(t) ==
    /\ At(t, "setIntent")
    /\ ble_should_advertise' = TRUE
    /\ IF ~ble_should_advertise THEN Goto(t, "submitStart")
       ELSE IF th[t].job \in Recoveries THEN Goto(t, "schedule") ELSE Return(t)
    /\ UNCHANGED <<stop_delayed, due, queue, wq, attached, radio, name, history>>

SubmitStart(t) ==
    /\ At(t, "submitStart")
    /\ Submit("start")
    /\ IF th[t].job \in Recoveries THEN Goto(t, "schedule") ELSE Return(t)
    /\ UNCHANGED <<intent, wq, attached, radio, name, history>>

\* What an attach or a recovery asks for is a whole delay from now on.
Scheduling(t) ==
    /\ At(t, "schedule")
    /\ IF th[t].job = "bootRecover" THEN Begin(t, "boot", "boot") ELSE Return(t)
    /\ cause' = IF th[t].job = "attach" THEN "attach" ELSE "recover"
    /\ since' = 0
    /\ UNCHANGED <<ble_should_advertise, wq, attached, radio, name, failed>>

\* Mutant: k_work_schedule(), which leaves a delay that is running as it is.
ScheduleOnce(t) ==
    /\ Scheduling(t)
    /\ stop_delayed' = TRUE
    /\ due' = IF stop_delayed THEN due ELSE StopDelay
    /\ UNCHANGED queue

\* k_work_reschedule(): the delay starts again.  An item that left the delay for the
\* queue stays in the queue.
Schedule(t) ==
    /\ Scheduling(t)
    /\ stop_delayed' = TRUE /\ due' = StopDelay
    /\ UNCHANGED queue

\* Time passes.
Tick ==
    /\ stop_delayed /\ due > 0
    /\ due' = due - 1 /\ since' = since + 1
    /\ UNCHANGED <<ble_should_advertise, stop_delayed, queue, wq, th, attached, radio, name,
                   cause, failed>>

\* The delay of minutes is over; it outlasts any stop that is being carried out.
StopTimeout ==
    /\ stop_delayed /\ due = 0 /\ wq \notin {"disable", "show"}
    /\ NoDelay
    /\ Submit("stop")
    /\ UNCHANGED <<ble_should_advertise, wq, th, attached, radio, name, history>>

-----------------------------------------------------------------------------
(* The rest of modify_full_name(), after settings_save_subtree(), and       *)
(* updateBleLongName().                                                     *)

NameSaved(t) ==
    /\ At(t, "saveName")
    /\ Goto(t, "setLength")
    /\ UNCHANGED <<intent, queue, wq, attached, radio, name, history>>

\* Mutant: the controller is not told.
SetLengthOnly(t) ==
    /\ At(t, "setLength")
    /\ sd_len' = full_name
    /\ IF th[t].job = "boot" THEN Goto(t, "submitStart") ELSE Return(t)
    /\ UNCHANGED <<intent, queue, wq, attached, radio, full_name, history>>

SetLength(t) ==
    /\ At(t, "setLength")
    /\ sd_len' = full_name
    /\ Submit("refresh")
    /\ IF th[t].job = "boot" THEN Goto(t, "submitStart") ELSE Return(t)
    /\ UNCHANGED <<intent, wq, attached, radio, full_name, history>>

-----------------------------------------------------------------------------
(* The work items.  The workqueue thread is cooperative: it lets others run *)
(* between two items and while it waits for the controller.                 *)

WorkqueueRuns == \A t \in Threads : t \in Preemptive \/ th[t].pc \in YieldPoints

Take(work, step) ==
    /\ WorkqueueRuns /\ wq = "idle"
    /\ queue # <<>> /\ Head(queue) = work
    /\ queue' = Tail(queue)
    /\ wq' = step
    /\ UNCHANGED <<stop_delayed, due, th, attached, radio, name, history>>

\* Mutants: a start that does not look at the flag; a stop that only lowers it.
StartUnchecked ==
    /\ Take("start", "setData")
    /\ UNCHANGED ble_should_advertise

StopFlagOnly ==
    /\ Take("stop", "idle")
    /\ ble_should_advertise' = FALSE

start_advertising ==
    /\ Take("start", IF ble_should_advertise THEN "setData" ELSE "idle")
    /\ UNCHANGED ble_should_advertise

ble_stop_handler ==
    /\ Take("stop", IF ble_should_advertise THEN "disable" ELSE "idle")
    /\ ble_should_advertise' = FALSE

refresh_advertising_data ==
    /\ Take("refresh", "update")
    /\ UNCHANGED ble_should_advertise

\* bt_le_adv_start() fails when it advertises already or has no connection
\* object; otherwise it first hands the data to the controller.  Errors are logged.
SetData ==
    /\ wq = "setData"
    /\ LET fails == advertising \/ conn # "free"
       IN  /\ wq' = IF fails THEN "idle" ELSE "enable"
           /\ on_air' = IF fails THEN on_air ELSE [text |-> full_name, len |-> sd_len]
    /\ UNCHANGED <<intent, queue, th, attached, conn, advertising, name, history>>

Enable ==
    /\ wq = "enable"
    /\ wq' = "idle" /\ advertising' = TRUE /\ failed' = FALSE
    /\ UNCHANGED <<intent, queue, th, attached, conn, on_air, name, cause, since>>

\* bt_le_adv_stop() of ble_stop_handler: a connection survives it; then the display
\* is updated.
Disable ==
    /\ wq = "disable"
    /\ wq' = IF HasDisplay THEN "show" ELSE "idle"
    /\ advertising' = FALSE
    /\ UNCHANGED <<intent, queue, th, attached, conn, on_air, name, history>>

Shown ==
    /\ wq = "show"
    /\ wq' = "idle"
    /\ UNCHANGED <<intent, queue, th, attached, radio, name, history>>

\* bt_le_adv_update_data(): -EAGAIN while the controller does not advertise.
Update ==
    /\ wq = "update"
    /\ wq' = "idle"
    /\ on_air' = IF advertising THEN [text |-> full_name, len |-> sd_len] ELSE on_air
    /\ UNCHANGED <<intent, queue, th, attached, conn, advertising, name, history>>

-----------------------------------------------------------------------------
(* Connections.                                                            *)

\* A client connects, which ends advertising; connected_cb.
Connect ==
    /\ advertising /\ conn = "free"
    /\ conn' = "up" /\ advertising' = FALSE
    /\ UNCHANGED <<intent, queue, wq, th, attached, on_air, name, history>>

\* A client's attempt fails after it ended advertising: connected_cb() with an error
\* prints a line, and leaves the controller as it is.
ConnectFails ==
    /\ advertising /\ conn = "free"
    /\ advertising' = FALSE /\ failed' = TRUE
    /\ UNCHANGED <<intent, queue, wq, th, attached, conn, on_air, name, cause, since>>

LinkLoss ==
    /\ conn = "up"
    /\ conn' = "down"
    /\ UNCHANGED <<intent, queue, wq, th, attached, advertising, on_air, name, history>>

\* disconnected_cb() updates the display ...
DisconnectedBegin ==
    /\ conn = "down"
    /\ At("bt", "idle")
    /\ Begin("bt", "none", "disconnected")
    /\ UNCHANGED <<intent, queue, wq, attached, radio, name, history>>

\* Mutant: advertising is not resumed.
DisconnectOnly ==
    /\ At("bt", "disconnected")
    /\ conn' = "free"
    /\ Return("bt")
    /\ UNCHANGED <<intent, queue, wq, attached, advertising, on_air, name, history>>

\* ... drops its connection and asks for advertising if that is still wanted.
disconnected_cb ==
    /\ At("bt", "disconnected")
    /\ conn' = "free"
    /\ IF ble_should_advertise THEN Submit("start") ELSE UNCHANGED queue
    /\ Return("bt")
    /\ UNCHANGED <<intent, wq, attached, advertising, on_air, name, history>>

-----------------------------------------------------------------------------
Request ==
    \/ ble_lifecycle_on_thread_attached
    \/ ble_lifecycle_on_thread_detached
    \/ \E t \in {"ot", "bt"} :
          \/ ble_lifecycle_force_recovery(t)
          \/ \E new \in Names : modify_full_name(t, new)

Step(t) ==
    \/ CancelStop(t) \/ SetIntent(t) \/ SubmitStart(t) \/ Schedule(t)
    \/ NameSaved(t) \/ SetLength(t)

Work ==
    \/ start_advertising \/ ble_stop_handler \/ refresh_advertising_data
    \/ SetData \/ Enable \/ Disable \/ Shown \/ Update

Next ==
    \/ Request \/ Connect \/ ConnectFails \/ LinkLoss
    \/ Boot \/ \E t \in Threads : Step(t)
    \/ DisconnectedBegin \/ disconnected_cb
    \/ Tick \/ StopTimeout \/ Work

Spec == Init /\ [][Next]_vars

\* Threads and the workqueue go on, delays elapse, callbacks are delivered;
\* clients and the radio network owe nothing.
Fairness ==
    /\ WF_vars(Boot) /\ \A t \in Threads : WF_vars(Step(t))
    /\ WF_vars(DisconnectedBegin) /\ WF_vars(disconnected_cb)
    /\ WF_vars(Tick) /\ WF_vars(StopTimeout) /\ WF_vars(Work)

FairSpec == Spec /\ Fairness

-----------------------------------------------------------------------------
(* Properties                                                               *)

\* Every variable stays in its type, and no work item is queued twice.
TypeOK ==
    /\ ble_should_advertise \in BOOLEAN /\ stop_delayed \in BOOLEAN
    /\ due \in 0 .. StopDelay /\ since \in 0 .. StopDelay
    /\ queue \in Seq(Works)
    /\ \A i, j \in DOMAIN queue : queue[i] = queue[j] => i = j
    /\ wq \in WorkSteps
    /\ th \in [Threads -> [pc : Labels, job : Jobs]]
    /\ attached \in BOOLEAN
    /\ conn \in {"free", "up", "down"} /\ advertising \in BOOLEAN
    /\ on_air \in [text : Names, len : Names]
    /\ full_name \in Names /\ sd_len \in Names
    /\ cause \in {"none", "attach", "detach", "recover"} /\ failed \in BOOLEAN

\* Once the stop handler has run, BLE is dark: no start that was on its way, no
\* disconnect and no renaming makes the controller advertise against the flag
\* (main_ble_utils.c:417, 341).
OffMeansOff == ~ble_should_advertise /\ wq = "idle" => ~advertising

\* The module implements Visibility: whatever stops, starts, renamings, detaches and
\* recoveries are queued or half done, the locomotive is visible only while it is
\* on and nobody is connected, and goes dark the moment it is off.  It is on as
\* long as the flag is up, or the stop that took it down is still in the
\* controller (main_ble_utils.c:410-426, 449-464).
Beacon == INSTANCE Visibility WITH
    on <- (ble_should_advertise \/ wq = "disable"),
    visible <- advertising,
    client <- (conn # "free")
ImplementsVisibility == Beacon!Spec

\* While BLE is wanted, a locomotive without a client is visible, or the work
\* that makes it so is on its way: no stop, reconnection or detach loses it.  Only
\* a connection attempt that failed may leave it invisible (main_ble_utils.c:313).
StartUnderWay ==
    \/ wq # "idle" \/ Queued("start")
    \/ \E t \in Threads : th[t].pc \in {"setIntent", "submitStart"}
    \/ th["main"].job # "none"
OnMeansOn ==
    ble_should_advertise /\ conn = "free" => advertising \/ StartUnderWay \/ failed

\* The flag is taken down only for a stop that an attach or a recovery scheduled
\* after the last detach, whatever was delayed or queued when that detach came
\* (main_ble_utils.c:480-492).
DetachCancelsStop ==
    [][ble_should_advertise /\ ~ble_should_advertise' => cause \in {"attach", "recover"}]_vars

\* A renaming reaches the air: with no renaming or refresh under way, what is
\* advertised is the current name with its own length, although the buffer is
\* overwritten before the length and while the controller reads it.
NameOnAir ==
    advertising /\ on_air # [text |-> full_name, len |-> full_name] =>
        \/ Queued("refresh") \/ wq = "update"
        \/ \E t \in Threads : th[t].pc \in {"saveName", "setLength"}

\* The last word counts: after an attach or a recovery the flag is down or the stop
\* that takes it down is still to come, after a detach it is up or about to be
\* raised, whichever delays, queued stops and half-done calls of the other threads
\* the last call found (main_ble_utils.c:449-516).
LastWordCounts ==
    /\ cause \in {"attach", "recover"} /\ ble_should_advertise =>
        \/ stop_delayed \/ Queued("stop")
        \/ \E t \in Threads : /\ th[t].job \in Recoveries
                             /\ th[t].pc \in {"submitStart", "schedule"}
    /\ cause \in {"none", "detach"} /\ ~ble_should_advertise =>
        th["ot"] = [pc |-> "setIntent", job |-> "detach"]

\* Nothing calls the lifecycle any more.
Silence == <>[](\A t \in Threads : th[t].pc \notin LifecycleSteps)

\* After a last attach or recovery BLE goes dark for good (INTERFACES.md:57-59).
GoesDark ==
    Silence /\ <>[](cause \in {"attach", "recover"}) => <>[](~ble_should_advertise /\ ~advertising)

\* After a last detach, or without any attach, a locomotive without a client, and
\* none that failed to connect, is visible for good.
StaysVisible ==
    Silence /\ <>[](cause \in {"none", "detach"} /\ conn = "free" /\ ~failed)
    => <>[]advertising

\* BLE stays on for a whole delay after the last attach or recovery (INTERFACES.md:223):
\* no delay that an earlier one started cuts it short.  A stop that had left its delay
\* for the workqueue before the last of them does, which k_work_reschedule() leaves
\* there: it takes the flag down while the new delay runs.
FullWindow ==
    [][ble_should_advertise /\ ~ble_should_advertise' => since = StopDelay \/ stop_delayed]_vars
=============================================================================
