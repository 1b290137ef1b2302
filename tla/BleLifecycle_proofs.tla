------------------------- MODULE BleLifecycle_proofs -------------------------
(***************************************************************************)
(* Proofs about BleLifecycle, for every build: with or without the off     *)
(* timer and the display, whichever threads are preemptible.               *)
(***************************************************************************)
EXTENDS BleLifecycle, SequenceTheorems, TLAPS

\* OffMeansOff says nothing of what the workqueue is doing: with the flag down
\* the controller advertises only until the stop handler's call returns, and a
\* start handler that has passed its check still has the flag up, because the
\* only step that takes it down needs the workqueue too.
OffInv ==
    /\ ~ble_should_advertise /\ advertising => wq = "disable"
    /\ wq \in {"setData", "enable"} => ble_should_advertise

\* The threads' steps raise the flag or leave it, and do not touch the controller.
LEMMA ThreadsKeepOff ==
    ASSUME OffInv, NEW t \in Threads, Step(t)
    PROVE  OffInv'
<1> USE DEF OffInv, intent, radio, name, history
<1>1. CASE CancelStop(t)
  BY <1>1 DEF CancelStop, NoDelay
<1>2. CASE SetIntent(t)
  BY <1>2 DEF SetIntent
<1>3. CASE SubmitStart(t)
  BY <1>3 DEF SubmitStart
<1>4. CASE Schedule(t)
  BY <1>4 DEF Schedule, Scheduling
<1>5. CASE NameSaved(t)
  BY <1>5 DEF NameSaved
<1>6. CASE SetLength(t)
  BY <1>6 DEF SetLength
<1> QED BY <1>1, <1>2, <1>3, <1>4, <1>5, <1>6 DEF Step

\* The work items run one after the other.
LEMMA WorkKeepsOff ==
    ASSUME OffInv, Work
    PROVE  OffInv'
<1> USE DEF OffInv, intent, radio, name, history
<1>1. CASE start_advertising
  BY <1>1 DEF start_advertising, Take
<1>2. CASE ble_stop_handler
  BY <1>2 DEF ble_stop_handler, Take
<1>3. CASE refresh_advertising_data
  BY <1>3 DEF refresh_advertising_data, Take
<1>4. CASE SetData
  BY <1>4 DEF SetData
<1>5. CASE Enable
  BY <1>5 DEF Enable
<1>6. CASE Disable
  BY <1>6 DEF Disable
<1>7. CASE Shown
  BY <1>7 DEF Shown
<1>8. CASE Update
  BY <1>8 DEF Update
<1> QED BY <1>1, <1>2, <1>3, <1>4, <1>5, <1>6, <1>7, <1>8 DEF Work

\* The entry points only start an operation.
LEMMA RequestsKeepOff ==
    ASSUME OffInv, Request
    PROVE  OffInv'
<1> USE DEF OffInv, intent, radio, Enter
<1>1. CASE ble_lifecycle_on_thread_attached
  BY <1>1 DEF ble_lifecycle_on_thread_attached
<1>2. CASE ble_lifecycle_on_thread_detached
  BY <1>2 DEF ble_lifecycle_on_thread_detached
<1>3. ASSUME NEW t, ble_lifecycle_force_recovery(t) PROVE OffInv'
  BY <1>3 DEF ble_lifecycle_force_recovery
<1>4. ASSUME NEW t, NEW new, modify_full_name(t, new) PROVE OffInv'
  BY <1>4 DEF modify_full_name
<1> QED BY <1>1, <1>2, <1>3, <1>4 DEF Request

\* Once the stop handler has run and its call has returned, the controller does
\* not advertise (OffMeansOff), whatever starts, disconnects, renamings and
\* recoveries interleave with it.
THEOREM OffIsOff == Spec => []OffMeansOff
<1>1. Init => OffInv
  BY DEF Init, OffInv
<1>2. OffInv /\ [Next]_vars => OffInv'
  <2> SUFFICES ASSUME OffInv, [Next]_vars PROVE OffInv'
    OBVIOUS
  <2> USE DEF OffInv, intent, radio, name, history
  <2>1. CASE Request
    BY <2>1, RequestsKeepOff
  <2>2. CASE Boot
    BY <2>2 DEF Boot
  <2>3. ASSUME NEW t \in Threads, Step(t) PROVE OffInv'
    BY <2>3, ThreadsKeepOff
  <2>4. CASE Work
    BY <2>4, WorkKeepsOff
  <2>5. CASE Connect \/ ConnectFails \/ LinkLoss
    BY <2>5 DEF Connect, ConnectFails, LinkLoss
  <2>6. CASE DisconnectedBegin \/ disconnected_cb
    BY <2>6 DEF DisconnectedBegin, disconnected_cb
  <2>7. CASE StopTimeout
    BY <2>7 DEF StopTimeout, NoDelay
  <2>8. CASE Tick
    BY <2>8 DEF Tick
  <2>9. CASE UNCHANGED vars
    BY <2>9 DEF vars
  <2> QED BY <2>1, <2>2, <2>3, <2>4, <2>5, <2>6, <2>7, <2>8, <2>9 DEF Next
<1>3. OffInv => OffMeansOff
  BY DEF OffInv, OffMeansOff
<1> QED BY <1>1, <1>2, <1>3, PTL DEF Spec

-----------------------------------------------------------------------------
(* The refinement.  A start that has passed the controller's own check for *)
(* a free connection is not overtaken by a client: nobody can connect to a *)
(* locomotive that does not advertise yet.                                 *)

VisibilityInv ==
    /\ OffInv
    /\ advertising => conn = "free"
    /\ wq = "enable" => ~advertising /\ conn = "free"
    /\ ble_should_advertise \in BOOLEAN /\ advertising \in BOOLEAN

\* A step of a thread raises the flag at most: Bluetooth is switched on, or nothing.
LEMMA ThreadsSwitchOn ==
    ASSUME VisibilityInv, NEW t \in Threads, Step(t)
    PROVE  VisibilityInv' /\ (Beacon!SwitchOn \/ UNCHANGED Beacon!vvars)
<1> USE DEF VisibilityInv, intent, radio, name, history, Beacon!SwitchOn, Beacon!vvars
<1>0. OffInv'
  BY ThreadsKeepOff
<1>1. CASE CancelStop(t)
  BY <1>0, <1>1 DEF CancelStop, NoDelay
<1>2. CASE SetIntent(t)
  BY <1>0, <1>2 DEF SetIntent
<1>3. CASE SubmitStart(t)
  BY <1>0, <1>3 DEF SubmitStart
<1>4. CASE Schedule(t)
  BY <1>0, <1>4 DEF Schedule, Scheduling
<1>5. CASE NameSaved(t)
  BY <1>0, <1>5 DEF NameSaved
<1>6. CASE SetLength(t)
  BY <1>0, <1>6 DEF SetLength
<1> QED BY <1>1, <1>2, <1>3, <1>4, <1>5, <1>6 DEF Step

\* The entry points change nothing that can be seen.
LEMMA RequestsStutter ==
    ASSUME VisibilityInv, Request
    PROVE  VisibilityInv' /\ UNCHANGED Beacon!vvars
<1> USE DEF VisibilityInv, intent, radio, Enter, Beacon!vvars
<1>0. OffInv'
  BY RequestsKeepOff
<1>1. CASE ble_lifecycle_on_thread_attached
  BY <1>0, <1>1 DEF ble_lifecycle_on_thread_attached
<1>2. CASE ble_lifecycle_on_thread_detached
  BY <1>0, <1>2 DEF ble_lifecycle_on_thread_detached
<1>3. ASSUME NEW t, ble_lifecycle_force_recovery(t) PROVE VisibilityInv' /\ UNCHANGED Beacon!vvars
  BY <1>0, <1>3 DEF ble_lifecycle_force_recovery
<1>4. ASSUME NEW t, NEW new, modify_full_name(t, new)
      PROVE  VisibilityInv' /\ UNCHANGED Beacon!vvars
  BY <1>0, <1>4 DEF modify_full_name
<1> QED BY <1>1, <1>2, <1>3, <1>4 DEF Request

\* Only the call of bt_le_adv_stop returning, and that of bt_le_adv_start, can be
\* seen from outside.
LEMMA WorkIsSeen ==
    ASSUME VisibilityInv, Work
    PROVE  VisibilityInv' /\ (Beacon!Next \/ UNCHANGED Beacon!vvars)
<1> USE DEF VisibilityInv, OffInv, intent, radio, name, history, Beacon!vvars
<1>1. CASE start_advertising
  BY <1>1 DEF start_advertising, Take
<1>2. CASE ble_stop_handler
  BY <1>2 DEF ble_stop_handler, Take
<1>3. CASE refresh_advertising_data
  BY <1>3 DEF refresh_advertising_data, Take
<1>4. CASE SetData
  BY <1>4 DEF SetData
<1>5. CASE Enable
  <2>1. Beacon!Appear
    BY <1>5 DEF Enable, Beacon!Appear
  <2> QED
    BY <1>5, <2>1 DEF Enable, Beacon!Next
<1>6. CASE Disable
  <2>1. Beacon!SwitchOff \/ Beacon!Flicker
    BY <1>6 DEF Disable, Beacon!SwitchOff, Beacon!Flicker
  <2> QED
    BY <1>6, <2>1 DEF Disable, Beacon!Next
<1>7. CASE Shown
  BY <1>7 DEF Shown
<1>8. CASE Update
  BY <1>8 DEF Update
<1> QED BY <1>1, <1>2, <1>3, <1>4, <1>5, <1>6, <1>7, <1>8 DEF Work

\* BleLifecycle implements Visibility, for every build: the locomotive is visible
\* only while it is on and has no client, and is dark the moment it is off.
THEOREM LifecycleIsVisibility == Spec => ImplementsVisibility
<1>1. Init => VisibilityInv /\ Beacon!Init
  BY DEF Init, VisibilityInv, OffInv, Beacon!Init
<1>2. VisibilityInv /\ [Next]_vars => VisibilityInv' /\ [Beacon!Next]_Beacon!vvars
  <2> SUFFICES ASSUME VisibilityInv, [Next]_vars
               PROVE  VisibilityInv' /\ (Beacon!Next \/ UNCHANGED Beacon!vvars)
    OBVIOUS
  <2> USE DEF VisibilityInv, OffInv, intent, radio, name, history, Beacon!vvars
  <2>1. CASE Request
    BY <2>1, RequestsStutter
  <2>2. CASE Boot
    BY <2>2 DEF Boot
  <2>3. ASSUME NEW t \in Threads, Step(t)
        PROVE  VisibilityInv' /\ (Beacon!Next \/ UNCHANGED Beacon!vvars)
    BY <2>3, ThreadsSwitchOn DEF Beacon!Next
  <2>4. CASE Work
    BY <2>4, WorkIsSeen
  <2>5. CASE Connect
    <3>1. Beacon!Connect
      BY <2>5 DEF Connect, Beacon!Connect
    <3> QED
      BY <2>5, <3>1 DEF Connect, Beacon!Next
  <2>6. CASE LinkLoss
    BY <2>6 DEF LinkLoss
  <2>7. CASE DisconnectedBegin
    BY <2>7 DEF DisconnectedBegin
  <2>8. CASE disconnected_cb
    <3>1. Beacon!Disconnect
      BY <2>8 DEF disconnected_cb, Beacon!Disconnect
    <3> QED
      BY <2>8, <3>1 DEF disconnected_cb, Beacon!Next
  <2>9. CASE StopTimeout
    BY <2>9 DEF StopTimeout, NoDelay
  <2>10. CASE Tick
    BY <2>10 DEF Tick
  <2>11. CASE ConnectFails
    <3>1. Beacon!Flicker
      BY <2>11 DEF ConnectFails, Beacon!Flicker
    <3> QED
      BY <2>11, <3>1 DEF ConnectFails, Beacon!Next
  <2>12. CASE UNCHANGED vars
    BY <2>12 DEF vars
  <2> QED
    BY <2>1, <2>2, <2>3, <2>4, <2>5, <2>6, <2>7, <2>8, <2>9, <2>10, <2>11, <2>12 DEF Next
<1> QED BY <1>1, <1>2, PTL DEF Spec, ImplementsVisibility, Beacon!Spec

-----------------------------------------------------------------------------
(* The workqueue.                                                          *)

\* No work item is queued twice.
Once(s) == \A i, j \in DOMAIN s : s[i] = s[j] => i = j
InQueue(s, work) == \E i \in DOMAIN s : s[i] = work

\* Submitting an item leaves it in the queue, once, and no other comes or goes.
LEMMA SubmitKeepsOnce ==
    ASSUME queue \in Seq(Works), Once(queue), NEW work \in Works, Submit(work)
    PROVE  /\ queue' \in Seq(Works) /\ Once(queue')
           /\ \A other \in Works \ {work} :
                 InQueue(queue', other) <=> InQueue(queue, other)
  BY SMTT(30) DEF Submit, Queued, Once, InQueue

\* What is left of a queue without its i-th item.
LEMMA RemovalKeepsOnce ==
    ASSUME NEW s \in Seq(Works), NEW r \in Seq(Works), NEW i \in 1 .. Len(s), Once(s),
           Len(r) = Len(s) - 1,
           \A k \in 1 .. Len(r) : r[k] = IF k < i THEN s[k] ELSE s[k + 1]
    PROVE  /\ Once(r) /\ ~InQueue(r, s[i])
           /\ \A other : InQueue(r, other) => InQueue(s, other)
           /\ \A other : InQueue(s, other) /\ other # s[i] => InQueue(r, other)
<1> DEFINE new(j) == IF j < i THEN j ELSE j - 1
<1> DEFINE old(k) == IF k < i THEN k ELSE k + 1
<1>1. Len(s) \in Nat /\ Len(r) \in Nat /\ DOMAIN s = 1 .. Len(s) /\ DOMAIN r = 1 .. Len(r)
  OBVIOUS
<1>2. \A k \in DOMAIN r : old(k) \in DOMAIN s /\ old(k) # i /\ r[k] = s[old(k)]
  BY <1>1
<1>3. \A j, k \in DOMAIN r : old(j) = old(k) => j = k
  BY <1>1
<1>8. \A j \in DOMAIN s : j # i => new(j) \in DOMAIN r /\ r[new(j)] = s[j]
  BY <1>1
<1> HIDE DEF old, new
<1>4. Once(r)
  BY <1>2, <1>3 DEF Once
<1>5. i \in DOMAIN s
  BY <1>1
<1>6. ~InQueue(r, s[i])
  BY <1>2, <1>5 DEF Once, InQueue
<1>7. \A other : InQueue(r, other) => InQueue(s, other)
  BY <1>2 DEF InQueue
<1>9. \A other : InQueue(s, other) /\ other # s[i] => InQueue(r, other)
  BY <1>8 DEF InQueue
<1> QED
  BY <1>4, <1>6, <1>7, <1>9

\* Withdrawing an item leaves none of it in the queue; the others stay.
LEMMA WithdrawKeepsOnce ==
    ASSUME queue \in Seq(Works), Once(queue), NEW work \in Works, Withdraw(work)
    PROVE  /\ queue' \in Seq(Works) /\ Once(queue')
           /\ ~InQueue(queue', work)
           /\ \A other : InQueue(queue', other) => InQueue(queue, other)
           /\ \A other : InQueue(queue, other) /\ other # work => InQueue(queue', other)
<1>1. CASE ~Queued(work)
  BY <1>1 DEF Withdraw, Queued, InQueue
<1>2. CASE Queued(work)
  <2> DEFINE i == CHOOSE j \in DOMAIN queue : queue[j] = work
             left == SubSeq(queue, 1, i - 1)
             right == SubSeq(queue, i + 1, Len(queue))
  <2>1. i \in 1 .. Len(queue) /\ queue[i] = work
    BY <1>2 DEF Queued
  <2>2. queue' = left \o right
    BY <1>2 DEF Withdraw
  <2> HIDE DEF i
  <2>3. /\ left \in Seq(Works) /\ Len(left) = i - 1
        /\ \A k \in 1 .. i - 1 : left[k] = queue[k]
    BY <2>1
  <2>4. /\ right \in Seq(Works) /\ Len(right) = Len(queue) - i
        /\ \A k \in 1 .. Len(queue) - i : right[k] = queue[i + k]
    BY <2>1
  <2> HIDE DEF left, right
  <2>5. /\ queue' \in Seq(Works) /\ Len(queue') = Len(left) + Len(right)
        /\ \A k \in 1 .. Len(left) + Len(right) :
              queue'[k] = IF k <= Len(left) THEN left[k] ELSE right[k - Len(left)]
    BY <2>2, <2>3, <2>4, ConcatProperties
  <2>6. Len(queue) \in Nat
    OBVIOUS
  <2>7. queue' \in Seq(Works) /\ Len(queue') = Len(queue) - 1
    BY <2>1, <2>5, <2>3, <2>4, <2>6
  <2>8. ASSUME NEW k \in 1 .. Len(queue')
        PROVE  queue'[k] = IF k < i THEN queue[k] ELSE queue[k + 1]
    <3>1. CASE k < i
      BY <3>1, <2>1, <2>5, <2>6, <2>3, <2>7
    <3>2. CASE ~(k < i)
      <4>1. k - Len(left) \in 1 .. Len(queue) - i /\ i + (k - Len(left)) = k + 1
        BY <3>2, <2>1, <2>6, <2>3, <2>7
      <4>2. queue'[k] = right[k - Len(left)]
        BY <3>2, <2>1, <2>5, <2>6, <2>3, <2>7
      <4> QED
        BY <3>2, <4>1, <4>2, <2>4
    <3> QED BY <3>1, <3>2
  <2> QED
    BY <2>1, <2>7, <2>8, RemovalKeepsOnce
<1> QED BY <1>1, <1>2

\* The item the workqueue takes up was queued and is so no more.
LEMMA TakeKeepsOnce ==
    ASSUME queue \in Seq(Works), Once(queue), NEW work, NEW step, Take(work, step)
    PROVE  /\ queue' \in Seq(Works) /\ Once(queue')
           /\ InQueue(queue, work) /\ ~InQueue(queue', work)
           /\ \A other : InQueue(queue', other) => InQueue(queue, other)
           /\ \A other : InQueue(queue, other) /\ other # work => InQueue(queue', other)
<1>1. queue' \in Seq(Works) /\ Len(queue') = Len(queue) - 1
  BY DEF Take
<1>2. 1 \in 1 .. Len(queue) /\ queue[1] = work
  BY DEF Take
<1>3. \A k \in 1 .. Len(queue') : queue'[k] = IF k < 1 THEN queue[k] ELSE queue[k + 1]
  BY <1>1 DEF Take
<1>4. InQueue(queue, work)
  BY <1>2 DEF InQueue
<1> QED
  BY <1>1, <1>2, <1>3, <1>4, RemovalKeepsOnce

\* Types, and what DetachCancelsStop and FullWindow rest on: a stop that is delayed or
\* queued was scheduled after the last detach, and one that is queued, with no delay
\* running, has waited for the whole of the delay last scheduled.
QueueInv ==
    /\ TypeOK
    /\ stop_delayed \/ InQueue(queue, "stop") => cause \in {"attach", "recover"}
    /\ stop_delayed => since + due = StopDelay
    /\ ~stop_delayed => due = 0
    /\ InQueue(queue, "stop") /\ ~stop_delayed => since = StopDelay

\* The clock's own bounds.
LEMMA DelayBounds ==
    /\ 0 \in 0 .. StopDelay /\ StopDelay \in 0 .. StopDelay
    /\ 0 + StopDelay = StopDelay /\ StopDelay # 0
BY LifecycleAssumption

\* A thread that moves on stays typed.
LEMMA ThreadType ==
    ASSUME th \in [Threads -> [pc : Labels, job : Jobs]], NEW t \in Threads
    PROVE  /\ \A label \in Labels : Goto(t, label) =>
                th' \in [Threads -> [pc : Labels, job : Jobs]]
           /\ \A label \in Labels, job \in Jobs : Begin(t, job, label) =>
                th' \in [Threads -> [pc : Labels, job : Jobs]]
           /\ Return(t) => th' \in [Threads -> [pc : Labels, job : Jobs]]
<1>1. Idle \in [pc : Labels, job : Jobs]
  BY DEF Idle, Labels, Jobs
<1> QED
  BY <1>1 DEF Goto, Begin, Return

\* The steps of the threads: only a detach takes a stop back, and only a delay that
\* an attach or a recovery sets leads to one.
LEMMA ThreadsKeepQueue ==
    ASSUME QueueInv, NEW t \in Threads, Step(t)
    PROVE  QueueInv' /\ ~(ble_should_advertise /\ ~ble_should_advertise')
<1> USE DEF QueueInv, TypeOK, intent, radio, name, history
<1>0. /\ {"setIntent", "submitStart", "schedule", "setLength", "boot"} \subseteq Labels
      /\ "boot" \in Jobs /\ Works = {"start", "stop", "refresh"}
      /\ queue \in Seq(Works) /\ Once(queue)
  BY DEF Labels, LifecycleSteps, Jobs, Works, Once
<1>1. CASE CancelStop(t)
  <2>1. queue' \in Seq(Works) /\ Once(queue') /\ ~InQueue(queue', "stop")
    BY <1>0, <1>1, WithdrawKeepsOnce DEF CancelStop, NoDelay
  <2>2. th' \in [Threads -> [pc : Labels, job : Jobs]]
    BY <1>0, <1>1, ThreadType DEF CancelStop
  <2>3. due' = 0 /\ since' = 0 /\ due' \in 0 .. StopDelay /\ since' \in 0 .. StopDelay
    BY <1>1, DelayBounds DEF CancelStop, NoDelay
  <2> QED
    BY <1>1, <2>1, <2>2, <2>3 DEF CancelStop, NoDelay, Once
<1>2. CASE SetIntent(t)
  BY <1>0, <1>2, ThreadType DEF SetIntent
<1>3. CASE SubmitStart(t)
  <2>1. /\ queue' \in Seq(Works) /\ Once(queue')
        /\ InQueue(queue', "stop") <=> InQueue(queue, "stop")
    BY <1>0, <1>3, SubmitKeepsOnce DEF SubmitStart
  <2> QED
    BY <1>0, <1>3, <2>1, ThreadType DEF SubmitStart, Once
<1>4. CASE Schedule(t)
  BY <1>0, <1>4, ThreadType, LifecycleAssumption DEF Schedule, Scheduling
<1>5. CASE NameSaved(t)
  BY <1>0, <1>5, ThreadType DEF NameSaved
<1>6. CASE SetLength(t)
  <2>1. /\ queue' \in Seq(Works) /\ Once(queue')
        /\ InQueue(queue', "stop") <=> InQueue(queue, "stop")
    BY <1>0, <1>6, SubmitKeepsOnce DEF SetLength
  <2>2. th' \in [Threads -> [pc : Labels, job : Jobs]]
    BY <1>0, <1>6, ThreadType DEF SetLength
  <2> QED
    BY <1>0, <1>6, <2>1, <2>2 DEF SetLength, Once
<1> QED BY <1>1, <1>2, <1>3, <1>4, <1>5, <1>6 DEF Step

\* The work items: a stop that takes the flag down was queued.
LEMMA WorkKeepsQueue ==
    ASSUME QueueInv, Work
    PROVE  /\ QueueInv'
           /\ ble_should_advertise /\ ~ble_should_advertise' => InQueue(queue, "stop")
<1> USE DEF QueueInv, TypeOK, intent, radio, name, history, WorkSteps
<1>0. queue \in Seq(Works) /\ Once(queue)
  BY DEF Once
<1>1. ASSUME NEW work, NEW step, Take(work, step)
      PROVE  /\ queue' \in Seq(Works) /\ InQueue(queue, work)
             /\ \A i, j \in DOMAIN queue' : queue'[i] = queue'[j] => i = j
             /\ InQueue(queue', "stop") => InQueue(queue, "stop")
             /\ wq' = step
             /\ UNCHANGED <<stop_delayed, due, th, attached, radio, name, history>>
  BY <1>0, <1>1, TakeKeepsOnce DEF Take, Once
<1>2. CASE start_advertising
  <2>1. Take("start", IF ble_should_advertise THEN "setData" ELSE "idle")
    BY <1>2 DEF start_advertising
  <2> QED
    BY <1>2, <2>1, <1>1 DEF start_advertising
<1>3. CASE ble_stop_handler
  <2>1. Take("stop", IF ble_should_advertise THEN "disable" ELSE "idle")
    BY <1>3 DEF ble_stop_handler
  <2> QED
    BY <1>3, <2>1, <1>1 DEF ble_stop_handler
<1>4. CASE refresh_advertising_data
  <2>1. Take("refresh", "update")
    BY <1>4 DEF refresh_advertising_data
  <2> QED
    BY <1>4, <2>1, <1>1 DEF refresh_advertising_data
<1>5. CASE SetData
  BY <1>5 DEF SetData
<1>6. CASE Enable
  BY <1>6 DEF Enable
<1>7. CASE Disable
  BY <1>7 DEF Disable
<1>8. CASE Shown
  BY <1>8 DEF Shown
<1>9. CASE Update
  BY <1>9 DEF Update
<1> QED BY <1>2, <1>3, <1>4, <1>5, <1>6, <1>7, <1>8, <1>9 DEF Work

\* The entry points queue nothing.
LEMMA RequestsKeepQueue ==
    ASSUME QueueInv, Request
    PROVE  QueueInv' /\ UNCHANGED ble_should_advertise
<1> USE DEF QueueInv, TypeOK, intent, radio, name, history, Enter
<1>0. /\ {"schedule", "cancelStop", "setIntent", "saveName"} \subseteq Labels
      /\ {"attach", "detach", "recover", "rename"} \subseteq Jobs
      /\ {"ot", "bt"} \subseteq Threads
  BY DEF Labels, LifecycleSteps, Jobs, Recoveries, Threads
<1>1. CASE ble_lifecycle_on_thread_attached
  BY <1>0, <1>1, ThreadType DEF ble_lifecycle_on_thread_attached
<1>2. CASE ble_lifecycle_on_thread_detached
  BY <1>0, <1>2, ThreadType DEF ble_lifecycle_on_thread_detached
<1>3. ASSUME NEW t \in {"ot", "bt"}, ble_lifecycle_force_recovery(t)
      PROVE  QueueInv' /\ UNCHANGED ble_should_advertise
  BY <1>0, <1>3, ThreadType DEF ble_lifecycle_force_recovery
<1>4. ASSUME NEW t \in {"ot", "bt"}, NEW new \in Names, modify_full_name(t, new)
      PROVE  QueueInv' /\ UNCHANGED ble_should_advertise
  BY <1>0, <1>4, ThreadType DEF modify_full_name
<1> QED BY <1>1, <1>2, <1>3, <1>4 DEF Request

\* The invariant holds at first, and every step keeps it; a step that takes the flag
\* down has a queued stop to carry out.
LEMMA QueueInvInductive ==
    /\ Init => QueueInv
    /\ QueueInv /\ [Next]_vars =>
        /\ QueueInv'
        /\ ble_should_advertise /\ ~ble_should_advertise' => InQueue(queue, "stop")
<1>1. Init => QueueInv
  <2> SUFFICES ASSUME Init PROVE QueueInv
    OBVIOUS
  <2>1. th \in [Threads -> [pc : Labels, job : Jobs]]
    BY DEF Init, Idle, Labels, Jobs
  <2>2. queue \in Seq(Works) /\ DOMAIN queue = {}
    BY DEF Init
  <2>3. ~InQueue(queue, "stop") /\ \A i, j \in DOMAIN queue : queue[i] = queue[j] => i = j
    BY <2>2 DEF InQueue
  <2>4. TypeOK
    BY <2>1, <2>2, <2>3, LifecycleAssumption, DelayBounds DEF Init, TypeOK, WorkSteps
  <2> QED
    BY <2>3, <2>4 DEF Init, QueueInv
<1>2. ASSUME QueueInv, [Next]_vars
      PROVE  /\ QueueInv'
             /\ ble_should_advertise /\ ~ble_should_advertise' => InQueue(queue, "stop")
  <2> USE DEF QueueInv, TypeOK, intent, radio, name, history
  <2>1. CASE Request
    BY <1>2, <2>1, RequestsKeepQueue
  <2>2. CASE Boot
    <3>1. {"setLength", "setIntent"} \subseteq Labels
          /\ {"boot", "bootRecover"} \subseteq Jobs /\ "main" \in Threads
      BY DEF Labels, LifecycleSteps, Jobs, Recoveries, Threads
    <3>2. th' \in [Threads -> [pc : Labels, job : Jobs]]
      BY <1>2, <2>2, <3>1, ThreadType DEF Boot
    <3>3. queue \in Seq(Works) /\ Once(queue) /\ "refresh" \in Works
          /\ "stop" \in Works \ {"refresh"}
      BY <1>2 DEF Once, Works
    <3>4. /\ queue' \in Seq(Works) /\ Once(queue')
          /\ InQueue(queue', "stop") <=> InQueue(queue, "stop")
      BY <2>2, <3>3, SubmitKeepsOnce DEF Boot
    <3>5. UNCHANGED <<intent, wq, attached, radio, name, history>>
      BY <2>2 DEF Boot
    <3> QED
      BY <1>2, <3>2, <3>4, <3>5 DEF Once
  <2>3. ASSUME NEW t \in Threads, Step(t)
        PROVE  QueueInv' /\ ~(ble_should_advertise /\ ~ble_should_advertise')
    BY <1>2, <2>3, ThreadsKeepQueue
  <2>4. CASE Work
    BY <1>2, <2>4, WorkKeepsQueue
  <2>5. CASE Connect \/ ConnectFails \/ LinkLoss
    <3>1. UNCHANGED <<intent, queue, wq, th, attached, on_air, name, cause, since>>
      BY <2>5 DEF Connect, ConnectFails, LinkLoss
    <3>2. conn' \in {"free", "up", "down"} /\ advertising' \in BOOLEAN /\ failed' \in BOOLEAN
      BY <1>2, <2>5 DEF Connect, ConnectFails, LinkLoss
    <3> QED
      BY <1>2, <3>1, <3>2 DEF InQueue
  <2>6. CASE DisconnectedBegin
    <3>1. "disconnected" \in Labels /\ "none" \in Jobs /\ "bt" \in Threads
      BY DEF Labels, Jobs, Threads
    <3> QED
      BY <1>2, <2>6, <3>1, ThreadType DEF DisconnectedBegin
  <2>7. CASE disconnected_cb
    <3>1. "bt" \in Threads /\ "start" \in Works /\ "stop" \in Works \ {"start"}
      BY DEF Threads, Works
    <3>2. queue \in Seq(Works) /\ Once(queue)
      BY <1>2 DEF Once
    <3>3. /\ queue' \in Seq(Works) /\ Once(queue')
          /\ InQueue(queue', "stop") <=> InQueue(queue, "stop")
      BY <2>7, <3>1, <3>2, SubmitKeepsOnce DEF disconnected_cb
    <3> QED
      BY <1>2, <2>7, <3>1, <3>3, ThreadType DEF disconnected_cb, Once
  <2>8. CASE StopTimeout
    <3>1. queue \in Seq(Works) /\ Once(queue) /\ "stop" \in Works
      BY <1>2 DEF Once, Works
    <3>2. queue' \in Seq(Works) /\ Once(queue')
      BY <2>8, <3>1, SubmitKeepsOnce DEF StopTimeout, NoDelay
    <3>3. since = StopDelay /\ due' \in 0 .. StopDelay
      BY <1>2, <2>8, LifecycleAssumption DEF StopTimeout, NoDelay
    <3>4. /\ stop_delayed /\ stop_delayed' = FALSE /\ due' = 0
          /\ UNCHANGED <<ble_should_advertise, wq, th, attached, radio, name, history>>
      BY <2>8 DEF StopTimeout, NoDelay
    <3>5. TypeOK'
      BY <1>2, <3>2, <3>3, <3>4 DEF Once
    <3>6. cause' \in {"attach", "recover"} /\ since' = StopDelay
      BY <1>2, <3>3, <3>4
    <3> QED
      BY <3>4, <3>5, <3>6
  <2>9. CASE Tick
    <3>1. /\ due' \in 0 .. StopDelay /\ since' \in 0 .. StopDelay
          /\ since' + due' = StopDelay /\ stop_delayed /\ stop_delayed' = stop_delayed
      BY <1>2, <2>9, LifecycleAssumption DEF Tick
    <3>2. UNCHANGED <<ble_should_advertise, queue, wq, th, attached, radio, name, cause, failed>>
      BY <2>9 DEF Tick
    <3> QED
      BY <1>2, <3>1, <3>2 DEF InQueue
  <2>10. CASE UNCHANGED vars
    BY <1>2, <2>10 DEF vars, InQueue
  <2> QED
    BY <1>2, <2>1, <2>2, <2>3, <2>4, <2>5, <2>6, <2>7, <2>8, <2>9, <2>10 DEF Next
<1> QED BY <1>1, <1>2

\* Every variable of BleLifecycle stays in its type, and the workqueue holds each
\* of its items at most once (TypeOK).
THEOREM LifecycleTyped == Spec => []TypeOK
<1>1. QueueInv => TypeOK
  BY DEF QueueInv
<1> QED BY <1>1, QueueInvInductive, PTL DEF Spec

\* Bluetooth goes off only by a stop scheduled since the last detach
\* (DetachCancelsStop), however late the delay of an earlier one elapses.
THEOREM DetachCancels == Spec => DetachCancelsStop
<1>1. QueueInv /\ [Next]_vars =>
        [ble_should_advertise /\ ~ble_should_advertise' => cause \in {"attach", "recover"}]_vars
  BY QueueInvInductive DEF QueueInv
<1> QED BY <1>1, QueueInvInductive, PTL DEF Spec, DetachCancelsStop

\* Bluetooth goes off only when the delay last scheduled has run in full, or while it
\* runs, by a stop that had left an earlier delay before (FullWindow): for delays of
\* any length and however often they are restarted, cancelled or overtaken.
THEOREM WholeWindow == Spec => FullWindow
<1>1. QueueInv /\ [Next]_vars =>
        [ble_should_advertise /\ ~ble_should_advertise' => since = StopDelay \/ stop_delayed]_vars
  BY QueueInvInductive DEF QueueInv
<1> QED BY <1>1, QueueInvInductive, PTL DEF Spec, FullWindow

-----------------------------------------------------------------------------
(* On means on.                                                            *)

\* The queue, for those who only ask what is in it.
LEMMA QueueMoves ==
    ASSUME QueueInv
    PROVE  /\ \A work \in Works : Submit(work) =>
                InQueue(queue', work) /\ \A other \in Works : InQueue(queue, other) => InQueue(queue', other)
           /\ \A work \in Works : Withdraw(work) =>
                \A other \in Works : InQueue(queue, other) /\ other # work => InQueue(queue', other)
           /\ \A work, step : Take(work, step) =>
                \A other \in Works : InQueue(queue, other) /\ other # work => InQueue(queue', other)
<1>1. queue \in Seq(Works) /\ Once(queue)
  BY DEF QueueInv, TypeOK, Once
<1>2. ASSUME NEW work \in Works, Submit(work)
      PROVE  InQueue(queue', work) /\ \A other \in Works : InQueue(queue, other) => InQueue(queue', other)
  <2>1. InQueue(queue', work)
    <3>1. CASE Queued(work)
      BY <1>2, <3>1 DEF Submit, Queued, InQueue
    <3>2. CASE ~Queued(work)
      <4>1. Len(queue) + 1 \in DOMAIN queue' /\ queue'[Len(queue) + 1] = work
        BY <1>1, <1>2, <3>2 DEF Submit
      <4> QED BY <4>1 DEF InQueue
    <3> QED BY <3>1, <3>2
  <2> QED BY <1>1, <1>2, <2>1, SubmitKeepsOnce
<1>3. ASSUME NEW work \in Works, Withdraw(work)
      PROVE  \A other \in Works : InQueue(queue, other) /\ other # work => InQueue(queue', other)
  BY <1>1, <1>3, WithdrawKeepsOnce
<1>4. ASSUME NEW work, NEW step, Take(work, step)
      PROVE  \A other \in Works : InQueue(queue, other) /\ other # work => InQueue(queue', other)
  BY <1>1, <1>4, TakeKeepsOnce
<1> QED BY <1>2, <1>3, <1>4

\* Where a thread is after a step, and where the others stay.
LEMMA ThreadMoves ==
    ASSUME th \in [Threads -> [pc : Labels, job : Jobs]], NEW t \in Threads
    PROVE  /\ \A label : Goto(t, label) =>
                th'[t].pc = label /\ th'[t].job = th[t].job
           /\ \A label, job : Begin(t, job, label) => th'[t].pc = label /\ th'[t].job = job
           /\ Return(t) => th'[t].pc = "idle" /\ th'[t].job = "none"
           /\ (Return(t) \/ (\E label : Goto(t, label)) \/ (\E job, label : Begin(t, job, label)))
                => \A u \in Threads \ {t} : th'[u] = th[u]
  BY DEF Goto, Begin, Return, Idle

\* Advertising is on its way: not by a thread that has still to raise the flag, and
\* not by whatever the workqueue is doing.
Coming ==
    \/ InQueue(queue, "start")
    \/ \E t \in Threads : th[t].pc = "submitStart"
    \/ th["main"].job # "none"

\* OnMeansOn counts any work of the workqueue; a refresh and the end of a stop do not
\* bring advertising back.
OnInv ==
    /\ ble_should_advertise /\ conn = "free" =>
          \/ advertising /\ wq # "disable"
          \/ wq \in {"setData", "enable"}
          \/ Coming \/ failed
    /\ \/ th["main"].job = "none" /\ th["main"].pc = "idle"
       \/ th["main"].job = "boot" /\ th["main"].pc \in {"boot", "setLength", "submitStart"}
       \/ th["main"].job = "bootRecover" /\ th["main"].pc \in {"setIntent", "submitStart", "schedule"}

LEMMA ThreadsKeepOn ==
    ASSUME QueueInv, OnInv, NEW t \in Threads, Step(t)
    PROVE  OnInv'
<1> USE DEF OnInv, Coming, intent, radio, name, history
<1>0. /\ th \in [Threads -> [pc : Labels, job : Jobs]] /\ "main" \in Threads
      /\ {"start", "stop", "refresh"} \subseteq Works
  BY DEF QueueInv, TypeOK, Threads, Works
<1>1. CASE CancelStop(t)
  <2>1. InQueue(queue, "start") => InQueue(queue', "start")
    BY <1>0, <1>1, QueueMoves DEF CancelStop, NoDelay
  <2> QED BY <1>0, <1>1, <2>1, ThreadMoves DEF CancelStop, NoDelay, At
<1>2. CASE SetIntent(t)
  BY <1>0, <1>2, ThreadMoves DEF SetIntent, At, Recoveries
<1>3. CASE SubmitStart(t)
  <2>1. InQueue(queue', "start")
    BY <1>0, <1>3, QueueMoves DEF SubmitStart
  <2> QED BY <1>0, <1>3, <2>1, ThreadMoves DEF SubmitStart, At, Recoveries
<1>4. CASE Schedule(t)
  BY <1>0, <1>4, ThreadMoves DEF Schedule, Scheduling, At
<1>5. CASE NameSaved(t)
  BY <1>0, <1>5, ThreadMoves DEF NameSaved, At
<1>6. CASE SetLength(t)
  <2>1. InQueue(queue, "start") => InQueue(queue', "start")
    BY <1>0, <1>6, QueueMoves DEF SetLength
  <2> QED BY <1>0, <1>6, <2>1, ThreadMoves DEF SetLength, At
<1> QED BY <1>1, <1>2, <1>3, <1>4, <1>5, <1>6 DEF Step

LEMMA WorkKeepsOn ==
    ASSUME QueueInv, OnInv, Work
    PROVE  OnInv'
<1> USE DEF OnInv, Coming, intent, radio, name, history
<1>0. {"start", "stop", "refresh"} \subseteq Works
  BY DEF Works
<1>1. CASE start_advertising
  BY <1>1 DEF start_advertising, Take
<1>2. CASE ble_stop_handler
  BY <1>2 DEF ble_stop_handler, Take
<1>3. CASE refresh_advertising_data
  <2>1. InQueue(queue, "start") => InQueue(queue', "start")
    BY <1>0, <1>3, QueueMoves DEF refresh_advertising_data
  <2> QED BY <1>3, <2>1 DEF refresh_advertising_data, Take
<1>4. CASE SetData
  BY <1>4 DEF SetData
<1>5. CASE Enable
  BY <1>5 DEF Enable
<1>6. CASE Disable
  BY <1>6 DEF Disable
<1>7. CASE Shown
  BY <1>7 DEF Shown
<1>8. CASE Update
  BY <1>8 DEF Update
<1> QED BY <1>1, <1>2, <1>3, <1>4, <1>5, <1>6, <1>7, <1>8 DEF Work

LEMMA RequestsKeepOn ==
    ASSUME QueueInv, OnInv, Request
    PROVE  OnInv'
<1> USE DEF OnInv, Coming, intent, radio, history, Enter
<1>0. /\ th \in [Threads -> [pc : Labels, job : Jobs]] /\ "main" \in Threads
      /\ {"ot", "bt"} \subseteq Threads \ {"main"}
  BY DEF QueueInv, TypeOK, Threads
<1>1. CASE ble_lifecycle_on_thread_attached
  BY <1>0, <1>1, ThreadMoves DEF ble_lifecycle_on_thread_attached, At
<1>2. CASE ble_lifecycle_on_thread_detached
  BY <1>0, <1>2, ThreadMoves DEF ble_lifecycle_on_thread_detached, At
<1>3. ASSUME NEW t \in {"ot", "bt"}, ble_lifecycle_force_recovery(t) PROVE OnInv'
  BY <1>0, <1>3, ThreadMoves DEF ble_lifecycle_force_recovery, At
<1>4. ASSUME NEW t \in {"ot", "bt"}, NEW new \in Names, modify_full_name(t, new) PROVE OnInv'
  BY <1>0, <1>4, ThreadMoves DEF modify_full_name, At
<1> QED BY <1>1, <1>2, <1>3, <1>4 DEF Request

\* While Bluetooth is wanted and no client holds it, the locomotive advertises or is
\* about to (OnMeansOn), whatever stops, detaches, renamings and reconnections are
\* half done.
THEOREM OnIsOn == Spec => []OnMeansOn
<1>1. Init => OnInv
  <2> SUFFICES ASSUME Init PROVE OnInv
    OBVIOUS
  <2>1. th["main"] = [pc |-> "boot", job |-> "boot"] /\ "main" \in Threads
    BY DEF Init, Threads
  <2> QED BY <2>1 DEF OnInv, Coming
<1>2. QueueInv /\ OnInv /\ [Next]_vars => OnInv'
  <2> SUFFICES ASSUME QueueInv, OnInv, [Next]_vars PROVE OnInv'
    OBVIOUS
  <2> USE DEF OnInv, Coming, intent, radio, name, history
  <2>0. /\ th \in [Threads -> [pc : Labels, job : Jobs]] /\ {"main", "bt"} \subseteq Threads
        /\ {"start", "stop", "refresh"} \subseteq Works
    BY DEF QueueInv, TypeOK, Threads, Works
  <2>1. CASE Request
    BY <2>1, RequestsKeepOn
  <2>2. CASE Boot
    BY <2>0, <2>2, ThreadMoves DEF Boot, At
  <2>3. ASSUME NEW t \in Threads, Step(t) PROVE OnInv'
    BY <2>3, ThreadsKeepOn
  <2>4. CASE Work
    BY <2>4, WorkKeepsOn
  <2>5. CASE Connect \/ ConnectFails \/ LinkLoss
    BY <2>5 DEF Connect, ConnectFails, LinkLoss
  <2>6. CASE DisconnectedBegin
    BY <2>0, <2>6, ThreadMoves DEF DisconnectedBegin, At
  <2>7. CASE disconnected_cb
    <3>1. /\ ble_should_advertise => InQueue(queue', "start")
          /\ ble_should_advertise' = ble_should_advertise
      BY <2>0, <2>7, QueueMoves DEF disconnected_cb
    <3>2. th'["main"] = th["main"]
      BY <2>0, <2>7, ThreadMoves DEF disconnected_cb
    <3> QED BY <3>1, <3>2
  <2>8. CASE StopTimeout
    <3>1. InQueue(queue, "start") => InQueue(queue', "start")
      BY <2>0, <2>8, QueueMoves DEF StopTimeout, NoDelay
    <3> QED BY <2>8, <3>1 DEF StopTimeout, NoDelay
  <2>9. CASE Tick
    BY <2>9 DEF Tick
  <2>10. CASE UNCHANGED vars
    BY <2>10 DEF vars
  <2> QED BY <2>1, <2>2, <2>3, <2>4, <2>5, <2>6, <2>7, <2>8, <2>9, <2>10 DEF Next
<1>3. OnInv => OnMeansOn
  BY DEF OnInv, Coming, OnMeansOn, StartUnderWay, Queued, InQueue
<1> QED BY <1>1, <1>2, <1>3, QueueInvInductive, PTL DEF Spec

-----------------------------------------------------------------------------
(* The last word counts.                                                   *)

\* LastWordCounts, and where a detach is: on "ot", which between taking the stop back
\* and raising the flag lets no other thread schedule one.
StopComing ==
    \/ stop_delayed \/ InQueue(queue, "stop")
    \/ \E t \in Threads : th[t].job \in Recoveries /\ th[t].pc \in {"submitStart", "schedule"}
LastInv ==
    /\ cause \in {"attach", "recover"} /\ ble_should_advertise => StopComing
    /\ cause \in {"none", "detach"} /\ ~ble_should_advertise =>
          th["ot"].pc = "setIntent" /\ th["ot"].job = "detach"
    /\ \A t \in Threads :
          /\ th[t].job = "detach" => t = "ot"
          /\ th[t].pc = "cancelStop" => th[t].job = "detach"
          /\ th[t].pc = "setIntent" => th[t].job \in Recoveries \cup {"detach"}
          /\ th[t].pc = "setIntent" /\ th[t].job = "detach" => cause = "detach"

\* The steps of the threads: a detach is not overtaken, a recovery that has raised the
\* flag goes on to schedule its stop.
LEMMA ThreadsKeepLast ==
    ASSUME "ot" \notin Preemptive, QueueInv, LastInv, NEW t \in Threads, Step(t)
    PROVE  LastInv'
<1> USE DEF LastInv, StopComing, intent, radio, name, history
<1>0. /\ th \in [Threads -> [pc : Labels, job : Jobs]] /\ "ot" \in Threads
      /\ {"start", "stop", "refresh"} \subseteq Works
      /\ "detach" \notin Recoveries
  BY DEF QueueInv, TypeOK, Threads, Works, Recoveries
<1>1. CASE CancelStop(t)
  <2>1. /\ th[t].pc = "cancelStop" /\ th[t].job = "detach" /\ t = "ot"
        /\ th'[t].pc = "setIntent" /\ th'[t].job = "detach"
        /\ \A u \in Threads \ {t} : th'[u] = th[u]
    BY <1>0, <1>1, ThreadMoves DEF CancelStop, NoDelay, At
  <2>2. cause' = "detach" /\ ble_should_advertise' = ble_should_advertise
    BY <1>1 DEF CancelStop, NoDelay
  <2> QED BY <1>0, <2>1, <2>2
<1>2. CASE SetIntent(t)
  <2>1. /\ th[t].pc = "setIntent" /\ th[t].job \in Recoveries \cup {"detach"}
        /\ th'[t].pc \in {"submitStart", "schedule", "idle"}
        /\ th'[t].job \in {th[t].job, "none"}
        /\ ~ble_should_advertise => th'[t].pc = "submitStart" /\ th'[t].job = th[t].job
        /\ \A u \in Threads \ {t} : th'[u] = th[u]
    BY <1>0, <1>2, ThreadMoves DEF SetIntent, At
  <2>2. ble_should_advertise' = TRUE /\ UNCHANGED <<stop_delayed, queue, cause>>
    BY <1>2 DEF SetIntent
  <2>3. cause \in {"attach", "recover"} => StopComing'
    <3>1. CASE ~ble_should_advertise
      BY <2>1, <2>2, <3>1
    <3>2. CASE ble_should_advertise
      BY <2>1, <2>2, <3>2
    <3> QED BY <3>1, <3>2
  <2> QED BY <1>0, <2>1, <2>2, <2>3
<1>3. CASE SubmitStart(t)
  <2>1. /\ th[t].pc = "submitStart" /\ th'[t].pc \in {"schedule", "idle"}
        /\ th'[t].job \in {th[t].job, "none"}
        /\ th[t].job \in Recoveries => th'[t].pc = "schedule" /\ th'[t].job = th[t].job
        /\ \A u \in Threads \ {t} : th'[u] = th[u]
    BY <1>0, <1>3, ThreadMoves DEF SubmitStart, At
  <2>2. InQueue(queue, "stop") => InQueue(queue', "stop")
    BY <1>0, <1>3, QueueMoves DEF SubmitStart
  <2>3. UNCHANGED <<ble_should_advertise, stop_delayed, cause>>
    BY <1>3 DEF SubmitStart
  <2> QED BY <1>0, <2>1, <2>2, <2>3
<1>4. CASE Schedule(t)
  <2>1. /\ CanRun(t) /\ th'[t].pc \in {"boot", "idle"} /\ th'[t].job \in {"boot", "none"}
        /\ th[t].pc = "schedule"
        /\ \A u \in Threads \ {t} : th'[u] = th[u]
    BY <1>0, <1>4, ThreadMoves DEF Schedule, Scheduling, At
  <2>2. stop_delayed' /\ cause' \in {"attach", "recover"}
    BY <1>4 DEF Schedule, Scheduling
  <2>3. ASSUME NEW u \in Threads, th[u].pc = "setIntent", th[u].job = "detach"
        PROVE  FALSE
    <3>1. u = "ot" /\ u # t
      BY <2>1, <2>3
    <3> QED BY <2>1, <2>3, <3>1 DEF CanRun, YieldPoints
  <2> QED BY <1>0, <2>1, <2>2, <2>3
<1>5. CASE NameSaved(t)
  BY <1>0, <1>5, ThreadMoves DEF NameSaved, At
<1>6. CASE SetLength(t)
  <2>1. InQueue(queue, "stop") => InQueue(queue', "stop")
    BY <1>0, <1>6, QueueMoves DEF SetLength
  <2> QED BY <1>0, <1>6, <2>1, ThreadMoves DEF SetLength, At
<1> QED BY <1>1, <1>2, <1>3, <1>4, <1>5, <1>6 DEF Step

\* The work items: only a stop takes a stop from the queue, and takes the flag down.
LEMMA WorkKeepsLast ==
    ASSUME QueueInv, LastInv, Work
    PROVE  LastInv'
<1> USE DEF LastInv, StopComing, intent, radio, name, history
<1>0. {"start", "stop", "refresh"} \subseteq Works
  BY DEF Works
<1>1. CASE start_advertising
  <2>1. InQueue(queue, "stop") => InQueue(queue', "stop")
    BY <1>0, <1>1, QueueMoves DEF start_advertising
  <2> QED BY <1>1, <2>1 DEF start_advertising, Take
<1>2. CASE ble_stop_handler
  <2>1. InQueue(queue, "stop")
    BY <1>2, TakeKeepsOnce DEF ble_stop_handler, Take, InQueue, QueueInv, TypeOK
  <2>2. cause \in {"attach", "recover"}
    BY <2>1 DEF QueueInv
  <2> QED BY <1>2, <2>2 DEF ble_stop_handler, Take
<1>3. CASE refresh_advertising_data
  <2>1. InQueue(queue, "stop") => InQueue(queue', "stop")
    BY <1>0, <1>3, QueueMoves DEF refresh_advertising_data
  <2> QED BY <1>3, <2>1 DEF refresh_advertising_data, Take
<1>4. CASE SetData
  BY <1>4 DEF SetData
<1>5. CASE Enable
  BY <1>5 DEF Enable
<1>6. CASE Disable
  BY <1>6 DEF Disable
<1>7. CASE Shown
  BY <1>7 DEF Shown
<1>8. CASE Update
  BY <1>8 DEF Update
<1> QED BY <1>1, <1>2, <1>3, <1>4, <1>5, <1>6, <1>7, <1>8 DEF Work

\* The entry points: idle threads begin, each with the label of its operation.
LEMMA RequestsKeepLast ==
    ASSUME QueueInv, LastInv, Request
    PROVE  LastInv'
<1> USE DEF LastInv, StopComing, intent, radio, history, Enter
<1>0. /\ th \in [Threads -> [pc : Labels, job : Jobs]] /\ {"ot", "bt"} \subseteq Threads
      /\ "recover" \in Recoveries /\ "detach" \notin Recoveries
  BY DEF QueueInv, TypeOK, Threads, Recoveries
<1>1. CASE ble_lifecycle_on_thread_attached
  BY <1>0, <1>1, ThreadMoves DEF ble_lifecycle_on_thread_attached, At
<1>2. CASE ble_lifecycle_on_thread_detached
  BY <1>0, <1>2, ThreadMoves DEF ble_lifecycle_on_thread_detached, At
<1>3. ASSUME NEW t \in {"ot", "bt"}, ble_lifecycle_force_recovery(t) PROVE LastInv'
  BY <1>0, <1>3, ThreadMoves DEF ble_lifecycle_force_recovery, At
<1>4. ASSUME NEW t \in {"ot", "bt"}, NEW new \in Names, modify_full_name(t, new) PROVE LastInv'
  BY <1>0, <1>4, ThreadMoves DEF modify_full_name, At
<1> QED BY <1>1, <1>2, <1>3, <1>4 DEF Request

\* With "ot" cooperative, the last call decides whether Bluetooth stays on
\* (LastWordCounts), for both settings of the off timer and the display and any
\* priority of main() (main_ble_utils.c:449-516).
THEOREM LastWordDecides == "ot" \notin Preemptive /\ Spec => []LastWordCounts
<1>1. Init => LastInv
  <2> SUFFICES ASSUME Init PROVE LastInv
    OBVIOUS
  <2>1. /\ \A t \in Threads : th[t].pc \in {"boot", "idle"} /\ th[t].job \in {"boot", "none"}
        /\ cause = "none" /\ ble_should_advertise
    BY DEF Init, Idle
  <2> QED BY <2>1 DEF LastInv
<1>2. "ot" \notin Preemptive /\ QueueInv /\ LastInv /\ [Next]_vars => LastInv'
  <2> SUFFICES ASSUME "ot" \notin Preemptive, QueueInv, LastInv, [Next]_vars PROVE LastInv'
    OBVIOUS
  <2> USE DEF LastInv, StopComing, intent, radio, name, history
  <2>0. /\ th \in [Threads -> [pc : Labels, job : Jobs]] /\ {"main", "bt", "ot"} \subseteq Threads
        /\ {"start", "stop", "refresh"} \subseteq Works /\ "bootRecover" \in Recoveries
    BY DEF QueueInv, TypeOK, Threads, Works, Recoveries
  <2>1. CASE Request
    BY <2>1, RequestsKeepLast
  <2>2. CASE Boot
    <3>1. InQueue(queue, "stop") => InQueue(queue', "stop")
      BY <2>0, <2>2, QueueMoves DEF Boot
    <3> QED BY <2>0, <2>2, <3>1, ThreadMoves DEF Boot, At
  <2>3. ASSUME NEW t \in Threads, Step(t) PROVE LastInv'
    BY <2>3, ThreadsKeepLast
  <2>4. CASE Work
    BY <2>4, WorkKeepsLast
  <2>5. CASE Connect \/ ConnectFails \/ LinkLoss
    BY <2>5 DEF Connect, ConnectFails, LinkLoss
  <2>6. CASE DisconnectedBegin
    BY <2>0, <2>6, ThreadMoves DEF DisconnectedBegin, At
  <2>7. CASE disconnected_cb
    <3>1. InQueue(queue, "stop") => InQueue(queue', "stop")
      BY <2>0, <2>7, QueueMoves DEF disconnected_cb
    <3> QED BY <2>0, <2>7, <3>1, ThreadMoves DEF disconnected_cb, At
  <2>8. CASE StopTimeout
    <3>1. InQueue(queue', "stop")
      BY <2>0, <2>8, QueueMoves DEF StopTimeout, NoDelay
    <3> QED BY <2>8, <3>1 DEF StopTimeout, NoDelay
  <2>9. CASE Tick
    BY <2>9 DEF Tick
  <2>10. CASE UNCHANGED vars
    BY <2>10 DEF vars
  <2> QED BY <2>1, <2>2, <2>3, <2>4, <2>5, <2>6, <2>7, <2>8, <2>9, <2>10 DEF Next
<1>3. QueueInv /\ LastInv => LastWordCounts
  <2> SUFFICES ASSUME QueueInv, LastInv PROVE LastWordCounts
    OBVIOUS
  <2>1. th["ot"] = [pc |-> th["ot"].pc, job |-> th["ot"].job]
    BY DEF QueueInv, TypeOK, Threads
  <2> QED BY <2>1 DEF LastInv, StopComing, LastWordCounts, Queued, InQueue
<1>4. "ot" \notin Preemptive => []("ot" \notin Preemptive)
  OBVIOUS
<1> QED BY <1>1, <1>2, <1>3, <1>4, QueueInvInductive, PTL DEF Spec

-----------------------------------------------------------------------------
(* The name on air.                                                        *)

\* A renaming or a refresh is under way.
Renewing ==
    \/ InQueue(queue, "refresh") \/ wq = "update"
    \/ \E t \in Threads : th[t].pc \in {"saveName", "setLength"}

\* What a start hands to the controller is on air only after its second call, and the
\* text and its length differ only while a thread is between the two.
NameInv ==
    /\ advertising \/ wq = "enable" =>
          on_air = [text |-> full_name, len |-> full_name] \/ Renewing
    /\ sd_len # full_name => \E t \in Threads : th[t].pc \in {"saveName", "setLength"}

LEMMA ThreadsKeepName ==
    ASSUME QueueInv, NameInv, NEW t \in Threads, Step(t)
    PROVE  NameInv'
<1> USE DEF NameInv, Renewing, intent, radio, name, history
<1>0. /\ th \in [Threads -> [pc : Labels, job : Jobs]]
      /\ {"start", "stop", "refresh"} \subseteq Works
  BY DEF QueueInv, TypeOK, Works
<1>1. CASE CancelStop(t)
  <2>1. InQueue(queue, "refresh") => InQueue(queue', "refresh")
    BY <1>0, <1>1, QueueMoves DEF CancelStop, NoDelay
  <2> QED BY <1>0, <1>1, <2>1, ThreadMoves DEF CancelStop, NoDelay, At
<1>2. CASE SetIntent(t)
  BY <1>0, <1>2, ThreadMoves DEF SetIntent, At
<1>3. CASE SubmitStart(t)
  <2>1. InQueue(queue, "refresh") => InQueue(queue', "refresh")
    BY <1>0, <1>3, QueueMoves DEF SubmitStart
  <2> QED BY <1>0, <1>3, <2>1, ThreadMoves DEF SubmitStart, At
<1>4. CASE Schedule(t)
  BY <1>0, <1>4, ThreadMoves DEF Schedule, Scheduling, At
<1>5. CASE NameSaved(t)
  BY <1>0, <1>5, ThreadMoves DEF NameSaved, At
<1>6. CASE SetLength(t)
  <2>1. InQueue(queue', "refresh")
    BY <1>0, <1>6, QueueMoves DEF SetLength
  <2> QED BY <1>6, <2>1 DEF SetLength
<1> QED BY <1>1, <1>2, <1>3, <1>4, <1>5, <1>6 DEF Step

LEMMA WorkKeepsName ==
    ASSUME QueueInv, NameInv, Work
    PROVE  NameInv'
<1> USE DEF NameInv, Renewing, intent, radio, name, history
<1>0. {"start", "stop", "refresh"} \subseteq Works
  BY DEF Works
<1>1. CASE start_advertising
  <2>1. InQueue(queue, "refresh") => InQueue(queue', "refresh")
    BY <1>0, <1>1, QueueMoves DEF start_advertising
  <2> QED BY <1>1, <2>1 DEF start_advertising, Take
<1>2. CASE ble_stop_handler
  <2>1. InQueue(queue, "refresh") => InQueue(queue', "refresh")
    BY <1>0, <1>2, QueueMoves DEF ble_stop_handler
  <2> QED BY <1>2, <2>1 DEF ble_stop_handler, Take
<1>3. CASE refresh_advertising_data
  BY <1>3 DEF refresh_advertising_data, Take
<1>4. CASE SetData
  BY <1>4 DEF SetData
<1>5. CASE Enable
  BY <1>5 DEF Enable
<1>6. CASE Disable
  BY <1>6 DEF Disable
<1>7. CASE Shown
  BY <1>7 DEF Shown
<1>8. CASE Update
  BY <1>8 DEF Update
<1> QED BY <1>1, <1>2, <1>3, <1>4, <1>5, <1>6, <1>7, <1>8 DEF Work

LEMMA RequestsKeepName ==
    ASSUME QueueInv, NameInv, Request
    PROVE  NameInv'
<1> USE DEF NameInv, Renewing, intent, radio, name, history, Enter
<1>0. /\ th \in [Threads -> [pc : Labels, job : Jobs]] /\ {"ot", "bt"} \subseteq Threads
  BY DEF QueueInv, TypeOK, Threads
<1>1. CASE ble_lifecycle_on_thread_attached
  BY <1>0, <1>1, ThreadMoves DEF ble_lifecycle_on_thread_attached, At
<1>2. CASE ble_lifecycle_on_thread_detached
  BY <1>0, <1>2, ThreadMoves DEF ble_lifecycle_on_thread_detached, At
<1>3. ASSUME NEW t \in {"ot", "bt"}, ble_lifecycle_force_recovery(t) PROVE NameInv'
  BY <1>0, <1>3, ThreadMoves DEF ble_lifecycle_force_recovery, At
<1>4. ASSUME NEW t \in {"ot", "bt"}, NEW new \in Names, modify_full_name(t, new) PROVE NameInv'
  <2>1. th'[t].pc = "saveName"
    BY <1>0, <1>4, ThreadMoves DEF modify_full_name
  <2> QED BY <1>0, <2>1
<1> QED BY <1>1, <1>2, <1>3, <1>4 DEF Request

\* With no renaming or refresh under way the name on air is the current one with its
\* own length (NameOnAir), for any names and however many renamings overlap.
THEOREM NameReachesAir == Spec => []NameOnAir
<1>1. Init => NameInv
  BY DEF Init, NameInv
<1>2. QueueInv /\ NameInv /\ [Next]_vars => NameInv'
  <2> SUFFICES ASSUME QueueInv, NameInv, [Next]_vars PROVE NameInv'
    OBVIOUS
  <2> USE DEF NameInv, Renewing, intent, radio, name, history
  <2>0. /\ th \in [Threads -> [pc : Labels, job : Jobs]] /\ {"main", "bt"} \subseteq Threads
        /\ {"start", "stop", "refresh"} \subseteq Works
    BY DEF QueueInv, TypeOK, Threads, Works
  <2>1. CASE Request
    BY <2>1, RequestsKeepName
  <2>2. CASE Boot
    <3>1. InQueue(queue, "refresh") => InQueue(queue', "refresh")
      BY <2>0, <2>2, QueueMoves DEF Boot
    <3> QED BY <2>0, <2>2, <3>1, ThreadMoves DEF Boot, At
  <2>3. ASSUME NEW t \in Threads, Step(t) PROVE NameInv'
    BY <2>3, ThreadsKeepName
  <2>4. CASE Work
    BY <2>4, WorkKeepsName
  <2>5. CASE Connect \/ ConnectFails \/ LinkLoss
    BY <2>5 DEF Connect, ConnectFails, LinkLoss
  <2>6. CASE DisconnectedBegin
    BY <2>0, <2>6, ThreadMoves DEF DisconnectedBegin, At
  <2>7. CASE disconnected_cb
    <3>1. InQueue(queue, "refresh") => InQueue(queue', "refresh")
      BY <2>0, <2>7, QueueMoves DEF disconnected_cb
    <3> QED BY <2>0, <2>7, <3>1, ThreadMoves DEF disconnected_cb, At
  <2>8. CASE StopTimeout
    <3>1. InQueue(queue, "refresh") => InQueue(queue', "refresh")
      BY <2>0, <2>8, QueueMoves DEF StopTimeout, NoDelay
    <3> QED BY <2>8, <3>1 DEF StopTimeout, NoDelay
  <2>9. CASE Tick
    BY <2>9 DEF Tick
  <2>10. CASE UNCHANGED vars
    BY <2>10 DEF vars
  <2> QED BY <2>1, <2>2, <2>3, <2>4, <2>5, <2>6, <2>7, <2>8, <2>9, <2>10 DEF Next
<1>3. NameInv => NameOnAir
  BY DEF NameInv, Renewing, NameOnAir, Queued, InQueue
<1> QED BY <1>1, <1>2, <1>3, QueueInvInductive, PTL DEF Spec
=============================================================================
