# Verification of the Loki firmware

TLA+ models of the firmware of a Loki locomotive decoder (Zephyr, nRF52840/nRF54):
the motor, its ramp and its direction; the Bluetooth advertising lifecycle; the SRP
registrations; the CoAP server; what survives a reset; how the locomotive gets into its
Thread network; the display. TLC checks each model on a small instance; TLAPS proves
all checked safety properties but one for every value of the constants, that two of the models
implement an abstract specification, and that the CoAP server and the motion keep what
either promises when they are put together. All paths below are relative to the root of
the repository.

## 1. Inventory

| Part | Code | State | Operations | Module |
|---|---|---|---|---|
| Motion | `src/main_loki.c`, `src/main.c` | `speed_value`, `accel_order`, `direction_pattern`, PWM values, `my_timer`, `accel_apply_work` | set speed, order acceleration, change direction, stop, change PWM base, ramp tick, notify | `LokiMotion` |
| H-bridge drivers | `drivers/motor/tb67h453.c`, `tb67h450.c` | `data->direction`, duty of two PWM inputs | `set_direction`, `set_speed` | `LokiMotion` |
| BLE lifecycle | `src/main_ble_utils.c` | `ble_should_advertise`, `ble_stop_work`, two plain work items, `default_conn`, `ad[]`, `sd[]` | attach, detach, recovery, connection callbacks, start/stop/refresh of advertising | `BleLifecycle` |
| SRP registrations | `src/main_ot_utils.c`, `src/main_loki.c`, `src/main.c` | three service handles, `srp_is_enabled`, host name buffer; the pool and the client in OpenThread | `init_srp`, `register_service`, `re_register_service`, `register_dcc_service`, renamings | `SrpServices` |
| CoAP server | `src/loki_coap_utils.c` | `srv_context`, static buffers | seven handlers, the default handler, `loki_coap_init` | `CoapServer`, `RemoteControl` |
| GATT service | `src/main_ble_utils.c` | `speed_notify_enabled` | writes (requests of the modules above), reads | partly |
| Settings and NVS | `src/main.c` | records in flash; names, DCC address, `settings_initialized_flag` in RAM | gate that wipes the partition, first start, load, save | `Settings` |
| Thread control, joiner | `src/main_ot_utils.c` | OpenThread's dataset and role, whether the callbacks are registered | `enable_thread`, `start_thread_joiner`, `disable_thread`, role callback, joiner's callback | `Commissioning` |
| Boot | `src/main.c` | - | the order in which the parts come up | in each of the modules |
| Display | `src/displays/1306_display.c` | `lvgl_mutex`, static text buffers, labels, the two states | six updates, the animation thread | `Display` |
| LocoNet over UDP | `src/main_loki.c` | socket | `on_udp_loconet_receive` logs and replies | no |
| Dummy driver, `src/motors`, `tools/gen_descriptors.py` | | | logs only; superseded; build-time generator | no |

How they interact. CoAP handlers and OpenThread callbacks run on the OpenThread
thread ("ot" in the models); GATT writes and connection callbacks on the Bluetooth
receive thread ("bt"); the ramp and all advertising calls on the system workqueue
("wq"), to which timers and the other threads submit work; `main()` ("main") only
boots. The parts call each other directly, and share plain globals: nothing but the
display and the OpenThread API has a mutex. The ways in which that is hard:

- *interleavings*: under cooperative priorities a handler is interrupted exactly where
  it waits (display mutex, notification buffer, flash write), which is in the middle
  of `change_speed_directly` and `change_direction`;
- *ordering*: a delayed stop of advertising is in one of four places (delayed, queued,
  running, gone) when a detach or a recovery wants it cancelled;
- *shared pools*: four SRP slots, handed from one registration to the next, and a
  client that keeps referring to slots the pool has taken back, until the server has
  confirmed a removal or for good;
- *partial failure*: a CoAP answer is built by six calls of which each may fail,
  `init_srp` stops the client before it knows that it can start it again, and a
  connection attempt that fails has ended advertising all the same;
- *crashes*: a reset, or another firmware flashed, between any two flash writes, and in
  the middle of a wipe;
- *boundaries*: `uint8_t` speeds that must saturate, texts that are read to their
  fourth byte into a buffer used before, numbers that must not be narrowed, small speeds
  that a division makes 0.

What makes each part correct is stated by its properties (section 3); `hazards` in
`PROJECT.json` lists the hazards by line.

## 2. Modules

Conventions. Names are those of the source. A handler that can be interrupted is a
sequence of labelled steps in the order of the C statements; `th[t].pc` is where
thread `t` is. There is one CPU: a cooperative thread gives it up only at
`YieldPoints`, a thread of the constant `Preemptive` between any two steps
(`CanRun`). Handlers that nobody can interrupt are single actions. A definition whose
comment begins with "Mutant" is not part of any specification: it is a plausible bug,
put in place of the definition that follows it in order to see that a property notices.

**`LokiMotion`** - motion, driver, timer and the requests that reach them.

| Action | Code |
|---|---|
| `speed_request`, `acceleration_request`, `direction_request`, `stop_request` | the CoAP callbacks, begun |
| `write_speed`, `write_accelation`, `write_direction`, `write_pwm`, `speed_ccc_cfg_changed` | the GATT handlers, begun |
| `SilencePin`, `DrivePin`, `StoreSpeed`, `DisplayDone` | `change_speed_directly` with the driver's two PWM writes |
| `CheckDirection`, `Brake`, `SetDirection`, `DirectionDisplayDone`, `StoreDirection` | `change_direction` |
| `OrderAcceleration`, `CheckTimer`, `StartTimer` | `speed_set_acceleration` |
| `Apply`, `ApplyWrite`, `Notify`, `NotifyDisplayDone` | `apply_current_acceleration`, `notify_motion_change` |
| `re_apply_acceleration`, `TickBegin`, `TickEnd` | timer interrupt, work handler |

`Apply` reads the speed and the order, `ApplyWrite` writes; the compiler may read the
globals a second time, so `Written` allows both sums. `k_timer_remaining_get` may be 0
for a running timer (`RemainingIsZero`). `last` and `unannounced` are history variables.

**`Traction`** - what clients see of motion, without threads, ramps or timers: a speed
order reaches the bridge before the next one is taken up, and only a locomotive at rest
is reversed. `LokiMotion!ImplementsTraction` maps its variables: the order in force is
the one a thread is carrying out, else `speed_value`; the output is `in1 - in2`.
`Delivers`, its fairness, is the property `OrdersReachBridge`.

**`BleLifecycle`** - the intent flag, the work queue as a sequence, the delayed stop with
the ticks it has to go (`due`, `Tick`, `StopTimeout`), the controller (one connection; no
advertising during it), connection callbacks with the attempt that fails
(`ConnectFails`), role changes, `/ble-recovery`, recovery on SRP failure, boot with its
refreshes, and the renaming of the scan response with its text and its length apart.
`cause` (the last operation on the delayed stop), `since` (the ticks since it was last
scheduled) and `failed` (a failed attempt, and no advertising since) are history.

**`Visibility`** - what someone who looks for the locomotive sees of it: switched on or
off, visible, connected. `BleLifecycle!ImplementsVisibility` maps the controller
(`Beacon`) and the intent flag to it.

**`SrpServices`** - the pool as a stack of free slots, the client's list, the host name
buffer and whether the server knows the host. `boot` is where `main()` is.
`register_dcc_service`, `init_srp` and the renamings are atomic: no call in them waits,
except for the flash, which `DccSaved` separates. `otSrpClientRemoveService` only marks a
service (`removing`); the client lets go of its slot when the server confirms
(`RemovalConfirmed`), and refuses to add a slot or a name it holds, marked or not. A slot
is part of the client's list itself, so to fill one that is still listed is to overwrite
a member of that list: the model keeps the refusal and what the client then lists, not
what else the library makes of it. `failures` and `replaced` (the kinds of registration a
change was to replace) are history.

**`CoapServer`** - one handler at a time. It hands an order to a callback (`Call`), which
takes its time and comes back (`CallbackDone`), or builds an answer step by step
(`BuildStep`, `SendResponse`, `GiveUp`), for which it keeps the request. Buffers are free
or on their way out, and the motion changes underneath (`MotionChanges`). The payload of
`/speed` is a text, byte for byte: `ReadText` is `otMessageRead` of four bytes into the
static buffer with the terminator behind them, and `strtoul` parses what the buffer then
holds, blanks and signs included. The other payloads are a byte or a length.

**`RemoteControl`** - `LokiMotion` with `CoapServer` in front of it. `Receive` is a request
of the server together with the handler of `LokiMotion` that `main()` has bound to its
callback (`Obey`, `src/main.c:683-690`); the handler goes on as thread "ot", and
`CallbackDone` follows when it has returned. `MotionStep` is any other step of
`LokiMotion`, and at the same time the server's `MotionChanges`. While an answer is built
(`ServerYields`) the OpenThread thread keeps the CPU, unless it is preemptible; the timer's
interrupt comes all the same. `modify_full_name` and `ble_lifecycle_force_recovery`, also
callbacks, leave the motion alone.

**`Settings`** - the partition as records that carry, as history, who wrote them
(MAJOR.MINOR, and whether that firmware's gate had returned 0); `init_and_optionally_clear_nvs`
step by step (`Gate`, `ClearSome`, `ClearAll`, `WriteVersion`, `WriteBuild`, `GateFails`),
the rest of `main()` as far as it reads or writes settings (`Start`, `LoadFlag`,
`SaveDefaults`, `SaveFlag`, `Load`, `Ready`), the renamings (`Choose`) and `Reset`, at any
step, of the same firmware or another one. NVS erases sector by sector, so `ClearSome` may
leave any part of what was stored. The export goes record by record and ignores what each
write returns (`SaveSubtree`), so that any part of the records may be stored. `Handler` is
the path the settings handler is registered under: `TREN` in the code, `loki` in the
documents.

**`Commissioning`** extends `Settings` by Thread: the stored network is one of its records.
Roles change and are reported late, several changes at once
(`on_thread_state_changed` reads the role of now); `AutoStart` lets OpenThread start a
stored network before `main()` does; the joiner may be started again at any moment, may
fail, or may have its network blanked again before its callback comes. The calls that own
OpenThread's mutex are one step each.

**`Display`** - four lines, six updates, the boot's updates as a script, the callbacks' in
any order, and `animate_ip_scroll` with its timeout. The kernel hands a mutex to a waiting
thread, so the timeout may come just before. `overlapped` is history.

**External code.** Zephyr's scheduler, mutexes, timers, work queues, settings, NVS and
Bluetooth controller, OpenThread's roles, joiner, SRP client and buffers, and LVGL are
modelled from how the code uses them; the comments in the modules say what is assumed of
each.

`MCMotion`, `MCBle`, `MCSrp`, `MCCoap`, `MCRemote`, `MCCommissioning`, `MCDisplay` give the constants
values for TLC; `LokiMotion_proofs`, `Traction_proofs`, `BleLifecycle_proofs` (with
`Visibility`), `SrpServices_proofs`, `CoapServer_proofs`, `RemoteControl_proofs`,
`Commissioning_proofs` (with `Settings`) and `Display_proofs` hold the theorems.

## 3. Runs

| Run | Properties | Shows |
|---|---|---|
| `motion_display` | `PinsExclusive`, `MotorFollowsSpeed`, `RampArmed`, `RampAnnounced`, `ReversesAtStandstill`, `RampAdvances` | with a display, where handlers overlap: both inputs of the bridge are never driven, the motor runs at the speed the firmware reports, no order is left without a timer, ramp steps are announced, only a dead bridge is reversed, a ramp step makes progress or ends its order and does not wrap |
| `motion_live` | `RampCompletes`, `TimerRetires`, `ImplementsTraction`, `OrdersReachBridge` | without a display: the module implements `Traction` and no order is forgotten on its way to the bridge; when clients are silent orders end and the timer is switched off |
| `ble_lifecycle` | `OffMeansOff`, `OnMeansOn`, `LastWordCounts`, `ImplementsVisibility`, `DetachCancelsStop`, `FullWindow`, `GoesDark`, `StaysVisible` | the lifecycle implements `Visibility`: off stays off, on is never lost but to a failed connection; the last attach, recovery or detach decides; a detach cancels every earlier stop; what an attach or a recovery asks for lasts a whole delay, unless a stop was in the queue by then; where the lifecycle ends |
| `ble_names` | `NameOnAir` | a torn or stale name on air has a refresh on its way |
| `srp_services` | `NoSlotShared`, `NamesRegistered`, `SlotsAccounted`, `NoSecondFailure` | slots are never shared; until a DCC registration is replaced none is lost or given away behind the client's back, and a name that was not changed stays registered; a stopped client starts again |
| `coap_server` | `PoolRestored`, `AnswerIsCurrent`, `SpeedAsWritten` | no buffer leaks, no stale answer; a text of up to four digits is obeyed as the number it says, or not at all |
| `remote_control` | `ClientObeyed`, `AnswerIsTrue` | the server with the motion underneath: a callback is carried out as given, whatever happens while its thread waits; a speed that is answered is the one the bridge delivers, an acceleration the order in force |
| `joins` | `StaleUnused`, `TornUnused`, `KeptForSeries`, `LifecycleInformed`, `NetworkTakenUp`, `NetworkUsed` | over resets, reflashes, wipes cut short and failing calls: no firmware works on another MAJOR.MINOR's records or on a wipe of its own that was cut short, and none is wiped while the version vouches for it; the BLE lifecycle knows the role of Thread; a stored network has Thread enabled or the callback that enables it still to come, and one that stays stored ends with Thread enabled |
| `display` | `LvglExclusive`, `StatusCurrent`, `OwnAddressShown`, `SomebodyRuns`, `UpdatesReturn`, `FramesComeBack` | LVGL is entered by one thread at a time; lines show what they should; somebody at the display can always go on without a timeout, and no update hangs on the two mutexes; drawing resumes after every timeout |

Three runs show what the code does against what its documents say:

| Run | Property | Disagreement |
|---|---|---|
| `motion_stop` | `StopIsFinal` | `/stop` leaves the order and the timer: the next tick drives off again (`OVERVIEW/communication.md:43`) |
| `srp_changes` | `ChangesRegistered` | what replaces a registration takes the slot just freed, which the client still holds, and is refused: after a renaming (`src/main_ot_utils.c:546`, `INTERFACES.md:142`) because the removal is not confirmed yet, and nobody adds the service again once it is; after a change of the DCC address (`src/main_loki.c:175`, `TODO/01-ble-gatt-fixes.md:69-70`) because it was never removed, and the slot is lost as well. With both names and the address changed and nothing left to confirm, none of the three is registered |
| `names_lost` | `NamesSurvive` | the settings handler is registered under `TREN` and saves keys under `loki`: nothing is stored, and a name or address that was chosen, and reported as saved, is gone after a reset (`OVERVIEW/architecture.md:78`) |

Other disagreements met while modelling, for which no run was made because they follow
from one guard, one call or one division:

- a recovery schedules the stop whatever the role of Thread (`src/main_ble_utils.c:506`):
  one asked for while detached, as `write_dcc` does after an SRP failure, takes a detached
  locomotive off the air, of which `TODO/01-ble-gatt-fixes.md:165` says "on, indefinitely".
  `LastWordCounts` is what the code does keep: the recovery is the last word;
- the brake of a direction order is `speed / 3`, which is 0 at speeds 1 and 2
  (`src/main_loki.c:139-141`): the locomotive goes on, and a second direction order
  while one brakes below 3 takes the brake away again;
- `k_work_reschedule` leaves a stop in the work queue that has left its delay, and that
  stop ends a new window early (`INTERFACES.md:223`, `src/main_ble_utils.c:456`, `:506`);
  `FullWindow` excepts it, and is about the delays;
- a connection attempt that fails (`src/main_ble_utils.c:313`) has ended advertising, and
  nothing starts it again before the next detach, recovery or disconnect, of a locomotive
  that should be visible (`TODO/01-ble-gatt-fixes.md:164`); `OnMeansOn` and `StaysVisible`
  except it;
- with a display, a direction order that comes while another one waits for the display
  (`src/main_loki.c:145-147`) leaves the stored pattern and the driver's direction apart:
  what clients read back is then wrong, and an order of the stored pattern is taken for no
  change;
- `/speed` reads four bytes: "00255" is obeyed as 25, and "12x" as 12
  (`src/loki_coap_utils.c:196-210`); `SpeedAsWritten` is about texts of up to four
  digits, which is what `INTERFACES.md:216` asks for;
- the octet-stream answer about the speed is the first byte of an earlier text answer
  (`src/loki_coap_utils.c:260`, `TODO/02-coap-fixes.md:95-96`);
- a speed set directly is not notified (`INTERFACES.md:136`);
- a short name that is a beginning of the old one is taken for no change
  (`src/main.c:559`, `INTERFACES.md:142`);
- a join at run time starts no CoAP server (`INTERFACES.md:171-173`);
- `/stop`, `/name` and `/ble-recovery` obey confirmable requests (`INTERFACES.md:208`);
- `GET /direction` is documented (`OVERVIEW/communication.md:42`) and refused;
- `main()` ignores what the gate returns (`src/main.c:621`) and works on whatever is
  stored; the properties of `Settings` except the records of such a run;
- a locomotive whose OpenThread has attached by itself before `main()` calls
  `enable_thread` never registers the callbacks (`src/main_ot_utils.c:309`), so that its
  Bluetooth stays on: `LifecycleInformed` speaks of registered callbacks;
- in Zephyr versions whose `nvs_clear` unmounts, the two writes after a wipe fail, unseen
  (`src/main.c:302-315`): the next boot wipes again.

### Bounds, and why they are enough

- *Motion*: speeds 0..3 and duty 0..2 (smaller than the speeds, as 100 is smaller than
  255, so that a speed rounds to duty 0), orders -2 and 2 (they overshoot both ends,
  and take two steps from end to end), brake divisor 3 (so that some speed brakes with 0,
  as in the code, and one with 1), patterns forward and reverse, or forward and the
  character '1' that the documents send. Two controllers and the ramp are all the threads
  there are. `PwmOf` is evaluated with the real constants. No counter is bounded: all
  variables are finite.
- *BLE*: one name where names do not matter, two where they do; every thread there is.
  The delay lasts two ticks (`StopDelay`), so that another attach, recovery or detach can
  come before, between and after them; `ble_names`, where its length does not matter, has
  one, and `VIEW WithoutHistory`: no step and no part of `NameOnAir` reads the history.
  A work item is queued at most once, so the queue is finite. `OffAfterAttach` is TRUE:
  with 0 the feature is disabled and nothing ever stops. The proof covers both.
- *SRP*: the four slots of `prj.conf` (under symmetry: slots occur only in equalities),
  three short names of which one is a beginning of another (Lo, Loki, Thor), two full
  names, the unset and two DCC addresses. The one bound is `MaxFailures` = 2 on the history
  variable `failures`; `NoSecondFailure` shows that it is never reached.
- *CoAP*: two message buffers, so that an answer can wait to be sent, a second one be
  built and a third find no buffer; payloads on both sides of each boundary
  (127/128, 63/64), and for `/speed` the texts "7", "256", "0255", "00255" and "x": the
  largest speed and one above it, a leading zero, a text longer than what is read, no
  number, and shorter ones that leave the tail of longer ones in the buffer; two speeds
  and orders besides 0. Request formats are enumerated for `/speed`, the only handler
  that reads them.
- *Server and motion together*: speeds and duty 0..2, a brake divisor of 2, orders -1 and
  2, one pattern and byte, the text "2" (the top speed here: `MaxSpeed`, 255 in the code,
  is `SpeedSteps` of the motion); one message buffer, because `coap_server` has two. Without a display, so that
  all waiting is for notification buffers; the proofs cover both builds.
- *Settings and joins*: three builds, two of one MAJOR.MINOR and one of another, so that
  every answer of the gate occurs; one of the three settings, which are all stored alike,
  and one value to choose. Resets, joins and role changes are not counted: all variables
  are finite. `Faults` lets every call of flash, settings and OpenThread fail; it is FALSE
  in `names_lost`, which shows a loss without any failure.
- *Display*: main with its seven updates, two callers with two updates each (with
  OpenThread's mutex, and without), and anim. A text is a name; that it is copied in two
  parts is kept.

### Fairness

`Fairness` gives weak fairness to the steps of the threads, the timers, the work items
and the callbacks: Zephyr's scheduler runs a ready thread, time passes, mutexes are
released by their holders, a submitted item is executed. Nothing is assumed of clients,
connections or the radio network: the liveness properties have "the clients are silent"
as a premise (`Silence`) instead of a fairness of clients. In `Commissioning` only
`main()` and OpenThread's callbacks are fair (`CFairSpec`): networks, users and resets owe
nothing, and `NetworkUsed` has as its premise that the network stays stored, that resets
end and that no call was refused. In `Display` threads go on and anim wakes up; callers
owe no updates. `OrdersReachBridge` needs none of the clients at all.

`CHECK_DEADLOCK` is left on everywhere: a client can always send the next request.

## 4. Proofs

| Theorem | Property | Assumptions besides those on constants |
|---|---|---|
| `LokiMotion_proofs!TypeCorrect` | `TypeOK` (proved only) | - |
| `RampAlwaysArmed` | `RampArmed` | - (any `Preemptive`, any `HasDisplay`) |
| `RampIsAnnounced` | `RampAnnounced` | - |
| `PinsNeverBoth` | `PinsExclusive` | `Preemptive = {}` |
| `MotorObeys` | `MotorFollowsSpeed` | `Preemptive = {}` |
| `ReversalIsSafe` | `ReversesAtStandstill` | `Preemptive = {}` |
| `RampNeverWraps` | `RampAdvances` | `Preemptive = {}` |
| `Traction_proofs!MotionIsTraction` | `ImplementsTraction` | `Preemptive = {}` |
| `BleLifecycle_proofs!OffIsOff` | `OffMeansOff` | - |
| `OnIsOn` | `OnMeansOn` | - |
| `LifecycleIsVisibility` | `ImplementsVisibility` | - |
| `LastWordDecides` | `LastWordCounts` | `"ot" \notin Preemptive` |
| `LifecycleTyped` | `TypeOK` (proved only) | - |
| `DetachCancels` | `DetachCancelsStop` | - |
| `WholeWindow` | `FullWindow` | - |
| `NameReachesAir` | `NameOnAir` | - |
| `SrpServices_proofs!ClientRestarts` | `NoSecondFailure` | - |
| `SlotsAreOwn` | `NoSlotShared` | - (a pool of any size) |
| `SlotsStayAccounted` | `SlotsAccounted` | at least three slots |
| `NamesStayRegistered` | `NamesRegistered` | at least three slots |
| `RegistrationsTyped` | `TypeOK` (proved only) | - |
| `CoapServer_proofs!NothingLeaks` | `PoolRestored` | - |
| `AnswersAreCurrent` | `AnswerIsCurrent` | - |
| `ServerTyped` | `TypeOK` (proved only) | - |
| `RemoteControl_proofs!RemoteIsMotion` | `Spec` of `LokiMotion` | - |
| `RemoteIsServer` | `ImplementsServer`, the `Spec` of `CoapServer` | - |
| `ClientsAreObeyed` | `ClientObeyed` | - |
| `AnswersAreTrue` | `AnswerIsTrue` | `Preemptive = {}` |
| `Commissioning_proofs!StaleNeverUsed` | `StaleUnused` | - |
| `TornNeverUsed` | `TornUnused` | - |
| `VouchedRecordsKept` | `KeptForSeries` | - |
| `CommissioningKeepsSettings` | the first two, of the composition | - |
| `AlwaysInformed` | `LifecycleInformed` | - |
| `NetworkIsTakenUp` | `NetworkTakenUp` | - |
| `CommissioningTyped` | `CTypeOK` (proved only) | - |
| `Display_proofs!LvglIsExclusive` | `LvglExclusive` | - |
| `SomebodyIsReady` | `SomebodyRuns` | - |
| `AddressIsOwn` | `OwnAddressShown` | - |
| `StatusIsCurrent` | `StatusCurrent` | `KnownCallers`: only the boot sets the whole line |

The arguments, by inductive invariant:

- `TypeInv` is `TypeOK` with what the registers of a thread can hold at each label: at
  the steps of a speed update a speed, at `applyWrite` a step's result. Without the
  latter the modulus of `ApplyWrite` could not be shown to stay a speed.
- `RampInv` is `RampArmed` (an order in force has a running timer, or the thread that gave
  it is still on its way to `k_timer_start`) with where the threads can be: only a thread
  that serves an acceleration stores an order, so it is about to check the timer, and the
  workqueue never does. The race between `k_timer_remaining_get` and `k_timer_stop` is
  harmless because the test of `accel_order` and the stop are one step of the cooperative
  workqueue, and the controller looks at the timer after it has stored its order.
- `AnnounceInv`: a step that is not announced yet belongs to a client who is still
  subscribed, and whoever takes a ramp step serves an order or a tick, whose way from the
  display passes by the notification.
- `BridgeInv` is `MotorFollowsSpeed`, the silence of the input that `data_direction` does
  not select, and `Knows`: what a thread has read (the direction before `drivePin`, the
  pins before `storeSpeed`, speed 0 before `setDir`, the ramp step before `applyWrite`) is
  still true when it acts, since no cooperative thread runs in between (`OthersYield`).
- `TractionInv` adds to `BridgeInv` that one thread updates the speed at a time, which
  makes the order in force of the mapping a single value. A ramp step maps to `Order`,
  the first of the driver's writes to a stutter, the second to `Deliver`.
- `OffInv`: with the flag down the controller advertises only until the stop handler's
  call returns, and a start handler past its check still has the flag up, since the step
  that lowers it needs the workqueue too. `VisibilityInv` adds that advertising and
  starting to advertise need a free connection: no client overtakes a start that has
  passed the controller's check.
- `OnInv`: while Bluetooth is wanted and no client is connected, the locomotive
  advertises or something is coming (`Coming`) that makes it: a start in the queue or
  running, a thread about to submit one, or boot's recovery. `OnMeansOn` itself counts
  any work, and is not inductive: a refresh and the end of a stop bring nothing back.
- `QueueInv`: the types, among them that the queue holds every item at most once; a stop
  that is delayed or queued was scheduled after the last detach; the ticks the delay has
  to go and those since it was last scheduled make up `StopDelay`, so that a queued stop
  with no delay running has waited for the whole of the last one. Lemmas on removing and
  appending carry the queue over each step.
- `NameInv`: what a locomotive advertises, or has just begun to, is the current name, or
  a refresh is queued or being carried out, or a thread is still between the first byte of
  the name and the submit of its refresh (`Renewing`); text and length differ only there.
- `HostInv`: a failed run has overwritten the host name's buffer with the current name,
  so that the next run finds both equal.
- `SlotInv` (`Owned`): the free list names no slot twice, and the slot behind a handle is
  on it nowhere and behind no other handle; each operation on the pool is shown to keep
  this (`RemovedOwned`, `FreedOwned`, `RegisteredOwned`, `ReRegisteredOwned`). `NamesInv`:
  until a DCC registration is replaced the pool is `Neat` - what the client refers to is
  what the handles own, and no slot is lost - so that a slot is always free for the third
  kind (`SlotLeft`), and a first registration is never refused (`RegisteredNeat`). A
  renaming of what the client holds is refused, and leaves the pool neat all the same: the
  slot freed is the one allocated next (`RewrittenInPlace`), which depends on the free list
  being a stack and on nobody allocating in between.
- `PoolInv`: a response exists exactly while a handler builds one. `AnswerInv` of
  `CoapServer_proofs`: what the answer will carry has been recorded in `seen`, step by step.
  Its `TypeInv` has in it that the buffer of a PUT to `/speed` holds bytes and ends in 0,
  whatever texts came before (`BufferTyped`).
- *The composition.* `CallbackBegun` and `CallbackCarriedOut`: whatever is received, the
  handler begun is one of `LokiMotion` with an argument it takes from clients, so that every
  step of the whole is a step of `LokiMotion` or none (`RemoteIsMotion`), and the invariants
  above hold under the server. `OrdersInv`: an order in force, or on its way there, is a
  client's or a brake; `BrakesFit`: a brake is at most half the speed and fits an `int8_t`.
  With both, what motion does is what `CoapServer` supposes of it (`RemoteIsServer`).
  `ObeyInv`: the OpenThread thread is busy only while a callback is out, each of its labels
  belongs to one kind of callback and keeps its argument, and a ramp step it makes itself
  has the job of an acceleration, so that it does not pass for an order about the speed.
  `AnswerInv` of `RemoteControl_proofs`: while an answer is built every thread stands at a
  yield point, none of them inside a speed update (`AtRestCarriedOut` of `Traction_proofs`
  then says what the bridge delivers), and from the formatting on the text is
  `speed_value`.
- `SettingsInv`: the version record vouches for every checked record or is missing, a
  build that has begun a wipe stays out of date until some wipe is completed, and past the
  gate the checked records are of the running firmware's own MAJOR.MINOR and no wipe of
  its own is left half done. The other writers only replace records by the firmware's
  own (`Writes`).
- `LastInv`: the stop that the last attach or recovery asked for is delayed, queued or about
  to be scheduled by the thread that still runs the call, and the last detach has raised the
  flag unless it is just about to. It is the safety core of `GoesDark` and `StaysVisible`:
  what must still happen is on its way, whatever the call found.
- `TakenUpInv` is `NetworkTakenUp` with the joiner's state: it is started only by a
  locomotive that is up, and the network it runs with is blank, so that what is stored when
  it ends is what its callback takes up. It is the safety core of `NetworkUsed`.
- `InformedInv`: until the callback is registered nothing was told; afterwards a role that
  is not the one told is still to be reported.
- `ReadyInv`, the safety core of `UpdatesReturn`: a thread waits for LVGL's mutex only while
  another owns it, who waits for nothing (`OwnerInv`, `MutexInv`), OpenThread's mutex is
  owned by a thread that is past it, and of the cooperative threads at most one has the CPU
  (`CpuInv`); so the chain of waiting ends at somebody who can go on.
- `OwnerInv`: who is inside LVGL owns its mutex; the mutex is taken when free or handed on
  by its owner. `StatusInv`: if no second update of the status line has come in, the text
  on its way (in the buffer, then on the label) is that of the two stored states.

`RampAdvances` is the variant of `RampCompletes`: each ramp step moves the speed towards the
end of the range that ends the order, or ends it.

Proved for all constants is thus every safety property of the passing runs but one, the two
refinements and the composition. The type invariants are only proved, no run checks them.
Only model-checked: `SpeedAsWritten`, because what `strtoul` makes of a text is a recursion
over it; and liveness (`RampCompletes`, `TimerRetires`,
`OrdersReachBridge`, `GoesDark`, `StaysVisible`, `NetworkUsed`, `UpdatesReturn`,
`FramesComeBack`), since the prover has no fairness. The theorems that assume
`Preemptive = {}` hold for the cooperative priorities of the supported boards, and need
them: with a preemptible OpenThread thread TLC finds counterexamples to `PinsExclusive`,
`MotorFollowsSpeed`, `ReversesAtStandstill` and `RampAdvances`. The same
goes for `LastWordDecides`: a recovery that comes between the two statements of a detach has
its stop carried out, and then the detach raises the flag again.

## 5. Not modelled

- `OPENTHREAD` as a preemptible thread in `SrpServices`:
  `modify_short_name` and `modify_full_name` call OpenThread without its mutex.
- Arbitrary failures of the Bluetooth controller and of `otUdpBind`: the code logs them
  and goes on.
- The two geometries laid over one partition (`src/main.c:230`): NVS is one store here. A
  record as long as its buffer, whose terminator is written past the end
  (`src/main.c:413`): no record is loaded as long as the handler's path is wrong.
- The PWM period in nanoseconds, which no driver reads; a PWM base of 0, a division by
  zero, is excluded by `InputAssumption`.
- Reads and the attribute table of the GATT service, which change nothing; the text of
  the commissioning credential.
- A boot that ends early ("Settings load failed") on the display; a detach, which leaves
  "+Child" on it.
- LocoNet: `on_udp_loconet_receive` logs and replies, and changes no state yet. The dummy
  driver logs only; `src/motors` is not built; the interface generator runs at build time.

## 6. Plan

Done: motion, advertising, SRP and CoAP; settings, joins and display; the abstract
specifications `Traction` and `Visibility`; the composition `RemoteControl`; the proofs of
section 4. What is left, in this
order:

1. **Composition** of `Commissioning` with `BleLifecycle`: `told` as the attach and detach
   calls of the lifecycle.
2. **`SrpServices` with a preemptible OpenThread thread**, for boards that configure one.
3. **LocoNet** once it acts on what it receives.
