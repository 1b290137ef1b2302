------------------------ MODULE Commissioning_proofs ------------------------
(***************************************************************************)
(* What holds of the settings and of the commissioning for every set of    *)
(* builds, keys and values, every setting of the gates, and every failure. *)
(***************************************************************************)
EXTENDS Commissioning, TLAPS

\* The gate is being passed, or has been.
Passing == {"writeVersion", "writeBuild"}

\* The store and the build in flash, and where the gate stands.
Shape ==
    /\ firmware \in Firmware /\ torn \subseteq Firmware
    /\ DOMAIN store = Keys
    /\ gated \in BOOLEAN
    /\ pc \in {"gate", "clear"} \cup Passing => ~gated
    /\ pc = "clear" => OutOfDate(firmware)

\* The version record vouches for every checked record, or is missing; past the
\* gate both are those of the firmware that runs.
VersionVouches ==
    ClearNewVersion =>
        /\ \A k \in Keys : store[k].checked => version = 0 \/ version = store[k].by
        /\ gated \/ pc \in Passing =>
              /\ version \in {0, firmware.series}
              /\ \A k \in Keys : store[k].checked => store[k].by = firmware.series

\* A build whose wipe was cut short is out of date until some wipe is completed.
TornIsOutOfDate ==
    /\ \A fw \in torn : OutOfDate(fw)
    /\ pc \in Passing => torn = {} \/ ~OutOfDate(firmware)
    /\ gated => firmware \notin torn

SettingsInv == Shape /\ VersionVouches /\ TornIsOutOfDate

\* A record that is written is none that is absent: it carries a MAJOR.MINOR.
LEMMA RecordPresent ==
    ASSUME Shape, NEW value
    PROVE  /\ Record(value) # Absent
           /\ Record(value).by = firmware.series
           /\ Record(value).checked = gated
    BY SettingsAssumption DEF Shape, Record, Absent

\* Before anything ran, nothing is stored.
LEMMA SettingsInit == Init => SettingsInv
    BY SettingsAssumption
    DEF Init, SettingsInv, Shape, VersionVouches, TornIsOutOfDate, Absent, Passing

\* What a save, a choice or a stack writes: some records are replaced by new ones,
\* nothing else changes.
Writes ==
    /\ DOMAIN store' = Keys
    /\ \A k \in Keys : \/ store'[k] = store[k]
                       \/ \E value : store'[k] = Record(value)
    /\ UNCHANGED <<firmware, version, build, gated, torn>>
    /\ pc' \notin {"gate", "clear"} \cup Passing

LEMMA WritesKeepInv ==
    ASSUME SettingsInv, Writes
    PROVE  SettingsInv'
<1>1. Shape'
    BY DEF SettingsInv, Shape, Writes, Passing, OutOfDate
<1>2. ASSUME NEW k \in Keys, store'[k].checked
      PROVE  \/ store'[k] = store[k]
             \/ gated /\ store'[k].by = firmware.series
    BY <1>2, RecordPresent DEF SettingsInv, Writes
<1>3. VersionVouches'
    BY <1>2 DEF SettingsInv, Writes, VersionVouches, Passing
<1>4. TornIsOutOfDate'
    BY DEF SettingsInv, Writes, TornIsOutOfDate, Passing, OutOfDate
<1> QED
    BY <1>1, <1>3, <1>4 DEF SettingsInv

\* settings_save_subtree() writes records of what is in RAM, or leaves what is there.
LEMMA SavesWrite ==
    ASSUME Shape, NEW path, SaveSubtree(path)
    PROVE  /\ DOMAIN store' = Keys
           /\ \A k \in Keys : \/ store'[k] = store[k]
                              \/ \E value : store'[k] = Record(value)
<1>1. PICK written : store' = Exported(path, written)
    BY DEF SaveSubtree
<1>2. DOMAIN store' = Keys
    BY <1>1 DEF Exported
<1>3. ASSUME NEW k \in Keys
      PROVE  \/ store'[k] = store[k]
             \/ \E value : store'[k] = Record(value)
    BY <1>1 DEF Exported
<1> QED
    BY <1>2, <1>3

\* The gate: a build that is not out of date is vouched for; one that is clears.
LEMMA GateKeepsInv ==
    ASSUME SettingsInv, Gate \/ GateFails
    PROVE  SettingsInv'
<1>1. Shape'
    BY DEF SettingsInv, Shape, Gate, GateFails, Goto, Passing, OutOfDate,
           flash, memory, history
<1>2. VersionVouches'
    BY SettingsAssumption DEF SettingsInv, Shape, VersionVouches, Gate, GateFails, Goto, Passing,
           OutOfDate, flash, memory, history
<1>3. TornIsOutOfDate'
    BY DEF SettingsInv, Shape, TornIsOutOfDate, Gate, GateFails, Goto, Passing,
           OutOfDate, flash, memory, history
<1> QED
    BY <1>1, <1>2, <1>3 DEF SettingsInv

\* Whatever part of a wipe is done, each build that began one stays out of date.
LEMMA ClearKeepsInv ==
    ASSUME SettingsInv, ClearSome \/ ClearAll
    PROVE  SettingsInv'
<1>1. CASE ClearSome
  <2>1. Shape'
      BY <1>1, SettingsAssumption
      DEF SettingsInv, Shape, ClearSome, Passing, OutOfDate, memory
  <2>2. ASSUME NEW k \in Keys, store'[k].checked
        PROVE  store[k].checked /\ store'[k] = store[k]
      BY <1>1, <2>2 DEF ClearSome, Absent
  <2>3. VersionVouches'
      BY <1>1, <2>2 DEF SettingsInv, Shape, VersionVouches, ClearSome, Passing, memory
  <2>4. ASSUME NEW fw \in torn \cup {firmware}
        PROVE  OutOfDate(fw)'
    <3>1. OutOfDate(fw) /\ fw.series # 0 /\ fw.build # 0
        BY <1>1, SettingsAssumption DEF SettingsInv, Shape, TornIsOutOfDate, ClearSome
    <3> QED
        BY <1>1, <3>1 DEF ClearSome, OutOfDate
  <2>5. TornIsOutOfDate'
      BY <1>1, <2>4 DEF SettingsInv, Shape, TornIsOutOfDate, ClearSome, Passing, memory
  <2> QED
      BY <2>1, <2>3, <2>5 DEF SettingsInv
<1>2. CASE ClearAll
    BY <1>2 DEF SettingsInv, Shape, VersionVouches, TornIsOutOfDate, ClearAll, Passing,
                OutOfDate, Goto, Absent, memory
<1> QED
    BY <1>1, <1>2

\* The records of the gate make nobody current who is not: either a wipe has just
\* been completed, or they say what they said before.
LEMMA RecordsKeepInv ==
    ASSUME SettingsInv, WriteVersion \/ WriteBuild
    PROVE  SettingsInv'
<1>1. CASE WriteVersion
  <2>1. Shape'
      BY <1>1 DEF SettingsInv, Shape, WriteVersion, Goto, Passing, memory, history
  <2>2. VersionVouches'
      BY <1>1 DEF SettingsInv, VersionVouches, WriteVersion, Goto, Passing, memory, history
  <2>3. TornIsOutOfDate'
      BY <1>1 DEF SettingsInv, Shape, TornIsOutOfDate, WriteVersion, Goto, Passing, OutOfDate,
                  memory, history
  <2> QED
      BY <2>1, <2>2, <2>3 DEF SettingsInv
<1>2. CASE WriteBuild
  <2>1. Shape'
      BY <1>2 DEF SettingsInv, Shape, WriteBuild, Goto, Passing, memory
  <2>2. VersionVouches'
      BY <1>2 DEF SettingsInv, VersionVouches, WriteBuild, Goto, Passing, memory
  <2>3. TornIsOutOfDate'
      BY <1>2 DEF SettingsInv, Shape, TornIsOutOfDate, WriteBuild, Goto, Passing, OutOfDate,
                  memory
  <2> QED
      BY <2>1, <2>2, <2>3 DEF SettingsInv
<1> QED
    BY <1>1, <1>2

\* A reset forgets that the gate was passed, and nothing that is in flash.
LEMMA ResetKeepsInv ==
    ASSUME SettingsInv, Reset
    PROVE  SettingsInv'
    BY DEF SettingsInv, Shape, VersionVouches, TornIsOutOfDate, Reset, Goto, Passing,
           OutOfDate, flash

\* The steps of main() between the gate and the network, and those at run time.
Later ==
    \/ Start \/ LoadFlag \/ SaveDefaults \/ SaveFlag \/ Load \/ Ready
    \/ \E key \in LokiKeys, value \in UserValues : Choose(key, value)
    \/ \E value \in {"joined", "blank"} : StoreNetwork(value)

LEMMA LaterWrites ==
    ASSUME Shape, Later
    PROVE  Writes
<1>1. CASE Start \/ LoadFlag \/ Load \/ Ready
    BY <1>1 DEF Shape, Writes, Start, LoadFlag, Load, Ready, Goto, Passing, flash, memory, history
<1>2. CASE SaveDefaults
    BY <1>2, SavesWrite DEF Writes, SaveDefaults, Goto, Passing, history
<1>3. CASE SaveFlag
    BY <1>3, SavesWrite DEF Writes, SaveFlag, Goto, Passing, history
<1>4. ASSUME NEW key \in LokiKeys, NEW value \in UserValues, Choose(key, value)
      PROVE  Writes
  <2>1. CASE SaveSubtree(Loki(key))
      BY <1>4, <2>1, SavesWrite DEF Writes, Choose, Passing
  <2>2. CASE UNCHANGED store
      BY <1>4, <2>2 DEF Shape, Writes, Choose, Passing
  <2> QED
      BY <1>4, <2>1, <2>2 DEF Choose
<1>5. ASSUME NEW value, StoreNetwork(value)
      PROVE  Writes
    BY <1>5 DEF Shape, Writes, StoreNetwork, Passing, history
<1> QED
    BY <1>1, <1>2, <1>3, <1>4, <1>5 DEF Later

\* Every step of Settings keeps the invariant.
LEMMA SettingsNext == SettingsInv /\ [Next]_settings => SettingsInv'
<1> SUFFICES ASSUME SettingsInv, [Next]_settings
             PROVE  SettingsInv'
    OBVIOUS
<1>1. CASE Later
    BY <1>1, LaterWrites, WritesKeepInv DEF SettingsInv
<1>2. CASE UNCHANGED settings
    BY <1>2 DEF SettingsInv, Shape, VersionVouches, TornIsOutOfDate, OutOfDate, Passing,
                settings, flash, memory, history
<1>3. CASE Gate \/ GateFails \/ ClearSome \/ ClearAll \/ WriteVersion \/ WriteBuild \/ Reset
    BY <1>3, GateKeepsInv, ClearKeepsInv, RecordsKeepInv, ResetKeepsInv
<1> QED
    BY <1>1, <1>2, <1>3 DEF Next, Boot, Later

\* In every behaviour the invariant holds.
THEOREM SettingsSafe == Spec => []SettingsInv
<1> QED
    BY SettingsInit, SettingsNext, PTL DEF Spec

\* Past a gate that returned 0, no firmware works on checked records of another
\* MAJOR.MINOR (main.c:270-315).
THEOREM StaleNeverUsed == Spec => []StaleUnused
<1>1. SettingsInv => StaleUnused
    BY DEF SettingsInv, VersionVouches, StaleUnused
<1> QED
    BY <1>1, SettingsSafe, PTL

\* A build whose wipe was cut short does not work on what was left
\* (main.c:290-315).
THEOREM TornNeverUsed == Spec => []TornUnused
<1>1. SettingsInv => TornUnused
    BY DEF SettingsInv, TornIsOutOfDate, TornUnused
<1> QED
    BY <1>1, SettingsSafe, PTL

\* While the version record vouches for the firmware, no record is lost
\* (Kconfig:54-76).
THEOREM VouchedRecordsKept == Spec => KeptForSeries
<1>1. SettingsInv /\ [Next]_settings =>
          (~ClearNewBuild /\ version = firmware.series =>
              \A k \in Keys : store[k] # Absent => store'[k] # Absent)
  <2> SUFFICES ASSUME SettingsInv, [Next]_settings, ~ClearNewBuild,
                      version = firmware.series,
                      NEW k \in Keys, store[k] # Absent
               PROVE  store'[k] # Absent
      OBVIOUS
  <2>1. CASE Later
      BY <2>1, LaterWrites, RecordPresent DEF SettingsInv, Writes
  <2>2. CASE ClearSome \/ ClearAll
      BY <2>2 DEF SettingsInv, Shape, OutOfDate, ClearSome, ClearAll
  <2>3. CASE Gate \/ GateFails \/ WriteVersion \/ WriteBuild \/ Reset \/ UNCHANGED settings
      BY <2>3 DEF Gate, GateFails, WriteVersion, WriteBuild, Reset, settings, flash
  <2> QED
      BY <2>1, <2>2, <2>3 DEF Next, Boot, Later
<1> QED
    BY <1>1, SettingsSafe, PTL DEF Spec, KeptForSeries

-----------------------------------------------------------------------------
(* The commissioning on top of the settings.                               *)

\* Every step of Commissioning is one of Settings, or leaves the settings alone.
LEMMA StepKeepsSettings == [CNext]_vars => [Next]_settings
<1> SUFFICES ASSUME CNext PROVE [Next]_settings
    BY DEF vars
<1>1. CASE start_thread_joiner \/ Joined
    BY <1>1 DEF start_thread_joiner, Joined, Next
<1>2. CASE \/ Starts \/ Attach \/ Detach \/ on_thread_state_changed \/ JoinerKeepsNetwork
           \/ DisableFails \/ JoinFails \/ HandleJoinerCallback
    BY <1>2 DEF Starts, Attach, Detach, on_thread_state_changed, JoinerKeepsNetwork,
                DisableFails, JoinFails, HandleJoinerCallback
<1>3. CASE (Boot \/ SetValue) \/ MainEnables \/ PowerCycle
    BY <1>3 DEF SetValue, MainEnables, PowerCycle, Next
<1> QED
    BY <1>1, <1>2, <1>3 DEF CNext, ThreadStep

\* The composition keeps what was proved of the settings alone: joins, roles and
\* callbacks included, neither a stale nor a half wiped store is worked on.
THEOREM CommissioningKeepsSettings == CSpec => Spec /\ [](StaleUnused /\ TornUnused)
<1>1. CInit => Init
    BY DEF CInit
<1>2. CSpec => Spec
    BY <1>1, StepKeepsSettings, PTL DEF CSpec, Spec
<1> QED
    BY <1>2, StaleNeverUsed, TornNeverUsed, PTL

\* Until the callback is registered, the lifecycle was told nothing; afterwards it
\* knows the role, or a change is still to be reported.
InformedInv ==
    /\ changed \in BOOLEAN /\ registered \in BOOLEAN /\ told \in BOOLEAN
    /\ ~registered => ~told
    /\ LifecycleInformed

\* A role that is new is reported.
LEMMA BecomeReports ==
    ASSUME NEW new, InformedInv, Become(new), UNCHANGED <<registered, told>>
    PROVE  InformedInv'
<1>1. changed' \in BOOLEAN
    BY DEF Become, InformedInv
<1>2. ~changed' => ~changed /\ role' = role
    BY DEF Become
<1> QED
    BY <1>1, <1>2 DEF InformedInv, LifecycleInformed

\* enable_thread() registers before anything changes.
LEMMA EnableReports ==
    ASSUME InformedInv, enable_thread, UNCHANGED told
    PROVE  InformedInv'
<1>1. CASE role = "attached"
    BY <1>1 DEF enable_thread, InformedInv, LifecycleInformed
<1>2. CASE role # "attached" /\ UNCHANGED <<role, changed>>
    BY <1>2 DEF enable_thread, InformedInv, LifecycleInformed
<1>3. CASE role # "attached" /\ Become(IF role = "disabled" THEN "detached" ELSE role)
  <2>1. registered' = TRUE /\ changed' \in BOOLEAN
      BY <1>3 DEF enable_thread, Become, InformedInv
  <2>2. role' # "attached" /\ (~changed' => ~changed)
      BY <1>3 DEF Become
  <2> QED
      BY <1>3, <2>1, <2>2 DEF InformedInv, LifecycleInformed
<1> QED
    BY <1>1, <1>2, <1>3 DEF enable_thread

\* Every step keeps the lifecycle informed.
LEMMA InformedNext == InformedInv /\ [CNext]_vars => InformedInv'
<1> SUFFICES ASSUME InformedInv, [CNext]_vars PROVE InformedInv'
    OBVIOUS
<1>1. CASE \/ UNCHANGED <<role, changed, registered, told>>
    BY <1>1 DEF InformedInv, LifecycleInformed
<1>2. CASE PowerCycle
    BY <1>2 DEF PowerCycle, InformedInv, LifecycleInformed
<1>3. CASE MainEnables
    BY <1>1, <1>3, EnableReports DEF MainEnables
<1>4. CASE HandleJoinerCallback
    BY <1>4, EnableReports DEF HandleJoinerCallback
<1>5. CASE on_thread_state_changed
    BY <1>5 DEF on_thread_state_changed, InformedInv, LifecycleInformed
<1>6. CASE \/ Starts \/ Attach \/ Detach \/ start_thread_joiner \/ JoinerKeepsNetwork
           \/ DisableFails
    BY <1>6, BecomeReports DEF Starts, Attach, Detach, start_thread_joiner,
                               JoinerKeepsNetwork, DisableFails
<1>7. CASE (Boot \/ SetValue) /\ UNCHANGED thread
    BY <1>1, <1>7 DEF thread
<1>8. CASE Joined \/ JoinFails \/ UNCHANGED vars
    BY <1>1, <1>8 DEF Joined, JoinFails, vars, thread
<1> QED
    BY <1>2, <1>3, <1>4, <1>5, <1>6, <1>7, <1>8 DEF CNext, ThreadStep

\* With nothing left to report, the BLE lifecycle knows whether Thread is attached,
\* once the callback is registered (main_ot_utils.c:255-320).
THEOREM AlwaysInformed == CSpec => []LifecycleInformed
<1>1. CInit => InformedInv
    BY DEF CInit, PoweredUp, InformedInv, LifecycleInformed
<1>2. InformedInv => LifecycleInformed
    BY DEF InformedInv
<1> QED
    BY <1>1, <1>2, InformedNext, PTL DEF CSpec

-----------------------------------------------------------------------------
(* Types.                                                                   *)

\* A save, a choice or a stack writes records of the firmware that runs.
LEMMA WritesTyped ==
    ASSUME Shape, TypeOK, Writes
    PROVE  \A k \in Keys : store'[k] # Absent => store'[k].by \in {fw.series : fw \in Firmware}
    BY RecordPresent DEF TypeOK, Writes, Shape

\* Every step of Settings keeps the types.
LEMMA SettingsTypeNext == SettingsInv /\ TypeOK /\ [Next]_settings => TypeOK'
<1> SUFFICES ASSUME SettingsInv, TypeOK, [Next]_settings PROVE TypeOK'
    OBVIOUS
<1> USE DEF TypeOK
<1>1. CASE Later
  <2>1. Writes
      BY <1>1, LaterWrites DEF SettingsInv
  <2>2. DOMAIN ram' = LokiKeys /\ DOMAIN chosen' = LokiKeys /\ initialized' \in BOOLEAN
    <3>1. CASE LoadFlag
        BY <3>1 DEF LoadFlag, history, memory
    <3>2. CASE Start \/ Ready
        BY <3>2 DEF Start, Ready, memory, history
    <3>3. CASE SaveDefaults \/ SaveFlag \/ Load
        BY <3>3 DEF SaveDefaults, SaveFlag, Load, history
    <3>4. ASSUME NEW key \in LokiKeys, NEW value \in UserValues, Choose(key, value)
          PROVE  DOMAIN ram' = LokiKeys /\ DOMAIN chosen' = LokiKeys /\ initialized' \in BOOLEAN
        BY <3>4 DEF Choose
    <3>5. ASSUME NEW value, StoreNetwork(value)
          PROVE  DOMAIN ram' = LokiKeys /\ DOMAIN chosen' = LokiKeys /\ initialized' \in BOOLEAN
        BY <3>5 DEF StoreNetwork, memory, history
    <3> QED
        BY <1>1, <3>1, <3>2, <3>3, <3>4, <3>5 DEF Later
  <2> QED
      BY <2>1, <2>2, WritesTyped DEF SettingsInv, Writes
<1>2. CASE Gate \/ GateFails \/ UNCHANGED settings
    BY <1>2 DEF Gate, GateFails, flash, memory, history, settings
<1>3. CASE ClearSome \/ ClearAll
    BY <1>3 DEF SettingsInv, Shape, ClearSome, ClearAll, memory, NothingChosen
<1>4. CASE WriteVersion
    BY <1>4 DEF WriteVersion, memory, history
<1>5. CASE WriteBuild
    BY <1>5 DEF WriteBuild, memory
<1>6. CASE Reset
    BY <1>6 DEF Reset, flash, Image
<1> QED
    BY <1>1, <1>2, <1>3, <1>4, <1>5, <1>6 DEF Next, Boot, Later

\* The state of Thread and of the joiner.
ThreadTyped ==
    /\ role \in {"disabled", "detached", "attached"}
    /\ changed \in BOOLEAN /\ registered \in BOOLEAN /\ told \in BOOLEAN
    /\ joiner \in {"idle", "running", "joined"} /\ broken \in BOOLEAN

\* Every step keeps it typed.
LEMMA ThreadTypeNext == ThreadTyped /\ [CNext]_vars => ThreadTyped'
<1> SUFFICES ASSUME ThreadTyped, [CNext]_vars PROVE ThreadTyped'
    OBVIOUS
<1> USE DEF ThreadTyped
<1>1. ASSUME NEW new \in {"disabled", "detached", "attached"}, Become(new)
      PROVE  role' \in {"disabled", "detached", "attached"} /\ changed' \in BOOLEAN
    BY <1>1 DEF Become
<1>2. ASSUME enable_thread
      PROVE  /\ role' \in {"disabled", "detached", "attached"} /\ changed' \in BOOLEAN
             /\ registered' \in BOOLEAN /\ broken' \in BOOLEAN
  <2>1. (IF role = "disabled" THEN "detached" ELSE role) \in {"disabled", "detached", "attached"}
      OBVIOUS
  <2> QED
      BY <1>1, <1>2, <2>1 DEF enable_thread
<1>3. CASE MainEnables
    BY <1>2, <1>3 DEF MainEnables
<1>4. CASE HandleJoinerCallback
    BY <1>2, <1>4 DEF HandleJoinerCallback
<1>5. CASE Starts \/ Attach \/ Detach
    BY <1>1, <1>5 DEF Starts, Attach, Detach
<1>6. CASE start_thread_joiner \/ JoinerKeepsNetwork \/ DisableFails
    BY <1>1, <1>6 DEF start_thread_joiner, JoinerKeepsNetwork, DisableFails
<1>7. CASE on_thread_state_changed
    BY <1>7 DEF on_thread_state_changed
<1>8. CASE Joined \/ JoinFails
    BY <1>8 DEF Joined, JoinFails
<1>9. CASE PowerCycle
    BY <1>9 DEF PowerCycle
<1>10. CASE ((Boot \/ SetValue) /\ UNCHANGED thread) \/ UNCHANGED vars
    BY <1>10 DEF thread, vars
<1> QED
    BY <1>3, <1>4, <1>5, <1>6, <1>7, <1>8, <1>9, <1>10 DEF CNext, ThreadStep

\* Type correctness of the commissioning and the settings below it: every record
\* is of a build that exists, and the two records of the gate hold a MAJOR.MINOR
\* and a build number.
THEOREM CommissioningTyped == CSpec => []CTypeOK
<1>1. CInit => SettingsInv /\ TypeOK /\ ThreadTyped
  <2>1. Init => TypeOK
      BY DEF Init, TypeOK, Image, NothingChosen
  <2> QED
      BY <2>1, SettingsInit DEF CInit, PoweredUp, ThreadTyped
<1>2. SettingsInv /\ TypeOK /\ ThreadTyped /\ [CNext]_vars
          => (SettingsInv /\ TypeOK /\ ThreadTyped)'
    BY StepKeepsSettings, SettingsNext, SettingsTypeNext, ThreadTypeNext
<1>3. TypeOK /\ ThreadTyped => CTypeOK
    BY DEF CTypeOK, ThreadTyped
<1> QED
    BY <1>1, <1>2, <1>3, PTL DEF CSpec

-----------------------------------------------------------------------------
(* A stored network is taken up.                                            *)

\* While a joiner runs the network is blank: what it joins is what is stored next.
TakenUpInv ==
    /\ joiner # "idle" => pc = "ready"
    /\ joiner = "running" /\ ~broken => ~Commissioned
    /\ NetworkTakenUp

\* enable_thread() leaves Thread enabled, or was refused.
LEMMA EnableEnables ==
    ASSUME enable_thread
    PROVE  broken' \/ (role' # "disabled" /\ broken' = broken)
  BY DEF enable_thread, Become

\* main() at boot, and a choice of the user, keep their hands off the network of a
\* locomotive that is up.
LEMMA BootAndChoicesLeaveNetwork ==
    ASSUME Shape, TakenUpInv, Boot \/ SetValue, UNCHANGED thread
    PROVE  TakenUpInv'
<1>1. CASE Boot
  <2>1. pc # "ready" /\ pc' # "ready"
      BY <1>1 DEF Boot, Gate, GateFails, ClearSome, ClearAll, WriteVersion, WriteBuild, Start,
                  LoadFlag, SaveDefaults, SaveFlag, Load, Goto
  <2> QED
      BY <2>1 DEF TakenUpInv, NetworkTakenUp, thread
<1>2. ASSUME NEW key \in LokiKeys, NEW value \in UserValues, Choose(key, value)
      PROVE  TakenUpInv'
  <2>1. pc' = pc /\ store'["network"] = store["network"]
    <3>1. pc' = pc /\ (SaveSubtree(Loki(key)) \/ UNCHANGED store)
        BY <1>2 DEF Choose
    <3>2. SaveSubtree(Loki(key)) => store'["network"] = store["network"]
        BY SettingsAssumption DEF SaveSubtree, Exportable, Exported, Keys
    <3> QED
        BY <3>1, <3>2
  <2> QED
      BY <2>1 DEF TakenUpInv, NetworkTakenUp, Commissioned, thread
<1> QED
    BY <1>1, <1>2 DEF SetValue

\* The joiner blanks the network it looks for, and stores the one it found before
\* its callback comes.
LEMMA JoinerKeepsTakenUp ==
    ASSUME Shape, ThreadTyped, TakenUpInv,
           start_thread_joiner \/ Joined \/ JoinFails \/ HandleJoinerCallback
    PROVE  TakenUpInv'
<1> USE DEF TakenUpInv, NetworkTakenUp
<1>1. ASSUME NEW value, StoreNetwork(value)
      PROVE  store'["network"].value = value /\ pc = "ready" /\ pc' = "ready"
  <2>1. store'["network"] = Record(value)
      BY <1>1 DEF StoreNetwork, Shape, Keys
  <2> QED
      BY <1>1, <2>1 DEF StoreNetwork, Record
<1>2. CASE start_thread_joiner
    BY <1>1, <1>2 DEF start_thread_joiner, Commissioned
<1>3. CASE Joined
    BY <1>1, <1>3 DEF Joined
<1>4. CASE JoinFails
  <2>1. pc' = pc /\ Commissioned' = Commissioned
      BY <1>4 DEF JoinFails, settings, flash, Commissioned
  <2> QED
      BY <1>4, <2>1 DEF JoinFails
<1>5. CASE HandleJoinerCallback
    BY <1>5, EnableEnables DEF HandleJoinerCallback
<1> QED
    BY <1>2, <1>3, <1>4, <1>5

\* Every step keeps a stored network taken up.
LEMMA TakenUpNext ==
    Shape /\ ThreadTyped /\ TakenUpInv /\ [CNext]_vars => TakenUpInv'
<1> SUFFICES ASSUME Shape, ThreadTyped, TakenUpInv, [CNext]_vars PROVE TakenUpInv'
    OBVIOUS
<1> USE DEF TakenUpInv, NetworkTakenUp
<1>1. CASE (Boot \/ SetValue) /\ UNCHANGED thread
    BY <1>1, BootAndChoicesLeaveNetwork
<1>2. CASE start_thread_joiner \/ Joined \/ JoinFails \/ HandleJoinerCallback
    BY <1>2, JoinerKeepsTakenUp
<1>3. CASE MainEnables
  <2>1. joiner' = "idle" /\ Commissioned' = Commissioned
      BY <1>3 DEF MainEnables, Ready, flash, Commissioned
  <2>2. Commissioned /\ ~broken' => role' # "disabled"
      BY <1>3, EnableEnables DEF MainEnables
  <2> QED
      BY <2>1, <2>2
<1>4. CASE PowerCycle
    BY <1>4 DEF PowerCycle, Reset, Goto
<1>5. CASE Starts \/ Attach \/ Detach \/ on_thread_state_changed
  <2>1. pc' = pc /\ Commissioned' = Commissioned /\ UNCHANGED <<joiner, broken>>
      BY <1>5 DEF Starts, Attach, Detach, on_thread_state_changed, settings, flash, Commissioned
  <2>2. role' \in {"detached", "attached", role}
      BY <1>5 DEF Starts, Attach, Detach, on_thread_state_changed, Become
  <2> QED
      BY <2>1, <2>2
<1>6. CASE JoinerKeepsNetwork \/ DisableFails
    BY <1>6 DEF JoinerKeepsNetwork, DisableFails, settings
<1>7. CASE UNCHANGED vars
    BY <1>7 DEF vars, thread, settings, flash, Commissioned
<1> QED
    BY <1>1, <1>2, <1>3, <1>4, <1>5, <1>6, <1>7 DEF CNext, ThreadStep

\* A locomotive that is up with a stored network has Thread enabled or about to be
\* (main_ot_utils.c:66-72, main.c:670-672), for all builds, keys and values and over
\* every reset and failure that OpenThread itself does not report.
THEOREM NetworkIsTakenUp == CSpec => []NetworkTakenUp
<1>1. CInit => SettingsInv /\ ThreadTyped /\ TakenUpInv
    BY SettingsInit DEF CInit, Init, PoweredUp, ThreadTyped, TakenUpInv, NetworkTakenUp
<1>2. SettingsInv /\ ThreadTyped /\ TakenUpInv /\ [CNext]_vars
          => (SettingsInv /\ ThreadTyped /\ TakenUpInv)'
    BY StepKeepsSettings, SettingsNext, ThreadTypeNext, TakenUpNext DEF SettingsInv
<1>3. TakenUpInv => NetworkTakenUp
    BY DEF TakenUpInv
<1> QED
    BY <1>1, <1>2, <1>3, PTL DEF CSpec
=============================================================================
