------------------------------ MODULE Settings ------------------------------
(***************************************************************************)
(* What survives a reset: the settings partition, the gate that wipes it   *)
(* for a firmware of another version, and the loading and saving of names  *)
(* and address in src/main.c, under resets at any step and firmware that   *)
(* is replaced by another build.                                           *)
(*                                                                         *)
(* External, as src/ uses it: NVS, which erases sector by sector, so that  *)
(* a reset leaves any part of what was stored; the settings subsystem,     *)
(* which asks a handler to export only if the path to save is a prefix of  *)
(* the handler's, and to load only what is stored below the handler's      *)
(* path; and the OpenThread and Bluetooth stacks that store there too.     *)
(***************************************************************************)
EXTENDS Naturals, SequencesExt

CONSTANTS
    Firmware,        \* builds, each with its MAJOR.MINOR and build number
    ClearNewVersion, \* CONFIG_LOKI_CLEAR_SETTINGS_NEW_VERSION
    ClearNewBuild,   \* CONFIG_LOKI_CLEAR_SETTINGS_NEW_BUILD
    Handler,         \* the path loki_settings_handler is registered under
    LokiKeys,        \* those of shortname, longname and dcc that are looked at
    UserValues,      \* names and addresses that users choose
    Faults           \* calls to flash, settings, Bluetooth and OpenThread may fail

ASSUME SettingsAssumption ==
    /\ Firmware \subseteq [series : Nat \ {0}, build : Nat \ {0}]
    /\ ClearNewVersion \in BOOLEAN /\ ClearNewBuild \in BOOLEAN /\ Faults \in BOOLEAN
    /\ {"network", "init"} \cap LokiKeys = {}

VARIABLES
    firmware,    \* the build in flash
    version,     \* record NVS_KEY_VERSION, 0 when absent
    build,       \* record NVS_KEY_BUILD, 0 when absent
    store,       \* every other record
    ram,         \* ble_name, full_name, dcc_address
    initialized, \* settings_initialized_flag
    pc,          \* where main() is
    gated,       \* history: the gate returned 0 since the last reset
    torn,        \* history: builds that began a wipe nobody has completed
    chosen       \* history: what was last chosen, and reported as saved

flash == <<version, build, store>>
memory == <<ram, initialized>>
history == <<gated, torn, chosen>>
settings == <<firmware, flash, memory, pc, history>>

-----------------------------------------------------------------------------
\* "network" stands for all that the stacks store.
Keys == LokiKeys \cup {"network", "init"}
\* What is stored: a value, the MAJOR.MINOR that wrote it, and whether its gate
\* had returned 0.
Absent == [value |-> "none", by |-> 0, checked |-> FALSE]
Record(value) == [value |-> value, by |-> firmware.series, checked |-> gated]

Goto(label) == pc' = label
Fails == Faults
NothingChosen == [k \in LokiKeys |-> "none"]
Image == [k \in LokiKeys |-> "image"]

Init ==
    /\ firmware \in Firmware
    /\ version = 0 /\ build = 0 /\ store = [k \in Keys |-> Absent]
    /\ ram = Image /\ initialized = FALSE
    /\ pc = "gate"
    /\ gated = FALSE /\ torn = {} /\ chosen = NothingChosen

\* A reset, at any step: of the same firmware, or of another one flashed meanwhile.
Reset ==
    /\ firmware' \in Firmware
    /\ ram' = Image /\ initialized' = FALSE
    /\ gated' = FALSE
    /\ Goto("gate")
    /\ UNCHANGED <<flash, torn, chosen>>

-----------------------------------------------------------------------------
(* init_and_optionally_clear_nvs().  main() ignores what it returns.       *)

\* Mutants: an absent version counts as current; the build is compared whatever
\* its gate.
OutOfDateUnlessAbsent(fw) ==
    \/ ClearNewVersion /\ version \notin {0, fw.series}
    \/ ClearNewBuild /\ build # fw.build
OutOfDateUngated(fw) ==
    \/ ClearNewVersion /\ version # fw.series
    \/ build # fw.build

\* semver_major_minor_changed() and the comparison of builds.
OutOfDate(fw) ==
    \/ ClearNewVersion /\ version # fw.series
    \/ ClearNewBuild /\ build # fw.build

\* Mutant: the version is written before the wipe.
GateWritesFirst ==
    /\ pc = "gate"
    /\ Goto(IF OutOfDate(firmware) THEN "clear" ELSE "writeVersion")
    /\ version' = firmware.series
    /\ UNCHANGED <<firmware, build, store, memory, history>>

Gate ==
    /\ pc = "gate"
    /\ Goto(IF OutOfDate(firmware) THEN "clear" ELSE "writeVersion")
    /\ UNCHANGED <<firmware, flash, memory, history>>

\* flash_area_open(), nvs_mount() or nvs_clear() fails: the error is returned.
GateFails ==
    /\ Fails /\ pc \in {"gate", "clear"}
    /\ Goto("start")
    /\ UNCHANGED <<firmware, flash, memory, history>>

\* nvs_clear() has erased some sectors, but not all ...
ClearSome ==
    /\ pc = "clear"
    /\ version' \in {0, version} /\ build' \in {0, build}
    /\ \E lost \in SUBSET Keys :
          store' = [k \in Keys |-> IF k \in lost THEN Absent ELSE store[k]]
    /\ flash' # flash
    /\ torn' = torn \cup {firmware} /\ chosen' = NothingChosen
    /\ UNCHANGED <<firmware, memory, pc, gated>>

\* ... or all.
ClearAll ==
    /\ pc = "clear"
    /\ version' = 0 /\ build' = 0 /\ store' = [k \in Keys |-> Absent]
    /\ torn' = {} /\ chosen' = NothingChosen
    /\ Goto("writeVersion")
    /\ UNCHANGED <<firmware, memory, gated>>

\* The results of nvs_write() are ignored.
WriteVersion ==
    /\ pc = "writeVersion"
    /\ version' \in {firmware.series} \cup (IF Fails THEN {version} ELSE {})
    /\ Goto("writeBuild")
    /\ UNCHANGED <<firmware, build, store, memory, history>>

WriteBuild ==
    /\ pc = "writeBuild"
    /\ build' \in {firmware.build} \cup (IF Fails THEN {build} ELSE {})
    /\ gated' = TRUE
    /\ Goto("start")
    /\ UNCHANGED <<firmware, version, store, memory, torn, chosen>>

-----------------------------------------------------------------------------
(* The rest of main().                                                     *)

Loki(key) == <<"loki", key>>
\* settings_save_subtree(): settings_handle_export() hands over all there is, record by
\* record, and asks of none whether it was written.  What a reset between two records
\* leaves in flash is among what failing ones leave.
Exportable == LokiKeys \cup {"init"}
Exported(path, written) ==
    [k \in Keys |->
        IF ~IsPrefix(path, Handler) \/ k \notin written THEN store[k]
        ELSE Record(IF k # "init" THEN ram'[k] ELSE IF initialized THEN "true" ELSE "false")]
SaveSubtree(path) ==
    \E written \in IF Fails THEN SUBSET Exportable ELSE {Exportable} :
        store' = Exported(path, written)

\* init_default_values(), init_display(), bt_enable().
Start ==
    /\ pc = "start"
    /\ \/ Goto("initSettings")
       \/ Fails /\ Goto("dead")
    /\ UNCHANGED <<firmware, flash, memory, history>>

\* init_default_name(): both names from the chip's id, or neither if it does not
\* tell its id.
DefaultName(new) ==
    \/ new = [k \in LokiKeys |-> IF k = "dcc" THEN ram[k] ELSE "default"]
    \/ Fails /\ new = ram

\* settings_initialized_flag_loader_direct_cb(): TRUE whatever is stored.
FlagFound == store["init"] # Absent

\* load_settings_from_nvm(): initializing and registering may fail.
LoadFlag ==
    /\ pc = "initSettings"
    /\ \/ IF FlagFound
          THEN initialized' = TRUE /\ ram' = ram /\ Goto("load")
          ELSE /\ initialized' = FALSE /\ Goto("saveDefaults")
               /\ \E new \in [LokiKeys -> {"default", "image"}] :
                     DefaultName(new) /\ ram' = new
       \/ Fails /\ UNCHANGED memory /\ Goto("load")
    /\ UNCHANGED <<firmware, flash, history>>

SaveDefaults ==
    /\ pc = "saveDefaults"
    /\ ram' = ram
    /\ SaveSubtree(<<"loki">>)
    /\ initialized' = TRUE
    /\ Goto("saveFlag")
    /\ UNCHANGED <<firmware, version, build, history>>

SaveFlag ==
    /\ pc = "saveFlag"
    /\ ram' = ram
    /\ SaveSubtree(Loki("init"))
    /\ Goto("load")
    /\ UNCHANGED <<firmware, version, build, initialized, history>>

\* loki_settings_handle_set(), called for what is stored below the handler's path.
Loaded(key) ==
    IF Handler = <<"loki">> /\ store[key] # Absent THEN store[key].value ELSE ram[key]

\* settings_load().
Load ==
    /\ pc = "load"
    /\ \/ /\ ram' = [k \in LokiKeys |-> Loaded(k)]
          /\ Goto("network")
       \/ Fails /\ ram' = ram /\ Goto("dead")
    /\ UNCHANGED <<firmware, flash, initialized, history>>

\* main() starts the network, if there is one, and Bluetooth.
Ready ==
    /\ pc = "network"
    /\ Goto("ready")
    /\ UNCHANGED <<firmware, flash, memory, history>>

-----------------------------------------------------------------------------
(* At run time.                                                             *)

\* modify_short_name(), modify_full_name(), apply_dcc_address(): a value that is
\* new is kept and saved.  A failure to save is logged.
Choose(key, value) ==
    /\ pc = "ready" /\ value # ram[key]
    /\ ram' = [ram EXCEPT ![key] = value]
    /\ \/ /\ SaveSubtree(Loki(key))
          /\ chosen' = [chosen EXCEPT ![key] = value]
       \/ Fails /\ UNCHANGED <<store, chosen>>
    /\ UNCHANGED <<firmware, version, build, initialized, pc, gated, torn>>

\* The Thread stack stores a network or blanks it, as the BLE stack does its bonds.
StoreNetwork(value) ==
    /\ pc = "ready"
    /\ store' = [store EXCEPT !["network"] = Record(value)]
    /\ UNCHANGED <<firmware, version, build, memory, pc, history>>

-----------------------------------------------------------------------------
Boot ==
    \/ Gate \/ GateFails \/ ClearSome \/ ClearAll \/ WriteVersion \/ WriteBuild
    \/ Start \/ LoadFlag \/ SaveDefaults \/ SaveFlag \/ Load

Next ==
    \/ Boot \/ Ready \/ Reset
    \/ \E key \in LokiKeys, value \in UserValues : Choose(key, value)
    \/ \E value \in {"joined", "blank"} : StoreNetwork(value)

Spec == Init /\ [][Next]_settings

-----------------------------------------------------------------------------
(* Properties                                                               *)

\* Every variable stays in its type.
TypeOK ==
    /\ firmware \in Firmware
    /\ version \in {0} \cup {fw.series : fw \in Firmware}
    /\ build \in {0} \cup {fw.build : fw \in Firmware}
    /\ DOMAIN store = Keys
    /\ \A k \in Keys : store[k] # Absent => store[k].by \in {fw.series : fw \in Firmware}
    /\ DOMAIN ram = LokiKeys /\ DOMAIN chosen = LokiKeys
    /\ initialized \in BOOLEAN /\ gated \in BOOLEAN
    /\ torn \subseteq Firmware

\* Past a gate that returned 0, no firmware works on records that another
\* MAJOR.MINOR stored: whatever resets, flashes and failed writes came in between
\* (main.c:270-315).  Records of a run whose gate had failed are excepted: main()
\* ignores the failure, and nothing tells them apart.
StaleUnused ==
    ClearNewVersion /\ gated =>
        \A k \in Keys : store[k].checked => store[k].by = firmware.series

\* A firmware whose wipe was cut short never works on what was left: the wipe is
\* completed first, on whichever boot (main.c:290-315).
TornUnused == gated => firmware \notin torn

\* Another build, a reset or an interrupted wipe never costs a record as long as
\* the version record vouches for the firmware (Kconfig:54-76).
KeptForSeries ==
    [][~ClearNewBuild /\ version = firmware.series =>
          \A k \in Keys : store[k] # Absent => store'[k] # Absent]_settings

\* What OVERVIEW/architecture.md:78 promises: names and address that were saved
\* are there after a reset, until a wipe.
NamesSurvive ==
    pc = "ready" =>
        \A k \in LokiKeys : chosen[k] # "none" => ram[k] = chosen[k]
=============================================================================
