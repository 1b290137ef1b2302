--------------------------- MODULE Commissioning ---------------------------
(***************************************************************************)
(* How a locomotive gets into its Thread network, over a stored network at *)
(* boot or over the joiner at run time, and how the BLE lifecycle learns   *)
(* about it: enable_thread(), start_thread_joiner(), disable_thread(),     *)
(* HandleJoinerCallback() and on_thread_state_changed() of                 *)
(* src/main_ot_utils.c, called from src/main.c and write_credential, on    *)
(* top of what Settings keeps over resets.                                 *)
(*                                                                         *)
(* The calls that own OpenThread's mutex are one step each, apart from a   *)
(* reset.  External, as src/ uses it: OpenThread, which keeps the stored   *)
(* network, joins, changes its role, and reports a change of the role some *)
(* time later, several changes at once.                                    *)
(***************************************************************************)
EXTENDS Settings

CONSTANT AutoStart \* OpenThread starts a stored network before main() does

ASSUME CommissioningAssumption == AutoStart \in BOOLEAN

VARIABLES
    role,       \* "disabled", "detached", or "attached": child, router or leader
    changed,    \* OT_CHANGED_THREAD_ROLE has still to be reported
    registered, \* ot_state_chaged_cb is registered
    told,       \* the BLE lifecycle was last told that Thread is attached
    joiner,     \* "idle", "running", or "joined": its callback has still to come
    broken      \* history: a call of OpenThread failed since the last reset

thread == <<role, changed, registered, told, joiner, broken>>
vars == <<settings, thread>>

-----------------------------------------------------------------------------
PoweredUp ==
    /\ role = "disabled" /\ changed = FALSE /\ registered = FALSE
    /\ told = FALSE /\ joiner = "idle" /\ broken = FALSE

CInit == Init /\ PoweredUp

\* otDatasetIsCommissioned().
Commissioned == store["network"].value = "joined"
\* A role other than the one before is reported.
Become(new) == role' = new /\ changed' = (changed \/ new # role)

\* enable_thread(): nothing to do if attached; the callbacks; IPv6 and Thread, each
\* of which may be refused.  ot_is_enabled is never set.
enable_thread ==
    IF role = "attached" THEN UNCHANGED <<role, changed, registered, broken>>
    ELSE /\ registered' = TRUE
         /\ \/ /\ Become(IF role = "disabled" THEN "detached" ELSE role)
               /\ UNCHANGED broken
            \/ Fails /\ broken' = TRUE /\ UNCHANGED <<role, changed>>

\* main(), from otDatasetIsCommissioned() on.
MainEnables ==
    /\ Ready
    /\ IF Commissioned THEN enable_thread
       ELSE UNCHANGED <<role, changed, registered, broken>>
    /\ UNCHANGED <<told, joiner>>

\* A reset takes everything down that is not in flash.
PowerCycle ==
    /\ Reset
    /\ role' = "disabled" /\ changed' = FALSE /\ registered' = FALSE
    /\ told' = FALSE /\ joiner' = "idle" /\ broken' = FALSE

-----------------------------------------------------------------------------
(* OpenThread: its own start, and a network that is found or lost.         *)

Starts ==
    /\ AutoStart /\ pc # "ready"
    /\ Commissioned /\ role = "disabled"
    /\ Become("detached")
    /\ UNCHANGED <<settings, registered, told, joiner, broken>>

Attach ==
    /\ Commissioned /\ role = "detached"
    /\ Become("attached")
    /\ UNCHANGED <<settings, registered, told, joiner, broken>>

Detach ==
    /\ role = "attached"
    /\ Become("detached")
    /\ UNCHANGED <<settings, registered, told, joiner, broken>>

\* Mutant: only attached roles are passed on.
ReportAttachedOnly ==
    /\ changed /\ changed' = FALSE
    /\ told' = (told \/ (registered /\ role = "attached"))
    /\ UNCHANGED <<settings, role, registered, joiner, broken>>

\* on_thread_state_changed(): the role of now, not that of the change; and
\* ble_lifecycle_on_thread_attached() or _detached().
on_thread_state_changed ==
    /\ changed /\ changed' = FALSE
    /\ told' = IF registered THEN role = "attached" ELSE told
    /\ UNCHANGED <<settings, role, registered, joiner, broken>>

-----------------------------------------------------------------------------
(* The joiner.                                                              *)

\* start_thread_joiner(), with a secret of proper length: detached, disabled,
\* blanked, and the joiner started, which a running one refuses.
start_thread_joiner ==
    /\ StoreNetwork("blank")
    /\ Become("disabled")
    /\ \/ joiner = "idle" /\ joiner' = "running" /\ UNCHANGED broken
       \/ joiner # "idle" /\ UNCHANGED <<joiner, broken>>
       \/ Fails /\ broken' = TRUE /\ UNCHANGED joiner
    /\ UNCHANGED <<registered, told>>

\* The same with a network that cannot be blanked, which is not noticed ...
JoinerKeepsNetwork ==
    /\ Fails /\ pc = "ready"
    /\ Become("disabled")
    /\ joiner' = IF joiner = "idle" THEN "running" ELSE joiner
    /\ broken' = TRUE
    /\ UNCHANGED <<settings, registered, told>>

\* ... and with a Thread that cannot be disabled: it returns early.
DisableFails ==
    /\ Fails /\ pc = "ready" /\ role # "disabled"
    /\ Become("detached") \/ Become(role)
    /\ broken' = TRUE
    /\ UNCHANGED <<settings, registered, told, joiner>>

\* The joiner has got the network and stored it ...
Joined ==
    /\ joiner = "running"
    /\ joiner' = "joined"
    /\ StoreNetwork("joined")
    /\ UNCHANGED <<role, changed, registered, told, broken>>

\* ... or fails, which HandleJoinerCallback() only logs.
JoinFails ==
    /\ joiner = "running"
    /\ joiner' = "idle"
    /\ UNCHANGED <<settings, role, changed, registered, told, broken>>

\* Mutant: Thread is left to the next boot.
CallbackOnlyLogs ==
    /\ joiner = "joined"
    /\ joiner' = "idle"
    /\ UNCHANGED <<settings, role, changed, registered, told, broken>>

\* HandleJoinerCallback() of a success.
HandleJoinerCallback ==
    /\ joiner = "joined"
    /\ joiner' = "idle"
    /\ enable_thread
    /\ UNCHANGED <<settings, told>>

-----------------------------------------------------------------------------
SetValue == \E key \in LokiKeys, value \in UserValues : Choose(key, value)

ThreadStep ==
    \/ Starts \/ Attach \/ Detach \/ on_thread_state_changed
    \/ start_thread_joiner \/ JoinerKeepsNetwork \/ DisableFails
    \/ Joined \/ JoinFails \/ HandleJoinerCallback

CNext ==
    \/ (Boot \/ SetValue) /\ UNCHANGED thread
    \/ MainEnables \/ PowerCycle \/ ThreadStep

CSpec == CInit /\ [][CNext]_vars

\* main() goes on, and OpenThread calls back; networks, users and resets owe nothing.
CFairSpec ==
    /\ CSpec
    /\ WF_vars(Boot /\ UNCHANGED thread) /\ WF_vars(MainEnables)
    /\ WF_vars(on_thread_state_changed) /\ WF_vars(HandleJoinerCallback)

-----------------------------------------------------------------------------
(* Properties                                                               *)

\* Every variable stays in its type.
CTypeOK ==
    /\ TypeOK
    /\ role \in {"disabled", "detached", "attached"}
    /\ changed \in BOOLEAN /\ registered \in BOOLEAN /\ told \in BOOLEAN
    /\ joiner \in {"idle", "running", "joined"} /\ broken \in BOOLEAN

\* However roles change, are reported late or several at a time, and joins begin
\* anew in between: with nothing left to report, the BLE lifecycle knows whether
\* Thread is attached, once the callback is registered (main_ot_utils.c:257-320).
LifecycleInformed == registered /\ ~changed => told = (role = "attached")

\* A locomotive that is up with a stored network has Thread enabled, or a joiner's
\* callback that enables it is still to come, whatever was joined, blanked, joined
\* again or reset before (main_ot_utils.c:66-72, main.c:670-672), unless OpenThread
\* refused a call.
NetworkTakenUp ==
    Commissioned /\ pc = "ready" /\ ~broken => role # "disabled" \/ joiner = "joined"

\* A network that stays stored ends with Thread enabled, whether it was found at
\* boot or joined at run time, and whatever was reset or joined before
\* (main_ot_utils.c:66-72, main.c:670-672), unless OpenThread refused a call.
NetworkUsed ==
    <>[](Commissioned /\ pc = "ready" /\ ~broken) => <>[](role # "disabled")
=============================================================================
