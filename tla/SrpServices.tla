---------------------------- MODULE SrpServices ----------------------------
(***************************************************************************)
(* What the locomotive registers with the SRP server: init_srp() and the   *)
(* service registrations of src/main_ot_utils.c, register_dcc_service() of *)
(* src/main_loki.c, the renamings and the boot sequence of src/main.c and  *)
(* the joiner.                                                             *)
(*                                                                         *)
(* With cooperative threads none of these functions lets another thread    *)
(* run, save where it writes to flash; main() is preemptible, and its      *)
(* calls exclude the others by the OpenThread mutex one by one.            *)
(*                                                                         *)
(* External, as src/ uses it: the fixed pool of SrpClientBuffers (a free   *)
(* list: the slot freed last is allocated first) and the SRP client's list *)
(* of services, which refers to the slots.  otSrpClientRemoveService marks *)
(* a service; the client holds its slot until the server has confirmed the *)
(* removal, whatever the pool does with that slot in the meantime.         *)
(***************************************************************************)
EXTENDS Naturals, Sequences, FiniteSets

CONSTANTS
    Slots,      \* the pool's entries: OPENTHREAD_CONFIG_SRP_CLIENT_BUFFERS_MAX_SERVICES
    ShortNames, LongNames,
    Addresses,  \* DCC addresses ...
    NoAddress,  \* ... and the 0 that is "unset"
    Prefixes,   \* pairs <<a, b>>: the text a is a beginning of the text b
    NoSlot,     \* the null pointer
    Unset       \* the host name before the first one is set

ASSUME RegistrationAssumption ==
    /\ IsFiniteSet(Slots) /\ NoSlot \notin Slots
    /\ NoAddress \in Addresses
    /\ Unset \notin ShortNames

VARIABLES
    ble_name, full_name, dcc_address,
    handle,         \* short_, long_ and dcc_name_coap_service
    free,           \* the pool's free list, a stack
    text,           \* what each slot's buffers say: service type and instance
    services,       \* slots in the SRP client's list ...
    removing,       \* ... and those marked for removal among them
    host_name,      \* the buffer of the client's host name
    host_known,     \* the server has the host: its name cannot be set any more
    auto_start,     \* the client runs, or starts when it finds a server
    srp_is_enabled,
    coap_started,   \* loki_coap_init() has run
    udp_bound,      \* the LocoNet socket is bound
    boot,           \* what main() has still to do
    joined,         \* the joiner's callback has succeeded
    saving,         \* write_dcc waits for the flash driver
    replaced,       \* history: kinds whose registration a change was to replace
    failures        \* history: failed runs of init_srp since the last renaming

identity == <<ble_name, full_name, dcc_address>>
pool == <<handle, free, text, services, removing>>
host == <<host_name, host_known, auto_start, srp_is_enabled, failures>>
system == <<coap_started, udp_bound, replaced, boot, joined, saving>>
vars == <<identity, pool, host, system>>

-----------------------------------------------------------------------------
Kinds == {"short", "long", "dcc"}
Instances == ShortNames \cup LongNames \cup Addresses
Texts == [kind : Kinds, instance : Instances]
BootSteps == {"srp", "coap", "dcc", "done"}

Init ==
    /\ ble_name \in ShortNames
    /\ full_name \in LongNames
    /\ dcc_address \in Addresses
    /\ handle = [k \in Kinds |-> NoSlot]
    /\ free \in {s \in [1 .. Cardinality(Slots) -> Slots] :
                    \A i, j \in DOMAIN s : s[i] = s[j] => i = j}
    /\ text = [s \in Slots |-> [kind |-> "short", instance |-> ble_name]]
    /\ services = {} /\ removing = {}
    /\ host_name = Unset /\ host_known = FALSE /\ auto_start = FALSE
    /\ srp_is_enabled = FALSE /\ failures = 0
    /\ coap_started = FALSE /\ udp_bound = FALSE /\ replaced = {}
    /\ boot \in {"srp", "done"}     \* otDatasetIsCommissioned() or not
    /\ joined = FALSE /\ saving = FALSE

-----------------------------------------------------------------------------
(* register_service() and re_register_service().  The pool's state is      *)
(* passed through as p = [handle, free, text, services, removing].         *)

PoolOf(h, f, t, s, r) ==
    [handle |-> h, free |-> f, text |-> t, services |-> s, removing |-> r]
Pool == PoolOf(handle, free, text, services, removing)
PoolBecomes(p) ==
    /\ handle' = p.handle /\ free' = p.free /\ text' = p.text
    /\ services' = p.services /\ removing' = p.removing

\* Mutant: the handle is not set to NULL.
FreedOnly(p, k) ==
    PoolOf(p.handle, <<p.handle[k]>> \o p.free, p.text, p.services, p.removing)

\* otSrpClientBuffersFreeService(), and the handle set to NULL.
Freed(p, k) ==
    PoolOf([p.handle EXCEPT ![k] = NoSlot], <<p.handle[k]>> \o p.free, p.text,
           p.services, p.removing)

\* otSrpClientRemoveService() marks a service of the client's list, and finds no other.
Removed(p, k) ==
    PoolOf(p.handle, p.free, p.text, p.services,
           p.removing \cup ({p.handle[k]} \cap p.services))

\* otSrpClientAddService() refuses a service whose slot or whose names it has, the
\* marked ones included.
Refuses(p, slot, new) ==
    slot \in p.services \/ \E s \in p.services : p.text[s] = new

\* register_service(): NULL without a free slot, and NULL when the client
\* refuses the service; the slot is then nobody's.
Registered(p, k, instance) ==
    LET slot == Head(p.free)
        new == [kind |-> k, instance |-> instance]
        filled == [p.text EXCEPT ![slot] = new]
    IN  IF p.free = <<>> THEN p
        ELSE IF Refuses(p, slot, new)
             THEN PoolOf(p.handle, Tail(p.free), filled, p.services, p.removing)
        ELSE PoolOf([p.handle EXCEPT ![k] = slot], Tail(p.free), filled,
                    p.services \cup {slot}, p.removing)

\* Mutant: the caller's handle is not rebound.
ReRegisteredLocally(p, k, instance) ==
    LET old == p.handle[k]
        emptied == IF old = NoSlot THEN p ELSE Freed(Removed(p, k), k)
        added == Registered(emptied, k, instance)
    IN  IF old # NoSlot /\ old \notin p.services THEN p
        ELSE PoolOf([added.handle EXCEPT ![k] = old], added.free, added.text,
                    added.services, added.removing)

\* re_register_service(): mark and free the old entry, allocate and add the new
\* one, whose slot the handle keeps even when the client refuses it.
ReRegistered(p, k, instance) ==
    LET old == p.handle[k]
        emptied == IF old = NoSlot THEN p ELSE Freed(Removed(p, k), k)
        slot == Head(emptied.free)
        added == Registered(emptied, k, instance)
    IN  IF old # NoSlot /\ old \notin p.services THEN p
        ELSE IF emptied.free = <<>> THEN emptied
        ELSE PoolOf([added.handle EXCEPT ![k] = slot], added.free, added.text,
                    added.services, added.removing)

\* A change that finds a registration of its kind is to replace it.
Replaces(k) == replaced' = IF handle[k] # NoSlot THEN replaced \cup {k} ELSE replaced

-----------------------------------------------------------------------------
(* init_srp()                                                               *)

\* Mutant: without the test for a service already registered under this name.
ShortAlwaysRegistered(p) ==
    IF p.handle["short"] # NoSlot
    THEN Registered(Freed(Removed(p, "short"), "short"), "short", ble_name)
    ELSE Registered(p, "short", ble_name)

\* An entry of another name is removed, of which a failure is only logged, and freed.
ShortRegistered(p) ==
    LET old == p.handle["short"]
    IN  IF old # NoSlot /\ p.text[old].instance = ble_name THEN p
        ELSE IF old # NoSlot
             THEN Registered(Freed(Removed(p, "short"), "short"), "short", ble_name)
        ELSE Registered(p, "short", ble_name)

\* Mutant: the buffer takes the new name only once the client has accepted it.
InitSrpCopiesLate ==
    /\ IF host_name # ble_name /\ host_known
       THEN /\ auto_start' = FALSE
            /\ failures' = failures + 1
            /\ UNCHANGED <<pool, srp_is_enabled, host_name>>
       ELSE /\ PoolBecomes(ShortRegistered(Pool))
            /\ host_name' = ble_name
            /\ auto_start' = TRUE /\ srp_is_enabled' = TRUE
            /\ failures' = 0
    /\ UNCHANGED <<identity, host_known>>

\* The client is stopped; the host name's buffer is overwritten before the client
\* is asked to accept it, which it refuses once the server knows the host.
init_srp ==
    /\ host_name' = ble_name
    /\ IF host_name # ble_name /\ host_known
       THEN /\ auto_start' = FALSE
            /\ failures' = failures + 1
            /\ UNCHANGED <<pool, srp_is_enabled>>
       ELSE /\ PoolBecomes(ShortRegistered(Pool))
            /\ auto_start' = TRUE /\ srp_is_enabled' = TRUE
            /\ failures' = 0
    /\ UNCHANGED <<identity, host_known>>

\* on_thread_address_changed(), for any of its flags; two of them run it twice.
\* MaxFailures bounds the history variable.
MaxFailures == 2
on_thread_address_changed ==
    /\ srp_is_enabled /\ failures < MaxFailures
    /\ init_srp
    /\ UNCHANGED system

\* HandleJoinerCallback() without an error.
HandleJoinerCallback ==
    /\ boot = "done" /\ ~joined /\ failures < MaxFailures
    /\ joined' = TRUE
    /\ init_srp
    /\ UNCHANGED <<coap_started, udp_bound, replaced, boot, saving>>

\* The client finds the server, which takes the host.
HostRegistered ==
    /\ auto_start /\ ~host_known
    /\ host_known' = TRUE
    /\ UNCHANGED <<identity, pool, host_name, auto_start, srp_is_enabled, failures, system>>

\* The server confirms a removal: only now does the client let go of the slot.
RemovalConfirmed ==
    /\ auto_start /\ host_known
    /\ \E s \in removing :
          /\ services' = services \ {s}
          /\ removing' = removing \ {s}
    /\ UNCHANGED <<identity, handle, free, text, host, system>>

-----------------------------------------------------------------------------
(* main(), commissioned                                                     *)

BootSrp ==
    /\ boot = "srp" /\ boot' = "coap"
    /\ init_srp
    /\ UNCHANGED <<coap_started, udp_bound, replaced, joined, saving>>

\* loki_coap_init() and, when it succeeds, the long name, under one lock.
BootCoap ==
    /\ boot = "coap" /\ boot' = "dcc"
    /\ \/ /\ coap_started' = TRUE
          /\ LET p == IF handle["long"] # NoSlot THEN Freed(Pool, "long") ELSE Pool
             IN  PoolBecomes(Registered(p, "long", full_name))
       \/ UNCHANGED <<coap_started, pool>>
    /\ UNCHANGED <<identity, host, udp_bound, replaced, joined, saving>>

\* register_dcc_service(): the old slot is freed, but stays in the client's list.
register_dcc_service ==
    LET emptied == IF handle["dcc"] # NoSlot THEN Freed(Pool, "dcc") ELSE Pool
        added == IF dcc_address = NoAddress THEN emptied
                 ELSE Registered(emptied, "dcc", dcc_address)
    IN  /\ PoolBecomes(added)
        /\ udp_bound' = (udp_bound \/ added.handle["dcc"] # NoSlot)
        /\ Replaces("dcc")
        /\ UNCHANGED <<identity, host>>

BootDcc ==
    /\ boot = "dcc" /\ boot' = "done"
    /\ register_dcc_service
    /\ UNCHANGED <<coap_started, joined, saving>>

-----------------------------------------------------------------------------
(* The requests of the clients.  GATT serves them once main() has started   *)
(* advertising, CoAP once its server runs.                                  *)

\* strncmp() over the length of the new text finds a beginning of the old equal.
Unchanged(new, old) == new = old \/ <<new, old>> \in Prefixes

modify_short_name(new) ==
    /\ boot = "done" /\ ~saving
    /\ IF Unchanged(new, ble_name)
       THEN UNCHANGED <<ble_name, pool, replaced, failures>>
       ELSE /\ ble_name' = new
            /\ PoolBecomes(ReRegistered(Pool, "short", new))
            /\ Replaces("short")
            /\ failures' = 0
    /\ UNCHANGED <<full_name, dcc_address, host_name, host_known, auto_start,
                   srp_is_enabled, coap_started, udp_bound, boot, joined, saving>>

modify_full_name(new) ==
    /\ (boot = "done" /\ ~saving) \/ coap_started
    /\ ~Unchanged(new, full_name)
    /\ full_name' = new
    /\ PoolBecomes(ReRegistered(Pool, "long", new))
    /\ Replaces("long")
    /\ UNCHANGED <<ble_name, dcc_address, host, coap_started, udp_bound, boot, joined, saving>>

\* apply_dcc_address() stores and saves the address ...
apply_dcc_address(new) ==
    /\ boot = "done" /\ ~saving
    /\ new # dcc_address
    /\ dcc_address' = new
    /\ saving' = TRUE
    /\ UNCHANGED <<ble_name, full_name, pool, host, coap_started, udp_bound, replaced,
                   boot, joined>>

\* ... and registers it.
DccSaved ==
    /\ saving /\ saving' = FALSE
    /\ register_dcc_service
    /\ UNCHANGED <<coap_started, boot, joined>>

-----------------------------------------------------------------------------
Next ==
    \/ BootSrp \/ BootCoap \/ BootDcc
    \/ on_thread_address_changed \/ HandleJoinerCallback
    \/ HostRegistered \/ RemovalConfirmed
    \/ \E new \in ShortNames : modify_short_name(new)
    \/ \E new \in LongNames : modify_full_name(new)
    \/ \E new \in Addresses : apply_dcc_address(new)
    \/ DccSaved

Spec == Init /\ [][Next]_vars

-----------------------------------------------------------------------------
(* Properties                                                               *)

\* Every variable stays in its type.
TypeOK ==
    /\ ble_name \in ShortNames /\ full_name \in LongNames /\ dcc_address \in Addresses
    /\ handle \in [Kinds -> Slots \cup {NoSlot}]
    /\ free \in Seq(Slots)
    /\ text \in [Slots -> Texts]
    /\ services \subseteq Slots /\ removing \subseteq services
    /\ host_name \in ShortNames \cup {Unset}
    /\ {host_known, auto_start, srp_is_enabled, coap_started, udp_bound, joined, saving}
          \subseteq BOOLEAN
    /\ replaced \subseteq Kinds /\ failures \in 0 .. MaxFailures
    /\ boot \in BootSteps

\* No slot is used twice: a registration that is live is not on the free list,
\* and no two registrations share one (whatever the client still refers to).
NoSlotShared ==
    \A k, l \in Kinds : handle[k] # NoSlot =>
        /\ \A i \in DOMAIN free : free[i] # handle[k]
        /\ handle[l] = handle[k] => l = k

\* No slot is lost, and none is given out again behind the client's back: as long as
\* no DCC registration was replaced or dropped, every slot is on the free list or one
\* registration's, and the client refers to no slot that is not a registration's,
\* whatever renamings, confirmations and runs of init_srp come in between (an earlier
\* leak exhausted the pool: TODO/01-ble-gatt-fixes.md, 1.7).
SlotsAccounted ==
    "dcc" \notin replaced =>
        /\ \A s \in Slots :
              (\E i \in DOMAIN free : free[i] = s) \/ \E k \in Kinds : handle[k] = s
        /\ \A s \in services : \E k \in Kinds : handle[k] = s

\* A name that was not changed since it was registered stays registered, not marked
\* for removal and under its current text, through the other name's renamings, the
\* joiner, the boot and every run of init_srp, which leaves a short name registered.
NamesRegistered ==
    "dcc" \notin replaced =>
        /\ srp_is_enabled => handle["short"] # NoSlot
        /\ \A k \in {"short", "long"} \ replaced : handle[k] # NoSlot =>
              /\ handle[k] \in services \ removing
              /\ text[handle[k]] = [kind |-> k,
                                    instance |-> IF k = "short" THEN ble_name ELSE full_name]

\* A run of init_srp may find the host name frozen and leave the client stopped,
\* but the next one, without a renaming in between, starts it again.
NoSecondFailure == failures < 2

\* What the documents expect of a change: a renamed short name is "SRP re-registered"
\* (INTERFACES.md:142), a new DCC address is registered (TODO/01-ble-gatt-fixes.md:69-70).
\* When each registration was to be replaced and the server has confirmed every
\* removal, the client has at least one of the new ones.
ChangesRegistered ==
    (boot = "done" /\ ~saving /\ auto_start /\ udp_bound /\ dcc_address # NoAddress
        /\ replaced = Kinds /\ removing = {})
    => \E k \in Kinds : handle[k] \in services
=============================================================================
