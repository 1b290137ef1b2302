----------------------------- MODULE MCDisplay -----------------------------
(***************************************************************************)
(* Display for TLC: the updates of a boot, with a connection and a rename   *)
(* over Bluetooth and the callbacks of Thread in between.                  *)
(***************************************************************************)
EXTENDS Display

BootThreads == {"main", "ot", "bt"}

\* main() and anim are preemptible.
MainAndAnim == {"main", "anim"}

Upd(update, arg, ot) == [update |-> update, arg |-> arg, ot |-> ot]
ThreadCalls == [t \in BootThreads \ {"main"} |->
    IF t = "ot"
    THEN { Upd("ot", "+Child", TRUE), Upd("address", "fd00::1", TRUE) }
    ELSE { Upd("bt", "GATT", FALSE), Upd("name", "Thor", FALSE) }]
=============================================================================
