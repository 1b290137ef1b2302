----------------------------- MODULE Visibility -----------------------------
(***************************************************************************)
(* What BleLifecycle promises whoever looks for the locomotive: it is      *)
(* switched on and off for Bluetooth as a whole, is visible only while it  *)
(* is on, and never while a client has the one connection it offers.       *)
(***************************************************************************)

VARIABLES
    on,       \* Bluetooth is switched on
    visible,  \* a client that looks for the locomotive finds it
    client    \* a client is connected

vvars == <<on, visible, client>>

Init == on = TRUE /\ visible = FALSE /\ client = FALSE

SwitchOn ==
    /\ on' = TRUE
    /\ UNCHANGED <<visible, client>>

\* Off means dark, at once; a client that is connected stays.
SwitchOff ==
    /\ on' = FALSE
    /\ visible' = FALSE
    /\ UNCHANGED client

Appear ==
    /\ on /\ ~client
    /\ visible' = TRUE
    /\ UNCHANGED <<on, client>>

\* A switch-off that a later switch-on overtook: on, and dark for a while.
Flicker ==
    /\ on /\ visible' = FALSE
    /\ UNCHANGED <<on, client>>

Connect ==
    /\ visible /\ visible' = FALSE
    /\ client' = TRUE
    /\ UNCHANGED on

Disconnect ==
    /\ client' = FALSE
    /\ UNCHANGED <<on, visible>>

Next == SwitchOn \/ SwitchOff \/ Appear \/ Flicker \/ Connect \/ Disconnect

Spec == Init /\ [][Next]_vvars
=============================================================================
