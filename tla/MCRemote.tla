------------------------------ MODULE MCRemote ------------------------------
(***************************************************************************)
(* RemoteControl for TLC: one client over CoAP, one over GATT.  The client *)
(* over CoAP asks for "2", the top speed here.                             *)
(***************************************************************************)
EXTENDS RemoteControl

FewOrders == {-1, 2}
Reverse == {2}
TopSpeed == {<<50>>}
LongName == {64}
NoPwm == {}
NoThread == {}
=============================================================================
