------------------------------ MODULE MCMotion ------------------------------
(***************************************************************************)
(* LokiMotion for TLC.  The duty range is smaller than the speed range, as *)
(* 100 is smaller than 255, so that the lowest speed rounds to duty 0; the *)
(* orders meet and overshoot both ends of the speed range.                 *)
(***************************************************************************)
EXTENDS LokiMotion

FewOrders == {-2, 2}
FewPatterns == {1, 2}
\* The pattern 49 is the character '1' that the documents send over CoAP.
CoapPatterns == {1, 49}
BootPwmOnly == {1000}

NoThread == {}
=============================================================================
