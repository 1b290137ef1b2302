------------------------------- MODULE MCCoap -------------------------------
(***************************************************************************)
(* CoapServer for TLC: two buffers, so that one answer can wait to be sent *)
(* while the next one takes the last buffer and a third finds none.        *)
(***************************************************************************)
EXTENDS CoapServer

TwoSpeeds == {7, 200}
TwoOrders == {-4, 5}
\* "7", "256", "0255", "00255" and "x": a shorter one leaves the tail of a longer one
\* behind, the fourth is longer than what is read, the last is no number.
EdgeTexts == {<<55>>, <<50, 53, 54>>, <<48, 50, 53, 53>>, <<48, 48, 50, 53, 53>>, <<120>>}
EdgeBytes == {127, 128}
EdgeLengths == {63, 64}
=============================================================================
