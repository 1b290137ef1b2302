------------------------------- MODULE MCBle -------------------------------
(***************************************************************************)
(* BleLifecycle for TLC: two names are enough to tell a fresh name from a  *)
(* stale one and a text from the length of the other.                      *)
(***************************************************************************)
EXTENDS BleLifecycle

CONSTANTS Loki, Thor

TwoNames == {Loki, Thor}
OneName == {Loki}

\* The state without the history variables, on which no step depends: enough for a
\* property of the rest.
WithoutHistory == <<intent, queue, wq, th, attached, radio, name>>

\* main() is preemptible.
OnlyMain == {"main"}
=============================================================================
