-------------------------- MODULE MCCommissioning --------------------------
(***************************************************************************)
(* Commissioning and Settings for TLC: two builds of one MAJOR.MINOR and   *)
(* one of another, in any order; and one of the three settings, which are  *)
(* all stored alike.                                                       *)
(***************************************************************************)
EXTENDS Commissioning

Builds ==
    { [series |-> 1, build |-> 1], [series |-> 1, build |-> 2], [series |-> 2, build |-> 3] }

\* DEFAULT_NAME_PREFIX, which the handler is registered under.
HandlerPath == <<"TREN">>

ShortName == {"shortname"}
Thor == {"Thor"}
=============================================================================
