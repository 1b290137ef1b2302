------------------------------- MODULE MCSrp -------------------------------
(***************************************************************************)
(* SrpServices for TLC: the four slots of prj.conf and names of each kind, *)
(* one short name a beginning of another.                                  *)
(***************************************************************************)
EXTENDS SrpServices, TLC

CONSTANTS s1, s2, s3, s4

FourSlots == {s1, s2, s3, s4}
SlotsAlike == Permutations(FourSlots)
ThreeShort == {"Lo", "Loki", "Thor"}
TwoLong == {"Loki Line", "Thor Line"}
LoBeginsLoki == {<<"Lo", "Loki">>}
SomeAddresses == {"0", "3", "7"}
=============================================================================
