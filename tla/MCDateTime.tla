---------------------------- MODULE MCDateTime ----------------------------
(* DateTime for TLC: the years 0 to 9999, which is every year that is read *)
(* from four digits.                                                       *)
EXTENDS DateTime

EveryEra == {400 * k : k \in 0..24}
=============================================================================
