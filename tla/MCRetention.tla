---------------------------- MODULE MCRetention ----------------------------
(* Retention for TLC: small catalogues whose order is that of the numbers. *)
EXTENDS Retention

TwoCaptures == 1..2
ThreeCaptures == 1..3
FourCaptures == 1..4
=============================================================================
