------------------------- MODULE MCRetentionPolicy -------------------------
(* RetentionPolicy for TLC.  The configurations cover each rule alone, both *)
(* together, a cap that truncates and a floor above the byte bound.         *)
EXTENDS RetentionPolicy

FourIds == 1..4
OneOrTwo == {1, 2}

Config(keep, age, bytes, cap) ==
  [keep |-> keep, age |-> age, bytes |-> bytes, cap |-> cap]

MCPolicies == {Config(1, 1, Unlimited, 2), Config(1, Unlimited, 2, 3),
               Config(1, 1, 3, 3), Config(1, 1, 3, 1), Config(2, 2, 2, 3),
               Config(1, 1, 1, 2)}
=============================================================================
