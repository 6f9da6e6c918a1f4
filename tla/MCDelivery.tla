---------------------------- MODULE MCDelivery ----------------------------
(***************************************************************************)
(* Instances of module Delivery for TLC.                                   *)
(***************************************************************************)
EXTENDS Delivery, TLC

CONSTANTS m1, m2, p1, p2, w1, w2, t1, t2, t3, t4, t5

AllProfiles == [w \in Workers |-> Profiles]
\* The second run of the service lost a profile.
Reconfigured == [w \in Workers |-> IF w = w1 THEN Profiles ELSE {p1}]

TokenSymmetry == Permutations(Tokens)
===========================================================================
