----------------------------- MODULE MCOutbound -----------------------------
(***************************************************************************)
(* Instances of module Outbound for TLC: requests under one key, under     *)
(* none, or both, with the same text or with different ones.               *)
(***************************************************************************)
EXTENDS Outbound

CONSTANTS r1, r2, r3, w1, w2, k1, textA, textB, textC

SharedKey    == [f \in Requests |-> k1]
NoKeys       == [f \in Requests |-> NoKey]
\* r1 and r2 come with the key, r3 without.
MixedKeys    == [f \in Requests |-> IF f = r3 THEN NoKey ELSE k1]

SameText     == [f \in Requests |-> textA]
DistinctText == [f \in Requests |-> CASE f = r1 -> textA [] f = r2 -> textB
                                      [] OTHER -> textC]
=============================================================================
