----------------------------- MODULE MCInbound -----------------------------
(***************************************************************************)
(* Instances of module Inbound for TLC.                                    *)
(***************************************************************************)
EXTENDS Inbound

CONSTANTS a, b, path0, s1, s2, t1, t2

AllOnA == [s \in Sms |-> a]
\* A new database, one of an earlier version, one with modem a enrolled.
Anything == {Blank(None), Blank(Legacy), Blank(a)}
AEnrolled == {Blank(a)}
===========================================================================
