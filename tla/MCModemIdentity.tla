-------------------------- MODULE MCModemIdentity --------------------------
(***************************************************************************)
(* Instances of module ModemIdentity for TLC.                              *)
(***************************************************************************)
EXTENDS ModemIdentity, TLC

CONSTANTS a, b, path0, path1, path2, service, cli

\* A new database, one of an earlier version, one with modem a enrolled.
Anything == {Blank(None), Blank(Legacy), Blank(a)}
AEnrolled == {Blank(a)}
===========================================================================
