------------------------------ MODULE ModemSms ------------------------------
(***************************************************************************)
(* ModemManager's SMS objects, as far as src/src/dbus/outbound.rs uses     *)
(* them: Messaging.Create makes an object at a fresh path, Sms.Send hands  *)
(* it to the radio, GetAll reads its State, Number and Text.  ModemManager *)
(* is not part of the repository: this is how the code sees it.  Paths are *)
(* numbered from one; a restart of the daemon loses every object and       *)
(* starts the numbering again, so an old path can come to name another     *)
(* object.                                                                 *)
(***************************************************************************)
EXTENDS Naturals

CONSTANTS
    MaxPath,            \* bound on the objects of one daemon run
    MaxModemRestarts    \* bound on daemon restarts

ASSUME ModemAssumption == MaxPath \in Nat /\ MaxModemRestarts \in Nat

ObjectPaths == 1 .. MaxPath

VARIABLES
    object,         \* object[path]: the SMS object at that path
    nextPath,       \* the daemon's path counter
    modemRestarts   \* how often the daemon restarted

modemVars == <<object, nextPath, modemRestarts>>

ObjectStates == {"none", "stored", "sending", "sent"}
ObjectType   == [state: ObjectStates, madeFor: Nat]   \* a message id; 0: nobody

NoObject == [state |-> "none", madeFor |-> 0]

ModemTypeOK ==
    /\ object \in [ObjectPaths -> ObjectType]
    /\ nextPath \in Nat
    /\ modemRestarts \in 0 .. MaxModemRestarts

ModemInit ==
    /\ object = [path \in ObjectPaths |-> NoObject]
    /\ nextPath = 1
    /\ modemRestarts = 0

\* Messaging.Create
CreateSms(path, m) ==
    /\ path = nextPath
    /\ path \in ObjectPaths
    /\ nextPath' = nextPath + 1
    /\ object' = [object EXCEPT ![path] = [state |-> "stored", madeFor |-> m]]
    /\ UNCHANGED modemRestarts

\* Sms.Send arrives at an object that waits to be sent.
TakeSend(path) ==
    /\ object[path].state = "stored"
    /\ object' = [object EXCEPT ![path].state = "sending"]
    /\ UNCHANGED <<nextPath, modemRestarts>>

\* The network took the SMS.
Transmitted(path) ==
    /\ object[path].state = "sending"
    /\ object' = [object EXCEPT ![path].state = "sent"]
    /\ UNCHANGED <<nextPath, modemRestarts>>

\* The network refused it: the object is stored as before.
NotTransmitted(path) ==
    /\ object[path].state = "sending"
    /\ object' = [object EXCEPT ![path].state = "stored"]
    /\ UNCHANGED <<nextPath, modemRestarts>>

\* Another client deletes an idle object; its path stays used up.
RemoveObject(path) ==
    /\ object[path].state \in {"stored", "sent"}
    /\ object' = [object EXCEPT ![path] = NoObject]
    /\ UNCHANGED <<nextPath, modemRestarts>>

RestartModem ==
    /\ modemRestarts < MaxModemRestarts
    /\ modemRestarts' = modemRestarts + 1
    /\ object' = [path \in ObjectPaths |-> NoObject]
    /\ nextPath' = 1
=============================================================================
