------------------------------ MODULE Operators ------------------------------
(***************************************************************************)
(* The people's side of the device registry: the admin service's state     *)
(* buttons, its simulator endpoint, and scripts/provision_device.py.       *)
(*                                                                         *)
(* The admin handler checks the confirmation on a document it read before  *)
(* the transaction; the CLI checks it inside.  `register` reads, then      *)
(* writes, without a transaction.                                          *)
(***************************************************************************)
EXTENDS DeviceRegistry

CONSTANTS
  Admins,             \* concurrent change_state requests
  Registrars,         \* concurrent runs of `provision_device.py register`
  SimulatorEnabled    \* ADMIN_SIMULATOR_ENABLED

ASSUME SimulatorAssumption == SimulatorEnabled \in BOOLEAN

VARIABLES
  request,            \* per admin: the change between its check and its write
  enrolment           \* per registrar: the registration between read and write

Targets == AllStates \ {"wipe_sent"}

\* The form field of the admin page; the CLI's flag likewise.
Confirmations == {"yes", ""}

\* A request in flight is the set of what it carries; {} when there is none.
Requests   == [device : Devices, target : Targets, confirm : Confirmations]
Enrolments == [device : Devices, key : Keys, seed : {NoState, "setup_pending"}]

OperatorsInit ==
  /\ request   = [a \in Admins |-> {}]
  /\ enrolment = [r \in Registrars |-> {}]

-----------------------------------------------------------------------------
(* POST /api/devices/{id}/state *)

CheckRequest(a, d, target, confirm) ==
  /\ request[a] = {}
  /\ Exists(d)
  /\ <<LifecycleState(d), target>> \in ExtraConfirm => confirm = "yes"
  /\ request' = [request EXCEPT ![a] = {[device |-> d, target |-> target,
                                         confirm |-> confirm]}]
  /\ UNCHANGED <<doc, enrolment>>

\* A transition the table does not allow raises and leaves the document alone.
ApplyRequest(a) ==
  \E r \in request[a] :
    /\ \/ SetState(r.device, r.target)
       \/ /\ ~ValidAdminTransition(LifecycleState(r.device), r.target)
          /\ UNCHANGED doc
    /\ request' = [request EXCEPT ![a] = {}]
    /\ UNCHANGED enrolment

-----------------------------------------------------------------------------
(* scripts/provision_device.py *)

\* set-state, request-wipe, revoke and unrevoke.
CliSetState(d, target, confirm) ==
  /\ <<LifecycleState(d), target>> \in ExtraConfirm => confirm = "yes"
  /\ SetState(d, target)
  /\ UNCHANGED <<request, enrolment>>

BeginRegister(r, d, k) ==
  /\ enrolment[r] = {}
  /\ enrolment' = [enrolment EXCEPT ![r] = {[device |-> d, key |-> k,
                                            seed |-> IF Exists(d) THEN NoState
                                                     ELSE "setup_pending"]}]
  /\ UNCHANGED <<doc, request>>

FinishRegister(r) ==
  \E e \in enrolment[r] :
    /\ PersistRegistration(e.device, e.key, e.seed)
    /\ enrolment' = [enrolment EXCEPT ![r] = {}]
    /\ UNCHANGED request

-----------------------------------------------------------------------------
(* POST /api/simulate/phones *)

SimulatePhone(d) ==
  /\ SimulatorEnabled
  /\ PersistSimulated(d)
  /\ UNCHANGED <<request, enrolment>>

OperatorsNext ==
  \/ \E d \in Devices, target \in Targets, confirm \in Confirmations :
       \/ CliSetState(d, target, confirm)
       \/ \E a \in Admins : CheckRequest(a, d, target, confirm)
  \/ \E a \in Admins : ApplyRequest(a)
  \/ \E r \in Registrars : \/ FinishRegister(r)
                           \/ \E d \in Devices, k \in Keys : BeginRegister(r, d, k)
  \/ \E d \in Devices : SimulatePhone(d)
=============================================================================
