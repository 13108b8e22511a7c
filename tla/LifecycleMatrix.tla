--------------------------- MODULE LifecycleMatrix ---------------------------
(***************************************************************************)
(* What docs/DEVICE_LIFECYCLE.md and the head of state_machine.py promise  *)
(* of a fleet: a device is enrolled once, into setup_pending, and from     *)
(* there moves only along the published matrix, whoever makes the move.    *)
(***************************************************************************)
EXTENDS DeviceLifecycle

CONSTANT Devices

VARIABLE life

Unregistered == "unregistered"

\* The moves the gateway makes by itself.
GatewayTransitions == {<<"setup_pending", "active">>,
                       <<"wipe_requested", "wipe_sent">>}

Permitted(from, to) ==
  \/ from = Unregistered /\ to = "setup_pending"
  \/ from \in AllStates /\ to \in AdminTransitions[from]
  \/ <<from, to>> \in GatewayTransitions

Move(d) ==
  \E to \in AllStates :
    /\ Permitted(life[d], to)
    /\ life' = [life EXCEPT ![d] = to]

LifecycleInit == life = [d \in Devices |-> Unregistered]

LifecycleNext == \E d \in Devices : Move(d)

LifecycleSpec == LifecycleInit /\ [][LifecycleNext]_life
=============================================================================
