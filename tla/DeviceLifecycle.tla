--------------------------- MODULE DeviceLifecycle ---------------------------
(***************************************************************************)
(* The lifecycle tables that the gateway, the admin service and the        *)
(* provisioning CLI each carry a copy of (state_machine.py twice, and the  *)
(* head of scripts/provision_device.py).  Pure definitions, no state.      *)
(***************************************************************************)

AllStates == {"setup_pending", "active", "lost", "revoked",
              "wipe_requested", "wipe_sent"}

\* Mutant: an operator may call a wipe off.
CancellableWipes ==
  [s \in AllStates |->
     CASE s = "setup_pending" -> {"active", "revoked", "wipe_requested"}
       [] s = "revoked"       -> {"active"}
       [] s = "wipe_sent"     -> {}
       [] OTHER               -> {"active", "lost", "revoked", "wipe_requested"}]

\* What an operator may move a device to, by the state it is in.
AdminTransitions ==
  [s \in AllStates |->
     CASE s = "setup_pending" -> {"active", "revoked", "wipe_requested"}
       [] s = "active"        -> {"lost", "revoked", "wipe_requested"}
       [] s = "lost"          -> {"active", "revoked", "wipe_requested"}
       [] s = "revoked"       -> {"active"}
       [] OTHER               -> {}]

\* Moves an operator must confirm separately.
ExtraConfirm == {<<"revoked", "active">>,
                 <<"active", "wipe_requested">>,
                 <<"lost", "wipe_requested">>,
                 <<"setup_pending", "wipe_requested">>}

\* Mutant: a device to be wiped is refused like a revoked one.
RefusedWipes == {"setup_pending", "active", "lost"}

ConnectableStates == {"setup_pending", "active", "lost", "wipe_requested"}

\* Mutant: a lost device is still listened to.
ListenToLost == {"active", "lost"}

PublishAudioStates == {"active"}

\* Not lifecycle states: a document without the field, and no document.
NoState == "none"
Missing == "missing"

\* What older documents carry in `status`, or nothing.
LegacyStatuses == {"active", "revoked", "offline", NoState}

\* Whatever is not a lifecycle state, "offline" and nothing included, is read
\* as active.
Normalize(value) == IF value \in AllStates THEN value ELSE "active"

ValidAdminTransition(current, target) ==
  target \in AdminTransitions[Normalize(current)]
=============================================================================
