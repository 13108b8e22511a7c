------------------------------ MODULE RemoteWipe ------------------------------
(***************************************************************************)
(* The fleet and its phones, as far as a wipe needs them: a phone that is  *)
(* told to wipe itself may lose its app and its key before the gateway has *)
(* recorded that it was told.                                              *)
(***************************************************************************)
EXTENDS DeviceFleet

VARIABLE phone      \* per device: "working", "told" (a wipe command was sent to it)
                    \* or "erased" (WipeHandler has reset it)

wipeVars == <<vars, phone>>

WipeInit == Init /\ phone = [d \in Devices |-> "working"]

\* The command leaves with the step that opens the session.
Commanded(d) ==
  \E s \in Sessions :
    sess[s].device = d /\ sess[s].phase = "open" /\ sess'[s].phase = "wipe"

Hear ==
  phone' = [d \in Devices |->
              IF phone[d] = "working" /\ Commanded(d) THEN "told" ELSE phone[d]]

Calls(d) == \E s \in Sessions : ~Live(s) /\ sess'[s].device = d

\* An erased phone does not call.
FleetStep ==
  /\ Next /\ Hear
  /\ \A d \in Devices : Calls(d) => phone[d] # "erased"

\* WipeHandler.execute, some time after the command, if it arrives and the app is
\* the device owner.
Erase(d) ==
  /\ phone[d] = "told"
  /\ phone' = [phone EXCEPT ![d] = "erased"]
  /\ UNCHANGED vars

\* Somebody installs the phone again; registering it (Register) leaves the state
\* of a known device alone.
SetUpAgain(d) ==
  /\ phone[d] = "erased"
  /\ phone' = [phone EXCEPT ![d] = "working"]
  /\ UNCHANGED vars

WipeNext == FleetStep \/ \E d \in Devices : Erase(d) \/ SetUpAgain(d)

WipeSpec == WipeInit /\ [][WipeNext]_wipeVars
-----------------------------------------------------------------------------
(* Liveness *)

InFleet(GatewayAction) ==
  GatewayAction /\ UNCHANGED <<clock, request, enrolment>> /\ Remember /\ Hear

Serves(s, d) == sess[s].device = d

\* A phone reconnects again and again as long as it is not erased, a stream does
\* not stay open for ever (Cloud Run ends a request after
\* gateway_request_timeout_seconds), and an attempt with a given key that is made
\* again and again gets past each await in the end.  Nobody has to set an erased
\* phone up again.
Fairness ==
  \A s \in Sessions, d \in Devices :
    /\ \A k \in Keys :
         /\ SF_wipeVars(/\ phone[d] # "erased"
                        /\ InFleet(\E g \in Gateways : Connect(s, g, d, k)))
         /\ SF_wipeVars(InFleet(Serves(s, d) /\ sess[s].key = k /\ LookupKey(s)))
         /\ SF_wipeVars(InFleet(Serves(s, d) /\ sess[s].key = k /\ FillCache(s)))
    /\ SF_wipeVars(InFleet(Serves(s, d) /\ ReadState(s)))
    /\ SF_wipeVars(InFleet(Serves(s, d) /\ Promote(s)))
    /\ SF_wipeVars(InFleet(Serves(s, d) /\ ReadDocument(s)))
    /\ SF_wipeVars(InFleet(Serves(s, d) /\ Persist(s)))
    /\ SF_wipeVars(InFleet(Serves(s, d) /\ Open(s)))
    /\ SF_wipeVars(InFleet(Serves(s, d) /\ RecordWipe(s)))
    /\ WF_wipeVars(InFleet(Disconnect(s)))

FairSpec == WipeSpec /\ Fairness

\* A wipe that was asked for is recorded, or the phone is reset while the record
\* still asks for it: the stream died between the command and mark_wipe_sent, and
\* nobody is left to call again.  A phone that was only told, or was set up again
\* since, is told once more (service.py: wipe-on-connect).
WipeReachesDevice ==
  \A d \in Devices :
    LifecycleState(d) = "wipe_requested" ~>
      LifecycleState(d) = "wipe_sent" \/ phone[d] = "erased"
=============================================================================
