------------------------------ MODULE PhoneClaims ------------------------------
(***************************************************************************)
(* What docs/NETWORK_SETUP.md says of the connectivity watchdog and the    *)
(* code does not keep.                                                     *)
(***************************************************************************)
EXTENDS MCPhoneService

\* "If more than connectivityRebootTimeoutMs elapses without a successful auth"
\* the phone is rebooted, or the service restarted, unless the last time is less
\* than minRebootIntervalMs ago.  firstAuthSeen stays true when the connection
\* is lost, and the phase stays CLOUD_AUTHENTICATED with it.
DarkPhonesReboot == dark > Timeout => gap < MinInterval
=============================================================================
