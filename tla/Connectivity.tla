------------------------------ MODULE Connectivity ------------------------------
(***************************************************************************)
(* How a running service follows its connection: the state StreamingClient *)
(* shows, the phase ConnectivityMonitor makes of it, and the checks of     *)
(* ConnectivityWatchdog, which reboots the phone or restarts the service.  *)
(*                                                                         *)
(* Time goes in checks, checkIntervalMs apart; what is observed between    *)
(* two checks arrives before the second.                                   *)
(***************************************************************************)
EXTENDS Naturals

CONSTANTS
  Networks,         \* what ConnectivityManager and TelephonyManager may report
  Timeout,          \* connectivityRebootTimeoutMs, in checks
  MinInterval       \* minRebootIntervalMs, in checks

ASSUME ConnectivityAssumption ==
  /\ Networks # {}
  /\ Networks \subseteq [wifi : BOOLEAN, cellular : BOOLEAN,
                         validated : BOOLEAN, sim : BOOLEAN]
  /\ Timeout \in Nat \ {0} /\ MinInterval \in Nat \ {0}

VARIABLES
  streamState,      \* StreamingClient.state
  firstAuthSeen,    \* StreamingClient.firstAuthSeen
  connectionPhase,  \* ConnectivityMonitor.phase
  sinceAuth,        \* checks since lastAuthenticatedAtMs, at most Timeout
  sinceReboot,      \* checks since lastRebootMs, at most MinInterval: as never
  asked,            \* what Android has been asked to do with the service
  dark,             \* checks of this service since one found it STREAMING
  gap,              \* checks since the last reboot or restart
  unsaved           \* that reboot came before its stamp was on disk

connectivity == <<streamState, firstAuthSeen, connectionPhase, sinceAuth,
                  sinceReboot, asked, dark, gap, unsaved>>

StreamStates == {"IDLE", "CONNECTING", "STREAMING", "RECONNECTING", "ERROR"}

ConnectionPhases ==
  {"NO_NETWORK", "NO_SIM_NO_WIFI", "SEARCHING_CELLULAR", "CELLULAR_AVAILABLE",
   "WIFI_AVAILABLE", "WIFI_CONNECTED", "CLOUD_REACHABLE", "CLOUD_AUTHENTICATED"}

AtMost(bound, n) == IF n < bound THEN n ELSE bound

\* A client, a monitor and a watchdog that have done nothing yet.
Fresh ==
  /\ streamState' = "IDLE" /\ firstAuthSeen' = FALSE
  /\ connectionPhase' = "NO_NETWORK"
  /\ sinceAuth' = 0 /\ dark' = 0

ConnectivityInit ==
  /\ streamState = "IDLE" /\ firstAuthSeen = FALSE
  /\ connectionPhase = "NO_NETWORK"
  /\ sinceAuth = 0 /\ dark = 0
  /\ sinceReboot = MinInterval /\ gap = MinInterval
  /\ asked = "nothing" /\ unsaved = FALSE

-----------------------------------------------------------------------------
(* StreamingClient *)

StreamTo(from, to) ==
  /\ streamState \in from
  /\ streamState' = to
  /\ UNCHANGED <<connectionPhase, sinceAuth, sinceReboot, asked, dark, gap, unsaved>>

\* runLoop begins with no attempt behind it.  ReconnectPolicy.reset comes before
\* nextDelayMs, which counts one: no later call is CONNECTING again.
FirstCall == StreamTo({"IDLE"}, "CONNECTING") /\ UNCHANGED firstAuthSeen

\* The first command of a call, which is the SessionAck.
SessionAcked ==
  /\ StreamTo({"CONNECTING", "RECONNECTING"}, "STREAMING")
  /\ firstAuthSeen' = TRUE

\* The call fails before or after that, ...
SessionFails ==
  /\ StreamTo({"CONNECTING", "STREAMING", "RECONNECTING"}, "ERROR")
  /\ UNCHANGED firstAuthSeen

\* ... the channel is shut down, and the next call follows after a delay.  The
\* gateway may also end a call without an error.
Reconnecting ==
  /\ StreamTo({"CONNECTING", "STREAMING", "ERROR"}, "RECONNECTING")
  /\ UNCHANGED firstAuthSeen

-----------------------------------------------------------------------------
(* ConnectivityMonitor *)

OfNetwork(network) ==
  CASE network.wifi     -> IF network.validated THEN "WIFI_CONNECTED" ELSE "WIFI_AVAILABLE"
    [] ~network.wifi /\ network.cellular ->
         IF network.validated THEN "CELLULAR_AVAILABLE" ELSE "SEARCHING_CELLULAR"
    [] OTHER            -> IF network.sim THEN "NO_NETWORK" ELSE "NO_SIM_NO_WIFI"

phaseFor(network) ==
  CASE firstAuthSeen \/ streamState = "STREAMING"         -> "CLOUD_AUTHENTICATED"
    [] ~firstAuthSeen /\ streamState \in {"CONNECTING", "RECONNECTING"} -> "CLOUD_REACHABLE"
    [] OTHER                                              -> OfNetwork(network)

\* Any of the five flows that are combined has a new value.
Observe(network) ==
  /\ connectionPhase' = phaseFor(network)
  /\ connectionPhase' # connectionPhase
  /\ UNCHANGED <<streamState, firstAuthSeen, sinceAuth, sinceReboot, asked, dark,
                 gap, unsaved>>

Observed == \E network \in Networks : connectionPhase = phaseFor(network)

-----------------------------------------------------------------------------
(* ConnectivityWatchdog *)

\* Mutant: reaching the cloud is enough.
Reachable == connectionPhase \in {"CLOUD_REACHABLE", "CLOUD_AUTHENTICATED"}

Authenticated == connectionPhase = "CLOUD_AUTHENTICATED"

\* One more check interval has gone by.
Darker == dark' = IF streamState = "STREAMING" THEN 0 ELSE AtMost(Timeout + 1, dark + 1)

TimeGoesOn ==
  /\ sinceReboot' = AtMost(MinInterval, sinceReboot + 1)
  /\ gap' = AtMost(MinInterval, gap + 1)

Overdue ==
  /\ ~Authenticated
  /\ sinceAuth + 1 >= Timeout
  /\ sinceReboot + 1 >= MinInterval

\* A check that finds the phase authenticated, the timeout not over, or the last
\* reboot too near.
QuietCheck ==
  /\ Observed /\ ~Overdue
  /\ sinceAuth' = IF Authenticated THEN 0 ELSE AtMost(Timeout, sinceAuth + 1)
  /\ Darker /\ TimeGoesOn
  /\ UNCHANGED <<streamState, firstAuthSeen, connectionPhase, asked, unsaved>>

\* triggerReboot of a device owner.  The stamp is written by prefs.edit, which
\* returns before the disk has it; what was there before is at least
\* MinInterval old.
Reboot ==
  /\ Observed /\ Overdue
  /\ Fresh
  /\ \/ sinceReboot' = 0 /\ unsaved' = FALSE
     \/ sinceReboot' = MinInterval /\ unsaved' = TRUE
  /\ gap' = 0
  /\ asked' = "start"

\* Mutant: the fallback leaves no stamp.
SoftRestartUnstamped ==
  /\ Observed /\ Overdue
  /\ asked' = "restart"
  /\ gap' = 0 /\ unsaved' = FALSE
  /\ sinceAuth' = AtMost(Timeout, sinceAuth + 1)
  /\ Darker
  /\ sinceReboot' = AtMost(MinInterval, sinceReboot + 1)
  /\ UNCHANGED <<streamState, firstAuthSeen, connectionPhase>>

\* Not the owner, or dpm.reboot throws: stopService and startForegroundService.
SoftRestart ==
  /\ Observed /\ Overdue
  /\ asked' = "restart"
  /\ sinceReboot' = 0 /\ gap' = 0 /\ unsaved' = FALSE
  /\ sinceAuth' = AtMost(Timeout, sinceAuth + 1)
  /\ Darker
  /\ UNCHANGED <<streamState, firstAuthSeen, connectionPhase>>

\* Time passes without a service.
Elapse ==
  /\ gap < MinInterval \/ sinceReboot < MinInterval
  /\ TimeGoesOn
  /\ UNCHANGED <<streamState, firstAuthSeen, connectionPhase, sinceAuth, asked,
                 dark, unsaved>>

\* Fallback or user: the watchdog, the monitor and the client stop.
ConnectivityStops ==
  /\ Fresh
  /\ asked' = IF asked = "restart" THEN "start" ELSE asked
  /\ UNCHANGED <<sinceReboot, gap, unsaved>>

\* The process is gone, perhaps before the stamp was on disk.
ConnectivityDies ==
  /\ Fresh
  /\ \/ UNCHANGED <<sinceReboot, unsaved>>
     \/ gap = 0 /\ sinceReboot' = MinInterval /\ unsaved' = TRUE
  /\ asked' = "start"
  /\ UNCHANGED gap

\* onStartCommand, for Android, the boot or the user.
ConnectivityStarts ==
  /\ Fresh
  /\ asked' = "nothing"
  /\ UNCHANGED <<sinceReboot, gap, unsaved>>

ConnectivityTypeOK ==
  /\ streamState \in StreamStates /\ firstAuthSeen \in BOOLEAN
  /\ connectionPhase \in ConnectionPhases
  /\ sinceAuth \in 0..Timeout /\ sinceReboot \in 0..MinInterval
  /\ asked \in {"nothing", "restart", "start"}
  /\ dark \in 0..(Timeout + 1) /\ gap \in 0..MinInterval
  /\ unsaved \in BOOLEAN
=============================================================================
