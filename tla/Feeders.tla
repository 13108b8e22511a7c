-------------------------------- MODULE Feeders --------------------------------
(***************************************************************************)
(* The programs under scripts/ that stand in for phones: a station of the  *)
(* replay fleet, the report on its stations, a station of the Argos        *)
(* bridge, the Argos live pull, the simulator of phones on the status      *)
(* page.  They run on hosts of their own and share nothing but the         *)
(* services they feed, so that one of them runs in a behaviour.  A station *)
(* and the threads of the report are of one program, and share only the    *)
(* event that stops both.                                                  *)
(***************************************************************************)
EXTENDS ReplayFleet, FleetReport, ArgosBridge, LivePull, SimulatedPhones

VARIABLE program    \* the one that runs

vars == <<program, fleetVars, reportVars, bridgeVars, pullVars, simulatorVars>>

Init ==
  /\ program \in {"replay_fleet", "replay_report", "argos_bridge", "argos_live_pull",
                  "simulate_soh_phones"}
  /\ FleetInit /\ BridgeInit /\ PullInit /\ ReportInit /\ SimulatorInit
  /\ program # "replay_report" => labels = <<>> /\ flybys = {}
  /\ program # "simulate_soh_phones" => mode = "admin"

Fleet(A) ==
  /\ program = "replay_fleet" /\ A
  /\ UNCHANGED <<program, reportVars, bridgeVars, pullVars, simulatorVars>>

Reporting(A) ==
  /\ program = "replay_report" /\ A
  /\ UNCHANGED <<program, fleetVars, bridgeVars, pullVars, simulatorVars>>

Bridge(A) ==
  /\ program = "argos_bridge" /\ A
  /\ UNCHANGED <<program, fleetVars, reportVars, pullVars, simulatorVars>>

Pull(A) ==
  /\ program = "argos_live_pull" /\ A
  /\ UNCHANGED <<program, fleetVars, reportVars, bridgeVars, simulatorVars>>

Simulator(A) ==
  /\ program = "simulate_soh_phones" /\ A
  /\ UNCHANGED <<program, fleetVars, reportVars, bridgeVars, pullVars>>

Next ==
  \/ Fleet(FleetNext) \/ Reporting(ReportNext) \/ Bridge(BridgeNext) \/ Pull(PullNext)
  \/ Simulator(SimulatorNext)

Spec == Init /\ [][Next]_vars

\* Threads and tasks that can run do, the gateway reads what it is sent, a download
\* returns (each read of a blob has a timeout), and so does a call that does not
\* hang.  No call has to break, nobody has to stop a program, and the receiver of
\* the tap may never read.
Fairness ==
  /\ WF_vars(Fleet(Thread)) /\ WF_vars(Fleet(GatewayTakes))
  /\ WF_vars(Fleet(stream.call = "dying" /\ StreamDies))
  /\ WF_vars(Bridge(Producer)) /\ WF_vars(Bridge(Cancel \/ SessionOver))
  /\ WF_vars(Bridge(TakeMessage))
  /\ \A c \in Clips :
       /\ SF_vars(Pull(Acquire(c)))
       /\ WF_vars(Pull(Fetched(c) \/ FetchFails(c)))
       /\ WF_vars(Pull(task[c] = "forwarding" /\ Forward(c)))

FairSpec == Spec /\ Fairness

\* Types and bounds of the programs; the permits that are not free are
\* those of the clips in work.
TypeOK == FleetTypeOK /\ ReportTypeOK /\ BridgeTypeOK /\ PullTypeOK /\ SimulatorTypeOK
=============================================================================
