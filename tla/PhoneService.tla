------------------------------ MODULE PhoneService ------------------------------
(***************************************************************************)
(* The monitoring service of a phone: its capture and its connection, and  *)
(* what ends and begins both: the user, the connectivity watchdog, a boot. *)
(***************************************************************************)
EXTENDS AudioCapture, Connectivity

vars == <<audio, connectivity>>

Init == AudioInit /\ ConnectivityInit

Running == \E s \in Services : service[s] = "running"

\* What the service does by itself.
CaptureStep ==
  /\ \/ \E s \in Services :
          FrameSeen(s) \/ Silence(s) \/ WatchdogStops(s) \/ WatchdogStarts(s)
            \/ DestroyEnds(s) \/ Forget(s)
     \/ \E c \in Captures : CaptureEnds(c) \/ CaptureSticks(c)
  /\ UNCHANGED connectivity

ConnectionStep ==
  /\ Running
  /\ \/ FirstCall \/ SessionAcked \/ SessionFails \/ Reconnecting
     \/ \E network \in Networks : Observe(network)
     \/ QuietCheck \/ SoftRestart
  /\ UNCHANGED audio

\* onStartCommand, and the START_STICKY of Android.
Start(s) == StartService(s) /\ ConnectivityStarts

\* onDestroy begins, for stopService or the stop button.
Stop(s) == DestroyBegins(s) /\ ConnectivityStops

\* Only the preferences survive the process.
ProcessEnds ==
  /\ service' = [s \in Services |-> "none"]
  /\ captureJob' = [s \in Services |-> {}]
  /\ isActive' = [s \in Services |-> FALSE]
  /\ watchdog' = [s \in Services |-> "off"]
  /\ recent' = [s \in Services |-> FALSE]
  /\ capture' = [c \in Captures |-> NoCapture]
  /\ overtaken' = {}

RebootPhone == Running /\ Reboot /\ ProcessEnds

\* Android kills the process; onDestroy is not called.
Kill == ProcessEnds /\ ConnectivityDies /\ \E s \in Services : service[s] # "none"

Idle == ~Running /\ Elapse /\ UNCHANGED audio

Next ==
  \/ CaptureStep \/ ConnectionStep \/ RebootPhone \/ Kill \/ Idle
  \/ \E s \in Services : Start(s) \/ Stop(s)

Spec == Init /\ [][Next]_vars

Check == (ConnectionStep /\ (QuietCheck \/ SoftRestart)) \/ RebootPhone

Fairness ==
  /\ \A s \in Services :
       /\ WF_vars(CaptureStep /\ (Silence(s) \/ WatchdogStops(s) \/ WatchdogStarts(s)))
       /\ SF_vars(CaptureStep /\ WatchdogStarts(s) /\ captureJob'[s] # {})
  /\ \A c \in Captures : WF_vars(CaptureStep /\ capture[c].phase = "cancelled" /\ CaptureEnds(c))
  /\ WF_vars(ConnectionStep /\ (\E network \in Networks : Observe(network)))
  /\ SF_vars(Check)
  /\ \A s \in Services : WF_vars(asked = "restart" /\ Stop(s))

FairSpec == Spec /\ Fairness
-----------------------------------------------------------------------------
(* Properties *)

\* Types; a restart is asked for only while a service runs.
TypeOK == AudioTypeOK /\ ConnectivityTypeOK /\ (asked = "restart" => Running)

Uncancelled(s) == {c \in Captures : capture[c].of = {s}
                                      /\ capture[c].phase \in {"reading", "stuck"}}

\* A service never has two captures at once but for those on their way out, and
\* never loses hold of one, though isActive may be false while it captures
\* (AudioFrameProducer.kt: the finally clause of a cancelled capture).
OneCapture ==
  \A s \in Services : Uncancelled(s) \subseteq captureJob[s]

\* Nobody listens after the service has stopped, unless its end overtook the
\* watchdog between stop and start (AudioCaptureService.kt: onDestroy stops the
\* watchdog before the producer).
NoneListens ==
  \A s \in Services :
    service[s] = "stopped" /\ Uncancelled(s) # {} => s \in overtaken

\* A service that stays up captures again, whatever its capture died of and
\* however late the flag of an old one is cleared.
CaptureResumes ==
  \A s \in Services :
    service[s] = "running" ~> (ReadingFor(s) # {} \/ service[s] # "running")

Rebooting == gap' = 0 /\ gap # 0

\* Two reboots or restarts are MinInterval apart, in spite of new processes,
\* unless the phone went down before the stamp of the first was on disk.
RebootsApart == [][Rebooting => gap + 1 >= MinInterval \/ unsaved]_vars

\* A service the gateway never acknowledges does not wait for ever: it is
\* restarted, with the phone or without.
DarkServiceRestarts ==
  Running /\ ~firstAuthSeen ~> ~Running \/ firstAuthSeen
=============================================================================
