-------------------------- MODULE PhoneServiceProofs --------------------------
(***************************************************************************)
(* The captures and the reboots of a phone's service, for any number of    *)
(* service instances, captures and networks and any two intervals.         *)
(***************************************************************************)
EXTENDS PhoneService, TLAPS

-----------------------------------------------------------------------------
(* The invariants *)

\* The producer refers to one capture at most, and a capture belongs to the
\* service it was begun for.
OneJob == \A s \in Services : \A c, d \in captureJob[s] : c = d

OneOwner == \A c \in Captures : \A s \in capture[c].of : capture[c].of = {s}

\* The audio watchdog waits or restarts while its service runs; a restart that
\* its end overtook is known.
WatchdogFollows ==
  \A s \in Services :
    /\ watchdog[s] \in {"waiting", "restarting"} => service[s] = "running"
    /\ watchdog[s] = "leaving" /\ service[s] = "stopped" => s \in overtaken
    /\ service[s] = "none" => watchdog[s] = "off"

\* What is forgotten left no capture behind, and one instance is up at a time.
OneInstance ==
  /\ \A s \in Services, c \in Captures : service[s] = "none" => s \notin capture[c].of
  /\ \A s, x \in Services : Up(s) /\ Up(x) => s = x

CaptureInv ==
  /\ OneCapture /\ NoneListens
  /\ OneJob /\ OneOwner /\ WatchdogFollows /\ OneInstance

\* The stamp of the last reboot is no older than the reboot, unless it was lost.
StampInv == unsaved \/ sinceReboot <= gap

\* At most one capture listens on the whole phone, those of a service whose end
\* overtook its watchdog left aside (AudioFrameProducer.kt: start returns if a
\* capture is active; AudioCaptureService.kt: onDestroy).
OneMicrophone ==
  \A s, x \in Services \ overtaken :
    \A c \in Uncancelled(s), d \in Uncancelled(x) : c = d /\ s = x

-----------------------------------------------------------------------------
(* What the actions share *)

\* A step of the audio part, by whom it is of.
AudioStep ==
  \/ \E s \in Services :
       \/ FrameSeen(s) \/ Silence(s) \/ WatchdogStops(s) \/ WatchdogStarts(s)
       \/ StartService(s) \/ DestroyBegins(s) \/ DestroyEnds(s) \/ Forget(s)
  \/ \E c \in Captures : CaptureEnds(c) \/ CaptureSticks(c)
  \/ ProcessEnds
  \/ UNCHANGED audio

LEMMA StepsOfParts ==
  ASSUME [Next]_vars
  PROVE  AudioStep
BY DEF Next, vars, AudioStep, CaptureStep, ConnectionStep, Start, Stop, RebootPhone,
       Kill, Idle

\* What cancelling and beginning do to a capture.
LEMMA CancelledFacts ==
  ASSUME AudioTypeOK, NEW jobs \in SUBSET Captures
  PROVE  /\ Cancelled(jobs) \in [Captures -> [phase : {"none", "reading", "stuck", "cancelled"},
                                             of : SUBSET Services]]
         /\ \A c \in Captures :
              /\ Cancelled(jobs)[c].of = capture[c].of
              /\ Cancelled(jobs)[c].phase \in {capture[c].phase, "cancelled"}
              /\ c \in jobs => Cancelled(jobs)[c].phase \in {"none", "cancelled"}
BY DEF AudioTypeOK, Cancelled

LEMMA StartsFacts ==
  ASSUME AudioTypeOK, NEW s \in Services, ProducerStarts(s) \/ StartFails
  PROVE  \/ UNCHANGED <<capture, captureJob, isActive>>
         \/ \E c \in Captures :
              /\ Begin(s, c)
              /\ \A d \in captureJob[s] : capture[d].phase = "none"
BY DEF ProducerStarts, StartFails

LEMMA BeginTypes ==
  ASSUME AudioTypeOK, NEW s \in Services, NEW c \in Captures, Begin(s, c)
  PROVE  /\ capture' \in [Captures -> [phase : {"none", "reading", "stuck", "cancelled"},
                                      of : SUBSET Services]]
         /\ captureJob' \in [Services -> SUBSET Captures]
         /\ isActive' \in [Services -> BOOLEAN]
BY DEF AudioTypeOK, Begin

LEMMA StopsTypes ==
  ASSUME AudioTypeOK, NEW s \in Services, ProducerStops(s)
  PROVE  /\ capture' \in [Captures -> [phase : {"none", "reading", "stuck", "cancelled"},
                                      of : SUBSET Services]]
         /\ captureJob' \in [Services -> SUBSET Captures]
         /\ isActive' \in [Services -> BOOLEAN]
<1>1. captureJob[s] \in SUBSET Captures
  BY DEF AudioTypeOK
<1> QED BY <1>1, CancelledFacts DEF AudioTypeOK, ProducerStops

-----------------------------------------------------------------------------
(* Types *)

LEMMA AudioTypes ==
  ASSUME AudioTypeOK, AudioStep
  PROVE  AudioTypeOK'
<1> DEFINE CaptureTypes ==
      /\ capture \in [Captures -> [phase : {"none", "reading", "stuck", "cancelled"},
                                   of : SUBSET Services]]
      /\ captureJob \in [Services -> SUBSET Captures]
      /\ isActive \in [Services -> BOOLEAN]
<1>0. CaptureTypes
  BY DEF AudioTypeOK
<1>1. ASSUME NEW s \in Services, FrameSeen(s) PROVE AudioTypeOK'
  BY <1>1 DEF AudioTypeOK, FrameSeen
<1>2. ASSUME NEW s \in Services, Silence(s) PROVE AudioTypeOK'
  BY <1>2 DEF AudioTypeOK, Silence
<1>3. ASSUME NEW s \in Services, WatchdogStops(s) PROVE AudioTypeOK'
  <2>1. CaptureTypes'
    BY <1>3, StopsTypes DEF WatchdogStops
  <2> QED BY <1>3, <2>1 DEF AudioTypeOK, WatchdogStops
<1>4. ASSUME NEW s \in Services, ProducerStarts(s) \/ StartFails PROVE CaptureTypes'
  BY <1>0, <1>4, StartsFacts, BeginTypes
<1>5. ASSUME NEW s \in Services, WatchdogStarts(s) PROVE AudioTypeOK'
  <2>1. CaptureTypes'
    BY <1>4, <1>5 DEF WatchdogStarts
  <2>2. recent' \in [Services -> BOOLEAN]
    BY <1>5 DEF AudioTypeOK, WatchdogStarts
  <2>3. watchdog' \in [Services -> {"off", "waiting", "restarting", "leaving"}]
    BY <1>5 DEF AudioTypeOK, WatchdogStarts
  <2>4. UNCHANGED <<service, overtaken>>
    BY <1>5 DEF WatchdogStarts
  <2> QED BY <2>1, <2>2, <2>3, <2>4 DEF AudioTypeOK
<1>6. ASSUME NEW s \in Services, StartService(s) PROVE AudioTypeOK'
  <2>1. CaptureTypes'
    BY <1>4, <1>6 DEF StartService
  <2> QED BY <1>6, <2>1 DEF AudioTypeOK, StartService
<1>7. ASSUME NEW s \in Services, DestroyBegins(s) PROVE AudioTypeOK'
  BY <1>7 DEF AudioTypeOK, DestroyBegins
<1>8. ASSUME NEW s \in Services, DestroyEnds(s) PROVE AudioTypeOK'
  <2>1. CaptureTypes'
    BY <1>8, StopsTypes DEF DestroyEnds
  <2> QED BY <1>8, <2>1 DEF AudioTypeOK, DestroyEnds
<1>9. ASSUME NEW s \in Services, Forget(s) PROVE AudioTypeOK'
  BY <1>9 DEF AudioTypeOK, Forget
<1>10. ASSUME NEW c \in Captures, CaptureEnds(c) PROVE AudioTypeOK'
  BY <1>10 DEF AudioTypeOK, CaptureEnds, NoCapture
<1>11. ASSUME NEW c \in Captures, CaptureSticks(c) PROVE AudioTypeOK'
  BY <1>11 DEF AudioTypeOK, CaptureSticks
<1>12. CASE ProcessEnds
  BY <1>12 DEF AudioTypeOK, ProcessEnds, NoCapture
<1>13. CASE UNCHANGED audio
  BY <1>13 DEF AudioTypeOK, audio
<1> QED
  BY <1>1, <1>2, <1>3, <1>5, <1>6, <1>7, <1>8, <1>9, <1>10, <1>11, <1>12, <1>13
  DEF AudioStep

LEMMA PhaseTypes == \A network \in Networks : phaseFor(network) \in ConnectionPhases
BY DEF phaseFor, OfNetwork, ConnectionPhases

LEMMA AtMostFacts ==
  ASSUME NEW bound \in Nat, NEW n \in Nat
  PROVE  /\ AtMost(bound, n) \in 0..bound
         /\ \A m \in Nat : m <= n => AtMost(bound, m) <= AtMost(bound, n)
BY DEF AtMost

\* A step of the connection's part.
ConnectivityActs ==
  \/ FirstCall \/ SessionAcked \/ SessionFails \/ Reconnecting
  \/ \E network \in Networks : Observe(network)
  \/ QuietCheck \/ SoftRestart \/ Reboot \/ Elapse
  \/ ConnectivityStops \/ ConnectivityDies \/ ConnectivityStarts
  \/ UNCHANGED connectivity

LEMMA StepsOfConnection ==
  ASSUME [Next]_vars
  PROVE  ConnectivityActs
BY DEF Next, vars, ConnectivityActs, CaptureStep, ConnectionStep, Start, Stop,
       RebootPhone, Kill, Idle

LEMMA ConnectivityTypes ==
  ASSUME ConnectivityTypeOK, ConnectivityActs
  PROVE  ConnectivityTypeOK'
<1>0. Timeout \in Nat \ {0} /\ MinInterval \in Nat \ {0}
  BY ConnectivityAssumption
<1> USE DEF ConnectivityTypeOK
<1>1. CASE FirstCall \/ SessionAcked \/ SessionFails \/ Reconnecting
  BY <1>1 DEF FirstCall, SessionAcked, SessionFails, Reconnecting, StreamTo, StreamStates
<1>2. ASSUME NEW network \in Networks, Observe(network) PROVE ConnectivityTypeOK'
  BY <1>2, PhaseTypes DEF Observe
<1>3. CASE QuietCheck
  BY <1>0, <1>3 DEF QuietCheck, Darker, TimeGoesOn, AtMost
<1>4. CASE SoftRestart
  <2>1. /\ asked' = "restart" /\ sinceReboot' = 0 /\ gap' = 0 /\ unsaved' = FALSE
        /\ UNCHANGED <<streamState, firstAuthSeen, connectionPhase>>
    BY <1>4 DEF SoftRestart
  <2>2. sinceAuth' \in 0..Timeout
    BY <1>0, <1>4 DEF SoftRestart, AtMost
  <2>3. dark' \in 0..(Timeout + 1)
    BY <1>0, <1>4 DEF SoftRestart, Darker, AtMost
  <2>4. 0 \in 0..MinInterval
    BY <1>0
  <2> QED BY <2>1, <2>2, <2>3, <2>4
<1>5. ASSUME Fresh
      PROVE  /\ streamState' \in StreamStates /\ firstAuthSeen' \in BOOLEAN
             /\ connectionPhase' \in ConnectionPhases
             /\ sinceAuth' \in 0..Timeout /\ dark' \in 0..(Timeout + 1)
  <2>1. 0 \in 0..Timeout /\ 0 \in 0..(Timeout + 1)
    BY <1>0
  <2>2. /\ streamState' = "IDLE" /\ firstAuthSeen' = FALSE
        /\ connectionPhase' = "NO_NETWORK" /\ sinceAuth' = 0 /\ dark' = 0
    BY <1>5 DEF Fresh
  <2>3. "IDLE" \in StreamStates /\ "NO_NETWORK" \in ConnectionPhases
    BY DEF StreamStates, ConnectionPhases
  <2> QED BY <2>1, <2>2, <2>3
<1>10. 0 \in 0..MinInterval /\ MinInterval \in 0..MinInterval
  BY <1>0
<1>9. CASE Reboot
  <2>1. asked' \in {"nothing", "restart", "start"} /\ Fresh /\ gap' = 0
        /\ sinceReboot' \in {0, MinInterval} /\ unsaved' \in BOOLEAN
    BY <1>9 DEF Reboot
  <2> QED BY <1>5, <1>10, <2>1
<1>6. CASE Elapse
  BY <1>0, <1>6 DEF Elapse, TimeGoesOn, AtMost
<1>7. CASE ConnectivityStops \/ ConnectivityDies \/ ConnectivityStarts
  <2>1. asked' \in {"nothing", "restart", "start"} /\ Fresh /\ gap' = gap
    BY <1>7 DEF ConnectivityStops, ConnectivityDies, ConnectivityStarts
  <2>2. sinceReboot' \in {sinceReboot, MinInterval} /\ unsaved' \in {unsaved, TRUE}
    BY <1>7 DEF ConnectivityStops, ConnectivityDies, ConnectivityStarts
  <2> QED BY <1>5, <1>10, <2>1, <2>2
<1>8. CASE UNCHANGED connectivity
  BY <1>8 DEF connectivity
<1> QED BY <1>1, <1>2, <1>3, <1>4, <1>6, <1>7, <1>8, <1>9 DEF ConnectivityActs

\* A restart is asked for by a service that runs, and its end is the answer.
LEMMA RestartAnswered ==
  ASSUME TypeOK, [Next]_vars
  PROVE  (asked = "restart" => Running)'
<1>1. AudioTypeOK
  BY DEF TypeOK
<1>2. CASE CaptureStep
  <2>1. UNCHANGED asked
    BY <1>2 DEF CaptureStep, connectivity
  <2>2. \A s \in Services : service[s] = "running" => service'[s] = "running"
    BY <1>1, <1>2 DEF CaptureStep, FrameSeen, Silence, WatchdogStops, WatchdogStarts,
                    DestroyEnds, Forget, CaptureEnds, CaptureSticks, AudioTypeOK
  <2> QED BY <2>1, <2>2 DEF TypeOK, Running
<1>3. CASE ConnectionStep
  BY <1>3 DEF ConnectionStep, Running, audio
<1>4. CASE RebootPhone \/ Kill
  BY <1>4 DEF RebootPhone, Reboot, Kill, ConnectivityDies
<1>5. CASE Idle
  BY <1>5 DEF Idle, Elapse, TypeOK
<1>6. ASSUME NEW s \in Services, Start(s) PROVE (asked = "restart" => Running)'
  BY <1>6 DEF Start, ConnectivityStarts
<1>7. ASSUME NEW s \in Services, Stop(s) PROVE (asked = "restart" => Running)'
  BY <1>7 DEF Stop, ConnectivityStops
<1>8. CASE UNCHANGED vars
  BY <1>8 DEF vars, TypeOK, Running, audio, connectivity
<1> QED BY <1>2, <1>3, <1>4, <1>5, <1>6, <1>7, <1>8 DEF Next

\* Types of the service's capture and connection; a restart is asked for only
\* while a service runs.
THEOREM ServiceTypes == Spec => []TypeOK
<1>1. Init => TypeOK
  <2>1. AudioInit => AudioTypeOK
    BY DEF AudioInit, AudioTypeOK, NoCapture
  <2>2. ConnectivityInit => ConnectivityTypeOK
    <3>1. /\ 0 \in 0..Timeout /\ 0 \in 0..(Timeout + 1)
          /\ MinInterval \in 0..MinInterval
      BY ConnectivityAssumption
    <3> QED BY <3>1 DEF ConnectivityInit, ConnectivityTypeOK, StreamStates, ConnectionPhases
  <2>3. ConnectivityInit => asked # "restart"
    BY DEF ConnectivityInit
  <2> QED BY <2>1, <2>2, <2>3 DEF Init, TypeOK
<1>2. TypeOK /\ [Next]_vars => TypeOK'
  <2> SUFFICES ASSUME TypeOK, [Next]_vars PROVE TypeOK'
    OBVIOUS
  <2>1. AudioTypeOK /\ ConnectivityTypeOK
    BY DEF TypeOK
  <2>2. AudioTypeOK'
    BY <2>1, StepsOfParts, AudioTypes
  <2>3. ConnectivityTypeOK'
    BY <2>1, StepsOfConnection, ConnectivityTypes
  <2> QED BY <2>2, <2>3, RestartAnswered DEF TypeOK
<1> QED BY <1>1, <1>2, PTL DEF Spec

-----------------------------------------------------------------------------
(* Captures *)

\* A service whose producer is stopped has no capture but a cancelled one.
LEMMA StoppedHasNone ==
  ASSUME AudioTypeOK, OneCapture, NEW s \in Services, ProducerStops(s)
  PROVE  /\ Uncancelled(s)' = {}
         /\ \A x \in Services : Uncancelled(x)' \subseteq Uncancelled(x)
         /\ \A x \in Services : x # s => captureJob'[x] = captureJob[x]
         /\ captureJob'[s] = {}
         /\ \A c \in Captures : capture'[c].of = capture[c].of
<1>1. captureJob[s] \in SUBSET Captures
  BY DEF AudioTypeOK
<1>2. capture' = Cancelled(captureJob[s])
      /\ captureJob' = [captureJob EXCEPT ![s] = {}]
  BY DEF ProducerStops
<1>3. \A c \in Captures :
        /\ capture'[c].of = capture[c].of
        /\ capture'[c].phase \in {capture[c].phase, "cancelled"}
        /\ c \in captureJob[s] => capture'[c].phase \in {"none", "cancelled"}
  BY <1>1, <1>2, CancelledFacts
<1>4. \A x \in Services : Uncancelled(x)' \subseteq Uncancelled(x)
  BY <1>3 DEF Uncancelled
<1>5. Uncancelled(s)' = {}
  BY <1>3, <1>4 DEF Uncancelled, OneCapture
<1> QED BY <1>2, <1>3, <1>4, <1>5 DEF AudioTypeOK

\* A service that begins a capture had none before.
LEMMA BegunIsAlone ==
  ASSUME AudioTypeOK, OneCapture, NEW s \in Services, NEW c \in Captures, Begin(s, c),
         \A d \in captureJob[s] : capture[d].phase = "none"
  PROVE  /\ Uncancelled(s)' = {c} /\ captureJob'[s] = {c}
         /\ \A x \in Services : x # s =>
              Uncancelled(x)' = Uncancelled(x) /\ captureJob'[x] = captureJob[x]
         /\ capture'[c].of = {s}
         /\ \A d \in Captures : d # c => capture'[d].of = capture[d].of
<1>1. /\ capture' = [capture EXCEPT ![c] = [phase |-> "reading", of |-> {s}]]
      /\ captureJob' = [captureJob EXCEPT ![s] = {c}]
      /\ capture[c].phase = "none"
  BY DEF Begin
<1>2. /\ capture'[c] = [phase |-> "reading", of |-> {s}]
      /\ \A d \in Captures : d # c => capture'[d] = capture[d]
  BY <1>1 DEF AudioTypeOK
<1>3. captureJob'[s] = {c} /\ \A x \in Services : x # s => captureJob'[x] = captureJob[x]
  BY <1>1 DEF AudioTypeOK
<1>4. Uncancelled(s) = {}
  BY DEF OneCapture, Uncancelled
<1>5. Uncancelled(s)' = {c}
  BY <1>2, <1>4 DEF Uncancelled
<1>6. ASSUME NEW x \in Services, x # s PROVE Uncancelled(x)' = Uncancelled(x)
  BY <1>1, <1>2, <1>6 DEF Uncancelled
<1> QED BY <1>2, <1>3, <1>5, <1>6

LEMMA EndingFacts ==
  ASSUME AudioTypeOK, NEW c \in Captures, CaptureEnds(c) \/ CaptureSticks(c)
  PROVE  /\ \A d \in Captures : capture'[d].of \in {{}, capture[d].of}
         /\ \A x \in Services : Uncancelled(x)' \subseteq Uncancelled(x)
<1>1. CASE CaptureEnds(c)
  <2>1. capture' = [capture EXCEPT ![c] = NoCapture]
    BY <1>1 DEF CaptureEnds
  <2>2. capture'[c] = NoCapture /\ \A d \in Captures : d # c => capture'[d] = capture[d]
    BY <2>1 DEF AudioTypeOK
  <2> QED BY <2>2 DEF NoCapture, Uncancelled
<1>2. CASE CaptureSticks(c)
  <2>1. capture' = [capture EXCEPT ![c].phase = "stuck"] /\ capture[c].phase = "reading"
    BY <1>2 DEF CaptureSticks
  <2>2. /\ capture'[c] = [capture[c] EXCEPT !.phase = "stuck"]
        /\ \A d \in Captures : d # c => capture'[d] = capture[d]
    BY <2>1 DEF AudioTypeOK
  <2>3. capture'[c].of = capture[c].of
    BY <2>2 DEF AudioTypeOK
  <2> QED BY <2>1, <2>2, <2>3 DEF Uncancelled
<1> QED BY <1>1, <1>2

\* The producer's part of the invariant.
ProducerInv == OneCapture /\ OneJob /\ OneOwner

LEMMA StopsKeeps ==
  ASSUME AudioTypeOK, ProducerInv, NEW s \in Services, ProducerStops(s)
  PROVE  ProducerInv'
BY StoppedHasNone DEF ProducerInv, OneCapture, OneJob, OneOwner

LEMMA StartsKeeps ==
  ASSUME AudioTypeOK, ProducerInv, NEW s \in Services, ProducerStarts(s) \/ StartFails
  PROVE  ProducerInv'
<1>1. CASE UNCHANGED <<capture, captureJob, isActive>>
  BY <1>1 DEF ProducerInv, OneCapture, OneJob, OneOwner, Uncancelled
<1>2. ASSUME NEW c \in Captures, Begin(s, c),
             \A d \in captureJob[s] : capture[d].phase = "none"
      PROVE  ProducerInv'
  <2>1. OneCapture
    BY DEF ProducerInv
  <2>2. OneCapture' /\ OneJob'
    BY <1>2, <2>1, BegunIsAlone DEF ProducerInv, OneCapture, OneJob
  <2>3. OneOwner'
    BY <1>2, <2>1, BegunIsAlone DEF ProducerInv, OneOwner
  <2> QED BY <2>2, <2>3 DEF ProducerInv
<1> QED BY <1>1, <1>2, StartsFacts

LEMMA ProducerStep ==
  ASSUME AudioTypeOK, ProducerInv, AudioStep
  PROVE  ProducerInv'
<1>1. ASSUME NEW s \in Services, FrameSeen(s) \/ Silence(s) \/ DestroyBegins(s)
      PROVE  ProducerInv'
  BY <1>1 DEF FrameSeen, Silence, DestroyBegins, ProducerInv, OneCapture, OneJob, OneOwner,
              Uncancelled
<1>2. ASSUME NEW s \in Services, WatchdogStops(s) \/ DestroyEnds(s) PROVE ProducerInv'
  BY <1>2, StopsKeeps DEF WatchdogStops, DestroyEnds
<1>3. ASSUME NEW s \in Services, WatchdogStarts(s) \/ StartService(s) PROVE ProducerInv'
  BY <1>3, StartsKeeps DEF WatchdogStarts, StartService
<1>4. ASSUME NEW s \in Services, Forget(s) PROVE ProducerInv'
  <2>1. UNCHANGED capture /\ captureJob' = [captureJob EXCEPT ![s] = {}]
        /\ \A c \in Captures : s \notin capture[c].of
    BY <1>4 DEF Forget
  <2>2. Uncancelled(s) = {}
    BY <2>1 DEF Uncancelled
  <2> QED BY <2>1, <2>2 DEF ProducerInv, OneCapture, OneJob, OneOwner, Uncancelled, AudioTypeOK
<1>5. ASSUME NEW c \in Captures, CaptureEnds(c) \/ CaptureSticks(c) PROVE ProducerInv'
  <2>1. UNCHANGED captureJob
    BY <1>5 DEF CaptureEnds, CaptureSticks
  <2> QED BY <1>5, <2>1, EndingFacts DEF ProducerInv, OneCapture, OneJob, OneOwner
<1>6. CASE ProcessEnds
  BY <1>6 DEF ProcessEnds, NoCapture, ProducerInv, OneCapture, OneJob, OneOwner, Uncancelled
<1>7. CASE UNCHANGED audio
  BY <1>7 DEF audio, ProducerInv, OneCapture, OneJob, OneOwner, Uncancelled
<1> QED BY <1>1, <1>2, <1>3, <1>4, <1>5, <1>6, <1>7 DEF AudioStep

LEMMA WatchdogStep ==
  ASSUME AudioTypeOK, WatchdogFollows, AudioStep
  PROVE  WatchdogFollows'
<1>1. ASSUME NEW s \in Services,
             \/ FrameSeen(s) \/ Silence(s) \/ WatchdogStops(s) \/ WatchdogStarts(s)
             \/ StartService(s) \/ DestroyBegins(s) \/ DestroyEnds(s) \/ Forget(s)
      PROVE  WatchdogFollows'
  <2>1. \A x \in Services :
          x # s => /\ watchdog'[x] = watchdog[x] /\ service'[x] = service[x]
                   /\ x \in overtaken' <=> x \in overtaken
    BY <1>1 DEF AudioTypeOK, FrameSeen, Silence, WatchdogStops, WatchdogStarts,
                StartService, DestroyBegins, DestroyEnds, Forget
  <2>2. /\ watchdog'[s] \in {"waiting", "restarting"} => service'[s] = "running"
        /\ watchdog'[s] = "leaving" /\ service'[s] = "stopped" => s \in overtaken'
        /\ service'[s] = "none" => watchdog'[s] = "off"
    BY <1>1 DEF AudioTypeOK, WatchdogFollows, FrameSeen, Silence, WatchdogStops,
                WatchdogStarts, StartService, DestroyBegins, DestroyEnds, Forget
  <2>3. ASSUME NEW x \in Services
        PROVE  /\ watchdog'[x] \in {"waiting", "restarting"} => service'[x] = "running"
               /\ watchdog'[x] = "leaving" /\ service'[x] = "stopped" => x \in overtaken'
               /\ service'[x] = "none" => watchdog'[x] = "off"
    <3>1. CASE x = s
      BY <2>2, <3>1
    <3>2. CASE x # s
      BY <2>1, <3>2 DEF WatchdogFollows
    <3> QED BY <3>1, <3>2
  <2> QED BY <2>3 DEF WatchdogFollows
<1>2. ASSUME NEW c \in Captures, CaptureEnds(c) \/ CaptureSticks(c)
      PROVE  WatchdogFollows'
  BY <1>2 DEF CaptureEnds, CaptureSticks, WatchdogFollows
<1>3. CASE ProcessEnds
  BY <1>3 DEF ProcessEnds, WatchdogFollows
<1>4. CASE UNCHANGED audio
  BY <1>4 DEF audio, WatchdogFollows
<1> QED BY <1>1, <1>2, <1>3, <1>4 DEF AudioStep

LEMMA ListeningStep ==
  ASSUME AudioTypeOK, ProducerInv, WatchdogFollows, NoneListens, AudioStep
  PROVE  NoneListens'
<1>0. OneCapture
  BY DEF ProducerInv
<1> DEFINE Listens(s) == service[s] = "stopped" /\ Uncancelled(s) # {} => s \in overtaken
<1>1. ASSUME NEW s \in Services, FrameSeen(s) \/ Silence(s) \/ DestroyBegins(s)
      PROVE  NoneListens'
  <2>1. /\ UNCHANGED <<capture, overtaken>>
        /\ \A x \in Services : service'[x] = "stopped" => service[x] = "stopped"
    BY <1>1 DEF FrameSeen, Silence, DestroyBegins, AudioTypeOK
  <2> QED BY <2>1 DEF NoneListens, Uncancelled
<1>2. ASSUME NEW s \in Services, WatchdogStops(s) PROVE NoneListens'
  <2>1. UNCHANGED <<service, overtaken>>
    BY <1>2 DEF WatchdogStops
  <2>2. \A x \in Services : Uncancelled(x)' \subseteq Uncancelled(x)
    BY <1>0, <1>2, StoppedHasNone DEF WatchdogStops
  <2> QED BY <2>1, <2>2 DEF NoneListens
<1>3. ASSUME NEW s \in Services, DestroyEnds(s) PROVE NoneListens'
  <2>1. overtaken \subseteq overtaken' /\ \A x \in Services : x # s => service'[x] = service[x]
    BY <1>3 DEF DestroyEnds, AudioTypeOK
  <2>2. /\ \A x \in Services : Uncancelled(x)' \subseteq Uncancelled(x)
        /\ Uncancelled(s)' = {}
    BY <1>0, <1>3, StoppedHasNone DEF DestroyEnds
  <2>3. ASSUME NEW x \in Services PROVE Listens(x)'
    BY <2>1, <2>2 DEF NoneListens
  <2> QED BY <2>3 DEF NoneListens
<1>4. ASSUME NEW s \in Services, WatchdogStarts(s) \/ StartService(s) PROVE NoneListens'
  <2>1. \A x \in Services : x # s => service'[x] = service[x]
    BY <1>4 DEF WatchdogStarts, StartService, AudioTypeOK
  <2>2. \A x \in Services : x # s => Uncancelled(x)' = Uncancelled(x)
    <3>1. ProducerStarts(s) \/ StartFails
      BY <1>4 DEF WatchdogStarts, StartService
    <3>2. CASE UNCHANGED <<capture, captureJob, isActive>>
      BY <3>2 DEF Uncancelled
    <3> QED BY <1>0, <3>1, <3>2, StartsFacts, BegunIsAlone
  <2>3. UNCHANGED overtaken
    BY <1>4 DEF WatchdogStarts, StartService
  <2>4. service'[s] = "stopped" => s \in overtaken
    BY <1>4 DEF WatchdogStarts, StartService, AudioTypeOK, WatchdogFollows
  <2>5. ASSUME NEW x \in Services PROVE Listens(x)'
    BY <2>1, <2>2, <2>3, <2>4 DEF NoneListens
  <2> QED BY <2>5 DEF NoneListens
<1>5. ASSUME NEW s \in Services, Forget(s) PROVE NoneListens'
  <2>1. /\ UNCHANGED capture /\ overtaken' = overtaken \ {s}
        /\ service'[s] = "none" /\ \A x \in Services : x # s => service'[x] = service[x]
    BY <1>5 DEF Forget, AudioTypeOK
  <2>2. ASSUME NEW x \in Services PROVE Listens(x)'
    BY <2>1 DEF NoneListens, Uncancelled
  <2> QED BY <2>2 DEF NoneListens
<1>6. ASSUME NEW c \in Captures, CaptureEnds(c) \/ CaptureSticks(c) PROVE NoneListens'
  <2>1. UNCHANGED <<service, overtaken>>
    BY <1>6 DEF CaptureEnds, CaptureSticks
  <2> QED BY <1>6, <2>1, EndingFacts DEF NoneListens
<1>7. CASE ProcessEnds
  BY <1>7 DEF ProcessEnds, NoneListens
<1>8. CASE UNCHANGED audio
  BY <1>8 DEF audio, NoneListens, Uncancelled
<1> QED BY <1>1, <1>2, <1>3, <1>4, <1>5, <1>6, <1>7, <1>8 DEF AudioStep

LEMMA InstanceStep ==
  ASSUME AudioTypeOK, ProducerInv, WatchdogFollows, OneInstance, AudioStep
  PROVE  OneInstance'
<1>0. OneCapture
  BY DEF ProducerInv
<1> DEFINE Traceless == \A s \in Services, c \in Captures :
                          service[s] = "none" => s \notin capture[c].of
           Single == \A s, x \in Services : Up(s) /\ Up(x) => s = x
<1>1. ASSUME NEW s \in Services, FrameSeen(s) \/ Silence(s) \/ WatchdogStops(s)
      PROVE  OneInstance'
  <2>1. UNCHANGED service
    BY <1>1 DEF FrameSeen, Silence, WatchdogStops
  <2>2. \A c \in Captures : capture'[c].of = capture[c].of
    BY <1>0, <1>1, StoppedHasNone DEF FrameSeen, Silence, WatchdogStops
  <2> QED BY <2>1, <2>2 DEF OneInstance, Up
<1>2. ASSUME NEW s \in Services, DestroyBegins(s) \/ DestroyEnds(s) PROVE OneInstance'
  <2>1. /\ Up(s) /\ service'[s] # "none"
        /\ \A x \in Services : x # s => service'[x] = service[x]
    BY <1>2 DEF DestroyBegins, DestroyEnds, AudioTypeOK, Up
  <2>2. \A c \in Captures : capture'[c].of = capture[c].of
    BY <1>0, <1>2, StoppedHasNone DEF DestroyBegins, DestroyEnds
  <2>3. Traceless'
    BY <2>1, <2>2 DEF OneInstance
  <2>4. \A x \in Services : Up(x)' => Up(x)
    BY <2>1 DEF Up
  <2> QED BY <2>3, <2>4 DEF OneInstance
<1>3. ASSUME NEW s \in Services, WatchdogStarts(s) \/ StartService(s) PROVE OneInstance'
  <2>1. /\ service'[s] # "none"
        /\ \A x \in Services : x # s => service'[x] = service[x]
    BY <1>3 DEF WatchdogStarts, StartService, AudioTypeOK, WatchdogFollows
  <2>2. \A c \in Captures : capture'[c].of \in {{s}, capture[c].of}
    <3>1. ProducerStarts(s) \/ StartFails
      BY <1>3 DEF WatchdogStarts, StartService
    <3>2. CASE UNCHANGED <<capture, captureJob, isActive>>
      BY <3>2
    <3> QED BY <1>0, <3>1, <3>2, StartsFacts, BegunIsAlone
  <2>3. Traceless'
    BY <2>1, <2>2 DEF OneInstance
  <2>4. Single'
    BY <1>3, <2>1 DEF WatchdogStarts, StartService, OneInstance, Up
  <2> QED BY <2>3, <2>4 DEF OneInstance
<1>4. ASSUME NEW s \in Services, Forget(s) PROVE OneInstance'
  <2>1. /\ UNCHANGED capture /\ service'[s] = "none"
        /\ \A x \in Services : x # s => service'[x] = service[x]
        /\ \A c \in Captures : s \notin capture[c].of
    BY <1>4 DEF Forget, AudioTypeOK
  <2>2. Traceless'
    BY <2>1 DEF OneInstance
  <2>3. \A x \in Services : Up(x)' => Up(x)
    BY <2>1 DEF Up
  <2> QED BY <2>2, <2>3 DEF OneInstance
<1>5. ASSUME NEW c \in Captures, CaptureEnds(c) \/ CaptureSticks(c) PROVE OneInstance'
  <2>1. UNCHANGED service
    BY <1>5 DEF CaptureEnds, CaptureSticks
  <2> QED BY <1>5, <2>1, EndingFacts DEF OneInstance, Up
<1>6. CASE ProcessEnds
  BY <1>6 DEF ProcessEnds, OneInstance, Up, NoCapture
<1>7. CASE UNCHANGED audio
  BY <1>7 DEF audio, OneInstance, Up
<1> QED BY <1>1, <1>2, <1>3, <1>4, <1>5, <1>6, <1>7 DEF AudioStep

LEMMA CaptureInvariant == Spec => []CaptureInv
<1>1. Init => CaptureInv
  BY DEF Init, AudioInit, NoCapture, CaptureInv, OneCapture, NoneListens, OneJob, OneOwner,
         WatchdogFollows, OneInstance, Up, Uncancelled
<1>2. TypeOK /\ CaptureInv /\ [Next]_vars => CaptureInv'
  <2> SUFFICES ASSUME TypeOK, CaptureInv, [Next]_vars PROVE CaptureInv'
    OBVIOUS
  <2>1. AudioTypeOK /\ AudioStep
    BY StepsOfParts DEF TypeOK
  <2>2. ProducerInv /\ WatchdogFollows /\ NoneListens /\ OneInstance
    BY DEF CaptureInv, ProducerInv
  <2>3. ProducerInv'
    BY <2>1, <2>2, ProducerStep
  <2>4. WatchdogFollows' /\ NoneListens' /\ OneInstance'
    BY <2>1, <2>2, WatchdogStep, ListeningStep, InstanceStep
  <2> QED BY <2>3, <2>4 DEF CaptureInv, ProducerInv
<1> QED BY <1>1, <1>2, ServiceTypes, PTL DEF Spec

\* A service has hold of each of its captures that is not on its way out,
\* whatever its flag says (AudioFrameProducer.kt: start, stop and the finally
\* clause of a cancelled capture).
THEOREM CapturesAreHeld == Spec => []OneCapture
<1>1. CaptureInv => OneCapture
  BY DEF CaptureInv
<1> QED BY <1>1, CaptureInvariant, PTL

\* Nobody listens after a service has stopped, unless its end overtook the
\* watchdog between stop and start (AudioCaptureService.kt: onDestroy).
THEOREM StoppedServicesAreDeaf == Spec => []NoneListens
<1>1. CaptureInv => NoneListens
  BY DEF CaptureInv
<1> QED BY <1>1, CaptureInvariant, PTL

\* One capture at most listens on the phone (AudioFrameProducer.kt: start;
\* AudioCaptureService.kt: onDestroy stops the watchdog and the producer).
THEOREM OneCaptureListens == Spec => []OneMicrophone
<1>1. TypeOK /\ CaptureInv => OneMicrophone
  <2> SUFFICES ASSUME TypeOK, CaptureInv,
                      NEW s \in Services \ overtaken, NEW x \in Services \ overtaken,
                      NEW c \in Uncancelled(s), NEW d \in Uncancelled(x)
               PROVE  c = d /\ s = x
    BY DEF OneMicrophone
  <2>1. Up(s) /\ Up(x)
    BY DEF TypeOK, AudioTypeOK, CaptureInv, NoneListens, OneInstance, Uncancelled, Up
  <2>2. s = x
    BY <2>1 DEF CaptureInv, OneInstance
  <2> QED BY <2>2 DEF CaptureInv, OneCapture, OneJob
<1> QED BY <1>1, CaptureInvariant, ServiceTypes, PTL

-----------------------------------------------------------------------------
(* Reboots *)

LEMMA StampStep ==
  ASSUME ConnectivityTypeOK, StampInv, ConnectivityActs
  PROVE  StampInv'
<1>0. /\ MinInterval \in Nat \ {0} /\ Timeout \in Nat \ {0}
      /\ sinceReboot \in 0..MinInterval /\ gap \in 0..MinInterval
  BY ConnectivityAssumption DEF ConnectivityTypeOK
<1>1. CASE TimeGoesOn /\ UNCHANGED unsaved
  BY <1>0, <1>1 DEF TimeGoesOn, AtMost, StampInv
<1>2. CASE UNCHANGED <<sinceReboot, gap, unsaved>>
  BY <1>2 DEF StampInv
<1>3. CASE SoftRestart \/ Reboot \/ ConnectivityDies
  BY <1>3 DEF SoftRestart, Reboot, ConnectivityDies, StampInv
<1> QED
  BY <1>1, <1>2, <1>3
  DEF ConnectivityActs, FirstCall, SessionAcked, SessionFails, Reconnecting, StreamTo,
      Observe, QuietCheck, Elapse, ConnectivityStops, ConnectivityStarts, connectivity

LEMMA RebootStep ==
  ASSUME ConnectivityTypeOK, StampInv, ConnectivityActs, Rebooting
  PROVE  gap + 1 >= MinInterval \/ unsaved
<1>0. /\ MinInterval \in Nat \ {0} /\ sinceReboot \in 0..MinInterval
      /\ gap \in 0..MinInterval /\ gap' = 0 /\ gap # 0
  BY ConnectivityAssumption DEF ConnectivityTypeOK, Rebooting
<1>1. Overdue
  <2>1. ~TimeGoesOn
    BY <1>0 DEF TimeGoesOn, AtMost
  <2> QED
    BY <1>0, <2>1
    DEF ConnectivityActs, FirstCall, SessionAcked, SessionFails, Reconnecting, StreamTo,
        Observe, QuietCheck, SoftRestart, Reboot, Elapse, ConnectivityStops,
        ConnectivityDies, ConnectivityStarts, connectivity
<1> QED BY <1>0, <1>1 DEF Overdue, StampInv

\* Two reboots or restarts are MinInterval apart, whatever processes end in
\* between, unless the stamp of the first was lost (ConnectivityWatchdog.kt:
\* triggerReboot).
THEOREM RebootsAreApart == Spec => RebootsApart
<1>1. Init => StampInv
  BY ConnectivityAssumption DEF Init, ConnectivityInit, StampInv
<1>2. TypeOK /\ StampInv /\ [Next]_vars => StampInv'
  BY StepsOfConnection, StampStep DEF TypeOK
<1>3. TypeOK /\ StampInv /\ [Next]_vars
        => [Rebooting => gap + 1 >= MinInterval \/ unsaved]_vars
  BY StepsOfConnection, RebootStep DEF TypeOK
<1> QED BY <1>1, <1>2, <1>3, ServiceTypes, PTL DEF Spec, RebootsApart
=============================================================================
