----------------------------- MODULE AudioCapture -----------------------------
(***************************************************************************)
(* AudioCaptureService, the AudioFrameProducer it owns and the watchdog    *)
(* that restarts the producer.                                             *)
(*                                                                         *)
(* A capture is a coroutine that reads the microphone.  To cancel it does  *)
(* not wait for its end: it may still be in a read, and clears isActive    *)
(* when it gets out, whoever captures by then.  The service is destroyed   *)
(* on the main thread while its watchdog may be at work on another one;    *)
(* the next service has a producer and a watchdog of its own.              *)
(***************************************************************************)
EXTENDS Naturals

CONSTANTS
  Services,         \* service instances; one is used again when all of it is gone
  Captures          \* capture coroutines, used again when they have ended

VARIABLES
  service,          \* "none", "running", "stopping" or "stopped"
  captureJob,       \* producer: the capture it refers to, or {}
  isActive,         \* producer: the flag
  watchdog,         \* "off", "waiting" or "restarting"; "leaving": cancelled in it
  recent,           \* watchdog: a frame came less than frameStallThresholdMs ago
  capture,          \* "none", "reading", "stuck" or "cancelled", and whose
  overtaken         \* services whose end overtook a restart

audio == <<service, captureJob, isActive, watchdog, recent, capture, overtaken>>

NoCapture == [phase |-> "none", of |-> {}]

AudioInit ==
  /\ service = [s \in Services |-> "none"]
  /\ captureJob = [s \in Services |-> {}]
  /\ isActive = [s \in Services |-> FALSE]
  /\ watchdog = [s \in Services |-> "off"]
  /\ recent = [s \in Services |-> FALSE]
  /\ capture = [c \in Captures |-> NoCapture]
  /\ overtaken = {}

Up(s) == service[s] \in {"running", "stopping"}

ReadingFor(s) == {c \in Captures : capture[c] = [phase |-> "reading", of |-> {s}]}

-----------------------------------------------------------------------------
(* AudioFrameProducer *)

Begin(s, c) ==
  /\ capture[c].phase = "none"
  /\ capture' = [capture EXCEPT ![c] = [phase |-> "reading", of |-> {s}]]
  /\ captureJob' = [captureJob EXCEPT ![s] = {c}]
  /\ isActive' = [isActive EXCEPT ![s] = TRUE]

\* start: no second capture beside one that runs.
ProducerStarts(s) ==
  IF \E c \in captureJob[s] : capture[c].phase # "none"
  THEN UNCHANGED <<capture, captureJob, isActive>>
  ELSE \E c \in Captures : Begin(s, c)

\* No permission, or the AudioRecord does not initialise.
StartFails == UNCHANGED <<capture, captureJob, isActive>>

Cancelled(jobs) ==
  [c \in Captures |-> IF c \in jobs /\ capture[c].phase # "none"
                      THEN [capture[c] EXCEPT !.phase = "cancelled"]
                      ELSE capture[c]]

\* Mutant: nothing to stop if it is not active.
StopIfActive(s) ==
  /\ capture' = IF isActive[s] THEN Cancelled(captureJob[s]) ELSE capture
  /\ captureJob' = [captureJob EXCEPT ![s] = {}]
  /\ isActive' = [isActive EXCEPT ![s] = FALSE]

\* stop: cancels the capture and releases the microphone under it.
ProducerStops(s) ==
  /\ capture' = Cancelled(captureJob[s])
  /\ captureJob' = [captureJob EXCEPT ![s] = {}]
  /\ isActive' = [isActive EXCEPT ![s] = FALSE]

\* A read fails, or a cancelled capture gets out of its last one.
CaptureEnds(c) ==
  /\ capture[c].phase \in {"reading", "cancelled"}
  /\ capture' = [capture EXCEPT ![c] = NoCapture]
  /\ isActive' = [s \in Services |-> IF s \in capture[c].of THEN FALSE ELSE isActive[s]]
  /\ UNCHANGED <<service, captureJob, watchdog, recent, overtaken>>

\* The microphone gives nothing any more, and no error either.
CaptureSticks(c) ==
  /\ capture[c].phase = "reading"
  /\ capture' = [capture EXCEPT ![c].phase = "stuck"]
  /\ UNCHANGED <<service, captureJob, isActive, watchdog, recent, overtaken>>

-----------------------------------------------------------------------------
(* AudioWatchdog *)

\* frames.collect, and ten seconds without a frame.
FrameSeen(s) ==
  /\ ReadingFor(s) # {} /\ ~recent[s] /\ watchdog[s] # "off"
  /\ recent' = [recent EXCEPT ![s] = TRUE]
  /\ UNCHANGED <<service, captureJob, isActive, watchdog, capture, overtaken>>

Silence(s) ==
  /\ ReadingFor(s) = {} /\ recent[s]
  /\ recent' = [recent EXCEPT ![s] = FALSE]
  /\ UNCHANGED <<service, captureJob, isActive, watchdog, capture, overtaken>>

\* Mutant: trusts the flag.
Inactive(s) == ~isActive[s]

NeedsRestart(s) == ~isActive[s] \/ ~recent[s]

\* producer.stop, ...
WatchdogStops(s) ==
  /\ watchdog[s] = "waiting" /\ NeedsRestart(s)
  /\ watchdog' = [watchdog EXCEPT ![s] = "restarting"]
  /\ ProducerStops(s)
  /\ UNCHANGED <<service, recent, overtaken>>

\* ... and producer.start, without a look at whether it was cancelled.
WatchdogStarts(s) ==
  /\ watchdog[s] \in {"restarting", "leaving"}
  /\ ProducerStarts(s) \/ StartFails
  /\ recent' = [recent EXCEPT ![s] = watchdog[s] = "restarting"]
  /\ watchdog' = [watchdog EXCEPT ![s] = IF @ = "leaving" THEN "off" ELSE "waiting"]
  /\ UNCHANGED <<service, overtaken>>

-----------------------------------------------------------------------------
(* AudioCaptureService *)

\* Android runs one instance at a time.
StartService(s) ==
  /\ service[s] = "none" /\ ~\E x \in Services : Up(x)
  /\ service' = [service EXCEPT ![s] = "running"]
  /\ ProducerStarts(s) \/ StartFails
  /\ watchdog' = [watchdog EXCEPT ![s] = "waiting"]
  /\ recent' = [recent EXCEPT ![s] = TRUE]
  /\ UNCHANGED overtaken

\* onDestroy: first the watchdog, ...
DestroyBegins(s) ==
  /\ service[s] = "running"
  /\ service' = [service EXCEPT ![s] = "stopping"]
  /\ watchdog' = [watchdog EXCEPT ![s] = IF @ = "restarting" THEN "leaving" ELSE "off"]
  /\ recent' = [recent EXCEPT ![s] = FALSE]
  /\ UNCHANGED <<captureJob, isActive, capture, overtaken>>

\* Mutant: the producer is left alone if its flag says that it is not active.
DestroyActive(s) ==
  /\ service[s] = "stopping"
  /\ service' = [service EXCEPT ![s] = "stopped"]
  /\ StopIfActive(s)
  /\ overtaken' = IF watchdog[s] = "leaving" THEN overtaken \cup {s} ELSE overtaken
  /\ UNCHANGED <<watchdog, recent>>

\* ... then the producer.
DestroyEnds(s) ==
  /\ service[s] = "stopping"
  /\ service' = [service EXCEPT ![s] = "stopped"]
  /\ ProducerStops(s)
  /\ overtaken' = IF watchdog[s] = "leaving" THEN overtaken \cup {s} ELSE overtaken
  /\ UNCHANGED <<watchdog, recent>>

\* Nothing of the instance is left.
Forget(s) ==
  /\ service[s] = "stopped" /\ watchdog[s] = "off"
  /\ \A c \in Captures : s \notin capture[c].of
  /\ service' = [service EXCEPT ![s] = "none"]
  /\ captureJob' = [captureJob EXCEPT ![s] = {}]
  /\ overtaken' = overtaken \ {s}
  /\ UNCHANGED <<isActive, watchdog, recent, capture>>

AudioNext ==
  \/ \E s \in Services :
       \/ FrameSeen(s) \/ Silence(s) \/ WatchdogStops(s) \/ WatchdogStarts(s)
       \/ StartService(s) \/ DestroyBegins(s) \/ DestroyEnds(s) \/ Forget(s)
  \/ \E c \in Captures : CaptureEnds(c) \/ CaptureSticks(c)

AudioTypeOK ==
  /\ service \in [Services -> {"none", "running", "stopping", "stopped"}]
  /\ captureJob \in [Services -> SUBSET Captures]
  /\ isActive \in [Services -> BOOLEAN] /\ recent \in [Services -> BOOLEAN]
  /\ watchdog \in [Services -> {"off", "waiting", "restarting", "leaving"}]
  /\ capture \in [Captures -> [phase : {"none", "reading", "stuck", "cancelled"},
                               of : SUBSET Services]]
  /\ overtaken \subseteq Services
=============================================================================
