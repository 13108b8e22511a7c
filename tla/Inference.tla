------------------------------ MODULE Inference ------------------------------
(***************************************************************************)
(* The inference workers: frames from a Redis stream, scores and cooldowns *)
(* per device in Redis, detection events out.                              *)
(*                                                                         *)
(* The workers form one consumer group; any of them may get any frame of   *)
(* any device.  A worker handles one frame at a time and decides on the    *)
(* window its own append returned, while others append, fire and clear.    *)
(* A worker dies, or hangs on a dropped socket, whenever it likes.         *)
(***************************************************************************)
EXTENDS Naturals, Sequences, FiniteSets, SequencesExt

CONSTANTS
  Workers,
  Devices,
  Frames,
  DeviceOf,         \* the device a frame is from
  TimeOf,           \* its capture time
  SecondsOf,        \* the audio it holds
  Over,             \* frames that score detection_threshold or more
  Confounded,       \* frames with a confounder over its threshold
  StreamMax,        \* frame_stream_maxlen of the gateway
  BatchMax,         \* read_batch_size
  BufferSize,       \* score_buffer_size
  GateSeconds,      \* min_seconds_over_threshold
  ChronicWindow,    \* chronic_window_seconds
  ChronicThreshold  \* chronic_alert_threshold

ASSUME FrameAssumption ==
  /\ DeviceOf \in [Frames -> Devices]
  /\ TimeOf \in [Frames -> Nat] /\ SecondsOf \in [Frames -> Nat]
  /\ {Over, Confounded} \subseteq SUBSET Frames
ASSUME LimitAssumption ==
  /\ {StreamMax, BatchMax, BufferSize, GateSeconds} \subseteq Nat \ {0}
  /\ {ChronicWindow, ChronicThreshold} \subseteq Nat \ {0}

VARIABLES
  entry,            \* what the group knows of each frame
  stream,           \* entries not yet delivered, oldest first
  worker,           \* the processes
  scores,           \* scores:{device}, newest first
  cooldown,         \* devices with an alert_suppression:{device} key
  fires,            \* fires:{device}, the capture times in the sorted set
  reported,         \* events that reached the topic or the audit collection
  fired             \* frames whose fire was recorded

vars == <<entry, stream, worker, scores, cooldown, fires, reported, fired>>

\* suppression_reason; "" is a live detection.
Reasons == {"", "chronic", "cooldown", "audioset_veto"}

Processes == [phase    : {"read", "score", "check", "record", "mark", "report",
                          "ack", "hung"},
              batch    : Seq(Frames),
              evidence : SUBSET Frames,
              reason   : Reasons]

Idle == [phase |-> "read", batch |-> <<>>, evidence |-> {}, reason |-> ""]

Events == [worker : Workers, frame : Frames, evidence : SUBSET Frames,
           reason : Reasons]

Init ==
  /\ entry = [f \in Frames |-> "new"]
  /\ stream = <<>>
  /\ worker = [w \in Workers |-> Idle]
  /\ scores = [d \in Devices |-> <<>>]
  /\ cooldown = {} /\ fires = [d \in Devices |-> {}]
  /\ reported = {} /\ fired = {}

\* The frame w is at, and its device.
Frame(w) == Head(worker[w].batch)
Device(w) == DeviceOf[Frame(w)]

At(w, phase) == worker[w].phase = phase

\* w goes on to `phase`.
Go(w, phase) == worker' = [worker EXCEPT ![w].phase = phase]

\* The frame of w is done with, one way or the other.
NextFrame(w) ==
  worker' = [worker EXCEPT ![w] =
    LET rest == Tail(worker[w].batch)
    IN  [Idle EXCEPT !.batch = rest,
                     !.phase = IF rest = <<>> THEN "read" ELSE "score"]]

-----------------------------------------------------------------------------
(* The stream and the consumer group *)

\* publish_frame of a gateway.  The stream is trimmed, roughly, to StreamMax
\* entries; an entry trimmed before it was delivered is gone.
Arrive(f) ==
  /\ entry[f] = "new"
  /\ \/ /\ stream' = Append(stream, f)
        /\ entry' = [entry EXCEPT ![f] = "stream"]
     \/ /\ Len(stream) >= StreamMax
        /\ stream' = Append(Tail(stream), f)
        /\ entry' = [entry EXCEPT ![f] = "stream", ![Head(stream)] = "trimmed"]
  /\ UNCHANGED <<worker, scores, cooldown, fires, reported, fired>>

BatchLength == IF Len(stream) < BatchMax THEN Len(stream) ELSE BatchMax

\* XREADGROUP with ">": entries never delivered to anyone before.
Read(w) ==
  /\ At(w, "read") /\ stream # <<>>
  /\ LET batch == SubSeq(stream, 1, BatchLength)
     IN /\ worker' = [worker EXCEPT ![w] = [Idle EXCEPT !.phase = "score",
                                                        !.batch = batch]]
        /\ entry' = [f \in Frames |-> IF f \in Range(batch) THEN "pending"
                                                            ELSE entry[f]]
  /\ stream' = SubSeq(stream, BatchLength + 1, Len(stream))
  /\ UNCHANGED <<scores, cooldown, fires, reported, fired>>

\* XACK after the handler.
AckFrame(w) ==
  /\ At(w, "ack")
  /\ entry' = [entry EXCEPT ![Frame(w)] = "acked"]
  /\ NextFrame(w)
  /\ UNCHANGED <<stream, scores, cooldown, fires, reported, fired>>

\* XACK of an entry _decode_frame does not accept; such an entry has no score.
SkipEntry(w) ==
  /\ At(w, "score") /\ Frame(w) \notin Over
  /\ entry' = [entry EXCEPT ![Frame(w)] = "acked"]
  /\ NextFrame(w)
  /\ UNCHANGED <<stream, scores, cooldown, fires, reported, fired>>

-----------------------------------------------------------------------------
(* The handler: one frame, one await a step *)

\* Audio in a set of frames.
Enough(frames) == SumFunctionOnSet(SecondsOf, frames) >= GateSeconds

\* evaluate, on the window the append returned: what becomes of the frame, and
\* what for.  An event that only the veto held back is reported, a quiet window
\* is not.
Verdict(window) ==
  LET over    == Range(window) \cap Over
      counted == over \ Confounded
  IN  IF Enough(counted)
      THEN [phase |-> "check", evidence |-> counted, reason |-> ""]
      ELSE IF Enough(over)
      THEN [phase |-> "report", evidence |-> over, reason |-> "audioset_veto"]
      ELSE [phase |-> "ack", evidence |-> {}, reason |-> ""]

\* The handler of w stands at v.phase with v.evidence, for v.reason.
Stand(w, v) ==
  worker' = [worker EXCEPT ![w] = [batch |-> worker[w].batch, phase |-> v.phase,
                                   evidence |-> v.evidence, reason |-> v.reason]]

\* lpush and ltrim.
Pushed(window, f) ==
  SubSeq(<<f>> \o window, 1,
         IF Len(window) < BufferSize THEN Len(window) + 1 ELSE BufferSize)

\* Decoding, the model, append_score and evaluate.
Score(w) ==
  /\ At(w, "score")
  /\ LET window == Pushed(scores[Device(w)], Frame(w))
     IN /\ scores' = [scores EXCEPT ![Device(w)] = window]
        /\ Stand(w, Verdict(window))
  /\ UNCHANGED <<entry, stream, cooldown, fires, reported, fired>>

\* is_suppressed.
CheckCooldown(w) ==
  /\ At(w, "check")
  /\ \/ /\ Device(w) \in cooldown
        /\ Stand(w, [worker[w] EXCEPT !.phase = "report", !.reason = "cooldown"])
     \/ /\ Device(w) \notin cooldown
        /\ Go(w, "record")
  /\ UNCHANGED <<entry, stream, scores, cooldown, fires, reported, fired>>

\* Mutant: old fires are not trimmed.
AllFires(f) == fires[DeviceOf[f]] \cup {TimeOf[f]}

\* The trailing window of fires that ends with f.
RecentFires(f) ==
  {t \in fires[DeviceOf[f]] \cup {TimeOf[f]} : t + ChronicWindow > TimeOf[f]}

\* record_fire_and_chronic: zadd, zremrangebyscore, zcard.
RecordFire(w) ==
  /\ At(w, "record")
  /\ LET recent  == RecentFires(Frame(w))
         chronic == Cardinality(recent) >= ChronicThreshold
     IN /\ fires' = [fires EXCEPT ![Device(w)] = recent]
        /\ Stand(w, [worker[w] EXCEPT !.phase = "mark",
                                      !.reason = IF chronic THEN "chronic" ELSE ""])
  /\ fired' = fired \cup {Frame(w)}
  /\ UNCHANGED <<entry, stream, scores, cooldown, reported>>

\* Mutant: the window is left as it is.
MarkOnly(w) ==
  /\ At(w, "mark")
  /\ cooldown' = cooldown \cup {Device(w)}
  /\ Go(w, "report")
  /\ UNCHANGED <<entry, stream, scores, fires, reported, fired>>

\* mark_suppressed: the cooldown begins and the window is cleared.
MarkSuppressed(w) ==
  /\ At(w, "mark")
  /\ cooldown' = cooldown \cup {Device(w)}
  /\ scores' = [scores EXCEPT ![Device(w)] = <<>>]
  /\ Go(w, "report")
  /\ UNCHANGED <<entry, stream, fires, reported, fired>>

\* DetectionPublisher.publish.  A live detection that does not reach the topic
\* fails the handler; an audit document that is not written does not.
Report(w) ==
  /\ At(w, "report")
  /\ LET event == [worker |-> w, frame |-> Frame(w),
                   evidence |-> worker[w].evidence, reason |-> worker[w].reason]
     IN \/ reported' = reported \cup {event}
        \/ event.reason # "" /\ UNCHANGED reported
  /\ Stand(w, [phase |-> "ack", evidence |-> {}, reason |-> ""])
  /\ UNCHANGED <<entry, stream, scores, cooldown, fires, fired>>

\* Any call raises, before or after it took effect.  The entry stays pending and
\* nobody reads it again.
HandlerFails(w) ==
  /\ worker[w].phase \notin {"read", "hung"}
  /\ NextFrame(w)
  /\ UNCHANGED <<entry, stream, scores, cooldown, fires, reported, fired>>

-----------------------------------------------------------------------------
(* Processes and expiring keys *)

\* w stops for good, and leaves its batch pending.
Stops(w, phase) ==
  /\ worker' = [worker EXCEPT ![w] = [Idle EXCEPT !.phase = phase]]
  /\ UNCHANGED <<entry, stream, scores, cooldown, fires, reported, fired>>

\* The process ends and is replaced.
Crash(w) == ~At(w, "hung") /\ Stops(w, "read")

\* A call never returns.
Hang(w) == ~At(w, "hung") /\ Stops(w, "hung")

\* Mutant: the watchdog looks only at workers that are busy.
WatchdogOnlyBusy(w) ==
  /\ At(w, "hung") /\ worker[w].batch # <<>>
  /\ Stops(w, "read")

\* No frame for watchdog_stall_seconds: exit, and Cloud Run starts another.
Watchdog(w) == At(w, "hung") /\ Stops(w, "read")

\* The keys of a device have a time to live each.
Expire(d) ==
  /\ \/ cooldown' = cooldown \ {d} /\ UNCHANGED <<scores, fires>>
     \/ scores' = [scores EXCEPT ![d] = <<>>] /\ UNCHANGED <<cooldown, fires>>
     \/ fires' = [fires EXCEPT ![d] = {}] /\ UNCHANGED <<cooldown, scores>>
  /\ UNCHANGED <<entry, stream, worker, reported, fired>>

Handle(w) ==
  \/ Score(w) \/ CheckCooldown(w) \/ RecordFire(w) \/ MarkSuppressed(w)
  \/ Report(w) \/ AckFrame(w) \/ SkipEntry(w)

Next ==
  \/ \E f \in Frames : Arrive(f)
  \/ \E w \in Workers :
       Read(w) \/ Handle(w) \/ HandlerFails(w) \/ Crash(w) \/ Hang(w) \/ Watchdog(w)
  \/ \E d \in Devices : Expire(d)

Spec == Init /\ [][Next]_vars
-----------------------------------------------------------------------------
(* Properties *)

\* Types; a window in Redis never outgrows the score buffer, whoever appends to it
\* (detection.py: append_score).
TypeOK ==
  /\ entry \in [Frames -> {"new", "stream", "pending", "acked", "trimmed"}]
  /\ stream \in Seq(Frames)
  /\ worker \in [Workers -> Processes]
  /\ scores \in [Devices -> Seq(Frames)]
  /\ \A d \in Devices : Len(scores[d]) <= BufferSize
  /\ cooldown \subseteq Devices /\ fires \in [Devices -> SUBSET Nat]
  /\ reported \subseteq Events
  /\ fired \subseteq Frames

Alerts == {e \in reported : e.reason = ""}

\* Two workers may alert on the same sound, one worker never does, however the
\* others append, fire and clear and whatever fails: two alerts that share a
\* frame come from two workers (detection.py: mark_suppressed clears the window).
OneAlertPerWorker ==
  \A a, b \in Alerts :
    a.worker = b.worker /\ a # b => a.evidence \cap b.evidence = {}

\* An alert is withheld as chronic only if as many fires as that takes were
\* recorded for the device in the window that ends with it, or after it
\* (detection.py: record_fire_and_chronic, whose set is trimmed by whoever
\* comes, in any order).
MutedHadCompany ==
  \A e \in reported :
    e.reason = "chronic" =>
      Cardinality({f \in fired : /\ DeviceOf[f] = DeviceOf[e.frame]
                                 /\ TimeOf[f] + ChronicWindow > TimeOf[e.frame]})
        >= ChronicThreshold

\* A call returns or raises, unless the worker hangs, which the watchdog ends; a
\* worker that is replaced again and again reads at some time.
Fairness ==
  \A w \in Workers :
    /\ WF_vars(Handle(w) \/ HandlerFails(w))
    /\ WF_vars(Watchdog(w))
    /\ SF_vars(Read(w))

FairSpec == Spec /\ Fairness

\* Delivered, not acknowledged, and in nobody's hands: no read returns it again.
Abandoned(f) ==
  entry[f] = "pending" /\ \A w \in Workers : f \notin Range(worker[w].batch)

\* No frame waits in the stream for ever, or in a worker that hangs: it is
\* acknowledged, trimmed or abandoned.
EveryFrameSettles ==
  \A f \in Frames :
    entry[f] = "stream" ~> entry[f] \in {"acked", "trimmed"} \/ Abandoned(f)
=============================================================================
