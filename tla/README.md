# Verification of the drone audio sensor

Phones on a perimeter stream audio to a cloud gateway; inference workers listen
for drones; detections go to TAK and to other consumers. This directory holds
TLA+ models of the parts of that system where processes share state and fail,
the TLC runs that check them on small instances, and proofs, checked by TLAPS,
of what holds for instances of any size.

## The system

| part | state it keeps | operations | talks to |
|---|---|---|---|
| phone (`android/`) | config, key pair, one stream, outbound channel, capture coroutine, watchdog timers | capture, connect/reconnect, health, location, wipe, restart and reboot | gateway over one bidirectional gRPC stream |
| gateway (`backend/gateway`), several instances | per instance: public-key cache; per stream: locals of one coroutine | `StreamAudio` | device registry, Redis hot state, Redis stream `audio_frames` |
| device registry (Firestore `devices`) | one document per device: lifecycle `state`, legacy `status`, key | get, set(merge), transaction | gateway, admin, CLI, inference |
| admin (`backend/admin`) | none of its own | `change_state`, simulator, pages | registry, Redis |
| CLI (`scripts/provision_device.py`) | none | `register`, `set-state`, `request-wipe`, `revoke`, `unrevoke` | registry |
| inference (`backend/inference`), several instances | per device in Redis: score window, cooldown, recent fires | read group, score, evaluate, publish | Redis, Pub/Sub, Firestore |
| TAK publisher (`backend/tak_publisher`) | dedup LRU, queue, one socket | Pub/Sub callback, send, ack/nack | Pub/Sub, TAK server |
| egress publisher/receiver (`backend/egress_*`) | buffer, batches, pending map / per-stream counter | flush, stream, ack | each other over gRPC |
| audio receiver (`backend/audio_receiver`), several instances | per instance: counters not yet written, tag of the test run | ingest, flush thread, sweep, `ResetTestRun` | Firestore `test_runs` |
| test status (`backend/test_status`) | none | reads | Firestore |
| replay fleet, Argos bridge, Argos live pull (`scripts/`) | per station: queues, threads or tasks, sequence, last location | stream recorded sound as a phone would | gateway, audio receiver; buckets, Pub/Sub |
| report of the replay fleet | per station: flybys of the clip, detections counted; the mark of the last query | poll detections, print which flybys were caught | Firestore `detections` |
| simulated phones (`scripts/simulate_soh_phones.py`) | tick | refresh documents and hot state, bursts of sound | admin service or Firestore and Redis; gateway |

What is hard in it: every service is asyncio (or threads) over a shared
database, most writes to the registry are not transactions, the gateway decides
on state it read several awaits ago, keys are cached in every instance, streams
die anywhere, workers share the frames of one device, and delivery between the
services is at least once or at most once depending on the link. `PROJECT.json`
lists these hazards line by line, with the properties that answer each.

What makes each part correct:

- registry, gateway, admin, CLI together: a device moves only along the
  lifecycle matrix; a revoked or replaced key stops working in time; a device
  that is not active is not heard; a wipe is carried out.
- TAK publisher: a detection Pub/Sub hands over is not lost.
- egress: a message is acked only after the receiver recorded its batch, and
  nothing is stranded in between.
- inference: a sound alerts once, a mute has its reason, no frame waits for ever.
- phone and gateway together: an ack covers published frames, frames are
  published once and in order, the hot state and the location of a device come
  from its streams.
- audio receiver: a frame is counted once, for the run it came in; runs end.
- phone: one capture at a time and in the end another one; rebooted only when
  it is dark, and not again at once.
- stand-ins for phones: what they send looks like a phone's, and a broken call
  or a receiver that does not read holds nothing up.
- report of the replay fleet: a flyby is a stretch of labelled sound, a detection
  is counted once, and the verdict on a flyby stands.

## Modules

| module | models | role |
|---|---|---|
| `DeviceLifecycle` | `state_machine.py`, tables of the CLI | tables, no state |
| `DeviceRegistry` | `registry.py`, the document writes of admin and CLI | `doc`, one operator per database call |
| `Gateway` | `service.py`, `auth.py` | one coroutine per stream, key caches, clock |
| `Operators` | `change_state`, simulator, CLI | requests and registrations in flight |
| `LifecycleMatrix` | `docs/DEVICE_LIFECYCLE.md` as realised in the tables | abstract specification |
| `DeviceFleet` | the composition of the four above | history variables, properties |
| `RemoteWipe` | the fleet, and the phone that is told to wipe itself: `WipeHandler.kt` | EXTENDS `DeviceFleet`; fairness, liveness |
| `PubSub` | a Pub/Sub subscription (external) | shared by the two publishers |
| `TakPublisher` | `tak_publisher` | callbacks, queue, socket, process |
| `Egress` | `egress_publisher` and `egress_receiver` | both ends and the stream between them |
| `Inference` | `inference`, `publish_frame` of the gateway | consumer group and workers |
| `StreamingClient` | `StreamingClient.kt` and what feeds it | the phone's end of a stream |
| `ReceiveLoop` | the rest of `service.py`, `state.py`, locations in `registry.py` | the gateway's end of the streams of one device; EXTENDS `StreamingClient` |
| `PhoneSession` | both ends, and the loss of the Redis record | history, properties |
| `AudioCapture` | `AudioCaptureService`, `AudioFrameProducer`, `AudioWatchdog` | captures and who stops and starts them |
| `Connectivity` | stream state of the client, `ConnectivityMonitor`, `ConnectivityWatchdog` | what is known of the connection, and reboots |
| `PhoneService` | the composition of the two, process death, boot | properties, fairness |
| `AudioReceiver` | `audio_receiver` | sinks, threads, documents |
| `ReplayFleet`, `ArgosBridge`, `LivePull`, `SimulatedPhones` | the scripts of these names | one station, or one process |
| `FleetReport` | `load_ground_truth`, `detection_collector`, `print_report` of the replay fleet | two threads and a collection |
| `Feeders` | the five of them, one per behaviour | fairness |
| `MCDeviceFleet`, `MCTakPublisher`, `MCInference`, `MCPhoneService`, `MCFeeders` | | constants and symmetry for TLC |
| `TakClaims`, `PhoneClaims` | | what a document says and the code does not keep |
| `DeviceFleetProofs` | | theorems about the fleet |
| `PhoneSessionProofs` | | theorems about a phone and its handlers |
| `PhoneServiceProofs` | | theorems about captures and reboots |
| `FeedersProofs` | | theorems about the stand-ins and the report |
| `TakPublisherProofs`, `EgressProofs`, `InferenceProofs`, `AudioReceiverProofs` | | theorems about the other parts |

In every module code between two awaits (or two points where another thread may
run) is one action, and an exception, a cancelled task or a dead process may
come between any two. Operators commented "Mutant" are plausible slips of the
code; each shows that a property can fail, and none is part of a specification.

Every module with variables states their types in a `TypeOK`. A run checks it
only for the TAK publisher, whose dedup set is trimmed one entry at a time and
would outgrow its size if an eviction were missed. The others are theorems (see
Proofs); that of `Feeders` is proved as far as the proofs there need it, and
holds on the instance of its run when it is added.

### The fleet

A gateway handler (`sess[s]`) is the coroutine `StreamAudio`; its `phase` names
the await it stands at, the other fields are the coroutine's locals that matter
later (`device_state` is `state`, `preserved_state` is `preserved`, the cached
`now` of `_get_public_key` is `now`).

| action | code |
|---|---|
| `Connect` | arrival of a stream, cache lookup in `_get_public_key`, on a hit `jwt.decode` |
| `LookupKey` | `registry.get_public_key` |
| `FillCache` | cache write and `jwt.decode` after the lookup, or the refusal |
| `ReadState` | handshake checks, then `registry.get_state` |
| `Promote` | `registry.complete_setup`, a transaction |
| `ReadDocument`, `Persist` | the get and the set of `upsert_handshake` |
| `Open` | `init_session`, `SessionAck`, the wipe command |
| `RecordWipe` | `mark_wipe_sent`, a plain write |
| `Disconnect` | every early return, abort, exception or hang-up |
| `Restart` | an instance is replaced: streams and cache vanish |
| `CheckRequest`, `ApplyRequest` | `change_state`: confirmation on a read, then the transaction |
| `CliSetState`, `BeginRegister`, `FinishRegister` | `provision_device.py` |
| `SimulatePhone` | one document of `upsert_simulated_devices` |

A token is reduced to the key that signed it; expiry and audience of tokens are
left out, they only refuse more. A document is reduced to `state`, `status` and
the key. Locations (in `ReceiveLoop`), codecs, health and the disconnect stamps
are written next to these fields with `merge=True` and decide nothing here.
`vouched` and `eligible` are history variables; no guard reads them.

`RemoteWipe` adds what becomes of the phone. The wipe command leaves with `Open`,
and `Hear` notes that the phone was told. `Erase` is `WipeHandler.execute` on a
phone whose app is the device owner: it may come at any time later, or never (the
command is lost, the app is not the owner), and an erased phone calls no more until
somebody installs it again (`SetUpAgain`). Registering it afterwards leaves the
state of a known device alone (`FinishRegister`).

### The TAK publisher

| action | code |
|---|---|
| `Publish`, `LeaseExpires` | Pub/Sub: a message appears; a delivery is taken back |
| `Receive` | `_on_message` up to the membership test in `_LruSet.add`; bad data and duplicates are acked here |
| `Enqueue` | the rest of `_LruSet.add` and of `_on_message`: insertion, eviction, the asyncio queue |
| `SkipUnlocated` | `_process` of an event without a location: acked, not sent |
| `Take` | `_process` takes the next message, `TakClient.send` begins |
| `Reconnect` | `_connect_with_backoff` has got through |
| `Write`, `WriteFails` | one of the two writes of `send`, its drain and its timeout, then ack or nack |
| `Start`, `Stop` | `main.py`: the process and its shutdown, which neither acks nor nacks |

`written` and `disturbed` are history: the detections whose write succeeded, and
those whose delivery was nacked or taken back while the process held it.

### Egress

| action | code |
|---|---|
| `Publish`, `LeaseExpires` | as above |
| `Receive` | `_on_message` and `enqueue` |
| `Drain` | `_drain_into_batches`: everything buffered becomes one batch, numbered for the life of the process |
| `OpenStream`, `Send` | `_run_session` and its `request_iter` |
| `OrphanTakes` | the `request_iter` of a dead stream, still waiting on the queue, takes one more batch |
| `ReceiveBatch` | one turn of `StreamBatches`: record, count, acknowledge with the stream's own number |
| `TakeAck` | `pending.pop(ack.batch_sequence)` and the acks that follow |
| `StreamDies` | the session ends with or without an error |
| `Start`, `Stop` | `_amain` |

`counted` is what the receiver recorded; `dropped` the messages whose batch went
down with a stream or a process (history).

### Inference

A worker (`worker[w]`) is one process: `phase` is the await it stands at, `batch`
what its read returned and it has not finished, `evidence` and `reason` the
locals of `_handle_frame` that end up in the event.

| action | code |
|---|---|
| `Arrive` | `publish_frame` of a gateway: XADD with MAXLEN ~ |
| `Read` | XREADGROUP with `>` |
| `SkipEntry` | XACK of an entry `_decode_frame` refuses |
| `Score` | decoding, the model, `append_score` (one MULTI), `evaluate` on what it returned |
| `CheckCooldown` | `is_suppressed` |
| `RecordFire` | `record_fire_and_chronic` (one MULTI) |
| `MarkSuppressed` | `mark_suppressed` (one MULTI) |
| `Report` | `DetectionPublisher.publish` |
| `AckFrame` | XACK after the handler |
| `HandlerFails` | any of these raises, before or after its effect: logged, not acked |
| `Crash`, `Hang`, `Watchdog` | the process ends; a call never returns; `_watchdog_loop` |
| `Expire` | one of the three keys of a device outlives its TTL |

A frame carries its device, capture time and length; the model's verdict on it
is membership in `Over` and `Confounded`. An event is reduced to the worker, the
frame, the evidence that carried the gate and the reason. Where `publish` also
writes the audit document of a live detection nothing depends on it.

### A phone and its handlers

`PhoneSession` has one phone and one device. The handlers of its calls are
coroutines like those of `Gateway`, perhaps in different instances: the handler
of a call the phone has given up goes on with the messages it still has.

| action | code |
|---|---|
| `BeginCall`, `Connected`, `CallEnds` | one round of `runLoop`: the channel with the handshake in it, the collector, the end |
| `Capture`, `ForwardExtra` | the two forwarders of `runOneSession`; `DropOldest` is their `trySend` |
| `ReportHealth`, `ReportLocation` | `submitHealth`, `submitLocation`, call or no call |
| `RestartCapture` | `AudioFrameProducer.start` sets the sequence back to 0 |
| `Transmit`, `HearCommand` | gRPC moves a message; `handleServerCommand` |
| `Accept`, `Refuse` | handshake checks and `upsert_handshake` |
| `InitSession` | `init_session`, then the `SessionAck` |
| `ReceiveFrame`, `Touch`, `Publish` | a frame: counters and the GET of `touch`; its SET; `publish_frame` and perhaps a `FrameAck` |
| `ReceiveHealth`, `UpdateHealth` | the GET and the SET of `update_health` |
| `ReceiveLocation` | `update_location` |
| `End` | any exception or end of the stream, at any await, and `mark_disconnected` |
| `LoseRecord` | the key expires or Redis restarts |

Authentication and lifecycle are in `Gateway`; here `muted` says whether the
device may publish. `received`, `flooded` and `lost` are history.

### The phone's service

| action | code |
|---|---|
| `Start`, `Stop`, `DestroyEnds`, `Forget` | `onStartCommand`; `onDestroy` in two steps, watchdog and producer; its scope is gone |
| `CaptureEnds`, `CaptureSticks` | a read fails or returns to a cancelled capture, whose `finally` clears the flag; a read gives nothing any more |
| `FrameSeen`, `Silence` | `AudioWatchdog` learns of a frame, or of none for ten seconds |
| `WatchdogStops`, `WatchdogStarts` | its `producer.stop()` and `producer.start()` |
| `FirstCall`, `SessionAcked`, `SessionFails`, `Reconnecting` | values of `StreamingClient.state`, `firstAuthSeen` |
| `Observe` | `ConnectivityMonitor` combines its five flows |
| `QuietCheck`, `SoftRestart`, `RebootPhone` | one check of `ConnectivityWatchdog` |
| `Kill`, `Idle` | process death; time without a service |

Time goes in checks of the watchdog. `dark`, `gap`, `unsaved` and `overtaken`
are history.

### The audio receiver

| action | code |
|---|---|
| `RecordFrame` | `record_frame`, `record_delta` |
| `Take`, `Write`, `WriteFails` | `_flush_once` of the flush thread: the part under the lock, and the update with or without its effect |
| `Sweep`, `SweepFails`, `Age` | `_sweep_stale`; a document that nobody writes ages |
| `BeginReset`, `TakeLast`, `WriteLast`, `Retag`, `Create` | `ResetTestRun` and `reset_run`: the tag is read, the last flush, the tag is set and what came since is cleared, the new document |
| `Start`, `Stop`, `Vanish`, `Crash` | an instance begins, stops in order, stops to be used, ends |

A document counts the set of frames that went into it, so that a frame counted
twice or lost shows. `tagged`, `gone` and `overlapped` are history. A reset may ask
for the empty tag (`None`), under which nothing is written. `Stop` gives streams and
resets ten seconds and the flush thread five, so that what they have in hand may be
lost as in a crash. An instance need not have a successor.

### The stand-ins for phones

`ReplayFleet`: a *leg* is a queue with the thread that drains it into a call;
`stream` leads to the gateway, `tap` to the audio receiver. The station thread
goes through `Connect`, `Encode`, `PutFrame` or `PutTimesOut`, `OfferToTap`,
`Refresh`, `SeesStop`, `PutEnd`, `Close`, `Returns`, the lines of
`persistent_stream_session` in order. `ArgosBridge`: the `producer` task
(`PutHandshake`, `NextClip`, `PutUpdate`, `Fetch`, `PutClip`, `Pace`, `LastClip`,
`Finish`) and the session task (`OpenSession`, `Cancel`, `SessionOver`) of
`_run_session` share `msgs`; `Resolve` is `LocationResolver.resolve`.
`LivePull`: `Enqueue` is the Pub/Sub callback, the other actions are `_handle`
between its awaits, `CallHangs` a call on a connection that was dropped without a
word, `PullEnds` the process going down with its tasks. A message that comes back is
another delivery, and another clip of `Clips`.
`SimulatedPhones`: the modes of `main` (`mode`): refreshing the phones through
the admin service or directly, streaming only, and writing the documents once.
Its refresh is single writes (`WriteDocuments`, `WriteRecord`); `Refused` is the
return on missing arguments or a Redis that does not answer, `Returned` the end
of the loop; `Elapse` is 30 seconds, in which a refresh may be still under way.
`longest` is history: what refreshes took so far. What a burst computes before its
calls is taken to need no time.

`FleetReport` is the part of the replay fleet that judges the detector:

| operator | code |
|---|---|
| `RunsOf` | `load_ground_truth` on labels per second: `Labelled` is the body of its loop |
| `Stamp`, `Store` | `DetectionPublisher.publish` takes the time, and `_write_detection_doc` writes the document later or never |
| `CollectorBegins`, `CollectorWaits` | the thread `detection_collector` begins, with credentials or not; its wait for the stop event |
| `Poll`, `PollFails`, `Record` | one query of the newest `Limit` documents; the lists and the mark under the lock |
| `RollingReport`, `Halt`, `FinalReport` | the loop of `main`, the signal or the end of `--duration`, the report after the joins |
| `Realized`, `Hits` | `realized_flybys` and the comparison in `print_report` |

It looks at the detections of one station, because the lists of two stations
have nothing in common, and takes the clocks of harness and inference to agree.
The stations share only the stop event with it, so that the two are examined
apart. `passed` (what the mark left behind) and `underway` (what was stamped and
not yet counted at the last report) are history.

## Runs

| run | question | instance |
|---|---|---|
| `fleet_keys` | is any key accepted too long after the registry's last word for it, with overlapping lookups? does a handshake always leave a state behind, legacy documents and simulator included? | 2 streams, 1 legacy device, TTL 1, clock to 3 |
| `fleet_lifecycle` | do unguarded writes ever leave the matrix; who is heard? | 2 streams, 1 admin, 1 registrar |
| `fleet_wipe` | is a wipe recorded, unless the phone was reset before it could be? | 1 stream, 1 admin, 1 registrar, fairness |
| `phone_session` | do acks, published frames, hot state and location agree over two calls? | 2 calls, 3 frames, 2 captures, 1 report, channels of 2, 1 message under way, ack every 2 frames |
| `phone_service` | one microphone at a time, and again in the end; who is rebooted? | 1 service after another, 2 captures, 2 networks, timeout 2 and interval 3 checks, fairness |
| `tak_flow` | does a detection vanish without a write; does every message settle? | 3 messages, two of one detection, one unlocated, one unreadable; dedup size 1, 2 attempts, fairness |
| `egress_flow` | is an ack ever premature; is anything stranded? | 3 messages, one unreadable, batch size 3, queue 1, 1 orphan, fairness |
| `inference` | does a worker alert twice on a frame; is a chronic mute justified; does a frame wait for ever? | 2 workers, 3 frames of 1 device, window 2, batch 2, stream 2, fairness |
| `audio_receiver` | is a frame counted once, for the right run; do runs end while an instance is up? | 1 instance that may end once, 2 resets, 2 frames, 2 tags, fairness |
| `feeders` | do the stand-ins feed what a phone would, and go on, as far as calls that hang let them? how old does hot state get? are detections counted once, and do verdicts stand? | one station, process or report of one of the five programs, fairness |

Why the bounds are enough:

- Fleet: one device, because no action relates two devices; two streams give
  every overlap of two coroutines (a third adds no new pair); one admin request,
  one registration and the CLI, which acts atomically, may be in flight at once.
  `MaxClock` bounds only the run about the cache and is larger than two cache
  lifetimes: an entry can expire, be filled again and expire again. The runs use
  one key and keep authentication on; replaced keys and deployments without
  authentication are covered by the theorems only.
- Phone session: two calls are every overlap of an old handler with a new one,
  which is what can disturb hot state and location. Channels of two overflow
  with three frames and a report, also before the connection is there; one
  message under way, since more of them only lets the old handler lag further,
  which it may anyway; an ack every two frames separates frames that are acked
  at once from frames that wait. Two captures restart the numbers once.
- Phone service: Android has at most one service at a time, and a service that
  starts again is the same as another one; two captures are the old one on its
  way out and the new one. A timeout of two checks and an interval of three let
  a phone be dark without being overdue, and overdue without being allowed to
  reboot. With a second service the invariants hold as well; that instance is
  too large for the liveness properties.
- TAK: a detection, a message that cannot be parsed, and a detection without a
  location, with room for one in the dedup set. The first two may be redelivered
  while their first delivery is still with a thread, so that every order of
  membership test, insertion and eviction happens. `MaxAttempts` 2 allows one redelivery and then a dead letter; the deployment
  has more, which repeats the same steps.
- Egress: `FlowMax` 1 keeps one readable message leased at a time, yet a lost
  lease lets the second in while the first is in a batch, so that batches of
  several streams and numbers exist at once. `QueueMax` counts the batches in
  `_out_q`; the model's queue holds one more, the batch the drainer holds while
  it waits. `MaxOrphans` bounds the iterators left behind; each takes one batch,
  like any other. Termination is shown on this instance; `AckedIsCounted` is
  also a theorem.
- Inference: three frames of which two are over the threshold, so that two
  workers can hold two positive windows at once, fire in either order of capture
  time, and have a third frame trimmed from stream or window. Every frame is
  long enough to fire alone, which makes alerting easiest.

- Audio receiver: two resets of one instance overlap in every order, one of them
  may fail half-way, and the instance may end once with a run open, which the
  next one sweeps. Two frames are one on each side of any step. More instances
  share only documents; `EveryFrameCounted`, `CountedOnce` and `RightRun` are
  theorems for any number of them.
- Feeders: queues of two fill while the call is alive, dying or over; four
  frames and two calls let a call break with a full queue and another follow. In
  the bridge three places, one of them too far away to be believed, and three
  clips change the location, keep it, and skip a clip in between. In the live
  pull four clips, one of them not a recording, compete for two permits, and the
  process ends once. The simulator's times are the defaults of the code in ticks
  of 30 seconds (interval 180, a burst's timeout 30). The code has no bound for a
  refresh: `MaxRefresh` lets it take up to three ticks, more than the timeout of its
  socket, and a TTL of 12 ticks, where the default is 300 seconds, leaves room to
  see how old hot state gets for it. Two phones are one that streams late and one
  that does not, and of two cycles the second finds what the first left. For the
  report a query of one document lets a second detection crowd the first out,
  before or after it; a clip of two seconds has every labelling, which gives every
  single window, and two lists of two windows, adjacent or one within the other
  (`TwoLists` of `MCFeeders`); with a slop of one the clock goes far enough for a flyby to be over and
  judged, and for the stamp of a detection to be older than that. The theorems
  hold for any number of detections and any length of the clip.

Runs that end in a counterexample, each against a sentence of the repository
quoted in `PROJECT.json` (`findings`):

- `claim_retried`: a detection whose send failed is nacked, comes back, and is
  acked as a duplicate without a write.
- `claim_watchdog`: a service that was acknowledged once and loses its
  connection stays dark beyond the timeout, and is not restarted: the monitor
  shows it as authenticated for as long as its process lives.

`NoneListens` and `StationGoesOn`, `BridgeGoesOn` name an exception each, which
is a defect of the code the run does reach: a service whose end overtakes its
watchdog leaves a capture behind (`overtaken`), and two programs wait for ever
to put the end of a stream into the full queue of a call that is over
(`scripts/replay_fleet.py:680`, `scripts/argos_bridge/bridge.py:610`).

### Differences met while reading

No run checks these; the models follow the code.

- Registry and gateway: a stream opened before a revocation publishes until it
  closes by itself, not for the lifetime of a cached key
  (`docs/SECURITY.md:131`). The handshake of a legacy device that was revoked by
  `status` writes `active` (`registry.py:89-91`); this is why `fleet_lifecycle`
  and `fleet_wipe` assume no legacy documents: with them the matrix is left and
  a requested wipe may be lost. An operator's confirmation is checked on a copy
  of the device read before the transaction. A wipe command is sent again to
  every stream that opens before `mark_wipe_sent`. A wiped device that is
  registered again keeps `wipe_sent` and cannot connect
  (`docs/DEVICE_LIFECYCLE.md:23` says it can). The wipe is recorded in a step after
  the command (`service.py:233` and `:241`; `docs/DEVICE_LIFECYCLE.md:66` says
  "atomically"): if the stream dies in between, the phone may be reset while the
  registry stays at `wipe_requested`, with nobody left to call; set up again under
  the same id, it is told to wipe itself again when it first connects.
- Hot state: the end of an old stream stamps `last_disconnect_*` after the
  beginning of a new one. The status page shows the sequence number 0 as -1
  (`admin/redis_repo.py:104`).
- Egress: after a reconnect the receiver's batch numbers are not those of the
  publisher, so recorded batches are not acked and come back
  (`egress_receiver/main.py:137`). Batches may exceed `batch_size`.
- Inference: positive frames appended during a cooldown, and already audited as
  suppressed, fire when it lifts (`detection.py:180-184`). Two workers may both
  alert on one sound (`backend/inference/README.md:25` says further detections
  are suppressed). A frame whose handler failed is never read again
  (`stream_consumer.py:20` says "processed exactly once"). A detection whose
  device lookup failed carries no location and is skipped by the TAK publisher.
- Audio receiver: two resets that overlap name the same old run, because the tag
  is read outside the lock (line 259). An instance that gets no frames never
  completes its own run while it lives, although the comment at line 79 expects
  the sweep to, and an instance without a tag never writes what it counts. A reset
  forgets the handshakes of open streams, whose frames count no PCM bytes from
  then on. The server has 32 threads and is deployed for 200 streams at once
  (line 490). With no instance up a run that was left open stays `running` until
  somebody calls the service again.
- Replay fleet: `channel.close` follows the end of the stream at once and kills
  the frames still queued, which the comment at line 679 means to drain. The
  handshakes that refresh the status page (lines 652-671) are messages the gateway
  ignores (`service.py:324`). The stations begin the clip at a random
  `playback_phase_s` (line 762); the report expects the flybys where a clip begun
  at 0 would have them. It counts the documents of suppressed detections, which
  alerted nobody, as hits. A detection is stamped before its document is written,
  which may follow a publish of 30 seconds; the collector never counts one that
  is stored after a newer one was seen (`passed`).
- Bridge: its back-off goes back to the start only after a session of more than
  30 seconds that ended without an exception (lines 658-660).
- Live pull: a message is acked before its clip is downloaded (line 483), a clip
  that is not a `.wav` counts as forwarded, and a clip without a location is sent
  with (0, 0) as a current position. The call to the gateway has no timeout
  (line 392) and its channel no keepalive (lines 291-294): on a connection that was
  dropped without a word it keeps its permit, and with all permits gone the pull
  acks messages and forwards none until the process ends.
- Simulated phones: one refresh that fails ends the program, and the phones leave
  the status page when the TTL is over. They may also do so for a refresh that
  succeeds late: the timeout of `urlopen` (line 331) is one per socket operation and
  address, so that nothing bounds a POST. With the defaults, two refreshes in a row
  that take more than 90 seconds together are too slow (180 + 30 + 90 = 300).
- Gateway acks: after a capture restart on an open stream none comes until the new
  numbers pass the last one acked (`service.py:288`); `AcksKeepUp` excepts it.

### Fairness

- `fleet_wipe`: the phone connects again and again (`StreamingClient` loops for
  ever) as long as it is not erased, and nobody has to set an erased one up again;
  an open stream ends (Cloud Run ends every request after
  `gateway_request_timeout_seconds`), and an await that is reached again and
  again is passed some time. The last one is strong fairness per await: a stream
  may die at any await any number of times, but not at the same await for ever.
  Nothing is assumed of the operators.
- `phone_service`: a service that is asked to restart is stopped; a
  capture that is cancelled ends; a producer that gives nothing is silent for ten
  seconds some time; the audio watchdog's coroutine goes on, and a start that is
  tried again and again finds the microphone free some time; the monitor sees the
  values of its flows, and the connectivity watchdog checks again and again.
  Nothing is assumed of network and gateway.
- `tak_flow`: Pub/Sub delivers what it can deliver again and again, takes
  back what nobody holds, threads and the event loop run, the server is reached
  in the end (`_connect_with_backoff` does not give up), a write succeeds or
  times out, and Cloud Run starts the process again. Writes need never succeed.
- `egress_flow`: as above for delivery and process; leases end (the client
  library stops extending them after `max_lease_duration`); the drainer and the
  session loop run; a session that is opened again and again sends some time.
- `inference`: a call returns or raises, unless the worker hangs, and then its
  watchdog task ends the process; a worker that is replaced again and again
  reads some time (strong fairness, as XREADGROUP blocks only while the stream
  is empty). Nothing is assumed of handlers: they may all fail.
- `audio_receiver`: the flush thread of an instance runs, or the instance goes (an
  idle one gets hardly any CPU until it is called again or ended); documents that
  nobody writes age, and a sweep that is tried again and again succeeds some time.
  No instance has to be started, since the service scales to zero
  (`cloudbuild/audio_receiver.yaml:66`), and nothing is assumed of resets.
- `feeders`: threads and tasks that can run do, the gateway takes what it is sent,
  a call that is dying ends, downloads of the live pull return (each read of a blob
  has a timeout), its calls do unless they hang, and its semaphore starves no task.
  A call that hangs may do so for ever. No call has to break, nobody has to stop a program,
  and the receiver of the tap may never read.

`phone_session` states no fairness: its properties are about safety.

## Proofs

TLAPS proves, for every value of the constants:

- `DeviceFleetProofs`: `FleetTypes`. The invariant `TInv` adds to the types that
  a live handler has a real device and instance. The module also holds the two
  facts the other proofs use, what a step of the fleet means to one handler
  (`HandlerSteps`) and to one cache entry (`CacheSteps`).
  `StaleKeysExpire`: `KeyStaleness` alone is not
  inductive: it speaks of admitted handlers, and says nothing of the caches and
  the answers in flight they are admitted from. `KeyInv` adds that a cached key
  expires less than `KeyTTL` after it was last vouched for, and that an answer
  on its way into a cache was vouched for after the time its expiry counts
  from. `FreshSessionsAreSilent` and `HandshakesRecord` hold in
  every deployment. `WipesArePending`, `SetupStaysOver` and the refinement
  `FleetFollowsMatrix` need `Hardened`: authentication on, no legacy documents,
  no simulator, one registration at a time. Their invariant `LifeInv` says that
  whoever authenticated has a document, every document has a state, a handler
  that read `wipe_requested` finds a wipe pending or sent, and a registration in
  flight is right about whether its device exists.
- `TakPublisherProofs`: `TakTypes` and `NothingIsLost`. `NothingLost` speaks of
  what Pub/Sub considers settled; `TakInv` adds why a duplicate may be acked: a
  detection in the dedup set that is neither written nor disturbed is held by
  the process, and a held delivery of such a detection is still leased, so
  nobody else settles it.
- `EgressProofs`: `EgressTypes` and `EgressAcksAreSafe`. The numbers of publisher
  and receiver drift apart, but only one way: the batch the receiver counts as
  the n-th of a stream has a number of at least n (`AckInv`). So an ack that
  carries n releases a batch that has left the wire, or none.
- `InferenceProofs`: `InferenceTypes`, `OneAlertPerFrameAndWorker` and
  `ChronicMutesAreJustified`. For the last, `MuteInv` says that the fires in a
  sorted set were recorded by frames of that device, one frame for each, and
  that a worker about to report a chronic mute has counted its reason already.
  For the second, `AlertInv` says where a frame can be: in the stream once, or
  with workers, of which only one may still score it (`PlaceInv`); that what is
  in a window or was used as evidence is scored and never scored again (`FreshInv`);
  that windows do not mix devices (`HomeInv`); and that the evidence of an alert
  is in no window and not what its worker goes by next (`SpentInv`). Most steps
  only take things away and are handled together (`Calm`).
- `PhoneSessionProofs`: `SessionTypes` and all seven properties of the run
  `phone_session`. `RecordIsOfOneStream`, `StreamingIsShown` and
  `NowhereIsUnknown`: what a handler read of the record before it waited was
  true of one stream already (`CountersInv`). `HandshakesComeFirst`:
  the handshake is ahead of all else in channel, connection or inbox
  (`FloodInv`). `AcksAreKept`: only the last frame a handler took can be
  unpublished, and each ack on its way or heard is covered (`AckInv`).
  `StreamIsOrdered`: a frame further on its way is an older one, a frame of an
  earlier call is older than any of a later one, and all are older than the
  frame the microphone is at (`OrderInv`); so what a handler publishes is new to
  the stream (`StreamInv`). `AcksKeepPace`: without a restart the numbers of a
  stream rise, so the frames since the last ack inject into an interval
  (`PaceInv`).
- `AudioReceiverProofs`: `ReceiverTypes`, `EveryFrameIsCounted`,
  `FramesAreCountedOnce` and `FramesCountForTheirRun`. The invariant says where a
  recorded frame can be: in the memory of an instance, in its flush thread, in a
  reset, in a document, or gone by a failure that is named (`Kept`), at one of
  these only (`Apart`); that a thread or reset that holds frames is at a step
  where it will write them (`ThreadsHold`); and, for the run, that what a thread
  carries has the tag it came under unless two resets overlapped
  (`OverlapsMarked`, `OnTheWay`).

- `PhoneServiceProofs`: `ServiceTypes`, and both invariants of the run
  `phone_service` with its action property. `CapturesAreHeld` and
  `StoppedServicesAreDeaf` need each other and four more facts (`CaptureInv`): a
  producer refers to one capture at most (`OneJob`), a capture has one owner
  (`OneOwner`), the audio watchdog acts while its service runs unless the end of
  the service overtook it (`WatchdogFollows`), and one instance is up at a time
  (`OneInstance`). `OneCaptureListens` follows: on the whole phone at most one
  capture listens, those left aside that `NoneListens` names. `RebootsAreApart`
  needs that the stamp of the last reboot is no older than the reboot, unless it
  was lost (`StampInv`).
- `FeedersProofs`: all invariants and the action property of the run `feeders`.
  `FramesArePlaced`: the gateway knows the place of a frame from the message
  before it, and the producer leaves out a message about a place it sent already,
  so the invariant goes along the queue: each frame in it has the place the
  messages before it leave (`Queued`), and the producer remembers the place the
  whole queue leaves (`Remembered`). `PhonesStayVisible`: a bound on the age of
  the hot state for each phase of the cycle (`AgeBound`), in terms of the longest
  refresh so far: what it is worth depends on how long refreshes take, which the
  code does not bound. `DetectionsCountOnce` and `MarkPassesNone`:
  what was counted is behind the mark, what the last query found is not
  (`Counting`), and what the mark will pass is either in that query or already
  known to be passed (`Passing`). `VerdictsAreKept`: a window that was judged
  lies too far back for a detection stamped now (`Verdicts`).
  `GroundTruthIsRuns`: for a clip of any length, the loop over the labels finds
  the longest labelled stretches and nothing else. This is an induction over the
  clip, done through a least counterexample: `WFMin` gives the least element of a
  set of numbers, which needs no operator as a parameter (`Least`, `Upward`), and
  the same way shows that the recursive function exists (`LoopExists`).

Each rests on the named ASSUMEs of the module it is about, which say that sizes
are positive and that the given functions and sets have their types;
`SimulatorTimes` only that times are natural numbers.
Lemmas about queues and the subscription stand in the modules that use them.

Only model-checked: the liveness properties (`WipeReachesDevice`,
`EverySettles`, `EveryCounted`, `EveryFrameSettles`, `CaptureResumes`,
`DarkServiceRestarts`, `AbandonedRunsEnd`, `StationGoesOn`, `BridgeGoesOn`,
`ClipsSettle`), since fairness and ENABLED are out of the prover's reach. Every
invariant and action property of a passing run is a theorem.

## Plan

1. Fleet: registry, gateway, operators (done).
2. `TakPublisher` (done).
3. `Egress` (done).
4. `Inference` (done).
5. `PhoneSession` with its proofs: the phone's client and the gateway's receive
   loop (done).
6. `AudioReceiver` with its proofs (done).
7. `PhoneService`: captures, watchdogs, reboots (done).
8. `Feeders`: the scripts that stand in for phones, the report of the replay
   fleet, and their proofs (done).
9. Proofs about `PhoneService` (done).
10. Left: composition phone - receive loop - inference for the end-to-end
    promises, with the refinement of an abstract stream of frames.

## Not modelled

The neural network, FLAC encoding, CoT formatting beyond what decides whether an
event is sent, dashboards, provisioning and kiosk screens, the Wi-Fi set-up
helper and infrastructure (see `PROJECT.json`, `components`): they compute or
show, and keep no state that others write. Of the scripts: the mock TAK server,
playback clock, mixing and encoders of the replay fleet, the keys it makes for
its stations and the simulator for its phones, the wording of the report. Within
modelled parts: a message of the bridge that an old handler of the gateway takes
after a new one has begun (`PhoneSession` has that for phones); the steps within
the TAK publisher's insertion into its dedup set, `Enqueue`, which is taken as one;
credentials and token refresh, health endpoints, statistics that nothing
reads (`_Stats` of the audio receiver among them), how long a back-off
lasts; the TAK publisher's `dedup_window_seconds`, which the code does not use,
and a `KeyError` of `move_to_end` when another thread evicts the key between
test and move; that a completed drain of the TAK socket is not an arrival at the
server; the look-up of locations by the inference publisher.
