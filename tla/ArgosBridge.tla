------------------------------ MODULE ArgosBridge ------------------------------
(***************************************************************************)
(* One station of scripts/argos_bridge/bridge.py: a session walks the      *)
(* clips of a bucket and streams a frame per clip, preceded by a           *)
(* LocationUpdate where the clip was recorded elsewhere.  A producer task  *)
(* fills a bounded queue, the call drains it; the session task waits for   *)
(* the call and cancels the producer.                                      *)
(***************************************************************************)
EXTENDS Naturals, Sequences

CONSTANTS
  Places,           \* positions
  Nowhere,          \* (0, 0), or no position at all
  Registry,         \* position of the station in BigQuery, or Nowhere
  Far,              \* places more than SANITY_DIST_KM from the registry's
  Snap,             \* BRIDGE_SNAP_TO_REGISTRY
  Room,             \* maxsize of msg_queue
  MaxClips          \* clips of a session, window_hours * 240

ASSUME BridgeAssumption ==
  /\ Nowhere \notin Places /\ Registry \in Places \cup {Nowhere} /\ Far \subseteq Places
  /\ Snap \in BOOLEAN /\ Room \in Nat \ {0} /\ MaxClips \in Nat \ {0}

VARIABLES
  session,          \* _run_session and the loop around it
  producer,         \* where the producer task is
  clip,             \* clips begun
  loc,              \* resolved location of the clip
  lastLoc,          \* last_loc
  msgs,             \* msg_queue
  bridgeCall,       \* the call
  gatewayLoc,       \* the location the stream told the gateway last
  placed,           \* per received frame: <<its location, the gateway's>>
  shutdown

bridgeVars == <<session, producer, clip, loc, lastLoc, msgs, bridgeCall, gatewayLoc,
                placed, shutdown>>

BridgeInit ==
  /\ session = "backoff" /\ producer = "none" /\ clip = 0
  /\ loc = Nowhere /\ lastLoc = Nowhere /\ msgs = <<>> /\ bridgeCall = "none"
  /\ gatewayLoc = Nowhere /\ placed = {} /\ shutdown = FALSE

\* LocationResolver.resolve, sidecar first; Nowhere is None.
Resolve(sidecar) ==
  IF sidecar = Nowhere \/ (Snap /\ Registry # Nowhere /\ sidecar \in Far)
  THEN Registry ELSE sidecar

\* The clip's sidecar, or none that can be fetched.
Sidecars == Places \cup {Nowhere}

Message(kind) == [kind |-> kind, loc |-> loc]

Put(m) == Len(msgs) < Room /\ msgs' = Append(msgs, m)

\* A session begins with the location of its first clip; without one it waits.
OpenSession ==
  /\ session = "backoff" /\ ~shutdown
  /\ \E sidecar \in Sidecars :
       /\ Resolve(sidecar) # Nowhere
       /\ loc' = Resolve(sidecar) /\ lastLoc' = Resolve(sidecar)
  /\ session' = "open" /\ producer' = "handshake" /\ clip' = 1
  /\ bridgeCall' = "live"
  /\ UNCHANGED <<msgs, gatewayLoc, placed, shutdown>>

PutHandshake ==
  /\ producer = "handshake"
  /\ Put(Message("handshake"))
  /\ producer' = IF shutdown THEN "finish" ELSE "fetch"
  /\ UNCHANGED <<session, clip, loc, lastLoc, bridgeCall, gatewayLoc, placed, shutdown>>

NextClip ==
  /\ producer = "clip" /\ clip < MaxClips /\ ~shutdown
  /\ clip' = clip + 1
  /\ \E sidecar \in Sidecars :
       LET l == Resolve(sidecar)
       IN IF l = Nowhere
          THEN producer' = "pace" /\ UNCHANGED loc
          ELSE loc' = l /\ producer' = IF l # lastLoc THEN "update" ELSE "fetch"
  /\ UNCHANGED <<session, lastLoc, msgs, bridgeCall, gatewayLoc, placed, shutdown>>

\* Mutant: compares with the first location for ever.
PutUpdateOnly ==
  /\ producer = "update"
  /\ Put(Message("update"))
  /\ producer' = "fetch"
  /\ UNCHANGED <<session, clip, loc, lastLoc, bridgeCall, gatewayLoc, placed, shutdown>>

PutUpdate ==
  /\ producer = "update"
  /\ Put(Message("update"))
  /\ lastLoc' = loc
  /\ producer' = "fetch"
  /\ UNCHANGED <<session, clip, loc, bridgeCall, gatewayLoc, placed, shutdown>>

\* Download and conversion; a clip that fails is skipped.
Fetch ==
  /\ producer = "fetch"
  /\ producer' \in {"frame", "pace"}
  /\ UNCHANGED <<session, clip, loc, lastLoc, msgs, bridgeCall, gatewayLoc, placed,
                 shutdown>>

PutClip ==
  /\ producer = "frame"
  /\ Put(Message("frame"))
  /\ producer' = "pace"
  /\ UNCHANGED <<session, clip, loc, lastLoc, bridgeCall, gatewayLoc, placed, shutdown>>

Pace ==
  /\ producer = "pace"
  /\ producer' = IF shutdown THEN "finish" ELSE "clip"
  /\ UNCHANGED <<session, clip, loc, lastLoc, msgs, bridgeCall, gatewayLoc, placed,
                 shutdown>>

LastClip ==
  /\ producer = "clip" /\ (clip = MaxClips \/ shutdown)
  /\ producer' = "finish"
  /\ UNCHANGED <<session, clip, loc, lastLoc, msgs, bridgeCall, gatewayLoc, placed,
                 shutdown>>

\* The finally: put(None), which waits for room.
Finish ==
  /\ producer = "finish"
  /\ Put(Message("none"))
  /\ producer' = "finished"
  /\ UNCHANGED <<session, clip, loc, lastLoc, bridgeCall, gatewayLoc, placed, shutdown>>

-----------------------------------------------------------------------------
(* The call *)

\* Handshake and LocationUpdate carry a location, None half-closes the call.
TakeMessage ==
  /\ bridgeCall = "live" /\ msgs # <<>>
  /\ msgs' = Tail(msgs)
  /\ LET m == Head(msgs)
     IN /\ gatewayLoc' = IF m.kind \in {"handshake", "update"} THEN m.loc ELSE gatewayLoc
        /\ placed' = IF m.kind = "frame" THEN placed \cup {<<m.loc, gatewayLoc>>}
                     ELSE placed
        /\ bridgeCall' = IF m.kind = "none" THEN "over" ELSE "live"
  /\ UNCHANGED <<session, producer, clip, loc, lastLoc, shutdown>>

CallBreaks ==
  /\ bridgeCall = "live" /\ bridgeCall' = "over"
  /\ UNCHANGED <<session, producer, clip, loc, lastLoc, msgs, gatewayLoc, placed, shutdown>>

\* Mutant: waits for the producer and does not cancel it.
Await ==
  /\ session = "open" /\ bridgeCall = "over" /\ producer # "finished"
  /\ session' = "cancelling"
  /\ UNCHANGED <<producer, clip, loc, lastLoc, msgs, bridgeCall, gatewayLoc, placed,
                 shutdown>>

\* prod_task.cancel: the producer's await raises, and its finally runs unless it
\* was there already.
Cancel ==
  /\ session = "open" /\ bridgeCall = "over" /\ producer # "finished"
  /\ session' = "cancelling"
  /\ producer' = IF producer = "finish" THEN "finished" ELSE "finish"
  /\ UNCHANGED <<clip, loc, lastLoc, msgs, bridgeCall, gatewayLoc, placed, shutdown>>

SessionOver ==
  /\ session \in {"open", "cancelling"} /\ bridgeCall = "over" /\ producer = "finished"
  /\ session' = "backoff" /\ producer' = "none" /\ clip' = 0
  /\ msgs' = <<>> /\ bridgeCall' = "none"
  /\ loc' = Nowhere /\ lastLoc' = Nowhere
  /\ UNCHANGED <<gatewayLoc, placed, shutdown>>

ReturnsOnShutdown ==
  /\ session = "backoff" /\ shutdown
  /\ session' = "done"
  /\ UNCHANGED <<producer, clip, loc, lastLoc, msgs, bridgeCall, gatewayLoc, placed,
                 shutdown>>

Shutdown ==
  /\ ~shutdown /\ shutdown' = TRUE
  /\ UNCHANGED <<session, producer, clip, loc, lastLoc, msgs, bridgeCall, gatewayLoc,
                 placed>>

Producer ==
  \/ PutHandshake \/ NextClip \/ PutUpdate \/ Fetch \/ PutClip \/ Pace \/ LastClip
  \/ Finish

SessionTask == OpenSession \/ Cancel \/ SessionOver \/ ReturnsOnShutdown

BridgeNext ==
  Producer \/ SessionTask \/ TakeMessage \/ CallBreaks \/ Shutdown

-----------------------------------------------------------------------------
(* Properties *)

BridgeTypeOK ==
  /\ session \in {"backoff", "open", "cancelling", "done"}
  /\ producer \in {"none", "handshake", "clip", "update", "fetch", "frame", "pace",
                   "finish", "finished"}
  /\ clip \in 0..MaxClips
  /\ {loc, lastLoc, gatewayLoc} \subseteq Sidecars
  /\ Len(msgs) <= Room
  /\ \A i \in DOMAIN msgs :
       msgs[i] \in [kind : {"handshake", "update", "frame", "none"}, loc : Places]
  /\ bridgeCall \in {"none", "live", "over"} /\ shutdown \in BOOLEAN
  /\ placed \subseteq Places \X Sidecars

\* When the gateway receives a frame, the location it has for the station is the
\* one that was resolved for the clip, whatever was skipped or failed before.
FramesPlaced == \A p \in placed : p[1] = p[2]

\* A call that is over is followed by the back-off and the next session, unless
\* the queue is full: then the cancelled producer waits for room for its None,
\* and the session for the producer.
BridgeGoesOn ==
  bridgeCall = "over" ~>
    bridgeCall # "over" \/ (producer = "finish" /\ Len(msgs) = Room)
=============================================================================
