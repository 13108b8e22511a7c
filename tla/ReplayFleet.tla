------------------------------ MODULE ReplayFleet ------------------------------
(***************************************************************************)
(* One station of scripts/replay_fleet.py: a thread that streams frames to *)
(* the gateway through a bounded queue, call after call, and offers each   *)
(* to an audio receiver through a second one (the egress tap).             *)
(*                                                                         *)
(* A leg is a queue with the gRPC thread that drains it into a call.  The  *)
(* station learns nothing of a call that ends: the drainer thread drops    *)
(* the error.  The thread of a call that is over takes one more message.   *)
(***************************************************************************)
EXTENDS Naturals, Sequences

CONSTANTS
  Depth,            \* maxsize of both queues
  MaxSequence,      \* bound of the frames
  MaxCalls          \* bound of the sessions

ASSUME FleetAssumption == Depth \in Nat \ {0} /\ MaxSequence \in Nat /\ MaxCalls \in Nat

VARIABLES
  station,          \* where the thread is
  stopped,          \* stop_event
  sequence,         \* sequence_state[0]
  calls,            \* sessions so far
  stream,           \* the leg to the gateway
  tap               \* the leg to the receiver

fleetVars == <<station, stopped, sequence, calls, stream, tap>>

Handshake == 0      \* frames are numbered from 1
EndOfStream == MaxSequence + 1

NoLeg == [call |-> "none", queue |-> <<>>]

FleetInit ==
  /\ station = "away" /\ stopped = FALSE
  /\ sequence = 0 /\ calls = 0
  /\ stream = NoLeg /\ tap = NoLeg

IsFull(leg) == Len(leg.queue) = Depth

\* put_nowait; a tap that is off has no queue.
Offer(leg, m) ==
  IF leg.call = "none" \/ IsFull(leg) THEN leg
  ELSE [leg EXCEPT !.queue = Append(@, m)]

\* The handshake is in the queue before the call; the tap is off, or its
\* channel cannot be opened, or it has the handshake too.
Connect ==
  /\ station = "away" /\ ~stopped /\ calls < MaxCalls
  /\ calls' = calls + 1 /\ station' = "cadence"
  /\ stream' = [call |-> "live", queue |-> <<Handshake>>]
  /\ tap' \in {NoLeg, [call |-> "live", queue |-> <<Handshake>>]}
  /\ UNCHANGED <<stopped, sequence>>

Encode ==
  /\ station = "cadence" /\ ~stopped /\ sequence < MaxSequence
  /\ sequence' = sequence + 1 /\ station' = "put"
  /\ UNCHANGED <<stopped, calls, stream, tap>>

PutFrame ==
  /\ station = "put" /\ ~IsFull(stream)
  /\ stream' = Offer(stream, sequence)
  /\ station' = "tap"
  /\ UNCHANGED <<stopped, sequence, calls, tap>>

\* Mutant: tries again.
PutAgain ==
  /\ station = "put" /\ IsFull(stream)
  /\ UNCHANGED fleetVars

\* No room for a whole cadence: break.
PutTimesOut ==
  /\ station = "put" /\ IsFull(stream)
  /\ station' = "end"
  /\ UNCHANGED <<stopped, sequence, calls, stream, tap>>

OfferToTap ==
  /\ station = "tap"
  /\ tap' = Offer(tap, sequence)
  /\ station' \in {"refresh", "cadence"}
  /\ UNCHANGED <<stopped, sequence, calls, stream>>

\* The heartbeat: another handshake, or after a second without room the next
\* time.
Refresh ==
  /\ station = "refresh"
  /\ station' = "cadence"
  /\ stream' = Offer(stream, Handshake)
  /\ tap' = IF IsFull(stream) THEN tap ELSE Offer(tap, Handshake)
  /\ UNCHANGED <<stopped, sequence, calls>>

SeesStop ==
  /\ station = "cadence" /\ stopped
  /\ station' = "end"
  /\ UNCHANGED <<stopped, sequence, calls, stream, tap>>

\* send_q.put without a timeout.
PutEnd ==
  /\ station = "end" /\ ~IsFull(stream)
  /\ stream' = Offer(stream, EndOfStream)
  /\ tap' = Offer(tap, EndOfStream)
  /\ station' = "close"
  /\ UNCHANGED <<stopped, sequence, calls>>

\* channel.close ends both calls, whatever is in the queues.
Close ==
  /\ station = "close"
  /\ stream' = NoLeg /\ tap' = NoLeg
  /\ station' = IF stopped THEN "done" ELSE "away"
  /\ UNCHANGED <<stopped, sequence, calls>>

Returns ==
  /\ station = "away" /\ stopped
  /\ station' = "done"
  /\ UNCHANGED <<stopped, sequence, calls, stream, tap>>

Stop ==
  /\ ~stopped /\ stopped' = TRUE
  /\ UNCHANGED <<station, sequence, calls, stream, tap>>

-----------------------------------------------------------------------------
(* The calls *)

Drained(leg) ==
  [call |-> IF Head(leg.queue) = EndOfStream THEN "over" ELSE leg.call,
   queue |-> Tail(leg.queue)]

GatewayTakes ==
  /\ stream.call = "live" /\ stream.queue # <<>>
  /\ stream' = Drained(stream)
  /\ UNCHANGED <<station, stopped, sequence, calls, tap>>

ReceiverTakes ==
  /\ tap.call = "live" /\ tap.queue # <<>>
  /\ tap' = Drained(tap)
  /\ UNCHANGED <<station, stopped, sequence, calls, stream>>

Dies(leg) ==
  \/ leg.call = "live" /\ leg' = [leg EXCEPT !.call = "dying"]
  \/ /\ leg.call = "dying" /\ leg.queue # <<>>
     /\ leg' = [call |-> "over", queue |-> Tail(leg.queue)]

StreamDies ==
  /\ Dies(stream)
  /\ UNCHANGED <<station, stopped, sequence, calls, tap>>

TapDies ==
  /\ Dies(tap)
  /\ UNCHANGED <<station, stopped, sequence, calls, stream>>

Thread ==
  \/ Connect \/ Encode \/ PutFrame \/ PutTimesOut \/ OfferToTap \/ Refresh
  \/ SeesStop \/ PutEnd \/ Close \/ Returns

FleetNext ==
  \/ Thread \/ Stop \/ GatewayTakes \/ ReceiverTakes \/ StreamDies \/ TapDies

-----------------------------------------------------------------------------
(* Properties *)

FleetTypeOK ==
  /\ station \in {"away", "cadence", "put", "tap", "refresh", "end", "close", "done"}
  /\ stopped \in BOOLEAN /\ sequence \in 0..MaxSequence /\ calls \in 0..MaxCalls
  /\ \A leg \in {stream, tap} :
       /\ leg.call \in {"none", "live", "dying", "over"}
       /\ leg.queue \in Seq(0..EndOfStream) /\ Len(leg.queue) <= Depth

Stuck == station = "end" /\ IsFull(stream) /\ stream.call = "over"

\* A station whose call is over has another one, or stops, whatever the receiver
\* of its tap does.  It stays for ever in the put of the end of stream when nobody
\* drains the full queue any more.
StationGoesOn ==
  stream.call = "over" ~>
    \/ stream.call # "over" \/ stopped \/ Stuck
    \/ sequence = MaxSequence
=============================================================================
