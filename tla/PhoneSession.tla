----------------------------- MODULE PhoneSession -----------------------------
(***************************************************************************)
(* One phone and the gateway: the calls of StreamingClient and their       *)
(* handlers, over one registry, one Redis record and one frame stream.     *)
(***************************************************************************)
EXTENDS ReceiveLoop

VARIABLES
  flooded,          \* calls whose channel overflowed onto the handshake
  lost              \* Redis lost the record since the last init_session

vars == <<client, gateway, flooded, lost>>

Init ==
  /\ ClientInit /\ LoopInit
  /\ flooded = {} /\ lost = FALSE

HandshakeWaits(channel) == channel # <<>> /\ Head(channel).kind = "handshake"

ClientStep ==
  /\ ClientNext
  /\ flooded' = IF Calling' /\ HandshakeWaits(outbound) /\ ~HandshakeWaits(outbound')
                   /\ inbox' = inbox
                THEN flooded \cup {call} ELSE flooded
  /\ UNCHANGED <<gateway, lost>>

GatewayStep ==
  /\ LoopNext
  /\ lost' = (lost /\ \A c \in Calls : ~(handler[c].phase = "init"
                                           /\ handler'[c].phase = "receive"))
  /\ UNCHANGED <<muted, phase, call, outbound, extras, fix, run, next, produced,
                 acked, flooded>>

\* The key expires while the stream is silent, or Redis restarts.
LoseRecord ==
  /\ record # {}
  /\ record' = {}
  /\ lost' = TRUE
  /\ UNCHANGED <<client, muted, handler, place, stream, received, flooded>>

Next == ClientStep \/ GatewayStep \/ LoseRecord

Spec == Init /\ [][Next]_vars
-----------------------------------------------------------------------------
(* Properties *)

TypeOK ==
  /\ ClientTypeOK /\ LoopTypeOK
  /\ flooded \subseteq Calls /\ lost \in BOOLEAN

Published(c, frame) == \E i \in DOMAIN stream : stream[i] = [call |-> c, frame |-> frame]

\* An ack the phone has heard covers nothing the gateway still holds: every
\* frame the handler took up to the acknowledged one is in the stream, unless
\* the device is muted (service.py: publish_frame before FrameAck).
AckedIsPublished ==
  \/ acked.number = -1
  \/ muted
  \/ \E i \in DOMAIN received[acked.call] :
       /\ received[acked.call][i].number = acked.number
       /\ \A j \in 1..i : Published(acked.call, received[acked.call][j])

Before(f, g) == f.run < g.run \/ (f.run = g.run /\ f.number < g.number)

\* No frame is in the stream twice, and the frames of one call are there in the
\* order of their capture, although calls overlap and both channels drop.
StreamInOrder ==
  \A i, j \in DOMAIN stream :
    i < j =>
      /\ stream[i].frame # stream[j].frame
      /\ stream[i].call = stream[j].call => Before(stream[i].frame, stream[j].frame)

Restarted(c) == \E i, j \in DOMAIN received[c] : received[c][i].run # received[c][j].run

Unacked(c) == {i \in DOMAIN received[c] :
                 \A j \in DOMAIN received[c] :
                   received[c][j].number = handler[c].acked => j < i}

\* Between two messages fewer than AckInterval frames of a stream wait for
\* their ack, frames lost on the way or not, unless the capture was restarted
\* on it: then the new numbers must first catch up (service.py: last_acked_seq).
AcksKeepUp ==
  \A c \in Calls :
    handler[c].phase = "receive" /\ ~Restarted(c) =>
      Cardinality(Unacked(c)) < AckInterval

\* The gateway refuses a call for want of a handshake only if the phone's
\* channel overflowed before the connection was there (StreamingClient.kt:
\* outbound.trySend(handshake) before the forwarders).
RefusedWhenFlooded ==
  \A c \in Calls : handler[c].phase = "refused" => c \in flooded

\* The two counters of the record belong together: one stream really had that
\* number of frames when it took the frame of that number, whichever streams
\* wrote whole records over each other (state.py: touch).
CountersOfOneStream ==
  \A r \in record :
    \/ r.frames = 0 /\ r.number = -1
    \/ \E c \in Calls :
         r.frames \in DOMAIN received[c] /\ received[c][r.frames].number = r.number

\* The row of the admin's status page: 0 is shown as -1.
LiveDevices ==
  {[r EXCEPT !.number = IF @ = 0 THEN -1 ELSE @] : r \in record}

\* A device with an open stream is on the status page, whatever earlier streams
\* of it still do, unless Redis lost its record during the session.
ShownWhileStreaming ==
  (\E c \in Calls : Streaming(c)) => LiveDevices # {} \/ lost

\* The registry has (0, 0) for a device only after a handshake the phone built
\* with permission to locate itself and no fix yet.
NowhereWithoutFix ==
  place = "nowhere" => \E c \in Calls : handler[c].fix = "unavailable"
=============================================================================
