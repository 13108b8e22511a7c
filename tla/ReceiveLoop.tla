------------------------------ MODULE ReceiveLoop ------------------------------
(***************************************************************************)
(* The gateway's end of the streams of one device, from the first message  *)
(* on: the handshake, the hot state in Redis, the receive loop.  (Gateway  *)
(* has the authentication and the lifecycle, and what a handshake awaits.) *)
(*                                                                         *)
(* Each stream has a handler of its own, perhaps in another instance.  It  *)
(* takes its messages one by one; a step ends where it awaits.  The        *)
(* handler of a call the phone has given up goes on with what it still     *)
(* has, beside the handler of the next call.  The hot state is one record  *)
(* per device, read and written as a whole.                                *)
(***************************************************************************)
EXTENDS StreamingClient, FiniteSets

CONSTANT AckInterval    \* ack_interval_frames

ASSUME AckAssumption == AckInterval \in Nat \ {0}

VARIABLES
  muted,            \* the device is lost: not publish_audio
  handler,          \* per call
  record,           \* the device's DeviceState in Redis, or {}
  place,            \* current_location in the registry
  stream,           \* the frames in the Redis stream, in order
  received          \* per call: the frames its handler has taken

gateway == <<muted, handler, record, place, stream, received>>

Phases == {"idle", "init", "receive", "touch", "publish", "report",
           "refused", "closed"}

Records == [session : Calls, number : -1..MaxFrames, frames : Nat]

NoFrame == [run |-> 1, number |-> 0]

Handlers == [phase : Phases,
             fix   : Fixes,                  \* of the handshake
             acked : -1..MaxFrames,          \* last_acked_seq
             frame : Frames,                 \* the message at hand
             held  : SUBSET Records]         \* what GET returned

Idle == [phase |-> "idle", fix |-> "none", acked |-> -1,
         frame |-> NoFrame, held |-> {}]

\* "nowhere" is the GeoPoint(0, 0) of a location without coordinates.
Places == {"none", "nowhere", "known"}

LoopInit ==
  /\ muted \in BOOLEAN
  /\ handler = [c \in Calls |-> Idle]
  /\ record = {}
  /\ place = "known"
  /\ stream = <<>>
  /\ received = [c \in Calls |-> <<>>]

Live(c) == handler[c].phase \in {"init", "receive", "touch", "publish", "report"}

Streaming(c) == handler[c].phase \in {"receive", "touch", "publish", "report"}

frames_received(c) == Len(received[c])

Become(c, h) == handler' = [handler EXCEPT ![c] = h]

Take(c) == inbox' = [inbox EXCEPT ![c] = Tail(@)]

Arrived(c, kind) == inbox[c] # <<>> /\ Head(inbox[c]).kind = kind

\* To a call the phone has given up it leads nowhere.
SendAck(c, n) ==
  outbox' = IF c = call /\ phase = "open" THEN [outbox EXCEPT ![c] = Append(@, n)]
                                          ELSE outbox

-----------------------------------------------------------------------------
(* The handshake *)

\* The first message must be a handshake.
Refuse(c) ==
  /\ handler[c].phase = "idle"
  /\ inbox[c] # <<>> /\ ~Arrived(c, "handshake")
  /\ Become(c, [Idle EXCEPT !.phase = "refused"])
  /\ Take(c)
  /\ UNCHANGED <<record, place, stream, received, outbox>>

\* Mutant: a handshake without a location counts as one at (0, 0).
PlaceOfDefault(f) == IF f = "known" THEN "known" ELSE "nowhere"

\* A location the phone does not know yet has the coordinates (0, 0).
PlaceOf(f) ==
  CASE f = "none"        -> place
    [] f = "unavailable" -> "nowhere"
    [] f = "known"       -> "known"

\* The handshake and its upsert in the registry.  That a handler may wait long
\* between the two is no different from one that takes its handshake late.
Accept(c) ==
  /\ handler[c].phase = "idle"
  /\ Arrived(c, "handshake")
  /\ place' = PlaceOf(Head(inbox[c]).fix)
  /\ Become(c, [Idle EXCEPT !.phase = "init", !.fix = Head(inbox[c]).fix])
  /\ Take(c)
  /\ UNCHANGED <<record, stream, received, outbox>>

\* init_session; the SessionAck follows.
InitSession(c) ==
  /\ handler[c].phase = "init"
  /\ record' = {[session |-> c, number |-> -1, frames |-> 0]}
  /\ Become(c, [handler[c] EXCEPT !.phase = "receive"])
  /\ UNCHANGED <<place, stream, received, inbox, outbox>>

-----------------------------------------------------------------------------
(* The receive loop *)

\* Mutant: acknowledged as soon as it is counted.
ReceiveAndAck(c) ==
  /\ handler[c].phase = "receive"
  /\ Arrived(c, "frame")
  /\ received' = [received EXCEPT ![c] = Append(@, Head(inbox[c]).frame)]
  /\ Become(c, [handler[c] EXCEPT !.phase = "touch", !.held = record,
                                  !.frame = Head(inbox[c]).frame])
  /\ Take(c)
  /\ SendAck(c, Head(inbox[c]).frame.number)
  /\ UNCHANGED <<record, place, stream>>

\* A frame is counted, then touch reads the record.
ReceiveFrame(c) ==
  /\ handler[c].phase = "receive"
  /\ Arrived(c, "frame")
  /\ received' = [received EXCEPT ![c] = Append(@, Head(inbox[c]).frame)]
  /\ Become(c, [handler[c] EXCEPT !.phase = "touch", !.held = record,
                                  !.frame = Head(inbox[c]).frame])
  /\ Take(c)
  /\ UNCHANGED <<record, place, stream, outbox>>

\* Mutant: counts on from what it read.
CountsOn(c) ==
  {[r EXCEPT !.number = handler[c].frame.number, !.frames = @ + 1] :
     r \in handler[c].held}

\* The record as it was read, with the counters of this stream.
Touched(c) ==
  {[r EXCEPT !.number = handler[c].frame.number, !.frames = frames_received(c)] :
     r \in handler[c].held}

\* A record that is gone is not created anew.
WriteBack(records) == record' = IF records = {} THEN record ELSE records

\* touch writes it; update_audio_codec follows when the codec changed.
Touch(c) ==
  /\ handler[c].phase = "touch"
  /\ WriteBack(Touched(c))
  /\ Become(c, [handler[c] EXCEPT !.phase = "publish", !.held = {}])
  /\ UNCHANGED <<place, stream, received, inbox, outbox>>

\* Mutant: one frame late.
AckLater(c) == handler[c].frame.number - handler[c].acked > AckInterval

AckDue(c) == handler[c].frame.number - handler[c].acked >= AckInterval

Acks(c, h) ==
  \/ /\ AckDue(c)
     /\ Become(c, [h EXCEPT !.acked = h.frame.number, !.frame = NoFrame])
     /\ SendAck(c, h.frame.number)
  \/ /\ ~AckDue(c)
     /\ Become(c, [h EXCEPT !.frame = NoFrame])
     /\ UNCHANGED outbox

\* publish_frame unless the device is muted, then perhaps a FrameAck.
Publish(c) ==
  /\ handler[c].phase = "publish"
  /\ stream' = IF muted THEN stream
               ELSE Append(stream, [call |-> c, frame |-> handler[c].frame])
  /\ Acks(c, [handler[c] EXCEPT !.phase = "receive"])
  /\ UNCHANGED <<record, place, received, inbox>>

\* update_health reads the record as touch does, ...
ReceiveHealth(c) ==
  /\ handler[c].phase = "receive"
  /\ Arrived(c, "health")
  /\ Become(c, [handler[c] EXCEPT !.phase = "report", !.held = record])
  /\ Take(c)
  /\ UNCHANGED <<record, place, stream, received, outbox>>

\* ... and writes all of it back.
UpdateHealth(c) ==
  /\ handler[c].phase = "report"
  /\ WriteBack(handler[c].held)
  /\ Become(c, [handler[c] EXCEPT !.phase = "receive", !.held = {}])
  /\ UNCHANGED <<place, stream, received, inbox, outbox>>

\* update_location, a plain write.
ReceiveLocation(c) ==
  /\ handler[c].phase = "receive"
  /\ Arrived(c, "location")
  /\ place' = "known"
  /\ Take(c)
  /\ UNCHANGED <<handler, record, stream, received, outbox>>

-----------------------------------------------------------------------------
(* The end of a stream *)

\* Mutant: the record goes with the stream.
EndAndClear(c) ==
  /\ Live(c)
  /\ Become(c, [handler[c] EXCEPT !.phase = "closed", !.frame = NoFrame, !.held = {}])
  /\ inbox' = [inbox EXCEPT ![c] = <<>>]
  /\ record' = {}
  /\ UNCHANGED <<place, stream, received, outbox>>

\* At any await: a call of the handler fails, the stream breaks, the instance
\* goes.  mark_disconnected writes only last_disconnect_*, the record stays.
End(c) ==
  /\ Live(c)
  /\ Become(c, [handler[c] EXCEPT !.phase = "closed", !.frame = NoFrame, !.held = {}])
  /\ inbox' = [inbox EXCEPT ![c] = <<>>]
  /\ UNCHANGED <<record, place, stream, received, outbox>>

LoopNext ==
  \E c \in Calls :
    \/ Accept(c) \/ Refuse(c) \/ InitSession(c)
    \/ ReceiveFrame(c) \/ Touch(c) \/ Publish(c)
    \/ ReceiveHealth(c) \/ UpdateHealth(c) \/ ReceiveLocation(c)
    \/ End(c)

LoopTypeOK ==
  /\ muted \in BOOLEAN
  /\ handler \in [Calls -> Handlers]
  /\ \A c \in Calls : \A r1, r2 \in handler[c].held : r1 = r2
  /\ record \in SUBSET Records
  /\ \A r1, r2 \in record : r1 = r2
  /\ place \in Places
  /\ stream \in Seq([call : Calls, frame : Frames])
  /\ received \in [Calls -> Seq(Frames)]
=============================================================================
