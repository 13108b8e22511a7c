-------------------------- MODULE PhoneSessionProofs --------------------------
(***************************************************************************)
(* What holds of a phone and its handlers for any number of calls, frames, *)
(* captures and reports, and channels of any size.                         *)
(***************************************************************************)
EXTENDS PhoneSession, FiniteSetTheorems, FunctionTheorems, TLAPS

-----------------------------------------------------------------------------
(* Types *)

\* A call has a name once it was begun, and numbers do not outrun the frames.
TInv ==
  /\ TypeOK
  /\ next <= produced.frames
  /\ phase # "waiting" => call \in Calls

LEMMA MessageFacts ==
  /\ \A f \in Fixes : HandshakeWith(f) \in Messages /\ HandshakeWith(f).kind = "handshake"
  /\ \A f \in Frames : AudioFrame(f) \in Messages /\ AudioFrame(f).kind = "frame"
  /\ \A m \in Extras : m \in Messages /\ m.kind \in {"health", "location"}
  /\ \A m \in Messages : m.kind = "frame" => m.frame \in Frames
  /\ \A m \in Messages : m.kind = "handshake" => m.fix \in Fixes
<1>1. \A f \in Fixes : HandshakeWith(f) \in Messages /\ HandshakeWith(f).kind = "handshake"
  BY DEF Messages, HandshakeWith
<1>2. \A f \in Frames : AudioFrame(f) \in Messages /\ AudioFrame(f).kind = "frame"
  BY DEF Messages, AudioFrame
<1>3. \A m \in Extras : m \in Messages /\ m.kind \in {"health", "location"}
  BY DEF Messages, Extras, Health, Location
<1>4. ASSUME NEW m \in Messages
      PROVE  /\ m.kind = "frame" => m.frame \in Frames
             /\ m.kind = "handshake" => m.fix \in Fixes
  <2>1. CASE \E f \in Fixes : m = HandshakeWith(f)
    BY <2>1 DEF HandshakeWith
  <2>2. CASE \E f \in Frames : m = AudioFrame(f)
    BY <2>2 DEF AudioFrame
  <2>3. CASE m \in Extras
    BY <2>3 DEF Extras, Health, Location
  <2> QED BY <2>1, <2>2, <2>3 DEF Messages
<1> QED BY <1>1, <1>2, <1>3, <1>4

\* A queue takes one more message, or gives up its first.
LEMMA QueueTypes ==
  ASSUME NEW S, NEW q \in Seq(S)
  PROVE  /\ \A m \in S : Append(q, m) \in Seq(S) /\ Len(Append(q, m)) = Len(q) + 1
         /\ q # <<>> => /\ Head(q) \in S /\ Tail(q) \in Seq(S)
                        /\ Len(Tail(q)) = Len(q) - 1 /\ Len(q) \in Nat \ {0}
OBVIOUS

LEMMA ElementTypes ==
  ASSUME NEW S, NEW q \in Seq(S), NEW i \in DOMAIN q
  PROVE  q[i] \in S
OBVIOUS

LEMMA DropTypes ==
  ASSUME NEW S, NEW q \in Seq(S), Len(q) <= Capacity, NEW m \in S
  PROVE  DropOldest(q, m) \in Seq(S) /\ Len(DropOldest(q, m)) <= Capacity
<1>1. CASE Len(q) < Capacity
  BY <1>1, ClientAssumption DEF DropOldest
<1>2. CASE ~(Len(q) < Capacity)
  <2>1. Len(q) \in Nat /\ Len(q) = Capacity /\ q # <<>>
    BY <1>2, ClientAssumption
  <2>2. Tail(q) \in Seq(S) /\ Len(Tail(q)) = Len(q) - 1
    BY <2>1, QueueTypes
  <2> QED BY <1>2, <2>1, <2>2, QueueTypes, ClientAssumption DEF DropOldest
<1> QED BY <1>1, <1>2

\* What the steps make of a handler and of a record.
LEMMA HandlerUpdates ==
  ASSUME NEW h \in Handlers, NEW f \in Frames, NEW s \in SUBSET Records
  PROVE  /\ [h EXCEPT !.phase = "touch", !.held = s, !.frame = f] \in Handlers
         /\ [h EXCEPT !.phase = "report", !.held = s] \in Handlers
         /\ [h EXCEPT !.phase = "touch", !.held = s, !.frame = f].held = s
         /\ [h EXCEPT !.phase = "report", !.held = s].held = s
<1>1. [h EXCEPT !.phase = "touch", !.held = s, !.frame = f] \in Handlers
  BY DEF Handlers, Phases
<1>2. [h EXCEPT !.phase = "report", !.held = s] \in Handlers
  BY DEF Handlers, Phases
<1> QED BY <1>1, <1>2 DEF Handlers

LEMMA AckUpdates ==
  ASSUME NEW h \in Handlers, NEW n \in -1..MaxFrames, NoFrame \in Frames
  PROVE  /\ [h EXCEPT !.acked = n, !.frame = NoFrame] \in Handlers
         /\ [h EXCEPT !.frame = NoFrame] \in Handlers
         /\ [h EXCEPT !.acked = n, !.frame = NoFrame].held = h.held
         /\ [h EXCEPT !.frame = NoFrame].held = h.held
<1>1. [h EXCEPT !.acked = n, !.frame = NoFrame] \in Handlers
  BY DEF Handlers
<1>2. [h EXCEPT !.frame = NoFrame] \in Handlers
  BY DEF Handlers
<1> QED BY <1>1, <1>2 DEF Handlers

LEMMA RecordUpdates ==
  ASSUME NEW r \in Records, NEW n \in -1..MaxFrames, NEW k \in Nat
  PROVE  [r EXCEPT !.number = n, !.frames = k] \in Records
BY DEF Records

LEMMA TypeInit == Init => TInv
<1> SUFFICES ASSUME Init PROVE TInv
  OBVIOUS
<1>1. NoFrame \in Frames
  BY ClientAssumption DEF NoFrame, Frames
<1>2. Idle \in Handlers
  BY <1>1, ClientAssumption DEF Idle, Handlers, Phases, Fixes, Calls, Records
<1>3. ClientTypeOK /\ next <= produced.frames /\ (phase # "waiting" => call \in Calls)
  BY ClientAssumption DEF Init, ClientInit, ClientTypeOK, Calls, Fixes
<1>4. LoopTypeOK
  BY <1>2 DEF Init, LoopInit, LoopTypeOK, Places, Idle
<1> QED BY <1>3, <1>4 DEF Init, TInv, TypeOK

LEMMA TypeClient ==
  ASSUME TInv, ClientNext
  PROVE  /\ ClientTypeOK' /\ next' <= produced'.frames
         /\ phase' # "waiting" => call' \in Calls
<1> USE ClientAssumption
<1>0. /\ ClientTypeOK /\ next <= produced.frames
      /\ phase # "waiting" => call \in Calls
  BY DEF TInv, TypeOK
<1>1. CASE BeginCall
  <2>1. <<HandshakeWith(fix)>> \in Seq(Messages) /\ Len(<<HandshakeWith(fix)>>) = 1
    BY <1>0, MessageFacts DEF ClientTypeOK
  <2> QED BY <1>0, <1>1, <2>1 DEF BeginCall, ClientTypeOK, Calls
<1>2. CASE Connected
  BY <1>0, <1>2 DEF Connected, ClientTypeOK
<1>3. CASE Transmit
  <2>1. call \in Calls /\ inbox[call] \in Seq(Messages) /\ outbound \in Seq(Messages)
    BY <1>0, <1>3 DEF Transmit, ClientTypeOK
  <2>2. /\ Head(outbound) \in Messages /\ Tail(outbound) \in Seq(Messages)
        /\ Len(Tail(outbound)) <= Capacity
    BY <1>0, <1>3, <2>1, QueueTypes DEF Transmit, ClientTypeOK
  <2>3. /\ Append(inbox[call], Head(outbound)) \in Seq(Messages)
        /\ Len(Append(inbox[call], Head(outbound))) <= Window
    BY <1>3, <2>1, <2>2, QueueTypes DEF Transmit
  <2> QED BY <1>0, <1>3, <2>1, <2>2, <2>3 DEF Transmit, ClientTypeOK
<1>4. CASE HearCommand
  <2>1. call \in Calls /\ outbox[call] \in Seq(0..MaxFrames)
    BY <1>0, <1>4 DEF HearCommand, ClientTypeOK
  <2>2. Head(outbox[call]) \in 0..MaxFrames /\ Tail(outbox[call]) \in Seq(0..MaxFrames)
    BY <1>4, <2>1, QueueTypes DEF HearCommand
  <2>3. acked' \in [call : 0..MaxCalls, number : -1..MaxFrames]
    BY <1>4, <2>1, <2>2 DEF HearCommand, Calls
  <2>4. outbox' \in [Calls -> Seq(0..MaxFrames)]
    BY <1>0, <1>4, <2>2 DEF HearCommand, ClientTypeOK
  <2> QED BY <1>0, <1>4, <2>3, <2>4 DEF HearCommand, ClientTypeOK
<1>5. CASE CallEnds
  <2>1. call \in Calls
    BY <1>0, <1>5 DEF CallEnds, Calling
  <2> QED BY <1>0, <1>5, <2>1 DEF CallEnds, ClientTypeOK
<1>6. CASE Capture
  <2>1. [run |-> run, number |-> next] \in Frames
    BY <1>0 DEF ClientTypeOK, Frames
  <2>2. outbound' \in Seq(Messages) /\ Len(outbound') <= Capacity
    BY <1>0, <1>6, <2>1, MessageFacts, DropTypes DEF Capture, ClientTypeOK
  <2>3. /\ produced.frames \in 0..MaxFrames /\ produced.frames < MaxFrames
        /\ produced.reports \in 0..MaxReports /\ next \in 0..MaxFrames
    BY <1>0, <1>6 DEF Capture, ClientTypeOK
  <2>4. produced' = [frames |-> produced.frames + 1, reports |-> produced.reports]
    BY <1>0, <1>6 DEF Capture, ClientTypeOK
  <2>5. next' = next + 1
    BY <1>6 DEF Capture
  <2>6. /\ produced' \in [frames : 0..MaxFrames, reports : 0..MaxReports]
        /\ next' \in 0..MaxFrames /\ next' <= produced'.frames
    BY <1>0, <2>3, <2>4, <2>5
  <2> QED BY <1>0, <1>6, <2>2, <2>6 DEF Capture, ClientTypeOK
<1>7. CASE RestartCapture
  BY <1>0, <1>7 DEF RestartCapture, ClientTypeOK
<1>8. ASSUME NEW e \in Extras, Submit(e), fix' \in Fixes
      PROVE  /\ ClientTypeOK' /\ next' <= produced'.frames
             /\ phase' # "waiting" => call' \in Calls
  <2>1. extras' \in Seq(Extras) /\ Len(extras') <= Capacity
    BY <1>0, <1>8, DropTypes DEF Submit, ClientTypeOK
  <2>2. /\ produced.frames \in 0..MaxFrames
        /\ produced.reports \in 0..MaxReports /\ produced.reports < MaxReports
    BY <1>0, <1>8 DEF Submit, ClientTypeOK
  <2>3. produced' = [frames |-> produced.frames, reports |-> produced.reports + 1]
    BY <1>0, <1>8 DEF Submit, ClientTypeOK
  <2>4. /\ produced' \in [frames : 0..MaxFrames, reports : 0..MaxReports]
        /\ produced'.frames = produced.frames
    BY <2>2, <2>3
  <2> QED BY <1>0, <1>8, <2>1, <2>4 DEF Submit, ClientTypeOK
<1>9. CASE ReportHealth
  BY <1>0, <1>8, <1>9 DEF ReportHealth, Extras, ClientTypeOK
<1>10. CASE ReportLocation
  BY <1>8, <1>10 DEF ReportLocation, Extras, Fixes
<1>11. CASE ForwardExtra
  <2>1. /\ Head(extras) \in Messages /\ Tail(extras) \in Seq(Extras)
        /\ Len(Tail(extras)) <= Capacity
    BY <1>0, <1>11, QueueTypes, MessageFacts DEF ForwardExtra, ClientTypeOK
  <2>2. outbound' \in Seq(Messages) /\ Len(outbound') <= Capacity
    BY <1>0, <1>11, <2>1, DropTypes DEF ForwardExtra, ClientTypeOK
  <2> QED BY <1>0, <1>11, <2>1, <2>2 DEF ForwardExtra, ClientTypeOK
<1> QED BY <1>1, <1>2, <1>3, <1>4, <1>5, <1>6, <1>7, <1>9, <1>10, <1>11 DEF ClientNext

\* What a step of a handler may do to its own queues and its own record.
LEMMA HandlerFacts ==
  ASSUME TInv, NEW c \in Calls
  PROVE  /\ handler[c] \in Handlers
         /\ inbox[c] # <<>> => /\ Head(inbox[c]) \in Messages
                               /\ Tail(inbox[c]) \in Seq(Messages)
                               /\ Len(Tail(inbox[c])) <= Window
         /\ handler[c].frame \in Frames /\ handler[c].frame.number \in 0..MaxFrames
         /\ handler[c].acked \in -1..MaxFrames
         /\ handler[c].held \in SUBSET Records
         /\ \A r1, r2 \in handler[c].held : r1 = r2
         /\ received[c] \in Seq(Frames)
         /\ outbox[c] \in Seq(0..MaxFrames)
<1>1. handler[c] \in Handlers /\ received[c] \in Seq(Frames) /\ outbox[c] \in Seq(0..MaxFrames)
  BY DEF TInv, TypeOK, LoopTypeOK, ClientTypeOK
<1>2. inbox[c] \in Seq(Messages) /\ Len(inbox[c]) <= Window
  BY DEF TInv, TypeOK, ClientTypeOK
<1>3. inbox[c] # <<>> => /\ Head(inbox[c]) \in Messages
                         /\ Tail(inbox[c]) \in Seq(Messages)
                         /\ Len(Tail(inbox[c])) <= Window
  BY <1>2, QueueTypes, ClientAssumption
<1> QED BY <1>1, <1>3 DEF TInv, TypeOK, LoopTypeOK, Handlers, Frames

LEMMA RecordFacts ==
  TInv => record \in SUBSET Records /\ \A r1, r2 \in record : r1 = r2
BY DEF TInv, TypeOK, LoopTypeOK

\* One step of one handler.
HandlerStep(c) ==
  \/ Accept(c) \/ Refuse(c) \/ InitSession(c)
  \/ ReceiveFrame(c) \/ Touch(c) \/ Publish(c)
  \/ ReceiveHealth(c) \/ UpdateHealth(c) \/ ReceiveLocation(c)
  \/ End(c)

LEMMA TypeLoop ==
  ASSUME TInv, NEW c \in Calls, HandlerStep(c)
  PROVE  /\ handler' \in [Calls -> Handlers]
         /\ \A d \in Calls : \A r1, r2 \in handler'[d].held : r1 = r2
         /\ record' \in SUBSET Records
         /\ \A r1, r2 \in record' : r1 = r2
         /\ place' \in Places
         /\ stream' \in Seq([call : Calls, frame : Frames])
         /\ received' \in [Calls -> Seq(Frames)]
         /\ inbox' \in [Calls -> Seq(Messages)]
         /\ \A d \in Calls : Len(inbox'[d]) <= Window
         /\ outbox' \in [Calls -> Seq(0..MaxFrames)]
<1>0. /\ LoopTypeOK /\ ClientTypeOK
  BY DEF TInv, TypeOK
<1>1. NoFrame \in Frames /\ Idle \in Handlers /\ Idle.held = {}
  BY ClientAssumption DEF Idle, NoFrame, Frames, Handlers, Phases, Fixes
<1>2. ASSUME NEW h \in Handlers, \A r1, r2 \in h.held : r1 = r2, Become(c, h)
      PROVE  /\ handler' \in [Calls -> Handlers]
             /\ \A d \in Calls : \A r1, r2 \in handler'[d].held : r1 = r2
  BY <1>0, <1>2 DEF Become, LoopTypeOK
<1>3. ASSUME inbox[c] # <<>>, Take(c)
      PROVE  /\ inbox' \in [Calls -> Seq(Messages)]
             /\ \A d \in Calls : Len(inbox'[d]) <= Window
  BY <1>0, <1>3, HandlerFacts DEF Take, ClientTypeOK
<1>4. ASSUME UNCHANGED inbox
      PROVE  /\ inbox' \in [Calls -> Seq(Messages)]
             /\ \A d \in Calls : Len(inbox'[d]) <= Window
  BY <1>0, <1>4 DEF ClientTypeOK
<1>5. ASSUME NEW records \in SUBSET Records, \A r1, r2 \in records : r1 = r2, WriteBack(records)
      PROVE  record' \in SUBSET Records /\ \A r1, r2 \in record' : r1 = r2
  BY <1>0, <1>5 DEF WriteBack, LoopTypeOK
<1>6. CASE Accept(c)
  <2>1. PlaceOf(Head(inbox[c]).fix) \in Places /\ Head(inbox[c]).fix \in Fixes
    BY <1>0, <1>6, HandlerFacts, MessageFacts DEF Accept, Arrived, PlaceOf, Places, LoopTypeOK, Fixes
  <2> DEFINE h == [Idle EXCEPT !.phase = "init", !.fix = Head(inbox[c]).fix]
  <2>2. h \in Handlers /\ h.held = {}
    BY <1>1, <2>1 DEF Handlers, Phases, Idle
  <2>3. inbox[c] # <<>> /\ Take(c) /\ Become(c, h)
    BY <1>6 DEF Accept, Arrived
  <2> HIDE DEF h
  <2> QED BY <1>0, <1>2, <1>3, <1>6, <2>1, <2>2, <2>3 DEF Accept, LoopTypeOK, ClientTypeOK
<1>7. CASE Refuse(c)
  <2> DEFINE h == [Idle EXCEPT !.phase = "refused"]
  <2>1. h \in Handlers /\ h.held = {}
    BY <1>1 DEF Handlers, Phases, Idle
  <2>2. inbox[c] # <<>> /\ Take(c) /\ Become(c, h)
    BY <1>7 DEF Refuse
  <2> HIDE DEF h
  <2> QED BY <1>0, <1>2, <1>3, <1>7, <2>1, <2>2 DEF Refuse, LoopTypeOK, ClientTypeOK
<1>8. CASE InitSession(c)
  <2> DEFINE h == [handler[c] EXCEPT !.phase = "receive"]
  <2>1. h \in Handlers /\ \A r1, r2 \in h.held : r1 = r2
    BY HandlerFacts DEF Handlers, Phases
  <2>2. Become(c, h)
    BY <1>8 DEF InitSession
  <2>3. record' \in SUBSET Records /\ \A r1, r2 \in record' : r1 = r2
    BY <1>8, ClientAssumption DEF InitSession, Records
  <2> HIDE DEF h
  <2> QED BY <1>0, <1>2, <1>4, <1>8, <2>1, <2>2, <2>3 DEF InitSession, LoopTypeOK, ClientTypeOK
<1>9. CASE ReceiveFrame(c)
  <2> DEFINE h == [handler[c] EXCEPT !.phase = "touch", !.held = record,
                                     !.frame = Head(inbox[c]).frame]
  <2>1. inbox[c] # <<>> /\ Take(c) /\ Become(c, h)
    BY <1>9 DEF ReceiveFrame, Arrived
  <2>2. Head(inbox[c]).frame \in Frames
    BY <1>9, <2>1, HandlerFacts, MessageFacts DEF ReceiveFrame, Arrived
  <2>3. h \in Handlers /\ h.held = record
    <3>1. handler[c] \in Handlers /\ record \in SUBSET Records
      BY HandlerFacts, RecordFacts
    <3> QED BY <2>2, <3>1, HandlerUpdates
  <2>4. received' \in [Calls -> Seq(Frames)]
    BY <1>0, <1>9, <2>2, HandlerFacts DEF ReceiveFrame, LoopTypeOK
  <2> HIDE DEF h
  <2> QED BY <1>0, <1>2, <1>3, <1>9, <2>1, <2>3, <2>4, RecordFacts DEF ReceiveFrame, LoopTypeOK, ClientTypeOK
<1>10. CASE Touch(c)
  <2> DEFINE h == [handler[c] EXCEPT !.phase = "publish", !.held = {}]
  <2>1. h \in Handlers /\ h.held = {}
    BY HandlerFacts DEF Handlers, Phases
  <2>2. Become(c, h) /\ WriteBack(Touched(c))
    BY <1>10 DEF Touch
  <2>3. Touched(c) \in SUBSET Records /\ \A r1, r2 \in Touched(c) : r1 = r2
    <3>1. handler[c].frame.number \in -1..MaxFrames /\ frames_received(c) \in Nat
      BY HandlerFacts DEF frames_received
    <3>2. handler[c].held \in SUBSET Records
      BY HandlerFacts
    <3>3. Touched(c) \in SUBSET Records
      <4> SUFFICES ASSUME NEW r \in handler[c].held
                   PROVE  [r EXCEPT !.number = handler[c].frame.number,
                                    !.frames = frames_received(c)] \in Records
        BY DEF Touched
      <4> QED BY <3>1, <3>2, RecordUpdates
    <3>4. \A r1, r2 \in Touched(c) : r1 = r2
      BY HandlerFacts DEF Touched
    <3> QED BY <3>3, <3>4
  <2> HIDE DEF h
  <2> QED BY <1>0, <1>2, <1>4, <1>5, <1>10, <2>1, <2>2, <2>3 DEF Touch, LoopTypeOK, ClientTypeOK
<1>11. CASE Publish(c)
  <2>1. ASSUME NEW n \in 0..MaxFrames, SendAck(c, n)
        PROVE  outbox' \in [Calls -> Seq(0..MaxFrames)]
    BY <1>0, <2>1, HandlerFacts DEF SendAck, ClientTypeOK
  <2> DEFINE h == [handler[c] EXCEPT !.phase = "receive"]
             a == [h EXCEPT !.acked = h.frame.number, !.frame = NoFrame]
             b == [h EXCEPT !.frame = NoFrame]
  <2>2. /\ a \in Handlers /\ a.held = handler[c].held
        /\ b \in Handlers /\ b.held = handler[c].held
        /\ h.frame.number \in 0..MaxFrames
    <3>1. h \in Handlers /\ h.held = handler[c].held /\ h.frame = handler[c].frame
      BY HandlerFacts DEF Handlers, Phases
    <3>2. h.frame.number \in 0..MaxFrames
      BY <3>1, HandlerFacts
    <3> HIDE DEF h
    <3>3. h.frame.number \in -1..MaxFrames
      BY <3>2
    <3> QED BY <1>1, <3>1, <3>2, <3>3, AckUpdates
  <2>3. \/ Become(c, a) /\ SendAck(c, h.frame.number)
        \/ Become(c, b) /\ UNCHANGED outbox
    BY <1>11 DEF Publish, Acks
  <2>4. stream' \in Seq([call : Calls, frame : Frames])
    <3>1. [call |-> c, frame |-> handler[c].frame] \in [call : Calls, frame : Frames]
      BY HandlerFacts
    <3>2. stream \in Seq([call : Calls, frame : Frames])
      BY <1>0 DEF LoopTypeOK
    <3>3. \/ stream' = stream
          \/ stream' = Append(stream, [call |-> c, frame |-> handler[c].frame])
      BY <1>11 DEF Publish
    <3> QED BY <3>1, <3>2, <3>3, QueueTypes
  <2> HIDE DEF h, a, b
  <2>5. /\ handler' \in [Calls -> Handlers]
        /\ \A d \in Calls : \A r1, r2 \in handler'[d].held : r1 = r2
        /\ outbox' \in [Calls -> Seq(0..MaxFrames)]
    <3>1. CASE Become(c, a) /\ SendAck(c, h.frame.number)
      BY <1>2, <2>1, <2>2, <3>1, HandlerFacts
    <3>2. CASE Become(c, b) /\ UNCHANGED outbox
      BY <1>0, <1>2, <2>2, <3>2, HandlerFacts DEF ClientTypeOK
    <3> QED BY <2>3, <3>1, <3>2
  <2> QED BY <1>0, <1>4, <1>11, <2>4, <2>5 DEF Publish, LoopTypeOK
<1>12. CASE ReceiveHealth(c)
  <2> DEFINE h == [handler[c] EXCEPT !.phase = "report", !.held = record]
  <2>1. inbox[c] # <<>> /\ Take(c) /\ Become(c, h)
    BY <1>12 DEF ReceiveHealth, Arrived
  <2>2. h \in Handlers /\ h.held = record
    BY <1>1, HandlerFacts, RecordFacts, HandlerUpdates
  <2> HIDE DEF h
  <2> QED BY <1>0, <1>2, <1>3, <1>12, <2>1, <2>2, RecordFacts DEF ReceiveHealth, LoopTypeOK, ClientTypeOK
<1>13. CASE UpdateHealth(c)
  <2> DEFINE h == [handler[c] EXCEPT !.phase = "receive", !.held = {}]
  <2>1. h \in Handlers /\ h.held = {}
    BY HandlerFacts DEF Handlers, Phases
  <2>2. Become(c, h) /\ WriteBack(handler[c].held)
    BY <1>13 DEF UpdateHealth
  <2> HIDE DEF h
  <2>3. record' \in SUBSET Records /\ \A r1, r2 \in record' : r1 = r2
    BY <1>5, <2>2, HandlerFacts
  <2> QED BY <1>0, <1>2, <1>4, <1>13, <2>1, <2>2, <2>3 DEF UpdateHealth, LoopTypeOK, ClientTypeOK
<1>14. CASE ReceiveLocation(c)
  <2>1. inbox[c] # <<>> /\ Take(c)
    BY <1>14 DEF ReceiveLocation, Arrived
  <2> QED BY <1>0, <1>3, <1>14, <2>1 DEF ReceiveLocation, LoopTypeOK, ClientTypeOK, Places
<1>15. CASE End(c)
  <2> DEFINE h == [handler[c] EXCEPT !.phase = "closed", !.frame = NoFrame, !.held = {}]
  <2>1. h \in Handlers /\ h.held = {}
    BY <1>1, HandlerFacts DEF Handlers, Phases
  <2>2. Become(c, h)
    BY <1>15 DEF End
  <2> HIDE DEF h
  <2>3. /\ inbox' \in [Calls -> Seq(Messages)]
        /\ \A d \in Calls : Len(inbox'[d]) <= Window
    <3>1. inbox' = [inbox EXCEPT ![c] = <<>>]
      BY <1>15 DEF End
    <3>2. <<>> \in Seq(Messages) /\ Len(<<>>) <= Window
      BY ClientAssumption
    <3> QED BY <1>0, <3>1, <3>2 DEF ClientTypeOK
  <2> QED BY <1>0, <1>2, <1>15, <2>1, <2>2, <2>3 DEF End, LoopTypeOK, ClientTypeOK
<1> QED BY <1>6, <1>7, <1>8, <1>9, <1>10, <1>11, <1>12, <1>13, <1>14, <1>15 DEF HandlerStep

LEMMA TypeNext == TInv /\ [Next]_vars => TInv'
<1> SUFFICES ASSUME TInv, [Next]_vars PROVE TInv'
  OBVIOUS
<1>0. /\ ClientTypeOK /\ LoopTypeOK /\ flooded \subseteq Calls /\ lost \in BOOLEAN
      /\ next <= produced.frames
      /\ phase # "waiting" => call \in Calls
  BY DEF TInv, TypeOK
<1>1. CASE ClientStep
  <2>1. LoopTypeOK' /\ lost' \in BOOLEAN
    BY <1>0, <1>1 DEF ClientStep, gateway, LoopTypeOK
  <2>2. ClientTypeOK' /\ next' <= produced'.frames /\ (phase' # "waiting" => call' \in Calls)
    BY <1>1, TypeClient DEF ClientStep
  <2>3. flooded' \subseteq Calls
    <3>1. CASE flooded' = flooded \cup {call} /\ Calling'
      <4>1. phase = "waiting" /\ Calling' => BeginCall
        BY <1>1 DEF ClientStep, ClientNext, BeginCall, Connected, Transmit, HearCommand,
             CallEnds, Capture, RestartCapture, ReportHealth, ReportLocation, Submit,
             ForwardExtra, Calling
      <4>2. BeginCall => HandshakeWaits(outbound')
        BY DEF BeginCall, HandshakeWaits, HandshakeWith
      <4>3. CASE HandshakeWaits(outbound')
        BY <1>0, <1>1, <4>3 DEF ClientStep
      <4>4. CASE phase # "waiting"
        BY <1>0, <3>1, <4>4
      <4> QED BY <3>1, <4>1, <4>2, <4>3, <4>4
    <3>2. CASE flooded' = flooded
      BY <1>0, <3>2
    <3> QED BY <1>1, <3>1, <3>2 DEF ClientStep
  <2> QED BY <2>1, <2>2, <2>3 DEF TInv, TypeOK
<1>2. CASE GatewayStep
  <2>1. PICK c \in Calls : HandlerStep(c)
    BY <1>2 DEF GatewayStep, LoopNext, HandlerStep
  <2>2. UNCHANGED <<muted, phase, call, outbound, extras, fix, run, next, produced,
                    acked, flooded>>
    BY <1>2 DEF GatewayStep
  <2>3. lost' \in BOOLEAN
    BY <1>2 DEF GatewayStep
  <2>4. LoopTypeOK'
    BY <1>0, <2>1, <2>2, TypeLoop DEF LoopTypeOK
  <2>5. ClientTypeOK'
    BY <1>0, <2>1, <2>2, TypeLoop DEF ClientTypeOK
  <2> QED BY <1>0, <2>2, <2>3, <2>4, <2>5 DEF TInv, TypeOK
<1>3. CASE LoseRecord
  BY <1>0, <1>3 DEF LoseRecord, client, TInv, TypeOK, ClientTypeOK, LoopTypeOK
<1>4. CASE UNCHANGED vars
  BY <1>0, <1>4 DEF vars, client, gateway, TInv, TypeOK, ClientTypeOK, LoopTypeOK
<1> QED BY <1>1, <1>2, <1>3, <1>4 DEF Next

\* The state of the phone, its calls and their handlers is what it should be.
THEOREM SessionTypes == Spec => []TypeOK
<1>1. TInv => TypeOK
  BY DEF TInv
<1> QED BY TypeInit, TypeNext, <1>1, PTL DEF Spec

-----------------------------------------------------------------------------
(* The handlers *)

\* What is behind a handler in its phase: only a handshake gives it a fix, only
\* the loop takes frames, and the frame at hand is the last it took.
HandlerInv ==
  \A c \in Calls :
    /\ handler[c].phase \in {"idle", "refused"} => handler[c].fix = "none"
    /\ handler[c].phase \in {"idle", "init", "refused"} => received[c] = <<>>
    /\ handler[c].phase \in {"touch", "publish"} =>
         /\ received[c] # <<>>
         /\ handler[c].frame = received[c][Len(received[c])]

\* A step of one handler leaves the others alone.
LEMMA OthersUntouched ==
  ASSUME TInv, NEW c \in Calls, HandlerStep(c), NEW d \in Calls, d # c
  PROVE  /\ handler'[d] = handler[d] /\ received'[d] = received[d]
         /\ inbox'[d] = inbox[d] /\ outbox'[d] = outbox[d]
<1>1. /\ handler \in [Calls -> Handlers] /\ received \in [Calls -> Seq(Frames)]
      /\ inbox \in [Calls -> Seq(Messages)] /\ outbox \in [Calls -> Seq(0..MaxFrames)]
  BY DEF TInv, TypeOK, ClientTypeOK, LoopTypeOK
<1>2. handler'[d] = handler[d]
  BY <1>1 DEF HandlerStep, Accept, Refuse, InitSession, ReceiveFrame, Touch, Publish, Acks,
     ReceiveHealth, UpdateHealth, ReceiveLocation, End, Become
<1>3. received'[d] = received[d]
  BY <1>1 DEF HandlerStep, Accept, Refuse, InitSession, ReceiveFrame, Touch, Publish,
     ReceiveHealth, UpdateHealth, ReceiveLocation, End
<1>4. inbox'[d] = inbox[d]
  BY <1>1 DEF HandlerStep, Accept, Refuse, InitSession, ReceiveFrame, Touch, Publish,
     ReceiveHealth, UpdateHealth, ReceiveLocation, End, Take
<1>5. outbox'[d] = outbox[d]
  BY <1>1 DEF HandlerStep, Accept, Refuse, InitSession, ReceiveFrame, Touch, Publish, Acks,
     ReceiveHealth, UpdateHealth, ReceiveLocation, End, SendAck
<1> QED BY <1>2, <1>3, <1>4, <1>5

\* The steps of a handler, by what they make of it.
Turns(c, from, to) ==
  /\ handler[c].phase = from /\ handler'[c].phase = to
  /\ handler'[c].fix = handler[c].fix

LEMMA OwnStep ==
  ASSUME TInv, NEW c \in Calls
  PROVE  /\ Accept(c) => /\ handler[c].phase = "idle" /\ handler'[c].phase = "init"
                         /\ handler'[c].fix = Head(inbox[c]).fix
                         /\ handler'[c].held = {} /\ received' = received
         /\ Refuse(c) => /\ handler[c].phase = "idle" /\ handler'[c].phase = "refused"
                         /\ handler'[c].fix = "none"
                         /\ handler'[c].held = {} /\ received' = received
         /\ InitSession(c) => /\ Turns(c, "init", "receive")
                              /\ handler'[c].held = handler[c].held /\ received' = received
         /\ ReceiveFrame(c) => /\ Turns(c, "receive", "touch")
                               /\ handler'[c].held = record
                               /\ inbox[c] # <<>> /\ Head(inbox[c]).kind = "frame"
                               /\ handler'[c].frame = Head(inbox[c]).frame
                               /\ received'[c] = Append(received[c], Head(inbox[c]).frame)
         /\ Touch(c) => /\ Turns(c, "touch", "publish")
                        /\ handler'[c].frame = handler[c].frame
                        /\ handler'[c].held = {} /\ received' = received
         /\ Publish(c) => /\ Turns(c, "publish", "receive")
                          /\ handler'[c].held = handler[c].held /\ received' = received
         /\ ReceiveHealth(c) => /\ Turns(c, "receive", "report")
                                /\ handler'[c].held = record /\ received' = received
         /\ UpdateHealth(c) => /\ Turns(c, "report", "receive")
                               /\ handler'[c].held = {} /\ received' = received
         /\ ReceiveLocation(c) => /\ handler' = handler /\ received' = received
                                  /\ handler[c].phase = "receive"
         /\ End(c) => /\ Live(c) /\ handler'[c].phase = "closed"
                      /\ handler'[c].fix = handler[c].fix
                      /\ handler'[c].held = {} /\ received' = received
<1>1. /\ handler \in [Calls -> Handlers] /\ received \in [Calls -> Seq(Frames)]
  BY DEF TInv, TypeOK, ClientTypeOK, LoopTypeOK
<1>2. handler[c] \in [phase : Phases, fix : Fixes, acked : -1..MaxFrames,
                      frame : Frames, held : SUBSET Records]
  BY <1>1 DEF Handlers
<1>3. ASSUME NEW h, Become(c, h) PROVE handler'[c] = h
  BY <1>1, <1>3 DEF Become
<1> QED BY <1>1, <1>2, <1>3 DEF Accept, Refuse, InitSession, ReceiveFrame, Touch, Publish, Acks,
     ReceiveHealth, UpdateHealth, ReceiveLocation, End, Turns, Idle, Arrived

LEMMA HandlerInit == Init => HandlerInv
BY DEF Init, LoopInit, HandlerInv, Idle

LEMMA HandlerNext == TInv /\ HandlerInv /\ [Next]_vars => HandlerInv'
<1> SUFFICES ASSUME TInv, HandlerInv, [Next]_vars PROVE HandlerInv'
  OBVIOUS
<1>1. CASE UNCHANGED <<handler, received>>
  BY <1>1 DEF HandlerInv
<1>2. CASE GatewayStep
  <2>1. PICK c \in Calls : HandlerStep(c)
    BY <1>2 DEF GatewayStep, LoopNext, HandlerStep
  <2>2. received[c] \in Seq(Frames)
    BY HandlerFacts
  <2> DEFINE Good(phs, h, r) ==
        /\ phs \in {"idle", "refused"} => h.fix = "none"
        /\ phs \in {"idle", "init", "refused"} => r = <<>>
        /\ phs \in {"touch", "publish"} => r # <<>> /\ h.frame = r[Len(r)]
  <2>3. Good(handler[c].phase, handler[c], received[c])
    BY DEF HandlerInv
  <2>4. ASSUME ReceiveFrame(c)
        PROVE  Good(handler'[c].phase, handler'[c], received'[c])
    <3>1. Head(inbox[c]).frame \in Frames
      BY <2>4, OwnStep, HandlerFacts, MessageFacts
    <3> QED BY <2>2, <2>4, <3>1, OwnStep DEF Turns
  <2>5. ASSUME ~ReceiveFrame(c)
        PROVE  Good(handler'[c].phase, handler'[c], received'[c])
    BY <2>1, <2>3, <2>5, OwnStep DEF HandlerStep, Turns, Live
  <2>6. \A d \in Calls : Good(handler'[d].phase, handler'[d], received'[d])
    BY <2>1, <2>4, <2>5, OthersUntouched DEF HandlerInv
  <2> QED BY <2>6 DEF HandlerInv
<1>3. CASE ClientStep \/ LoseRecord \/ UNCHANGED vars
  BY <1>1, <1>3 DEF ClientStep, LoseRecord, vars, gateway
<1> QED BY <1>2, <1>3 DEF Next

-----------------------------------------------------------------------------
(* The hot state *)

\* The record, and what a handler read of it: counters of one stream.
OfOneStream(r) ==
  \/ r.frames = 0 /\ r.number = -1
  \/ \E c \in Calls : r.frames \in DOMAIN received[c] /\ received[c][r.frames].number = r.number

CountersInv ==
  /\ \A r \in record : OfOneStream(r)
  /\ \A c \in Calls : \A r \in handler[c].held : OfOneStream(r)

LEMMA CountersInit == Init => CountersInv
BY DEF Init, LoopInit, CountersInv, Idle

\* What a stream has taken stays taken.
LEMMA ReceivedStays ==
  ASSUME TInv, [Next]_vars, NEW c \in Calls, NEW i \in DOMAIN received[c]
  PROVE  i \in DOMAIN received'[c] /\ received'[c][i] = received[c][i]
<1>1. received[c] \in Seq(Frames)
  BY HandlerFacts
<1>2. CASE GatewayStep
  <2>1. PICK d \in Calls : HandlerStep(d)
    BY <1>2 DEF GatewayStep, LoopNext, HandlerStep
  <2>2. CASE d = c /\ ReceiveFrame(c)
    <3>1. Head(inbox[c]).frame \in Frames
      BY <2>2, OwnStep, HandlerFacts, MessageFacts
    <3> QED BY <1>1, <2>2, <3>1, OwnStep
  <2>3. CASE d # c
    BY <2>1, <2>3, OthersUntouched
  <2>4. CASE d = c /\ ~ReceiveFrame(c)
    BY <2>1, <2>4, OwnStep DEF HandlerStep
  <2> QED BY <2>2, <2>3, <2>4
<1>3. CASE UNCHANGED received
  BY <1>3
<1> QED BY <1>2, <1>3 DEF Next, ClientStep, LoseRecord, vars, gateway

LEMMA CountersNext == TInv /\ HandlerInv /\ CountersInv /\ [Next]_vars => CountersInv'
<1> SUFFICES ASSUME TInv, HandlerInv, CountersInv, [Next]_vars PROVE CountersInv'
  OBVIOUS
<1>1. ASSUME NEW r, OfOneStream(r) PROVE OfOneStream(r)'
  BY <1>1, ReceivedStays DEF OfOneStream
<1>2. ASSUME NEW r, OfOneStream(r) \/ r = [session |-> r.session, number |-> -1, frames |-> 0]
      PROVE  OfOneStream(r)'
  BY <1>1, <1>2 DEF OfOneStream
<1>3. CASE GatewayStep
  <2>1. PICK c \in Calls : HandlerStep(c)
    BY <1>3 DEF GatewayStep, LoopNext, HandlerStep
  <2>2. \A d \in Calls : \A r \in handler'[d].held : OfOneStream(r)'
    <3>1. \/ handler'[c].held \subseteq handler[c].held
          \/ handler'[c].held \subseteq record
      BY <2>1, OwnStep DEF HandlerStep
    <3> QED BY <1>1, <2>1, <3>1, OthersUntouched DEF CountersInv
  <2>3. CASE InitSession(c)
    <3>1. record' = {[session |-> c, number |-> -1, frames |-> 0]}
      BY <2>3 DEF InitSession
    <3>2. \A r \in record' : OfOneStream(r)'
      BY <3>1 DEF OfOneStream
    <3> QED BY <2>2, <3>2 DEF CountersInv
  <2>4. CASE Touch(c)
    <3>1. /\ received[c] \in Seq(Frames) /\ received[c] # <<>>
          /\ handler[c].frame = received[c][Len(received[c])]
      BY <2>4, OwnStep, HandlerFacts DEF HandlerInv, Turns
    <3>2. Len(received[c]) \in DOMAIN received[c] /\ received' = received
      BY <2>4, <3>1, OwnStep
    <3>3. ASSUME NEW r \in Touched(c) PROVE OfOneStream(r)'
      <4>1. PICK r0 \in handler[c].held :
              r = [r0 EXCEPT !.number = handler[c].frame.number, !.frames = frames_received(c)]
        BY DEF Touched
      <4>2. r0 \in Records
        BY HandlerFacts
      <4>3. r.number = received[c][Len(received[c])].number /\ r.frames = Len(received[c])
        BY <3>1, <4>1, <4>2 DEF Records, frames_received
      <4> QED BY <3>2, <4>3 DEF OfOneStream
    <3>4. \A r \in record' : OfOneStream(r)'
      BY <1>1, <2>4, <3>3 DEF Touch, WriteBack, CountersInv
    <3> QED BY <2>2, <3>4 DEF CountersInv
  <2>5. CASE UpdateHealth(c)
    <3>1. \A r \in record' : OfOneStream(r)'
      BY <1>1, <2>5 DEF UpdateHealth, WriteBack, CountersInv
    <3> QED BY <2>2, <3>1 DEF CountersInv
  <2>6. CASE UNCHANGED record
    BY <1>1, <2>2, <2>6 DEF CountersInv
  <2> QED BY <2>1, <2>3, <2>4, <2>5, <2>6 DEF HandlerStep, Accept, Refuse, ReceiveFrame, Publish,
       ReceiveHealth, ReceiveLocation, End
<1>4. CASE ClientStep \/ LoseRecord \/ UNCHANGED vars
  <2>1. UNCHANGED handler /\ record' \subseteq record
    BY <1>4 DEF ClientStep, LoseRecord, vars, gateway
  <2> QED BY <1>1, <2>1 DEF CountersInv
<1> QED BY <1>3, <1>4 DEF Next

LEMMA ShownNext == TInv /\ ShownWhileStreaming /\ [Next]_vars => ShownWhileStreaming'
<1> DEFINE Shown == (\E c \in Calls : Streaming(c)) => record # {} \/ lost
<1>1. ShownWhileStreaming <=> Shown
  BY DEF ShownWhileStreaming, LiveDevices
<1>2. ASSUME TInv, Shown, [Next]_vars PROVE Shown'
  <2>1. CASE GatewayStep
    <3>1. PICK c \in Calls : HandlerStep(c)
      BY <2>1 DEF GatewayStep, LoopNext, HandlerStep
    <3>2. CASE InitSession(c)
      BY <3>2 DEF InitSession
    <3>3. CASE ~InitSession(c)
      <4>1. record # {} => record' # {}
        BY <3>1, <3>3 DEF HandlerStep, Accept, Refuse, ReceiveFrame, Touch, Publish,
           ReceiveHealth, UpdateHealth, ReceiveLocation, End, WriteBack
      <4>2. \A d \in Calls : Streaming(d)' => Streaming(d)
        BY <1>2, <3>1, <3>3, OwnStep, OthersUntouched DEF HandlerStep, Turns, Streaming
      <4>3. \A d \in Calls : ~(handler[d].phase = "init" /\ handler'[d].phase = "receive")
        BY <1>2, <3>1, <3>3, OwnStep, OthersUntouched DEF HandlerStep, Turns
      <4>4. lost' = lost
        <5>1. lost \in BOOLEAN
          BY <1>2 DEF TInv, TypeOK
        <5> QED BY <2>1, <4>3, <5>1 DEF GatewayStep
      <4> QED BY <1>2, <4>1, <4>2, <4>4
    <3> QED BY <3>2, <3>3
  <2>2. CASE ClientStep \/ LoseRecord \/ UNCHANGED vars
    BY <1>2, <2>2 DEF ClientStep, LoseRecord, vars, gateway, Streaming
  <2> QED BY <1>2, <2>1, <2>2 DEF Next
<1>3. ShownWhileStreaming' <=> Shown'
  BY DEF ShownWhileStreaming, LiveDevices
<1> QED BY <1>1, <1>2, <1>3

LEMMA NowhereNext ==
  TInv /\ HandlerInv /\ NowhereWithoutFix /\ [Next]_vars => NowhereWithoutFix'
<1> SUFFICES ASSUME TInv, HandlerInv, NowhereWithoutFix, [Next]_vars, place' = "nowhere"
             PROVE  \E c \in Calls : handler'[c].fix = "unavailable"
  BY DEF NowhereWithoutFix
<1>1. CASE GatewayStep
  <2>1. PICK c \in Calls : HandlerStep(c)
    BY <1>1 DEF GatewayStep, LoopNext, HandlerStep
  <2>2. CASE place = "nowhere"
    <3>1. PICK d \in Calls : handler[d].fix = "unavailable"
      BY <2>2 DEF NowhereWithoutFix
    <3>2. CASE d # c
      BY <2>1, <3>1, <3>2, OthersUntouched
    <3>3. CASE d = c
      BY <2>1, <3>1, <3>3, OwnStep DEF HandlerStep, HandlerInv, Turns
    <3> QED BY <3>2, <3>3
  <2>3. CASE place # "nowhere"
    <3>1. Accept(c)
      BY <2>1, <2>3 DEF HandlerStep, Refuse, InitSession, ReceiveFrame, Touch, Publish,
         ReceiveHealth, UpdateHealth, ReceiveLocation, End
    <3>2. inbox[c] # <<>> /\ Head(inbox[c]).kind = "handshake"
      BY <3>1 DEF Accept, Arrived
    <3>3. Head(inbox[c]).fix \in Fixes
      BY <3>2, HandlerFacts, MessageFacts
    <3>4. place' = PlaceOf(Head(inbox[c]).fix) /\ handler'[c].fix = Head(inbox[c]).fix
      BY <3>1, OwnStep DEF Accept
    <3> QED BY <2>3, <3>3, <3>4 DEF PlaceOf, Fixes
  <2> QED BY <2>2, <2>3
<1>2. CASE ClientStep \/ LoseRecord \/ UNCHANGED vars
  BY <1>2 DEF ClientStep, LoseRecord, vars, gateway, NowhereWithoutFix
<1> QED BY <1>1, <1>2 DEF Next

\* The record of a device says something true whenever it is there, it is there
\* while a stream is open, and the registry puts a device nowhere only for want
\* of a fix.
HotInv == TInv /\ HandlerInv /\ CountersInv /\ ShownWhileStreaming /\ NowhereWithoutFix

LEMMA HotInvariant == Spec => []HotInv
<1>1. Init => HotInv
  <2>1. Init => ShownWhileStreaming /\ NowhereWithoutFix
    BY DEF Init, LoopInit, ShownWhileStreaming, Streaming, Idle, NowhereWithoutFix
  <2> QED BY <2>1, TypeInit, HandlerInit, CountersInit DEF HotInv
<1>2. HotInv /\ [Next]_vars => HotInv'
  BY TypeNext, HandlerNext, CountersNext, ShownNext, NowhereNext DEF HotInv
<1> QED BY <1>1, <1>2, PTL DEF Spec

\* The record mixes no two streams, although every handler of the device reads
\* it, waits and writes all of it (state.py: touch, update_health).
THEOREM RecordIsOfOneStream == Spec => []CountersOfOneStream
<1>1. HotInv => CountersOfOneStream
  BY DEF HotInv, CountersInv, OfOneStream, CountersOfOneStream
<1> QED BY <1>1, HotInvariant, PTL

\* A device with an open stream has a record, unless Redis lost it.
THEOREM StreamingIsShown == Spec => []ShownWhileStreaming
<1>1. HotInv => ShownWhileStreaming
  BY DEF HotInv
<1> QED BY <1>1, HotInvariant, PTL

\* Only a handshake without a fix puts a device at (0, 0).
THEOREM NowhereIsUnknown == Spec => []NowhereWithoutFix
<1>1. HotInv => NowhereWithoutFix
  BY DEF HotInv
<1> QED BY <1>1, HotInvariant, PTL

-----------------------------------------------------------------------------
(* The handshake *)

\* A call whose channel did not overflow in time has its handshake before
\* everything else, until the handler takes it.
FloodInv ==
  \A c \in Calls \ flooded :
    /\ handler[c].phase # "refused"
    /\ handler[c].phase = "idle" =>
         /\ inbox[c] # <<>> => Head(inbox[c]).kind = "handshake"
         /\ inbox[c] = <<>> /\ c = call /\ Calling => HandshakeWaits(outbound)

LEMMA FloodInit == Init => FloodInv
BY DEF Init, ClientInit, LoopInit, FloodInv, Idle, Calling

LEMMA FloodNext == TInv /\ FloodInv /\ [Next]_vars => FloodInv'
<1> SUFFICES ASSUME TInv, FloodInv, [Next]_vars, NEW c \in Calls, c \notin flooded'
             PROVE  /\ handler'[c].phase # "refused"
                    /\ handler'[c].phase = "idle" =>
                         /\ inbox'[c] # <<>> => Head(inbox'[c]).kind = "handshake"
                         /\ inbox'[c] = <<>> /\ c = call' /\ Calling' => HandshakeWaits(outbound')
  BY DEF FloodInv
<1>0. /\ inbox \in [Calls -> Seq(Messages)] /\ outbound \in Seq(Messages)
      /\ phase # "waiting" => call \in Calls
      /\ inbox[c] \in Seq(Messages)
  BY DEF TInv, TypeOK, ClientTypeOK
<1>1. CASE GatewayStep
  <2>1. PICK d \in Calls : HandlerStep(d)
    BY <1>1 DEF GatewayStep, LoopNext, HandlerStep
  <2>2. flooded' = flooded /\ call' = call /\ outbound' = outbound /\ phase' = phase
    BY <1>1 DEF GatewayStep
  <2>3. CASE d # c
    BY <2>1, <2>2, <2>3, OthersUntouched DEF FloodInv, Calling
  <2>4. CASE d = c
    <3>1. handler'[c].phase # "idle"
      BY <2>1, <2>2, <2>4, OwnStep DEF HandlerStep, Turns
    <3>2. ~Refuse(c)
      BY <2>2 DEF Refuse, Arrived, FloodInv
    <3>3. handler'[c].phase # "refused"
      BY <2>1, <2>4, <3>2, OwnStep DEF HandlerStep, Turns
    <3> QED BY <3>1, <3>3
  <2> QED BY <2>3, <2>4
<1>2. CASE ClientStep
  <2>1. handler' = handler /\ c \notin flooded
    BY <1>2 DEF ClientStep, gateway
  <2>2. SUFFICES ASSUME handler[c].phase = "idle"
                 PROVE  /\ inbox'[c] # <<>> => Head(inbox'[c]).kind = "handshake"
                        /\ inbox'[c] = <<>> /\ c = call' /\ Calling' => HandshakeWaits(outbound')
    BY <2>1 DEF FloodInv
  <2>3. /\ inbox[c] # <<>> => Head(inbox[c]).kind = "handshake"
        /\ inbox[c] = <<>> /\ c = call /\ Calling => HandshakeWaits(outbound)
    BY <2>1, <2>2 DEF FloodInv
  <2>4. CASE BeginCall
    BY <2>3, <2>4 DEF BeginCall, HandshakeWaits, HandshakeWith
  <2>5. CASE Transmit
    <3>1. CASE c = call
      <4>1. /\ outbound # <<>> /\ Head(outbound) \in Messages
            /\ inbox'[c] = Append(inbox[c], Head(outbound))
        BY <1>0, <2>5, <3>1 DEF Transmit
      <4>2. inbox'[c] # <<>>
        BY <1>0, <4>1
      <4>3. CASE inbox[c] = <<>>
        <5>1. Head(inbox'[c]) = Head(outbound)
          BY <4>1, <4>3
        <5> QED BY <2>3, <2>5, <3>1, <4>2, <4>3, <5>1 DEF Transmit, Calling, HandshakeWaits
      <4>4. CASE inbox[c] # <<>>
        <5>1. Head(inbox'[c]) = Head(inbox[c])
          BY <1>0, <4>1, <4>4
        <5> QED BY <2>3, <4>2, <4>4, <5>1
      <4> QED BY <4>3, <4>4
    <3>2. CASE c # call
      BY <1>0, <2>3, <2>5, <3>2 DEF Transmit
    <3> QED BY <3>1, <3>2
  <2>6. CASE CallEnds
    BY <2>3, <2>6 DEF CallEnds, Calling
  <2>7. CASE Connected \/ HearCommand \/ Capture \/ RestartCapture \/ ReportHealth
             \/ ReportLocation \/ ForwardExtra
    <3>1. inbox' = inbox /\ call' = call /\ (Calling' <=> Calling)
      BY <2>7 DEF Connected, HearCommand, Capture, RestartCapture, ReportHealth,
         ReportLocation, Submit, ForwardExtra, Calling
    <3>2. ASSUME c = call', Calling', HandshakeWaits(outbound)
          PROVE  HandshakeWaits(outbound')
      BY <1>2, <3>1, <3>2 DEF ClientStep, HandshakeWaits
    <3> QED BY <2>3, <3>1, <3>2
  <2> QED BY <1>2, <2>4, <2>5, <2>6, <2>7 DEF ClientStep, ClientNext
<1>3. CASE LoseRecord \/ UNCHANGED vars
  BY <1>3 DEF LoseRecord, vars, client, gateway, FloodInv, Calling
<1> QED BY <1>1, <1>2, <1>3 DEF Next

\* Whatever the connection and the gateway do, only an overflow of the phone's
\* own channel costs a call its handshake.
THEOREM HandshakesComeFirst == Spec => []RefusedWhenFlooded
<1>1. TInv /\ FloodInv => RefusedWhenFlooded
  BY DEF FloodInv, RefusedWhenFlooded
<1>2. Init => TInv /\ FloodInv
  BY TypeInit, FloodInit
<1>3. TInv /\ FloodInv /\ [Next]_vars => TInv' /\ FloodInv'
  BY TypeNext, FloodNext
<1> QED BY <1>1, <1>2, <1>3, PTL DEF Spec

-----------------------------------------------------------------------------
(* The acks *)

\* Stream c has a frame numbered n, and all it took up to it is in the stream.
Covered(c, n) ==
  \E i \in DOMAIN received[c] :
    /\ received[c][i].number = n
    /\ \A j \in 1..i : Published(c, received[c][j])

\* All a handler took is published, except perhaps its last frame while that is
\* at hand or when the stream ended with it; acks, on their way or heard, follow.
AckInv ==
  /\ \A c \in Calls :
       /\ \A j \in DOMAIN received[c] :
            \/ Published(c, received[c][j])
            \/ j = Len(received[c]) /\ handler[c].phase \in {"touch", "publish", "closed"}
       /\ \A k \in DOMAIN outbox[c] : Covered(c, outbox[c][k])
  /\ acked.number # -1 => acked.call \in Calls /\ Covered(acked.call, acked.number)

LEMMA AckInit == Init => AckInv
BY DEF Init, ClientInit, LoopInit, AckInv

\* What is published or covered stays so.
LEMMA PublishedStays ==
  ASSUME TInv, [Next]_vars, NEW c, NEW f, Published(c, f)
  PROVE  Published(c, f)'
<1>1. stream \in Seq([call : Calls, frame : Frames])
  BY DEF TInv, TypeOK, LoopTypeOK
<1>2. \A i \in DOMAIN stream : i \in DOMAIN stream' /\ stream'[i] = stream[i]
  <2>1. CASE GatewayStep
    <3>1. PICK d \in Calls : HandlerStep(d)
      BY <2>1 DEF GatewayStep, LoopNext, HandlerStep
    <3>2. CASE Publish(d)
      <4>1. [call |-> d, frame |-> handler[d].frame] \in [call : Calls, frame : Frames]
        BY HandlerFacts
      <4>2. \/ stream' = stream
            \/ stream' = Append(stream, [call |-> d, frame |-> handler[d].frame])
        BY <3>2 DEF Publish
      <4> QED BY <1>1, <4>1, <4>2
    <3>3. CASE ~Publish(d)
      BY <3>1, <3>3 DEF HandlerStep, Accept, Refuse, InitSession, ReceiveFrame, Touch,
         ReceiveHealth, UpdateHealth, ReceiveLocation, End
    <3> QED BY <3>2, <3>3
  <2> QED BY <2>1 DEF Next, ClientStep, LoseRecord, vars, gateway
<1> QED BY <1>2 DEF Published

LEMMA CoveredStays ==
  ASSUME TInv, [Next]_vars, NEW c \in Calls, NEW n, Covered(c, n)
  PROVE  Covered(c, n)'
<1>1. received[c] \in Seq(Frames)
  BY HandlerFacts
<1>2. PICK i \in DOMAIN received[c] :
        /\ received[c][i].number = n
        /\ \A j \in 1..i : Published(c, received[c][j])
  BY DEF Covered
<1>3. i \in DOMAIN received'[c] /\ received'[c][i].number = n
  BY <1>2, ReceivedStays
<1>4. ASSUME NEW j \in 1..i PROVE Published(c, received[c][j])'
  <2>1. j \in DOMAIN received[c]
    BY <1>1
  <2>2. received'[c][j] = received[c][j]
    BY <2>1, ReceivedStays
  <2>3. \A f : Published(c, f) => Published(c, f)'
    BY PublishedStays
  <2> QED BY <1>2, <2>2, <2>3 DEF Published
<1> QED BY <1>3, <1>4 DEF Covered

LEMMA AckNext == TInv /\ HandlerInv /\ (muted \/ AckInv) /\ [Next]_vars => (muted \/ AckInv)'
<1>1. [Next]_vars => muted' = muted
  BY DEF Next, ClientStep, GatewayStep, LoseRecord, vars, gateway
<1> SUFFICES ASSUME TInv, HandlerInv, ~muted, AckInv, [Next]_vars PROVE AckInv'
  BY <1>1, Zenon
<1>0. /\ outbox \in [Calls -> Seq(0..MaxFrames)]
      /\ phase # "waiting" => call \in Calls
      /\ acked \in [call : 0..MaxCalls, number : -1..MaxFrames]
      /\ stream \in Seq([call : Calls, frame : Frames])
  BY DEF TInv, TypeOK, ClientTypeOK, LoopTypeOK
<1>2. CASE GatewayStep
  <2>1. PICK c \in Calls : HandlerStep(c)
    BY <1>2 DEF GatewayStep, LoopNext, HandlerStep
  <2>2. acked' = acked
    BY <1>2 DEF GatewayStep
  <2>3. received[c] \in Seq(Frames) /\ outbox[c] \in Seq(0..MaxFrames)
    BY HandlerFacts
  <2>4. (acked.number # -1 => acked.call \in Calls /\ Covered(acked.call, acked.number))'
    BY <2>2, CoveredStays DEF AckInv
  <2>5. ASSUME NEW d \in Calls, d # c
        PROVE  /\ \A j \in DOMAIN received'[d] :
                    \/ Published(d, received[d][j])'
                    \/ j = Len(received'[d]) /\ handler'[d].phase \in {"touch", "publish", "closed"}
               /\ \A k \in DOMAIN outbox'[d] : Covered(d, outbox[d][k])'
    <3>1. /\ handler'[d] = handler[d] /\ received'[d] = received[d] /\ outbox'[d] = outbox[d]
      BY <2>1, <2>5, OthersUntouched
    <3>2. \A f : Published(d, f) => Published(d, f)'
      BY PublishedStays
    <3>3. \A n : Covered(d, n) => Covered(d, n)'
      BY CoveredStays
    <3>4. \A j \in DOMAIN received[d] : Published(d, received[d][j]) => Published(d, received[d][j])'
      BY <3>1, <3>2 DEF Published
    <3>5. \A k \in DOMAIN outbox[d] : Covered(d, outbox[d][k]) => Covered(d, outbox[d][k])'
      BY <3>1, <3>3 DEF Covered, Published
    <3> QED BY <3>1, <3>4, <3>5 DEF AckInv
  <2>6. \A j \in DOMAIN received'[c] :
          \/ Published(c, received[c][j])'
          \/ j = Len(received'[c]) /\ handler'[c].phase \in {"touch", "publish", "closed"}
    <3>0. \A j \in DOMAIN received[c] : Published(c, received[c][j]) => Published(c, received[c][j])'
      <4>1. \A f : Published(c, f) => Published(c, f)'
        BY PublishedStays
      <4> QED BY <4>1, ReceivedStays DEF Published
    <3>1. CASE ReceiveFrame(c)
      <4>1. Head(inbox[c]).frame \in Frames
        BY <3>1, OwnStep, HandlerFacts, MessageFacts
      <4>2. /\ handler[c].phase = "receive" /\ handler'[c].phase = "touch"
            /\ received'[c] = Append(received[c], Head(inbox[c]).frame)
        BY <3>1, OwnStep DEF Turns
      <4>3. \A j \in DOMAIN received[c] : Published(c, received[c][j])
        BY <4>2 DEF AckInv
      <4> QED BY <2>3, <3>0, <4>1, <4>2, <4>3
    <3>2. CASE Publish(c)
      <4>1. /\ received' = received /\ received[c] # <<>>
            /\ handler[c].frame = received[c][Len(received[c])]
        BY <3>2, OwnStep DEF Turns, HandlerInv
      <4>2. stream' = Append(stream, [call |-> c, frame |-> handler[c].frame])
        BY <3>2 DEF Publish
      <4>3. Published(c, received[c][Len(received[c])])'
        <5>1. [call |-> c, frame |-> handler[c].frame] \in [call : Calls, frame : Frames]
          BY HandlerFacts
        <5>2. /\ Len(stream) + 1 \in DOMAIN stream'
              /\ stream'[Len(stream) + 1] = [call |-> c, frame |-> handler[c].frame]
          BY <1>0, <4>2, <5>1
        <5> QED BY <4>1, <5>2 DEF Published
      <4> QED BY <3>0, <4>1, <4>3 DEF AckInv
    <3>3. CASE ~ReceiveFrame(c) /\ ~Publish(c)
      <4>1. received' = received
        BY <2>1, <3>3, OwnStep DEF HandlerStep
      <4>2. handler[c].phase \in {"touch", "publish", "closed"} =>
              handler'[c].phase \in {"touch", "publish", "closed"}
        BY <2>1, <3>3, OwnStep DEF HandlerStep, Turns, Live
      <4> QED BY <3>0, <4>1, <4>2 DEF AckInv
    <3> QED BY <3>1, <3>2, <3>3
  <2>7. \A k \in DOMAIN outbox'[c] : Covered(c, outbox[c][k])'
    <3>1. \A n : Covered(c, n) => Covered(c, n)'
      BY CoveredStays
    <3>2. CASE outbox' = outbox
      BY <3>1, <3>2 DEF AckInv, Covered, Published
    <3>3. CASE Publish(c) /\ outbox' # outbox
      <4>1. /\ received' = received /\ received[c] # <<>> /\ handler'[c].phase = "receive"
            /\ handler[c].frame = received[c][Len(received[c])]
        BY <3>3, OwnStep DEF Turns, HandlerInv
      <4>2. PICK n \in 0..MaxFrames : /\ n = handler[c].frame.number
                                      /\ outbox'[c] = Append(outbox[c], n)
        BY <1>0, <3>3, HandlerFacts DEF Publish, Acks, SendAck
      <4>3. Covered(c, n)'
        <5>1. Len(received[c]) \in DOMAIN received[c] /\ 1..Len(received[c]) = DOMAIN received[c]
          BY <2>3, <4>1
        <5>2. \A j \in 1..Len(received[c]) : Published(c, received[c][j])'
          BY <2>6, <4>1, <5>1
        <5> QED BY <4>1, <4>2, <5>1, <5>2 DEF Covered
      <4>4. ASSUME NEW k \in DOMAIN outbox'[c] PROVE Covered(c, outbox[c][k])'
        <5>1. CASE k \in DOMAIN outbox[c]
          <6>1. PICK m : m = outbox[c][k] /\ m = outbox'[c][k]
            BY <2>3, <4>2, <5>1
          <6>2. Covered(c, m)'
            BY <3>1, <5>1, <6>1 DEF AckInv
          <6> QED BY <6>1, <6>2
        <5>2. CASE k \notin DOMAIN outbox[c]
          <6>1. outbox'[c][k] = n
            BY <2>3, <4>2, <5>2
          <6> QED BY <4>3, <6>1
        <5> QED BY <5>1, <5>2
      <4> QED BY <4>4
    <3> QED BY <2>1, <3>2, <3>3 DEF HandlerStep, Accept, Refuse, InitSession, ReceiveFrame, Touch,
         ReceiveHealth, UpdateHealth, ReceiveLocation, End
  <2> QED BY <2>4, <2>5, <2>6, <2>7 DEF AckInv
<1>3. CASE ClientStep
  <2>1. received' = received /\ stream' = stream /\ handler' = handler
    BY <1>3 DEF ClientStep, gateway
  <2>2. \A c, n : Covered(c, n)' <=> Covered(c, n)
    BY <2>1 DEF Covered, Published
  <2>3. CASE HearCommand
    <3>1. /\ call \in Calls /\ outbox[call] \in Seq(0..MaxFrames) /\ outbox[call] # <<>>
      BY <1>0, <2>3 DEF HearCommand
    <3>2. acked' = [call |-> call, number |-> outbox[call][1]] /\ 1 \in DOMAIN outbox[call]
      BY <2>3, <3>1 DEF HearCommand
    <3>3. Covered(acked'.call, acked'.number) /\ acked'.call \in Calls
      BY <3>1, <3>2 DEF AckInv
    <3>4. ASSUME NEW c \in Calls, NEW k \in DOMAIN outbox'[c]
          PROVE  Covered(c, outbox'[c][k])
      <4>1. CASE c # call
        BY <1>0, <2>3, <4>1 DEF HearCommand, AckInv
      <4>2. CASE c = call
        <5>1. outbox'[c] = Tail(outbox[c])
          BY <1>0, <2>3, <4>2 DEF HearCommand
        <5>2. k + 1 \in DOMAIN outbox[c] /\ outbox'[c][k] = outbox[c][k + 1]
          BY <3>1, <4>2, <5>1
        <5> QED BY <5>2 DEF AckInv
      <4> QED BY <4>1, <4>2
    <3> QED BY <2>1, <2>2, <3>3, <3>4 DEF AckInv, Published
  <2>4. CASE CallEnds
    <3>1. call \in Calls /\ acked' = acked
      BY <1>0, <2>4 DEF CallEnds, Calling
    <3>2. \A c \in Calls : outbox'[c] = <<>> \/ outbox'[c] = outbox[c]
      BY <1>0, <2>4, <3>1 DEF CallEnds
    <3> QED BY <2>1, <2>2, <3>1, <3>2 DEF AckInv, Published
  <2>5. CASE UNCHANGED <<outbox, acked>>
    BY <2>1, <2>2, <2>5 DEF AckInv, Published
  <2> QED BY <1>3, <2>3, <2>4, <2>5 DEF ClientStep, ClientNext, BeginCall, Connected, Transmit,
       Capture, RestartCapture, ReportHealth, ReportLocation, Submit, ForwardExtra
<1>4. CASE LoseRecord \/ UNCHANGED vars
  BY <1>4 DEF LoseRecord, vars, client, gateway, AckInv, Covered, Published
<1> QED BY <1>2, <1>3, <1>4 DEF Next

\* No ack the phone hears is for a frame the gateway may still lose.
THEOREM AcksAreKept == Spec => []AckedIsPublished
<1> DEFINE Inv == TInv /\ HandlerInv /\ (muted \/ AckInv)
<1>1. Init => Inv
  BY TypeInit, HandlerInit, AckInit
<1>2. Inv /\ [Next]_vars => Inv'
  BY TypeNext, HandlerNext, AckNext
<1>3. Inv => AckedIsPublished
  BY DEF AckInv, Covered, AckedIsPublished
<1> QED BY <1>1, <1>2, <1>3, PTL DEF Spec

-----------------------------------------------------------------------------
(* The order of the frames *)

LEMMA BeforeFacts ==
  /\ \A f, g \in Frames : Before(f, g) => f # g
  /\ \A f, g, h \in Frames : Before(f, g) /\ Before(g, h) => Before(f, h)
BY ClientAssumption DEF Before, Frames

\* A queue of messages holds frame f; its frames are in order.
Has(q, f) == \E i \in DOMAIN q : q[i].kind = "frame" /\ q[i].frame = f

InOrder(q) ==
  \A i, j \in DOMAIN q :
    i < j /\ q[i].kind = "frame" /\ q[j].kind = "frame" => Before(q[i].frame, q[j].frame)

LEMMA HasFrames ==
  ASSUME NEW q \in Seq(Messages), NEW f, Has(q, f)
  PROVE  f \in Frames
<1>1. PICK i \in DOMAIN q : q[i].kind = "frame" /\ q[i].frame = f
  BY DEF Has
<1>2. q[i] \in Messages
  OBVIOUS
<1> QED BY <1>1, <1>2, MessageFacts

LEMMA OrderTail ==
  ASSUME NEW q \in Seq(Messages), q # <<>>
  PROVE  /\ \A f : Has(Tail(q), f) => Has(q, f)
         /\ Head(q).kind = "frame" => Has(q, Head(q).frame)
         /\ InOrder(q) =>
              /\ InOrder(Tail(q))
              /\ Head(q).kind = "frame" => \A f : Has(Tail(q), f) => Before(Head(q).frame, f)
<1> DEFINE r == Tail(q)
<1>1. /\ DOMAIN r = 1..(Len(q) - 1) /\ Len(q) >= 1 /\ Len(q) \in Nat
      /\ DOMAIN q = 1..Len(q) /\ Head(q) = q[1]
      /\ \A i \in 1..(Len(q) - 1) : r[i] = q[i + 1]
  OBVIOUS
<1> HIDE DEF r
<1>2. \A i \in DOMAIN r : i + 1 \in DOMAIN q /\ r[i] = q[i + 1] /\ 1 < i + 1
  BY <1>1
<1>3. \A f : Has(r, f) => Has(q, f)
  BY <1>2 DEF Has
<1>4. Head(q).kind = "frame" => Has(q, Head(q).frame)
  BY <1>1 DEF Has
<1>5. ASSUME InOrder(q) PROVE InOrder(r)
  <2> SUFFICES ASSUME NEW i \in DOMAIN r, NEW j \in DOMAIN r, i < j,
                      r[i].kind = "frame", r[j].kind = "frame"
               PROVE  Before(r[i].frame, r[j].frame)
    BY DEF InOrder
  <2>1. i + 1 < j + 1
    BY <1>1
  <2> QED BY <1>2, <1>5, <2>1 DEF InOrder
<1>6. ASSUME InOrder(q), Head(q).kind = "frame", NEW f, Has(r, f)
      PROVE  Before(Head(q).frame, f)
  <2>1. PICK i \in DOMAIN r : r[i].kind = "frame" /\ r[i].frame = f
    BY <1>6 DEF Has
  <2>2. i + 1 \in DOMAIN q /\ q[i + 1] = r[i] /\ 1 < i + 1 /\ 1 \in DOMAIN q
    BY <1>1, <1>2
  <2> QED BY <1>1, <1>6, <2>1, <2>2 DEF InOrder
<1> QED BY <1>3, <1>4, <1>5, <1>6 DEF r

LEMMA OrderAppend ==
  ASSUME NEW q \in Seq(Messages), NEW m \in Messages
  PROVE  /\ \A f : Has(Append(q, m), f) => Has(q, f) \/ (m.kind = "frame" /\ f = m.frame)
         /\ InOrder(q) /\ (m.kind = "frame" => \A f : Has(q, f) => Before(f, m.frame)) =>
              InOrder(Append(q, m))
<1> DEFINE r == Append(q, m)
<1>1. /\ DOMAIN r = 1..(Len(q) + 1) /\ DOMAIN q = 1..Len(q) /\ Len(q) \in Nat
      /\ \A i \in 1..Len(q) : r[i] = q[i]
      /\ r[Len(q) + 1] = m
  OBVIOUS
<1> HIDE DEF r
<1>2. ASSUME NEW f, Has(r, f) PROVE Has(q, f) \/ (m.kind = "frame" /\ f = m.frame)
  <2>1. PICK i \in DOMAIN r : r[i].kind = "frame" /\ r[i].frame = f
    BY <1>2 DEF Has
  <2>2. CASE i \in DOMAIN q
    BY <1>1, <2>1, <2>2 DEF Has
  <2>3. CASE i \notin DOMAIN q
    BY <1>1, <2>1, <2>3
  <2> QED BY <2>2, <2>3
<1>3. ASSUME InOrder(q), m.kind = "frame" => \A f : Has(q, f) => Before(f, m.frame)
      PROVE  InOrder(r)
  <2> SUFFICES ASSUME NEW i \in DOMAIN r, NEW j \in DOMAIN r, i < j,
                      r[i].kind = "frame", r[j].kind = "frame"
               PROVE  Before(r[i].frame, r[j].frame)
    BY DEF InOrder
  <2>1. i \in DOMAIN q /\ r[i] = q[i] /\ Has(q, r[i].frame)
    BY <1>1 DEF Has
  <2>2. CASE j \in DOMAIN q
    BY <1>1, <1>3, <2>1, <2>2 DEF InOrder
  <2>3. CASE j \notin DOMAIN q
    <3>1. r[j] = m
      BY <1>1, <2>3
    <3> QED BY <1>3, <2>1, <3>1
  <2> QED BY <2>2, <2>3
<1> QED BY <1>2, <1>3 DEF r

LEMMA OrderDrop ==
  ASSUME NEW q \in Seq(Messages), NEW m \in Messages, InOrder(q),
         m.kind = "frame" => \A f : Has(q, f) => Before(f, m.frame)
  PROVE  /\ \A f : Has(DropOldest(q, m), f) => Has(q, f) \/ (m.kind = "frame" /\ f = m.frame)
         /\ InOrder(DropOldest(q, m))
<1>1. CASE Len(q) < Capacity
  BY <1>1, OrderAppend DEF DropOldest
<1>2. CASE ~(Len(q) < Capacity)
  <2>1. q # <<>>
    BY <1>2, ClientAssumption
  <2>2. Tail(q) \in Seq(Messages) /\ InOrder(Tail(q)) /\ \A f : Has(Tail(q), f) => Has(q, f)
    BY <2>1, OrderTail
  <2>3. DropOldest(q, m) = Append(Tail(q), m)
    BY <1>2 DEF DropOldest
  <2> QED BY <2>2, <2>3, OrderAppend
<1> QED BY <1>1, <1>2

\* What came through to the handler of call c, or is on its way there.
Taken(c, f) == \E i \in DOMAIN received[c] : received[c][i] = f

Sent(c, f) == Taken(c, f) \/ Has(inbox[c], f)

Now == [run |-> run, number |-> next]

\* A frame further on its way is an older one, and so is one of an earlier call.
OrderInv ==
  /\ \A c \in Calls :
       /\ \A i, j \in DOMAIN received[c] : i < j => Before(received[c][i], received[c][j])
       /\ InOrder(inbox[c])
       /\ \A f, g : Taken(c, f) /\ Has(inbox[c], g) => Before(f, g)
       /\ \A f : Sent(c, f) => c <= call /\ Before(f, Now)
       /\ \A f, g : Sent(c, f) /\ Has(outbound, g) => Before(f, g)
  /\ \A c, d \in Calls : c < d => \A f, g : Sent(c, f) /\ Sent(d, g) => Before(f, g)
  /\ InOrder(outbound)
  /\ \A f : Has(outbound, f) => Before(f, Now)

LEMMA OrderInit == Init => OrderInv
BY DEF Init, ClientInit, LoopInit, OrderInv, Taken, Sent, Has, InOrder

LEMMA SentFrames ==
  TInv => /\ \A c \in Calls : \A f : Sent(c, f) => f \in Frames
          /\ \A f : Has(outbound, f) => f \in Frames
          /\ Now \in Frames
<1> SUFFICES ASSUME TInv
             PROVE  /\ \A c \in Calls : \A f : Sent(c, f) => f \in Frames
                    /\ \A f : Has(outbound, f) => f \in Frames
                    /\ Now \in Frames
  OBVIOUS
<1>1. /\ inbox \in [Calls -> Seq(Messages)] /\ received \in [Calls -> Seq(Frames)]
      /\ outbound \in Seq(Messages) /\ run \in 1..MaxRuns /\ next \in 0..MaxFrames
  BY DEF TInv, TypeOK, ClientTypeOK, LoopTypeOK
<1>2. ASSUME NEW c \in Calls, NEW f, Sent(c, f) PROVE f \in Frames
  <2>1. received[c] \in Seq(Frames) /\ inbox[c] \in Seq(Messages)
    BY <1>1
  <2>2. Taken(c, f) => f \in Frames
    BY <2>1 DEF Taken
  <2> QED BY <1>2, <2>1, <2>2, HasFrames DEF Sent
<1>3. Now \in Frames
  BY <1>1 DEF Now, Frames
<1> QED BY <1>1, <1>2, <1>3, HasFrames

\* A handler makes nothing of a frame but take it, and its inbox only shrinks.
LEMMA OrderLoop ==
  ASSUME TInv, OrderInv, GatewayStep
  PROVE  OrderInv'
<1>1. PICK c \in Calls : HandlerStep(c)
  BY DEF GatewayStep, LoopNext, HandlerStep
<1>2. call' = call /\ outbound' = outbound /\ run' = run /\ next' = next
  BY DEF GatewayStep
<1>3. /\ inbox \in [Calls -> Seq(Messages)]
      /\ inbox[c] \in Seq(Messages) /\ received[c] \in Seq(Frames)
  BY DEF TInv, TypeOK, ClientTypeOK, LoopTypeOK
<1>4. /\ \A f : Sent(c, f)' => Sent(c, f)
      /\ \A i, j \in DOMAIN received'[c] : i < j => Before(received'[c][i], received'[c][j])
      /\ InOrder(inbox'[c])
      /\ \A f, g : Taken(c, f)' /\ Has(inbox'[c], g) => Before(f, g)
  <2>1. CASE ReceiveFrame(c)
    <3>1. /\ inbox[c] # <<>> /\ Head(inbox[c]).kind = "frame"
          /\ received'[c] = Append(received[c], Head(inbox[c]).frame)
      BY <2>1, OwnStep
    <3>2. inbox'[c] = Tail(inbox[c])
      BY <1>3, <2>1 DEF ReceiveFrame, Take
    <3> DEFINE first == Head(inbox[c]).frame
    <3>3. /\ \A f : Has(inbox'[c], f) => Has(inbox[c], f) /\ Before(first, f)
          /\ Has(inbox[c], first) /\ InOrder(inbox'[c])
      BY <1>3, <3>1, <3>2, OrderTail DEF OrderInv
    <3>4. first \in Frames
      BY <1>3, <3>3, HasFrames
    <3> HIDE DEF first
    <3>5. /\ DOMAIN received'[c] = 1..(Len(received[c]) + 1)
          /\ DOMAIN received[c] = 1..Len(received[c]) /\ Len(received[c]) \in Nat
          /\ \A i \in 1..Len(received[c]) : received'[c][i] = received[c][i]
          /\ received'[c][Len(received[c]) + 1] = first
      BY <1>3, <3>1, <3>4 DEF first
    <3>6. \A f : Taken(c, f)' => Taken(c, f) \/ f = first
      <4> SUFFICES ASSUME NEW i \in DOMAIN received'[c]
                   PROVE  Taken(c, received'[c][i]) \/ received'[c][i] = first
        BY DEF Taken
      <4> QED BY <3>5 DEF Taken
    <3>7. \A i \in DOMAIN received[c] : Before(received[c][i], first)
      BY <3>3 DEF OrderInv, Taken
    <3>8. ASSUME NEW i \in DOMAIN received'[c], NEW j \in DOMAIN received'[c], i < j
          PROVE  Before(received'[c][i], received'[c][j])
      <4>1. i \in DOMAIN received[c]
        BY <3>5, <3>8
      <4>2. CASE j \in DOMAIN received[c]
        BY <3>5, <3>8, <4>1, <4>2 DEF OrderInv
      <4>3. CASE j \notin DOMAIN received[c]
        BY <3>5, <3>7, <4>1, <4>3
      <4> QED BY <4>2, <4>3
    <3>9. \A f : Sent(c, f)' => Sent(c, f)
      BY <3>3, <3>6 DEF Sent
    <3>10. \A f, g : Taken(c, f)' /\ Has(inbox'[c], g) => Before(f, g)
      BY <3>3, <3>6 DEF OrderInv
    <3> QED BY <3>3, <3>8, <3>9, <3>10
  <2>2. CASE ~ReceiveFrame(c)
    <3>1. received' = received
      BY <1>1, <2>2, OwnStep DEF HandlerStep
    <3>2. \/ inbox' = inbox
          \/ inbox[c] # <<>> /\ inbox'[c] = Tail(inbox[c])
          \/ inbox'[c] = <<>>
      BY <1>1, <1>3, <2>2 DEF HandlerStep, Accept, Refuse, InitSession, Touch, Publish,
         ReceiveHealth, UpdateHealth, ReceiveLocation, End, Take, Arrived
    <3>3. InOrder(inbox'[c]) /\ \A f : Has(inbox'[c], f) => Has(inbox[c], f)
      <4>1. CASE inbox'[c] = <<>>
        BY <4>1 DEF InOrder, Has
      <4>2. CASE inbox'[c] # <<>>
        BY <1>3, <3>2, <4>2, OrderTail DEF OrderInv
      <4> QED BY <4>1, <4>2
    <3>4. \A f : Taken(c, f)' <=> Taken(c, f)
      BY <3>1 DEF Taken
    <3> QED BY <3>1, <3>3, <3>4 DEF OrderInv, Sent
  <2> QED BY <2>1, <2>2
<1>5. ASSUME NEW d \in Calls, d # c
      PROVE  /\ received'[d] = received[d] /\ inbox'[d] = inbox[d]
             /\ \A f : Taken(d, f)' <=> Taken(d, f)
             /\ \A f : Sent(d, f)' <=> Sent(d, f)
  BY <1>1, <1>5, OthersUntouched DEF Taken, Sent
<1>6. \A d \in Calls : \A f : Sent(d, f)' => Sent(d, f)
  BY <1>4, <1>5
<1>7. ASSUME NEW d \in Calls
      PROVE  /\ \A i, j \in DOMAIN received'[d] : i < j => Before(received'[d][i], received'[d][j])
             /\ InOrder(inbox'[d])
             /\ \A f, g : Taken(d, f)' /\ Has(inbox'[d], g) => Before(f, g)
  BY <1>4, <1>5 DEF OrderInv
<1>8. \A d \in Calls : /\ \A f : Sent(d, f)' => d <= call' /\ Before(f, Now')
                       /\ \A f, g : Sent(d, f)' /\ Has(outbound', g) => Before(f, g)
  BY <1>2, <1>6 DEF OrderInv, Now
<1>9. \A d, e \in Calls : d < e => \A f, g : Sent(d, f)' /\ Sent(e, g)' => Before(f, g)
  BY <1>6 DEF OrderInv
<1>10. InOrder(outbound') /\ \A f : Has(outbound', f) => Before(f, Now')
  BY <1>2 DEF OrderInv, Now
<1> QED BY <1>7, <1>8, <1>9, <1>10 DEF OrderInv

\* The phone appends what is newest, or nothing that is a frame.
LEMMA OrderClient ==
  ASSUME TInv, OrderInv, ClientStep
  PROVE  OrderInv'
<1>1. handler' = handler /\ received' = received
  BY DEF ClientStep, gateway
<1>2. /\ inbox \in [Calls -> Seq(Messages)] /\ outbound \in Seq(Messages)
      /\ phase # "waiting" => call \in Calls
      /\ call \in 0..MaxCalls /\ run \in 1..MaxRuns /\ next \in 0..MaxFrames
  BY DEF TInv, TypeOK, ClientTypeOK
<1>3. \A c \in Calls : \A f : Taken(c, f)' <=> Taken(c, f)
  BY <1>1 DEF Taken
\* Nothing was sent and no time went by.
<1>4. ASSUME inbox' = inbox, call' \in {call, call + 1}, Now' = Now,
             InOrder(outbound'), \A f : Has(outbound', f) => Has(outbound, f)
      PROVE  OrderInv'
  <2>1. \A c \in Calls : \A f : Sent(c, f)' <=> Sent(c, f)
    BY <1>3, <1>4 DEF Sent
  <2>2. \A c \in Calls : c <= call => c <= call'
    BY <1>2, <1>4 DEF Calls
  <2> QED BY <1>1, <1>3, <1>4, <2>1, <2>2 DEF OrderInv
<1>5. CASE BeginCall
  BY <1>4, <1>5 DEF BeginCall, Now, HandshakeWith, InOrder, Has
<1>6. CASE Connected \/ HearCommand \/ ReportHealth \/ ReportLocation
  BY <1>4, <1>6 DEF Connected, HearCommand, ReportHealth, ReportLocation, Submit, Now, OrderInv
<1>7. CASE CallEnds
  BY <1>4, <1>7 DEF CallEnds, Now, InOrder, Has
<1>8. CASE ForwardExtra
  <2>1. Head(extras) \in Messages /\ Head(extras).kind # "frame"
    BY <1>8, QueueTypes, MessageFacts DEF ForwardExtra, TInv, TypeOK, ClientTypeOK
  <2>2. InOrder(outbound') /\ \A f : Has(outbound', f) => Has(outbound, f)
    BY <1>2, <1>8, <2>1, OrderDrop DEF ForwardExtra, OrderInv
  <2> QED BY <1>4, <1>8, <2>2 DEF ForwardExtra, Now
<1>9. CASE Transmit
  <2>1. call \in Calls /\ outbound # <<>> /\ inbox[call] \in Seq(Messages) /\ Head(outbound) \in Messages
    BY <1>2, <1>9 DEF Transmit
  <2>2. /\ inbox'[call] = Append(inbox[call], Head(outbound))
        /\ \A c \in Calls : c # call => inbox'[c] = inbox[c]
        /\ outbound' = Tail(outbound) /\ call' = call /\ Now' = Now
    BY <1>2, <1>9, <2>1 DEF Transmit, Now
  <2> DEFINE first == Head(outbound).frame
             IsFrame == Head(outbound).kind = "frame"
  <2>3. /\ \A f : Has(outbound', f) => Has(outbound, f)
        /\ IsFrame => Has(outbound, first) /\ \A f : Has(outbound', f) => Before(first, f)
        /\ InOrder(outbound')
    BY <1>2, <2>1, <2>2, OrderTail DEF OrderInv
  <2>4. /\ \A f : Has(inbox'[call], f) => Has(inbox[call], f) \/ (IsFrame /\ f = first)
        /\ InOrder(inbox'[call])
    <3>1. IsFrame => \A f : Has(inbox[call], f) => Before(f, first)
      BY <2>1, <2>3 DEF OrderInv, Sent
    <3>2. InOrder(inbox[call])
      BY <2>1 DEF OrderInv
    <3> QED BY <2>1, <2>2, <3>1, <3>2, OrderAppend
  <2> HIDE DEF first, IsFrame
  <2>5. \A c \in Calls : \A f : Sent(c, f)' => Sent(c, f) \/ (c = call /\ IsFrame /\ f = first)
    BY <1>3, <2>2, <2>4 DEF Sent
  <2>6. ASSUME NEW c \in Calls
        PROVE  /\ \A i, j \in DOMAIN received'[c] : i < j => Before(received'[c][i], received'[c][j])
               /\ InOrder(inbox'[c])
               /\ \A f, g : Taken(c, f)' /\ Has(inbox'[c], g) => Before(f, g)
    <3>1. CASE c = call
      BY <1>1, <1>3, <2>3, <2>4, <3>1 DEF OrderInv, Sent
    <3>2. CASE c # call
      BY <1>1, <1>3, <2>2, <3>2 DEF OrderInv
    <3> QED BY <3>1, <3>2
  <2>7. ASSUME NEW c \in Calls, NEW f, Sent(c, f)'
        PROVE  /\ c <= call' /\ Before(f, Now')
               /\ \A g : Has(outbound', g) => Before(f, g)
    <3>1. call <= call
      BY <1>2
    <3> QED BY <2>2, <2>3, <2>5, <2>7, <3>1 DEF OrderInv
  <2>8. ASSUME NEW c \in Calls, NEW d \in Calls, c < d, NEW f, NEW g, Sent(c, f)', Sent(d, g)'
        PROVE  Before(f, g)
    <3>1. CASE Sent(c, f) /\ Sent(d, g)
      BY <2>8, <3>1 DEF OrderInv
    <3>2. CASE Sent(c, f) /\ IsFrame /\ g = first
      BY <2>3, <3>2 DEF OrderInv
    <3>3. CASE c = call
      <4>1. ~(d <= call) /\ d # call
        BY <1>2, <2>8, <3>3 DEF Calls
      <4> QED BY <2>5, <2>8, <4>1 DEF OrderInv
    <3> QED BY <2>5, <2>8, <3>1, <3>2, <3>3
  <2>9. \A f : Has(outbound', f) => Before(f, Now')
    BY <2>2, <2>3 DEF OrderInv
  <2> QED BY <2>3, <2>6, <2>7, <2>8, <2>9 DEF OrderInv
\* The frame of the moment may have entered the channel, and time went by.
<1>10. ASSUME inbox' = inbox, call' = call, InOrder(outbound'),
              \A f : Has(outbound', f) => Has(outbound, f) \/ (f = Now /\ Before(Now, Now')),
              \A f \in Frames : Before(f, Now) => Before(f, Now')
       PROVE  OrderInv'
  <2>1. \A c \in Calls : \A f : Sent(c, f)' <=> Sent(c, f)
    BY <1>3, <1>10 DEF Sent
  <2>2. \A c \in Calls : \A f : Sent(c, f) => Before(f, Now')
    BY <1>10, SentFrames DEF OrderInv
  <2>3. \A f : Has(outbound', f) => Before(f, Now')
    BY <1>10, SentFrames DEF OrderInv
  <2>4. \A c \in Calls : \A f, g : Sent(c, f) /\ Has(outbound', g) => Before(f, g)
    BY <1>10 DEF OrderInv
  <2> QED BY <1>1, <1>3, <1>10, <2>1, <2>2, <2>3, <2>4 DEF OrderInv
<1>11. ASSUME ClientNext PROVE Now' \in Frames
  BY <1>11, TypeClient DEF ClientTypeOK, Now, Frames
<1>12. CASE Capture
  <2>1. Now \in Frames /\ Now' \in Frames /\ AudioFrame(Now) \in Messages
    BY <1>11, <1>12, SentFrames, MessageFacts DEF ClientNext
  <2>2. Before(Now, Now')
    BY <1>2, <1>12 DEF Capture, Before, Now
  <2>3. \A f \in Frames : Before(f, Now) => Before(f, Now')
    BY <2>1, <2>2, BeforeFacts
  <2>4. outbound' = outbound \/ outbound' = DropOldest(outbound, AudioFrame(Now))
    BY <1>12 DEF Capture, Now
  <2>5. AudioFrame(Now).kind = "frame" /\ AudioFrame(Now).frame = Now
    BY DEF AudioFrame
  <2>6. /\ InOrder(outbound')
        /\ \A f : Has(outbound', f) => Has(outbound, f) \/ f = Now
    BY <1>2, <2>1, <2>4, <2>5, OrderDrop DEF OrderInv
  <2> QED BY <1>10, <1>12, <2>2, <2>3, <2>6 DEF Capture
<1>13. CASE RestartCapture
  <2>1. \A f \in Frames : Before(f, Now) => Before(f, Now')
    BY <1>2, <1>13 DEF RestartCapture, Before, Now, Frames
  <2> QED BY <1>10, <1>13, <2>1 DEF RestartCapture, OrderInv
<1> QED BY <1>5, <1>6, <1>7, <1>8, <1>9, <1>12, <1>13 DEF ClientStep, ClientNext

LEMMA OrderNext == TInv /\ OrderInv /\ [Next]_vars => OrderInv'
<1>1. TInv /\ OrderInv /\ (LoseRecord \/ UNCHANGED vars) => OrderInv'
  BY DEF LoseRecord, vars, client, gateway, OrderInv, Taken, Sent, Now
<1> QED BY <1>1, OrderLoop, OrderClient DEF Next

\* An entry of the stream is a frame its handler took, and not the one at hand;
\* no two are the same, and those of a call are in order.
StreamInv ==
  /\ \A i \in DOMAIN stream :
       \E k \in DOMAIN received[stream[i].call] :
         /\ received[stream[i].call][k] = stream[i].frame
         /\ k = Len(received[stream[i].call]) =>
              handler[stream[i].call].phase \notin {"touch", "publish"}
  /\ StreamInOrder

LEMMA StreamInit == Init => StreamInv
BY DEF Init, LoopInit, StreamInv, StreamInOrder

LEMMA StreamNext ==
  TInv /\ HandlerInv /\ OrderInv /\ StreamInv /\ [Next]_vars => StreamInv'
<1> SUFFICES ASSUME TInv, HandlerInv, OrderInv, StreamInv, [Next]_vars PROVE StreamInv'
  OBVIOUS
<1>0. /\ stream \in Seq([call : Calls, frame : Frames])
      /\ received \in [Calls -> Seq(Frames)]
      /\ \A i \in DOMAIN stream : stream[i].call \in Calls /\ stream[i].frame \in Frames
  <2>1. stream \in Seq([call : Calls, frame : Frames]) /\ received \in [Calls -> Seq(Frames)]
    BY DEF TInv, TypeOK, LoopTypeOK
  <2>2. \A i \in DOMAIN stream : stream[i] \in [call : Calls, frame : Frames]
    BY <2>1, ElementTypes
  <2> QED BY <2>1, <2>2
<1>1. CASE GatewayStep
  <2>1. PICK c \in Calls : HandlerStep(c)
    BY <1>1 DEF GatewayStep, LoopNext, HandlerStep
  <2>2. received[c] \in Seq(Frames)
    BY <1>0
  <2> DEFINE Behind(d, f) ==
        \E k \in DOMAIN received[d] :
          received[d][k] = f /\ (k = Len(received[d]) => handler[d].phase \notin {"touch", "publish"})
  <2>3. \A i \in DOMAIN stream : Behind(stream[i].call, stream[i].frame)
    BY DEF StreamInv
  <2>4. ASSUME NEW d \in Calls, NEW f, Behind(d, f) PROVE Behind(d, f)'
    <3>1. CASE d # c
      BY <2>1, <2>4, <3>1, OthersUntouched
    <3>2. CASE d = c /\ ReceiveFrame(c)
      <4>1. Head(inbox[c]).frame \in Frames
        BY <3>2, OwnStep, HandlerFacts, MessageFacts
      <4> QED BY <2>2, <2>4, <3>2, <4>1, OwnStep
    <3>3. CASE d = c /\ Touch(c)
      BY <2>4, <3>3, OwnStep DEF Turns
    <3>4. CASE d = c /\ ~ReceiveFrame(c) /\ ~Touch(c)
      BY <2>1, <2>4, <3>4, OwnStep DEF HandlerStep, Turns
    <3> QED BY <3>1, <3>2, <3>3, <3>4
  <2>5. CASE stream' = stream
    <3>1. \A i \in DOMAIN stream' : Behind(stream[i].call, stream[i].frame)'
      <4> SUFFICES ASSUME NEW i \in DOMAIN stream
                   PROVE  Behind(stream[i].call, stream[i].frame)'
        BY <2>5
      <4>1. PICK d \in Calls, f \in Frames : d = stream[i].call /\ f = stream[i].frame
        BY <1>0
      <4>2. d = stream'[i].call /\ f = stream'[i].frame /\ Behind(d, f)
        BY <2>3, <2>5, <4>1
      <4> QED BY <2>4, <4>2
    <3> QED BY <2>5, <3>1 DEF StreamInv, StreamInOrder
  <2>6. CASE stream' # stream
    <3> DEFINE entry == [call |-> c, frame |-> handler[c].frame]
               last == Len(received[c])
    <3>1. Publish(c) /\ stream' = Append(stream, entry)
      BY <2>1, <2>6 DEF HandlerStep, Accept, Refuse, InitSession, ReceiveFrame, Touch, Publish,
         ReceiveHealth, UpdateHealth, ReceiveLocation, End
    <3>2. /\ received' = received /\ received[c] # <<>>
          /\ handler[c].phase = "publish" /\ handler'[c].phase = "receive"
          /\ handler[c].frame = received[c][last]
      BY <3>1, OwnStep DEF Turns, HandlerInv
    <3>3. last \in DOMAIN received[c] /\ entry \in [call : Calls, frame : Frames]
      BY <2>2, <3>2, HandlerFacts
    <3>4. /\ DOMAIN stream' = DOMAIN stream \cup {Len(stream) + 1}
          /\ \A i \in DOMAIN stream : stream'[i] = stream[i] /\ i < Len(stream) + 1 /\ i \in Nat
          /\ stream'[Len(stream) + 1] = entry
      BY <1>0, <3>1, <3>3
    <3>6. \A i \in DOMAIN stream' : Behind(stream[i].call, stream[i].frame)'
      <4> SUFFICES ASSUME NEW i \in DOMAIN stream'
                   PROVE  Behind(stream[i].call, stream[i].frame)'
        OBVIOUS
      <4>1. CASE i \in DOMAIN stream
        <5>1. PICK d \in Calls, f \in Frames : d = stream[i].call /\ f = stream[i].frame
          BY <1>0, <4>1
        <5>2. d = stream'[i].call /\ f = stream'[i].frame /\ Behind(d, f)
          BY <2>3, <3>4, <4>1, <5>1
        <5> QED BY <2>4, <5>2
      <4>2. CASE i \notin DOMAIN stream
        <5>1. stream'[i].call = c /\ stream'[i].frame = received[c][last]
          BY <3>2, <3>4, <4>2
        <5> QED BY <3>2, <3>3, <5>1
      <4> QED BY <4>1, <4>2
    <3>7. ASSUME NEW i \in DOMAIN stream
          PROVE  /\ stream[i].frame # handler[c].frame
                 /\ stream[i].call = c => Before(stream[i].frame, handler[c].frame)
      <4>1. PICK k \in DOMAIN received[stream[i].call] :
              /\ received[stream[i].call][k] = stream[i].frame
              /\ k = Len(received[stream[i].call]) =>
                   handler[stream[i].call].phase \notin {"touch", "publish"}
        BY DEF StreamInv
      <4>2. /\ Sent(stream[i].call, stream[i].frame) /\ Sent(c, handler[c].frame)
            /\ stream[i].call \in Calls
            /\ stream[i].frame \in Frames /\ handler[c].frame \in Frames
        BY <1>0, <3>2, <3>3, <4>1, HandlerFacts DEF Sent, Taken
      <4>3. CASE stream[i].call = c
        <5>1. k < last /\ k \in DOMAIN received[c]
          BY <2>2, <3>2, <4>1, <4>3
        <5> QED BY <3>2, <3>3, <4>1, <4>2, <4>3, <5>1, BeforeFacts DEF OrderInv
      <4>4. CASE stream[i].call # c
        <5>1. stream[i].call < c \/ c < stream[i].call
          BY <4>2, <4>4 DEF Calls
        <5> QED BY <4>2, <4>4, <5>1, BeforeFacts DEF OrderInv
      <4> QED BY <4>3, <4>4
    <3>8. ASSUME NEW i \in DOMAIN stream', NEW j \in DOMAIN stream', i < j
          PROVE  /\ stream'[i].frame # stream'[j].frame
                 /\ stream'[i].call = stream'[j].call => Before(stream'[i].frame, stream'[j].frame)
      <4>1. i \in DOMAIN stream
        BY <1>0, <3>4, <3>8
      <4>2. CASE j \in DOMAIN stream
        BY <3>4, <3>8, <4>1, <4>2 DEF StreamInv, StreamInOrder
      <4>3. CASE j \notin DOMAIN stream
        BY <3>4, <3>7, <4>1, <4>3
      <4> QED BY <4>2, <4>3
    <3> QED BY <3>6, <3>8 DEF StreamInv, StreamInOrder
  <2> QED BY <2>5, <2>6
<1>2. CASE ClientStep \/ LoseRecord \/ UNCHANGED vars
  BY <1>2 DEF ClientStep, LoseRecord, vars, gateway, StreamInv, StreamInOrder
<1> QED BY <1>1, <1>2 DEF Next

\* The worker reads no frame twice and those of a call in the order of their
\* capture, however calls overlap, channels overflow and the phone reconnects.
THEOREM StreamIsOrdered == Spec => []StreamInOrder
<1> DEFINE Inv == TInv /\ HandlerInv /\ OrderInv /\ StreamInv
<1>1. Init => Inv
  BY TypeInit, HandlerInit, OrderInit, StreamInit
<1>2. Inv /\ [Next]_vars => Inv'
  BY TypeNext, HandlerNext, OrderNext, StreamNext
<1>3. Inv => StreamInOrder
  BY DEF StreamInv
<1> QED BY <1>1, <1>2, <1>3, PTL DEF Spec

-----------------------------------------------------------------------------
(* The pace of the acks *)

\* On a stream without a restart the frames wait for their acks in small numbers,
\* the one at hand not counted, and the number of the last ack is one of theirs.
PaceInv ==
  \A c \in Calls : ~Restarted(c) =>
    /\ \A i \in DOMAIN received[c] :
         \/ received[c][i].number < handler[c].acked + AckInterval
         \/ i = Len(received[c]) /\ handler[c].phase \in {"touch", "publish", "closed"}
    /\ handler[c].acked # -1 =>
         \E i \in DOMAIN received[c] : received[c][i].number = handler[c].acked

LEMMA PaceInit == Init => PaceInv
BY DEF Init, LoopInit, PaceInv, Idle

\* The frames of a stream without a restart are numbered upwards.
LEMMA NumberedUpwards ==
  ASSUME TInv, OrderInv, NEW c \in Calls, ~Restarted(c)
  PROVE  \A i, j \in DOMAIN received[c] :
           i < j => received[c][i].number < received[c][j].number
<1> SUFFICES ASSUME NEW i \in DOMAIN received[c], NEW j \in DOMAIN received[c], i < j
             PROVE  received[c][i].number < received[c][j].number
  OBVIOUS
<1>1. received[c][i] \in Frames /\ received[c][j] \in Frames
  BY HandlerFacts, ElementTypes
<1>2. Before(received[c][i], received[c][j]) /\ received[c][i].run = received[c][j].run
  BY DEF OrderInv, Restarted
<1> QED BY <1>1, <1>2, ClientAssumption DEF Before, Frames

LEMMA PaceNext ==
  TInv /\ HandlerInv /\ OrderInv /\ PaceInv /\ [Next]_vars => PaceInv'
<1> SUFFICES ASSUME TInv, HandlerInv, OrderInv, PaceInv, [Next]_vars PROVE PaceInv'
  OBVIOUS
<1>1. CASE GatewayStep
  <2>1. PICK c \in Calls : HandlerStep(c)
    BY <1>1 DEF GatewayStep, LoopNext, HandlerStep
  <2> DEFINE Paced(d, r, h) ==
        /\ \A i \in DOMAIN r :
             \/ r[i].number < h.acked + AckInterval
             \/ i = Len(r) /\ h.phase \in {"touch", "publish", "closed"}
        /\ h.acked # -1 => \E i \in DOMAIN r : r[i].number = h.acked
  <2>2. ASSUME NEW d \in Calls, ~Restarted(d)' PROVE ~Restarted(d)
    BY <2>2, ReceivedStays DEF Restarted
  <2>3. /\ received[c] \in Seq(Frames)
        /\ handler \in [Calls -> Handlers] /\ handler[c] \in Handlers
    BY HandlerFacts DEF TInv, TypeOK, LoopTypeOK
  <2>4. /\ Accept(c) \/ Refuse(c) => handler'[c].acked = -1
        /\ Publish(c) /\ AckDue(c) => handler'[c].acked = handler[c].frame.number
        /\ Publish(c) /\ ~AckDue(c) => handler'[c].acked = handler[c].acked
        /\ ~Accept(c) /\ ~Refuse(c) /\ ~Publish(c) => handler'[c].acked = handler[c].acked
    <3>1. ASSUME NEW h, Become(c, h) PROVE handler'[c] = h
      BY <2>3, <3>1 DEF Become
    <3>2. Accept(c) \/ Refuse(c) => handler'[c].acked = -1
      BY <3>1 DEF Accept, Refuse, Idle
    <3>3. /\ Publish(c) /\ AckDue(c) => handler'[c].acked = handler[c].frame.number
          /\ Publish(c) /\ ~AckDue(c) => handler'[c].acked = handler[c].acked
      BY <2>3, <3>1 DEF Publish, Acks, Handlers
    <3>4. ~Accept(c) /\ ~Refuse(c) /\ ~Publish(c) => handler'[c].acked = handler[c].acked
      BY <2>1, <2>3, <3>1 DEF HandlerStep, InitSession, ReceiveFrame, Touch,
         ReceiveHealth, UpdateHealth, ReceiveLocation, End, Handlers
    <3> QED BY <3>2, <3>3, <3>4
  <2>5. ASSUME ~Restarted(c)' PROVE Paced(c, received'[c], handler'[c])
    <3>0. Paced(c, received[c], handler[c])
      BY <2>2, <2>5 DEF PaceInv
    <3>1. CASE Accept(c) \/ Refuse(c)
      BY <2>4, <3>1, OwnStep DEF HandlerInv
    <3>2. CASE ReceiveFrame(c)
      <4>1. Head(inbox[c]).frame \in Frames
        BY <3>2, OwnStep, HandlerFacts, MessageFacts
      <4>2. /\ handler[c].phase = "receive" /\ handler'[c].phase = "touch"
            /\ handler'[c].acked = handler[c].acked
            /\ received'[c] = Append(received[c], Head(inbox[c]).frame)
        BY <2>4, <3>2, OwnStep DEF Turns, Accept, Refuse, Publish
      <4>3. /\ DOMAIN received'[c] = 1..(Len(received[c]) + 1)
            /\ Len(received'[c]) = Len(received[c]) + 1
            /\ DOMAIN received[c] = 1..Len(received[c]) /\ Len(received[c]) \in Nat
            /\ \A i \in DOMAIN received[c] : received'[c][i] = received[c][i]
        BY <2>3, <4>1, <4>2
      <4>4. \A i \in DOMAIN received'[c] : i \in DOMAIN received[c] \/ i = Len(received'[c])
        BY <4>3
      <4>5. \A i \in DOMAIN received[c] :
              i \in DOMAIN received'[c] /\ received[c][i].number < handler[c].acked + AckInterval
        BY <3>0, <4>2, <4>3
      <4> QED BY <3>0, <4>2, <4>3, <4>4, <4>5
    <3>3. CASE Publish(c)
      <4> DEFINE last == Len(received[c])
      <4>1. /\ received' = received /\ received[c] # <<>> /\ handler'[c].phase = "receive"
            /\ handler[c].frame = received[c][last]
        BY <3>3, OwnStep DEF Turns, HandlerInv
      <4>2. /\ last \in DOMAIN received[c]
            /\ \A i \in DOMAIN received[c] : i = last \/ i < last
            /\ \A i \in DOMAIN received[c] : received[c][i] \in Frames
        BY <2>3, <4>1, ElementTypes
      <4>3. /\ \A i \in DOMAIN received[c] : received[c][i].number \in Int
            /\ handler[c].acked \in Int /\ AckInterval \in Nat \ {0}
        BY <2>3, <4>2, ClientAssumption, AckAssumption DEF Frames, Handlers
      <4>4. \A i \in DOMAIN received[c] : received[c][i].number <= received[c][last].number
        BY <2>2, <2>5, <4>2, <4>3, NumberedUpwards
      <4>5. CASE AckDue(c)
        <5>1. handler'[c].acked = received[c][last].number
          BY <2>4, <3>3, <4>1, <4>5
        <5> QED BY <4>1, <4>2, <4>3, <4>4, <5>1
      <4>6. CASE ~AckDue(c)
        <5>1. handler'[c].acked = handler[c].acked
          BY <2>4, <3>3, <4>6
        <5>2. received[c][last].number < handler[c].acked + AckInterval
          BY <4>1, <4>2, <4>3, <4>6 DEF AckDue
        <5>3. \A i \in DOMAIN received[c] : received[c][i].number < handler[c].acked + AckInterval
          BY <4>2, <4>3, <4>4, <5>2
        <5> QED BY <3>0, <4>1, <5>1, <5>3
      <4> QED BY <4>5, <4>6
    <3>4. CASE InitSession(c) \/ Touch(c) \/ ReceiveHealth(c) \/ UpdateHealth(c)
               \/ ReceiveLocation(c) \/ End(c)
      <4>1. received' = received /\ handler'[c].acked = handler[c].acked
        BY <2>4, <3>4, OwnStep DEF Turns, Accept, Refuse, Publish, Live
      <4>2. handler[c].phase \in {"touch", "publish", "closed"} =>
              handler'[c].phase \in {"touch", "publish", "closed"}
        BY <3>4, OwnStep DEF Turns
      <4> QED BY <3>0, <4>1, <4>2
    <3> QED BY <2>1, <3>1, <3>2, <3>3, <3>4 DEF HandlerStep
  <2>6. ASSUME NEW d \in Calls, d # c, ~Restarted(d)' PROVE Paced(d, received'[d], handler'[d])
    BY <2>1, <2>2, <2>6, OthersUntouched DEF PaceInv
  <2> QED BY <2>5, <2>6 DEF PaceInv
<1>2. CASE ClientStep \/ LoseRecord \/ UNCHANGED vars
  BY <1>2 DEF ClientStep, LoseRecord, vars, gateway, PaceInv, Restarted
<1> QED BY <1>1, <1>2 DEF Next

\* As many indices as numbers from the last ack on, at most.
LEMMA PaceCounts ==
  ASSUME TInv, OrderInv, PaceInv, NEW c \in Calls,
         handler[c].phase = "receive", ~Restarted(c)
  PROVE  Cardinality(Unacked(c)) < AckInterval
<1> DEFINE a == handler[c].acked
           S == Unacked(c)
           T == (a + 1)..(a + AckInterval - 1)
           f == [i \in S |-> received[c][i].number]
<1>1. /\ received[c] \in Seq(Frames) /\ a \in -1..MaxFrames
      /\ a \in Int /\ AckInterval \in Nat \ {0}
  BY HandlerFacts, ClientAssumption, AckAssumption
<1>2. \A i \in DOMAIN received[c] : received[c][i].number \in 0..MaxFrames
  <2>1. \A i \in DOMAIN received[c] : received[c][i] \in Frames
    BY <1>1, ElementTypes
  <2> QED BY <2>1 DEF Frames
<1>3. ASSUME NEW i \in S PROVE i \in DOMAIN received[c] /\ f[i] = received[c][i].number /\ f[i] \in T
  <2>1. i \in DOMAIN received[c] /\ f[i] = received[c][i].number
    BY DEF Unacked
  <2>2. received[c][i].number < a + AckInterval
    BY <2>1 DEF PaceInv
  <2>3. a < received[c][i].number
    <3>1. CASE a = -1
      BY <1>2, <2>1, <3>1
    <3>2. CASE a # -1
      <4>1. PICK k \in DOMAIN received[c] : received[c][k].number = a
        BY <3>2 DEF PaceInv
      <4>2. k < i
        BY <4>1 DEF Unacked
      <4> QED BY <2>1, <4>1, <4>2, NumberedUpwards
    <3> QED BY <3>1, <3>2
  <2>4. received[c][i].number \in Int
    BY <1>2, <2>1
  <2> QED BY <1>1, <2>1, <2>2, <2>3, <2>4
<1>4. ASSUME NEW i \in S, NEW j \in S, f[i] = f[j] PROVE i = j
  <2>1. /\ i \in Int /\ j \in Int
        /\ received[c][i].number \in Int /\ received[c][i].number = received[c][j].number
    BY <1>1, <1>2, <1>3, <1>4
  <2>2. ~(i < j) /\ ~(j < i)
    BY <1>3, <2>1, NumberedUpwards
  <2> QED BY <2>1, <2>2
<1> HIDE DEF S, T
<1>5. f \in Injection(S, T)
  <2> HIDE DEF f
  <2>1. f \in [S -> T]
    BY <1>3 DEF f
  <2> QED BY <1>4, <2>1, Fun_IsInj
<1>6. IsFiniteSet(T) /\ Cardinality(T) = AckInterval - 1
  <2>1. a + 1 \in Int /\ a + AckInterval - 1 \in Int
    BY <1>1
  <2>2. /\ IsFiniteSet(T)
        /\ Cardinality(T) = IF a + 1 > a + AckInterval - 1 THEN 0
                            ELSE (a + AckInterval - 1) - (a + 1) + 1
    BY <2>1, FS_Interval DEF T
  <2> QED BY <1>1, <2>2
<1>7. IsFiniteSet(S) /\ Cardinality(S) <= AckInterval - 1
  BY <1>5, <1>6, FS_Injection
<1>8. Cardinality(S) \in Nat
  BY <1>7, FS_CardinalityType
<1> QED BY <1>1, <1>7, <1>8 DEF S

\* The phone never waits for AckInterval acks it was owed, lost frames or not,
\* while the capture runs on.
THEOREM AcksKeepPace == Spec => []AcksKeepUp
<1> DEFINE Inv == TInv /\ HandlerInv /\ OrderInv /\ PaceInv
<1>1. Init => Inv
  BY TypeInit, HandlerInit, OrderInit, PaceInit
<1>2. Inv /\ [Next]_vars => Inv'
  BY TypeNext, HandlerNext, OrderNext, PaceNext
<1>3. Inv => AcksKeepUp
  BY PaceCounts DEF AcksKeepUp
<1> QED BY <1>1, <1>2, <1>3, PTL DEF Spec
=============================================================================
