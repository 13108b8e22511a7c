---------------------------- MODULE StreamingClient ----------------------------
(***************************************************************************)
(* The phone's end of a stream: StreamingClient calls the gateway again    *)
(* and again, and for each call keeps a bounded outbound channel that      *)
(* drops its oldest message when it is full.  Two forwarders fill it, one  *)
(* from the microphone and one from the channel of extras, which also      *)
(* gathers while there is no call.  What leaves the channel travels in     *)
(* order to the gateway; of what comes back, the FrameAcks are here.        *)
(***************************************************************************)
EXTENDS Integers, Sequences, SequencesExt

CONSTANTS
  Capacity,         \* of outbound and of outboundExtras (32)
  Window,           \* messages on their way to the gateway
  MaxCalls,         \* bound of the calls
  MaxFrames,        \* bound of the frames captured
  MaxRuns,          \* bound of the capture restarts
  MaxReports        \* bound of the reports

ASSUME ClientAssumption ==
  /\ Capacity \in Nat \ {0} /\ Window \in Nat \ {0}
  /\ MaxCalls \in Nat \ {0} /\ MaxRuns \in Nat \ {0}
  /\ MaxFrames \in Nat /\ MaxReports \in Nat

VARIABLES
  phase,            \* where runLoop is
  call,             \* calls made so far, and the name of the last
  outbound,         \* the channel of the call
  extras,           \* outboundExtras
  fix,              \* LocationProvider.state
  run,              \* captures started so far
  next,             \* number of the next frame of this capture
  produced,         \* frames and reports so far, for the bounds
  acked,            \* lastAckedSequence and the call it came on
  inbox,            \* per call: messages on their way to the gateway
  outbox            \* per call: FrameAcks on their way to the phone

client == <<phase, call, outbound, extras, fix, run, next, produced, acked,
            inbox, outbox>>

Calls == 1..MaxCalls

\* "none": no permission, so no provider; "unavailable": nothing known yet.
Fixes == {"none", "unavailable", "known"}

Frames == [run : 1..MaxRuns, number : 0..MaxFrames]

HandshakeWith(f) == [kind |-> "handshake", fix |-> f]
AudioFrame(frame) == [kind |-> "frame", frame |-> frame]
Health   == [kind |-> "health"]
Location == [kind |-> "location"]

Extras   == {Health, Location}
Messages == {HandshakeWith(f) : f \in Fixes} \cup {AudioFrame(f) : f \in Frames}
              \cup Extras

\* trySend on a channel with BufferOverflow.DROP_OLDEST.
DropOldest(channel, message) ==
  IF Len(channel) < Capacity THEN Append(channel, message)
                             ELSE Append(Tail(channel), message)

\* The forwarders run and the call has not ended for the phone.
Calling == phase \in {"connecting", "open"}

ClientInit ==
  /\ phase = "waiting" /\ call = 0
  /\ outbound = <<>> /\ extras = <<>>
  /\ fix \in Fixes
  /\ run = 1 /\ next = 0
  /\ produced = [frames |-> 0, reports |-> 0]
  /\ acked = [call |-> 0, number |-> -1]
  /\ inbox = [c \in Calls |-> <<>>] /\ outbox = [c \in Calls |-> <<>>]

-----------------------------------------------------------------------------
(* runLoop *)

\* Mutant: the handshake goes behind the extras.
HandshakeLast ==
  /\ phase = "waiting" /\ call < MaxCalls
  /\ phase' = "connecting"
  /\ call' = call + 1
  /\ outbound' = extras \o <<HandshakeWith(fix)>>
  /\ extras' = <<>>
  /\ UNCHANGED <<fix, run, next, produced, acked, inbox, outbox>>

\* Mutant: what the gateway has not read of the last call is sent again.
ResendUnread ==
  /\ phase = "waiting" /\ call < MaxCalls
  /\ phase' = "connecting"
  /\ call' = call + 1
  /\ outbound' = <<HandshakeWith(fix)>> \o (IF call = 0 THEN <<>> ELSE inbox[call])
  /\ UNCHANGED <<extras, fix, run, next, produced, acked, inbox, outbox>>

\* The channel of the new call begins with the handshake.
BeginCall ==
  /\ phase = "waiting" /\ call < MaxCalls
  /\ phase' = "connecting"
  /\ call' = call + 1
  /\ outbound' = <<HandshakeWith(fix)>>
  /\ UNCHANGED <<extras, fix, run, next, produced, acked, inbox, outbox>>

\* The connection is there, and the call begins to collect the channel.
Connected ==
  /\ phase = "connecting"
  /\ phase' = "open"
  /\ UNCHANGED <<call, outbound, extras, fix, run, next,
                 produced, acked, inbox, outbox>>

Transmit ==
  /\ phase = "open"
  /\ outbound # <<>> /\ Len(inbox[call]) < Window
  /\ inbox' = [inbox EXCEPT ![call] = Append(@, Head(outbound))]
  /\ outbound' = Tail(outbound)
  /\ UNCHANGED <<phase, call, extras, fix, run, next,
                 produced, acked, outbox>>

\* handleServerCommand.
HearCommand ==
  /\ phase = "open"
  /\ outbox[call] # <<>>
  /\ outbox' = [outbox EXCEPT ![call] = Tail(@)]
  /\ acked' = [call |-> call, number |-> Head(outbox[call])]
  /\ UNCHANGED <<phase, call, outbound, extras, fix, run, next,
                 produced, inbox>>

\* The call ends for the phone, with an error or without, whatever the gateway
\* still holds of it: what is left in the channel is gone.  A pause follows.
CallEnds ==
  /\ Calling
  /\ phase' = "waiting"
  /\ outbound' = <<>>
  /\ outbox' = [outbox EXCEPT ![call] = <<>>]
  /\ UNCHANGED <<call, extras, fix, run, next, produced, acked, inbox>>

-----------------------------------------------------------------------------
(* What is sent *)

\* AudioFrameProducer emits a frame.  Nobody collects it between two calls.
Capture ==
  /\ produced.frames < MaxFrames
  /\ produced' = [produced EXCEPT !.frames = @ + 1]
  /\ next' = next + 1
  /\ outbound' = IF Calling
                 THEN DropOldest(outbound, AudioFrame([run |-> run, number |-> next]))
                 ELSE outbound
  /\ UNCHANGED <<phase, call, extras, fix, run, acked, inbox, outbox>>

\* AudioWatchdog starts the capture again.
RestartCapture ==
  /\ run < MaxRuns /\ next > 0
  /\ run' = run + 1 /\ next' = 0
  /\ UNCHANGED <<phase, call, outbound, extras, fix,
                 produced, acked, inbox, outbox>>

Submit(extra) ==
  /\ produced.reports < MaxReports
  /\ produced' = [produced EXCEPT !.reports = @ + 1]
  /\ extras' = DropOldest(extras, extra)
  /\ UNCHANGED <<phase, call, outbound, run, next, acked,
                 inbox, outbox>>

\* HealthReporter, every 30 seconds, call or no call.
ReportHealth == Submit(Health) /\ UNCHANGED fix

\* onLocationChanged: the first fix, or another one.
ReportLocation == fix # "none" /\ Submit(Location) /\ fix' = "known"

ForwardExtra ==
  /\ Calling /\ extras # <<>>
  /\ outbound' = DropOldest(outbound, Head(extras))
  /\ extras' = Tail(extras)
  /\ UNCHANGED <<phase, call, fix, run, next, produced,
                 acked, inbox, outbox>>

ClientNext ==
  \/ BeginCall \/ Connected \/ Transmit \/ HearCommand
  \/ CallEnds
  \/ Capture \/ RestartCapture \/ ReportHealth \/ ReportLocation \/ ForwardExtra

ClientTypeOK ==
  /\ phase \in {"waiting", "connecting", "open"}
  /\ call \in 0..MaxCalls
  /\ outbound \in Seq(Messages) /\ Len(outbound) <= Capacity
  /\ extras \in Seq(Extras) /\ Len(extras) <= Capacity
  /\ fix \in Fixes
  /\ run \in 1..MaxRuns /\ next \in 0..MaxFrames
  /\ produced \in [frames : 0..MaxFrames, reports : 0..MaxReports]
  /\ acked \in [call : 0..MaxCalls, number : -1..MaxFrames]
  /\ inbox \in [Calls -> Seq(Messages)]
  /\ \A c \in Calls : Len(inbox[c]) <= Window
  /\ outbox \in [Calls -> Seq(0..MaxFrames)]
=============================================================================
