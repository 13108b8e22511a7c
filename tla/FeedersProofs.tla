----------------------------- MODULE FeedersProofs -----------------------------
(***************************************************************************)
(* What the programs under scripts/ promise, for every number of clips,    *)
(* phones and detections: the bridge's frames are placed where they were   *)
(* recorded, the simulator's phones stay on the status page, and the       *)
(* collector of the replay fleet counts what it can see once and for all.  *)
(* One program runs in a behaviour, so that a step is one of it or leaves  *)
(* its variables alone.                                                    *)
(***************************************************************************)
EXTENDS Feeders, SequenceTheorems, WellFoundedInduction, TLAPS

-----------------------------------------------------------------------------
(* The bridge *)

Messages == [kind : {"handshake", "update", "frame", "none"}, loc : Places]

BridgeTypes ==
  /\ session \in {"backoff", "open", "cancelling", "done"}
  /\ producer \in {"none", "handshake", "clip", "update", "fetch", "frame", "pace",
                   "finish", "finished"}
  /\ loc \in Sidecars /\ lastLoc \in Sidecars /\ gatewayLoc \in Sidecars
  /\ msgs \in Seq(Messages)
  /\ bridgeCall \in {"none", "live", "over"}
  /\ producer # "none" => loc \in Places

\* Where the gateway has the station when message i of the queue reaches it.
Before(i) == IF i = 1 THEN gatewayLoc ELSE msgs[i - 1].loc

\* What the queue holds on its way to the gateway.
Queued ==
  /\ \A i \in 1..Len(msgs) : msgs[i].kind = "frame" => msgs[i].loc = Before(i)
  /\ \A i \in 1..Len(msgs) :
       msgs[i].kind = "none" => i = Len(msgs) /\ producer = "finished"

\* What the producer remembers of it.
Remembered ==
  /\ producer = "handshake" => msgs = <<>> /\ lastLoc = loc
  /\ producer \in {"fetch", "frame"} => lastLoc = loc
  /\ producer \notin {"none", "handshake", "finished"} => lastLoc = Before(Len(msgs) + 1)

BridgeInv ==
  /\ BridgeTypes
  /\ session \in {"backoff", "done"} <=> producer = "none"
  /\ producer = "none" => msgs = <<>> /\ bridgeCall = "none"
  /\ bridgeCall = "live" => Queued /\ Remembered
  /\ FramesPlaced

LEMMA QueueFacts ==
  ASSUME NEW S, NEW s \in Seq(S)
  PROVE  /\ Len(s) \in Nat /\ \A i \in 1..Len(s) : s[i] \in S
         /\ \A x \in S :
              /\ Append(s, x) \in Seq(S) /\ Len(Append(s, x)) = Len(s) + 1
              /\ Append(s, x)[Len(s) + 1] = x
              /\ \A i \in 1..Len(s) : Append(s, x)[i] = s[i]
         /\ s # <<>> =>
              /\ Len(s) > 0 /\ Head(s) = s[1]
              /\ Tail(s) \in Seq(S) /\ Len(Tail(s)) = Len(s) - 1
              /\ \A i \in 1..Len(Tail(s)) : Tail(s)[i] = s[i + 1]
<1>1. Len(s) \in Nat /\ \A i \in 1..Len(s) : s[i] \in S
  BY ElementOfSeq, LenProperties
<1>2. ASSUME NEW x \in S
      PROVE  /\ Append(s, x) \in Seq(S) /\ Len(Append(s, x)) = Len(s) + 1
             /\ Append(s, x)[Len(s) + 1] = x
             /\ \A i \in 1..Len(s) : Append(s, x)[i] = s[i]
  BY AppendProperties
<1>3. ASSUME s # <<>>
      PROVE  /\ Len(s) > 0 /\ Head(s) = s[1]
             /\ Tail(s) \in Seq(S) /\ Len(Tail(s)) = Len(s) - 1
             /\ \A i \in 1..Len(Tail(s)) : Tail(s)[i] = s[i + 1]
  <2>1. Len(s) > 0
    BY <1>1, <1>3, EmptySeq
  <2>2. Tail(s) \in Seq(S) /\ Len(Tail(s)) = Len(s) - 1 /\ Head(s) = s[1]
    BY <1>3, HeadTailProperties
  <2>3. \A i \in 1..Len(Tail(s)) : Tail(s)[i] = s[i + 1]
    BY <1>3, <2>2, HeadTailProperties
  <2>4. QED
    BY <2>1, <2>2, <2>3
<1>4. QED
  BY <1>1, <1>2, <1>3

\* A message that goes into the queue finds the gateway where the message before
\* it has left it.
LEMMA Enqueued ==
  ASSUME BridgeTypes, Queued, producer # "finished", NEW m \in Messages, Put(m),
         gatewayLoc' = gatewayLoc,
         m.kind = "frame" => m.loc = Before(Len(msgs) + 1),
         m.kind = "none" => producer' = "finished"
  PROVE  msgs' \in Seq(Messages) /\ Queued' /\ Before(Len(msgs) + 1)' = m.loc
<1> DEFINE n == Len(msgs)
<1>1. /\ n \in Nat /\ msgs' \in Seq(Messages) /\ Len(msgs') = n + 1
      /\ msgs'[n + 1] = m /\ \A i \in 1..n : msgs'[i] = msgs[i]
  BY QueueFacts DEF BridgeTypes, Put
<1> HIDE DEF n
<1>2. Len(msgs) = n
  BY DEF n
<1>3. \A i \in 1..(n + 1) : Before(i)' = Before(i)
  <2>1. SUFFICES ASSUME NEW i \in 1..(n + 1) PROVE Before(i)' = Before(i)
    OBVIOUS
  <2>2. CASE i = 1
    BY <2>2 DEF Before
  <2>3. CASE i # 1
    <3>1. i - 1 \in 1..n
      BY <2>3, <1>1
    <3>2. QED
      BY <2>3, <3>1, <1>1 DEF Before
  <2>4. QED
    BY <2>2, <2>3
<1>4. \A i \in 1..(n + 1) : i \in 1..n \/ i = n + 1
  BY <1>1
<1>5. ASSUME NEW i \in 1..Len(msgs'), msgs'[i].kind = "frame"
      PROVE  msgs'[i].loc = Before(i)'
  BY <1>1, <1>2, <1>3, <1>4, <1>5 DEF Queued
<1>6. ASSUME NEW i \in 1..Len(msgs'), msgs'[i].kind = "none"
      PROVE  i = Len(msgs') /\ producer' = "finished"
  BY <1>1, <1>2, <1>4, <1>6 DEF Queued
<1>7. Before(Len(msgs) + 1)' = m.loc
  BY <1>1, <1>2 DEF Before
<1>8. QED
  BY <1>1, <1>5, <1>6, <1>7 DEF Queued

LEMMA MessageTypes ==
  ASSUME BridgeTypes, producer # "none",
         NEW kind \in {"handshake", "update", "frame", "none"}
  PROVE  /\ Message(kind) \in Messages
         /\ Message(kind).kind = kind /\ Message(kind).loc = loc
BY DEF BridgeTypes, Message, Messages

LEMMA BridgeInitial ==
  ASSUME BridgeInit
  PROVE  BridgeInv
<1>1. msgs \in Seq(Messages)
  BY EmptySeq DEF BridgeInit
<1>2. QED
  BY <1>1 DEF BridgeInit, BridgeInv, BridgeTypes, Sidecars, FramesPlaced

\* What the steps of the producer that put no message leave alone.
LEMMA BridgeAside ==
  ASSUME BridgeInv, BridgeTypes', UNCHANGED <<msgs, gatewayLoc, placed, bridgeCall>>,
         session' \notin {"backoff", "done"} /\ producer' # "none",
         bridgeCall = "live" => producer # "finished" /\ Remembered'
  PROVE  BridgeInv'
<1>1. \A i : Before(i)' = Before(i)
  BY DEF Before
<1>2. bridgeCall' = "live" => Queued'
  BY <1>1 DEF BridgeInv, Queued
<1>3. QED
  BY <1>2 DEF BridgeInv, FramesPlaced

LEMMA BridgeStep ==
  ASSUME BridgeInv, [BridgeNext]_bridgeVars
  PROVE  BridgeInv'
<1> USE BridgeAssumption
<1>0. /\ BridgeTypes /\ FramesPlaced
      /\ session \in {"backoff", "done"} <=> producer = "none"
      /\ producer = "none" => msgs = <<>> /\ bridgeCall = "none"
      /\ bridgeCall = "live" => Queued /\ Remembered
  BY DEF BridgeInv
<1>r. \A sidecar \in Sidecars : Resolve(sidecar) \in Sidecars
  BY DEF Resolve, Sidecars
<1>1. CASE OpenSession
  <2>1. BridgeTypes' /\ producer' = "handshake" /\ session' = "open"
    BY <1>0, <1>r, <1>1 DEF OpenSession, BridgeTypes, Sidecars
  <2>2. /\ msgs = <<>> /\ UNCHANGED <<msgs, gatewayLoc, placed>>
        /\ loc' = lastLoc'
    BY <1>0, <1>1 DEF OpenSession
  <2>3. Queued' /\ Remembered'
    <3>1. Len(msgs') = 0
      BY <2>2
    <3>2. QED
      BY <2>1, <2>2, <3>1 DEF Queued, Remembered
  <2>4. QED
    BY <1>0, <2>1, <2>2, <2>3 DEF BridgeInv, FramesPlaced
<1>2. ASSUME NEW kind \in {"handshake", "update", "frame", "none"},
             producer \in {"handshake", "update", "frame", "finish"},
             Put(Message(kind)),
             UNCHANGED <<session, loc, bridgeCall, gatewayLoc, placed>>,
             producer' \in {"fetch", "pace", "finish", "finished"},
             lastLoc' \in Sidecars,
             kind = "none" => producer' = "finished",
             kind = "frame" => producer = "frame",
             producer = "finish" => kind = "none",
             bridgeCall = "live" /\ producer' # "finished" => lastLoc' = loc
      PROVE  BridgeInv'
  <2>1. /\ Message(kind) \in Messages
        /\ Message(kind).kind = kind /\ Message(kind).loc = loc
    BY <1>0, <1>2, MessageTypes
  <2>2. CASE bridgeCall = "live"
    <3>1. kind = "frame" => loc = Before(Len(msgs) + 1)
      BY <1>0, <1>2, <2>2 DEF Remembered
    <3>2. msgs' \in Seq(Messages) /\ Queued' /\ Before(Len(msgs) + 1)' = loc
      BY <1>0, <1>2, <2>1, <2>2, <3>1, Enqueued
    <3>3. BridgeTypes'
      BY <1>0, <1>2, <3>2 DEF BridgeTypes
    <3>4. Remembered'
      BY <1>2, <2>2, <3>2 DEF Remembered
    <3>5. QED
      BY <1>0, <1>2, <2>2, <3>2, <3>3, <3>4 DEF BridgeInv, FramesPlaced
  <2>3. CASE bridgeCall # "live"
    <3>1. msgs' \in Seq(Messages)
      BY <1>0, <1>2, <2>1, QueueFacts DEF BridgeTypes, Put
    <3>2. BridgeTypes'
      BY <1>0, <1>2, <3>1 DEF BridgeTypes
    <3>3. session' \notin {"backoff", "done"}
      BY <1>0, <1>2
    <3>4. QED
      BY <1>0, <1>2, <2>3, <3>2, <3>3 DEF BridgeInv, FramesPlaced
  <2>4. QED
    BY <2>2, <2>3
<1>3. CASE PutHandshake
  BY <1>0, <1>2, <1>3 DEF PutHandshake, Remembered, BridgeTypes
<1>4. CASE NextClip
  BY <1>0, <1>r, <1>4, BridgeAside DEF NextClip, Remembered, BridgeTypes, Sidecars, Before
<1>5. CASE PutUpdate
  BY <1>0, <1>2, <1>5 DEF PutUpdate, BridgeTypes
<1>6. CASE Fetch
  BY <1>0, <1>6, BridgeAside DEF Fetch, Remembered, BridgeTypes, Before
<1>7. CASE PutClip
  BY <1>0, <1>2, <1>7 DEF PutClip, Remembered, BridgeTypes
<1>8. CASE Pace
  BY <1>0, <1>8, BridgeAside DEF Pace, Remembered, BridgeTypes, Before
<1>9. CASE LastClip
  BY <1>0, <1>9, BridgeAside DEF LastClip, Remembered, BridgeTypes, Before
<1>10. CASE Finish
  BY <1>0, <1>2, <1>10 DEF Finish, BridgeTypes
<1>11. CASE TakeMessage
  <2> DEFINE n == Len(msgs)
  <2>1. bridgeCall = "live" /\ Queued /\ Remembered /\ msgs # <<>> /\ msgs' = Tail(msgs)
    BY <1>0, <1>11 DEF TakeMessage
  <2>2. /\ n \in Nat /\ n > 0 /\ Head(msgs) = msgs[1] /\ msgs[1] \in Messages
        /\ msgs' \in Seq(Messages) /\ Len(msgs') = n - 1
        /\ \A i \in 1..(n - 1) : msgs'[i] = msgs[i + 1]
    <3>1. n \in Nat /\ n > 0
      BY <1>0, <2>1, QueueFacts DEF BridgeTypes
    <3>2. 1 \in 1..n
      BY <3>1
    <3>3. QED
      BY <1>0, <2>1, <3>1, <3>2, QueueFacts DEF BridgeTypes
  <2>3. msgs[1].kind = "frame" => msgs[1].loc = gatewayLoc
    <3>1. 1 \in 1..Len(msgs)
      BY <2>2
    <3>2. QED
      BY <2>1, <3>1 DEF Queued, Before
  <2>4. /\ gatewayLoc' = IF msgs[1].kind \in {"handshake", "update"} THEN msgs[1].loc
                         ELSE gatewayLoc
        /\ placed' = IF msgs[1].kind = "frame" THEN placed \cup {<<msgs[1].loc, gatewayLoc>>}
                     ELSE placed
        /\ bridgeCall' = IF msgs[1].kind = "none" THEN "over" ELSE "live"
        /\ UNCHANGED <<session, producer, loc, lastLoc>>
    BY <1>11, <2>2 DEF TakeMessage
  <2>5. FramesPlaced'
    BY <1>0, <2>3, <2>4 DEF FramesPlaced
  <2>6. BridgeTypes'
    BY <1>0, <2>2, <2>4 DEF BridgeTypes, Messages, Sidecars
  <2>7. ASSUME msgs[1].kind # "none"
        PROVE  Queued' /\ Remembered'
    <3>1. gatewayLoc' = msgs[1].loc
      BY <2>2, <2>3, <2>4, <2>7 DEF Messages
    <3>2. \A i \in 1..n : Before(i)' = Before(i + 1)
      <4>1. SUFFICES ASSUME NEW i \in 1..n PROVE Before(i)' = Before(i + 1)
        OBVIOUS
      <4>2. CASE i = 1
        BY <3>1, <4>2 DEF Before
      <4>3. CASE i # 1
        <5>1. i - 1 \in 1..(n - 1) /\ (i - 1) + 1 = i /\ (i + 1) - 1 = i /\ i + 1 # 1
          BY <2>2, <4>3
        <5>2. msgs'[i - 1] = msgs[i]
          BY <2>2, <5>1
        <5>3. QED
          BY <4>3, <5>1, <5>2 DEF Before
      <4>4. QED
        BY <4>2, <4>3
    <3>3. \A i \in 1..(n - 1) : i \in 1..n /\ i + 1 \in 1..n /\ (i = n - 1 <=> i + 1 = n)
      BY <2>2
    <3>4. Queued'
      <4>1. ASSUME NEW i \in 1..(n - 1)
            PROVE  /\ msgs'[i].kind = "frame" => msgs'[i].loc = Before(i)'
                   /\ msgs'[i].kind = "none" => i = n - 1 /\ producer' = "finished"
        <5>1. i \in 1..n /\ i + 1 \in 1..Len(msgs) /\ msgs'[i] = msgs[i + 1]
          BY <2>2, <3>3
        <5>2. /\ msgs[i + 1].kind = "frame" => msgs[i + 1].loc = Before(i + 1)
              /\ msgs[i + 1].kind = "none" => i + 1 = Len(msgs) /\ producer = "finished"
          BY <2>1, <5>1 DEF Queued
        <5>3. QED
          BY <2>4, <3>2, <3>3, <5>1, <5>2
      <4>2. QED
        BY <2>2, <4>1 DEF Queued
    <3>5. Before(Len(msgs) + 1)' = Before(n + 1)
      <4>1. n \in 1..n /\ Len(msgs') + 1 = n
        BY <2>2
      <4>2. QED
        BY <3>2, <4>1
    <3>6. Remembered'
      BY <2>1, <2>4, <3>5 DEF Remembered
    <3>7. QED
      BY <3>4, <3>6
  <2>8. QED
    BY <1>0, <2>1, <2>4, <2>5, <2>6, <2>7 DEF BridgeInv
<1>12. CASE CallBreaks
  BY <1>0, <1>12 DEF CallBreaks, BridgeInv, BridgeTypes, FramesPlaced
<1>13. CASE Cancel
  BY <1>0, <1>13, BridgeAside DEF Cancel, BridgeTypes
<1>14. CASE SessionOver
  <2>1. msgs' \in Seq(Messages)
    BY <1>14, EmptySeq DEF SessionOver
  <2>2. QED
    BY <1>0, <1>14, <2>1 DEF SessionOver, BridgeInv, BridgeTypes, FramesPlaced, Sidecars
<1>15. CASE ReturnsOnShutdown
  BY <1>0, <1>15 DEF ReturnsOnShutdown, BridgeInv, BridgeTypes, FramesPlaced
<1>16. CASE Shutdown \/ UNCHANGED bridgeVars
  <2>1. UNCHANGED <<session, producer, loc, lastLoc, msgs, bridgeCall, gatewayLoc, placed>>
    BY <1>16 DEF Shutdown, bridgeVars
  <2>2. QED
    BY <2>1 DEF BridgeInv, BridgeTypes, Queued, Remembered, Before, FramesPlaced
<1>17. QED
  BY <1>1, <1>3, <1>4, <1>5, <1>6, <1>7, <1>8, <1>9, <1>10, <1>11, <1>12, <1>13, <1>14,
     <1>15, <1>16 DEF BridgeNext, Producer, SessionTask

-----------------------------------------------------------------------------
(* The simulator *)

\* How old the hot state of a phone may be, by the phase of the loop.
AgeBound(p) ==
  /\ phase = "begin" /\ tick > 0 => age[p] <= longest + CallTime + Interval
  /\ phase = "refresh" =>
       /\ spent <= longest /\ tick > 0
       /\ p \notin records => age[p] <= spent
       /\ tick > 1 => age[p] <= longest + CallTime + Interval + spent
  /\ phase = "burst" => spent <= CallTime /\ age[p] <= longest + spent
  /\ phase = "sleep" => spent <= Interval /\ age[p] <= longest + CallTime + spent

SimulatorInv ==
  /\ SimulatorTypeOK
  /\ Refreshes => \A p \in Phones : AgeBound(p)

\* Every phase adds at most its own time to the age of what was written before.
LEMMA SimulatorStep ==
  ASSUME SimulatorInv, [SimulatorNext]_simulatorVars
  PROVE  SimulatorInv'
<1>0. /\ SimulatorTypeOK
      /\ Refreshes => \A p \in Phones : AgeBound(p)
      /\ Interval \in Nat /\ CallTime \in Nat /\ TTL \in Nat
      /\ MaxRefresh \in Nat /\ MaxTicks \in Nat
  BY SimulatorTimes DEF SimulatorInv
<1>a. /\ spent \in Nat /\ tick \in Nat /\ longest \in Nat
      /\ \A p \in Phones : age[p] \in Nat /\ age[p] <= TTL
  BY <1>0 DEF SimulatorTypeOK
<1>1. CASE Refused
  BY <1>0, <1>1 DEF Refused, SimulatorInv, SimulatorTypeOK, AgeBound
<1>2. CASE BeginCycle
  <2>1. SimulatorTypeOK'
    BY <1>0, <1>a, <1>2 DEF BeginCycle, SimulatorTypeOK
  <2>2. ASSUME Refreshes', NEW p \in Phones
        PROVE  AgeBound(p)'
    BY <1>0, <1>a, <1>2, <2>2 DEF BeginCycle, Refreshes, AgeBound
  <2>3. QED
    BY <2>1, <2>2 DEF SimulatorInv
<1>3. CASE Returned
  BY <1>0, <1>3 DEF Returned, SimulatorInv, SimulatorTypeOK, AgeBound
<1>4. CASE WriteDocuments
  <2>1. SimulatorTypeOK' /\ UNCHANGED <<mode, phase, tick, spent, longest, records, age>>
    BY <1>0, <1>4 DEF WriteDocuments, SimulatorTypeOK
  <2>2. QED
    BY <1>0, <2>1 DEF SimulatorInv, Refreshes, AgeBound
<1>5. ASSUME NEW p \in Phones, WriteRecord(p)
      PROVE  SimulatorInv'
  <2>1. SimulatorTypeOK'
    BY <1>0, <1>5 DEF WriteRecord, SimulatorTypeOK
  <2>2. ASSUME Refreshes', NEW q \in Phones
        PROVE  AgeBound(q)'
    <3>1. age'[q] = IF q = p THEN 0 ELSE age[q]
      BY <1>0, <1>5 DEF WriteRecord, SimulatorTypeOK
    <3>2. Refreshes /\ records' = records \ {p} /\ UNCHANGED <<phase, tick, spent, longest>>
      BY <1>5, <2>2 DEF WriteRecord, Refreshes
    <3>3. QED
      BY <1>0, <1>a, <3>1, <3>2 DEF AgeBound
  <2>3. QED
    BY <2>1, <2>2 DEF SimulatorInv
<1>6. CASE Refreshed
  <2>1. SimulatorTypeOK'
    BY <1>0, <1>6 DEF Refreshed, SimulatorTypeOK
  <2>2. ASSUME Refreshes', NEW p \in Phones
        PROVE  AgeBound(p)'
    BY <1>0, <1>a, <1>6, <2>2 DEF Refreshed, Refreshes, AgeBound
  <2>3. QED
    BY <2>1, <2>2 DEF SimulatorInv
<1>7. CASE RefreshFails
  BY <1>0, <1>7 DEF RefreshFails, SimulatorInv, SimulatorTypeOK, AgeBound
<1>8. ASSUME NEW p \in Phones, GatewayRecords(p)
      PROVE  SimulatorInv'
  <2>1. SimulatorTypeOK'
    BY <1>0, <1>8 DEF GatewayRecords, SimulatorTypeOK
  <2>2. ASSUME Refreshes', NEW q \in Phones
        PROVE  AgeBound(q)'
    <3>1. age'[q] = IF q = p THEN 0 ELSE age[q]
      BY <1>0, <1>8 DEF GatewayRecords, SimulatorTypeOK
    <3>2. Refreshes /\ UNCHANGED <<phase, tick, spent, longest, records>>
      BY <1>8, <2>2 DEF GatewayRecords, Refreshes
    <3>3. QED
      BY <1>0, <1>a, <3>1, <3>2 DEF AgeBound
  <2>3. QED
    BY <2>1, <2>2 DEF SimulatorInv
<1>9. ASSUME NEW p \in Phones, CallOver(p)
      PROVE  SimulatorInv'
  BY <1>0, <1>9 DEF CallOver, SimulatorInv, SimulatorTypeOK, Refreshes, AgeBound
<1>10. CASE BurstOver
  <2>1. SimulatorTypeOK'
    BY <1>0, <1>10 DEF BurstOver, SimulatorTypeOK
  <2>2. ASSUME Refreshes', NEW p \in Phones
        PROVE  AgeBound(p)'
    BY <1>0, <1>a, <1>10, <2>2 DEF BurstOver, Refreshes, AgeBound
  <2>3. QED
    BY <2>1, <2>2 DEF SimulatorInv
<1>11. CASE WakeUp
  <2>1. SimulatorTypeOK'
    BY <1>0, <1>11 DEF WakeUp, SimulatorTypeOK
  <2>2. ASSUME Refreshes', NEW p \in Phones
        PROVE  AgeBound(p)'
    BY <1>0, <1>a, <1>11, <2>2 DEF WakeUp, Refreshes, AgeBound
  <2>3. QED
    BY <2>1, <2>2 DEF SimulatorInv
<1>12. CASE Signal
  BY <1>0, <1>12 DEF Signal, SimulatorInv, SimulatorTypeOK, Refreshes, AgeBound
<1>13. CASE Elapse
  <2>1. /\ SimulatorTypeOK' /\ UNCHANGED <<mode, phase, tick, records>>
        /\ \A p \in Phones : age'[p] = IF age[p] < TTL THEN age[p] + 1 ELSE TTL
    <3>1. \A p \in Phones : (IF age[p] < TTL THEN age[p] + 1 ELSE TTL) \in 0..TTL
      BY <1>0, <1>a
    <3>2. spent' \in Nat
      BY <1>a, <1>13 DEF Elapse
    <3>3. longest' \in 0..MaxRefresh
      <4>1. longest \in 0..MaxRefresh
        BY <1>0 DEF SimulatorTypeOK
      <4>2. CASE phase = "refresh" /\ spent = longest
        BY <1>0, <1>a, <1>13, <4>1, <4>2 DEF Elapse
      <4>3. CASE ~ (phase = "refresh" /\ spent = longest)
        BY <1>13, <4>1, <4>3 DEF Elapse
      <4>4. QED
        BY <4>2, <4>3
    <3>4. QED
      BY <1>0, <1>13, <3>1, <3>2, <3>3 DEF Elapse, SimulatorTypeOK
  <2>2. ASSUME Refreshes', NEW p \in Phones
        PROVE  AgeBound(p)'
    <3>1. Refreshes /\ AgeBound(p) /\ age[p] \in Nat
      BY <1>0, <1>a, <2>1, <2>2 DEF Refreshes
    <3>2. CASE phase = "refresh"
      <4>1. /\ spent' = spent + 1
            /\ longest' = IF spent = longest THEN longest + 1 ELSE longest
        BY <1>13, <3>2 DEF Elapse
      <4>2. QED
        BY <1>0, <1>a, <2>1, <3>1, <3>2, <4>1 DEF AgeBound
    <3>3. CASE phase = "burst"
      <4>1. spent < CallTime /\ spent' = spent + 1 /\ longest' = longest
        BY <1>13, <3>3 DEF Elapse, CallsInTime
      <4>2. QED
        BY <1>0, <1>a, <2>1, <3>1, <3>3, <4>1 DEF AgeBound
    <3>4. CASE phase = "sleep"
      <4>1. spent < Interval /\ spent' = spent + 1 /\ longest' = longest
        BY <1>13, <3>4 DEF Elapse
      <4>2. QED
        BY <1>0, <1>a, <2>1, <3>1, <3>4, <4>1 DEF AgeBound
    <3>5. CASE phase = "ended"
      BY <2>1, <3>5 DEF AgeBound
    <3>6. QED
      BY <1>13, <3>2, <3>3, <3>4, <3>5 DEF Elapse
  <2>3. QED
    BY <2>1, <2>2 DEF SimulatorInv
<1>14. CASE UNCHANGED simulatorVars
  BY <1>0, <1>14 DEF simulatorVars, SimulatorInv, SimulatorTypeOK, Refreshes, AgeBound
<1>15. QED
  BY <1>1, <1>2, <1>3, <1>4, <1>5, <1>6, <1>7, <1>8, <1>9, <1>10, <1>11, <1>12, <1>13,
     <1>14 DEF SimulatorNext

LEMMA SimulatorInitial ==
  ASSUME SimulatorInit
  PROVE  SimulatorInv
<1>1. TTL \in 0..TTL /\ 0 \in 0..MaxTicks /\ 0 \in 0..MaxRefresh
  BY SimulatorTimes
<1>2. SimulatorTypeOK
  BY <1>1 DEF SimulatorInit, SimulatorTypeOK
<1>3. \A p \in Phones : AgeBound(p)
  BY DEF SimulatorInit, AgeBound
<1>4. QED
  BY <1>2, <1>3 DEF SimulatorInv

\* No phase's bound is above that of a refresh, at its end.
LEMMA SimulatorKeeps ==
  ASSUME SimulatorInv
  PROVE  KeptVisible
<1>1. SUFFICES ASSUME Refreshes, phase # "ended",
                      tick > (IF phase = "refresh" THEN 1 ELSE 0), NEW p \in Phones
               PROVE  age[p] <= longest + CallTime + Interval + longest
  BY DEF KeptVisible
<1>2. /\ AgeBound(p) /\ age[p] \in Nat /\ spent \in Nat /\ tick \in Nat
      /\ longest \in Nat /\ phase \in {"begin", "refresh", "burst", "sleep"}
  BY <1>1 DEF SimulatorInv, SimulatorTypeOK
<1>3. QED
  BY <1>1, <1>2, SimulatorTimes DEF AgeBound

-----------------------------------------------------------------------------
(* The flybys of the ground truth *)

\* The natural numbers are well founded.
LEMMA Least ==
  ASSUME NEW T, T \subseteq Nat, T # {}
  PROVE  \E n \in T : \A m \in T : n <= m
<1> DEFINE R == OpToRel(<, Nat)
<1>1. IsWellFoundedOn(R, Nat)
  BY NatLessThanWellFounded
<1> HIDE DEF R
<1>2. PICK n \in T : \A m \in T : ~ (<<m, n>> \in R)
  BY <1>1, WFMin
<1>3. \A m \in T : ~(m < n)
  BY <1>2 DEF R, OpToRel
<1>4. \A m \in T : m \in Nat /\ n \in Nat
  OBVIOUS
<1>5. QED
  BY <1>3, <1>4

\* Induction up to N, by the least number that is not in the set.
LEMMA Upward ==
  ASSUME NEW N \in Nat, NEW Holds, 0 \in Holds,
         \A n \in 1..N : n - 1 \in Holds => n \in Holds
  PROVE  0..N \subseteq Holds
<1>1. SUFFICES ASSUME NEW k \in 0..N, k \notin Holds PROVE FALSE
  OBVIOUS
<1> DEFINE T == {m \in 0..N : m \notin Holds}
<1>2. T \subseteq Nat /\ T # {}
  BY <1>1
<1>3. PICK n \in T : \A m \in T : n <= m
  BY <1>2, Least
<1>4. n \in 1..N /\ n - 1 \in 0..N /\ ~(n <= n - 1)
  BY <1>3
<1>5. n - 1 \in Holds
  BY <1>3, <1>4
<1>6. QED
  BY <1>3, <1>4, <1>5

\* The loop over the labels.
IsLoop(l, n, f) ==
  f = [i \in 0..n |-> IF i = 0 THEN NoRun ELSE Labelled(l, i, f[i - 1])]

LEMMA LoopExists ==
  ASSUME NEW l
  PROVE  \E f : IsLoop(l, Clip, f)
<1>0. Clip \in Nat
  BY ReportAssumption
<1> DEFINE Holds == {n \in 0..Clip : \E f : IsLoop(l, n, f)}
<1>1. 0 \in Holds
  <2> DEFINE f == [i \in 0..0 |-> NoRun]
  <2>1. IsLoop(l, 0, f)
    BY DEF IsLoop
  <2>2. QED
    BY <1>0, <2>1
<1>2. ASSUME NEW n \in 1..Clip, n - 1 \in Holds
      PROVE  n \in Holds
  <2>1. PICK f : IsLoop(l, n - 1, f)
    BY <1>2
  <2> DEFINE g == [i \in 0..n |-> IF i = n THEN Labelled(l, n, f[n - 1]) ELSE f[i]]
  <2>2. ASSUME NEW i \in 0..n
        PROVE  g[i] = IF i = 0 THEN NoRun ELSE Labelled(l, i, g[i - 1])
    <3>1. CASE i = n
      BY <1>0, <3>1
    <3>2. CASE i # n
      <4>1. i \in 0..(n - 1) /\ (i # 0 => i - 1 \in 0..n /\ i - 1 # n)
        BY <1>0, <3>2
      <4>2. f[i] = IF i = 0 THEN NoRun ELSE Labelled(l, i, f[i - 1])
        BY <2>1, <4>1 DEF IsLoop
      <4>3. QED
        BY <3>2, <4>1, <4>2
    <3>3. QED
      BY <3>1, <3>2
  <2>3. IsLoop(l, n, g)
    <3> HIDE DEF g
    <3>1. g = [i \in 0..n |-> g[i]]
      BY DEF g
    <3>2. QED
      BY <2>2, <3>1 DEF IsLoop
  <2>4. QED
    BY <2>3
<1>3. Clip \in Holds
  <2> HIDE DEF Holds
  <2>1. 0..Clip \subseteq Holds
    BY <1>0, <1>1, <1>2, Upward
  <2>2. QED
    BY <1>0, <2>1
<1>4. QED
  BY <1>3

LEMMA LoopValue ==
  ASSUME NEW l
  PROVE  \E f : IsLoop(l, Clip, f) /\ RunsUpTo(l) = f[Clip]
<1> DEFINE u == CHOOSE f : IsLoop(l, Clip, f)
<1>1. IsLoop(l, Clip, u)
  BY LoopExists
<1>2. RunsUpTo(l) = u[Clip]
  BY DEF RunsUpTo, IsLoop
<1>3. QED
  BY <1>1, <1>2

\* What the loop knows after i seconds.
SoFar(l, i, state) ==
  /\ state.inRun \in BOOLEAN /\ state.begin \in 0..Clip
  /\ state = [inRun |-> state.inRun, begin |-> state.begin, runs |-> state.runs]
  /\ state.inRun <=> i > 0 /\ l[i]
  /\ state.inRun =>
       /\ state.begin < i /\ \A j \in (state.begin + 1)..i : l[j]
       /\ state.begin > 0 => ~l[state.begin]
  /\ state.runs = {f \in (0..Clip) \X Seconds : f[2] < i /\ IsRun(l, f)}

LEMMA OneRunEnds ==
  ASSUME NEW l, NEW e \in Nat, NEW a \in Nat, NEW b \in Nat, a < e, b < e,
         \A j \in (a + 1)..e : l[j], a > 0 => ~l[a],
         \A j \in (b + 1)..e : l[j], b > 0 => ~l[b]
  PROVE  a = b
<1>1. CASE a < b
  <2>1. b \in (a + 1)..e /\ b > 0
    BY <1>1
  <2>2. QED
    BY <2>1
<1>2. CASE b < a
  <2>1. a \in (b + 1)..e /\ a > 0
    BY <1>2
  <2>2. QED
    BY <2>1
<1>3. QED
  BY <1>1, <1>2

LEMMA LoopStep ==
  ASSUME NEW l \in [Seconds -> BOOLEAN], NEW i \in 1..Clip, NEW before,
         SoFar(l, i - 1, before)
  PROVE  SoFar(l, i, Labelled(l, i, before))
<1>0. Clip \in Nat /\ i \in Nat /\ i > 0 /\ i <= Clip /\ i \in Seconds /\ l[i] \in BOOLEAN
  BY ReportAssumption DEF Seconds
<1> DEFINE Closed(k) == {f \in (0..Clip) \X Seconds : f[2] < k /\ IsRun(l, f)}
<1> DEFINE after == Labelled(l, i, before)
<1>1. /\ before.inRun \in BOOLEAN /\ before.begin \in 0..Clip
      /\ before = [inRun |-> before.inRun, begin |-> before.begin, runs |-> before.runs]
      /\ before.inRun <=> i - 1 > 0 /\ l[i - 1]
      /\ before.inRun =>
           /\ before.begin < i - 1 /\ \A j \in (before.begin + 1)..(i - 1) : l[j]
           /\ before.begin > 0 => ~l[before.begin]
      /\ before.runs = Closed(i - 1)
  BY DEF SoFar
<1>2. \A f \in Closed(i) : f \in Closed(i - 1) \/ f[2] = i - 1
  BY <1>0 DEF Seconds
<1>3. Closed(i - 1) \subseteq Closed(i)
  BY <1>0 DEF Seconds
<1>4. CASE l[i] /\ ~before.inRun
  <2>1. after = [inRun |-> TRUE, begin |-> i - 1, runs |-> before.runs]
    BY <1>1, <1>4 DEF Labelled
  <2>2. Closed(i) = Closed(i - 1)
    <3>1. \A f \in Closed(i) : f[2] # i - 1
      BY <1>0, <1>4 DEF IsRun, Seconds
    <3>2. QED
      BY <1>2, <1>3, <3>1
  <2>3. (i - 1 > 0 => ~l[i - 1]) /\ i - 1 \in 0..Clip /\ i - 1 < i
    BY <1>0, <1>1, <1>4
  <2>4. \A j \in ((i - 1) + 1)..i : l[j]
    BY <1>0, <1>4
  <2>5. QED
    BY <1>0, <1>1, <1>4, <2>1, <2>2, <2>3, <2>4 DEF SoFar
<1>5. CASE ~l[i] /\ before.inRun
  <2> DEFINE new == <<before.begin, i - 1>>
  <2>1. after = [inRun |-> FALSE, begin |-> before.begin, runs |-> before.runs \cup {new}]
    BY <1>1, <1>5 DEF Labelled
  <2>2. new \in Closed(i)
    <3>1. new \in (0..Clip) \X Seconds /\ new[1] = before.begin /\ new[2] = i - 1
      BY <1>0, <1>1, <1>5 DEF Seconds
    <3>2. IsRun(l, new)
      BY <1>0, <1>1, <1>5, <3>1 DEF IsRun
    <3>3. QED
      BY <1>0, <3>1, <3>2
  <2>3. ASSUME NEW f \in Closed(i), f[2] = i - 1
        PROVE  f = new
    <3>1. /\ f \in (0..Clip) \X Seconds /\ f[1] \in Nat /\ f[1] < i - 1
          /\ \A j \in (f[1] + 1)..(i - 1) : l[j]
          /\ f[1] > 0 => ~l[f[1]]
      BY <2>3 DEF IsRun
    <3>2. before.begin \in Nat /\ i - 1 \in Nat
      BY <1>0, <1>1
    <3>3. f[1] = before.begin
      BY <1>1, <1>5, <3>1, <3>2, OneRunEnds
    <3>4. f = <<f[1], f[2]>>
      BY <3>1
    <3>5. QED
      BY <2>3, <3>3, <3>4
  <2>4. Closed(i) = Closed(i - 1) \cup {new}
    BY <1>2, <1>3, <2>2, <2>3
  <2>5. QED
    BY <1>0, <1>1, <1>5, <2>1, <2>4 DEF SoFar
<1>6. CASE ~(l[i] /\ ~before.inRun) /\ ~(~l[i] /\ before.inRun)
  <2>1. after = before /\ (l[i] <=> before.inRun)
    BY <1>0, <1>1, <1>6 DEF Labelled
  <2>2. Closed(i) = Closed(i - 1)
    <3>1. ASSUME NEW f \in Closed(i), f[2] = i - 1 PROVE FALSE
      <4>1. i - 1 \in (f[1] + 1)..f[2] /\ i - 1 > 0 /\ f[2] + 1 = i /\ f[2] < Clip
        BY <1>0, <3>1 DEF IsRun, Seconds
      <4>2. l[i - 1] /\ ~l[i]
        BY <3>1, <4>1 DEF IsRun
      <4>3. QED
        BY <1>1, <2>1, <4>1, <4>2
    <3>2. QED
      BY <1>2, <1>3, <3>1
  <2>3. before.inRun => \A j \in (before.begin + 1)..i : l[j]
    BY <1>0, <1>1, <2>1
  <2>4. before.inRun => before.begin < i
    BY <1>0, <1>1
  <2>5. QED
    BY <1>0, <1>1, <2>1, <2>2, <2>3, <2>4 DEF SoFar
<1>7. QED
  BY <1>4, <1>5, <1>6

LEMMA RunsAreRuns ==
  ASSUME NEW l \in [Seconds -> BOOLEAN]
  PROVE  RunsOf(l) = {f \in (0..Clip) \X Seconds : IsRun(l, f)}
<1>0. Clip \in Nat /\ Clip > 0
  BY ReportAssumption
<1>1. PICK f : IsLoop(l, Clip, f) /\ RunsUpTo(l) = f[Clip]
  BY LoopValue
<1> DEFINE Holds == {i \in 0..Clip : SoFar(l, i, f[i])}
<1>2. 0 \in Holds
  <2>1. f[0] = NoRun
    BY <1>0, <1>1 DEF IsLoop
  <2>2. {g \in (0..Clip) \X Seconds : g[2] < 0 /\ IsRun(l, g)} = {}
    BY <1>0 DEF Seconds
  <2>3. 0 \in 0..Clip /\ NoRun.inRun = FALSE /\ NoRun.begin = 0 /\ NoRun.runs = {}
    BY <1>0 DEF NoRun
  <2>4. NoRun = [inRun |-> NoRun.inRun, begin |-> NoRun.begin, runs |-> NoRun.runs]
    BY DEF NoRun
  <2>5. SoFar(l, 0, NoRun)
    <3>1. NoRun.runs = {g \in (0..Clip) \X Seconds : g[2] < 0 /\ IsRun(l, g)}
      BY <2>2, <2>3
    <3>2. NoRun.inRun <=> 0 > 0 /\ l[0]
      BY <2>3
    <3>3. QED
      BY <2>3, <2>4, <3>1, <3>2, Zenon DEF SoFar
  <2>6. QED
    BY <2>1, <2>3, <2>5
<1>3. ASSUME NEW i \in 1..Clip, i - 1 \in Holds
      PROVE  i \in Holds
  <2>1. i \in 0..Clip /\ i # 0 /\ SoFar(l, i - 1, f[i - 1])
    BY <1>0, <1>3
  <2>2. f[i] = Labelled(l, i, f[i - 1])
    BY <1>1, <2>1 DEF IsLoop
  <2>3. QED
    BY <2>1, <2>2, LoopStep
<1>4. SoFar(l, Clip, RunsUpTo(l))
  <2> HIDE DEF Holds
  <2>1. 0..Clip \subseteq Holds
    BY <1>0, <1>2, <1>3, Upward
  <2>2. Clip \in 0..Clip
    BY <1>0
  <2>3. QED
    BY <1>1, <2>1, <2>2 DEF Holds
<1> DEFINE last == RunsUpTo(l)
<1> HIDE DEF last
<1>5. /\ last.begin \in 0..Clip /\ last.begin \in Nat
      /\ last.inRun <=> l[Clip]
      /\ last.inRun =>
           /\ last.begin < Clip /\ \A j \in (last.begin + 1)..Clip : l[j]
           /\ last.begin > 0 => ~l[last.begin]
      /\ last.runs = {g \in (0..Clip) \X Seconds : g[2] < Clip /\ IsRun(l, g)}
  BY <1>0, <1>4 DEF last, SoFar
<1>6. RunsOf(l) = last.runs \cup (IF last.inRun THEN {<<last.begin, Clip>>} ELSE {})
  BY DEF RunsOf, last
<1>7. ASSUME last.inRun
      PROVE  <<last.begin, Clip>> \in {g \in (0..Clip) \X Seconds : IsRun(l, g)}
  <2> DEFINE g == <<last.begin, Clip>>
  <2>1. g \in (0..Clip) \X Seconds /\ g[1] = last.begin /\ g[2] = Clip
    BY <1>0, <1>5 DEF Seconds
  <2>2. IsRun(l, g)
    BY <1>0, <1>5, <1>7, <2>1 DEF IsRun
  <2>3. QED
    BY <2>1, <2>2
<1>8. ASSUME NEW g \in (0..Clip) \X Seconds, IsRun(l, g), ~(g[2] < Clip)
      PROVE  last.inRun /\ g = <<last.begin, Clip>>
  <2>1. g[2] = Clip /\ g[1] \in Nat /\ g[1] < Clip /\ g = <<g[1], g[2]>>
    BY <1>0, <1>8 DEF Seconds, IsRun
  <2>2. (\A j \in (g[1] + 1)..Clip : l[j]) /\ (g[1] > 0 => ~l[g[1]])
    BY <1>8, <2>1 DEF IsRun
  <2>3. Clip \in (g[1] + 1)..Clip
    BY <1>0, <2>1
  <2>4. last.inRun
    BY <1>5, <2>2, <2>3
  <2>5. g[1] = last.begin
    BY <1>0, <1>5, <2>1, <2>2, <2>4, OneRunEnds
  <2>6. QED
    BY <2>1, <2>4, <2>5
<1>9. QED
  BY <1>5, <1>6, <1>7, <1>8

-----------------------------------------------------------------------------
(* The report *)

Windows == Nat \X ((0..Clip) \X (0..Clip))

ReportTypes ==
  /\ time \in Nat /\ time >= Start /\ stamp \in [Detections -> Nat]
  /\ stored \subseteq Detections /\ flybys \subseteq (0..Clip) \X (0..Clip)
  /\ mark \in Nat /\ mark >= Start
  /\ news \subseteq Ours /\ counted \in [Detections -> Nat]
  /\ evaluated \subseteq Windows /\ caught \subseteq evaluated
  /\ collector # "record" => news = {}

\* A detection that was counted is behind the mark, one of the last query is not.
Counting ==
  /\ \A d \in Detections : stamp[d] <= time
  /\ \A d \in stored : stamp[d] # 0
  /\ news \subseteq stored
  /\ \A d \in news : mark < stamp[d]
  /\ \A d \in Detections :
       counted[d] > 0 =>
         counted[d] = 1 /\ d \in Ours /\ Start < stamp[d] /\ stamp[d] <= mark

\* What the mark has passed, and what it will pass with the last query.
Passing ==
  /\ NonePassed
  /\ \A d \in Ours \cap stored :
       /\ mark < stamp[d] /\ d \notin news
       /\ \E e \in news : stamp[d] <= stamp[e]
       => d \in passed

InWindow(d, w) == Begin(w) <= stamp[d] /\ stamp[d] <= End(w) + Slop

\* What the last report said can still be said; a flyby that was missed can only
\* be caught by detections that were under way.
Verdicts ==
  /\ \A w \in evaluated :
       w[2] \in flybys /\ w[1] <= (time - Start) \div Clip /\ End(w) + Slop < time
  /\ \A w \in caught : Hits(w) # {}
  /\ \A w \in evaluated \ caught, d \in Ours : InWindow(d, w) => d \in underway

ReportInv == ReportTypes /\ FlybysAreRuns /\ Counting /\ Passing /\ Verdicts

LEMMA WindowTimes ==
  ASSUME NEW w \in Windows
  PROVE  Begin(w) \in Nat /\ Begin(w) >= Start /\ End(w) \in Nat
<1>1. w[1] \in Nat /\ w[2][1] \in Nat /\ w[2][2] \in Nat
  BY DEF Windows
<1>2. Clip \in Nat
  BY ReportAssumption
<1>3. w[1] * Clip \in Nat
  BY <1>1, <1>2
<1>4. QED
  BY <1>1, <1>3 DEF Begin, End, Start

\* Turns of the clip that were over stay over.
LEMMA TurnsGrow ==
  ASSUME NEW a \in Nat, NEW b \in Nat, Start <= a, a <= b
  PROVE  /\ (a - Start) \div Clip \in Nat /\ (b - Start) \div Clip \in Nat
         /\ (a - Start) \div Clip <= (b - Start) \div Clip
<1>1. Clip \in Nat /\ Clip > 0
  BY ReportAssumption
<1>2. a - Start \in Nat /\ b - Start \in Nat /\ a - Start <= b - Start
  BY DEF Start
<1>3. QED
  BY <1>1, <1>2

LEMMA Flown ==
  ASSUME ReportTypes, NEW w \in Realized
  PROVE  /\ w \in Windows /\ w[2] \in flybys
         /\ w[1] <= (time - Start) \div Clip /\ End(w) + Slop < time
<1>1. Clip \in Nat /\ Clip > 0 /\ (time - Start) \in Nat
  BY ReportAssumption DEF ReportTypes, Start
<1>2. (time - Start) \div Clip \in Nat
  BY <1>1
<1>3. QED
  BY <1>2 DEF Realized, ReportTypes, Windows

LEMMA ReportInitial ==
  ASSUME ReportInit
  PROVE  ReportInv
<1>0. Clip \in Nat
  BY ReportAssumption
<1> DEFINE Placed == flybys \subseteq (0..Clip) \X (0..Clip) /\ FlybysAreRuns
<1>1. ASSUME labels \in [Seconds -> BOOLEAN] /\ flybys = RunsOf(labels)
      PROVE  Placed
  <2>1. flybys = {f \in (0..Clip) \X Seconds : IsRun(labels, f)}
    BY <1>1, RunsAreRuns
  <2>2. \A f \in (0..Clip) \X Seconds : f \in (0..Clip) \X (0..Clip)
    BY <1>0 DEF Seconds
  <2>3. QED
    BY <2>1, <2>2 DEF FlybysAreRuns
<1>2. ASSUME labels = <<>>,
             flybys \in Lists \cup {{}}
      PROVE  Placed
  BY <1>2, ReportAssumption DEF FlybysAreRuns
<1> HIDE DEF Placed
<1>3. Placed
  BY <1>1, <1>2 DEF ReportInit
<1>4. QED
  BY <1>3 DEF Placed, ReportInit, ReportInv, ReportTypes, Counting, Passing, NonePassed, Verdicts,
              Start

\* What a report said still holds while the clock goes on, detections are stamped,
\* and more of them are counted.
LEMMA VerdictsKept ==
  ASSUME ReportTypes, Counting, Verdicts, UNCHANGED <<flybys, evaluated, caught, underway>>,
         time' \in Nat, time <= time',
         \A d \in Detections : stamp'[d] = stamp[d] \/ (stamp[d] = 0 /\ stamp'[d] = time'),
         \A d \in Detections : counted[d] > 0 => counted'[d] > 0
  PROVE  Verdicts'
<1>0. Slop \in Nat /\ Ours \subseteq Detections
  BY ReportAssumption
<1>1. /\ (time - Start) \div Clip \in Nat /\ (time' - Start) \div Clip \in Nat
      /\ (time - Start) \div Clip <= (time' - Start) \div Clip
  <2>1. time \in Nat /\ Start <= time /\ time' \in Nat /\ time <= time'
    BY DEF ReportTypes, Start
  <2>2. QED
    BY <2>1, TurnsGrow
<1>2. \A w \in evaluated : Begin(w) \in Nat /\ Begin(w) >= 1 /\ End(w) \in Nat
  BY WindowTimes DEF ReportTypes, Start
<1>3. ASSUME NEW w \in evaluated'
      PROVE  /\ w[2] \in flybys' /\ w[1] <= (time' - Start) \div Clip
             /\ End(w) + Slop < time'
  <2>1. /\ w[2] \in flybys /\ w[1] <= (time - Start) \div Clip
        /\ End(w) + Slop < time
    BY <1>3 DEF Verdicts
  <2>2. /\ w[1] \in Nat /\ (time - Start) \div Clip \in Nat
        /\ (time' - Start) \div Clip \in Nat /\ time \in Nat
    BY <1>1, <1>3 DEF ReportTypes, Windows
  <2>3. QED
    BY <1>0, <1>1, <1>2, <1>3, <2>1, <2>2
<1>4. ASSUME NEW w \in caught'
      PROVE  Hits(w)' # {}
  <2>1. w \in evaluated /\ Hits(w) # {}
    BY <1>4 DEF Verdicts, ReportTypes
  <2>2. PICK d \in Ours : counted[d] > 0 /\ Begin(w) <= stamp[d] /\ stamp[d] <= End(w) + Slop
    BY <2>1 DEF Hits
  <2>3. stamp'[d] = stamp[d] /\ counted'[d] > 0
    BY <1>0, <1>2, <2>1, <2>2 DEF ReportTypes
  <2>4. d \in Hits(w)'
    BY <2>2, <2>3 DEF Hits
  <2>5. QED
    BY <2>4
<1>5. ASSUME NEW w \in evaluated' \ caught', NEW d \in Ours, InWindow(d, w)'
      PROVE  d \in underway'
  <2>1. /\ w \in evaluated \ caught /\ End(w) + Slop < time /\ time \in Nat
        /\ stamp'[d] <= End(w) + Slop
    BY <1>5 DEF Verdicts, ReportTypes, InWindow
  <2>2. stamp'[d] = stamp[d]
    BY <1>0, <1>2, <2>1
  <2>3. InWindow(d, w)
    BY <1>5, <2>2 DEF InWindow
  <2>4. QED
    BY <2>1, <2>3 DEF Verdicts
<1>6. QED
  BY <1>3, <1>4, <1>5 DEF Verdicts

\* A report says what holds now.
LEMMA VerdictsGiven ==
  ASSUME ReportInv, Report, UNCHANGED <<time, flybys, stamp, counted>>
  PROVE  /\ Verdicts' /\ evaluated' \subseteq Windows /\ caught' \subseteq evaluated'
         /\ evaluated \subseteq evaluated' /\ caught \subseteq caught'
         /\ \A w \in evaluated \ caught : w \in caught' => Hits(w) \subseteq underway
<1>0. /\ ReportTypes /\ Verdicts /\ Ours \subseteq Detections
      /\ Clip \in Nat \ {0} /\ (time - Start) \in Nat
  BY ReportAssumption DEF ReportInv, ReportTypes, Start
<1>1. /\ evaluated' = Realized /\ caught' = {w \in Realized : Hits(w) # {}}
      /\ underway' = {d \in Ours : stamp[d] # 0 /\ counted[d] = 0}
  BY DEF Report
<1>2. \A w : Hits(w)' = Hits(w)
  BY DEF Hits
<1>3. \A w \in Realized : /\ w \in Windows /\ w[2] \in flybys
                          /\ w[1] <= (time - Start) \div Clip /\ End(w) + Slop < time
  BY <1>0, Flown
<1>4. ASSUME NEW w \in evaluated' \ caught', NEW d \in Ours, InWindow(d, w)'
      PROVE  d \in underway'
  <2>1. w \in Windows /\ d \notin Hits(w) /\ Begin(w) <= stamp[d] /\ stamp[d] <= End(w) + Slop
    BY <1>1, <1>3, <1>4 DEF InWindow
  <2>2. Begin(w) \in Nat /\ Begin(w) >= 1
    BY <2>1, WindowTimes DEF Start
  <2>3. ~(counted[d] > 0)
    BY <2>1 DEF Hits
  <2>4. stamp[d] \in Nat /\ counted[d] \in Nat
    BY <1>0 DEF ReportTypes
  <2>5. QED
    BY <1>1, <2>1, <2>2, <2>3, <2>4
<1>5. Verdicts'
  BY <1>1, <1>2, <1>3, <1>4 DEF Verdicts
<1>6. evaluated \subseteq Realized
  <2>1. SUFFICES ASSUME NEW w \in evaluated PROVE w \in Realized
    OBVIOUS
  <2>2. /\ w \in Windows /\ w[2] \in flybys /\ w[1] <= (time - Start) \div Clip
        /\ End(w) + Slop < time
    BY <1>0 DEF ReportTypes, Verdicts
  <2>3. (time - Start) \div Clip \in Nat
    BY <1>0
  <2>4. w[1] \in 0..((time - Start) \div Clip) /\ w = <<w[1], w[2]>>
    BY <2>2, <2>3 DEF Windows
  <2>5. QED
    BY <2>2, <2>4 DEF Realized
<1>7. caught \subseteq caught'
  BY <1>0, <1>1, <1>6 DEF Verdicts, ReportTypes
<1>8. ASSUME NEW w \in evaluated \ caught
      PROVE  Hits(w) \subseteq underway
  BY <1>0, <1>8 DEF Verdicts, Hits, InWindow
<1>9. QED
  BY <1>1, <1>3, <1>5, <1>6, <1>7, <1>8

LEMMA ReportStep ==
  ASSUME ReportInv, [ReportNext]_reportVars
  PROVE  ReportInv'
<1>0. /\ ReportTypes /\ Counting /\ Passing /\ Verdicts /\ FlybysAreRuns
      /\ Ours \subseteq Detections
  BY ReportAssumption DEF ReportInv
<1>a. /\ time \in Nat /\ mark \in Nat /\ time >= Start
      /\ \A d \in Detections : stamp[d] \in Nat /\ counted[d] \in Nat
  BY <1>0 DEF ReportTypes
<1>f. FlybysAreRuns'
  <2>1. UNCHANGED <<labels, flybys>>
    BY DEF ReportNext, reportVars, Stamp, Store, Second, CollectorBegins, Poll, PollFails,
           Record, CollectorWaits, RollingReport, Report, Halt, FinalReport
  <2>2. QED
    BY <1>0, <2>1 DEF FlybysAreRuns
<1>1. ASSUME NEW d \in Detections, Stamp(d)
      PROVE  ReportInv'
  <2>1. /\ stamp[d] = 0 /\ stamp' = [stamp EXCEPT ![d] = time]
        /\ UNCHANGED <<time, labels, flybys, stored, collector, mark, news, counted, passed,
                       mainThread, halt, evaluated, caught, underway>>
    BY <1>1 DEF Stamp
  <2>2. \A x \in Detections : stamp'[x] = IF x = d THEN time ELSE stamp[x]
    BY <1>0, <2>1 DEF ReportTypes
  <2>3. ReportTypes'
    BY <1>0, <2>1 DEF ReportTypes
  <2>4. d \notin stored /\ d \notin news /\ ~(counted[d] > 0)
    BY <1>0, <1>a, <2>1 DEF Counting, Start
  <2>5. \A x \in stored : x \in Detections /\ stamp'[x] = stamp[x]
    BY <1>0, <2>2, <2>4 DEF ReportTypes
  <2>6. Counting'
    BY <1>0, <1>a, <2>1, <2>2, <2>4, <2>5 DEF Counting, ReportTypes
  <2>7. Passing'
    BY <1>0, <2>1, <2>5 DEF Passing, NonePassed, Counting
  <2>8. Verdicts'
    BY <1>0, <1>a, <2>1, <2>2, VerdictsKept
  <2>9. QED
    BY <1>f, <2>3, <2>6, <2>7, <2>8 DEF ReportInv
<1>2. ASSUME NEW d \in Detections, Store(d)
      PROVE  ReportInv'
  <2>1. /\ stamp[d] # 0 /\ stored' = stored \cup {d}
        /\ passed' = IF Overtaken(d) THEN passed \cup {d} ELSE passed
        /\ UNCHANGED <<time, labels, flybys, stamp, collector, mark, news, counted,
                       mainThread, halt, evaluated, caught, underway>>
    BY <1>2 DEF Store
  <2>2. ReportTypes'
    BY <1>0, <2>1 DEF ReportTypes
  <2>3. Counting'
    BY <1>0, <2>1 DEF Counting
  <2>4. Passing'
    <3>1. ASSUME NEW x \in Ours \cap stored', counted[x] = 0, Start < stamp[x],
                 stamp[x] <= mark
          PROVE  x \in passed'
      BY <1>0, <2>1, <3>1 DEF Passing, NonePassed, Overtaken
    <3>2. ASSUME NEW x \in Ours \cap stored', mark < stamp[x], x \notin news,
                 NEW e \in news, stamp[x] <= stamp[e]
          PROVE  x \in passed'
      BY <1>0, <2>1, <3>2 DEF Passing, Overtaken
    <3>3. QED
      BY <2>1, <3>1, <3>2 DEF Passing, NonePassed
  <2>5. Verdicts'
    BY <1>0, <1>a, <2>1, VerdictsKept
  <2>6. QED
    BY <1>f, <2>2, <2>3, <2>4, <2>5 DEF ReportInv
<1>3. CASE Second
  <2>1. /\ time' = time + 1
        /\ UNCHANGED <<labels, flybys, stamp, stored, collector, mark, news, counted, passed,
                       mainThread, halt, evaluated, caught, underway>>
    BY <1>3 DEF Second
  <2>2. ReportTypes'
    BY <1>0, <1>a, <2>1 DEF ReportTypes, Start
  <2>3. Counting'
    BY <1>0, <1>a, <2>1 DEF Counting
  <2>4. Passing'
    BY <1>0, <2>1 DEF Passing, NonePassed
  <2>5. Verdicts'
    <3>1. time' \in Nat /\ time <= time'
      BY <1>a, <2>1
    <3>2. QED
      BY <1>0, <2>1, <3>1, VerdictsKept
  <2>6. QED
    BY <1>f, <2>2, <2>3, <2>4, <2>5 DEF ReportInv
<1>4. CASE CollectorBegins \/ PollFails \/ CollectorWaits \/ Halt \/ UNCHANGED reportVars
  <2>1. /\ UNCHANGED <<time, labels, flybys, stamp, stored, mark, news, counted, passed,
                       evaluated, caught, underway>>
        /\ collector' # "record" => news = {}
    BY <1>0, <1>4 DEF CollectorBegins, PollFails, CollectorWaits, Collector, Halt, reportVars,
                      ReportTypes
  <2>2. ReportTypes'
    BY <1>0, <2>1 DEF ReportTypes
  <2>3. Counting' /\ Passing'
    BY <1>0, <2>1 DEF Counting, Passing, NonePassed
  <2>4. Verdicts'
    BY <1>0, <1>a, <2>1, VerdictsKept
  <2>5. QED
    BY <1>f, <2>2, <2>3, <2>4 DEF ReportInv
<1>5. CASE Poll
  <2>1. PICK docs \in SUBSET stored :
          /\ news' = New(docs)
          /\ passed' = passed \cup {d \in (stored \ docs) \cap Ours : stamp[d] > mark}
    BY <1>5 DEF Poll
  <2>2. /\ collector = "query" /\ collector' = "record"
        /\ UNCHANGED <<time, labels, flybys, stamp, stored, mark, counted, mainThread, halt,
                       evaluated, caught, underway>>
    BY <1>5 DEF Poll, Collector
  <2>3. ReportTypes'
    BY <1>0, <2>1, <2>2 DEF ReportTypes, New
  <2>4. Counting'
    BY <1>0, <1>a, <2>1, <2>2 DEF Counting, New
  <2>5. Passing'
    <3>1. NonePassed'
      BY <1>0, <2>1, <2>2 DEF Passing, NonePassed
    <3>2. ASSUME NEW x \in Ours \cap stored, mark < stamp[x], x \notin news'
          PROVE  x \in passed'
      BY <1>0, <1>a, <2>1, <3>2 DEF New
    <3>3. QED
      BY <2>2, <3>1, <3>2 DEF Passing
  <2>6. Verdicts'
    BY <1>0, <1>a, <2>2, VerdictsKept
  <2>7. QED
    BY <1>f, <2>3, <2>4, <2>5, <2>6 DEF ReportInv
<1>6. CASE Record
  <2>1. /\ counted' = [d \in Detections |-> counted[d] + IF d \in news THEN 1 ELSE 0]
        /\ news' = {} /\ collector' = "wait"
        /\ UNCHANGED <<time, labels, flybys, stamp, stored, passed, mainThread, halt,
                       evaluated, caught, underway>>
    BY <1>6 DEF Record, Collector
  <2>2. \/ news = {} /\ mark' = mark
        \/ \E e \in news : (\A d \in news : stamp[d] <= stamp[e]) /\ mark' = stamp[e]
    BY <1>6 DEF Record
  <2>3. /\ mark' \in Nat /\ mark <= mark'
        /\ \A d \in news : d \in Detections /\ mark < stamp[d] /\ stamp[d] <= mark'
    BY <1>0, <1>a, <2>2 DEF Counting, ReportTypes
  <2>4. \A d \in Detections :
          /\ d \in news => counted[d] = 0 /\ counted'[d] = 1
          /\ d \notin news => counted'[d] = counted[d]
    <3>1. SUFFICES ASSUME NEW d \in Detections
                   PROVE  /\ d \in news => counted[d] = 0 /\ counted'[d] = 1
                          /\ d \notin news => counted'[d] = counted[d]
      OBVIOUS
    <3>2. counted'[d] = counted[d] + IF d \in news THEN 1 ELSE 0
      BY <2>1
    <3>3. d \in news => counted[d] = 0
      BY <1>0, <1>a, <2>3 DEF Counting
    <3>4. QED
      BY <1>a, <3>2, <3>3
  <2>5. ReportTypes'
    <3>1. counted' \in [Detections -> Nat]
      BY <1>a, <2>1
    <3>2. mark' >= Start
      BY <1>0, <1>a, <2>3 DEF ReportTypes, Start
    <3>3. QED
      BY <1>0, <2>1, <2>3, <3>1, <3>2 DEF ReportTypes
  <2>6. Counting'
    <3>1. ASSUME NEW d \in Detections, counted'[d] > 0
          PROVE  /\ counted'[d] = 1 /\ d \in Ours /\ Start < stamp[d] /\ stamp[d] <= mark'
      <4>1. CASE d \in news
        <5>1. mark >= Start /\ mark < stamp[d] /\ stamp[d] <= mark' /\ d \in Ours
          BY <1>0, <2>3, <4>1 DEF ReportTypes
        <5>2. QED
          BY <1>a, <2>4, <4>1, <5>1 DEF Start
      <4>2. CASE d \notin news
        <5>1. counted[d] = 1 /\ d \in Ours /\ Start < stamp[d] /\ stamp[d] <= mark
          BY <1>0, <2>4, <3>1, <4>2 DEF Counting
        <5>2. QED
          BY <1>a, <2>3, <2>4, <4>2, <5>1
      <4>3. QED
        BY <4>1, <4>2
    <3>2. QED
      BY <1>0, <2>1, <3>1 DEF Counting
  <2>7. Passing'
    <3>1. ASSUME NEW d \in Ours \cap stored, counted'[d] = 0, Start < stamp[d],
                 stamp[d] <= mark'
          PROVE  d \in passed
      <4>1. d \notin news /\ counted[d] = 0 /\ stamp[d] \in Nat
        BY <1>0, <1>a, <2>4, <3>1
      <4>2. CASE stamp[d] <= mark
        BY <1>0, <3>1, <4>1, <4>2 DEF Passing, NonePassed
      <4>3. CASE mark < stamp[d]
        <5>1. \E e \in news : stamp[d] <= stamp[e]
          BY <1>a, <2>2, <3>1, <4>1, <4>3
        <5>2. QED
          BY <1>0, <4>1, <4>3, <5>1 DEF Passing
      <4>4. QED
        BY <1>a, <4>1, <4>2, <4>3
    <3>2. QED
      BY <2>1, <3>1 DEF Passing, NonePassed
  <2>8. Verdicts'
    BY <1>0, <1>a, <2>1, <2>4, VerdictsKept
  <2>9. QED
    BY <1>f, <2>5, <2>6, <2>7, <2>8 DEF ReportInv
<1>7. CASE RollingReport \/ FinalReport
  <2>1. /\ Report /\ UNCHANGED <<time, labels, flybys, stamp, stored, mark, counted, passed>>
        /\ (UNCHANGED <<collector, news>>) \/ news' = {}
    BY <1>7 DEF RollingReport, FinalReport
  <2>2. Verdicts' /\ evaluated' \subseteq Windows /\ caught' \subseteq evaluated'
    BY <2>1, VerdictsGiven
  <2>3. ReportTypes'
    BY <1>0, <2>1, <2>2 DEF ReportTypes
  <2>4. Counting'
    BY <1>0, <2>1 DEF Counting
  <2>5. Passing'
    BY <1>0, <2>1 DEF Passing, NonePassed
  <2>6. QED
    BY <1>f, <2>2, <2>3, <2>4, <2>5 DEF ReportInv
<1>8. QED
  BY <1>1, <1>2, <1>3, <1>4, <1>5, <1>6, <1>7 DEF ReportNext

\* Only a report says anything.
LEMMA ReportSays ==
  ASSUME ReportInv, [ReportNext]_reportVars
  PROVE  /\ evaluated \subseteq evaluated' /\ caught \subseteq caught'
         /\ \A w \in evaluated \ caught : w \in caught' => Hits(w) \subseteq underway
<1>1. CASE RollingReport \/ FinalReport
  <2>1. Report /\ UNCHANGED <<time, flybys, stamp, counted>>
    BY <1>1 DEF RollingReport, FinalReport
  <2>2. QED
    BY <2>1, VerdictsGiven
<1>2. CASE ~(RollingReport \/ FinalReport)
  <2>1. UNCHANGED <<evaluated, caught>>
    BY <1>2 DEF ReportNext, reportVars, Stamp, Store, Second, CollectorBegins, Poll, PollFails,
                Record, CollectorWaits, Halt
  <2>2. QED
    BY <2>1
<1>3. QED
  BY <1>1, <1>2

-----------------------------------------------------------------------------
(* The programs *)

LEMMA InitialPrograms ==
  ASSUME Init
  PROVE  BridgeInv /\ SimulatorInv /\ ReportInv
BY BridgeInitial, SimulatorInitial, ReportInitial DEF Init

LEMMA OneProgram ==
  ASSUME [Next]_vars
  PROVE  [BridgeNext]_bridgeVars /\ [SimulatorNext]_simulatorVars /\ [ReportNext]_reportVars
BY DEF Next, vars, Fleet, Reporting, Bridge, Pull, Simulator

\* What TLC checks of the bridge, for queues of every length and any places: a
\* frame finds the gateway with the location of its own clip.
THEOREM FramesArePlaced == Spec => []FramesPlaced
<1>1. Init => BridgeInv
  BY InitialPrograms
<1>2. BridgeInv /\ [Next]_vars => BridgeInv'
  BY OneProgram, BridgeStep
<1>3. BridgeInv => FramesPlaced
  BY DEF BridgeInv
<1>4. QED
  BY <1>1, <1>2, <1>3, PTL DEF Spec

\* For every number of phones and any times, what a refresh takes included, a phone's
\* hot state gets no older than two refreshes, a burst and the sleep between them.
THEOREM PhonesStayVisible == Spec => []KeptVisible
<1>1. Init => SimulatorInv
  BY InitialPrograms
<1>2. SimulatorInv /\ [Next]_vars => SimulatorInv'
  BY OneProgram, SimulatorStep
<1>3. SimulatorInv => KeptVisible
  BY SimulatorKeeps
<1>4. QED
  BY <1>1, <1>2, <1>3, PTL DEF Spec

LEMMA ReportHolds == Spec => []ReportInv
<1>1. Init => ReportInv
  BY InitialPrograms
<1>2. ReportInv /\ [Next]_vars => ReportInv'
  BY OneProgram, ReportStep
<1>3. QED
  BY <1>1, <1>2, PTL DEF Spec

\* For clips of every length and any labels, the loop of load_ground_truth finds
\* the longest labelled stretches and nothing else.
THEOREM GroundTruthIsRuns == Spec => []FlybysAreRuns
<1>1. ReportInv => FlybysAreRuns
  BY DEF ReportInv
<1>2. QED
  BY <1>1, ReportHolds, PTL

\* However often and late the collection is read, a detection is counted once.
THEOREM DetectionsCountOnce == Spec => []CollectedOnce
<1>1. ReportInv => CollectedOnce
  BY DEF ReportInv, Counting, CollectedOnce
<1>2. QED
  BY <1>1, ReportHolds, PTL

\* The mark leaves behind only what came late or was crowded out.
THEOREM MarkPassesNone == Spec => []NonePassed
<1>1. ReportInv => NonePassed
  BY DEF ReportInv, Passing
<1>2. QED
  BY <1>1, ReportHolds, PTL

\* Reports never take a verdict back but for detections that were under way.
THEOREM VerdictsAreKept == Spec => VerdictsStand
<1>1. ReportInv /\ [Next]_vars =>
        [/\ evaluated \subseteq evaluated' /\ caught \subseteq caught'
         /\ \A w \in evaluated \ caught :
              w \in caught' => Hits(w) \subseteq underway]_reportVars
  BY OneProgram, ReportSays
<1>2. QED
  BY <1>1, ReportHolds, PTL DEF Spec, VerdictsStand
=============================================================================
