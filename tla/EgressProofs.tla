----------------------------- MODULE EgressProofs -----------------------------
(***************************************************************************)
(* No ack of the egress is premature: for any number of messages, streams, *)
(* batches and restarts.                                                   *)
(***************************************************************************)
EXTENDS Egress, SequenceTheorems, TLAPS

-----------------------------------------------------------------------------
(* Queues and the subscription *)

LEMMA QueueFacts ==
  ASSUME NEW S, NEW q \in Seq(S)
  PROVE  /\ Range(q) \subseteq S
         /\ q # <<>> => Head(q) \in S /\ Tail(q) \in Seq(S)
BY DEF Range

LEMMA RangeSteps ==
  ASSUME NEW S, NEW q \in Seq(S)
  PROVE  /\ \A b \in S : Range(Append(q, b)) = Range(q) \cup {b}
         /\ q # <<>> => Range(q) = {Head(q)} \cup Range(Tail(q))
<1>1. ASSUME NEW b \in S PROVE Range(Append(q, b)) = Range(q) \cup {b}
  <2>1. /\ DOMAIN Append(q, b) = 1..(Len(q) + 1) /\ DOMAIN q = 1..Len(q)
        /\ Len(q) \in Nat
        /\ \A i \in 1..Len(q) : Append(q, b)[i] = q[i]
        /\ Append(q, b)[Len(q) + 1] = b
    OBVIOUS
  <2>2. 1..(Len(q) + 1) = (1..Len(q)) \cup {Len(q) + 1}
    BY <2>1
  <2> DEFINE r == Append(q, b)
  <2> HIDE DEF r
  <2>3. DOMAIN r = DOMAIN q \cup {Len(q) + 1}
    BY <2>1, <2>2 DEF r
  <2>4. (\A i \in DOMAIN q : r[i] = q[i]) /\ r[Len(q) + 1] = b
    BY <2>1 DEF r
  <2>5. Range(r) = Range(q) \cup {b}
    BY <2>3, <2>4, Zenon DEF Range
  <2> QED BY <2>5 DEF r
<1>2. ASSUME q # <<>> PROVE Range(q) = {Head(q)} \cup Range(Tail(q))
  <2>1. /\ DOMAIN Tail(q) = 1..(Len(q) - 1) /\ Len(q) >= 1
        /\ \A i \in 1..(Len(q) - 1) : Tail(q)[i] = q[i + 1]
        /\ DOMAIN q = 1..Len(q) /\ Head(q) = q[1] /\ Len(q) \in Nat
    BY <1>2
  <2>2. ASSUME NEW x \in Range(q) PROVE x \in {Head(q)} \cup Range(Tail(q))
    <3>1. PICK i \in 1..Len(q) : x = q[i]
      BY <2>1 DEF Range
    <3>2. CASE i = 1
      BY <3>1, <3>2, <2>1
    <3>3. CASE i # 1
      <4>1. i - 1 \in DOMAIN Tail(q) /\ Tail(q)[i - 1] = x
        BY <3>1, <3>3, <2>1
      <4> QED BY <4>1, Zenon DEF Range
    <3> QED BY <3>2, <3>3
  <2>3. ASSUME NEW x \in {Head(q)} \cup Range(Tail(q)) PROVE x \in Range(q)
    <3>1. PICK i \in 1..Len(q) : x = q[i]
      BY <2>1 DEF Range
    <3> QED BY <3>1, <2>1 DEF Range
  <2> QED BY <2>2, <2>3
<1> QED BY <1>1, <1>2

\* A message that may still be delivered has attempts left.
SubInv ==
  /\ sub \in Subscriptions
  /\ \A m \in Messages : sub[m].phase \in {"new", "ready"} => sub[m].attempt < MaxAttempts

\* The messages that an operation acks are among ms.
DoneWithin(ms) ==
  \A m \in Messages : sub'[m].phase = "done" => sub[m].phase = "done" \/ m \in ms

LEMMA SubscriptionInitInv == SubscriptionInit => SubInv
BY AttemptsAssumption DEF SubscriptionInit, SubInv, Subscriptions

LEMMA LeaveInv ==
  ASSUME SubInv, NEW m \in Messages, Leave(m)
  PROVE  SubInv' /\ DoneWithin({})
BY DEF Leave, SubInv, Subscriptions, DoneWithin

LEMMA DeliverInv ==
  ASSUME SubInv, NEW m \in Messages, NEW phases \in SUBSET {"done", "out"},
         Deliver(m, phases)
  PROVE  /\ SubInv'
         /\ DoneWithin({m})
         /\ "done" \notin phases => DoneWithin({})
BY AttemptsAssumption DEF Deliver, SubInv, Subscriptions, DoneWithin

LEMMA TakeBackInv ==
  ASSUME SubInv, NEW m \in Messages, TakeBack(m)
  PROVE  SubInv' /\ DoneWithin({})
BY DEF TakeBack, SubInv, Subscriptions, DoneWithin

LEMMA AcknowledgeInv ==
  ASSUME SubInv, NEW ms \in SUBSET Messages, Acknowledge(ms)
  PROVE  SubInv' /\ DoneWithin(ms)
BY DEF Acknowledge, SubInv, Subscriptions, DoneWithin

LEMMA SubUnchanged ==
  ASSUME SubInv, UNCHANGED sub
  PROVE  SubInv' /\ DoneWithin({})
BY DEF SubInv, DoneWithin

-----------------------------------------------------------------------------
(* Type correctness *)

TInv == SubInv /\ TypeOK

LEMMA ContentsType ==
  ASSUME NEW batches \in Seq(Batches)
  PROVE  Contents(batches) \subseteq Messages
<1>1. Range(batches) \subseteq Batches
  BY QueueFacts
<1>2. \A batch \in Batches : batch.messages \subseteq Messages
  BY DEF Batches
<1> QED BY <1>1, <1>2 DEF Contents

\* The updates of a stream keep its type.
LEMMA StreamUpdates ==
  ASSUME NEW s \in Streams
  PROVE  /\ \A b \in Batches :
              [s EXCEPT !.pending = s.pending \cup {b}, !.wire = Append(s.wire, b)]
                \in Streams
         /\ s.acks # <<>> =>
              \A gone \in SUBSET Batches :
                [s EXCEPT !.pending = s.pending \ gone, !.acks = Tail(s.acks)]
                  \in Streams
         /\ s.wire # <<>> =>
              [s EXCEPT !.received = s.received + 1, !.wire = Tail(s.wire),
                        !.acks = Append(s.acks, s.received + 1)] \in Streams
<1>1. /\ s.pending \in SUBSET Batches /\ s.wire \in Seq(Batches)
      /\ s.received \in Nat /\ s.acks \in Seq(Nat)
  BY DEF Streams
<1>2. /\ s.acks # <<>> => Tail(s.acks) \in Seq(Nat)
      /\ s.wire # <<>> => Tail(s.wire) \in Seq(Batches)
      /\ Append(s.acks, s.received + 1) \in Seq(Nat)
      /\ \A b \in Batches : Append(s.wire, b) \in Seq(Batches)
  BY <1>1, QueueFacts
<1> HIDE DEF Batches
<1>3. ASSUME NEW b \in Batches
      PROVE  [s EXCEPT !.pending = s.pending \cup {b}, !.wire = Append(s.wire, b)]
               \in Streams
  BY <1>1, <1>2 DEF Streams
<1>4. ASSUME s.acks # <<>>, NEW gone \in SUBSET Batches
      PROVE  [s EXCEPT !.pending = s.pending \ gone, !.acks = Tail(s.acks)]
               \in Streams
  <2>1. s.pending \ gone \in SUBSET Batches /\ Tail(s.acks) \in Seq(Nat)
    BY <1>1, <1>2, <1>4
  <2> QED BY <1>1, <2>1 DEF Streams
<1>5. ASSUME s.wire # <<>>
      PROVE  [s EXCEPT !.received = s.received + 1, !.wire = Tail(s.wire),
                       !.acks = Append(s.acks, s.received + 1)] \in Streams
  <2> DEFINE tail == Tail(s.wire)
             acks == Append(s.acks, s.received + 1)
             next == s.received + 1
  <2>1. tail \in Seq(Batches) /\ acks \in Seq(Nat) /\ next \in Nat
    BY <1>1, <1>2, <1>5
  <2> HIDE DEF tail, acks, next
  <2>2. [s EXCEPT !.received = next, !.wire = tail, !.acks = acks] \in Streams
    BY <1>1, <2>1 DEF Streams
  <2> QED BY <2>2 DEF tail, acks, next
<1> QED BY <1>3, <1>4, <1>5

LEMMA PendingType ==
  ASSUME NEW s \in Streams, NEW n
  PROVE  /\ PendingOf(s, n) \in SUBSET Batches
         /\ UNION {p.messages : p \in PendingOf(s, n)} \in SUBSET Messages
<1>1. PendingOf(s, n) \subseteq Batches
  BY DEF PendingOf, Streams
<1>2. \A batch \in Batches : batch.messages \subseteq Messages
  BY DEF Batches
<1> QED BY <1>1, <1>2

LEMMA DrainType ==
  ASSUME TypeOK, Drain
  PROVE  outQ' \in Seq(Batches) /\ batchSeq' \in Nat
<1>1. [seq |-> batchSeq', messages |-> Range(buf)] \in Batches
  BY DEF Drain, TypeOK, Batches, Range
<1> QED BY <1>1 DEF Drain, TypeOK

LEMMA TypeInit == Init => TInv
<1> SUFFICES ASSUME Init PROVE TInv
  OBVIOUS
<1>1. SubInv
  BY SubscriptionInitInv DEF Init
<1>2. <<>> \in Seq(Messages) /\ <<>> \in Seq(Batches)
  OBVIOUS
<1> QED BY <1>1, <1>2 DEF Init, TInv, SubInv, TypeOK

LEMMA TypeStep == TInv /\ [Next]_vars => TInv'
<1> SUFFICES ASSUME TInv, [Next]_vars PROVE TInv'
  OBVIOUS
<1> USE DEF TInv
<1>s. SubInv => sub \in Subscriptions
  BY DEF SubInv
<1>1. ASSUME NEW m \in Messages, Publish(m) PROVE TInv'
  BY <1>1, LeaveInv DEF Publish, TypeOK, SubInv
<1>2. ASSUME NEW m \in Messages, LeaseExpires(m) PROVE TInv'
  BY <1>2, TakeBackInv DEF LeaseExpires, TypeOK, SubInv
<1>3. ASSUME NEW m \in Messages, Receive(m) PROVE TInv'
  <2>1. SubInv'
    BY <1>3, DeliverInv DEF Receive
  <2> QED BY <1>3, <2>1 DEF Receive, TypeOK, SubInv
<1>4. CASE Drain
  <2>1. SubInv'
    BY <1>4, SubUnchanged DEF Drain
  <2> QED BY <1>4, <2>1, DrainType DEF Drain, TypeOK, SubInv
<1>5. CASE OpenStream
  <2>1. SubInv'
    BY <1>5, SubUnchanged DEF OpenStream
  <2>2. NewStream \in Streams
    BY DEF NewStream, Streams
  <2> QED BY <1>5, <2>1, <2>2 DEF OpenStream, TypeOK, SubInv
<1>6. CASE Send
  <2>1. SubInv'
    BY <1>6, SubUnchanged DEF Send
  <2>2. Head(outQ) \in Batches /\ Tail(outQ) \in Seq(Batches)
    BY <1>6, QueueFacts DEF Send, TypeOK
  <2>3. stream' \subseteq Streams
    BY <1>6, <2>2, StreamUpdates DEF Send, TypeOK
  <2> QED BY <1>6, <2>1, <2>2, <2>3 DEF Send, TypeOK, SubInv
<1>7. CASE OrphanTakes
  <2>1. SubInv'
    BY <1>7, SubUnchanged DEF OrphanTakes
  <2>2. Head(outQ) \in Batches /\ Tail(outQ) \in Seq(Batches)
    BY <1>7, QueueFacts DEF OrphanTakes, TypeOK
  <2> QED BY <1>7, <2>1, <2>2 DEF OrphanTakes, TypeOK, SubInv, Batches
<1>8. CASE TakeAck
  <2> PICK s \in stream :
        /\ s.acks # <<>>
        /\ Acknowledge(UNION {p.messages : p \in PendingOf(s, Head(s.acks))})
        /\ leased' = leased \ UNION {p.messages : p \in PendingOf(s, Head(s.acks))}
        /\ stream' = {[s EXCEPT !.pending = s.pending \ PendingOf(s, Head(s.acks)),
                                !.acks = Tail(s.acks)]}
        /\ UNCHANGED <<running, buf, outQ, batchSeq, orphans, counted, dropped>>
    BY <1>8 DEF TakeAck
  <2>1. s \in Streams
    BY DEF TypeOK
  <2>2. UNION {p.messages : p \in PendingOf(s, Head(s.acks))} \in SUBSET Messages
    BY <2>1, PendingType
  <2>3. SubInv'
    BY <2>2, AcknowledgeInv
  <2>4. stream' \subseteq Streams
    BY <2>1, PendingType, StreamUpdates
  <2> QED BY <2>3, <2>4 DEF TypeOK, SubInv
<1>9. CASE ReceiveBatch
  <2>1. SubInv'
    BY <1>9, SubUnchanged DEF ReceiveBatch
  <2> PICK s \in stream :
        /\ s.wire # <<>>
        /\ stream' = {[s EXCEPT !.received = s.received + 1,
                                !.wire = Tail(s.wire),
                                !.acks = Append(s.acks, s.received + 1)]}
        /\ counted' = counted \cup Head(s.wire).messages
        /\ UNCHANGED <<sub, running, leased, buf, outQ, batchSeq, orphans, dropped>>
    BY <1>9 DEF ReceiveBatch
  <2>2. s \in Streams
    BY DEF TypeOK
  <2>3. Head(s.wire) \in Batches /\ Tail(s.wire) \in Seq(Batches)
    BY <2>2, QueueFacts DEF Streams
  <2>4. stream' \subseteq Streams
    BY <2>2, StreamUpdates
  <2> QED BY <2>1, <2>3, <2>4 DEF TypeOK, SubInv, Batches
<1>10. CASE StreamDies
  <2>1. SubInv'
    BY <1>10, SubUnchanged DEF StreamDies
  <2>2. \A s \in stream : Contents(s.wire) \subseteq Messages
    BY ContentsType DEF TypeOK, Streams
  <2>3. orphans' \in Nat
    BY <1>10, EgressSizes DEF StreamDies, TypeOK
  <2> QED BY <1>10, <2>1, <2>2, <2>3 DEF StreamDies, TypeOK, SubInv
<1>11. CASE Start
  BY <1>11, SubUnchanged DEF Start, TypeOK, SubInv
<1>12. CASE Stop
  <2>1. SubInv'
    BY <1>12, SubUnchanged DEF Stop
  <2>2. \A s \in stream : Contents(s.wire) \subseteq Messages
    BY ContentsType DEF TypeOK, Streams
  <2>3. Contents(outQ) \subseteq Messages /\ Range(buf) \subseteq Messages
    BY ContentsType DEF TypeOK, Range
  <2>4. dropped' \subseteq Messages
    BY <1>12, <2>2, <2>3 DEF Stop, TypeOK
  <2>5. <<>> \in Seq(Messages) /\ <<>> \in Seq(Batches)
    OBVIOUS
  <2> QED BY <1>12, <2>1, <2>4, <2>5 DEF Stop, TypeOK, SubInv
<1>13. CASE UNCHANGED vars
  BY <1>13, SubUnchanged DEF vars, TypeOK, SubInv
<1> QED
  BY <1>1, <1>2, <1>3, <1>4, <1>5, <1>6, <1>7, <1>8, <1>9, <1>10, <1>11, <1>12, <1>13
  DEF Next

\* The state of publisher and receiver is of the right type throughout.
THEOREM EgressTypes == Spec => []TypeOK
<1>1. Spec => []TInv
  BY TypeInit, TypeStep, PTL DEF Spec
<1> QED BY <1>1, PTL DEF TInv
-----------------------------------------------------------------------------
(* Acks are never premature                                                *)
(*                                                                         *)
(* The numbers of publisher and receiver drift apart, but only one way: the *)
(* batch the receiver counts as its n-th of a stream has a number of at    *)
(* least n.  So an ack that carries n can only release a batch that has    *)
(* left the wire.                                                          *)

\* The batches of q are numbered n + 1, n + 2, ... or more.
Ahead(q, n) == \A i \in DOMAIN q : q[i].seq >= n + i

StreamOK(s, q, last, got) ==
  /\ \A i \in DOMAIN s.acks : s.acks[i] <= s.received
  /\ Ahead(s.wire, s.received)
  /\ Ahead(q, s.received + Len(s.wire))
  /\ last >= s.received + Len(s.wire) + Len(q)
  /\ \A p \in s.pending : p \in Range(s.wire) \/ p.messages \subseteq got

AckInv ==
  /\ TInv
  /\ AckedIsCounted
  /\ Ahead(outQ, 0) /\ batchSeq >= Len(outQ)
  /\ \A s \in stream : StreamOK(s, outQ, batchSeq, counted)

LEMMA AheadTail ==
  ASSUME NEW q \in Seq(Batches), q # <<>>, NEW n \in Nat, Ahead(q, n)
  PROVE  Ahead(Tail(q), n + 1) /\ Ahead(Tail(q), n) /\ Head(q).seq >= n + 1
<1>1. /\ DOMAIN Tail(q) = 1..(Len(q) - 1) /\ Len(q) >= 1
      /\ \A i \in 1..(Len(q) - 1) : Tail(q)[i] = q[i + 1]
      /\ DOMAIN q = 1..Len(q) /\ Head(q) = q[1] /\ Len(q) \in Nat
  OBVIOUS
<1>2. \A i \in 1..Len(q) : q[i].seq \in Nat /\ q[i].seq >= n + i
  <2> TAKE i \in 1..Len(q)
  <2>1. q[i] \in Batches
    OBVIOUS
  <2>2. q[i].seq \in Nat
    BY <2>1 DEF Batches
  <2> QED BY <1>1, <2>2 DEF Ahead
<1>3. ASSUME NEW i \in 1..(Len(q) - 1)
      PROVE  Tail(q)[i].seq >= (n + 1) + i /\ Tail(q)[i].seq >= n + i
  <2>1. i + 1 \in 1..Len(q) /\ Tail(q)[i] = q[i + 1]
    BY <1>1
  <2>2. q[i + 1].seq \in Nat /\ q[i + 1].seq >= n + (i + 1)
    BY <1>2, <2>1
  <2> QED BY <2>1, <2>2
<1>4. Head(q).seq >= n + 1
  BY <1>1, <1>2
<1> QED BY <1>1, <1>3, <1>4 DEF Ahead

LEMMA AheadAppend ==
  ASSUME NEW q \in Seq(Batches), NEW n \in Nat, NEW b \in Batches,
         Ahead(q, n), b.seq >= n + (Len(q) + 1)
  PROVE  Ahead(Append(q, b), n)
<1>1. /\ DOMAIN Append(q, b) = 1..(Len(q) + 1) /\ DOMAIN q = 1..Len(q)
      /\ Len(q) \in Nat
      /\ \A i \in 1..Len(q) : Append(q, b)[i] = q[i]
      /\ Append(q, b)[Len(q) + 1] = b
  OBVIOUS
<1> QED BY <1>1 DEF Ahead

LEMMA AckInit == Init => AckInv
<1> SUFFICES ASSUME Init PROVE AckInv
  OBVIOUS
<1>1. TInv
  BY TypeInit
<1>2. AckedIsCounted
  BY ReadableAssumption DEF Init, SubscriptionInit, AckedIsCounted
<1>3. Ahead(outQ, 0) /\ batchSeq >= Len(outQ)
  BY DEF Init, Ahead
<1> QED BY <1>1, <1>2, <1>3 DEF AckInv, Init

\* What is done stays counted, as long as only counted messages are acked.
LEMMA DoneStaysCounted ==
  ASSUME SubInv, AckedIsCounted, NEW ms, DoneWithin(ms),
         ms \cap Readable \subseteq counted, counted \subseteq counted'
  PROVE  AckedIsCounted'
BY ReadableAssumption DEF AckedIsCounted, DoneWithin

\* A batch joins the queue.
LEMMA DrainKeepsOrder ==
  ASSUME AckInv, Drain
  PROVE  /\ Ahead(outQ', 0) /\ batchSeq' >= Len(outQ')
         /\ \A s \in stream : StreamOK(s, outQ', batchSeq', counted)
<1> DEFINE b == [seq |-> batchSeq + 1, messages |-> Range(buf)]
<1>1. b \in Batches /\ outQ' = Append(outQ, b) /\ batchSeq' = batchSeq + 1
      /\ batchSeq \in Nat /\ outQ \in Seq(Batches) /\ b.seq = batchSeq + 1
  <2>1. Range(buf) \subseteq Messages /\ batchSeq \in Nat
    BY QueueFacts DEF AckInv, TInv, TypeOK
  <2> QED BY <2>1 DEF AckInv, TInv, TypeOK, Drain, Batches
<1> HIDE DEF b
<1>2. Len(outQ') = Len(outQ) + 1 /\ Len(outQ) \in Nat
  BY <1>1
<1>3. Ahead(outQ, 0) /\ batchSeq >= Len(outQ)
  BY DEF AckInv
<1>4. Ahead(outQ', 0) /\ batchSeq' >= Len(outQ')
  <2>1. b.seq >= 0 + (Len(outQ) + 1)
    BY <1>1, <1>2, <1>3
  <2> QED BY <1>1, <1>2, <1>3, <2>1, AheadAppend
<1>5. ASSUME NEW s \in stream
      PROVE  StreamOK(s, outQ', batchSeq', counted)
  <2>1. StreamOK(s, outQ, batchSeq, counted) /\ s \in Streams
    BY DEF AckInv, TInv, TypeOK
  <2>2. s.received + Len(s.wire) \in Nat
    BY <2>1 DEF Streams
  <2>3. b.seq >= (s.received + Len(s.wire)) + (Len(outQ) + 1)
    BY <1>1, <1>2, <2>1, <2>2 DEF StreamOK
  <2>4. Ahead(outQ', s.received + Len(s.wire))
    BY <1>1, <2>1, <2>2, <2>3, AheadAppend DEF StreamOK
  <2>5. batchSeq' >= s.received + Len(s.wire) + Len(outQ')
    BY <1>1, <1>2, <2>1, <2>2 DEF StreamOK
  <2> QED BY <2>1, <2>4, <2>5 DEF StreamOK
<1> QED BY <1>4, <1>5

\* The batch at the head of the queue leaves it.
LEMMA HeadLeaves ==
  ASSUME AckInv, outQ # <<>>, outQ' = Tail(outQ)
  PROVE  /\ Ahead(outQ', 0) /\ batchSeq >= Len(outQ')
         /\ \A s \in stream : StreamOK(s, outQ', batchSeq, counted)
<1>1. outQ \in Seq(Batches) /\ batchSeq \in Nat
  BY DEF AckInv, TInv, TypeOK
<1>2. Len(outQ') = Len(outQ) - 1 /\ Len(outQ) \in Nat
  BY <1>1
<1>3. Ahead(outQ', 0) /\ batchSeq >= Len(outQ')
  BY <1>1, <1>2, AheadTail DEF AckInv
<1>4. ASSUME NEW s \in stream
      PROVE  StreamOK(s, outQ', batchSeq, counted)
  <2>1. StreamOK(s, outQ, batchSeq, counted) /\ s \in Streams
    BY DEF AckInv, TInv, TypeOK
  <2>2. s.received + Len(s.wire) \in Nat
    BY <2>1 DEF Streams
  <2>3. Ahead(outQ', s.received + Len(s.wire))
    BY <1>1, <2>1, <2>2, AheadTail DEF StreamOK
  <2>4. batchSeq >= s.received + Len(s.wire) + Len(outQ')
    BY <1>1, <1>2, <2>1, <2>2 DEF StreamOK
  <2> QED BY <2>1, <2>3, <2>4 DEF StreamOK
<1> QED BY <1>3, <1>4

\* It goes on the wire of the open stream.
LEMMA SendKeepsOrder ==
  ASSUME AckInv, Send
  PROVE  \A t \in stream' : StreamOK(t, outQ', batchSeq, counted)
<1> DEFINE b == Head(outQ)
<1>1. PICK s \in stream :
        stream' = {[s EXCEPT !.pending = s.pending \cup {b},
                             !.wire = Append(s.wire, b)]}
  BY DEF Send
<1>2. /\ outQ # <<>> /\ outQ' = Tail(outQ)
      /\ outQ \in Seq(Batches) /\ batchSeq \in Nat /\ b \in Batches
  BY QueueFacts DEF AckInv, TInv, TypeOK, Send
<1>3. /\ StreamOK(s, outQ, batchSeq, counted) /\ s \in Streams
  BY DEF AckInv, TInv, TypeOK
<1>4. /\ s.wire \in Seq(Batches) /\ s.received \in Nat /\ Len(s.wire) \in Nat
      /\ Len(outQ') = Len(outQ) - 1 /\ Len(outQ) \in Nat
  BY <1>2, <1>3 DEF Streams
<1> DEFINE t == [s EXCEPT !.pending = s.pending \cup {b}, !.wire = Append(s.wire, b)]
<1>5. /\ t.pending = s.pending \cup {b} /\ t.wire = Append(s.wire, b)
      /\ t.received = s.received /\ t.acks = s.acks
  BY <1>3 DEF Streams
<1>6. /\ b.seq >= (s.received + Len(s.wire)) + 1
      /\ Ahead(outQ', (s.received + Len(s.wire)) + 1)
  BY <1>2, <1>3, <1>4, AheadTail DEF StreamOK
<1> HIDE DEF b, t
<1>7. Len(t.wire) = Len(s.wire) + 1
  BY <1>2, <1>4, <1>5
<1>8. Ahead(t.wire, t.received)
  <2>1. b.seq \in Nat
    BY <1>2 DEF Batches
  <2>2. b.seq >= s.received + (Len(s.wire) + 1)
    BY <1>4, <1>6, <2>1
  <2>3. Ahead(Append(s.wire, b), s.received)
    BY <1>2, <1>3, <1>4, <2>2, AheadAppend DEF StreamOK
  <2> QED BY <1>5, <2>3
<1>9. t.received + Len(t.wire) = (s.received + Len(s.wire)) + 1
  <2>1. s.received + (Len(s.wire) + 1) = (s.received + Len(s.wire)) + 1
    BY <1>4
  <2> QED BY <1>5, <1>7, <2>1
<1>10. batchSeq >= t.received + Len(t.wire) + Len(outQ')
  BY <1>2, <1>3, <1>4, <1>9 DEF StreamOK
<1>11. \A p \in t.pending : p \in Range(t.wire) \/ p.messages \subseteq counted
  BY <1>2, <1>3, <1>4, <1>5, RangeSteps DEF StreamOK
<1>12. StreamOK(t, outQ', batchSeq, counted)
  BY <1>3, <1>5, <1>6, <1>8, <1>9, <1>10, <1>11 DEF StreamOK
<1> QED BY <1>1, <1>12 DEF t, b
\* An ack releases only what has been counted.
LEMMA AckIsLate ==
  ASSUME AckInv, NEW s \in stream, s.acks # <<>>,
         NEW p \in PendingOf(s, Head(s.acks))
  PROVE  p.messages \subseteq counted
<1>1. s \in Streams /\ StreamOK(s, outQ, batchSeq, counted)
  BY DEF AckInv, TInv, TypeOK
<1>2. /\ s.wire \in Seq(Batches) /\ s.received \in Nat /\ s.acks \in Seq(Nat)
      /\ p \in s.pending /\ p.seq = Head(s.acks)
  BY <1>1 DEF Streams, PendingOf
<1>3. p.seq <= s.received
  BY <1>1, <1>2 DEF StreamOK
<1>4. ASSUME p \in Range(s.wire) PROVE FALSE
  <2>1. PICK i \in 1..Len(s.wire) : p = s.wire[i]
    BY <1>2, <1>4 DEF Range
  <2>2. p.seq >= s.received + i
    BY <1>1, <1>2, <2>1 DEF StreamOK, Ahead
  <2>3. p.seq \in Nat
    BY <1>1, <1>2 DEF Streams, Batches
  <2> QED BY <1>2, <1>3, <2>1, <2>2, <2>3
<1> QED BY <1>1, <1>2, <1>4 DEF StreamOK

LEMMA TakeAckStep ==
  ASSUME AckInv, TakeAck
  PROVE  /\ AckedIsCounted'
         /\ \A t \in stream' : StreamOK(t, outQ, batchSeq, counted)
<1> PICK s \in stream :
      /\ s.acks # <<>>
      /\ Acknowledge(UNION {p.messages : p \in PendingOf(s, Head(s.acks))})
      /\ stream' = {[s EXCEPT !.pending = s.pending \ PendingOf(s, Head(s.acks)),
                              !.acks = Tail(s.acks)]}
      /\ counted' = counted
  BY DEF TakeAck
<1> DEFINE matched == PendingOf(s, Head(s.acks))
           acked == UNION {p.messages : p \in matched}
           t == [s EXCEPT !.pending = s.pending \ matched, !.acks = Tail(s.acks)]
<1>1. s \in Streams /\ StreamOK(s, outQ, batchSeq, counted)
  BY DEF AckInv, TInv, TypeOK
<1>2. acked \subseteq counted
  BY AckIsLate
<1>3. AckedIsCounted'
  <2>1. acked \in SUBSET Messages
    BY <1>1, PendingType
  <2>2. DoneWithin(acked)
    BY <2>1, AcknowledgeInv DEF AckInv, TInv
  <2>3. SubInv /\ AckedIsCounted
    BY DEF AckInv, TInv
  <2> HIDE DEF acked
  <2> QED BY <1>2, <2>2, <2>3, DoneStaysCounted
<1>4. /\ t.pending \subseteq s.pending /\ t.wire = s.wire
      /\ t.received = s.received /\ t.acks = Tail(s.acks)
  BY <1>1 DEF Streams
<1>5. \A i \in DOMAIN t.acks : t.acks[i] <= t.received
  <2>1. s.acks \in Seq(Nat)
    BY <1>1 DEF Streams
  <2>2. \A i \in DOMAIN Tail(s.acks) :
          i + 1 \in DOMAIN s.acks /\ Tail(s.acks)[i] = s.acks[i + 1]
    BY <2>1
  <2> QED BY <1>1, <1>4, <2>2 DEF StreamOK
<1> HIDE DEF t
<1>6. StreamOK(t, outQ, batchSeq, counted)
  BY <1>1, <1>4, <1>5 DEF StreamOK
<1> QED BY <1>3, <1>6 DEF t

LEMMA ReceiveBatchStep ==
  ASSUME AckInv, ReceiveBatch
  PROVE  \A t \in stream' : StreamOK(t, outQ, batchSeq, counted')
<1> PICK s \in stream :
      /\ s.wire # <<>>
      /\ stream' = {[s EXCEPT !.received = s.received + 1,
                              !.wire = Tail(s.wire),
                              !.acks = Append(s.acks, s.received + 1)]}
      /\ counted' = counted \cup Head(s.wire).messages
  BY DEF ReceiveBatch
<1> DEFINE t == [s EXCEPT !.received = s.received + 1, !.wire = Tail(s.wire),
                          !.acks = Append(s.acks, s.received + 1)]
<1>1. s \in Streams /\ StreamOK(s, outQ, batchSeq, counted)
  BY DEF AckInv, TInv, TypeOK
<1>2. /\ s.wire \in Seq(Batches) /\ s.received \in Nat /\ s.acks \in Seq(Nat)
      /\ Len(s.wire) \in Nat \ {0}
  BY <1>1 DEF Streams
<1>3. /\ t.pending = s.pending /\ t.wire = Tail(s.wire)
      /\ t.received = s.received + 1 /\ t.acks = Append(s.acks, s.received + 1)
  BY <1>1 DEF Streams
<1> HIDE DEF t
<1>4. \A i \in DOMAIN t.acks : t.acks[i] <= t.received
  <2>1. /\ DOMAIN t.acks = 1..(Len(s.acks) + 1) /\ DOMAIN s.acks = 1..Len(s.acks)
        /\ Len(s.acks) \in Nat
        /\ \A i \in 1..Len(s.acks) : t.acks[i] = s.acks[i] /\ s.acks[i] \in Nat
        /\ t.acks[Len(s.acks) + 1] = s.received + 1
    BY <1>2, <1>3
  <2>2. \A i \in 1..Len(s.acks) : s.acks[i] <= s.received
    BY <1>1, <2>1 DEF StreamOK
  <2> QED BY <1>2, <1>3, <2>1, <2>2
<1>5. Ahead(t.wire, t.received)
  BY <1>1, <1>2, <1>3, AheadTail DEF StreamOK
<1>6. t.received + Len(t.wire) = s.received + Len(s.wire)
  <2>1. Len(Tail(s.wire)) = Len(s.wire) - 1
    BY <1>2
  <2> QED BY <1>2, <1>3, <2>1
<1>7. \A p \in t.pending : p \in Range(t.wire) \/ p.messages \subseteq counted'
  BY <1>1, <1>2, <1>3, RangeSteps DEF StreamOK
<1>8. StreamOK(t, outQ, batchSeq, counted')
  BY <1>1, <1>4, <1>5, <1>6, <1>7 DEF StreamOK
<1> QED BY <1>8 DEF t

LEMMA AckStep == AckInv /\ [Next]_vars => AckInv'
<1> SUFFICES ASSUME AckInv, [Next]_vars PROVE AckInv'
  OBVIOUS
<1>t. TInv' /\ TInv /\ SubInv /\ AckedIsCounted
  BY TypeStep DEF AckInv, TInv
\* Steps that leave queue, stream and counter alone and ack nothing readable.
<1>q. ASSUME NEW ms, DoneWithin(ms), ms \cap Readable = {},
             UNCHANGED <<outQ, batchSeq, stream, counted>>
      PROVE  AckInv'
  <2>1. AckedIsCounted'
    BY <1>t, <1>q, DoneStaysCounted
  <2> QED BY <1>t, <1>q, <2>1 DEF AckInv
<1>1. ASSUME NEW m \in Messages, Publish(m) PROVE AckInv'
  BY <1>1, <1>q, <1>t, LeaveInv DEF Publish
<1>2. ASSUME NEW m \in Messages, LeaseExpires(m) PROVE AckInv'
  BY <1>2, <1>q, <1>t, TakeBackInv DEF LeaseExpires
<1>3. ASSUME NEW m \in Messages, Receive(m) PROVE AckInv'
  <2>1. CASE m \in Readable
    <3>1. Deliver(m, {"out"})
      BY <1>3, <2>1 DEF Receive
    <3>2. {"out"} \in SUBSET {"done", "out"} /\ "done" \notin {"out"}
      OBVIOUS
    <3>3. DoneWithin({})
      BY <1>t, <3>1, <3>2, DeliverInv
    <3> QED BY <1>3, <3>3, <1>q DEF Receive
  <2>2. CASE m \notin Readable
    <3>1. DoneWithin({m})
      BY <1>3, <2>2, <1>t, DeliverInv DEF Receive
    <3> QED BY <1>3, <2>2, <3>1, <1>q DEF Receive
  <2> QED BY <2>1, <2>2
\* Steps that ack nothing at all.
<1>u. ASSUME UNCHANGED sub, counted \subseteq counted'
      PROVE  AckedIsCounted'
  BY <1>t, <1>u, SubUnchanged, DoneStaysCounted
<1>4. CASE Drain
  <2>1. AckedIsCounted'
    BY <1>4, <1>u DEF Drain
  <2> QED BY <1>4, <1>t, <2>1, DrainKeepsOrder DEF AckInv, Drain
<1>5. CASE OpenStream
  <2>1. AckedIsCounted'
    BY <1>5, <1>u DEF OpenStream
  <2>2. outQ \in Seq(Batches) /\ Len(outQ) \in Nat
    BY <1>t DEF TInv, TypeOK
  <2>3. StreamOK(NewStream, outQ, batchSeq, counted)
    BY <2>2 DEF AckInv, StreamOK, NewStream, Ahead
  <2> QED BY <1>5, <1>t, <2>1, <2>3 DEF AckInv, OpenStream
<1>6. CASE Send
  <2>1. AckedIsCounted'
    BY <1>6, <1>u DEF Send
  <2>2. outQ # <<>> /\ outQ' = Tail(outQ) /\ UNCHANGED <<batchSeq, counted>>
    BY <1>6 DEF Send
  <2> QED BY <1>6, <1>t, <2>1, <2>2, SendKeepsOrder, HeadLeaves DEF AckInv
<1>7. CASE OrphanTakes
  <2>1. AckedIsCounted'
    BY <1>7, <1>u DEF OrphanTakes
  <2>2. outQ # <<>> /\ outQ' = Tail(outQ) /\ UNCHANGED <<batchSeq, counted, stream>>
    BY <1>7 DEF OrphanTakes
  <2> QED BY <1>t, <2>1, <2>2, HeadLeaves DEF AckInv
<1>8. CASE TakeAck
  <2>1. UNCHANGED <<outQ, batchSeq, counted>>
    BY <1>8 DEF TakeAck
  <2> QED BY <1>8, <1>t, <2>1, TakeAckStep DEF AckInv
<1>9. CASE ReceiveBatch
  <2>1. UNCHANGED <<sub, outQ, batchSeq>> /\ counted \subseteq counted'
    BY <1>9 DEF ReceiveBatch
  <2> QED BY <1>9, <1>t, <1>u, <2>1, ReceiveBatchStep DEF AckInv
<1>10. CASE StreamDies
  <2>1. UNCHANGED <<sub, outQ, batchSeq, counted>> /\ stream' = {}
    BY <1>10 DEF StreamDies
  <2> QED BY <1>t, <1>u, <2>1 DEF AckInv
<1>11. CASE Start
  BY <1>11, <1>q, <1>t, SubUnchanged DEF Start
<1>12. CASE Stop
  <2>1. UNCHANGED <<sub, counted>> /\ stream' = {} /\ outQ' = <<>> /\ batchSeq' = 0
    BY <1>12 DEF Stop
  <2> QED BY <1>t, <1>u, <2>1 DEF AckInv, Ahead
<1>13. CASE UNCHANGED vars
  BY <1>13, <1>q, <1>t, SubUnchanged DEF vars
<1> QED
  BY <1>1, <1>2, <1>3, <1>4, <1>5, <1>6, <1>7, <1>8, <1>9, <1>10, <1>11, <1>12, <1>13
  DEF Next

\* A readable message is settled by an ack only if the receiver has recorded it.
THEOREM EgressAcksAreSafe == Spec => []AckedIsCounted
<1>1. Spec => []AckInv
  BY AckInit, AckStep, PTL DEF Spec
<1> QED BY <1>1, PTL DEF AckInv
=============================================================================
