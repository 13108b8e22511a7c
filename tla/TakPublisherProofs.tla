-------------------------- MODULE TakPublisherProofs --------------------------
(***************************************************************************)
(* What the TAK publisher keeps, for any number of messages and threads    *)
(* and any size of the dedup set.                                          *)
(***************************************************************************)
EXTENDS TakPublisher, SequenceTheorems, TLAPS

-----------------------------------------------------------------------------
(* Queues and the subscription *)

LEMMA QueueFacts ==
  ASSUME NEW S, NEW q \in Seq(S)
  PROVE  /\ Range(q) \subseteq S
         /\ q # <<>> => Head(q) \in S /\ Tail(q) \in Seq(S)
BY DEF Range

LEMMA RangeSteps ==
  ASSUME NEW S, NEW q \in Seq(S)
  PROVE  /\ \A b \in S : Range(Append(q, b)) = Range(q) \cup {b}
         /\ q # <<>> => Range(q) = {Head(q)} \cup Range(Tail(q))
<1>1. ASSUME NEW b \in S PROVE Range(Append(q, b)) = Range(q) \cup {b}
  <2>1. /\ DOMAIN Append(q, b) = 1..(Len(q) + 1) /\ DOMAIN q = 1..Len(q)
        /\ Len(q) \in Nat
        /\ \A i \in 1..Len(q) : Append(q, b)[i] = q[i]
        /\ Append(q, b)[Len(q) + 1] = b
    OBVIOUS
  <2>2. 1..(Len(q) + 1) = (1..Len(q)) \cup {Len(q) + 1}
    BY <2>1
  <2> DEFINE r == Append(q, b)
  <2> HIDE DEF r
  <2>3. DOMAIN r = DOMAIN q \cup {Len(q) + 1}
    BY <2>1, <2>2 DEF r
  <2>4. (\A i \in DOMAIN q : r[i] = q[i]) /\ r[Len(q) + 1] = b
    BY <2>1 DEF r
  <2>5. Range(r) = Range(q) \cup {b}
    BY <2>3, <2>4, Zenon DEF Range
  <2> QED BY <2>5 DEF r
<1>2. ASSUME q # <<>> PROVE Range(q) = {Head(q)} \cup Range(Tail(q))
  <2>1. /\ DOMAIN Tail(q) = 1..(Len(q) - 1) /\ Len(q) >= 1
        /\ \A i \in 1..(Len(q) - 1) : Tail(q)[i] = q[i + 1]
        /\ DOMAIN q = 1..Len(q) /\ Head(q) = q[1] /\ Len(q) \in Nat
    BY <1>2
  <2>2. ASSUME NEW x \in Range(q) PROVE x \in {Head(q)} \cup Range(Tail(q))
    <3>1. PICK i \in 1..Len(q) : x = q[i]
      BY <2>1 DEF Range
    <3>2. CASE i = 1
      BY <3>1, <3>2, <2>1
    <3>3. CASE i # 1
      <4>1. i - 1 \in DOMAIN Tail(q) /\ Tail(q)[i - 1] = x
        BY <3>1, <3>3, <2>1
      <4> QED BY <4>1, Zenon DEF Range
    <3> QED BY <3>2, <3>3
  <2>3. ASSUME NEW x \in {Head(q)} \cup Range(Tail(q)) PROVE x \in Range(q)
    <3>1. PICK i \in 1..Len(q) : x = q[i]
      BY <2>1 DEF Range
    <3> QED BY <3>1, <2>1 DEF Range
  <2> QED BY <2>2, <2>3
<1> QED BY <1>1, <1>2

\* A message that may still be delivered has attempts left.
SubInv ==
  /\ sub \in Subscriptions
  /\ \A m \in Messages : sub[m].phase \in {"new", "ready"} => sub[m].attempt < MaxAttempts

\* The messages that an operation acks are among ms.
DoneWithin(ms) ==
  \A m \in Messages : sub'[m].phase = "done" => sub[m].phase = "done" \/ m \in ms

LEMMA SubscriptionInitInv == SubscriptionInit => SubInv
BY AttemptsAssumption DEF SubscriptionInit, SubInv, Subscriptions

LEMMA LeaveInv ==
  ASSUME SubInv, NEW m \in Messages, Leave(m)
  PROVE  SubInv' /\ DoneWithin({})
BY DEF Leave, SubInv, Subscriptions, DoneWithin

LEMMA DeliverInv ==
  ASSUME SubInv, NEW m \in Messages, NEW phases \in SUBSET {"done", "out"},
         Deliver(m, phases)
  PROVE  /\ SubInv'
         /\ DoneWithin({m})
         /\ "done" \notin phases => DoneWithin({})
BY AttemptsAssumption DEF Deliver, SubInv, Subscriptions, DoneWithin

LEMMA TakeBackInv ==
  ASSUME SubInv, NEW m \in Messages, TakeBack(m)
  PROVE  SubInv' /\ DoneWithin({})
BY DEF TakeBack, SubInv, Subscriptions, DoneWithin

LEMMA AcknowledgeInv ==
  ASSUME SubInv, NEW ms \in SUBSET Messages, Acknowledge(ms)
  PROVE  SubInv' /\ DoneWithin(ms)
BY DEF Acknowledge, SubInv, Subscriptions, DoneWithin

\* The other messages stay as they are, and none is forgotten.
Changes(ms) ==
  /\ \A m \in Messages : m \notin ms => sub'[m] = sub[m]
  /\ \A m \in Messages : sub'[m].phase = "new" => sub[m].phase = "new"

LEMMA OneChanges ==
  ASSUME SubInv, NEW m \in Messages
  PROVE  /\ Leave(m) => Changes({m})
         /\ \A phases \in SUBSET {"done", "out"} : Deliver(m, phases) => Changes({m})
         /\ TakeBack(m) => Changes({m})
         /\ Acknowledge({m}) => Changes({m})
<1>1. Leave(m) => Changes({m})
  BY DEF Leave, SubInv, Subscriptions, Changes
<1>2. ASSUME NEW phases \in SUBSET {"done", "out"}, Deliver(m, phases)
      PROVE  Changes({m})
  BY <1>2 DEF Deliver, SubInv, Subscriptions, Changes
<1>3. TakeBack(m) => Changes({m})
  BY DEF TakeBack, SubInv, Subscriptions, Changes
<1>4. Acknowledge({m}) => Changes({m})
  BY DEF Acknowledge, SubInv, Subscriptions, Changes
<1> QED BY <1>1, <1>2, <1>3, <1>4

LEMMA RemoveAtFacts ==
  ASSUME NEW S, NEW q \in Seq(S), NEW i \in 1..Len(q)
  PROVE  /\ RemoveAt(q, i) \in Seq(S)
         /\ Len(RemoveAt(q, i)) = Len(q) - 1
         /\ \A j \in 1..(Len(q) - 1) :
              RemoveAt(q, i)[j] = IF j < i THEN q[j] ELSE q[j + 1]
<1> DEFINE a == SubSeq(q, 1, i - 1)
           b == SubSeq(q, i + 1, Len(q))
<1>1. Len(q) \in Nat /\ DOMAIN q = 1..Len(q)
  OBVIOUS
<1>2. /\ a \in Seq(S) /\ Len(a) = i - 1
      /\ \A j \in 1..(i - 1) : a[j] = q[j]
  BY <1>1
<1>3. /\ b \in Seq(S) /\ Len(b) = Len(q) - i
      /\ \A j \in 1..(Len(q) - i) : b[j] = q[j + i]
  <2>1. \A j \in (i + 1)..Len(q) : q[j] \in S
    BY <1>1
  <2>2. i + 1 \in Int /\ Len(q) \in Int
    BY <1>1
  <2> HIDE DEF b
  <2>3. /\ b \in Seq(S)
        /\ Len(b) = IF i + 1 <= Len(q) THEN Len(q) - (i + 1) + 1 ELSE 0
        /\ \A j \in 1..(Len(q) - (i + 1) + 1) : b[j] = q[(i + 1) + j - 1]
    BY <2>1, <2>2, SubSeqProperties DEF b
  <2>4. Len(b) = Len(q) - i
    BY <1>1, <2>3
  <2>5. ASSUME NEW j \in 1..(Len(q) - i) PROVE b[j] = q[j + i]
    <3>1. j \in 1..(Len(q) - (i + 1) + 1) /\ (i + 1) + j - 1 = j + i
      BY <1>1
    <3> QED BY <2>3, <3>1
  <2> QED BY <2>3, <2>4, <2>5
<1> HIDE DEF a, b
<1>4. /\ a \o b \in Seq(S) /\ Len(a \o b) = Len(q) - 1
  <2>1. /\ a \o b \in Seq(S) /\ Len(a \o b) = Len(a) + Len(b)
    BY <1>2, <1>3, ConcatProperties
  <2> QED BY <1>1, <1>2, <1>3, <2>1
<1>5. ASSUME NEW j \in 1..(Len(q) - 1)
      PROVE  (a \o b)[j] = IF j < i THEN q[j] ELSE q[j + 1]
  <2>0. Len(a) \in Nat /\ Len(b) \in Nat /\ j \in 1..(Len(a) + Len(b))
    BY <1>1, <1>2, <1>3
  <2>1. (a \o b)[j] = IF j <= Len(a) THEN a[j] ELSE b[j - Len(a)]
    BY <1>2, <1>3, <2>0, ConcatProperties
  <2>2. CASE j < i
    <3>1. j <= Len(a) /\ j \in 1..(i - 1)
      BY <1>1, <1>2, <2>2
    <3> QED BY <1>2, <2>1, <2>2, <3>1
  <2>3. CASE j >= i
    <3>1. j - (i - 1) \in 1..(Len(q) - i) /\ (j - (i - 1)) + i = j + 1 /\ ~(j <= i - 1)
      BY <1>1, <2>3
    <3> QED BY <1>2, <1>3, <2>1, <2>3, <3>1
  <2>4. j < i \/ j >= i
    BY <1>1
  <2> QED BY <2>2, <2>3, <2>4
<1> QED BY <1>4, <1>5 DEF RemoveAt, a, b

\* What touching an entry does to a set kept as a queue.
LEMMA TouchFacts ==
  ASSUME NEW S, NEW q \in Seq(S), IsInjective(q), NEW i \in DOMAIN q
  PROVE  LET r == Append(RemoveAt(q, i), q[i])
         IN  /\ r \in Seq(S) /\ Len(r) = Len(q)
             /\ IsInjective(r)
             /\ Range(r) \subseteq Range(q)
<1> DEFINE p == RemoveAt(q, i)
           r == Append(p, q[i])
           n == Len(q)
<1>1. n \in Nat /\ DOMAIN q = 1..n /\ i \in 1..n /\ q[i] \in S
  OBVIOUS
<1>2. /\ p \in Seq(S) /\ Len(p) = n - 1
      /\ \A j \in 1..(n - 1) : p[j] = IF j < i THEN q[j] ELSE q[j + 1]
  BY <1>1, RemoveAtFacts
<1> HIDE DEF p
<1>3. /\ r \in Seq(S) /\ Len(r) = n /\ DOMAIN r = 1..n
      /\ r[n] = q[i] /\ \A j \in 1..(n - 1) : r[j] = p[j]
  <2>1. (n - 1) + 1 = n
    BY <1>1
  <2> HIDE DEF n
  <2>2. /\ r \in Seq(S) /\ Len(r) = Len(p) + 1
        /\ r[Len(p) + 1] = q[i] /\ \A j \in 1..Len(p) : r[j] = p[j]
    BY <1>1, <1>2
  <2> HIDE DEF r
  <2> QED BY <1>2, <2>1, <2>2
<1> DEFINE at(j) == IF j = n THEN i ELSE IF j < i THEN j ELSE j + 1
<1> HIDE DEF r, n
<1>4. ASSUME NEW j \in 1..n PROVE at(j) \in 1..n /\ r[j] = q[at(j)]
  <2>1. CASE j = n
    BY <1>1, <1>3, <2>1
  <2>2. CASE j # n
    <3>1. j \in 1..(n - 1)
      BY <1>1, <2>2
    <3> QED BY <1>1, <1>2, <1>3, <2>2, <3>1
  <2> QED BY <2>1, <2>2
<1>5. ASSUME NEW j \in 1..n, NEW k \in 1..n, at(j) = at(k) PROVE j = k
  BY <1>1, <1>5
<1>6. IsInjective(r)
  <2> SUFFICES ASSUME NEW j \in DOMAIN r, NEW k \in DOMAIN r, r[j] = r[k] PROVE j = k
    BY DEF IsInjective
  <2>1. q[at(j)] = q[at(k)] /\ at(j) \in DOMAIN q /\ at(k) \in DOMAIN q
    BY <1>1, <1>3, <1>4
  <2>2. at(j) = at(k)
    BY <2>1 DEF IsInjective
  <2> QED BY <1>3, <1>5, <2>2
<1>7. Range(r) \subseteq Range(q)
  <2> SUFFICES ASSUME NEW j \in DOMAIN r PROVE r[j] \in Range(q)
    BY DEF Range
  <2>1. r[j] = q[at(j)] /\ at(j) \in DOMAIN q
    BY <1>1, <1>3, <1>4
  <2> QED BY <2>1 DEF Range
<1> QED BY <1>3, <1>6, <1>7 DEF r, p, n

\* What adding a key does to it, with an eviction or without.
LEMMA InsertFacts ==
  ASSUME NEW S, NEW q \in Seq(S), IsInjective(q), NEW k \in S, k \notin Range(q)
  PROVE  LET r == Append(q, k)
         IN  /\ r \in Seq(S) /\ Len(r) = Len(q) + 1
             /\ IsInjective(r)
             /\ Range(r) = Range(q) \cup {k}
             /\ Tail(r) \in Seq(S) /\ Len(Tail(r)) = Len(q)
             /\ IsInjective(Tail(r))
             /\ Range(Tail(r)) \subseteq Range(q) \cup {k}
<1> DEFINE r == Append(q, k)
           t == Tail(r)
           n == Len(q)
<1>1. /\ n \in Nat /\ DOMAIN q = 1..n
      /\ r \in Seq(S) /\ r # <<>> /\ Len(r) = n + 1 /\ DOMAIN r = 1..(n + 1)
      /\ r[n + 1] = k /\ \A j \in 1..n : r[j] = q[j]
  OBVIOUS
<1>2. Range(r) = Range(q) \cup {k}
  BY RangeSteps
<1> HIDE DEF r, n
<1>3. /\ t \in Seq(S) /\ Len(t) = n /\ DOMAIN t = 1..n
      /\ \A j \in 1..n : t[j] = r[j + 1]
  BY <1>1
<1> HIDE DEF t
<1>4. IsInjective(r)
  <2> SUFFICES ASSUME NEW i \in 1..(n + 1), NEW j \in 1..(n + 1), r[i] = r[j] PROVE i = j
    BY <1>1 DEF IsInjective
  <2>1. ASSUME NEW x \in 1..n PROVE r[x] # k
    <3>1. q[x] \in Range(q) /\ r[x] = q[x]
      BY <1>1, <2>1 DEF Range
    <3> QED BY <3>1
  <2>2. CASE i \in 1..n /\ j \in 1..n
    BY <1>1, <2>2 DEF IsInjective
  <2>3. CASE i = n + 1 \/ j = n + 1
    BY <1>1, <2>1, <2>3
  <2> QED BY <1>1, <2>2, <2>3
<1>5. IsInjective(t)
  <2> SUFFICES ASSUME NEW i \in 1..n, NEW j \in 1..n, t[i] = t[j] PROVE i = j
    BY <1>3 DEF IsInjective
  <2>1. i + 1 \in DOMAIN r /\ j + 1 \in DOMAIN r /\ r[i + 1] = r[j + 1]
    BY <1>1, <1>3
  <2>2. i + 1 = j + 1
    BY <1>4, <2>1 DEF IsInjective
  <2> QED BY <1>1, <2>2
<1>6. Range(t) \subseteq Range(r)
  <2> SUFFICES ASSUME NEW j \in 1..n PROVE t[j] \in Range(r)
    BY <1>3 DEF Range
  <2>1. j + 1 \in DOMAIN r /\ t[j] = r[j + 1]
    BY <1>1, <1>3
  <2> QED BY <2>1 DEF Range
<1> QED BY <1>1, <1>2, <1>3, <1>4, <1>5, <1>6 DEF r, t, n
-----------------------------------------------------------------------------
(* The invariant *)

\* It can be shown, and nothing excuses that it is not.
Pending(d) == d \in Located /\ d \notin written \cup disturbed

\* Only readable messages are held, and a pending one under a running lease.
HeldIsLeased ==
  \A h \in Held :
    /\ h.message \in Readable
    /\ Pending(Detection(h)) => Leased(h)

\* The dedup set knows a pending detection only while a delivery of it is held:
\* a later copy is acked on the strength of that one.
KnownIsHeld ==
  \A d \in Range(dedup) : Pending(d) => \E h \in Held : Detection(h) = d

OneSending == \A s, t \in sending : s = t

TakInv ==
  /\ TypeOK /\ SubInv
  /\ HeldIsLeased /\ KnownIsHeld /\ OneSending
  /\ NothingLost

\* Excuses are kept.
Grows == written \cup disturbed \subseteq (written \cup disturbed)'

LEMMA HeldKept ==
  ASSUME TakInv, Grows, NEW ms \in SUBSET Messages, Changes(ms),
         \A h \in Held' : h \notin Held => h.message \in Readable /\ Leased(h)',
         \A h \in Held' : h.message \in ms /\ Pending(Detection(h))' => Leased(h)'
  PROVE  HeldIsLeased'
<1> SUFFICES ASSUME NEW h \in Held' 
             PROVE  h.message \in Readable /\ (Pending(Detection(h))' => Leased(h)')
  BY DEF HeldIsLeased
<1>1. CASE h \in Held /\ h.message \notin ms
  <2>1. h.message \in Readable /\ (Pending(Detection(h)) => Leased(h))
    BY <1>1 DEF TakInv, HeldIsLeased
  <2>2. Pending(Detection(h))' => Pending(Detection(h))
    BY DEF Pending, Grows
  <2>3. sub'[h.message] = sub[h.message]
    BY <1>1, <2>1, MessageAssumption DEF Changes
  <2> QED BY <2>1, <2>2, <2>3 DEF Leased
<1>2. CASE h \in Held /\ h.message \in ms
  BY <1>2 DEF TakInv, HeldIsLeased
<1> QED BY <1>1, <1>2

LEMMA KnownKept ==
  ASSUME TakInv, Grows,
         \A h \in Held : Pending(Detection(h))' => h \in Held',
         \A d \in Range(dedup)' : d \notin Range(dedup) => \E h \in Held' : Detection(h) = d
  PROVE  KnownIsHeld'
<1> SUFFICES ASSUME NEW d \in Range(dedup)', Pending(d)'
             PROVE  \E h \in Held' : Detection(h) = d
  BY DEF KnownIsHeld
<1>1. CASE d \in Range(dedup)
  <2>1. Pending(d)
    BY DEF Pending, Grows
  <2>2. PICK h \in Held : Detection(h) = d
    BY <1>1, <2>1 DEF TakInv, KnownIsHeld
  <2> QED BY <2>2
<1> QED BY <1>1

LEMMA NothingLostKept ==
  ASSUME TakInv, Grows, SubInv', NEW ms \in SUBSET Messages, Changes(ms),
         \A m \in ms : m \in Readable /\ Pending(DetectionOf[m])' /\ sub'[m].phase = "done"
                         => \E k \in Copies(DetectionOf[m]) :
                              sub'[k].phase \notin {"new", "done"}
  PROVE  NothingLost'
<1> SUFFICES ASSUME NEW d \in Located, Settled(d)', Pending(d)' PROVE FALSE
  BY DEF NothingLost, Pending
<1>0. Copies(d) \subseteq Messages
  BY MessageAssumption DEF Copies
<1>1. PICK m \in Copies(d) : sub'[m].phase = "done"
  BY DEF Settled, Copies
<1>2. \A k \in Copies(d) : sub'[k].phase \in {"new", "done"}
  BY DEF Settled, Copies
<1>3. ASSUME NEW k \in Copies(d), k \in ms, sub'[k].phase = "done" PROVE FALSE
  <2>1. k \in Readable /\ DetectionOf[k] = d
    BY DEF Copies
  <2> QED BY <1>2, <1>3, <2>1
<1>4. m \notin ms /\ sub[m].phase = "done"
  BY <1>0, <1>1, <1>3 DEF Changes
<1>5. Pending(d)
  BY DEF Pending, Grows
<1>6. PICK k \in Copies(d) : sub[k].phase \notin {"new", "done"}
  BY <1>4, <1>5 DEF TakInv, NothingLost, Settled, Pending
<1>7. sub'[k].phase = "done"
  BY <1>0, <1>2, <1>6 DEF Changes
<1>8. k \in ms
  BY <1>0, <1>6, <1>7 DEF Changes
<1> QED BY <1>3, <1>7, <1>8
-----------------------------------------------------------------------------
(* Every action keeps it *)

LEMMA InitInv == Init => TakInv
<1> SUFFICES ASSUME Init PROVE TakInv
  OBVIOUS
<1>1. SubInv
  BY SubscriptionInitInv DEF Init
<1>2. Held = {} /\ Range(dedup) = {}
  BY DEF Init, Held, Range
<1>3. TypeOK
  <2>1. sub \in Subscriptions
    BY <1>1 DEF SubInv
  <2>2. Len(dedup) = 0 /\ IsInjective(dedup) /\ dedup \in Seq(Detections)
        /\ queue \in Seq(Deliveries) /\ Len(dedup) <= DedupSize
    BY SizeAssumption DEF Init, IsInjective
  <2>3. callback = {} /\ sending = {} /\ written = {} /\ disturbed = {}
        /\ running = FALSE /\ writer = FALSE
    BY DEF Init
  <2> QED BY <2>1, <2>2, <2>3 DEF TypeOK
<1>4. NothingLost
  BY MessageAssumption DEF Init, SubscriptionInit, NothingLost, Settled, Copies
<1> QED BY <1>1, <1>2, <1>3, <1>4
    DEF Init, TakInv, HeldIsLeased, KnownIsHeld, OneSending

LEMMA DeliveryTypes ==
  ASSUME TypeOK
  PROVE  /\ Held \subseteq Deliveries
         /\ \A h \in Held : h.message \in Messages /\ Detection(h) \in Detections
<1>1. Range(queue) \subseteq Deliveries
  BY QueueFacts DEF TypeOK
<1>2. Held \subseteq Deliveries
  BY <1>1 DEF TypeOK, Held
<1> QED BY <1>2, MessageAssumption DEF Deliveries, Detection

LEMMA PublishKeeps ==
  ASSUME TakInv, NEW m \in Messages, Publish(m)
  PROVE  TakInv'
<1>1. SubInv' /\ Changes({m}) /\ sub[m].phase = "new" /\ sub'[m].phase = "ready"
  BY LeaveInv, OneChanges DEF TakInv, Publish, Leave, SubInv, Subscriptions
<1>2. /\ Held' = Held /\ Grows
      /\ UNCHANGED <<running, callback, dedup, queue, sending, writer, written, disturbed>>
  BY DEF Publish, process, Held, Grows
<1>3. TypeOK'
  BY <1>1, <1>2 DEF TakInv, TypeOK, SubInv
<1>4. ASSUME NEW h \in Held', h.message \in {m}, Pending(Detection(h))' PROVE Leased(h)'
  BY <1>1, <1>2, <1>4 DEF TakInv, HeldIsLeased, Leased, Pending
<1>5. HeldIsLeased'
  BY <1>1, <1>2, <1>4, HeldKept
<1>6. KnownIsHeld'
  BY <1>2, KnownKept
<1>7. NothingLost'
  BY <1>1, <1>2, NothingLostKept
<1> QED BY <1>1, <1>2, <1>3, <1>5, <1>6, <1>7 DEF TakInv, OneSending

LEMMA LeaseExpiresKeeps ==
  ASSUME TakInv, NEW m \in Messages, LeaseExpires(m)
  PROVE  TakInv'
<1>1. SubInv' /\ Changes({m}) /\ sub'[m].phase \in {"ready", "dead"}
  BY TakeBackInv, OneChanges DEF TakInv, LeaseExpires, TakeBack, SubInv, Subscriptions
<1>2. /\ Held' = Held /\ Grows
      /\ UNCHANGED <<running, callback, dedup, queue, sending, writer, written>>
      /\ \A h \in Held : h.message = m => Detection(h) \in disturbed'
  BY DEF LeaseExpires, process, Held, Grows
<1>3. TypeOK'
  <2>1. disturbed' \subseteq Detections
    BY DeliveryTypes DEF LeaseExpires, TakInv, TypeOK
  <2> QED BY <1>1, <1>2, <2>1 DEF TakInv, TypeOK, SubInv
<1>4. ASSUME NEW h \in Held', h.message \in {m}, Pending(Detection(h))' PROVE Leased(h)'
  BY <1>2, <1>4 DEF Pending
<1>5. HeldIsLeased'
  BY <1>1, <1>2, <1>4, HeldKept
<1>6. KnownIsHeld'
  BY <1>2, KnownKept
<1>7. NothingLost'
  BY <1>1, <1>2, NothingLostKept
<1> QED BY <1>1, <1>2, <1>3, <1>5, <1>6, <1>7 DEF TakInv, OneSending

LEMMA TouchKeeps ==
  ASSUME TypeOK, NEW d, Touch(d)
  PROVE  /\ dedup' \in Seq(Detections) /\ Len(dedup') <= DedupSize /\ IsInjective(dedup')
         /\ Range(dedup)' \subseteq Range(dedup)
<1>1. PICK i \in DOMAIN dedup : dedup' = Append(RemoveAt(dedup, i), dedup[i])
  BY DEF Touch
<1>2. dedup \in Seq(Detections) /\ IsInjective(dedup) /\ Len(dedup) <= DedupSize
  BY DEF TypeOK
<1> QED BY <1>1, <1>2, TouchFacts

LEMMA InsertKeeps ==
  ASSUME TypeOK, NEW d \in Detections, Insert(d)
  PROVE  /\ dedup' \in Seq(Detections) /\ Len(dedup') <= DedupSize /\ IsInjective(dedup')
         /\ Range(dedup)' \subseteq Range(dedup) \cup {d}
<1>1. dedup \in Seq(Detections) /\ IsInjective(dedup) /\ Len(dedup) <= DedupSize
  BY DEF TypeOK
<1>2. CASE d \in Range(dedup)
  BY <1>1, <1>2 DEF Insert
<1>3. CASE d \notin Range(dedup) /\ Len(dedup) < DedupSize
  <2>1. dedup' = Append(dedup, d)
    BY <1>3 DEF Insert
  <2>2. Len(dedup) + 1 <= DedupSize
    BY <1>1, <1>3, SizeAssumption
  <2> QED BY <1>1, <1>3, <2>1, <2>2, InsertFacts
<1>4. CASE d \notin Range(dedup) /\ ~(Len(dedup) < DedupSize)
  <2>1. dedup' = Tail(Append(dedup, d))
    BY <1>4 DEF Insert
  <2> QED BY <1>1, <1>4, <2>1, InsertFacts
<1> QED BY <1>2, <1>3, <1>4

LEMMA ReceiveKeeps ==
  ASSUME TakInv, NEW m \in Messages, Receive(m)
  PROVE  TakInv'
<1>1. /\ SubInv' /\ Changes({m}) /\ sub[m].phase = "ready"
      /\ \A k \in Messages : k # m => sub'[k] = sub[k]
  <2>1. Deliver(m, {"done", "out"}) \/ Deliver(m, {"out"})
    BY DEF Receive
  <2>2. {"done", "out"} \in SUBSET {"done", "out"} /\ {"out"} \in SUBSET {"done", "out"}
    OBVIOUS
  <2>3. SubInv' /\ Changes({m}) /\ sub[m].phase = "ready"
    BY <2>1, <2>2, DeliverInv, OneChanges DEF TakInv, Deliver
  <2> QED BY <2>3 DEF Changes
<1>2. /\ UNCHANGED <<running, queue, sending, writer, written, disturbed>> /\ Grows
  BY DEF Receive, Grows
<1>3. ASSUME NEW h \in Held, h.message = m PROVE ~Pending(Detection(h))
  BY <1>1, <1>3 DEF TakInv, HeldIsLeased, Leased
<1>4. \A d : Pending(d)' = Pending(d)
  BY <1>2 DEF Pending
<1>5. CASE m \notin Readable /\ UNCHANGED <<dedup, callback>>
  <2>1. Held' = Held
    BY <1>2, <1>5 DEF Held
  <2>2. HeldIsLeased'
    BY <1>1, <1>2, <1>3, <1>4, <2>1, HeldKept
  <2>3. KnownIsHeld'
    BY <1>2, <1>5, <2>1, KnownKept
  <2>4. NothingLost'
    BY <1>1, <1>2, <1>5, NothingLostKept
  <2>5. TypeOK'
    BY <1>1, <1>2, <1>5 DEF TakInv, TypeOK, SubInv
  <2> QED BY <1>1, <1>2, <2>2, <2>3, <2>4, <2>5 DEF TakInv, OneSending
<1>6. CASE /\ m \in Readable /\ DetectionOf[m] \in Range(dedup)
           /\ Touch(DetectionOf[m]) /\ UNCHANGED callback
  <2>1. Held' = Held
    BY <1>2, <1>6 DEF Held
  <2>2. HeldIsLeased'
    BY <1>1, <1>2, <1>3, <1>4, <2>1, HeldKept
  <2>3. /\ dedup' \in Seq(Detections) /\ Len(dedup') <= DedupSize /\ IsInjective(dedup')
        /\ Range(dedup)' \subseteq Range(dedup)
    BY <1>6, TouchKeeps DEF TakInv
  <2>4. KnownIsHeld'
    BY <1>2, <2>1, <2>3, KnownKept
  <2>5. ASSUME Pending(DetectionOf[m])'
        PROVE  \E k \in Copies(DetectionOf[m]) : sub'[k].phase \notin {"new", "done"}
    <3>1. PICK h \in Held : Detection(h) = DetectionOf[m]
      BY <1>4, <1>6, <2>5 DEF TakInv, KnownIsHeld
    <3>2. h.message \in Readable /\ Leased(h)
      BY <1>4, <2>5, <3>1 DEF TakInv, HeldIsLeased
    <3>3. h.message \in Messages /\ h.message # m
      BY <1>3, <1>4, <2>5, <3>1, <3>2, MessageAssumption
    <3>4. sub'[h.message].phase = "out"
      BY <1>1, <3>2, <3>3 DEF Leased
    <3> QED BY <3>1, <3>2, <3>4 DEF Copies, Detection
  <2>6. NothingLost'
    BY <1>1, <1>2, <2>5, NothingLostKept
  <2>7. TypeOK'
    BY <1>1, <1>2, <1>6, <2>3 DEF TakInv, TypeOK, SubInv
  <2> QED BY <1>1, <1>2, <2>2, <2>4, <2>6, <2>7 DEF TakInv, OneSending
<1>7. CASE /\ m \in Readable /\ Deliver(m, {"out"})
           /\ callback' = callback \cup {Delivered(m)} /\ UNCHANGED dedup
  <2>0. PICK e : e = Delivered(m)
    OBVIOUS
  <2>1. Held' = Held \cup {e}
    BY <1>2, <1>7, <2>0 DEF Held
  <2>2. e \in Deliveries /\ e.message = m /\ Leased(e)'
    <3>1. sub'[m] = [phase |-> "out", attempt |-> sub[m].attempt + 1]
      BY <1>7 DEF Deliver, TakInv, SubInv, Subscriptions
    <3>2. sub[m].attempt + 1 \in 1..MaxAttempts
      BY <1>1, AttemptsAssumption DEF TakInv, SubInv, Subscriptions
    <3>3. e = [message |-> m, attempt |-> sub[m].attempt + 1]
      BY <2>0 DEF Delivered
    <3> QED BY <3>1, <3>2, <3>3 DEF Deliveries, Leased
  <2>3. HeldIsLeased'
    <3>1. \A h \in Held' : h \notin Held => h.message \in Readable /\ Leased(h)'
      BY <1>7, <2>1, <2>2
    <3>2. \A h \in Held' : h.message \in {m} /\ Pending(Detection(h))' => Leased(h)'
      BY <1>3, <1>4, <2>1, <2>2
    <3> QED BY <1>1, <1>2, <3>1, <3>2, HeldKept
  <2>4. KnownIsHeld'
    BY <1>2, <1>7, <2>1, KnownKept
  <2>5. sub'[m].phase = "out"
    BY <2>2 DEF Leased
  <2>6. NothingLost'
    BY <1>1, <1>2, <2>5, NothingLostKept
  <2>7. TypeOK'
    BY <1>1, <1>2, <1>7, <2>0, <2>2 DEF TakInv, TypeOK, SubInv
  <2> QED BY <1>1, <1>2, <2>3, <2>4, <2>6, <2>7 DEF TakInv, OneSending
<1> QED BY <1>5, <1>6, <1>7 DEF Receive

LEMMA EnqueueKeeps ==
  ASSUME TakInv, NEW c \in callback, Enqueue(c)
  PROVE  TakInv'
<1>1. /\ UNCHANGED <<sub, running, sending, writer, written, disturbed>> /\ Grows
      /\ SubInv' /\ Changes({})
  BY DEF Enqueue, Grows, TakInv, SubInv, Changes
<1>2. c \in Deliveries /\ Detection(c) \in Detections /\ c \in Held
  BY DeliveryTypes DEF TakInv, Held
<1>3. queue' \in Seq(Deliveries) /\ Range(queue)' = Range(queue) \cup {c}
  <2>1. queue' = Append(queue, c) /\ queue \in Seq(Deliveries)
    BY DEF Enqueue, TakInv, TypeOK
  <2> QED BY <1>2, <2>1, RangeSteps
<1>4. Held' = Held
  BY <1>1, <1>3 DEF Enqueue, Held
<1>5. /\ dedup' \in Seq(Detections) /\ Len(dedup') <= DedupSize /\ IsInjective(dedup')
      /\ Range(dedup)' \subseteq Range(dedup) \cup {Detection(c)}
  BY <1>2, InsertKeeps DEF Enqueue, TakInv
<1>6. TypeOK'
  BY <1>1, <1>3, <1>5 DEF Enqueue, TakInv, TypeOK
<1>7. HeldIsLeased'
  BY <1>1, <1>4, HeldKept
<1>8. KnownIsHeld'
  BY <1>1, <1>2, <1>4, <1>5, KnownKept
<1>9. NothingLost'
  BY <1>1, NothingLostKept
<1> QED BY <1>1, <1>6, <1>7, <1>8, <1>9 DEF TakInv, OneSending

LEMMA SkipUnlocatedKeeps ==
  ASSUME TakInv, SkipUnlocated
  PROVE  TakInv'
<1>0. PICK e : e = Head(queue)
  OBVIOUS
<1>1. /\ e \in Deliveries /\ queue' \in Seq(Deliveries)
      /\ Range(queue) = {e} \cup Range(queue')
  <2>1. queue \in Seq(Deliveries) /\ queue # <<>> /\ queue' = Tail(queue)
    BY DEF SkipUnlocated, TakInv, TypeOK
  <2> QED BY <1>0, <2>1, QueueFacts, RangeSteps
<1>2. Detection(e) \notin Located /\ Acknowledge({e.message})
  BY <1>0 DEF SkipUnlocated, Ack
<1>3. /\ UNCHANGED <<running, callback, dedup, sending, writer, written, disturbed>>
      /\ Grows
  BY DEF SkipUnlocated, Grows
<1>4. Held = Held' \cup {e}
  BY <1>1, <1>3 DEF Held
<1>5. e.message \in Messages /\ SubInv' /\ Changes({e.message})
  BY <1>1, <1>2, AcknowledgeInv, OneChanges DEF TakInv, Deliveries
<1>6. ASSUME NEW m \in Messages, m = e.message PROVE ~Pending(DetectionOf[m])'
  BY <1>2, <1>6 DEF Pending, Detection
<1>7. HeldIsLeased'
  <2>1. \A h \in Held' : h.message = e.message => ~Pending(Detection(h))'
    BY <1>5, <1>6 DEF Detection
  <2> QED BY <1>3, <1>4, <1>5, <2>1, HeldKept
<1>8. KnownIsHeld'
  <2>1. ~Pending(Detection(e))'
    BY <1>2 DEF Pending
  <2> QED BY <1>3, <1>4, <2>1, KnownKept
<1>9. NothingLost'
  BY <1>3, <1>5, <1>6, NothingLostKept
<1>10. TypeOK'
  BY <1>1, <1>3, <1>5 DEF TakInv, TypeOK, SubInv
<1> QED BY <1>3, <1>5, <1>7, <1>8, <1>9, <1>10 DEF TakInv, OneSending

LEMMA TakeKeeps ==
  ASSUME TakInv, Take
  PROVE  TakInv'
<1> DEFINE e == Head(queue)
<1>1. /\ e \in Deliveries /\ queue' \in Seq(Deliveries)
      /\ Range(queue) = {e} \cup Range(queue')
  <2>1. queue \in Seq(Deliveries) /\ queue # <<>> /\ queue' = Tail(queue)
    BY DEF Take, TakInv, TypeOK
  <2> QED BY <2>1, QueueFacts, RangeSteps
<1>2. sending = {} /\ sending' = {[delivery |-> e, writes |-> MaxWrites]}
  BY DEF Take
<1> HIDE DEF e
<1>3. /\ UNCHANGED <<sub, running, callback, dedup, writer, written, disturbed>>
      /\ Grows /\ SubInv' /\ Changes({})
  BY DEF Take, Grows, TakInv, SubInv, Changes
<1>4. Held' = Held
  BY <1>1, <1>2, <1>3 DEF Held
<1>5. HeldIsLeased' /\ KnownIsHeld' /\ NothingLost'
  BY <1>3, <1>4, HeldKept, KnownKept, NothingLostKept
<1>6. TypeOK' /\ OneSending'
  BY <1>1, <1>2, <1>3 DEF TakInv, TypeOK, OneSending, MaxWrites
<1> QED BY <1>3, <1>5, <1>6 DEF TakInv

LEMMA ReconnectKeeps ==
  ASSUME TakInv, Reconnect
  PROVE  TakInv'
<1>1. /\ UNCHANGED <<sub, running, callback, dedup, queue, sending, written, disturbed>>
      /\ Grows /\ SubInv' /\ Changes({}) /\ Held' = Held /\ writer' \in BOOLEAN
  BY DEF Reconnect, Grows, TakInv, SubInv, Changes, Held
<1>2. HeldIsLeased' /\ KnownIsHeld' /\ NothingLost'
  BY <1>1, HeldKept, KnownKept, NothingLostKept
<1> QED BY <1>1, <1>2 DEF TakInv, TypeOK, OneSending

\* The delivery being sent ends, and its detection is excused.
LEMMA SendEnds ==
  ASSUME TakInv, NEW s \in sending, sending' = {}, Grows,
         UNCHANGED <<running, callback, dedup, queue>>, writer' \in BOOLEAN,
         written' \subseteq Detections, disturbed' \subseteq Detections,
         SubInv', Changes({s.delivery.message}),
         ~Pending(Detection(s.delivery))'
  PROVE  TakInv'
<1>1. Held = Held' \cup {s.delivery}
  BY DEF TakInv, OneSending, Held
<1>2. s.delivery.message \in Messages /\ Detection(s.delivery) = DetectionOf[s.delivery.message]
  BY <1>1, DeliveryTypes DEF TakInv, Detection
<1>3. HeldIsLeased'
  <2>1. \A h \in Held' : h.message = s.delivery.message => ~Pending(Detection(h))'
    BY <1>2 DEF Detection
  <2> QED BY <1>1, <1>2, <2>1, HeldKept
<1>4. KnownIsHeld'
  BY <1>1, KnownKept
<1>5. NothingLost'
  BY <1>2, NothingLostKept
<1>6. TypeOK' /\ OneSending'
  BY DEF TakInv, TypeOK, SubInv, OneSending
<1> QED BY <1>3, <1>4, <1>5, <1>6 DEF TakInv

LEMMA WriteKeeps ==
  ASSUME TakInv, Write
  PROVE  TakInv'
<1>1. PICK s \in sending : /\ Acknowledge({s.delivery.message})
                           /\ written' = written \cup {Detection(s.delivery)}
  BY DEF Write, Ack
<1>2. /\ sending' = {} /\ UNCHANGED <<running, callback, dedup, queue, writer, disturbed>>
      /\ Grows
  BY <1>1 DEF Write, Grows
<1>3. s.delivery \in Held
  BY DEF Held
<1>4. s.delivery.message \in Messages /\ Detection(s.delivery) \in Detections
  BY <1>3, DeliveryTypes DEF TakInv
<1>5. SubInv' /\ Changes({s.delivery.message})
  BY <1>1, <1>4, AcknowledgeInv, OneChanges DEF TakInv
<1>6. writer' \in BOOLEAN /\ written' \subseteq Detections /\ disturbed' \subseteq Detections
  BY <1>1, <1>2, <1>4 DEF TakInv, TypeOK
<1>7. ~Pending(Detection(s.delivery))'
  BY <1>1 DEF Pending
<1> QED BY <1>2, <1>5, <1>6, <1>7, SendEnds

LEMMA WriteFailsKeeps ==
  ASSUME TakInv, WriteFails
  PROVE  TakInv'
<1>1. /\ writer' = FALSE /\ UNCHANGED <<running, callback, dedup, queue, written>>
  BY DEF WriteFails
<1>2. CASE \E s \in sending : /\ s.writes > 1
                              /\ sending' = {[s EXCEPT !.writes = @ - 1]}
                              /\ UNCHANGED <<sub, disturbed>>
  <2>1. PICK s \in sending : /\ s.writes > 1
                             /\ sending' = {[s EXCEPT !.writes = @ - 1]}
                             /\ UNCHANGED <<sub, disturbed>>
    BY <1>2
  <2>2. s \in [delivery : Deliveries, writes : 1..MaxWrites]
    BY DEF TakInv, TypeOK
  <2>3. PICK t : t = [s EXCEPT !.writes = @ - 1]
    OBVIOUS
  <2>4. t \in [delivery : Deliveries, writes : 1..MaxWrites] /\ t.delivery = s.delivery
    BY <2>1, <2>2, <2>3 DEF MaxWrites
  <2>5. sending = {s} /\ sending' = {t}
    BY <2>1, <2>3 DEF TakInv, OneSending
  <2>6. Held' = Held /\ Grows /\ SubInv' /\ Changes({})
    BY <1>1, <2>1, <2>4, <2>5 DEF Held, Grows, TakInv, SubInv, Changes
  <2>7. HeldIsLeased' /\ KnownIsHeld' /\ NothingLost'
    BY <1>1, <2>6, HeldKept, KnownKept, NothingLostKept
  <2> QED BY <1>1, <2>1, <2>4, <2>5, <2>6, <2>7 DEF TakInv, TypeOK, OneSending
<1>3. CASE \E s \in sending : /\ sending' = {} /\ Nack(s.delivery)
                              /\ disturbed' = disturbed \cup {Detection(s.delivery)}
  <2>1. PICK s \in sending : /\ sending' = {} /\ Nack(s.delivery)
                             /\ disturbed' = disturbed \cup {Detection(s.delivery)}
    BY <1>3
  <2>2. s.delivery \in Held
    BY DEF Held
  <2>3. s.delivery.message \in Messages /\ Detection(s.delivery) \in Detections
    BY <2>2, DeliveryTypes DEF TakInv
  <2>4. SubInv' /\ Changes({s.delivery.message})
    <3>1. CASE TakeBack(s.delivery.message)
      BY <2>3, <3>1, TakeBackInv, OneChanges DEF TakInv
    <3>2. CASE UNCHANGED sub
      BY <3>2 DEF TakInv, SubInv, Changes
    <3> QED BY <2>1, <3>1, <3>2 DEF Nack
  <2>5. /\ writer' \in BOOLEAN /\ Grows
        /\ written' \subseteq Detections /\ disturbed' \subseteq Detections
    BY <1>1, <2>1, <2>3 DEF TakInv, TypeOK, Grows
  <2>6. ~Pending(Detection(s.delivery))'
    BY <2>1 DEF Pending
  <2> QED BY <1>1, <2>1, <2>4, <2>5, <2>6, SendEnds
<1> QED BY <1>2, <1>3 DEF WriteFails

LEMMA ProcessKeeps ==
  ASSUME TakInv, Start \/ Stop \/ UNCHANGED vars
  PROVE  TakInv'
<1>1. /\ UNCHANGED <<sub, written, disturbed>>
      /\ Grows /\ SubInv' /\ Changes({})
  BY DEF Start, Stop, vars, Grows, TakInv, SubInv, Changes
<1>2. NothingLost'
  BY <1>1, NothingLostKept
<1>3. CASE Start \/ UNCHANGED vars
  <2>1. /\ UNCHANGED <<callback, dedup, queue, sending>> /\ Held' = Held
        /\ running' \in BOOLEAN /\ writer' \in BOOLEAN
    BY <1>3 DEF Start, vars, Held, TakInv, TypeOK
  <2>2. HeldIsLeased' /\ KnownIsHeld'
    BY <1>1, <2>1, HeldKept, KnownKept
  <2> QED BY <1>1, <1>2, <2>1, <2>2 DEF TakInv, TypeOK, OneSending
<1>4. CASE Stop
  <2>1. /\ running' = FALSE /\ writer' = FALSE
        /\ callback' = {} /\ dedup' = <<>> /\ queue' = <<>> /\ sending' = {}
    BY <1>4 DEF Stop
  <2>2. Held' = {} /\ Range(dedup)' = {}
    BY <2>1 DEF Held, Range
  <2>3. TypeOK'
    <3>1. Len(dedup') <= DedupSize /\ IsInjective(dedup') /\ dedup' \in Seq(Detections)
          /\ queue' \in Seq(Deliveries)
      BY <2>1, SizeAssumption DEF IsInjective
    <3> QED BY <1>1, <2>1, <3>1 DEF TakInv, TypeOK, SubInv
  <2> QED BY <1>1, <1>2, <2>1, <2>2, <2>3 DEF TakInv, HeldIsLeased, KnownIsHeld, OneSending
<1> QED BY <1>3, <1>4

LEMMA StepKeeps == TakInv /\ [Next]_vars => TakInv'
<1> SUFFICES ASSUME TakInv, [Next]_vars PROVE TakInv'
  OBVIOUS
<1>1. ASSUME NEW m \in Messages, Publish(m) \/ LeaseExpires(m) \/ Receive(m)
      PROVE  TakInv'
  BY <1>1, PublishKeeps, LeaseExpiresKeeps, ReceiveKeeps
<1>2. ASSUME NEW c \in callback, Enqueue(c) PROVE TakInv'
  BY <1>2, EnqueueKeeps
<1>3. CASE SkipUnlocated \/ Take \/ Reconnect \/ Write \/ WriteFails
  BY <1>3, SkipUnlocatedKeeps, TakeKeeps, ReconnectKeeps, WriteKeeps, WriteFailsKeeps
<1>4. CASE Start \/ Stop \/ UNCHANGED vars
  BY <1>4, ProcessKeeps
<1> QED BY <1>1, <1>2, <1>3, <1>4 DEF Next
-----------------------------------------------------------------------------
(* What holds of every behaviour *)

\* The types hold, and the dedup set keeps to its size and to one place for a
\* key, though threads check it and add to it without a lock.
THEOREM TakTypes == Spec => []TypeOK
<1>1. TakInv => TypeOK
  BY DEF TakInv
<1> QED BY InitInv, StepKeeps, <1>1, PTL DEF Spec

\* _on_message acks a duplicate at once: no copy of a detection is all acked
\* before the detection is written, unless a send of it failed or its lease ran
\* out here.
THEOREM NothingIsLost == Spec => []NothingLost
<1>1. TakInv => NothingLost
  BY DEF TakInv
<1> QED BY InitInv, StepKeeps, <1>1, PTL DEF Spec
=============================================================================
