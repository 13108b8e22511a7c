---------------------------- MODULE InferenceProofs ----------------------------
(***************************************************************************)
(* The types of Inference, that no worker alerts twice on one frame, and   *)
(* that mutes have their reason, for any number of workers, devices and    *)
(* frames.                                                                 *)
(***************************************************************************)
EXTENDS Inference, SequenceTheorems, FiniteSetTheorems, TLAPS

-----------------------------------------------------------------------------
(* Queues *)

LEMMA QueueFacts ==
  ASSUME NEW S, NEW q \in Seq(S)
  PROVE  /\ Range(q) \subseteq S
         /\ q # <<>> => Head(q) \in S /\ Tail(q) \in Seq(S)
BY DEF Range

LEMMA RangeSteps ==
  ASSUME NEW S, NEW q \in Seq(S)
  PROVE  /\ \A b \in S : Range(Append(q, b)) = Range(q) \cup {b}
         /\ q # <<>> => Range(q) = {Head(q)} \cup Range(Tail(q))
<1>1. ASSUME NEW b \in S PROVE Range(Append(q, b)) = Range(q) \cup {b}
  <2>1. /\ DOMAIN Append(q, b) = 1..(Len(q) + 1) /\ DOMAIN q = 1..Len(q)
        /\ Len(q) \in Nat
        /\ \A i \in 1..Len(q) : Append(q, b)[i] = q[i]
        /\ Append(q, b)[Len(q) + 1] = b
    OBVIOUS
  <2>2. 1..(Len(q) + 1) = (1..Len(q)) \cup {Len(q) + 1}
    BY <2>1
  <2> DEFINE r == Append(q, b)
  <2> HIDE DEF r
  <2>3. DOMAIN r = DOMAIN q \cup {Len(q) + 1}
    BY <2>1, <2>2 DEF r
  <2>4. (\A i \in DOMAIN q : r[i] = q[i]) /\ r[Len(q) + 1] = b
    BY <2>1 DEF r
  <2>5. Range(r) = Range(q) \cup {b}
    BY <2>3, <2>4, Zenon DEF Range
  <2> QED BY <2>5 DEF r
<1>2. ASSUME q # <<>> PROVE Range(q) = {Head(q)} \cup Range(Tail(q))
  <2>1. /\ DOMAIN Tail(q) = 1..(Len(q) - 1) /\ Len(q) >= 1
        /\ \A i \in 1..(Len(q) - 1) : Tail(q)[i] = q[i + 1]
        /\ DOMAIN q = 1..Len(q) /\ Head(q) = q[1] /\ Len(q) \in Nat
    BY <1>2
  <2>2. ASSUME NEW x \in Range(q) PROVE x \in {Head(q)} \cup Range(Tail(q))
    <3>1. PICK i \in 1..Len(q) : x = q[i]
      BY <2>1 DEF Range
    <3>2. CASE i = 1
      BY <3>1, <3>2, <2>1
    <3>3. CASE i # 1
      <4>1. i - 1 \in DOMAIN Tail(q) /\ Tail(q)[i - 1] = x
        BY <3>1, <3>3, <2>1
      <4> QED BY <4>1, Zenon DEF Range
    <3> QED BY <3>2, <3>3
  <2>3. ASSUME NEW x \in {Head(q)} \cup Range(Tail(q)) PROVE x \in Range(q)
    <3>1. PICK i \in 1..Len(q) : x = q[i]
      BY <2>1 DEF Range
    <3> QED BY <3>1, <2>1 DEF Range
  <2> QED BY <2>2, <2>3
<1> QED BY <1>1, <1>2

\* A queue without repetitions, its head taken off.
LEMMA HeadFacts ==
  ASSUME NEW S, NEW q \in Seq(S), q # <<>>, IsInjective(q)
  PROVE  /\ Head(q) \in Range(q) /\ Range(Tail(q)) \subseteq Range(q)
         /\ Head(q) \notin Range(Tail(q))
         /\ Tail(q) \in Seq(S) /\ IsInjective(Tail(q))
<1> DEFINE r == Tail(q)
<1>1. /\ DOMAIN r = 1..(Len(q) - 1) /\ Len(q) >= 1 /\ r \in Seq(S)
      /\ \A i \in 1..(Len(q) - 1) : r[i] = q[i + 1]
      /\ DOMAIN q = 1..Len(q) /\ Head(q) = q[1] /\ Len(q) \in Nat
  OBVIOUS
<1> HIDE DEF r
<1>2. Range(q) = {Head(q)} \cup Range(r)
  BY RangeSteps DEF r
<1>3. ASSUME NEW i \in 1..(Len(q) - 1) PROVE i + 1 \in 1..Len(q) /\ i + 1 # 1
  BY <1>1
<1>4. Head(q) \notin Range(r)
  <2> SUFFICES ASSUME NEW i \in 1..(Len(q) - 1), r[i] = q[1] PROVE FALSE
    BY <1>1 DEF Range
  <2>1. 1 \in 1..Len(q)
    BY <1>1
  <2> QED BY <1>1, <1>3, <2>1 DEF IsInjective
<1>5. IsInjective(r)
  <2> SUFFICES ASSUME NEW i \in 1..(Len(q) - 1), NEW j \in 1..(Len(q) - 1), r[i] = r[j]
               PROVE  i = j
    BY <1>1 DEF IsInjective
  <2>1. q[i + 1] = q[j + 1]
    BY <1>1
  <2>2. i + 1 = j + 1
    BY <1>1, <1>3, <2>1 DEF IsInjective
  <2> QED BY <2>2
<1> QED BY <1>1, <1>2, <1>4, <1>5 DEF r

LEMMA AppendFacts ==
  ASSUME NEW S, NEW q \in Seq(S), IsInjective(q), NEW e \in S, e \notin Range(q)
  PROVE  /\ Append(q, e) \in Seq(S) /\ IsInjective(Append(q, e))
         /\ Range(Append(q, e)) = Range(q) \cup {e}
<1> DEFINE r == Append(q, e)
<1>1. /\ r \in Seq(S) /\ DOMAIN r = 1..(Len(q) + 1) /\ DOMAIN q = 1..Len(q)
      /\ Len(q) \in Nat /\ r[Len(q) + 1] = e
      /\ \A i \in 1..Len(q) : r[i] = q[i]
  OBVIOUS
<1> HIDE DEF r
<1>2. \A i \in 1..Len(q) : q[i] \in Range(q)
  BY <1>1 DEF Range
<1>3. IsInjective(r)
  <2> SUFFICES ASSUME NEW i \in 1..(Len(q) + 1), NEW j \in 1..(Len(q) + 1), r[i] = r[j]
               PROVE  i = j
    BY <1>1 DEF IsInjective
  <2>1. CASE i \in 1..Len(q) /\ j \in 1..Len(q)
    BY <1>1, <2>1 DEF IsInjective
  <2>2. CASE i = Len(q) + 1 /\ j = Len(q) + 1
    BY <2>2
  <2>3. CASE i = Len(q) + 1 /\ j \in 1..Len(q)
    BY <1>1, <1>2, <2>3
  <2>4. CASE i \in 1..Len(q) /\ j = Len(q) + 1
    BY <1>1, <1>2, <2>4
  <2> QED BY <1>1, <2>1, <2>2, <2>3, <2>4
<1>4. Range(Append(q, e)) = Range(q) \cup {e}
  BY RangeSteps
<1> QED BY <1>1, <1>3, <1>4 DEF r

\* A queue without repetitions, cut in two.
LEMMA CutFacts ==
  ASSUME NEW S, NEW q \in Seq(S), IsInjective(q), NEW k \in 0..Len(q)
  PROVE  /\ SubSeq(q, 1, k) \in Seq(S) /\ IsInjective(SubSeq(q, 1, k))
         /\ Len(SubSeq(q, 1, k)) = k
         /\ SubSeq(q, k + 1, Len(q)) \in Seq(S)
         /\ IsInjective(SubSeq(q, k + 1, Len(q)))
         /\ Range(SubSeq(q, 1, k)) \subseteq Range(q)
         /\ Range(SubSeq(q, k + 1, Len(q))) \subseteq Range(q)
         /\ Range(SubSeq(q, 1, k)) \cap Range(SubSeq(q, k + 1, Len(q))) = {}
<1> DEFINE a == SubSeq(q, 1, k)
           b == SubSeq(q, k + 1, Len(q))
<1>1. Len(q) \in Nat /\ DOMAIN q = 1..Len(q) /\ k \in Nat /\ k <= Len(q)
  OBVIOUS
<1>2. /\ a \in Seq(S) /\ Len(a) = k /\ DOMAIN a = 1..k
      /\ \A i \in 1..k : a[i] = q[i]
  BY <1>1
<1> HIDE DEF b
<1>3. /\ b \in Seq(S) /\ Len(b) = Len(q) - k /\ DOMAIN b = 1..(Len(q) - k)
      /\ \A i \in 1..(Len(q) - k) : b[i] = q[k + i]
  <2>1. \A i \in (k + 1)..Len(q) : q[i] \in S
    BY <1>1
  <2>2. k + 1 \in Int /\ Len(q) \in Int
    BY <1>1
  <2>3. /\ b \in Seq(S)
        /\ Len(b) = IF k + 1 <= Len(q) THEN Len(q) - (k + 1) + 1 ELSE 0
        /\ \A i \in 1..(Len(q) - (k + 1) + 1) : b[i] = q[(k + 1) + i - 1]
    BY <2>1, <2>2, SubSeqProperties DEF b
  <2>4. Len(b) = Len(q) - k
    <3>1. CASE k + 1 <= Len(q)
      <4>1. Len(b) = Len(q) - (k + 1) + 1
        BY <2>3, <3>1
      <4> QED BY <1>1, <4>1
    <3>2. CASE ~(k + 1 <= Len(q))
      <4>1. Len(b) = 0
        BY <2>3, <3>2
      <4>2. \A i, n \in Nat : i <= n /\ ~(i + 1 <= n) => n - i = 0
        OBVIOUS
      <4>3. Len(q) - k = 0
        BY <1>1, <3>2, <4>2
      <4> QED BY <4>1, <4>3
    <3> QED BY <3>1, <3>2
  <2>5. ASSUME NEW i \in 1..(Len(q) - k) PROVE b[i] = q[k + i]
    <3>1. i \in 1..(Len(q) - (k + 1) + 1) /\ (k + 1) + i - 1 = k + i
      BY <1>1
    <3> QED BY <2>3, <3>1
  <2> QED BY <2>3, <2>4, <2>5
<1> HIDE DEF a
<1>4. ASSUME NEW i \in 1..k PROVE i \in 1..Len(q)
  BY <1>1
<1>5. ASSUME NEW i \in 1..(Len(q) - k) PROVE k + i \in 1..Len(q) /\ k + i \notin 1..k
  BY <1>1
<1>6. IsInjective(a)
  BY <1>1, <1>2, <1>4 DEF IsInjective
<1>7. IsInjective(b)
  <2> SUFFICES ASSUME NEW i \in 1..(Len(q) - k), NEW j \in 1..(Len(q) - k), b[i] = b[j]
               PROVE  i = j
    BY <1>3 DEF IsInjective
  <2>1. k + i = k + j
    BY <1>1, <1>3, <1>5 DEF IsInjective
  <2> QED BY <1>1, <2>1
<1>8. Range(a) \subseteq Range(q)
  BY <1>1, <1>2, <1>4 DEF Range
<1>9. Range(b) \subseteq Range(q)
  BY <1>1, <1>3, <1>5 DEF Range
<1>10. Range(a) \cap Range(b) = {}
  <2> SUFFICES ASSUME NEW i \in 1..k, NEW j \in 1..(Len(q) - k), a[i] = b[j] PROVE FALSE
    BY <1>2, <1>3 DEF Range
  <2>1. q[i] = q[k + j] /\ i # k + j
    BY <1>2, <1>3, <1>5
  <2> QED BY <1>1, <1>4, <1>5, <2>1 DEF IsInjective
<1> QED BY <1>2, <1>3, <1>6, <1>7, <1>8, <1>9, <1>10 DEF a, b

\* A worker holds a batch just when it works on one.
TInv ==
  /\ TypeOK
  /\ \A w \in Workers : worker[w].phase \in {"read", "hung"} <=> worker[w].batch = <<>>

-----------------------------------------------------------------------------
(* The window of a device *)

LEMMA EmptyFacts == Range(<<>>) = {} /\ IsInjective(<<>>)
BY DEF Range, IsInjective

LEMMA PushedFacts ==
  ASSUME NEW window \in Seq(Frames), Len(window) <= BufferSize, NEW f \in Frames
  PROVE  /\ Pushed(window, f) \in Seq(Frames)
         /\ Len(Pushed(window, f)) <= BufferSize
         /\ Range(Pushed(window, f)) \subseteq {f} \cup Range(window)
<1> DEFINE q == <<f>> \o window
           n == IF Len(window) < BufferSize THEN Len(window) + 1 ELSE BufferSize
           r == SubSeq(q, 1, n)
<1>1. BufferSize \in Nat \ {0} /\ Len(window) \in Nat
  BY LimitAssumption
<1>2. /\ q \in Seq(Frames) /\ Len(q) = Len(window) + 1 /\ DOMAIN window = 1..Len(window)
      /\ q[1] = f /\ \A i \in 2..(Len(window) + 1) : q[i] = window[i - 1]
  OBVIOUS
<1>3. n \in Nat /\ n <= Len(window) + 1 /\ n <= BufferSize
  BY <1>1
<1> HIDE DEF q, n
<1>4. /\ r \in Seq(Frames) /\ Len(r) = n /\ DOMAIN r = 1..n
      /\ \A i \in 1..n : r[i] = q[i]
  BY <1>2, <1>3
<1> HIDE DEF r
<1>5. ASSUME NEW i \in 1..n PROVE r[i] \in {f} \cup Range(window)
  <2>1. CASE i = 1
    BY <1>2, <1>4, <2>1
  <2>2. CASE i # 1
    <3>1. i \in 2..(Len(window) + 1) /\ i - 1 \in DOMAIN window
      BY <1>1, <1>2, <1>3, <2>2
    <3>2. window[i - 1] \in Range(window)
      BY <3>1, Zenon DEF Range
    <3> QED BY <1>2, <1>4, <3>1, <3>2
  <2> QED BY <2>1, <2>2
<1>6. Range(r) \subseteq {f} \cup Range(window)
  BY <1>4, <1>5 DEF Range
<1>7. Pushed(window, f) = r
  BY DEF Pushed, r, q, n
<1> QED BY <1>3, <1>4, <1>6, <1>7

LEMMA VerdictFacts ==
  ASSUME NEW window \in Seq(Frames)
  PROVE  /\ Verdict(window).phase \in {"check", "report", "ack"}
         /\ Verdict(window).evidence \in SUBSET Frames
         /\ Verdict(window).evidence \subseteq Range(window)
         /\ Verdict(window).reason \in Reasons
         /\ Verdict(window).phase = "report" => Verdict(window).reason # ""
<1>1. Range(window) \subseteq Frames
  BY QueueFacts
<1> QED BY <1>1 DEF Verdict, Reasons

-----------------------------------------------------------------------------
(* What becomes of a worker *)

LEMMA IdleType == Idle \in Processes
BY DEF Idle, Processes, Reasons

LEMMA NextFrameFacts ==
  ASSUME TInv, NEW w \in Workers, worker[w].batch # <<>>, NextFrame(w)
  PROVE  /\ worker' \in [Workers -> Processes]
         /\ \A v \in Workers \ {w} : worker'[v] = worker[v]
         /\ worker'[w].batch = Tail(worker[w].batch)
         /\ worker'[w].phase \in {"read", "score"}
         /\ worker'[w].phase = "read" <=> Tail(worker[w].batch) = <<>>
         /\ worker'[w].evidence = {}
<1> DEFINE rest == Tail(worker[w].batch)
<1>1. worker \in [Workers -> Processes] /\ worker[w].batch \in Seq(Frames)
  BY DEF TInv, TypeOK, Processes
<1>2. rest \in Seq(Frames)
  BY <1>1
<1> DEFINE next == [Idle EXCEPT !.batch = rest,
                                !.phase = IF rest = <<>> THEN "read" ELSE "score"]
<1>3. worker' = [worker EXCEPT ![w] = next]
  BY DEF NextFrame
<1> HIDE DEF rest
<1>4. /\ next \in Processes /\ next.batch = rest /\ next.evidence = {}
      /\ next.phase \in {"read", "score"}
      /\ next.phase = "read" <=> rest = <<>>
  BY <1>2 DEF Idle, Processes, Reasons
<1> HIDE DEF next
<1> QED BY <1>1, <1>3, <1>4 DEF rest

LEMMA StandFacts ==
  ASSUME TInv, NEW w \in Workers, NEW v, Stand(w, v),
         v.phase \in {"check", "record", "mark", "report", "ack"},
         v.evidence \in SUBSET Frames, v.reason \in Reasons
  PROVE  /\ worker' \in [Workers -> Processes]
         /\ \A u \in Workers \ {w} : worker'[u] = worker[u]
         /\ worker'[w].batch = worker[w].batch
         /\ worker'[w].phase = v.phase
         /\ worker'[w].evidence = v.evidence
         /\ worker'[w].reason = v.reason
BY DEF TInv, TypeOK, Stand, Processes

LEMMA GoFacts ==
  ASSUME TInv, NEW w \in Workers, NEW phase \in {"record", "report"}, Go(w, phase)
  PROVE  /\ worker' \in [Workers -> Processes]
         /\ \A u \in Workers \ {w} : worker'[u] = worker[u]
         /\ worker'[w] = [worker[w] EXCEPT !.phase = phase]
         /\ worker'[w].batch = worker[w].batch
         /\ worker'[w].phase = phase
         /\ worker'[w].evidence = worker[w].evidence
         /\ worker'[w].reason = worker[w].reason
BY DEF TInv, TypeOK, Go, Processes

LEMMA StopsFacts ==
  ASSUME TInv, NEW w \in Workers, NEW p \in {"read", "hung"}, Stops(w, p)
  PROVE  /\ worker' \in [Workers -> Processes]
         /\ \A v \in Workers \ {w} : worker'[v] = worker[v]
         /\ worker'[w].batch = <<>>
         /\ worker'[w].phase = p
         /\ worker'[w].evidence = {}
<1> DEFINE next == [Idle EXCEPT !.phase = p]
<1>1. worker \in [Workers -> Processes] /\ worker' = [worker EXCEPT ![w] = next]
  BY DEF TInv, TypeOK, Stops
<1>2. /\ next.batch = Idle.batch /\ next.evidence = Idle.evidence /\ next.phase = p
      /\ next \in Processes
  BY IdleType DEF Processes
<1>3. Idle.batch = <<>> /\ Idle.evidence = {}
  BY DEF Idle
<1> HIDE DEF next
<1> QED BY <1>1, <1>2, <1>3

-----------------------------------------------------------------------------
(* Types *)

LEMMA TypeInit == Init => TInv
<1> SUFFICES ASSUME Init PROVE TInv
  OBVIOUS
<1>1. worker \in [Workers -> Processes]
  BY IdleType DEF Init
<1>2. \A w \in Workers : worker[w].phase = "read" /\ worker[w].batch = <<>>
  BY DEF Init, Idle
<1>3. scores \in [Devices -> Seq(Frames)] /\ \A d \in Devices : Len(scores[d]) <= BufferSize
  BY LimitAssumption DEF Init
<1> QED BY <1>1, <1>2, <1>3 DEF Init, TInv, TypeOK

\* What a worker is at, in a phase between reading and hanging.
LEMMA BusyFacts ==
  ASSUME TInv, NEW w \in Workers, worker[w].phase \notin {"read", "hung"}
  PROVE  /\ worker[w].batch \in Seq(Frames) /\ worker[w].batch # <<>>
         /\ Frame(w) \in Frames /\ Device(w) \in Devices
         /\ worker[w].evidence \in SUBSET Frames /\ worker[w].reason \in Reasons
<1>1. /\ worker[w].batch \in Seq(Frames) /\ worker[w].batch # <<>>
      /\ worker[w].evidence \in SUBSET Frames /\ worker[w].reason \in Reasons
  BY DEF TInv, TypeOK, Processes
<1>2. Frame(w) \in Frames
  BY <1>1, QueueFacts DEF Frame
<1> QED BY <1>1, <1>2, FrameAssumption DEF Device

\* A step that touches the worker w only keeps the types, if it keeps those of w.
LEMMA WorkerTypes ==
  ASSUME TInv, NEW w \in Workers,
         worker' \in [Workers -> Processes],
         \A v \in Workers \ {w} : worker'[v] = worker[v],
         worker'[w].phase \in {"read", "hung"} <=> worker'[w].batch = <<>>
  PROVE  \A v \in Workers :
           worker'[v].phase \in {"read", "hung"} <=> worker'[v].batch = <<>>
BY DEF TInv

LEMMA ArriveTypes ==
  ASSUME TInv, NEW f \in Frames, Arrive(f)
  PROVE  TInv'
<1>1. stream' \in Seq(Frames)
  <2>1. CASE stream' = Append(stream, f)
    BY <2>1 DEF TInv, TypeOK
  <2>2. CASE Len(stream) >= StreamMax /\ stream' = Append(Tail(stream), f)
    <3>1. stream # <<>>
      BY <2>2, LimitAssumption
    <3> QED BY <2>2, <3>1 DEF TInv, TypeOK
  <2> QED BY <2>1, <2>2 DEF Arrive
<1>2. entry' \in [Frames -> {"new", "stream", "pending", "acked", "trimmed"}]
  BY DEF Arrive, TInv, TypeOK
<1> QED BY <1>1, <1>2 DEF Arrive, TInv, TypeOK

LEMMA BatchFacts ==
  ASSUME TInv, stream # <<>>
  PROVE  /\ BatchLength \in 0..Len(stream) /\ BatchLength >= 1
         /\ SubSeq(stream, 1, BatchLength) \in Seq(Frames)
         /\ SubSeq(stream, 1, BatchLength) # <<>>
         /\ SubSeq(stream, BatchLength + 1, Len(stream)) \in Seq(Frames)
<1>1. stream \in Seq(Frames) /\ Len(stream) \in Nat /\ Len(stream) >= 1
  BY DEF TInv, TypeOK
<1>2. BatchLength \in Nat /\ BatchLength <= Len(stream) /\ BatchLength >= 1
  BY <1>1, LimitAssumption DEF BatchLength
<1>3. PICK k \in 1..Len(stream) : k = BatchLength
  BY <1>1, <1>2
<1>4. SubSeq(stream, 1, k) \in Seq(Frames) /\ Len(SubSeq(stream, 1, k)) = k
  BY <1>1
<1>5. SubSeq(stream, k + 1, Len(stream)) \in Seq(Frames)
  BY <1>1
<1>6. SubSeq(stream, 1, k) # <<>>
  BY <1>4
<1> QED BY <1>1, <1>2, <1>3, <1>4, <1>5, <1>6

LEMMA ReadTypes ==
  ASSUME TInv, NEW w \in Workers, Read(w)
  PROVE  TInv'
<1> DEFINE batch == SubSeq(stream, 1, BatchLength)
           next  == [Idle EXCEPT !.phase = "score", !.batch = batch]
<1>1. stream # <<>> /\ worker \in [Workers -> Processes]
  BY DEF Read, TInv, TypeOK
<1>2. /\ batch \in Seq(Frames) /\ batch # <<>>
      /\ stream' \in Seq(Frames)
  BY <1>1, BatchFacts DEF Read
<1>3. /\ worker' = [worker EXCEPT ![w] = next]
      /\ entry' = [f \in Frames |-> IF f \in Range(batch) THEN "pending" ELSE entry[f]]
  BY DEF Read
<1> HIDE DEF batch
<1>4. next \in Processes /\ next.phase = "score" /\ next.batch = batch
  BY <1>2 DEF Idle, Processes, Reasons
<1> HIDE DEF next
<1>5. entry' \in [Frames -> {"new", "stream", "pending", "acked", "trimmed"}]
  BY <1>3 DEF TInv, TypeOK
<1>6. /\ worker' \in [Workers -> Processes]
      /\ \A v \in Workers \ {w} : worker'[v] = worker[v]
      /\ worker'[w].phase = "score" /\ worker'[w].batch = batch
  BY <1>1, <1>3, <1>4
<1>7. \A v \in Workers :
        worker'[v].phase \in {"read", "hung"} <=> worker'[v].batch = <<>>
  BY <1>2, <1>6, WorkerTypes
<1> QED BY <1>2, <1>5, <1>6, <1>7 DEF Read, TInv, TypeOK

LEMMA NextFrameTypes ==
  ASSUME TInv, NEW w \in Workers, worker[w].phase \notin {"read", "hung"}, NextFrame(w),
         entry' = entry \/ entry' = [entry EXCEPT ![Frame(w)] = "acked"],
         UNCHANGED <<stream, scores, cooldown, fires, reported, fired>>
  PROVE  TInv'
<1>1. worker[w].batch # <<>>
  BY BusyFacts
<1>2. /\ worker' \in [Workers -> Processes]
      /\ \A v \in Workers \ {w} : worker'[v] = worker[v]
      /\ worker'[w].phase \in {"read", "hung"} <=> worker'[w].batch = <<>>
  BY <1>1, NextFrameFacts
<1>3. \A v \in Workers :
        worker'[v].phase \in {"read", "hung"} <=> worker'[v].batch = <<>>
  BY <1>2, WorkerTypes
<1>4. entry' \in [Frames -> {"new", "stream", "pending", "acked", "trimmed"}]
  BY DEF TInv, TypeOK
<1> QED BY <1>2, <1>3, <1>4 DEF TInv, TypeOK

LEMMA StopsTypes ==
  ASSUME TInv, NEW w \in Workers, NEW p \in {"read", "hung"}, Stops(w, p)
  PROVE  TInv'
<1>1. /\ worker' \in [Workers -> Processes]
      /\ \A v \in Workers \ {w} : worker'[v] = worker[v]
      /\ worker'[w].phase \in {"read", "hung"} <=> worker'[w].batch = <<>>
  BY StopsFacts
<1>2. \A v \in Workers :
        worker'[v].phase \in {"read", "hung"} <=> worker'[v].batch = <<>>
  BY <1>1, WorkerTypes
<1> QED BY <1>1, <1>2 DEF Stops, TInv, TypeOK

\* What Score does to the window of the device and to the worker.
LEMMA ScoreFacts ==
  ASSUME TInv, NEW w \in Workers, Score(w)
  PROVE  /\ worker' \in [Workers -> Processes]
         /\ \A v \in Workers \ {w} : worker'[v] = worker[v]
         /\ worker'[w].batch = worker[w].batch
         /\ worker'[w].phase \in {"check", "report", "ack"}
         /\ worker'[w].phase = "report" => worker'[w].reason # ""
         /\ worker'[w].evidence \subseteq Range(scores'[Device(w)])
         /\ scores'[Device(w)] \in Seq(Frames) /\ Len(scores'[Device(w)]) <= BufferSize
         /\ Range(scores'[Device(w)]) \subseteq {Frame(w)} \cup Range(scores[Device(w)])
         /\ scores' = [scores EXCEPT ![Device(w)] = scores'[Device(w)]]
<1>1. worker[w].phase \notin {"read", "hung"}
  BY DEF Score, At
<1>2. Frame(w) \in Frames /\ Device(w) \in Devices
  BY <1>1, BusyFacts
<1>3. scores[Device(w)] \in Seq(Frames) /\ Len(scores[Device(w)]) <= BufferSize
  BY <1>2 DEF TInv, TypeOK
<1> DEFINE window == Pushed(scores[Device(w)], Frame(w))
<1>4. /\ window \in Seq(Frames) /\ Len(window) <= BufferSize
      /\ Range(window) \subseteq {Frame(w)} \cup Range(scores[Device(w)])
  BY <1>2, <1>3, PushedFacts
<1>5. scores' = [scores EXCEPT ![Device(w)] = window] /\ Stand(w, Verdict(window))
  BY DEF Score
<1> HIDE DEF window
<1>6. scores'[Device(w)] = window
  BY <1>2, <1>5 DEF TInv, TypeOK
<1>7. /\ Verdict(window).phase \in {"check", "report", "ack"}
      /\ Verdict(window).evidence \in SUBSET Frames
      /\ Verdict(window).evidence \subseteq Range(window)
      /\ Verdict(window).reason \in Reasons
      /\ Verdict(window).phase = "report" => Verdict(window).reason # ""
  BY <1>4, VerdictFacts
<1>8. /\ worker' \in [Workers -> Processes]
      /\ \A v \in Workers \ {w} : worker'[v] = worker[v]
      /\ worker'[w].batch = worker[w].batch
      /\ worker'[w].phase = Verdict(window).phase
      /\ worker'[w].evidence = Verdict(window).evidence
      /\ worker'[w].reason = Verdict(window).reason
  BY <1>5, <1>7, StandFacts
<1> QED BY <1>4, <1>5, <1>6, <1>7, <1>8

\* What the handler does to the worker after the score.
LEMMA HandlerFacts ==
  ASSUME TInv, NEW w \in Workers,
         CheckCooldown(w) \/ RecordFire(w) \/ MarkSuppressed(w) \/ Report(w)
  PROVE  /\ worker[w].phase \notin {"read", "score", "hung"}
         /\ worker' \in [Workers -> Processes]
         /\ \A v \in Workers \ {w} : worker'[v] = worker[v]
         /\ worker'[w].batch = worker[w].batch
         /\ worker'[w].phase \in {"record", "mark", "report", "ack"}
         /\ CheckCooldown(w) =>
              ~(worker'[w].phase = "report" /\ worker'[w].reason = "")
         /\ RecordFire(w) => worker'[w].phase = "mark"
         /\ Report(w) => worker'[w].phase = "ack" /\ worker'[w].evidence = {}
         /\ ~Report(w) => worker'[w].evidence = worker[w].evidence
<1>1. worker[w].phase \notin {"read", "score", "hung"}
  BY DEF CheckCooldown, RecordFire, MarkSuppressed, Report, At
<1>2. worker[w].evidence \in SUBSET Frames /\ worker[w].reason \in Reasons
  BY <1>1, BusyFacts
<1> DEFINE Facts == /\ worker' \in [Workers -> Processes]
                    /\ \A v \in Workers \ {w} : worker'[v] = worker[v]
                    /\ worker'[w].batch = worker[w].batch
<1>3. ASSUME CheckCooldown(w)
      PROVE  /\ Facts /\ worker'[w].evidence = worker[w].evidence
             /\ worker'[w].phase \in {"record", "report"}
             /\ ~(worker'[w].phase = "report" /\ worker'[w].reason = "")
  <2>1. CASE Go(w, "record")
    <3>1. "record" \in {"record", "report"}
      OBVIOUS
    <3> QED BY <2>1, <3>1, GoFacts
  <2>2. CASE Stand(w, [worker[w] EXCEPT !.phase = "report", !.reason = "cooldown"])
    <3> DEFINE v == [worker[w] EXCEPT !.phase = "report", !.reason = "cooldown"]
    <3>1. worker[w] \in Processes
      BY DEF TInv, TypeOK
    <3>2. v.phase = "report" /\ v.reason = "cooldown" /\ v.evidence = worker[w].evidence
      BY <3>1 DEF Processes
    <3>3. Stand(w, v)
      BY <2>2
    <3> HIDE DEF v
    <3>4. v.reason \in Reasons
      BY <3>2 DEF Reasons
    <3> QED BY <1>2, <3>2, <3>3, <3>4, StandFacts
  <2> QED BY <1>3, <2>1, <2>2 DEF CheckCooldown
<1>4. ASSUME RecordFire(w)
      PROVE  /\ Facts /\ worker'[w].evidence = worker[w].evidence
             /\ worker'[w].phase = "mark"
  <2>1. PICK reason \in Reasons :
          Stand(w, [worker[w] EXCEPT !.phase = "mark", !.reason = reason])
    <3>1. {"chronic", ""} \subseteq Reasons
      BY DEF Reasons
    <3> QED BY <1>4, <3>1 DEF RecordFire
  <2> DEFINE v == [worker[w] EXCEPT !.phase = "mark", !.reason = reason]
  <2>2. worker[w] \in Processes
    BY DEF TInv, TypeOK
  <2>3. v.phase = "mark" /\ v.reason = reason /\ v.evidence = worker[w].evidence
    BY <2>2 DEF Processes
  <2>4. Stand(w, v)
    BY <2>1
  <2> HIDE DEF v
  <2> QED BY <1>2, <2>3, <2>4, StandFacts
<1>5. ASSUME MarkSuppressed(w)
      PROVE  /\ Facts /\ worker'[w].evidence = worker[w].evidence
             /\ worker'[w].phase = "report"
  <2>1. Go(w, "report") /\ "report" \in {"record", "report"}
    BY <1>5 DEF MarkSuppressed
  <2> QED BY <2>1, GoFacts
<1>6. ASSUME Report(w)
      PROVE  Facts /\ worker'[w].evidence = {} /\ worker'[w].phase = "ack"
  <2> DEFINE v == [phase |-> "ack", evidence |-> {}, reason |-> ""]
  <2>1. v.phase = "ack" /\ v.reason = "" /\ v.evidence = {}
    OBVIOUS
  <2>2. Stand(w, v)
    BY <1>6 DEF Report
  <2> HIDE DEF v
  <2>3. v.reason \in Reasons
    BY <2>1 DEF Reasons
  <2> QED BY <2>1, <2>2, <2>3, StandFacts
<1>7. ~(CheckCooldown(w) /\ Report(w)) /\ ~(RecordFire(w) /\ Report(w))
      /\ ~(MarkSuppressed(w) /\ Report(w)) /\ ~(CheckCooldown(w) /\ RecordFire(w))
      /\ ~(CheckCooldown(w) /\ MarkSuppressed(w)) /\ ~(RecordFire(w) /\ MarkSuppressed(w))
  BY DEF CheckCooldown, RecordFire, MarkSuppressed, Report, At
<1> QED BY <1>1, <1>3, <1>4, <1>5, <1>6, <1>7

LEMMA ScoreTypes ==
  ASSUME TInv, NEW w \in Workers, Score(w)
  PROVE  TInv'
<1>1. worker[w].phase \notin {"read", "hung"}
  BY DEF Score, At
<1>2. /\ worker' \in [Workers -> Processes]
      /\ \A v \in Workers \ {w} : worker'[v] = worker[v]
      /\ worker'[w].phase \in {"read", "hung"} <=> worker'[w].batch = <<>>
  BY <1>1, BusyFacts, ScoreFacts
<1>3. \A v \in Workers :
        worker'[v].phase \in {"read", "hung"} <=> worker'[v].batch = <<>>
  BY <1>2, WorkerTypes
<1>4. PICK window \in Seq(Frames) :
        Len(window) <= BufferSize /\ scores' = [scores EXCEPT ![Device(w)] = window]
  BY ScoreFacts
<1>5. scores' \in [Devices -> Seq(Frames)] /\ \A d \in Devices : Len(scores'[d]) <= BufferSize
  BY <1>4 DEF TInv, TypeOK
<1> QED BY <1>2, <1>3, <1>5 DEF Score, TInv, TypeOK

LEMMA ClearedTypes ==
  ASSUME TInv, NEW d \in Devices, scores' = [scores EXCEPT ![d] = <<>>]
  PROVE  /\ scores' \in [Devices -> Seq(Frames)]
         /\ \A c \in Devices : Len(scores'[c]) <= BufferSize
         /\ scores'[d] = <<>> /\ \A c \in Devices \ {d} : scores'[c] = scores[c]
<1>1. <<>> \in Seq(Frames) /\ Len(<<>>) = 0 /\ 0 <= BufferSize
  BY LimitAssumption
<1> DEFINE empty == <<>>
<1>2. empty \in Seq(Frames) /\ Len(empty) <= BufferSize
  BY <1>1
<1>3. scores' = [scores EXCEPT ![d] = empty]
  OBVIOUS
<1> HIDE DEF empty
<1>4. /\ scores' \in [Devices -> Seq(Frames)]
      /\ scores'[d] = empty /\ \A c \in Devices \ {d} : scores'[c] = scores[c]
  BY <1>2, <1>3 DEF TInv, TypeOK
<1>5. \A c \in Devices : Len(scores'[c]) <= BufferSize
  BY <1>2, <1>4 DEF TInv, TypeOK
<1> QED BY <1>4, <1>5 DEF empty

LEMMA HandlerTypes ==
  ASSUME TInv, NEW w \in Workers,
         CheckCooldown(w) \/ RecordFire(w) \/ MarkSuppressed(w) \/ Report(w)
  PROVE  TInv'
<1>1. worker[w].phase \notin {"read", "hung"}
  BY HandlerFacts
<1>2. /\ Frame(w) \in Frames /\ Device(w) \in Devices
      /\ worker[w].evidence \in SUBSET Frames /\ worker[w].reason \in Reasons
  BY <1>1, BusyFacts
<1>3. /\ worker' \in [Workers -> Processes]
      /\ \A v \in Workers \ {w} : worker'[v] = worker[v]
      /\ worker'[w].phase \in {"read", "hung"} <=> worker'[w].batch = <<>>
  BY <1>1, BusyFacts, HandlerFacts
<1>4. \A v \in Workers :
        worker'[v].phase \in {"read", "hung"} <=> worker'[v].batch = <<>>
  BY <1>3, WorkerTypes
<1>5. CASE CheckCooldown(w)
  BY <1>3, <1>4, <1>5 DEF CheckCooldown, TInv, TypeOK
<1>6. CASE RecordFire(w)
  <2>1. RecentFires(Frame(w)) \in SUBSET Nat
    BY <1>2, FrameAssumption DEF RecentFires, TInv, TypeOK
  <2>2. fires' \in [Devices -> SUBSET Nat] /\ fired' \subseteq Frames
    BY <1>2, <1>6, <2>1 DEF RecordFire, TInv, TypeOK
  <2> QED BY <1>3, <1>4, <1>6, <2>2 DEF RecordFire, TInv, TypeOK
<1>7. CASE MarkSuppressed(w)
  <2>1. /\ scores' \in [Devices -> Seq(Frames)]
        /\ \A d \in Devices : Len(scores'[d]) <= BufferSize
    BY <1>2, <1>7, ClearedTypes DEF MarkSuppressed
  <2>2. cooldown' \subseteq Devices
    BY <1>2, <1>7 DEF MarkSuppressed, TInv, TypeOK
  <2> QED BY <1>3, <1>4, <1>7, <2>1, <2>2 DEF MarkSuppressed, TInv, TypeOK
<1>8. CASE Report(w)
  <2> DEFINE event == [worker |-> w, frame |-> Frame(w),
                       evidence |-> worker[w].evidence, reason |-> worker[w].reason]
  <2>3. reported' = reported \/ reported' = reported \cup {event}
    BY <1>8 DEF Report
  <2>4. event \in Events
    BY <1>2 DEF Events
  <2> HIDE DEF event
  <2>1. reported' \subseteq Events
    BY <2>3, <2>4 DEF TInv, TypeOK
  <2> QED BY <1>3, <1>4, <1>8, <2>1 DEF Report, TInv, TypeOK
<1> QED BY <1>5, <1>6, <1>7, <1>8

LEMMA ExpireTypes ==
  ASSUME TInv, NEW d \in Devices, Expire(d)
  PROVE  TInv'
<1>1. cooldown' \subseteq Devices /\ fires' \in [Devices -> SUBSET Nat]
  BY DEF Expire, TInv, TypeOK
<1>2. scores' \in [Devices -> Seq(Frames)] /\ \A c \in Devices : Len(scores'[c]) <= BufferSize
  BY ClearedTypes DEF Expire, TInv, TypeOK
<1> QED BY <1>1, <1>2 DEF Expire, TInv, TypeOK

LEMMA TypeStep == TInv /\ [Next]_vars => TInv'
<1> SUFFICES ASSUME TInv, [Next]_vars PROVE TInv'
  OBVIOUS
<1>1. ASSUME NEW f \in Frames, Arrive(f) PROVE TInv'
  BY <1>1, ArriveTypes
<1>2. ASSUME NEW w \in Workers, Read(w) PROVE TInv'
  BY <1>2, ReadTypes
<1>3. ASSUME NEW w \in Workers, Handle(w) PROVE TInv'
  <2>1. CASE AckFrame(w)
    <3>1. worker[w].phase \notin {"read", "hung"} /\ NextFrame(w)
      BY <2>1 DEF AckFrame, At
    <3> QED BY <2>1, <3>1, NextFrameTypes DEF AckFrame
  <2>2. CASE SkipEntry(w)
    <3>1. worker[w].phase \notin {"read", "hung"} /\ NextFrame(w)
      BY <2>2 DEF SkipEntry, At
    <3> QED BY <2>2, <3>1, NextFrameTypes DEF SkipEntry
  <2> QED BY <1>3, <2>1, <2>2, ScoreTypes, HandlerTypes DEF Handle
<1>4. ASSUME NEW w \in Workers, HandlerFails(w) PROVE TInv'
  BY <1>4, NextFrameTypes DEF HandlerFails
<1>5. ASSUME NEW w \in Workers, Crash(w) \/ Hang(w) \/ Watchdog(w) PROVE TInv'
  <2>1. PICK p \in {"read", "hung"} : Stops(w, p)
    BY <1>5 DEF Crash, Hang, Watchdog
  <2> QED BY <2>1, StopsTypes
<1>6. ASSUME NEW d \in Devices, Expire(d) PROVE TInv'
  BY <1>6, ExpireTypes
<1>7. ASSUME UNCHANGED vars PROVE TInv'
  BY <1>7 DEF vars, TInv, TypeOK
<1> QED BY <1>1, <1>2, <1>3, <1>4, <1>5, <1>6, <1>7 DEF Next

\* Whatever the order of the workers' steps and failures, the state stays well
\* formed; a window in Redis never outgrows the score buffer (detection.py:
\* append_score).
THEOREM InferenceTypes == Spec => []TypeOK
<1>1. Init => TInv
  BY TypeInit
<1>2. TInv /\ [Next]_vars => TInv'
  BY TypeStep
<1>3. TInv => TypeOK
  BY DEF TInv
<1> QED BY <1>1, <1>2, <1>3, PTL DEF Spec

-----------------------------------------------------------------------------
(* One alert per worker *)

\* The frames of its batch that w has not scored.
Todo(w) ==
  IF At(w, "score") THEN Range(worker[w].batch)
  ELSE IF worker[w].batch = <<>> THEN {} ELSE Range(Tail(worker[w].batch))

Delivered(f) == entry[f] \notin {"new", "stream"}

\* A frame is in the stream once, or with workers, and one of them may score it.
PlaceInv ==
  /\ IsInjective(stream) /\ \A f \in Range(stream) : entry[f] = "stream"
  /\ \A w \in Workers :
       /\ IsInjective(worker[w].batch)
       /\ \A f \in Range(worker[w].batch) : Delivered(f)
  /\ \A v, w \in Workers : v # w => Todo(v) \cap Todo(w) = {}

Fresh(f) == ~Delivered(f) \/ \E w \in Workers : f \in Todo(w)

\* What is in a window or counts as evidence was scored.
FreshInv ==
  /\ \A d \in Devices : \A f \in Range(scores[d]) : ~Fresh(f)
  /\ \A w \in Workers : \A f \in worker[w].evidence : ~Fresh(f)
  /\ \A e \in Alerts : \A f \in e.evidence : ~Fresh(f)

\* Windows and evidence are of one device.
HomeInv ==
  /\ \A d \in Devices : \A f \in Range(scores[d]) : DeviceOf[f] = d
  /\ \A w \in Workers : \A f \in worker[w].evidence : DeviceOf[f] = Device(w)

\* w has cleared the window and is about to send an alert.
Firing(w) == At(w, "report") /\ worker[w].reason = ""

\* The evidence of an alert is in no window, nor is it the evidence its worker
\* goes by next.
SpentInv ==
  /\ \A e \in Alerts :
       /\ \A d \in Devices : e.evidence \cap Range(scores[d]) = {}
       /\ e.evidence \cap worker[e.worker].evidence = {}
  /\ \A w \in Workers :
       Firing(w) => \A d \in Devices : worker[w].evidence \cap Range(scores[d]) = {}

AlertInv == PlaceInv /\ FreshInv /\ HomeInv /\ SpentInv /\ OneAlertPerWorker

LEMMA AlertTypes ==
  ASSUME TInv, NEW e \in Alerts
  PROVE  e.worker \in Workers /\ e.evidence \subseteq Frames
BY DEF TInv, TypeOK, Alerts, Events

LEMMA AlertInit == Init => AlertInv
<1> SUFFICES ASSUME Init PROVE AlertInv
  OBVIOUS
<1>1. /\ \A w \in Workers : worker[w].batch = <<>> /\ worker[w].evidence = {}
      /\ \A w \in Workers : worker[w].phase = "read"
      /\ \A d \in Devices : scores[d] = <<>>
      /\ stream = <<>> /\ Alerts = {}
  BY DEF Init, Idle, Alerts
<1>2. \A w \in Workers : Todo(w) = {} /\ ~Firing(w)
  BY <1>1 DEF Todo, At, Firing
<1>3. PlaceInv
  BY <1>1, <1>2, EmptyFacts DEF PlaceInv
<1>4. FreshInv /\ HomeInv /\ SpentInv /\ OneAlertPerWorker
  BY <1>1, <1>2, EmptyFacts DEF FreshInv, HomeInv, SpentInv, OneAlertPerWorker
<1> QED BY <1>3, <1>4 DEF AlertInv

\* A worker that goes on with its evidence or drops it, and takes no frame.
Proceeds(w) ==
  /\ Todo(w)' \subseteq Todo(w)
  /\ Range(worker'[w].batch) \subseteq Range(worker[w].batch)
  /\ IsInjective(worker[w].batch) => IsInjective(worker'[w].batch)
  /\ \/ worker'[w].evidence = {}
     \/ /\ worker'[w].evidence = worker[w].evidence
        /\ worker'[w].batch = worker[w].batch
        /\ Firing(w)' => Firing(w)

\* A step that scores, reads and alerts nothing.
Calm ==
  /\ \A w \in Workers : Proceeds(w)
  /\ \A d \in Devices : Range(scores'[d]) \subseteq Range(scores[d])
  /\ stream' = stream /\ Alerts' = Alerts
  /\ \A f \in Frames : entry'[f] = entry[f] \/ (Delivered(f) /\ Delivered(f)')

LEMMA FreshStep ==
  ASSUME \A w \in Workers : Todo(w)' \subseteq Todo(w),
         NEW f, Delivered(f) => Delivered(f)', ~Fresh(f)
  PROVE  ~Fresh(f)'
BY DEF Fresh

LEMMA CalmKeeps == TInv /\ AlertInv /\ Calm => AlertInv'
<1> SUFFICES ASSUME TInv, AlertInv, Calm PROVE AlertInv'
  OBVIOUS
<1>1. /\ stream \in Seq(Frames) /\ \A w \in Workers : worker[w].batch \in Seq(Frames)
      /\ \A w \in Workers : worker[w].evidence \subseteq Frames
      /\ \A d \in Devices : scores[d] \in Seq(Frames)
  BY DEF TInv, TypeOK, Processes
<1>2. /\ Range(stream) \subseteq Frames
      /\ \A w \in Workers : Range(worker[w].batch) \subseteq Frames
      /\ \A d \in Devices : Range(scores[d]) \subseteq Frames
  BY <1>1, QueueFacts
<1>3. \A f \in Frames : (Delivered(f) => Delivered(f)') /\ (~Fresh(f) => ~Fresh(f)')
  <2>1. \A f \in Frames : Delivered(f) => Delivered(f)'
    BY DEF Calm, Delivered
  <2>2. \A w \in Workers : Todo(w)' \subseteq Todo(w)
    BY DEF Calm, Proceeds
  <2> QED BY <2>1, <2>2, FreshStep
<1>4. \A w \in Workers : worker'[w].evidence \subseteq worker[w].evidence
  BY DEF Calm, Proceeds
<1>5. \A f \in Range(stream) : entry'[f] = "stream"
  BY <1>2 DEF Calm, AlertInv, PlaceInv, Delivered
<1>6. PlaceInv'
  <2>1. \A w \in Workers : Range(worker'[w].batch) \subseteq Range(worker[w].batch)
    BY DEF Calm, Proceeds
  <2>2. \A w \in Workers : IsInjective(worker'[w].batch)
    BY DEF Calm, Proceeds, AlertInv, PlaceInv
  <2>3. \A w \in Workers : \A f \in Range(worker'[w].batch) : Delivered(f)'
    BY <1>2, <1>3, <2>1 DEF AlertInv, PlaceInv
  <2>4. \A v, w \in Workers : v # w => Todo(v)' \cap Todo(w)' = {}
    BY DEF Calm, Proceeds, AlertInv, PlaceInv
  <2>5. stream' = stream /\ IsInjective(stream)
    BY DEF Calm, AlertInv, PlaceInv
  <2> QED BY <1>5, <2>2, <2>3, <2>4, <2>5 DEF PlaceInv
<1>7. FreshInv'
  <2>1. \A d \in Devices : \A f \in Range(scores'[d]) : ~Fresh(f)'
    BY <1>2, <1>3 DEF Calm, AlertInv, FreshInv
  <2>2. \A w \in Workers : \A f \in worker'[w].evidence : ~Fresh(f)'
    BY <1>1, <1>3, <1>4 DEF AlertInv, FreshInv
  <2>3. \A e \in Alerts' : \A f \in e.evidence : ~Fresh(f)'
    BY <1>3, AlertTypes DEF Calm, AlertInv, FreshInv
  <2> QED BY <2>1, <2>2, <2>3 DEF FreshInv
<1>8. HomeInv'
  <2>1. \A d \in Devices : \A f \in Range(scores'[d]) : DeviceOf[f] = d
    BY DEF Calm, AlertInv, HomeInv
  <2>2. \A w \in Workers : \A f \in worker'[w].evidence : DeviceOf[f] = Device(w)'
    BY DEF Calm, Proceeds, AlertInv, HomeInv, Device, Frame
  <2> QED BY <2>1, <2>2 DEF HomeInv
<1>9. SpentInv'
  <2>1. ASSUME NEW e \in Alerts'
        PROVE  /\ \A d \in Devices : e.evidence \cap Range(scores'[d]) = {}
               /\ e.evidence \cap worker'[e.worker].evidence = {}
    <3>1. e \in Alerts /\ e.worker \in Workers
      BY <2>1, AlertTypes DEF Calm
    <3> QED BY <1>4, <3>1 DEF Calm, AlertInv, SpentInv
  <2>2. ASSUME NEW w \in Workers, Firing(w)', NEW d \in Devices
        PROVE  worker'[w].evidence \cap Range(scores'[d]) = {}
    BY <2>2 DEF Calm, Proceeds, AlertInv, SpentInv
  <2> QED BY <2>1, <2>2 DEF SpentInv
<1>10. OneAlertPerWorker'
  BY DEF Calm, AlertInv, OneAlertPerWorker
<1> QED BY <1>6, <1>7, <1>8, <1>9, <1>10 DEF AlertInv

LEMMA OthersProceed ==
  ASSUME NEW w \in Workers, \A v \in Workers \ {w} : worker'[v] = worker[v], Proceeds(w)
  PROVE  \A v \in Workers : Proceeds(v)
<1>1. ASSUME NEW v \in Workers \ {w} PROVE Proceeds(v)
  <2>1. worker'[v] = worker[v]
    BY <1>1
  <2> QED BY <2>1 DEF Proceeds, Todo, Firing, At
<1> QED BY <1>1

LEMMA NextFrameCalm ==
  ASSUME TInv, AlertInv, NEW w \in Workers, worker[w].phase \notin {"read", "hung"},
         NextFrame(w), entry' = entry \/ entry' = [entry EXCEPT ![Frame(w)] = "acked"],
         UNCHANGED <<stream, scores, cooldown, fires, reported, fired>>
  PROVE  Calm
<1> DEFINE b == worker[w].batch
<1>1. b \in Seq(Frames) /\ b # <<>> /\ IsInjective(b) /\ Frame(w) \in Frames
  BY BusyFacts DEF AlertInv, PlaceInv
<1>2. /\ Head(b) \in Range(b) /\ Range(Tail(b)) \subseteq Range(b)
      /\ Tail(b) \in Seq(Frames) /\ IsInjective(Tail(b))
  BY <1>1, HeadFacts
<1>3. /\ \A v \in Workers \ {w} : worker'[v] = worker[v]
      /\ worker'[w].batch = Tail(b)
      /\ worker'[w].phase \in {"read", "score"}
      /\ worker'[w].phase = "read" <=> Tail(b) = <<>>
      /\ worker'[w].evidence = {}
  BY <1>1, NextFrameFacts
<1>4. Todo(w)' \subseteq Range(Tail(b))
  BY <1>3 DEF Todo, At
<1>5. Range(Tail(b)) \subseteq Todo(w)
  BY <1>1, <1>2 DEF Todo
<1>6. Proceeds(w)
  BY <1>2, <1>3, <1>4, <1>5 DEF Proceeds
<1>7. Delivered(Frame(w))
  BY <1>2 DEF AlertInv, PlaceInv, Frame
<1>8. \A f \in Frames : entry'[f] = entry[f] \/ (Delivered(f) /\ Delivered(f)')
  <2>1. entry \in [Frames -> {"new", "stream", "pending", "acked", "trimmed"}]
    BY DEF TInv, TypeOK
  <2>2. CASE entry' = [entry EXCEPT ![Frame(w)] = "acked"]
    <3>1. PICK g \in Frames : g = Frame(w)
      BY <1>1
    <3>2. entry' = [entry EXCEPT ![g] = "acked"] /\ Delivered(g)
      BY <1>7, <2>2, <3>1
    <3> QED BY <2>1, <3>2 DEF Delivered
  <2> QED BY <2>2
<1> QED BY <1>3, <1>6, <1>8, OthersProceed DEF Calm, Alerts

LEMMA StopsCalm ==
  ASSUME TInv, NEW w \in Workers, NEW p \in {"read", "hung"}, Stops(w, p)
  PROVE  Calm
<1>1. /\ \A v \in Workers \ {w} : worker'[v] = worker[v]
      /\ worker'[w].batch = <<>> /\ worker'[w].phase = p /\ worker'[w].evidence = {}
  BY StopsFacts
<1>2. Todo(w)' = {}
  BY <1>1 DEF Todo, At
<1>3. Proceeds(w)
  BY <1>1, <1>2, EmptyFacts DEF Proceeds
<1> QED BY <1>1, <1>3, OthersProceed DEF Stops, Calm, Alerts

LEMMA HandlerProceeds ==
  ASSUME TInv, NEW w \in Workers, CheckCooldown(w) \/ RecordFire(w) \/ Report(w)
  PROVE  \A v \in Workers : Proceeds(v)
<1>1. /\ \A v \in Workers \ {w} : worker'[v] = worker[v]
      /\ worker'[w].batch = worker[w].batch
      /\ worker[w].phase \notin {"read", "score", "hung"}
      /\ worker'[w].phase # "score"
  BY HandlerFacts
<1>2. Todo(w)' = Todo(w)
  BY <1>1 DEF Todo, At
<1>3. \/ worker'[w].evidence = {}
      \/ worker'[w].evidence = worker[w].evidence /\ ~Firing(w)'
  BY HandlerFacts DEF Firing, At
<1>4. Proceeds(w)
  BY <1>1, <1>2, <1>3 DEF Proceeds
<1> QED BY <1>1, <1>4, OthersProceed

LEMMA MarkKeeps ==
  ASSUME TInv, AlertInv, NEW w \in Workers, MarkSuppressed(w)
  PROVE  AlertInv'
<1>1. /\ \A v \in Workers \ {w} : worker'[v] = worker[v]
      /\ worker'[w].batch = worker[w].batch
      /\ worker'[w].evidence = worker[w].evidence
      /\ worker[w].phase \notin {"read", "score", "hung"}
      /\ worker'[w].phase # "score"
  BY HandlerFacts DEF MarkSuppressed, Report, At
<1>2. Device(w) \in Devices /\ worker[w].evidence \subseteq Frames
  BY <1>1, BusyFacts
<1>3. /\ scores'[Device(w)] = <<>>
      /\ \A d \in Devices \ {Device(w)} : scores'[d] = scores[d]
  BY <1>2, ClearedTypes DEF MarkSuppressed
<1>4. \A d \in Devices : Range(scores'[d]) \subseteq Range(scores[d])
  BY <1>3, EmptyFacts
<1>5. \A d \in Devices : worker[w].evidence \cap Range(scores'[d]) = {}
  <2> SUFFICES ASSUME NEW d \in Devices, NEW f \in worker[w].evidence,
                      f \in Range(scores'[d])
               PROVE  FALSE
    OBVIOUS
  <2>1. DeviceOf[f] = Device(w)
    BY DEF AlertInv, HomeInv
  <2>2. DeviceOf[f] = d
    BY <1>4 DEF AlertInv, HomeInv
  <2> QED BY <1>3, <2>1, <2>2, EmptyFacts
\* The step is calm but for w, which is firing now: it is calm up to its phase.
<1>6. Todo(w)' = Todo(w) /\ \A v \in Workers \ {w} : Todo(v)' = Todo(v)
  BY <1>1 DEF Todo, At
<1>7. /\ \A f : Delivered(f)' <=> Delivered(f)
      /\ \A f : Fresh(f)' <=> Fresh(f)
      /\ Alerts' = Alerts /\ stream' = stream
  BY <1>6 DEF MarkSuppressed, Delivered, Fresh, Alerts
<1>8. \A v \in Workers : /\ worker'[v].batch = worker[v].batch
                         /\ worker'[v].evidence = worker[v].evidence
  BY <1>1
<1>9. PlaceInv'
  <2>1. entry' = entry
    BY DEF MarkSuppressed
  <2>2. \A v \in Workers : Todo(v)' = Todo(v)
    BY <1>6
  <2> QED BY <1>7, <1>8, <2>1, <2>2 DEF AlertInv, PlaceInv
<1>10. FreshInv'
  BY <1>4, <1>7, <1>8 DEF AlertInv, FreshInv
<1>11. HomeInv'
  BY <1>4, <1>8 DEF AlertInv, HomeInv, Device, Frame
<1>12. SpentInv'
  <2>1. ASSUME NEW e \in Alerts'
        PROVE  /\ \A d \in Devices : e.evidence \cap Range(scores'[d]) = {}
               /\ e.evidence \cap worker'[e.worker].evidence = {}
    <3>1. e \in Alerts /\ e.worker \in Workers
      BY <1>7, <2>1, AlertTypes
    <3> QED BY <1>4, <1>8, <3>1 DEF AlertInv, SpentInv
  <2>2. ASSUME NEW v \in Workers, Firing(v)', NEW d \in Devices
        PROVE  worker'[v].evidence \cap Range(scores'[d]) = {}
    <3>1. CASE v = w
      BY <1>1, <1>5, <3>1
    <3>2. CASE v # w
      <4>1. worker'[v] = worker[v]
        BY <1>1, <3>2
      <4>2. Firing(v)
        BY <2>2, <4>1 DEF Firing, At
      <4> QED BY <1>4, <4>1, <4>2 DEF AlertInv, SpentInv
    <3> QED BY <3>1, <3>2
  <2> QED BY <2>1, <2>2 DEF SpentInv
<1>13. OneAlertPerWorker'
  BY <1>7 DEF AlertInv, OneAlertPerWorker
<1> QED BY <1>9, <1>10, <1>11, <1>12, <1>13 DEF AlertInv

LEMMA ReportKeeps ==
  ASSUME TInv, AlertInv, NEW w \in Workers, Report(w)
  PROVE  AlertInv'
<1> DEFINE event == [worker |-> w, frame |-> Frame(w),
                     evidence |-> worker[w].evidence, reason |-> worker[w].reason]
<1>1. \A v \in Workers : Proceeds(v)
  BY HandlerProceeds
<1>2. /\ reported' = reported \/ reported' = reported \cup {event}
      /\ event.worker = w /\ event.evidence = worker[w].evidence
      /\ event.reason = worker[w].reason
  BY DEF Report
<1> HIDE DEF event
<1>3. stream' = stream /\ entry' = entry /\ scores' = scores
  BY DEF Report
<1>4. CASE Alerts' = Alerts
  BY <1>1, <1>3, <1>4, CalmKeeps DEF Calm
<1>5. CASE Alerts' # Alerts
  <2>1. Alerts' = Alerts \cup {event} /\ event.reason = ""
    BY <1>2, <1>5 DEF Alerts
  <2>2. Firing(w)
    BY <1>2, <2>1 DEF Report, Firing, At
  <2>3. /\ \A v \in Workers : worker'[v].evidence \subseteq worker[v].evidence
        /\ \A v \in Workers : Todo(v)' \subseteq Todo(v)
        /\ worker'[w].evidence = {}
    BY <1>1, HandlerFacts DEF Proceeds
  <2>4. \A f : ~Fresh(f) => ~Fresh(f)'
    BY <1>3, <2>3 DEF Fresh, Delivered
  <2>5. PlaceInv'
    <3>1. \A v \in Workers : /\ IsInjective(worker'[v].batch)
                             /\ Range(worker'[v].batch) \subseteq Range(worker[v].batch)
      BY <1>1 DEF Proceeds, AlertInv, PlaceInv
    <3> QED BY <1>3, <2>3, <3>1 DEF AlertInv, PlaceInv, Delivered
  <2>6. FreshInv'
    <3>1. \A e \in Alerts' : \A f \in e.evidence : ~Fresh(f)
      BY <1>2, <2>1 DEF AlertInv, FreshInv
    <3> QED BY <1>3, <2>3, <2>4, <3>1 DEF AlertInv, FreshInv
  <2>7. HomeInv'
    BY <1>1, <1>3 DEF Proceeds, AlertInv, HomeInv, Device, Frame
  <2>8. SpentInv'
    <3>1. ASSUME NEW e \in Alerts'
          PROVE  /\ \A d \in Devices : e.evidence \cap Range(scores'[d]) = {}
                 /\ e.evidence \cap worker'[e.worker].evidence = {}
      <4>1. CASE e \in Alerts
        <5>1. e.worker \in Workers
          BY <4>1, AlertTypes
        <5> QED BY <1>3, <2>3, <4>1, <5>1 DEF AlertInv, SpentInv
      <4>2. CASE e = event
        BY <1>2, <1>3, <2>2, <2>3, <4>2 DEF AlertInv, SpentInv
      <4> QED BY <2>1, <4>1, <4>2
    <3>2. \A v \in Workers :
            Firing(v)' => \A d \in Devices : worker'[v].evidence \cap Range(scores'[d]) = {}
      BY <1>1, <1>3 DEF Proceeds, AlertInv, SpentInv
    <3> QED BY <3>1, <3>2 DEF SpentInv
  <2>9. OneAlertPerWorker'
    <3>1. \A e \in Alerts : e.worker = w => e.evidence \cap event.evidence = {}
      BY <1>2 DEF AlertInv, SpentInv
    <3> QED BY <1>2, <2>1, <3>1 DEF AlertInv, OneAlertPerWorker
  <2> QED BY <2>5, <2>6, <2>7, <2>8, <2>9 DEF AlertInv
<1> QED BY <1>4, <1>5

LEMMA ScoreKeeps ==
  ASSUME TInv, AlertInv, NEW w \in Workers, Score(w)
  PROVE  AlertInv'
<1> DEFINE b == worker[w].batch
<1>1. /\ worker[w].phase = "score" /\ entry' = entry /\ stream' = stream
      /\ reported' = reported
  BY DEF Score, At
<1>2. /\ b \in Seq(Frames) /\ b # <<>> /\ IsInjective(b)
      /\ Frame(w) \in Frames /\ Device(w) \in Devices
  BY <1>1, BusyFacts DEF AlertInv, PlaceInv
<1>13. PICK g \in Frames, d \in Devices : g = Frame(w) /\ d = Device(w)
  BY <1>2
<1>3. /\ \A v \in Workers \ {w} : worker'[v] = worker[v]
      /\ worker'[w].batch = b
      /\ worker'[w].phase # "score" /\ ~Firing(w)'
      /\ worker'[w].evidence \subseteq Range(scores'[d])
      /\ Range(scores'[d]) \subseteq {g} \cup Range(scores[d])
      /\ \A c \in Devices \ {d} : scores'[c] = scores[c]
  <2>1. scores' = [scores EXCEPT ![Device(w)] = scores'[Device(w)]]
    BY ScoreFacts
  <2>2. PICK x : scores' = [scores EXCEPT ![d] = x]
    BY <1>13, <2>1
  <2>3. \A c \in Devices \ {d} : scores'[c] = scores[c]
    BY <2>2 DEF TInv, TypeOK
  <2> QED BY <1>13, <2>3, ScoreFacts DEF Firing, At
<1>4. g \in Range(b) /\ Range(Tail(b)) \subseteq Range(b) /\ g \notin Range(Tail(b))
  BY <1>2, <1>13, HeadFacts DEF Frame
<1>5. /\ Todo(w) = Range(b) /\ Todo(w)' = Range(Tail(b))
      /\ \A v \in Workers \ {w} : Todo(v)' = Todo(v)
  BY <1>1, <1>2, <1>3 DEF Todo, At
<1>6. Fresh(g) /\ ~Fresh(g)' /\ \A f : ~Fresh(f) => ~Fresh(f)'
  <2>1. Fresh(g)
    BY <1>4, <1>5 DEF Fresh
  <2>2. Delivered(g)
    BY <1>4 DEF AlertInv, PlaceInv
  <2>3. \A v \in Workers : g \notin Todo(v)'
    BY <1>4, <1>5 DEF AlertInv, PlaceInv
  <2>4. \A f : Delivered(f)' <=> Delivered(f)
    BY <1>1 DEF Delivered
  <2>5. \A v \in Workers : Todo(v)' \subseteq Todo(v)
    BY <1>4, <1>5
  <2>6. Delivered(g)'
    BY <2>2, <2>4
  <2>7. ~Fresh(g)'
    BY <2>3, <2>6 DEF Fresh
  <2>8. ASSUME NEW f, ~Fresh(f) PROVE ~Fresh(f)'
    BY <2>4, <2>5, <2>8 DEF Fresh
  <2> QED BY <2>1, <2>7, <2>8
<1>7. /\ Alerts' = Alerts
      /\ \A c \in Devices : Range(scores'[c]) \subseteq {g} \cup Range(scores[c])
      /\ \A c \in Devices \ {d} : Range(scores'[c]) = Range(scores[c])
      /\ \A v \in Workers : worker'[v].batch = worker[v].batch
  BY <1>1, <1>3 DEF Alerts
<1>8. PlaceInv'
  <2>1. \A u, v \in Workers : u # v => Todo(u)' \cap Todo(v)' = {}
    BY <1>4, <1>5 DEF AlertInv, PlaceInv
  <2> QED BY <1>1, <1>7, <2>1 DEF AlertInv, PlaceInv, Delivered
<1>9. FreshInv'
  <2>1. ASSUME NEW c \in Devices, NEW f \in Range(scores'[c]) PROVE ~Fresh(f)'
    <3>1. CASE f = g
      BY <1>6, <3>1
    <3>2. CASE f \in Range(scores[c])
      <4>1. ~Fresh(f)
        BY <3>2 DEF AlertInv, FreshInv
      <4> QED BY <1>6, <4>1
    <3> QED BY <1>7, <3>1, <3>2
  <2>2. \A v \in Workers : \A f \in worker'[v].evidence : ~Fresh(f)'
    BY <1>2, <1>3, <1>6, <2>1 DEF AlertInv, FreshInv
  <2>3. \A e \in Alerts' : \A f \in e.evidence : ~Fresh(f)'
    BY <1>6, <1>7 DEF AlertInv, FreshInv
  <2> QED BY <2>1, <2>2, <2>3 DEF FreshInv
<1>10. HomeInv'
  <2>1. \A c \in Devices : \A f \in Range(scores'[c]) : DeviceOf[f] = c
    BY <1>3, <1>7, <1>13 DEF AlertInv, HomeInv, Device
  <2>2. \A v \in Workers : \A f \in worker'[v].evidence : DeviceOf[f] = Device(v)'
    <3>1. \A v \in Workers : Device(v)' = Device(v)
      BY <1>7 DEF Device, Frame
    <3>2. \A f \in worker'[w].evidence : DeviceOf[f] = Device(w)
      BY <1>3, <1>13, <2>1
    <3> QED BY <1>3, <3>1, <3>2 DEF AlertInv, HomeInv
  <2> QED BY <2>1, <2>2 DEF HomeInv
<1>11. SpentInv'
  <2>1. ASSUME NEW e \in Alerts'
        PROVE  /\ \A c \in Devices : e.evidence \cap Range(scores'[c]) = {}
               /\ e.evidence \cap worker'[e.worker].evidence = {}
    <3>1. e \in Alerts /\ e.worker \in Workers /\ g \notin e.evidence
      BY <1>6, <1>7, <2>1, AlertTypes DEF AlertInv, FreshInv
    <3>2. \A c \in Devices : e.evidence \cap Range(scores'[c]) = {}
      BY <1>7, <3>1 DEF AlertInv, SpentInv
    <3>3. CASE e.worker = w
      BY <1>2, <1>3, <3>2, <3>3
    <3>4. CASE e.worker # w
      BY <1>3, <3>1, <3>4 DEF AlertInv, SpentInv
    <3> QED BY <3>2, <3>3, <3>4
  <2>2. ASSUME NEW v \in Workers, Firing(v)', NEW c \in Devices
        PROVE  worker'[v].evidence \cap Range(scores'[c]) = {}
    <3>1. v # w /\ worker'[v] = worker[v]
      BY <1>3, <2>2
    <3>2. Firing(v) /\ g \notin worker[v].evidence
      BY <1>6, <2>2, <3>1 DEF Firing, At, AlertInv, FreshInv
    <3> QED BY <1>7, <3>1, <3>2 DEF AlertInv, SpentInv
  <2> QED BY <2>1, <2>2 DEF SpentInv
<1>12. OneAlertPerWorker'
  BY <1>7 DEF AlertInv, OneAlertPerWorker
<1> QED BY <1>8, <1>9, <1>10, <1>11, <1>12 DEF AlertInv

LEMMA ArriveKeeps ==
  ASSUME TInv, AlertInv, NEW f \in Frames, Arrive(f)
  PROVE  AlertInv'
<1>1. /\ worker' = worker /\ scores' = scores /\ reported' = reported
      /\ entry[f] = "new" /\ stream \in Seq(Frames) /\ IsInjective(stream)
      /\ entry \in [Frames -> {"new", "stream", "pending", "acked", "trimmed"}]
      /\ \A g \in Range(stream) : g \in Frames /\ entry[g] = "stream"
  BY QueueFacts DEF Arrive, TInv, TypeOK, AlertInv, PlaceInv
<1>2. f \notin Range(stream)
  BY <1>1
<1>3. /\ IsInjective(stream') /\ \A g \in Range(stream') : entry'[g] = "stream"
      /\ \A g \in Frames : g # f /\ g \notin Range(stream) => entry'[g] = entry[g]
      /\ entry'[f] = "stream"
  <2>1. CASE stream' = Append(stream, f) /\ entry' = [entry EXCEPT ![f] = "stream"]
    <3>1. IsInjective(stream') /\ Range(stream') = Range(stream) \cup {f}
      BY <1>1, <1>2, <2>1, AppendFacts
    <3> QED BY <1>1, <2>1, <3>1
  <2>2. CASE /\ Len(stream) >= StreamMax
             /\ stream' = Append(Tail(stream), f)
             /\ entry' = [entry EXCEPT ![f] = "stream", ![Head(stream)] = "trimmed"]
    <3>1. stream # <<>>
      BY <2>2, LimitAssumption
    <3>2. /\ Head(stream) \in Range(stream) /\ Head(stream) \notin Range(Tail(stream))
          /\ Range(Tail(stream)) \subseteq Range(stream)
          /\ Tail(stream) \in Seq(Frames) /\ IsInjective(Tail(stream))
      BY <1>1, <3>1, HeadFacts
    <3>3. f \notin Range(Tail(stream))
      BY <1>2, <3>2
    <3>8. PICK t \in Seq(Frames) : t = Tail(stream)
      BY <3>2
    <3>9. /\ IsInjective(t) /\ f \notin Range(t) /\ stream' = Append(t, f)
      BY <2>2, <3>2, <3>3, <3>8
    <3>10. IsInjective(Append(t, f)) /\ Range(Append(t, f)) = Range(t) \cup {f}
      BY <3>9, AppendFacts
    <3>4. IsInjective(stream') /\ Range(stream') = Range(Tail(stream)) \cup {f}
      BY <3>8, <3>9, <3>10
    <3>5. PICK h \in Range(stream) : h = Head(stream)
      BY <3>2
    <3>6. entry' = [entry EXCEPT ![f] = "stream", ![h] = "trimmed"]
      BY <2>2, <3>5
    <3>7. h # f /\ h \notin Range(Tail(stream)) /\ h \in Frames
      BY <1>1, <1>2, <3>2, <3>5
    <3> QED BY <1>1, <3>2, <3>4, <3>6, <3>7
  <2> QED BY <2>1, <2>2 DEF Arrive
<1>4. \A w \in Workers : Todo(w)' = Todo(w)
  BY <1>1 DEF Todo, At
<1>5. \A w \in Workers : Range(worker[w].batch) \subseteq Frames
  BY QueueFacts DEF TInv, TypeOK, Processes
<1>6. \A g \in Frames : Delivered(g) => Delivered(g)'
  BY <1>1, <1>3 DEF Delivered
<1>7. \A g \in Frames : ~Fresh(g) => ~Fresh(g)'
  BY <1>4, <1>6 DEF Fresh
<1>8. PlaceInv'
  BY <1>1, <1>3, <1>4, <1>5, <1>6 DEF AlertInv, PlaceInv
<1>9. FreshInv'
  <2>1. \A d \in Devices : Range(scores[d]) \subseteq Frames
    BY QueueFacts DEF TInv, TypeOK
  <2>2. \A w \in Workers : worker[w].evidence \subseteq Frames
    BY DEF TInv, TypeOK, Processes
  <2>3. Alerts' = Alerts /\ \A e \in Alerts : e.evidence \subseteq Frames
    BY <1>1, AlertTypes DEF Alerts
  <2> QED BY <1>1, <1>7, <2>1, <2>2, <2>3 DEF AlertInv, FreshInv
<1>10. HomeInv' /\ SpentInv' /\ OneAlertPerWorker'
  BY <1>1 DEF AlertInv, HomeInv, SpentInv, OneAlertPerWorker, Alerts, Firing, At, Device, Frame
<1> QED BY <1>8, <1>9, <1>10 DEF AlertInv

LEMMA ReadKeeps ==
  ASSUME TInv, AlertInv, NEW w \in Workers, Read(w)
  PROVE  AlertInv'
<1> DEFINE batch == SubSeq(stream, 1, BatchLength)
           rest  == SubSeq(stream, BatchLength + 1, Len(stream))
<1>1. /\ stream # <<>> /\ stream \in Seq(Frames) /\ IsInjective(stream)
      /\ \A f \in Range(stream) : f \in Frames /\ entry[f] = "stream"
  BY QueueFacts DEF Read, TInv, TypeOK, AlertInv, PlaceInv
<1>2. /\ IsInjective(batch) /\ IsInjective(rest)
      /\ Range(batch) \subseteq Range(stream) /\ Range(rest) \subseteq Range(stream)
      /\ Range(batch) \cap Range(rest) = {}
  <2>1. PICK k \in 0..Len(stream) : k = BatchLength
    BY <1>1, BatchFacts
  <2> QED BY <1>1, <2>1, CutFacts
<1>14. \A f : ~(f \in Range(batch) /\ f \in Range(rest))
  BY <1>2, Zenon
<1>3. /\ stream' = rest
      /\ entry' = [f \in Frames |-> IF f \in Range(batch) THEN "pending" ELSE entry[f]]
      /\ scores' = scores /\ reported' = reported
      /\ worker[w].phase = "read"
  BY DEF Read, At
<1>4. /\ \A v \in Workers \ {w} : worker'[v] = worker[v]
      /\ worker'[w].batch = batch /\ worker'[w].phase = "score"
      /\ worker'[w].evidence = {}
  BY DEF Read, TInv, TypeOK, Idle
<1> HIDE DEF batch, rest
<1>5. /\ \A v \in Workers \ {w} : Todo(v)' = Todo(v)
      /\ Todo(w)' = Range(batch)
  BY <1>4 DEF Todo, At
<1>6. \A f \in Frames : /\ f \in Range(batch) => Delivered(f)'
                        /\ f \notin Range(batch) => entry'[f] = entry[f]
                        /\ f \in Range(stream) => ~Delivered(f)
  BY <1>1, <1>3 DEF Delivered
<1>7. \A v \in Workers : Todo(v) \subseteq Range(worker[v].batch)
  <2> SUFFICES ASSUME NEW v \in Workers PROVE Todo(v) \subseteq Range(worker[v].batch)
    OBVIOUS
  <2>1. worker[v].batch \in Seq(Frames)
    BY DEF TInv, TypeOK, Processes
  <2> QED BY <2>1, RangeSteps DEF Todo
<1>8. \A v \in Workers : \A f \in Range(worker[v].batch) :
        f \in Frames /\ Delivered(f) /\ f \notin Range(stream)
  <2>1. \A v \in Workers : Range(worker[v].batch) \subseteq Frames
    BY QueueFacts DEF TInv, TypeOK, Processes
  <2> QED BY <1>1, <2>1 DEF AlertInv, PlaceInv, Delivered
<1>9. PlaceInv'
  <2>1. \A f \in Range(rest) : entry'[f] = "stream"
    <3> SUFFICES ASSUME NEW f \in Range(rest) PROVE entry'[f] = "stream"
      OBVIOUS
    <3>1. f \in Range(stream)
      BY <1>2
    <3>2. f \in Frames /\ entry[f] = "stream"
      BY <1>1, <3>1
    <3>3. f \notin Range(batch)
      BY <1>14
    <3>4. entry'[f] = entry[f]
      BY <1>6, <3>2, <3>3
    <3> QED BY <3>2, <3>4
  <2>2. ASSUME NEW v \in Workers
        PROVE  /\ IsInjective(worker'[v].batch)
               /\ \A f \in Range(worker'[v].batch) : Delivered(f)'
    <3>1. CASE v = w
      BY <1>1, <1>2, <1>4, <1>6, <3>1
    <3>2. CASE v # w
      BY <1>2, <1>4, <1>6, <1>8, <3>2 DEF AlertInv, PlaceInv, Delivered
    <3> QED BY <3>1, <3>2
  <2>3. \A v \in Workers \ {w} : Todo(v)' \cap Todo(w)' = {}
    BY <1>2, <1>5, <1>7, <1>8
  <2>4. \A u, v \in Workers : u # v => Todo(u)' \cap Todo(v)' = {}
    BY <1>5, <2>3 DEF AlertInv, PlaceInv
  <2> QED BY <1>2, <1>3, <2>1, <2>2, <2>4 DEF PlaceInv
<1>10. \A f \in Frames : ~Fresh(f) => ~Fresh(f)'
  <2> SUFFICES ASSUME NEW f \in Frames, ~Fresh(f) PROVE ~Fresh(f)'
    OBVIOUS
  <2>1. Delivered(f) /\ f \notin Range(batch) /\ \A v \in Workers : f \notin Todo(v)
    BY <1>2, <1>6 DEF Fresh
  <2>2. Delivered(f)' /\ \A v \in Workers : f \notin Todo(v)'
    BY <1>5, <1>6, <2>1 DEF Delivered
  <2> QED BY <2>2 DEF Fresh
<1>11. FreshInv'
  <2>1. \A d \in Devices : Range(scores[d]) \subseteq Frames
    BY QueueFacts DEF TInv, TypeOK
  <2>2. \A v \in Workers : worker'[v].evidence \subseteq worker[v].evidence
    BY <1>4
  <2>3. \A v \in Workers : worker[v].evidence \subseteq Frames
    BY DEF TInv, TypeOK, Processes
  <2>4. Alerts' = Alerts /\ \A e \in Alerts : e.evidence \subseteq Frames
    BY <1>3, AlertTypes DEF Alerts
  <2> QED BY <1>3, <1>10, <2>1, <2>2, <2>3, <2>4 DEF AlertInv, FreshInv
<1>12. HomeInv'
  BY <1>3, <1>4 DEF AlertInv, HomeInv, Device, Frame
<1>13. SpentInv' /\ OneAlertPerWorker'
  <2>1. Alerts' = Alerts /\ \A e \in Alerts : e.worker \in Workers
    BY <1>3, AlertTypes DEF Alerts
  <2>2. \A v \in Workers : Firing(v)' => Firing(v) /\ worker'[v] = worker[v]
    BY <1>4 DEF Firing, At
  <2>3. \A v \in Workers : worker'[v].evidence \subseteq worker[v].evidence
    BY <1>4
  <2> QED BY <1>3, <2>1, <2>2, <2>3 DEF AlertInv, SpentInv, OneAlertPerWorker
<1> QED BY <1>9, <1>11, <1>12, <1>13 DEF AlertInv

LEMMA ExpireCalm ==
  ASSUME TInv, NEW d \in Devices, Expire(d)
  PROVE  Calm
<1>1. worker' = worker /\ stream' = stream /\ entry' = entry /\ Alerts' = Alerts
  BY DEF Expire, Alerts
<1>2. \A w \in Workers : Proceeds(w)
  BY <1>1 DEF Proceeds, Todo, Firing, At
<1>3. \A c \in Devices : Range(scores'[c]) \subseteq Range(scores[c])
  <2>1. CASE scores' = scores
    BY <2>1
  <2>2. CASE scores' = [scores EXCEPT ![d] = <<>>]
    <3>1. scores'[d] = <<>> /\ \A c \in Devices \ {d} : scores'[c] = scores[c]
      BY <2>2, ClearedTypes
    <3> QED BY <3>1, EmptyFacts
  <2> QED BY <2>1, <2>2 DEF Expire
<1> QED BY <1>1, <1>2, <1>3 DEF Calm

LEMMA AlertStep == TInv /\ AlertInv /\ [Next]_vars => AlertInv'
<1> SUFFICES ASSUME TInv, AlertInv, [Next]_vars PROVE AlertInv'
  OBVIOUS
<1>1. ASSUME NEW f \in Frames, Arrive(f) PROVE AlertInv'
  BY <1>1, ArriveKeeps
<1>2. ASSUME NEW w \in Workers, Read(w) PROVE AlertInv'
  BY <1>2, ReadKeeps
<1>3. ASSUME NEW w \in Workers, Handle(w) PROVE AlertInv'
  <2>1. CASE AckFrame(w)
    <3>1. worker[w].phase \notin {"read", "hung"} /\ NextFrame(w)
      BY <2>1 DEF AckFrame, At
    <3> QED BY <2>1, <3>1, NextFrameCalm, CalmKeeps DEF AckFrame
  <2>2. CASE SkipEntry(w)
    <3>1. worker[w].phase \notin {"read", "hung"} /\ NextFrame(w)
      BY <2>2 DEF SkipEntry, At
    <3> QED BY <2>2, <3>1, NextFrameCalm, CalmKeeps DEF SkipEntry
  <2>3. CASE CheckCooldown(w) \/ RecordFire(w)
    <3>1. \A v \in Workers : Proceeds(v)
      BY <2>3, HandlerProceeds
    <3>2. stream' = stream /\ entry' = entry /\ scores' = scores /\ Alerts' = Alerts
      BY <2>3 DEF CheckCooldown, RecordFire, Alerts
    <3>3. Calm
      BY <3>1, <3>2 DEF Calm
    <3> QED BY <3>3, CalmKeeps
  <2> QED BY <1>3, <2>1, <2>2, <2>3, ScoreKeeps, MarkKeeps, ReportKeeps DEF Handle
<1>4. ASSUME NEW w \in Workers, HandlerFails(w) PROVE AlertInv'
  BY <1>4, NextFrameCalm, CalmKeeps DEF HandlerFails
<1>5. ASSUME NEW w \in Workers, Crash(w) \/ Hang(w) \/ Watchdog(w) PROVE AlertInv'
  <2>1. PICK p \in {"read", "hung"} : Stops(w, p)
    BY <1>5 DEF Crash, Hang, Watchdog
  <2> QED BY <2>1, StopsCalm, CalmKeeps
<1>6. ASSUME NEW d \in Devices, Expire(d) PROVE AlertInv'
  BY <1>6, ExpireCalm, CalmKeeps
<1>7. ASSUME UNCHANGED vars PROVE AlertInv'
  <2>1. Calm
    BY <1>7 DEF vars, Calm, Proceeds, Todo, Firing, At, Alerts
  <2> QED BY <2>1, CalmKeeps
<1> QED BY <1>1, <1>2, <1>3, <1>4, <1>5, <1>6, <1>7 DEF Next

\* No worker raises two alerts on one frame, whatever the others append, fire
\* and clear in between, and whatever fails (detection.py: mark_suppressed).
THEOREM OneAlertPerFrameAndWorker == Spec => []OneAlertPerWorker
<1>1. Init => TInv /\ AlertInv
  BY TypeInit, AlertInit
<1>2. TInv /\ AlertInv /\ [Next]_vars => (TInv /\ AlertInv)'
  BY TypeStep, AlertStep
<1>3. AlertInv => OneAlertPerWorker
  BY DEF AlertInv
<1> QED BY <1>1, <1>2, <1>3, PTL DEF Spec

-----------------------------------------------------------------------------
(* A chronic mute has its reason *)

\* The frames of a set that speak for a chronic mute of f.
Company(frames, f) ==
  {g \in frames : DeviceOf[g] = DeviceOf[f] /\ TimeOf[g] + ChronicWindow > TimeOf[f]}

Chronic(frames, f) == Cardinality(Company(frames, f)) >= ChronicThreshold

\* What is in the sorted sets was recorded, and whoever is about to report a
\* chronic mute has its reason already.
MuteInv ==
  /\ IsFiniteSet(fired)
  /\ \A d \in Devices : \A t \in fires[d] :
       \E f \in fired : DeviceOf[f] = d /\ TimeOf[f] = t
  /\ \A w \in Workers : worker[w].reason = "chronic" => Chronic(fired, Frame(w))
  /\ MutedHadCompany

\* The reason does not go away when more is recorded.
LEMMA ChronicGrows ==
  ASSUME NEW S, NEW T, IsFiniteSet(T), S \subseteq T, NEW f, Chronic(S, f)
  PROVE  Chronic(T, f)
<1>1. Company(S, f) \subseteq Company(T, f) /\ Company(T, f) \subseteq T
  BY DEF Company
<1>2. IsFiniteSet(Company(T, f))
  BY <1>1, FS_Subset
<1>3. /\ IsFiniteSet(Company(S, f))
      /\ Cardinality(Company(S, f)) <= Cardinality(Company(T, f))
  BY <1>1, <1>2, FS_Subset
<1>4. Cardinality(Company(S, f)) \in Nat /\ Cardinality(Company(T, f)) \in Nat
  BY <1>2, <1>3, FS_CardinalityType
<1> QED BY <1>3, <1>4, LimitAssumption DEF Chronic

\* As many times as frames at most: each time is that of a frame.
LEMMA TimesOfFrames ==
  ASSUME NEW S \in SUBSET Frames, IsFiniteSet(S), NEW times,
         \A t \in times : \E f \in S : TimeOf[f] = t
  PROVE  Cardinality(times) \in Nat /\ Cardinality(times) <= Cardinality(S)
<1> DEFINE R == {f \in S : TimeOf[f] \in times}
           time == [f \in R |-> TimeOf[f]]
<1>1. IsFiniteSet(R) /\ Cardinality(R) <= Cardinality(S)
  BY FS_Subset
<1>2. time \in Surjection(R, times)
  BY DEF Surjection
<1>3. IsFiniteSet(times) /\ Cardinality(times) <= Cardinality(R)
  <2> HIDE DEF time, R
  <2> QED BY <1>1, <1>2, FS_Surjection
<1>4. Cardinality(R) \in Nat /\ Cardinality(S) \in Nat /\ Cardinality(times) \in Nat
  BY <1>1, <1>3, FS_CardinalityType
<1> QED BY <1>1, <1>3, <1>4

LEMMA MuteInit == Init => MuteInv
<1> SUFFICES ASSUME Init PROVE MuteInv
  OBVIOUS
<1>1. IsFiniteSet(fired)
  BY FS_EmptySet DEF Init
<1>2. \A w \in Workers : worker[w].reason = ""
  BY DEF Init, Idle
<1>3. /\ \A d \in Devices : fires[d] = {}
      /\ reported = {}
  BY DEF Init
<1> QED BY <1>1, <1>2, <1>3 DEF MuteInv, MutedHadCompany

\* A step that records no fire keeps the invariant, if it gives no worker a
\* reason to mute and reports no mute.
LEMMA QuietKeeps ==
  ASSUME TInv, MuteInv, fired' = fired,
         \A d \in Devices : fires'[d] \subseteq fires[d],
         \A e \in reported' : e.reason = "chronic" => e \in reported,
         \A w \in Workers : worker'[w].reason = "chronic" =>
           worker[w].reason = "chronic" /\ worker'[w].batch = worker[w].batch
  PROVE  MuteInv'
<1>1. IsFiniteSet(fired')
  BY DEF MuteInv
<1>2. \A d \in Devices : \A t \in fires'[d] :
        \E f \in fired' : DeviceOf[f] = d /\ TimeOf[f] = t
  BY DEF MuteInv
<1>3. \A w \in Workers : worker'[w].reason = "chronic" => Chronic(fired, Frame(w)')
  BY DEF MuteInv, Frame
<1>4. MutedHadCompany'
  BY DEF MuteInv, MutedHadCompany
<1> QED BY <1>1, <1>2, <1>3, <1>4 DEF MuteInv, Chronic, Company

LEMMA RecordKeeps ==
  ASSUME TInv, MuteInv, NEW w \in Workers, RecordFire(w)
  PROVE  MuteInv'
<1> DEFINE f == Frame(w)
           recent == RecentFires(f)
<1>1. /\ f \in Frames /\ DeviceOf[f] \in Devices /\ Device(w) = DeviceOf[f]
      /\ worker[w].batch \in Seq(Frames)
  BY BusyFacts DEF RecordFire, At, Device
<1>2. fired' = fired \cup {f} /\ fires' = [fires EXCEPT ![DeviceOf[f]] = recent]
  BY <1>1 DEF RecordFire
<1>3. IsFiniteSet(fired') /\ fired \subseteq fired'
  BY <1>2, FS_AddElement DEF MuteInv
<1>4. /\ fires \in [Devices -> SUBSET Nat] /\ fired \subseteq Frames
      /\ worker \in [Workers -> Processes]
  BY DEF TInv, TypeOK
<1>5. \A t \in recent : \E g \in fired' : DeviceOf[g] = DeviceOf[f] /\ TimeOf[g] = t
  BY <1>1, <1>2 DEF RecentFires, MuteInv
<1>6. \A d \in Devices : \A t \in fires'[d] :
        \E g \in fired' : DeviceOf[g] = d /\ TimeOf[g] = t
  BY <1>1, <1>2, <1>4, <1>5 DEF MuteInv
<1>7. ASSUME Cardinality(recent) >= ChronicThreshold PROVE Chronic(fired', f)
  <2>1. \A t \in recent : \E g \in Company(fired', f) : TimeOf[g] = t
    <3> SUFFICES ASSUME NEW t \in recent
                 PROVE  \E g \in Company(fired', f) : TimeOf[g] = t
      OBVIOUS
    <3>1. PICK g \in fired' : DeviceOf[g] = DeviceOf[f] /\ TimeOf[g] = t
      BY <1>5
    <3>2. t + ChronicWindow > TimeOf[f]
      BY DEF RecentFires
    <3> QED BY <3>1, <3>2 DEF Company
  <2>2. Company(fired', f) \subseteq fired' /\ fired' \subseteq Frames
    BY <1>1, <1>2, <1>4 DEF Company
  <2>3. IsFiniteSet(Company(fired', f))
    BY <1>3, <2>2, FS_Subset
  <2> HIDE DEF recent
  <2>4. /\ Cardinality(recent) \in Nat
        /\ Cardinality(recent) <= Cardinality(Company(fired', f))
    BY <2>1, <2>2, <2>3, TimesOfFrames
  <2>5. Cardinality(Company(fired', f)) \in Nat
    BY <2>3, FS_CardinalityType
  <2> QED BY <1>7, <2>4, <2>5, LimitAssumption DEF Chronic
<1>8. /\ \A v \in Workers \ {w} : worker'[v] = worker[v]
      /\ worker'[w].batch = worker[w].batch
      /\ worker'[w].reason = "chronic" => Cardinality(recent) >= ChronicThreshold
  <2>1. PICK v : Stand(w, v) /\ v.reason = (IF Cardinality(recent) >= ChronicThreshold
                                           THEN "chronic" ELSE "")
                 /\ v.phase = "mark" /\ v.evidence = worker[w].evidence
    <3> DEFINE v == [worker[w] EXCEPT !.phase = "mark",
                       !.reason = IF Cardinality(recent) >= ChronicThreshold
                                  THEN "chronic" ELSE ""]
    <3>1. Stand(w, v)
      BY DEF RecordFire
    <3>2. worker[w] \in Processes
      BY <1>4
    <3>3. v.phase = "mark" /\ v.evidence = worker[w].evidence
      BY <3>2 DEF Processes
    <3>4. v.reason = IF Cardinality(recent) >= ChronicThreshold THEN "chronic" ELSE ""
      BY <3>2 DEF Processes
    <3> QED BY <3>1, <3>3, <3>4
  <2>2. worker[w].evidence \in SUBSET Frames
    BY <1>4 DEF Processes
  <2>3. v.reason \in Reasons
    BY <2>1 DEF Reasons
  <2>4. /\ \A u \in Workers \ {w} : worker'[u] = worker[u]
        /\ worker'[w].batch = worker[w].batch /\ worker'[w].reason = v.reason
    BY <2>1, <2>2, <2>3, StandFacts
  <2> QED BY <2>1, <2>4
<1> HIDE DEF f, recent
<1>9. ASSUME NEW v \in Workers, worker'[v].reason = "chronic"
      PROVE  Chronic(fired', Frame(v)')
  <2>1. CASE v = w
    <3>1. Frame(v)' = f
      BY <1>8, <2>1 DEF Frame, f
    <3> QED BY <1>7, <1>8, <1>9, <2>1, <3>1
  <2>2. CASE v # w
    <3>1. worker'[v] = worker[v] /\ Frame(v)' = Frame(v)
      BY <1>8, <2>2 DEF Frame
    <3>2. Chronic(fired, Frame(v))
      BY <1>9, <3>1 DEF MuteInv
    <3> QED BY <1>3, <3>1, <3>2, ChronicGrows
  <2> QED BY <2>1, <2>2
<1>10. ASSUME NEW e \in reported', e.reason = "chronic" PROVE Chronic(fired', e.frame)
  <2>1. e \in reported
    BY <1>10 DEF RecordFire
  <2>2. Chronic(fired, e.frame)
    BY <1>10, <2>1 DEF MuteInv, MutedHadCompany, Chronic, Company
  <2> QED BY <1>3, <2>2, ChronicGrows
<1> QED BY <1>3, <1>6, <1>9, <1>10 DEF MuteInv, MutedHadCompany, Chronic, Company

LEMMA ReportMutes ==
  ASSUME TInv, MuteInv, NEW w \in Workers, Report(w)
  PROVE  MuteInv'
<1>1. /\ \A v \in Workers \ {w} : worker'[v] = worker[v]
      /\ worker'[w].reason = ""
  <2>1. worker \in [Workers -> Processes]
    BY DEF TInv, TypeOK
  <2> QED BY <2>1 DEF Report, Stand
<1>2. fired' = fired /\ fires' = fires
  BY DEF Report
<1>3. \A v \in Workers : worker'[v].reason = "chronic" =>
        worker[v].reason = "chronic" /\ worker'[v].batch = worker[v].batch
  BY <1>1
<1>4. ASSUME NEW e \in reported', e.reason = "chronic" PROVE Chronic(fired, e.frame)
  <2>1. CASE e \in reported
    BY <1>4, <2>1 DEF MuteInv, MutedHadCompany, Chronic, Company
  <2>2. CASE e \notin reported
    <3> DEFINE event == [worker |-> w, frame |-> Frame(w),
                         evidence |-> worker[w].evidence, reason |-> worker[w].reason]
    <3>1. e.frame = Frame(w) /\ e.reason = worker[w].reason
      <4>1. reported' = reported \cup {event} \/ reported' = reported
        BY DEF Report
      <4>2. e = event
        BY <2>2, <4>1
      <4> QED BY <4>2
    <3> QED BY <1>4, <3>1 DEF MuteInv
  <2> QED BY <2>1, <2>2
<1>5. \A v \in Workers : worker'[v].reason = "chronic" => Chronic(fired, Frame(v)')
  BY <1>3 DEF MuteInv, Frame
<1> QED BY <1>2, <1>4, <1>5 DEF MuteInv, MutedHadCompany, Chronic, Company

LEMMA MuteStep == TInv /\ MuteInv /\ [Next]_vars => MuteInv'
<1> SUFFICES ASSUME TInv, MuteInv, [Next]_vars PROVE MuteInv'
  OBVIOUS
<1> DEFINE Calmer(v) == worker'[v].reason = "chronic" =>
             worker[v].reason = "chronic" /\ worker'[v].batch = worker[v].batch
<1>t. /\ worker \in [Workers -> Processes] /\ fires \in [Devices -> SUBSET Nat]
  BY DEF TInv, TypeOK
<1>n. ASSUME NEW w \in Workers, NextFrame(w) PROVE \A v \in Workers : Calmer(v)
  <2>1. worker'[w].reason = "" /\ \A v \in Workers \ {w} : worker'[v] = worker[v]
    BY <1>t, <1>n DEF NextFrame, Idle
  <2> QED BY <2>1
<1>1. ASSUME NEW f \in Frames, Arrive(f) PROVE MuteInv'
  BY <1>1, QuietKeeps DEF Arrive
<1>2. ASSUME NEW w \in Workers, Read(w) PROVE MuteInv'
  <2>1. worker'[w].reason = "" /\ \A v \in Workers \ {w} : worker'[v] = worker[v]
    BY <1>t, <1>2 DEF Read, Idle
  <2> QED BY <1>2, <2>1, QuietKeeps DEF Read
<1>3. ASSUME NEW w \in Workers, Handle(w) PROVE MuteInv'
  <2>1. CASE AckFrame(w)
    BY <2>1, <1>n, QuietKeeps DEF AckFrame
  <2>2. CASE SkipEntry(w)
    BY <2>2, <1>n, QuietKeeps DEF SkipEntry
  <2>3. CASE Score(w)
    <3>1. PICK window : Stand(w, Verdict(window))
      BY <2>3 DEF Score
    <3>2. Verdict(window).reason # "chronic"
      BY DEF Verdict
    <3>3. /\ worker'[w].reason = Verdict(window).reason
          /\ \A v \in Workers \ {w} : worker'[v] = worker[v]
      BY <1>t, <3>1 DEF Stand
    <3> QED BY <2>3, <3>2, <3>3, QuietKeeps DEF Score
  <2>4. CASE CheckCooldown(w)
    <3>1. CASE Go(w, "record")
      BY <2>4, <3>1, GoFacts, QuietKeeps DEF CheckCooldown
    <3>2. CASE ~Go(w, "record")
      <4> DEFINE v == [worker[w] EXCEPT !.phase = "report", !.reason = "cooldown"]
      <4>1. Stand(w, v) /\ v.reason = "cooldown"
        BY <1>t, <2>4, <3>2 DEF CheckCooldown, Processes
      <4> HIDE DEF v
      <4>2. worker'[w].reason # "chronic" /\ \A u \in Workers \ {w} : worker'[u] = worker[u]
        BY <1>t, <4>1 DEF Stand
      <4> QED BY <2>4, <4>2, QuietKeeps DEF CheckCooldown
    <3> QED BY <3>1, <3>2
  <2>5. CASE MarkSuppressed(w)
    <3>1. /\ worker'[w].reason = worker[w].reason /\ worker'[w].batch = worker[w].batch
          /\ \A v \in Workers \ {w} : worker'[v] = worker[v]
      BY <2>5, GoFacts DEF MarkSuppressed
    <3> QED BY <2>5, <3>1, QuietKeeps DEF MarkSuppressed
  <2> QED BY <1>3, <2>1, <2>2, <2>3, <2>4, <2>5, RecordKeeps, ReportMutes DEF Handle
<1>4. ASSUME NEW w \in Workers, HandlerFails(w) PROVE MuteInv'
  BY <1>4, <1>n, QuietKeeps DEF HandlerFails
<1>5. ASSUME NEW w \in Workers, Crash(w) \/ Hang(w) \/ Watchdog(w) PROVE MuteInv'
  <2>1. PICK p : Stops(w, p)
    BY <1>5 DEF Crash, Hang, Watchdog
  <2>2. worker'[w].reason = "" /\ \A v \in Workers \ {w} : worker'[v] = worker[v]
    BY <1>t, <2>1 DEF Stops, Idle
  <2> QED BY <2>1, <2>2, QuietKeeps DEF Stops
<1>6. ASSUME NEW d \in Devices, Expire(d) PROVE MuteInv'
  <2>1. \A x \in Devices : fires'[x] \subseteq fires[x]
    BY <1>t, <1>6 DEF Expire
  <2> QED BY <1>6, <2>1, QuietKeeps DEF Expire
<1>7. ASSUME UNCHANGED vars PROVE MuteInv'
  BY <1>7, QuietKeeps DEF vars
<1> QED BY <1>1, <1>2, <1>3, <1>4, <1>5, <1>6, <1>7 DEF Next

\* A mute as chronic is backed by as many fires of the device as that takes, for
\* any number of workers that trim its set by their own frames, in any order
\* (detection.py: record_fire_and_chronic).
THEOREM ChronicMutesAreJustified == Spec => []MutedHadCompany
<1>1. Init => TInv /\ MuteInv
  BY TypeInit, MuteInit
<1>2. TInv /\ MuteInv /\ [Next]_vars => (TInv /\ MuteInv)'
  BY TypeStep, MuteStep
<1>3. MuteInv => MutedHadCompany
  BY DEF MuteInv
<1> QED BY <1>1, <1>2, <1>3, PTL DEF Spec
=============================================================================
