----------------------------- MODULE TakPublisher -----------------------------
(***************************************************************************)
(* The TAK publisher: Pub/Sub messages to Cursor-on-Target events on one   *)
(* socket to a TAK server.                                                 *)
(*                                                                         *)
(* Pub/Sub calls _on_message in a pool of threads; the calls that are not  *)
(* duplicates put their message on an asyncio queue; one coroutine takes   *)
(* the messages off it, one at a time, and writes them to the socket.      *)
(***************************************************************************)
EXTENDS PubSub, Sequences, FiniteSets, SequencesExt

CONSTANTS
  Detections,       \* detection ids
  DetectionOf,      \* the detection a message is about
  Readable,         \* messages whose data parses
  Located,          \* detections with a usable location
  FlowMax,          \* FlowControl(max_messages)
  DedupSize         \* dedup_cache_size

ASSUME MessageAssumption ==
  /\ DetectionOf \in [Messages -> Detections]
  /\ Readable \subseteq Messages
  /\ Located \subseteq Detections
ASSUME SizeAssumption == FlowMax \in Nat \ {0} /\ DedupSize \in Nat \ {0}

VARIABLES
  running,          \* the process is up and pulls
  callback,         \* deliveries whose callback found no duplicate
  dedup,            \* _LruSet, oldest first
  queue,            \* deliveries on the asyncio queue
  sending,          \* the delivery being sent and the writes it has left, or {}
  writer,           \* _writer is not None
  written,          \* detections whose write succeeded
  disturbed         \* detections whose delivery was taken back while held here

vars == <<sub, running, callback, dedup, queue, sending, writer, written, disturbed>>

process == <<running, callback, dedup, queue, sending, writer>>

Deliveries == [message : Messages, attempt : 1..MaxAttempts]

\* One attempt in TakClient.send per connection it may use.
MaxWrites == 2

Detection(delivery) == DetectionOf[delivery.message]

\* Deliveries this process has neither acked nor nacked.
Held == callback \cup Range(queue) \cup {s.delivery : s \in sending}

Leased(delivery) ==
  /\ sub[delivery.message].phase = "out"
  /\ sub[delivery.message].attempt = delivery.attempt

Init ==
  /\ SubscriptionInit
  /\ running = FALSE
  /\ callback = {} /\ dedup = <<>> /\ queue = <<>> /\ sending = {}
  /\ writer = FALSE
  /\ written = {} /\ disturbed = {}

-----------------------------------------------------------------------------
(* Pub/Sub *)

Ack(delivery) == Acknowledge({delivery.message})

\* A nack counts only within the lease.
Nack(delivery) ==
  \/ Leased(delivery) /\ TakeBack(delivery.message)
  \/ UNCHANGED sub

Publish(m) ==
  /\ Leave(m)
  /\ UNCHANGED <<process, written, disturbed>>

\* The lease runs out: the process is gone, the ack was lost, or the delivery
\* is held longer than the client library extends leases for.
LeaseExpires(m) ==
  /\ TakeBack(m)
  /\ disturbed' = disturbed \cup {Detection(h) : h \in {x \in Held : x.message = m}}
  /\ UNCHANGED <<process, written>>

-----------------------------------------------------------------------------
(* DetectionSubscriber *)

\* Moves a key that is there already to the young end.
Touch(key) ==
  \E i \in DOMAIN dedup :
    dedup[i] = key /\ dedup' = Append(RemoveAt(dedup, i), key)

\* Mutant: nothing is evicted.
InsertForEver(key) ==
  dedup' = IF key \in Range(dedup) THEN dedup ELSE Append(dedup, key)

\* Adds the key at the young end, and evicts the oldest if there is no room.
Insert(key) ==
  dedup' = IF key \in Range(dedup) THEN dedup
           ELSE IF Len(dedup) < DedupSize THEN Append(dedup, key)
           ELSE Tail(Append(dedup, key))

Delivered(m) == [message |-> m, attempt |-> sub[m].attempt + 1]

\* _on_message up to the membership test of _LruSet.add.  Flow control stops
\* deliveries at FlowMax leased messages.
Receive(m) ==
  /\ running
  /\ Cardinality({h \in Held : Leased(h)}) < FlowMax
  /\ \/ /\ m \notin Readable
        /\ Deliver(m, {"done", "out"})
        /\ UNCHANGED <<dedup, callback>>
     \/ /\ m \in Readable
        /\ DetectionOf[m] \in Range(dedup)
        /\ Touch(DetectionOf[m])
        /\ Deliver(m, {"done", "out"})
        /\ UNCHANGED callback
     \/ /\ m \in Readable
        /\ DetectionOf[m] \notin Range(dedup)
        /\ Deliver(m, {"out"})
        /\ callback' = callback \cup {Delivered(m)}
        /\ UNCHANGED dedup
  /\ UNCHANGED <<running, queue, sending, writer, written, disturbed>>

\* The rest of it.  Another thread may have come between.
Enqueue(c) ==
  /\ Insert(Detection(c))
  /\ queue' = Append(queue, c)
  /\ callback' = callback \ {c}
  /\ UNCHANGED <<sub, running, sending, writer, written, disturbed>>

-----------------------------------------------------------------------------
(* Publisher and TakClient *)

\* Without a location there is nothing to show.
SkipUnlocated ==
  /\ sending = {} /\ queue # <<>>
  /\ Detection(Head(queue)) \notin Located
  /\ Ack(Head(queue))
  /\ queue' = Tail(queue)
  /\ UNCHANGED <<running, callback, dedup, sending, writer, written, disturbed>>

\* Mutant: acked when it is taken off the queue, not when it is written.
TakeAndAck ==
  /\ sending = {} /\ queue # <<>>
  /\ Detection(Head(queue)) \in Located
  /\ sending' = {[delivery |-> Head(queue), writes |-> MaxWrites]}
  /\ Ack(Head(queue))
  /\ queue' = Tail(queue)
  /\ UNCHANGED <<running, callback, dedup, writer, written, disturbed>>

Take ==
  /\ sending = {} /\ queue # <<>>
  /\ Detection(Head(queue)) \in Located
  /\ sending' = {[delivery |-> Head(queue), writes |-> MaxWrites]}
  /\ queue' = Tail(queue)
  /\ UNCHANGED <<sub, running, callback, dedup, writer, written, disturbed>>

\* Mutant: the connection is restored only between two messages.
ReconnectWhenIdle ==
  /\ sending = {} /\ running /\ ~writer
  /\ writer' = TRUE
  /\ UNCHANGED <<sub, running, callback, dedup, queue, sending, written, disturbed>>

\* _connect_with_backoff gets through in the end.
Reconnect ==
  /\ sending # {} /\ ~writer
  /\ writer' = TRUE
  /\ UNCHANGED <<sub, running, callback, dedup, queue, sending, written, disturbed>>

Write ==
  /\ writer
  /\ \E s \in sending :
       /\ Ack(s.delivery)
       /\ written' = written \cup {Detection(s.delivery)}
  /\ sending' = {}
  /\ UNCHANGED <<running, callback, dedup, queue, writer, disturbed>>

\* An error or a timeout: the socket goes, and after the second write the
\* message does too.
WriteFails ==
  /\ writer
  /\ writer' = FALSE
  /\ \E s \in sending :
       \/ /\ s.writes > 1
          /\ sending' = {[s EXCEPT !.writes = @ - 1]}
          /\ UNCHANGED <<sub, disturbed>>
       \/ /\ s.writes = 1
          /\ sending' = {}
          /\ Nack(s.delivery)
          /\ disturbed' = disturbed \cup {Detection(s.delivery)}
  /\ UNCHANGED <<running, callback, dedup, queue, written>>

-----------------------------------------------------------------------------
(* The process *)

\* A failing first connect ends the process, which is started again.
Start ==
  /\ ~running
  /\ running' = TRUE /\ writer' = TRUE
  /\ UNCHANGED <<sub, callback, dedup, queue, sending, written, disturbed>>

\* SIGTERM, a crash or a new revision: what was held is neither acked nor
\* nacked, and the next process remembers nothing.
Stop ==
  /\ running
  /\ running' = FALSE /\ writer' = FALSE
  /\ callback' = {} /\ dedup' = <<>> /\ queue' = <<>> /\ sending' = {}
  /\ UNCHANGED <<sub, written, disturbed>>

Next ==
  \/ \E m \in Messages : Publish(m) \/ LeaseExpires(m) \/ Receive(m)
  \/ \E c \in callback : Enqueue(c)
  \/ SkipUnlocated \/ Take \/ Reconnect \/ Write \/ WriteFails
  \/ Start \/ Stop

Spec == Init /\ [][Next]_vars
-----------------------------------------------------------------------------
(* Properties *)

\* Types; the dedup set never outgrows its size and holds no key twice, though
\* threads add to it without a lock.
TypeOK ==
  /\ sub \in Subscriptions
  /\ running \in BOOLEAN /\ writer \in BOOLEAN
  /\ callback \subseteq Deliveries
  /\ dedup \in Seq(Detections)
  /\ Len(dedup) <= DedupSize /\ IsInjective(dedup)
  /\ queue \in Seq(Deliveries)
  /\ sending \subseteq [delivery : Deliveries, writes : 1..MaxWrites]
  /\ written \subseteq Detections /\ disturbed \subseteq Detections

Copies(d) == {m \in Readable : DetectionOf[m] = d}

\* Pub/Sub considers the detection dealt with: it has nothing left of it to
\* deliver, and no dead letter either.
Settled(d) ==
  /\ \E m \in Copies(d) : sub[m].phase = "done"
  /\ \A m \in Copies(d) : sub[m].phase \in {"new", "done"}

\* A detection with a location vanishes without a write only after a failed
\* send or a lease lost while it was held: neither crashes, lost acks, several
\* copies in several threads nor evictions from the dedup set lose one.
NothingLost ==
  \A d \in Located : Settled(d) => d \in written \cup disturbed

\* The server is reached in the end, a write succeeds or times out, a process is
\* started again, and what nobody holds any more comes back.
Fairness ==
  /\ \A m \in Messages :
       /\ SF_vars(Receive(m))
       /\ WF_vars(LeaseExpires(m) /\ \A h \in Held : h.message # m)
  /\ WF_vars(\E c \in callback : Enqueue(c))
  /\ WF_vars(SkipUnlocated) /\ WF_vars(Take)
  /\ WF_vars(Reconnect) /\ WF_vars(Write \/ WriteFails)
  /\ WF_vars(Start)

FairSpec == Spec /\ Fairness

\* Every published message is acknowledged or becomes a dead letter: nothing
\* waits for ever behind a message that cannot be sent.
EverySettles ==
  \A m \in Messages :
    sub[m].phase = "ready" ~> sub[m].phase \in SettledPhases
=============================================================================
