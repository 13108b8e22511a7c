-------------------------------- MODULE Egress --------------------------------
(***************************************************************************)
(* The egress publisher and receiver: Pub/Sub messages to numbered batches *)
(* to one stream at a time, and acks back.                                 *)
(*                                                                         *)
(* The publisher numbers its batches for as long as it lives; the receiver *)
(* numbers the batches of a stream, and its acks carry that number.  A     *)
(* stream dies whenever it likes.  The request iterator of a dead stream   *)
(* may be left waiting on the queue: then it takes one more batch, for     *)
(* nobody.                                                                 *)
(***************************************************************************)
EXTENDS PubSub, Sequences, FiniteSets, SequencesExt

CONSTANTS
  Readable,         \* messages whose data parses
  FlowMax,          \* FlowControl(max_messages)
  BatchSize,        \* batch_size
  QueueMax,         \* maxsize of _out_q
  MaxOrphans        \* bound: request iterators left behind

ASSUME ReadableAssumption == Readable \subseteq Messages
ASSUME EgressSizes ==
  {FlowMax, BatchSize, QueueMax} \subseteq Nat \ {0} /\ MaxOrphans \in Nat

VARIABLES
  running,          \* the publisher is up and pulls
  leased,           \* messages the client library keeps leases for
  buf,              \* _buf
  outQ,             \* _out_q and the batch that waits for room in it
  batchSeq,         \* _batch_seq
  stream,           \* the open stream, or {}
  orphans,          \* request iterators of dead streams still waiting
  counted,          \* messages the receiver has recorded
  dropped           \* messages whose batch went down with a stream or a process

vars == <<sub, running, leased, buf, outQ, batchSeq, stream, orphans, counted, dropped>>

Batches == [seq : Nat \ {0}, messages : SUBSET Messages]

\* pending and wire are the publisher's, received and acks the receiver's half.
Streams == [pending  : SUBSET Batches,
            wire     : Seq(Batches),
            received : Nat,
            acks     : Seq(Nat)]

NewStream == [pending |-> {}, wire |-> <<>>, received |-> 0, acks |-> <<>>]

Contents(batches) == UNION {batch.messages : batch \in Range(batches)}

Init ==
  /\ SubscriptionInit
  /\ running = FALSE /\ leased = {}
  /\ buf = <<>> /\ outQ = <<>> /\ batchSeq = 0
  /\ stream = {} /\ orphans = 0
  /\ counted = {} /\ dropped = {}

-----------------------------------------------------------------------------
(* Pub/Sub *)

Publish(m) ==
  /\ Leave(m)
  /\ UNCHANGED <<running, leased, buf, outQ, batchSeq, stream, orphans, counted, dropped>>

LeaseExpires(m) ==
  /\ TakeBack(m)
  /\ leased' = leased \ {m}
  /\ UNCHANGED <<running, buf, outQ, batchSeq, stream, orphans, counted, dropped>>

-----------------------------------------------------------------------------
(* Subscriber and GrpcForwarder *)

\* _on_message, and enqueue for a message that parses.
Receive(m) ==
  /\ running
  /\ Cardinality(leased) < FlowMax
  /\ \/ /\ m \notin Readable
        /\ Deliver(m, {"done", "out"})
        /\ UNCHANGED <<leased, buf>>
     \/ /\ m \in Readable
        /\ Deliver(m, {"out"})
        /\ leased' = leased \cup {m}
        /\ buf' = Append(buf, m)
  /\ UNCHANGED <<running, outQ, batchSeq, stream, orphans, counted, dropped>>

\* Mutant: only a full buffer is flushed.
DrainWhenFull ==
  /\ Len(buf) >= BatchSize
  /\ Len(outQ) <= QueueMax
  /\ batchSeq' = batchSeq + 1
  /\ outQ' = Append(outQ, [seq |-> batchSeq', messages |-> Range(buf)])
  /\ buf' = <<>>
  /\ UNCHANGED <<sub, running, leased, stream, orphans, counted, dropped>>

\* A full buffer or the timer: all of the buffer becomes one batch.
Drain ==
  /\ buf # <<>>
  /\ Len(outQ) <= QueueMax
  /\ batchSeq' = batchSeq + 1
  /\ outQ' = Append(outQ, [seq |-> batchSeq', messages |-> Range(buf)])
  /\ buf' = <<>>
  /\ UNCHANGED <<sub, running, leased, stream, orphans, counted, dropped>>

OpenStream ==
  /\ running /\ stream = {}
  /\ stream' = {NewStream}
  /\ UNCHANGED <<sub, running, leased, buf, outQ, batchSeq, orphans, counted, dropped>>

\* request_iter of the open stream.
Send ==
  /\ outQ # <<>>
  /\ \E s \in stream :
       stream' = {[s EXCEPT !.pending = @ \cup {Head(outQ)},
                            !.wire = Append(@, Head(outQ))]}
  /\ outQ' = Tail(outQ)
  /\ UNCHANGED <<sub, running, leased, buf, batchSeq, orphans, counted, dropped>>

\* request_iter of a dead one: it books the batch in a dictionary nobody reads.
OrphanTakes ==
  /\ orphans > 0 /\ outQ # <<>>
  /\ orphans' = orphans - 1
  /\ outQ' = Tail(outQ)
  /\ dropped' = dropped \cup Head(outQ).messages
  /\ UNCHANGED <<sub, running, leased, buf, batchSeq, stream, counted>>

\* The batch an ack is taken to be about.
PendingOf(s, n) == {p \in s.pending : p.seq = n}

\* A BatchAck arrives: the messages of the batch pending under its number, if
\* there is one, are acked.
TakeAck ==
  \E s \in stream :
    /\ s.acks # <<>>
    /\ LET matched == PendingOf(s, Head(s.acks))
           acked   == UNION {p.messages : p \in matched}
       IN /\ Acknowledge(acked)
          /\ leased' = leased \ acked
          /\ stream' = {[s EXCEPT !.pending = @ \ matched, !.acks = Tail(@)]}
    /\ UNCHANGED <<running, buf, outQ, batchSeq, orphans, counted, dropped>>

-----------------------------------------------------------------------------
(* The receiver *)

\* StreamBatches, one turn of its loop.
ReceiveBatch ==
  \E s \in stream :
    /\ s.wire # <<>>
    /\ stream' = {[s EXCEPT !.received = @ + 1,
                            !.wire = Tail(@),
                            !.acks = Append(@, s.received + 1)]}
    /\ counted' = counted \cup Head(s.wire).messages
    /\ UNCHANGED <<sub, running, leased, buf, outQ, batchSeq, orphans, dropped>>

\* Mutant: one dictionary of pending batches for all streams.
PendingSurvives ==
  \E s \in stream :
    /\ stream' = {[NewStream EXCEPT !.pending = s.pending]}
    /\ dropped' = dropped \cup Contents(s.wire)
    /\ UNCHANGED <<sub, running, leased, buf, outQ, batchSeq, orphans, counted>>

\* Either side, or the network between them, ends the stream.  What was pending
\* is forgotten; what was on the wire does not arrive.
StreamDies ==
  \E s \in stream :
    /\ stream' = {}
    /\ orphans' \in {orphans, orphans + 1} \cap 0..MaxOrphans
    /\ dropped' = dropped \cup Contents(s.wire)
    /\ UNCHANGED <<sub, running, leased, buf, outQ, batchSeq, counted>>

-----------------------------------------------------------------------------
(* The publisher process *)

Start ==
  /\ ~running
  /\ running' = TRUE
  /\ UNCHANGED <<sub, leased, buf, outQ, batchSeq, stream, orphans, counted, dropped>>

\* What was held is neither acked nor nacked; batches are numbered anew.
Stop ==
  /\ running
  /\ running' = FALSE
  /\ leased' = {} /\ buf' = <<>> /\ outQ' = <<>> /\ batchSeq' = 0
  /\ stream' = {} /\ orphans' = 0
  /\ dropped' = dropped \cup Range(buf) \cup Contents(outQ)
                        \cup UNION {Contents(s.wire) : s \in stream}
  /\ UNCHANGED <<sub, counted>>

Next ==
  \/ \E m \in Messages : Publish(m) \/ LeaseExpires(m) \/ Receive(m)
  \/ Drain \/ OpenStream \/ Send \/ OrphanTakes \/ TakeAck
  \/ ReceiveBatch \/ StreamDies
  \/ Start \/ Stop

Spec == Init /\ [][Next]_vars
-----------------------------------------------------------------------------
(* Properties *)

\* Types; batches are numbered from 1 in every life of the process (main.py of
\* the publisher: GrpcForwarder).
TypeOK ==
  /\ sub \in Subscriptions
  /\ running \in BOOLEAN
  /\ leased \subseteq Messages
  /\ buf \in Seq(Messages)
  /\ outQ \in Seq(Batches) /\ batchSeq \in Nat
  /\ stream \subseteq Streams /\ orphans \in Nat
  /\ counted \subseteq Messages /\ dropped \subseteq Messages

\* main.py of the publisher: "only then is the underlying Pub/Sub message
\* ack'd".  A message is settled by an ack only if the receiver has recorded it,
\* although acks of a later stream carry numbers of earlier batches.
AckedIsCounted ==
  \A m \in Readable : sub[m].phase = "done" => m \in counted

\* A stream that is opened asks for a batch, if not the first time then at some
\* other; a stream that stays up carries what it was given.
Fairness ==
  /\ \A m \in Messages : SF_vars(Receive(m)) /\ WF_vars(LeaseExpires(m))
  /\ WF_vars(Drain) /\ WF_vars(OpenStream) /\ SF_vars(Send)
  /\ WF_vars(ReceiveBatch) /\ WF_vars(TakeAck) /\ WF_vars(Start)

FairSpec == Spec /\ Fairness

\* A message that is published is recorded in the end, unless a delivery of it
\* was lost with a stream or a process: nothing is stranded in the buffer or
\* the queue.
EveryCounted ==
  \A m \in Readable : sub[m].phase = "ready" ~> m \in counted \cup dropped
=============================================================================
