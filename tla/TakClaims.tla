------------------------------ MODULE TakClaims ------------------------------
(***************************************************************************)
(* What the documents say of the TAK publisher and the code does not keep. *)
(***************************************************************************)
EXTENDS MCTakPublisher

\* tak_publisher/README.md: "ack is deferred until the TAK Server write succeeds;
\* on failure the message is nacked so Pub/Sub redelivers".  No delivery of a
\* detection with a location is acked unless the detection has been written, or
\* a delivery of it is still on its way to the socket.
FailedSendIsRetried ==
  [][\A m \in Readable :
       /\ DetectionOf[m] \in Located
       /\ sub[m].phase # "done" /\ sub'[m].phase = "done"
       => DetectionOf[m] \in written' \cup {Detection(h) : h \in Held}]_vars
=============================================================================
