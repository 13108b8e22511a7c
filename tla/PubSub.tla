-------------------------------- MODULE PubSub --------------------------------
(***************************************************************************)
(* A Pub/Sub subscription as the services that pull from it know it.  It   *)
(* is external: it delivers at least once and in any order, takes a        *)
(* message back when the lease of a delivery ends or the delivery is       *)
(* nacked, and gives a message up after MaxAttempts deliveries.  Acks are  *)
(* requests: one may get lost, and one that comes after the lease may      *)
(* still count.                                                            *)
(***************************************************************************)
EXTENDS Naturals

CONSTANTS
  Messages,
  MaxAttempts       \* max_delivery_attempts of the subscription

ASSUME AttemptsAssumption == MaxAttempts \in Nat \ {0}

VARIABLE sub        \* what the subscription knows of each message

Subscriptions ==
  [Messages -> [phase : {"new", "ready", "out", "done", "dead"},
                attempt : 0..MaxAttempts]]

SubscriptionInit == sub = [m \in Messages |-> [phase |-> "new", attempt |-> 0]]

Leave(m) ==
  /\ sub[m].phase = "new"
  /\ sub' = [sub EXCEPT ![m].phase = "ready"]

\* A delivery, its ack in the same step or not.
Deliver(m, phases) ==
  /\ sub[m].phase = "ready"
  /\ \E phase \in phases :
       sub' = [sub EXCEPT ![m] = [phase |-> phase, attempt |-> sub[m].attempt + 1]]

\* The message comes back for another delivery, or goes to the dead letters.
TakeBack(m) ==
  /\ sub[m].phase = "out"
  /\ sub' = [sub EXCEPT ![m].phase =
                IF sub[m].attempt < MaxAttempts THEN "ready" ELSE "dead"]

\* Some of the acks are heard, if it is not too late.
Acknowledge(messages) ==
  \E heard \in SUBSET {m \in messages : sub[m].phase \in {"out", "ready"}} :
    sub' = [m \in Messages |->
              IF m \in heard THEN [sub[m] EXCEPT !.phase = "done"] ELSE sub[m]]

SettledPhases == {"done", "dead"}
=============================================================================
