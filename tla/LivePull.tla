------------------------------- MODULE LivePull --------------------------------
(***************************************************************************)
(* scripts/argos_live_pull/subscriber.py: a Pub/Sub callback starts a task *)
(* per clip and acks the message; the task waits for one of a few permits, *)
(* downloads the clip and forwards it in a call of its own.                *)
(***************************************************************************)
EXTENDS Naturals, FiniteSets

CONSTANTS
  Clips,            \* deliveries of the subscription
  Wavs,             \* the clips with a .wav path of a sensor
  Permits,          \* ARGOS_LIVE_MAX_INFLIGHT
  MaxPulls          \* bound of the processes

ASSUME PullAssumption ==
  Wavs \subseteq Clips /\ Permits \in Nat \ {0} /\ MaxPulls \in Nat

VARIABLES
  task,             \* per clip: its message and then its task
  free,             \* the semaphore
  pulls             \* processes that have ended so far

pullVars == <<task, free, pulls>>

Working == {"fetching", "forwarding", "hung"}

PullInit ==
  /\ task = [c \in Clips |-> "published"] /\ free = Permits
  /\ pulls = 0

\* _enqueue: the message is acked when the task is made.
Enqueue(c) ==
  /\ task[c] = "published"
  /\ task' = [task EXCEPT ![c] = "waiting"]
  /\ UNCHANGED <<free, pulls>>

Acquire(c) ==
  /\ task[c] = "waiting" /\ free > 0
  /\ IF c \in Wavs
     THEN task' = [task EXCEPT ![c] = "fetching"] /\ free' = free - 1
     ELSE task' = [task EXCEPT ![c] = "handled"] /\ UNCHANGED free
  /\ UNCHANGED pulls

\* Mutant: the permit is given back by those that forward only.
FetchLeaks(c) ==
  /\ task[c] = "fetching"
  /\ task' = [task EXCEPT ![c] = "failed"]
  /\ UNCHANGED <<free, pulls>>

FetchFails(c) ==
  /\ task[c] = "fetching"
  /\ task' = [task EXCEPT ![c] = "failed"] /\ free' = free + 1
  /\ UNCHANGED pulls

\* Both downloads are done; the clip is numbered and becomes a frame.
Fetched(c) ==
  /\ task[c] = "fetching"
  /\ task' = [task EXCEPT ![c] = "forwarding"]
  /\ UNCHANGED <<free, pulls>>

\* A call on a connection that was dropped without a word: it has no deadline and
\* its channel no keepalive.
CallHangs(c) ==
  /\ task[c] = "forwarding"
  /\ task' = [task EXCEPT ![c] = "hung"]
  /\ UNCHANGED <<free, pulls>>

\* forward_one_clip returns or raises.
Forward(c) ==
  /\ task[c] \in {"forwarding", "hung"}
  /\ \E result \in {"handled", "failed"} : task' = [task EXCEPT ![c] = result]
  /\ free' = free + 1
  /\ UNCHANGED pulls

\* The process ends with its tasks, stopped or not; the next one begins anew.
PullEnds ==
  /\ pulls < MaxPulls /\ pulls' = pulls + 1
  /\ task' = [c \in Clips |-> IF task[c] \in {"waiting"} \cup Working
                              THEN "lost" ELSE task[c]]
  /\ free' = Permits

PullNext ==
  \/ \E c \in Clips : \/ Enqueue(c) \/ Acquire(c) \/ Fetched(c) \/ FetchFails(c)
                      \/ CallHangs(c) \/ Forward(c)
  \/ PullEnds

-----------------------------------------------------------------------------
(* Properties *)

PullTypeOK ==
  /\ task \in [Clips -> {"published", "waiting", "handled", "failed", "lost"} \cup Working]
  /\ free = Permits - Cardinality({c \in Clips : task[c] \in Working})
  /\ pulls \in 0..MaxPulls

AllHung == Cardinality({c \in Clips : task[c] = "hung"}) = Permits

\* Every clip that was acked is forwarded or ignored, fails, goes down with its
\* process, or is in a call that hangs: failures give their permits back, and a
\* clip waits for ever only where every permit is with a call that hangs.
ClipsSettle ==
  \A c \in Clips :
    task[c] = "waiting" ~> task[c] \in {"handled", "failed", "lost", "hung"} \/ AllHung
=============================================================================
