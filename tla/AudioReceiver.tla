----------------------------- MODULE AudioReceiver -----------------------------
(***************************************************************************)
(* The audio receiver: instances of a Cloud Run service that count the     *)
(* audio frames of a test run.                                             *)
(*                                                                         *)
(* The sink of an instance counts for the run it is tagged with.  A thread *)
(* takes what is counted, under the lock, and adds it to the document of   *)
(* that run; then it completes runs nobody writes to.  ResetTestRun        *)
(* reaches one instance: it writes what is left to the old run, clears the *)
(* counters, and creates the new document.  Streams, resets and the flush  *)
(* are threads; a document write may fail, with its effect or without.     *)
(***************************************************************************)
EXTENDS Naturals

CONSTANTS
  Instances,
  Resets,           \* calls of ResetTestRun
  Frames,           \* the AudioFrames
  Tags,             \* test_run_tag; an instance begins with none
  MaxEnds,          \* bound of the instances that end
  None

ASSUME ReceiverAssumption == None \notin Tags /\ MaxEnds \in Nat

VARIABLES
  up,               \* the instances that run
  ends,             \* instances that have ended so far
  tag,              \* sink: _test_run_tag
  delta,            \* sink: the frames in _delta
  peak,             \* sink: _max_single is not 0
  flush,            \* per instance: the flush thread
  reset,            \* per reset: the thread of ResetTestRun
  doc,              \* per tag: the document in test_runs
  tagged,           \* per frame: the tag under which it was recorded
  gone,             \* frames of failed writes, of clears, of dead instances
  overlapped        \* tags a reset completes that met another one

vars == <<up, ends, tag, delta, peak, flush, reset, doc,
          tagged, gone, overlapped>>

NoFlush  == [phase |-> "waiting", tag |-> None, frames |-> {}]
NoReset  == [phase |-> "new", at |-> {}, old |-> None, new |-> None,
             to |-> None, frames |-> {}]
Done     == [NoReset EXCEPT !.phase = "done"]
NoDoc    == [status |-> "missing", fresh |-> FALSE, counted |-> {}]

Init ==
  /\ up = {} /\ ends = 0
  /\ tag = [i \in Instances |-> None]
  /\ delta = [i \in Instances |-> {}] /\ peak = [i \in Instances |-> FALSE]
  /\ flush = [i \in Instances |-> NoFlush]
  /\ reset = [r \in Resets |-> NoReset]
  /\ doc = [t \in Tags |-> NoDoc]
  /\ tagged = [f \in Frames |-> {}]
  /\ gone = {} /\ overlapped = {}

-----------------------------------------------------------------------------
(* StreamAudio *)

\* record_frame and record_delta, for whichever stream.
RecordFrame(i, f) ==
  /\ i \in up /\ tagged[f] = {}
  /\ delta' = [delta EXCEPT ![i] = @ \cup {f}]
  /\ peak' = [peak EXCEPT ![i] = TRUE]
  /\ tagged' = [tagged EXCEPT ![f] = {tag[i]}]
  /\ UNCHANGED <<up, ends, tag, flush, reset, doc, gone, overlapped>>

-----------------------------------------------------------------------------
(* Document writes *)

Exists(t) == doc[t].status # "missing"

\* Increment per counter, SERVER_TIMESTAMP, perhaps a status.
Add(t, frames, status) ==
  /\ Exists(t)
  /\ doc' = [doc EXCEPT ![t] = [status  |-> IF status = "" THEN @.status ELSE status,
                                fresh   |-> TRUE,
                                counted |-> @.counted \cup frames]]

\* A write that raises may have had its effect.  Its counters are gone for the
\* sink: they were taken out before.
Fails(t, frames, status) ==
  /\ UNCHANGED doc \/ Add(t, frames, status)
  /\ gone' = gone \cup frames

-----------------------------------------------------------------------------
(* _flush_loop *)

\* Mutant: clears before it looks at the tag.
TakeFirst(i) ==
  /\ i \in up /\ flush[i].phase = "waiting"
  /\ flush' = [flush EXCEPT ![i] = [phase  |-> IF tag[i] = None THEN "sweeping" ELSE "writing",
                                    tag    |-> tag[i],
                                    frames |-> IF tag[i] = None THEN {} ELSE delta[i]]]
  /\ delta' = [delta EXCEPT ![i] = {}]
  /\ UNCHANGED <<up, ends, tag, peak, reset, doc, tagged, gone, overlapped>>

\* There is something to write, and a run to write it to.
Unwritten(i) == tag[i] # None /\ (delta[i] # {} \/ peak[i])

\* The first half of _flush_once, under the lock.
Take(i) ==
  /\ i \in up /\ flush[i].phase = "waiting"
  /\ \/ /\ Unwritten(i)
        /\ flush' = [flush EXCEPT ![i] = [phase |-> "writing", tag |-> tag[i],
                                          frames |-> delta[i]]]
        /\ delta' = [delta EXCEPT ![i] = {}]
     \/ /\ ~Unwritten(i)
        /\ flush' = [flush EXCEPT ![i].phase = "sweeping"]
        /\ UNCHANGED delta
  /\ UNCHANGED <<up, ends, tag, peak, reset, doc, tagged, gone, overlapped>>

Write(i) ==
  /\ i \in up /\ flush[i].phase = "writing"
  /\ Add(flush[i].tag, flush[i].frames, "")
  /\ flush' = [flush EXCEPT ![i] = [NoFlush EXCEPT !.phase = "sweeping"]]
  /\ UNCHANGED <<up, ends, tag, delta, peak, reset, tagged, gone, overlapped>>

\* Mutant: the counters are put back for the next flush.
PutBack(i) ==
  /\ i \in up /\ flush[i].phase = "writing"
  /\ UNCHANGED doc \/ Add(flush[i].tag, flush[i].frames, "")
  /\ delta' = [delta EXCEPT ![i] = @ \cup flush[i].frames]
  /\ flush' = [flush EXCEPT ![i] = [NoFlush EXCEPT !.phase = "sweeping"]]
  /\ UNCHANGED <<up, ends, tag, peak, reset, tagged, gone, overlapped>>

\* Logged.
WriteFails(i) ==
  /\ i \in up /\ flush[i].phase = "writing"
  /\ Fails(flush[i].tag, flush[i].frames, "")
  /\ flush' = [flush EXCEPT ![i] = [NoFlush EXCEPT !.phase = "sweeping"]]
  /\ UNCHANGED <<up, ends, tag, delta, peak, reset, tagged, overlapped>>

Stale(t) == doc[t].status = "running" /\ ~doc[t].fresh

\* Mutant: looks only after the run of this instance.
SweepOwn(i) ==
  /\ i \in up /\ flush[i].phase = "sweeping"
  /\ doc' = [t \in Tags |-> IF Stale(t) /\ t = tag[i]
                            THEN [doc[t] EXCEPT !.status = "complete"] ELSE doc[t]]
  /\ flush' = [flush EXCEPT ![i] = NoFlush]
  /\ UNCHANGED <<up, ends, tag, delta, peak, reset, tagged, gone, overlapped>>

\* _sweep_stale: the stale runs of all instances.
Sweep(i) ==
  /\ i \in up /\ flush[i].phase = "sweeping"
  /\ doc' = [t \in Tags |-> IF Stale(t)
                            THEN [doc[t] EXCEPT !.status = "complete"] ELSE doc[t]]
  /\ flush' = [flush EXCEPT ![i] = NoFlush]
  /\ UNCHANGED <<up, ends, tag, delta, peak, reset, tagged, gone, overlapped>>

SweepFails(i) ==
  /\ i \in up /\ flush[i].phase = "sweeping"
  /\ flush' = [flush EXCEPT ![i] = NoFlush]
  /\ UNCHANGED <<up, ends, tag, delta, peak, reset, doc,
                 tagged, gone, overlapped>>

\* STALE_RUN_SECONDS without a write.
Age(t) ==
  /\ doc[t].status = "running" /\ doc[t].fresh
  /\ doc' = [doc EXCEPT ![t].fresh = FALSE]
  /\ UNCHANGED <<up, ends, tag, delta, peak, flush, reset,
                 tagged, gone, overlapped>>

-----------------------------------------------------------------------------
(* ResetTestRun *)

Busy(r, i) == reset[r].at = {i} /\ reset[r].phase \notin {"new", "done"}

Step(r, i, phase) == i \in up /\ reset[r].at = {i} /\ reset[r].phase = phase

\* stats.reset, and the tag that reset_run reads.  t = None is the empty tag.
BeginReset(r, i, t) ==
  /\ i \in up /\ reset[r].phase = "new"
  /\ reset' = [reset EXCEPT ![r] = [NoReset EXCEPT !.phase = "begun", !.at = {i},
                                                   !.old = tag[i], !.new = t]]
  /\ overlapped' = IF \E x \in Resets : Busy(x, i)
                   THEN overlapped \cup {tag[i]} \cup {reset[x].old : x \in Resets}
                   ELSE overlapped
  /\ UNCHANGED <<up, ends, tag, delta, peak, flush, doc, tagged, gone>>

\* finalize_tag or self._test_run_tag.
FlushTag(r, i) == IF reset[r].old # None THEN reset[r].old ELSE tag[i]

\* The final _flush_once writes, be it only the completion of the old run.
WritesLast(r, i) ==
  FlushTag(r, i) # None /\ (delta[i] # {} \/ peak[i] \/ reset[r].old # None)

\* Its first half.
TakeLast(r, i) ==
  /\ Step(r, i, "begun")
  /\ \/ /\ WritesLast(r, i)
        /\ reset' = [reset EXCEPT ![r].phase = "writing", ![r].to = FlushTag(r, i),
                                  ![r].frames = delta[i]]
        /\ delta' = [delta EXCEPT ![i] = {}]
     \/ /\ ~WritesLast(r, i)
        /\ reset' = [reset EXCEPT ![r].phase = "flushed"]
        /\ UNCHANGED delta
  /\ UNCHANGED <<up, ends, tag, peak, flush, doc, tagged, gone, overlapped>>

\* Completes the run if it was the sink's when the reset began.
WriteLast(r, i) ==
  /\ Step(r, i, "writing")
  /\ LET status == IF reset[r].old = None THEN "" ELSE "complete"
     IN \/ Add(reset[r].to, reset[r].frames, status) /\ UNCHANGED gone
        \/ Fails(reset[r].to, reset[r].frames, status)
  /\ reset' = [reset EXCEPT ![r].phase = "flushed", ![r].frames = {}]
  /\ UNCHANGED <<up, ends, tag, delta, peak, flush, tagged, overlapped>>

\* Mutant: the counters are left for the new run.
RetagOnly(r, i) ==
  /\ Step(r, i, "flushed")
  /\ tag' = [tag EXCEPT ![i] = reset[r].new]
  /\ peak' = [peak EXCEPT ![i] = FALSE]
  /\ reset' = [reset EXCEPT ![r].phase = "cleared"]
  /\ UNCHANGED <<up, ends, delta, flush, doc, tagged, gone, overlapped>>

\* Under the lock: what came since belongs to neither run.
Retag(r, i) ==
  /\ Step(r, i, "flushed")
  /\ gone' = gone \cup delta[i]
  /\ delta' = [delta EXCEPT ![i] = {}]
  /\ peak' = [peak EXCEPT ![i] = FALSE]
  /\ tag' = [tag EXCEPT ![i] = reset[r].new]
  /\ reset' = [reset EXCEPT ![r].phase = "cleared"]
  /\ UNCHANGED <<up, ends, flush, doc, tagged, overlapped>>

\* set: whatever the document had is overwritten.  There is no document without
\* a name; that the call raises is logged.
Create(r, i) ==
  /\ Step(r, i, "cleared")
  /\ \/ /\ reset[r].new # None
        /\ doc' = [doc EXCEPT ![reset[r].new] = [status |-> "running", fresh |-> TRUE,
                                                 counted |-> {}]]
        /\ gone' = gone \cup doc[reset[r].new].counted
     \/ UNCHANGED <<doc, gone>>
  /\ reset' = [reset EXCEPT ![r] = Done]
  /\ UNCHANGED <<up, ends, tag, delta, peak, flush, tagged, overlapped>>

-----------------------------------------------------------------------------
(* Instances *)

Start(i) ==
  /\ i \notin up
  /\ up' = up \cup {i}
  /\ UNCHANGED <<ends, tag, delta, peak, flush, reset, doc,
                 tagged, gone, overlapped>>

\* The instance is gone with all its threads.
Vanish(i) ==
  /\ ends < MaxEnds /\ ends' = ends + 1
  /\ up' = up \ {i}
  /\ tag' = [tag EXCEPT ![i] = None] /\ delta' = [delta EXCEPT ![i] = {}]
  /\ peak' = [peak EXCEPT ![i] = FALSE]
  /\ flush' = [flush EXCEPT ![i] = NoFlush]
  /\ reset' = [r \in Resets |-> IF reset[r].at = {i} THEN Done ELSE reset[r]]
  /\ UNCHANGED <<tagged, overlapped>>

\* What the threads of an instance are writing, and all it has not written.
InHand(i) == flush[i].frames
               \cup UNION {reset[r].frames : r \in {x \in Resets : reset[x].at = {i}}}

Held(i) == delta[i] \cup InHand(i)

Crash(i) ==
  /\ i \in up
  /\ Vanish(i)
  /\ gone' = gone \cup Held(i)
  /\ UNCHANGED doc

\* SIGTERM: the streams and resets are given ten seconds, the flush thread five,
\* then one last flush.  What they still have in hand then is lost.
Stop(i) ==
  /\ i \in up
  /\ Vanish(i)
  /\ \/ /\ Unwritten(i) /\ Add(tag[i], delta[i], "")
        /\ gone' = gone \cup InHand(i) \/ gone' = gone \cup Held(i)
     \/ UNCHANGED doc /\ gone' = gone \cup Held(i)

Next ==
  \/ \E i \in Instances :
       \/ Start(i) \/ Stop(i) \/ Crash(i)
       \/ Take(i) \/ Write(i) \/ WriteFails(i) \/ Sweep(i) \/ SweepFails(i)
       \/ \E f \in Frames : RecordFrame(i, f)
       \/ \E r \in Resets :
            \/ \E t \in Tags \cup {None} : BeginReset(r, i, t)
            \/ TakeLast(r, i) \/ WriteLast(r, i) \/ Retag(r, i) \/ Create(r, i)
  \/ \E t \in Tags : Age(t)

Spec == Init /\ [][Next]_vars

\* The thread of an instance runs, or the instance is ended: Cloud Run gives one
\* that is idle no CPU to speak of until it is called again or goes.  Time passes,
\* and a query or an update that is tried again and again is done some time.
\* Nothing says that an instance is started: the service scales to zero.
Fairness ==
  /\ \A i \in Instances :
       WF_vars(Take(i)) /\ WF_vars(Write(i) \/ WriteFails(i)) /\ SF_vars(Sweep(i))
  /\ \A t \in Tags : WF_vars(Age(t))

FairSpec == Spec /\ Fairness
-----------------------------------------------------------------------------
(* Properties *)

Counted == UNION {doc[t].counted : t \in Tags}

Pending == UNION {Held(i) : i \in Instances}

\* Types; a document that was never created counts nothing.
TypeOK ==
  /\ up \subseteq Instances /\ ends \in 0..MaxEnds
  /\ tag \in [Instances -> Tags \cup {None}]
  /\ delta \in [Instances -> SUBSET Frames] /\ peak \in [Instances -> BOOLEAN]
  /\ flush \in [Instances -> [phase : {"waiting", "writing", "sweeping"},
                              tag : Tags \cup {None}, frames : SUBSET Frames]]
  /\ reset \in [Resets -> [phase : {"new", "begun", "writing", "flushed", "cleared", "done"},
                           at : SUBSET Instances, old : Tags \cup {None},
                           new : Tags \cup {None}, to : Tags \cup {None},
                           frames : SUBSET Frames]]
  /\ doc \in [Tags -> [status : {"missing", "running", "complete"}, fresh : BOOLEAN,
                       counted : SUBSET Frames]]
  /\ \A t \in Tags : ~Exists(t) => doc[t].counted = {}
  /\ tagged \in [Frames -> SUBSET (Tags \cup {None})]
  /\ gone \subseteq Frames /\ overlapped \subseteq Tags \cup {None}

\* A frame the sink has recorded is counted in a document or about to be, unless
\* a write failed, a reset or the end of its instance came in between.
EveryFrameCounted ==
  \A f \in Frames : tagged[f] # {} => f \in Counted \cup Pending \cup gone

\* No frame is counted twice, although a write that fails may have counted it.
CountedOnce ==
  /\ Counted \cap Pending = {}
  /\ \A t1, t2 \in Tags : t1 # t2 => doc[t1].counted \cap doc[t2].counted = {}
  /\ \A i, j \in Instances : i # j => Held(i) \cap Held(j) = {}

\* A frame counts for the run its instance was tagged with when it came, unless
\* two resets of one instance overlapped (the tag to complete is read before the
\* lock is taken).
RightRun ==
  \A t \in Tags : \A f \in doc[t].counted :
    tagged[f] = {t} \/ t \in overlapped

Abandoned(t) == doc[t].status = "running" /\ \A i \in Instances : tag[i] # t

\* A run that no instance is tagged with is completed by whichever instance is
\* there.  With none, the service scaled to zero, it waits for the next one
\* (_sweep_stale has no caller but the flush thread of an instance).
AbandonedRunsEnd ==
  \A t \in Tags : Abandoned(t) ~> ~Abandoned(t) \/ up = {}
=============================================================================
