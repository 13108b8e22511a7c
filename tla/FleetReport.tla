------------------------------ MODULE FleetReport ------------------------------
(***************************************************************************)
(* How scripts/replay_fleet.py tells whether the stations' flybys are      *)
(* detected: a thread polls the collection of detections, the main thread  *)
(* compares what it has counted with the flybys of the looped clip.  Both  *)
(* share the stations' lists, under a lock, and the stop event.            *)
(*                                                                         *)
(* Time is counted in seconds from the start of the harness, at 1; a stamp *)
(* of 0 is none.  The detections of one station are enough: lists of two   *)
(* stations have nothing in common.                                        *)
(***************************************************************************)
EXTENDS Naturals, FiniteSets

CONSTANTS
  Detections,       \* documents of the collection detections
  Ours,             \* those of the station; the rest are of other phones
  Limit,            \* of the query: 200
  Clip,             \* length of the clip
  Lists,            \* the lists of flybys a file may give, each as a set
  Slop,             \* seconds a detection may come after its flyby: 30
  Horizon           \* bound of the clock

ASSUME ReportAssumption ==
  /\ Ours \subseteq Detections /\ IsFiniteSet(Detections)
  /\ Limit \in Nat \ {0} /\ Clip \in Nat \ {0} /\ Slop \in Nat /\ Horizon \in Nat \ {0}
  /\ Lists \subseteq SUBSET ((0..Clip) \X (0..Clip))

VARIABLES
  time,
  labels,           \* per second of the clip: a drone is heard; <<>> if not given so
  flybys,           \* <<begin, end>> in the clip
  stamp,            \* published_at_ms of a detection
  stored,           \* detections that are in the collection
  collector,        \* the polling thread
  mark,             \* last_published_ms
  news,             \* new_events of the last query
  counted,          \* how often a detection is in the station's list
  passed,           \* detections stored behind the mark, or crowded out of a query
  mainThread,
  halt,             \* stop_event
  evaluated, caught,\* windows in the last report
  underway          \* detections stamped and not counted at the last report

reportVars == <<time, labels, flybys, stamp, stored, collector, mark, news, counted,
                passed, mainThread, halt, evaluated, caught, underway>>

Start == 1          \* harness_start_ts

-----------------------------------------------------------------------------
(* The ground truth *)

Seconds == 1..Clip

NoRun == [inRun |-> FALSE, begin |-> 0, runs |-> {}]

\* The body of the loop over the labels; second i of the code's list is i + 1 here.
Labelled(l, i, before) ==
  CASE l[i] /\ ~before.inRun -> [before EXCEPT !.inRun = TRUE, !.begin = i - 1]
    [] ~l[i] /\ before.inRun ->
         [before EXCEPT !.inRun = FALSE, !.runs = @ \cup {<<before.begin, i - 1>>}]
    [] OTHER -> before

RunsUpTo(l) ==
  LET upTo[i \in 0..Clip] == IF i = 0 THEN NoRun ELSE Labelled(l, i, upTo[i - 1])
  IN upTo[Clip]

\* Mutant: the run at the end of the clip is forgotten.
RunsClosed(l) == RunsUpTo(l).runs

\* load_ground_truth; a run that reaches the end of the clip ends there.
RunsOf(l) ==
  LET last == RunsUpTo(l)
  IN last.runs \cup (IF last.inRun THEN {<<last.begin, Clip>>} ELSE {})

\* A list of flybys or one window is taken as it is; no file, no flybys.
ReportInit ==
  /\ \/ labels \in [Seconds -> BOOLEAN] /\ flybys = RunsOf(labels)
     \/ labels = <<>> /\ flybys \in Lists \cup {{}}
  /\ time = Start /\ stamp = [d \in Detections |-> 0] /\ stored = {}
  /\ collector = "begin" /\ mark = Start /\ news = {}
  /\ counted = [d \in Detections |-> 0] /\ passed = {}
  /\ mainThread = "loop" /\ halt = FALSE
  /\ evaluated = {} /\ caught = {} /\ underway = {}

-----------------------------------------------------------------------------
(* The detections *)

\* DetectionPublisher.publish stamps a message, publishes it, and then writes the
\* document, which may fail.
Stamp(d) ==
  /\ stamp[d] = 0
  /\ stamp' = [stamp EXCEPT ![d] = time]
  /\ UNCHANGED <<time, labels, flybys, stored, collector, mark, news, counted, passed,
                 mainThread, halt, evaluated, caught, underway>>

\* The collector has seen a detection at least as new.
Overtaken(d) == stamp[d] <= mark \/ \E e \in news : stamp[d] <= stamp[e]

Store(d) ==
  /\ stamp[d] # 0 /\ d \notin stored
  /\ stored' = stored \cup {d}
  /\ passed' = IF Overtaken(d) THEN passed \cup {d} ELSE passed
  /\ UNCHANGED <<time, labels, flybys, stamp, collector, mark, news, counted,
                 mainThread, halt, evaluated, caught, underway>>

Second ==
  /\ time < Horizon /\ time' = time + 1
  /\ UNCHANGED <<labels, flybys, stamp, stored, collector, mark, news, counted, passed,
                 mainThread, halt, evaluated, caught, underway>>

-----------------------------------------------------------------------------
(* detection_collector *)

Collector(from, to) == collector = from /\ collector' = to

\* Without credentials the thread ends at once.
CollectorBegins ==
  /\ Collector("begin", "wait") \/ Collector("begin", "gone")
  /\ UNCHANGED <<time, labels, flybys, stamp, stored, mark, news, counted, passed,
                 mainThread, halt, evaluated, caught, underway>>

\* order_by published_at_ms, descending, limit.
Newest(docs) ==
  /\ docs \subseteq stored
  /\ docs = stored \/ Cardinality(docs) = Limit
  /\ \A d \in docs, e \in stored \ docs : stamp[e] <= stamp[d]

\* Mutant: the mark itself is read again.
NewInclusive(docs) == {d \in docs \cap Ours : stamp[d] >= mark}

New(docs) == {d \in docs \cap Ours : stamp[d] > mark}

Poll ==
  /\ Collector("query", "record")
  /\ \E docs \in SUBSET stored :
       /\ Newest(docs)
       /\ news' = New(docs)
       /\ passed' = passed \cup {d \in (stored \ docs) \cap Ours : stamp[d] > mark}
  /\ UNCHANGED <<time, labels, flybys, stamp, stored, mark, counted, mainThread, halt,
                 evaluated, caught, underway>>

PollFails ==
  /\ Collector("query", "wait")
  /\ UNCHANGED <<time, labels, flybys, stamp, stored, mark, news, counted, passed,
                 mainThread, halt, evaluated, caught, underway>>

\* Mutant: the mark goes to the time of the query.
RecordNow ==
  /\ Collector("record", "wait")
  /\ counted' = [d \in Detections |-> counted[d] + IF d \in news THEN 1 ELSE 0]
  /\ mark' = time /\ news' = {}
  /\ UNCHANGED <<time, labels, flybys, stamp, stored, passed, mainThread, halt,
                 evaluated, caught, underway>>

\* The lists grow under the lock, and the mark goes to the newest of them.
Record ==
  /\ Collector("record", "wait")
  /\ counted' = [d \in Detections |-> counted[d] + IF d \in news THEN 1 ELSE 0]
  /\ \/ news = {} /\ UNCHANGED mark
     \/ \E e \in news : (\A d \in news : stamp[d] <= stamp[e]) /\ mark' = stamp[e]
  /\ news' = {}
  /\ UNCHANGED <<time, labels, flybys, stamp, stored, passed, mainThread, halt,
                 evaluated, caught, underway>>

\* The wait for the stop event, and the head of the loop.
CollectorWaits ==
  /\ IF halt THEN Collector("wait", "gone") ELSE Collector("wait", "query")
  /\ UNCHANGED <<time, labels, flybys, stamp, stored, mark, news, counted, passed,
                 mainThread, halt, evaluated, caught, underway>>

-----------------------------------------------------------------------------
(* main and print_report *)

\* Windows: <<n, f>> is flyby f of the n-th turn of the clip.
Begin(w) == Start + w[1] * Clip + w[2][1]
End(w) == Start + w[1] * Clip + w[2][2]

\* Mutant: evaluated as soon as it is over.
RealizedEarly == {w \in (0..((time - Start) \div Clip)) \X flybys : End(w) < time}

\* realized_flybys: those that ended more than Slop ago.
Realized == {w \in (0..((time - Start) \div Clip)) \X flybys : End(w) + Slop < time}

Hits(w) ==
  {d \in Ours : counted[d] > 0 /\ Begin(w) <= stamp[d] /\ stamp[d] <= End(w) + Slop}

Report ==
  /\ evaluated' = Realized
  /\ caught' = {w \in Realized : Hits(w) # {}}
  /\ underway' = {d \in Ours : stamp[d] # 0 /\ counted[d] = 0}

\* The stop event is looked at before the report.
RollingReport ==
  /\ mainThread = "loop" /\ Report
  /\ UNCHANGED <<time, labels, flybys, stamp, stored, collector, mark, news, counted,
                 passed, mainThread, halt>>

\* A signal, or the end of --duration.
Halt ==
  /\ ~halt /\ halt' = TRUE
  /\ UNCHANGED <<time, labels, flybys, stamp, stored, collector, mark, news, counted,
                 passed, mainThread, evaluated, caught, underway>>

\* The threads are joined, for ten seconds each, so that the collector may still
\* be at work; it ends with the process.
FinalReport ==
  /\ mainThread = "loop" /\ halt /\ Report
  /\ mainThread' = "done" /\ collector' = "gone" /\ news' = {}
  /\ UNCHANGED <<time, labels, flybys, stamp, stored, mark, counted, passed, halt>>

ReportNext ==
  \/ \E d \in Detections : Stamp(d) \/ Store(d)
  \/ Second
  \/ CollectorBegins \/ Poll \/ PollFails \/ Record \/ CollectorWaits
  \/ RollingReport \/ Halt \/ FinalReport

-----------------------------------------------------------------------------
(* Properties *)

ReportTypeOK ==
  /\ time \in Start..Horizon /\ stamp \in [Detections -> 0..Horizon]
  /\ stored \subseteq Detections /\ passed \subseteq Detections
  /\ labels = <<>> \/ labels \in [Seconds -> BOOLEAN]
  /\ flybys \subseteq (0..Clip) \X (0..Clip)
  /\ collector \in {"begin", "query", "record", "wait", "gone"}
  /\ mark \in Start..Horizon /\ news \subseteq Ours /\ counted \in [Detections -> Nat]
  /\ mainThread \in {"loop", "done"} /\ halt \in BOOLEAN
  /\ caught \subseteq evaluated /\ evaluated \subseteq Nat \X flybys
  /\ underway \subseteq Ours

\* A longest stretch of labelled seconds.
IsRun(l, f) ==
  /\ f[1] < f[2] /\ \A i \in (f[1] + 1)..f[2] : l[i]
  /\ f[1] > 0 => ~l[f[1]]
  /\ f[2] < Clip => ~l[f[2] + 1]

\* The flybys are these stretches, each once (load_ground_truth).
FlybysAreRuns ==
  labels # <<>> => flybys = {f \in (0..Clip) \X Seconds : IsRun(labels, f)}

\* No detection is in a list twice, however often it is read, and none that is
\* older than the harness or of another phone (detection_collector).
CollectedOnce ==
  \A d \in Detections : counted[d] > 0 => counted[d] = 1 /\ d \in Ours /\ stamp[d] > Start

\* The mark never passes a stored detection that was not counted, but for those
\* stored after the collector had seen a newer one, or crowded out of a query
\* (detection_collector: last_published_ms).
NonePassed ==
  \A d \in Ours \cap stored :
    counted[d] = 0 /\ Start < stamp[d] /\ stamp[d] <= mark => d \in passed

\* The verdict on a flyby stands: a later report drops none, and finds one caught
\* that was missed only by detections that were under way when it was missed
\* (realized_flybys and print_report: the same slop on both sides).
VerdictsStand ==
  [][/\ evaluated \subseteq evaluated' /\ caught \subseteq caught'
     /\ \A w \in evaluated \ caught : w \in caught' => Hits(w) \subseteq underway]_reportVars
=============================================================================
