-------------------------- MODULE AudioReceiverProofs --------------------------
(***************************************************************************)
(* The counting of the audio receiver, for any number of instances,        *)
(* resets, frames and runs.                                                *)
(***************************************************************************)
EXTENDS AudioReceiver, TLAPS

-----------------------------------------------------------------------------
(* Types *)

Flushes == [phase : {"waiting", "writing", "sweeping"},
            tag : Tags \cup {None}, frames : SUBSET Frames]

ResetThreads == [phase : {"new", "begun", "writing", "flushed", "cleared", "done"},
                 at : SUBSET Instances, old : Tags \cup {None},
                 new : Tags \cup {None}, to : Tags \cup {None},
                 frames : SUBSET Frames]

Documents == [status : {"missing", "running", "complete"}, fresh : BOOLEAN,
              counted : SUBSET Frames]

SinkTypes ==
  /\ up \subseteq Instances /\ ends \in 0..MaxEnds
  /\ tag \in [Instances -> Tags \cup {None}]
  /\ delta \in [Instances -> SUBSET Frames] /\ peak \in [Instances -> BOOLEAN]
  /\ tagged \in [Frames -> SUBSET (Tags \cup {None})]
  /\ gone \subseteq Frames /\ overlapped \subseteq Tags \cup {None}

ThreadTypes ==
  /\ flush \in [Instances -> Flushes]
  /\ reset \in [Resets -> ResetThreads]

DocumentTypes ==
  /\ doc \in [Tags -> Documents]
  /\ \A t \in Tags : doc[t].status = "missing" => doc[t].counted = {}

LEMMA TypeParts == TypeOK <=> SinkTypes /\ ThreadTypes /\ DocumentTypes
  BY DEF TypeOK, SinkTypes, ThreadTypes, DocumentTypes, Flushes, ResetThreads,
         Documents, Exists

LEMMA EmptyThreads ==
  /\ NoFlush \in Flushes /\ NoFlush.phase = "waiting" /\ NoFlush.frames = {}
  /\ [NoFlush EXCEPT !.phase = "sweeping"] \in Flushes
  /\ NoReset \in ResetThreads /\ NoReset.phase = "new" /\ NoReset.frames = {}
  /\ Done \in ResetThreads /\ Done.phase = "done" /\ Done.frames = {} /\ Done.at = {}
  BY DEF NoFlush, NoReset, Done, Flushes, ResetThreads

\* What an update does to the documents, with its effect or without.
LEMMA AddTypes ==
  ASSUME DocumentTypes, NEW t \in Tags, NEW frames \in SUBSET Frames, NEW status,
         status = "" \/ status = "complete",
         Add(t, frames, status) \/ UNCHANGED doc
  PROVE  DocumentTypes'
<1>1. CASE UNCHANGED doc
  BY <1>1 DEF DocumentTypes
<1>2. CASE Add(t, frames, status)
  <2> DEFINE new == [status  |-> IF status = "" THEN doc[t].status ELSE status,
                     fresh   |-> TRUE,
                     counted |-> doc[t].counted \cup frames]
  <2>1. doc' = [doc EXCEPT ![t] = new] /\ doc[t].status # "missing"
    BY <1>2 DEF Add, Exists
  <2>2. new \in Documents /\ new.status # "missing"
    BY <2>1 DEF DocumentTypes, Documents
  <2> HIDE DEF new
  <2> QED
    BY <2>1, <2>2 DEF DocumentTypes
<1> QED
  BY <1>1, <1>2

LEMMA HeldFrames ==
  ASSUME SinkTypes, ThreadTypes, NEW i \in Instances
  PROVE  Held(i) \subseteq Frames
<1>1. delta[i] \subseteq Frames /\ flush[i].frames \subseteq Frames
  BY DEF SinkTypes, ThreadTypes, Flushes
<1>2. \A r \in Resets : reset[r].frames \subseteq Frames
  BY DEF ThreadTypes, ResetThreads
<1> QED
  BY <1>1, <1>2 DEF Held, InHand

LEMMA VanishTypes ==
  ASSUME SinkTypes, ThreadTypes, NEW i \in Instances, Vanish(i),
         gone' \subseteq Frames
  PROVE  SinkTypes' /\ ThreadTypes'
<1>1. SinkTypes'
  BY ReceiverAssumption DEF ReceiverAssumption, SinkTypes, Vanish
<1>2. ThreadTypes'
  BY EmptyThreads DEF ThreadTypes, Vanish
<1> QED
  BY <1>1, <1>2

\* Only a thread that writes has frames in hand, and it has a run to add them to.
FlusherHolds(i) ==
  IF flush[i].phase = "writing" THEN flush[i].tag \in Tags ELSE flush[i].frames = {}

\* The same for a reset, which besides runs somewhere.
ResetHolds(r) ==
  /\ IF reset[r].phase = "writing" THEN reset[r].to \in Tags ELSE reset[r].frames = {}
  /\ reset[r].phase \notin {"new", "done"} => \E i \in Instances : reset[r].at = {i}

ThreadsHold ==
  /\ \A i \in Instances : FlusherHolds(i)
  /\ \A r \in Resets : ResetHolds(r)

LEMMA ThreadsInit == Init => ThreadsHold
  BY DEF Init, ThreadsHold, FlusherHolds, ResetHolds, NoFlush, NoReset

LEMMA ThreadsStep == TypeOK /\ ThreadsHold /\ [Next]_vars => ThreadsHold'
<1> SUFFICES ASSUME SinkTypes, ThreadTypes, ThreadsHold, [Next]_vars PROVE ThreadsHold'
  BY TypeParts
<1>1. CASE UNCHANGED <<flush, reset>>
  BY <1>1 DEF ThreadsHold, FlusherHolds, ResetHolds
<1>2. ASSUME NEW i \in Instances, Vanish(i) PROVE ThreadsHold'
  <2>1. \A j \in Instances : flush'[j] = flush[j] \/ flush'[j] = NoFlush
    BY <1>2 DEF Vanish, ThreadTypes
  <2>2. \A r \in Resets : reset'[r] = reset[r] \/ reset'[r] = Done
    BY <1>2 DEF Vanish
  <2> QED
    BY <2>1, <2>2, EmptyThreads DEF ThreadsHold, FlusherHolds, ResetHolds
<1>3. ASSUME NEW i \in Instances,
             Take(i) \/ Write(i) \/ WriteFails(i) \/ Sweep(i) \/ SweepFails(i)
      PROVE  ThreadsHold'
  <2>1. UNCHANGED reset /\ \A j \in Instances \ {i} : flush'[j] = flush[j]
    BY <1>3 DEF Take, Write, WriteFails, Sweep, SweepFails, ThreadTypes
  <2>2. FlusherHolds(i)'
    <3>1. CASE Take(i)
      <4>1. flush[i] \in Flushes /\ tag[i] \in Tags \cup {None} /\ flush[i].frames = {}
        BY <3>1 DEF Take, ThreadTypes, SinkTypes, ThreadsHold, FlusherHolds
      <4> QED
        BY <3>1, <4>1 DEF Take, Unwritten, ThreadTypes, FlusherHolds, Flushes
    <3>2. CASE ~Take(i)
      <4>1. \/ flush'[i] = [NoFlush EXCEPT !.phase = "sweeping"]
            \/ flush'[i] = NoFlush
        BY <1>3, <3>2 DEF Write, WriteFails, Sweep, SweepFails, ThreadTypes
      <4> QED
        BY <4>1 DEF FlusherHolds, NoFlush
    <3> QED
      BY <3>1, <3>2
  <2> QED
    BY <2>1, <2>2 DEF ThreadsHold, FlusherHolds, ResetHolds
<1>4. ASSUME NEW i \in Instances, NEW r \in Resets,
             \/ \E t \in Tags \cup {None} : BeginReset(r, i, t)
             \/ TakeLast(r, i) \/ WriteLast(r, i) \/ Retag(r, i) \/ Create(r, i)
      PROVE  ThreadsHold'
  <2>1. UNCHANGED flush /\ \A x \in Resets \ {r} : reset'[x] = reset[x]
    BY <1>4 DEF BeginReset, TakeLast, WriteLast, Retag, Create, ThreadTypes
  <2>2. reset[r] \in ResetThreads /\ ResetHolds(r)
    BY DEF ThreadTypes, ThreadsHold
  <2>3. ResetHolds(r)'
    <3>1. ASSUME NEW t \in Tags \cup {None}, BeginReset(r, i, t) PROVE ResetHolds(r)'
      <4>1. reset'[r] = [NoReset EXCEPT !.phase = "begun", !.at = {i},
                                        !.old = tag[i], !.new = t]
        BY <3>1 DEF BeginReset, ThreadTypes
      <4>2. /\ reset'[r].phase = "begun" /\ reset'[r].frames = {}
            /\ reset'[r].at = {i}
        BY <4>1 DEF NoReset
      <4> QED
        BY <3>1, <4>2 DEF ResetHolds
    <3>2. CASE TakeLast(r, i)
      <4>1. FlushTag(r, i) \in Tags \cup {None}
        BY <2>2 DEF FlushTag, SinkTypes, ResetThreads
      <4> QED
        BY <2>2, <3>2, <4>1 DEF TakeLast, WritesLast, Step, ThreadTypes, ResetThreads, ResetHolds
    <3>3. CASE WriteLast(r, i) \/ Retag(r, i)
      <4>1. /\ reset'[r].phase \in {"flushed", "cleared"} /\ reset'[r].frames = {}
            /\ reset'[r].at = reset[r].at
        <5>1. CASE WriteLast(r, i)
          BY <2>2, <5>1 DEF WriteLast, ThreadTypes, ResetThreads
        <5>2. CASE Retag(r, i)
          <6>1. reset[r].frames = {}
            BY <2>2, <5>2 DEF Retag, Step, ResetHolds
          <6> QED
            BY <2>2, <5>2, <6>1 DEF Retag, ThreadTypes, ResetThreads
        <5> QED
          BY <3>3, <5>1, <5>2
      <4>2. \E j \in Instances : reset[r].at = {j}
        BY <2>2, <3>3 DEF WriteLast, Retag, Step, ResetHolds
      <4> QED
        BY <4>1, <4>2 DEF ResetHolds
    <3>4. CASE Create(r, i)
      BY <3>4, EmptyThreads DEF Create, ThreadTypes, ResetHolds
    <3> QED
      BY <1>4, <3>1, <3>2, <3>3, <3>4
  <2> QED
    BY <2>1, <2>3 DEF ThreadsHold, FlusherHolds, ResetHolds
<1> QED
  BY <1>1, <1>2, <1>3, <1>4
     DEF Next, vars, Start, Stop, Crash, RecordFrame, Age

LEMMA TypeInit == Init => TypeOK
<1> SUFFICES ASSUME Init PROVE SinkTypes /\ ThreadTypes /\ DocumentTypes
  BY TypeParts
<1>1. SinkTypes
  BY ReceiverAssumption DEF ReceiverAssumption, Init, SinkTypes
<1>2. ThreadTypes
  BY EmptyThreads DEF Init, ThreadTypes
<1>3. DocumentTypes
  BY DEF Init, DocumentTypes, Documents, NoDoc
<1> QED
  BY <1>1, <1>2, <1>3

LEMMA TypeStep == TypeOK /\ ThreadsHold /\ [Next]_vars => TypeOK'
<1> SUFFICES ASSUME SinkTypes, ThreadTypes, DocumentTypes, ThreadsHold, [Next]_vars
             PROVE  SinkTypes' /\ ThreadTypes' /\ DocumentTypes'
  BY TypeParts, PTL
<1>1. ASSUME NEW i \in Instances, Start(i) PROVE SinkTypes' /\ ThreadTypes' /\ DocumentTypes'
  BY <1>1 DEF Start, SinkTypes, ThreadTypes, DocumentTypes
<1>2. ASSUME NEW i \in Instances, Stop(i) PROVE SinkTypes' /\ ThreadTypes' /\ DocumentTypes'
  <2>1. delta[i] \in SUBSET Frames /\ (tag[i] # None => tag[i] \in Tags) /\ Vanish(i)
    BY <1>2 DEF Stop, SinkTypes
  <2>2. gone' \subseteq Frames
    BY <1>2, <2>1, HeldFrames DEF Stop, SinkTypes, Held
  <2>3. DocumentTypes'
    <3>1. CASE tag[i] # None /\ Add(tag[i], delta[i], "")
      BY <2>1, <3>1, AddTypes
    <3>2. CASE UNCHANGED doc
      BY <3>2 DEF DocumentTypes
    <3> QED
      BY <1>2, <3>1, <3>2 DEF Stop, Unwritten
  <2> QED
    BY <2>1, <2>2, <2>3, VanishTypes
<1>3. ASSUME NEW i \in Instances, Crash(i) PROVE SinkTypes' /\ ThreadTypes' /\ DocumentTypes'
  <2>2. gone' \subseteq Frames /\ Vanish(i) /\ UNCHANGED doc
    BY <1>3, HeldFrames DEF Crash, SinkTypes
  <2> QED
    BY <2>2, VanishTypes DEF DocumentTypes
<1>4. ASSUME NEW i \in Instances, Take(i) PROVE SinkTypes' /\ ThreadTypes' /\ DocumentTypes'
  <2>1. SinkTypes' /\ DocumentTypes'
    BY <1>4 DEF Take, SinkTypes, DocumentTypes
  <2>2. ThreadTypes'
    <3>1. flush[i] \in Flushes /\ tag[i] \in Tags \cup {None} /\ delta[i] \in SUBSET Frames
      BY DEF ThreadTypes, SinkTypes
    <3>2. /\ [phase |-> "writing", tag |-> tag[i], frames |-> delta[i]] \in Flushes
          /\ [flush[i] EXCEPT !.phase = "sweeping"] \in Flushes
      BY <3>1 DEF Flushes
    <3> QED
      BY <1>4, <3>2 DEF Take, ThreadTypes
  <2> QED
    BY <2>1, <2>2
<1>5. ASSUME NEW i \in Instances, Write(i) \/ WriteFails(i)
      PROVE  SinkTypes' /\ ThreadTypes' /\ DocumentTypes'
  <2>1. flush[i] \in Flushes
    BY DEF ThreadTypes
  <2>2. flush[i].frames \in SUBSET Frames
    BY <2>1 DEF Flushes
  <2>3. SinkTypes'
    BY <1>5, <2>2 DEF Write, WriteFails, Fails, SinkTypes
  <2>4. ThreadTypes'
    BY <1>5, EmptyThreads DEF Write, WriteFails, ThreadTypes
  <2>5. DocumentTypes'
    <3>1. flush[i].tag \in Tags
      BY <1>5 DEF Write, WriteFails, ThreadsHold, FlusherHolds
    <3>2. Add(flush[i].tag, flush[i].frames, "") \/ UNCHANGED doc
      BY <1>5 DEF Write, WriteFails, Fails
    <3> QED
      BY <2>2, <3>1, <3>2, AddTypes
  <2> QED
    BY <2>3, <2>4, <2>5
<1>7. ASSUME NEW i \in Instances, Sweep(i) \/ SweepFails(i)
      PROVE  SinkTypes' /\ ThreadTypes' /\ DocumentTypes'
  <2>1. SinkTypes' /\ ThreadTypes'
    BY <1>7, EmptyThreads DEF Sweep, SweepFails, SinkTypes, ThreadTypes
  <2>2. DocumentTypes'
    <3>1. \A t \in Tags : /\ doc[t] \in Documents
                          /\ [doc[t] EXCEPT !.status = "complete"] \in Documents
      BY DEF DocumentTypes, Documents
    <3> QED
      BY <1>7, <3>1 DEF Sweep, SweepFails, DocumentTypes, Documents
  <2> QED
    BY <2>1, <2>2
<1>9. ASSUME NEW i \in Instances, NEW f \in Frames, RecordFrame(i, f)
      PROVE  SinkTypes' /\ ThreadTypes' /\ DocumentTypes'
  BY <1>9 DEF RecordFrame, SinkTypes, ThreadTypes, DocumentTypes
<1>10. ASSUME NEW i \in Instances, NEW r \in Resets, NEW t \in Tags \cup {None}, BeginReset(r, i, t)
       PROVE  SinkTypes' /\ ThreadTypes' /\ DocumentTypes'
  <2> DEFINE new == [NoReset EXCEPT !.phase = "begun", !.at = {i},
                                    !.old = tag[i], !.new = t]
  <2>1. new \in ResetThreads
    BY DEF NoReset, ResetThreads, SinkTypes
  <2>2. reset' = [reset EXCEPT ![r] = new]
    BY <1>10 DEF BeginReset
  <2> HIDE DEF new
  <2>3. ThreadTypes'
    BY <1>10, <2>1, <2>2 DEF BeginReset, ThreadTypes
  <2>4. \A x \in Resets : reset[x].old \in Tags \cup {None}
    BY DEF ThreadTypes, ResetThreads
  <2>5. SinkTypes' /\ DocumentTypes'
    BY <1>10, <2>4 DEF BeginReset, SinkTypes, DocumentTypes
  <2> QED
    BY <2>3, <2>5
<1>11. ASSUME NEW i \in Instances, NEW r \in Resets, TakeLast(r, i)
       PROVE  SinkTypes' /\ ThreadTypes' /\ DocumentTypes'
  <2>1. reset[r] \in ResetThreads
    BY DEF ThreadTypes
  <2>2. FlushTag(r, i) \in Tags \cup {None} /\ delta[i] \in SUBSET Frames
    BY <2>1 DEF FlushTag, SinkTypes, ResetThreads
  <2>3. /\ [reset[r] EXCEPT !.phase = "writing", !.to = FlushTag(r, i),
                            !.frames = delta[i]] \in ResetThreads
        /\ [reset[r] EXCEPT !.phase = "flushed"] \in ResetThreads
    BY <2>1, <2>2 DEF ResetThreads
  <2>4. ThreadTypes'
    BY <1>11, <2>3 DEF TakeLast, ThreadTypes
  <2>5. SinkTypes' /\ DocumentTypes'
    BY <1>11 DEF TakeLast, SinkTypes, DocumentTypes
  <2> QED
    BY <2>4, <2>5
<1>12. ASSUME NEW i \in Instances, NEW r \in Resets, WriteLast(r, i)
       PROVE  SinkTypes' /\ ThreadTypes' /\ DocumentTypes'
  <2>1. reset[r] \in ResetThreads
    BY DEF ThreadTypes
  <2>2. reset[r].frames \in SUBSET Frames
    BY <2>1 DEF ResetThreads
  <2> DEFINE status == IF reset[r].old = None THEN "" ELSE "complete"
  <2>3. Add(reset[r].to, reset[r].frames, status) \/ UNCHANGED doc
    BY <1>12 DEF WriteLast, Fails
  <2>4. status = "" \/ status = "complete"
    OBVIOUS
  <2> HIDE DEF status
  <2>5. DocumentTypes'
    <3>1. reset[r].to \in Tags
      BY <1>12 DEF WriteLast, Step, ThreadsHold, ResetHolds
    <3> QED
      BY <2>2, <2>3, <2>4, <3>1, AddTypes
  <2>6. SinkTypes'
    BY <1>12, <2>2 DEF WriteLast, Fails, SinkTypes
  <2>7. [reset[r] EXCEPT !.phase = "flushed", !.frames = {}] \in ResetThreads
    BY <2>1 DEF ResetThreads
  <2>8. ThreadTypes'
    BY <1>12, <2>7 DEF WriteLast, ThreadTypes
  <2> QED
    BY <2>5, <2>6, <2>8
<1>13. ASSUME NEW i \in Instances, NEW r \in Resets, Retag(r, i)
       PROVE  SinkTypes' /\ ThreadTypes' /\ DocumentTypes'
  <2>1. reset[r] \in ResetThreads
    BY DEF ThreadTypes
  <2>2. reset[r].new \in Tags \cup {None} /\ [reset[r] EXCEPT !.phase = "cleared"] \in ResetThreads
    BY <2>1 DEF ResetThreads
  <2>3. SinkTypes' /\ DocumentTypes'
    BY <1>13, <2>2 DEF Retag, SinkTypes, DocumentTypes
  <2>4. ThreadTypes'
    BY <1>13, <2>2 DEF Retag, ThreadTypes
  <2> QED
    BY <2>3, <2>4
<1>14. ASSUME NEW i \in Instances, NEW r \in Resets, Create(r, i)
       PROVE  SinkTypes' /\ ThreadTypes' /\ DocumentTypes'
  <2> DEFINE t == reset[r].new
             new == [status |-> "running", fresh |-> TRUE, counted |-> {}]
  <2>1. new \in Documents /\ new.status # "missing"
    BY DEF Documents
  <2>2. \/ /\ t # None /\ doc' = [doc EXCEPT ![t] = new]
           /\ gone' = gone \cup doc[t].counted
        \/ UNCHANGED <<doc, gone>>
    BY <1>14 DEF Create
  <2>3. t \in Tags => doc[t].counted \subseteq Frames
    BY DEF DocumentTypes, Documents
  <2>4. t # None => t \in Tags
    BY DEF ThreadTypes, ResetThreads
  <2> HIDE DEF t, new
  <2>5. SinkTypes'
    BY <1>14, <2>2, <2>3, <2>4 DEF Create, SinkTypes
  <2>6. DocumentTypes'
    BY <2>1, <2>2 DEF DocumentTypes
  <2>7. ThreadTypes'
    BY <1>14, EmptyThreads DEF Create, ThreadTypes
  <2> QED
    BY <2>5, <2>6, <2>7
<1>15. ASSUME NEW t \in Tags, Age(t) PROVE SinkTypes' /\ ThreadTypes' /\ DocumentTypes'
  <2>1. [doc[t] EXCEPT !.fresh = FALSE] \in Documents
    BY DEF DocumentTypes, Documents
  <2>2. DocumentTypes'
    BY <1>15, <2>1 DEF Age, DocumentTypes, Documents
  <2> QED
    BY <1>15, <2>2 DEF Age, SinkTypes, ThreadTypes
<1>16. CASE UNCHANGED vars
  BY <1>16 DEF vars, SinkTypes, ThreadTypes, DocumentTypes
<1> QED
  BY <1>1, <1>2, <1>3, <1>4, <1>5, <1>7, <1>9, <1>10, <1>11, <1>12,
     <1>13, <1>14, <1>15, <1>16 DEF Next

LEMMA Types == Spec => [](TypeOK /\ ThreadsHold)
  BY TypeInit, ThreadsInit, TypeStep, ThreadsStep, PTL DEF Spec

\* The variables of every instance, reset and document keep their types.
THEOREM ReceiverTypes == Spec => []TypeOK
  BY Types, PTL

-----------------------------------------------------------------------------
(* Where a frame can be *)

\* The sinks, the flush threads, the resets and the documents hold frames.
Places ==
  {"sink", "flush"} \X Instances \cup {"reset"} \X Resets \cup {"doc"} \X Tags

At(p) ==
  CASE p[1] = "sink"  -> delta[p[2]]
    [] p[1] = "flush" -> flush[p[2]].frames
    [] p[1] = "reset" -> reset[p[2]].frames
    [] p[1] = "doc"   -> doc[p[2]].counted

Sink(i)  == <<"sink", i>>
Flush(i) == <<"flush", i>>
Reset(r) == <<"reset", r>>
Doc(t)   == <<"doc", t>>

LEMMA SinkFacts ==
  \A i \in Instances :
    Sink(i) \in Places /\ At(Sink(i)) = delta[i] /\ At(Sink(i))' = delta'[i]
  BY DEF Places, At, Sink

LEMMA FlushFacts ==
  \A i \in Instances :
    Flush(i) \in Places /\ At(Flush(i)) = flush[i].frames /\ At(Flush(i))' = flush'[i].frames
  BY DEF Places, At, Flush

LEMMA ResetFacts ==
  \A r \in Resets :
    Reset(r) \in Places /\ At(Reset(r)) = reset[r].frames /\ At(Reset(r))' = reset'[r].frames
  BY DEF Places, At, Reset

LEMMA DocFacts ==
  \A t \in Tags :
    Doc(t) \in Places /\ At(Doc(t)) = doc[t].counted /\ At(Doc(t))' = doc'[t].counted
  BY DEF Places, At, Doc

LEMMA PlaceFacts ==
  \A p \in Places : \/ \E i \in Instances : p = Sink(i) \/ p = Flush(i)
                    \/ \E r \in Resets : p = Reset(r)
                    \/ \E t \in Tags : p = Doc(t)
  BY DEF Places, Sink, Flush, Reset, Doc

LEMMA PlacesDiffer ==
  /\ \A i, j : /\ Sink(i) # Flush(j) /\ Sink(i) # Reset(j) /\ Sink(i) # Doc(j)
               /\ Flush(i) # Reset(j) /\ Flush(i) # Doc(j) /\ Reset(i) # Doc(j)
  /\ \A i, j : i # j => /\ Sink(i) # Sink(j) /\ Flush(i) # Flush(j)
                        /\ Reset(i) # Reset(j) /\ Doc(i) # Doc(j)
  BY DEF Sink, Flush, Reset, Doc

\* No frame is at two places, and only frames that were recorded are anywhere.
Apart ==
  \A p \in Places :
    /\ \A q \in Places : p # q => At(p) \cap At(q) = {}
    /\ \A f \in At(p) : tagged[f] # {}

\* Every frame that was recorded is somewhere or was given up.
Kept ==
  \A f \in Frames : tagged[f] # {} => f \in gone \/ \E p \in Places : f \in At(p)

-----------------------------------------------------------------------------
(* What each action does to the places *)

\* A step leaves every place as it is, gives up what is at one, pours one into
\* another (and may give up what it poured), or ends an instance.
Same == \A o \in Places : At(o)' = At(o)

Empties(p) == /\ At(p)' = {} /\ At(p) \subseteq gone'
              /\ \A o \in Places \ {p} : At(o)' = At(o)

Pours(p, q) ==
  /\ At(p)' = {}
  /\ \/ At(q)' = At(q) \cup At(p)
     \/ At(q)' = At(q) /\ At(p) \subseteq gone'
  /\ \A o \in Places \ {p, q} : At(o)' = At(o)

\* What an instance holds, ...
Leaves(i) == {Sink(i), Flush(i)} \cup {Reset(r) : r \in {x \in Resets : reset[x].at = {i}}}

\* ... and its end, with or without a last flush.
Ends(i) ==
  /\ \A o \in Places \cap Leaves(i) : At(o)' = {}
  /\ \/ /\ \A o \in Places \cap Leaves(i) : At(o) \subseteq gone'
        /\ \A o \in Places \ Leaves(i) : At(o)' = At(o)
     \/ \E t \in Tags :
          /\ At(Doc(t))' = At(Doc(t)) \cup At(Sink(i))
          /\ \A o \in Places \ (Leaves(i) \cup {Doc(t)}) : At(o)' = At(o)
          /\ \A o \in Places \cap Leaves(i) : o # Sink(i) => At(o) \subseteq gone'

Transfer ==
  \/ Same
  \/ \E p \in Places : Empties(p)
  \/ \E p, q \in Places : p # q /\ Pours(p, q)
  \/ \E i \in Instances : Ends(i)

LEMMA SamePlaces ==
  /\ UNCHANGED delta => \A i \in Instances : At(Sink(i))' = At(Sink(i))
  /\ UNCHANGED flush => \A i \in Instances : At(Flush(i))' = At(Flush(i))
  /\ UNCHANGED reset => \A r \in Resets : At(Reset(r))' = At(Reset(r))
  /\ UNCHANGED doc => \A t \in Tags : At(Doc(t))' = At(Doc(t))
  BY SinkFacts, FlushFacts, ResetFacts, DocFacts

LEMMA ByPlace ==
  ASSUME NEW E, E \subseteq Places,
         \A i \in Instances : /\ Sink(i) \notin E => At(Sink(i))' = At(Sink(i))
                              /\ Flush(i) \notin E => At(Flush(i))' = At(Flush(i)),
         \A r \in Resets : Reset(r) \notin E => At(Reset(r))' = At(Reset(r)),
         \A t \in Tags : Doc(t) \notin E => At(Doc(t))' = At(Doc(t))
  PROVE  \A o \in Places \ E : At(o)' = At(o)
  BY PlaceFacts

LEMMA AddPlaces ==
  ASSUME DocumentTypes, NEW t \in Tags, NEW frames, NEW status, Add(t, frames, status)
  PROVE  /\ At(Doc(t))' = At(Doc(t)) \cup frames
         /\ \A u \in Tags \ {t} : At(Doc(u))' = At(Doc(u))
  BY DocFacts DEF Add, DocumentTypes

LEMMA PourOut ==
  ASSUME NEW p \in Places, NEW q \in Places, p # q, Pours(p, q)
  PROVE  Transfer
  BY DEF Transfer

LEMMA FlusherTransfers ==
  ASSUME SinkTypes, ThreadTypes, DocumentTypes, ThreadsHold, NEW i \in Instances,
         Take(i) \/ Write(i) \/ WriteFails(i) \/ Sweep(i) \/ SweepFails(i)
  PROVE  Transfer /\ UNCHANGED tagged /\ gone \subseteq gone'
<1>1. UNCHANGED <<reset, tagged>> /\ gone \subseteq gone'
  BY DEF Take, Write, WriteFails, Sweep, SweepFails, Fails
<1>2. \A j \in Instances \ {i} : At(Flush(j))' = At(Flush(j))
  BY FlushFacts DEF Take, Write, WriteFails, Sweep, SweepFails, ThreadTypes
<1>3. Sink(i) \in Places /\ Flush(i) \in Places /\ Sink(i) # Flush(i)
  BY SinkFacts, FlushFacts, PlacesDiffer
<1>4. CASE Take(i)
  <2>1. UNCHANGED doc /\ \A j \in Instances \ {i} : At(Sink(j))' = At(Sink(j))
    BY <1>4, SinkFacts DEF Take, SinkTypes
  <2>2. At(Flush(i)) = {}
    BY <1>4, FlushFacts DEF Take, ThreadsHold, FlusherHolds
  <2>3. \A o \in Places \ {Sink(i), Flush(i)} : At(o)' = At(o)
    BY <1>1, <1>2, <1>3, <2>1, SamePlaces, ByPlace
  <2>4. CASE delta' = [delta EXCEPT ![i] = {}] /\ flush'[i].frames = delta[i]
    <3>1. At(Sink(i))' = {} /\ At(Flush(i))' = At(Sink(i))
      BY <2>4, SinkFacts, FlushFacts DEF SinkTypes
    <3>2. Pours(Sink(i), Flush(i))
      BY <2>2, <2>3, <3>1 DEF Pours
    <3> QED
      BY <1>1, <1>3, <3>2, PourOut
  <2>5. CASE UNCHANGED delta /\ flush'[i].frames = flush[i].frames
    <3>1. At(Sink(i))' = At(Sink(i)) /\ At(Flush(i))' = At(Flush(i))
      BY <2>5, SinkFacts, FlushFacts
    <3> QED
      BY <1>1, <2>3, <3>1 DEF Transfer, Same
  <2> QED
    BY <1>4, <2>4, <2>5 DEF Take, ThreadTypes, Flushes
<1>5. CASE Write(i) \/ WriteFails(i)
  <2> PICK t \in Tags : t = flush[i].tag
    BY <1>5 DEF Write, WriteFails, ThreadsHold, FlusherHolds
  <2> PICK F : F = flush[i].frames
    OBVIOUS
  <2>1. UNCHANGED delta
    BY <1>5 DEF Write, WriteFails
  <2>2. At(Flush(i))' = {} /\ F = At(Flush(i))
    BY <1>5, EmptyThreads, FlushFacts DEF Write, WriteFails, ThreadTypes, NoFlush
  <2>3. Add(t, F, "") \/ (UNCHANGED doc /\ F \subseteq gone')
    BY <1>5 DEF Write, WriteFails, Fails
  <2>4. Doc(t) \in Places /\ Flush(i) # Doc(t)
    BY FlushFacts, DocFacts, PlacesDiffer
  <2>5. /\ \A u \in Tags \ {t} : At(Doc(u))' = At(Doc(u))
        /\ \/ At(Doc(t))' = At(Doc(t)) \cup At(Flush(i))
           \/ At(Doc(t))' = At(Doc(t)) /\ At(Flush(i)) \subseteq gone'
    <3>1. CASE Add(t, F, "")
      BY <2>2, <3>1, AddPlaces
    <3>2. CASE UNCHANGED doc /\ F \subseteq gone'
      BY <2>2, <3>2, SamePlaces
    <3> QED
      BY <2>3, <3>1, <3>2
  <2>6. \A o \in Places \ {Flush(i), Doc(t)} : At(o)' = At(o)
    BY <1>1, <1>2, <1>3, <2>1, <2>4, <2>5, SamePlaces, ByPlace
  <2>7. Pours(Flush(i), Doc(t))
    BY <2>2, <2>5, <2>6 DEF Pours
  <2> QED
    BY <1>1, <1>3, <2>4, <2>7, PourOut
<1>6. CASE Sweep(i) \/ SweepFails(i)
  <2>1. UNCHANGED delta
    BY <1>6 DEF Sweep, SweepFails
  <2>2. flush[i].frames = {} /\ flush'[i].frames = {}
    BY <1>6, EmptyThreads DEF Sweep, SweepFails, ThreadTypes, ThreadsHold, FlusherHolds
  <2>3. \A t \in Tags : At(Doc(t))' = At(Doc(t))
    BY <1>6, DocFacts DEF Sweep, SweepFails, DocumentTypes, Documents
  <2> QED
    BY <1>1, <1>2, <2>1, <2>2, <2>3, SamePlaces, FlushFacts, PlaceFacts DEF Transfer, Same
<1> QED
  BY <1>4, <1>5, <1>6

LEMMA ResetTransfers ==
  ASSUME SinkTypes, ThreadTypes, DocumentTypes, ThreadsHold,
         NEW i \in Instances, NEW r \in Resets,
         \/ \E t \in Tags \cup {None} : BeginReset(r, i, t)
         \/ TakeLast(r, i) \/ WriteLast(r, i) \/ Retag(r, i) \/ Create(r, i)
  PROVE  Transfer /\ UNCHANGED tagged /\ gone \subseteq gone'
<1>1. UNCHANGED <<flush, tagged>> /\ gone \subseteq gone'
  BY DEF BeginReset, TakeLast, WriteLast, Retag, Create, Fails
<1>2. \A x \in Resets \ {r} : At(Reset(x))' = At(Reset(x))
  BY ResetFacts DEF BeginReset, TakeLast, WriteLast, Retag, Create, ThreadTypes
<1>3. Sink(i) \in Places /\ Reset(r) \in Places /\ Sink(i) # Reset(r)
  BY SinkFacts, ResetFacts, PlacesDiffer
<1>4. ResetHolds(r) /\ reset[r] \in ResetThreads
  BY DEF ThreadsHold, ThreadTypes
<1>5. CASE \E t \in Tags \cup {None} : BeginReset(r, i, t)
  <2>1. UNCHANGED <<delta, doc>> /\ reset'[r].frames = {} /\ reset[r].frames = {}
    BY <1>4, <1>5 DEF BeginReset, ResetHolds, ThreadTypes, NoReset
  <2>2. At(Reset(r))' = At(Reset(r))
    BY <2>1, ResetFacts
  <2> QED
    BY <1>1, <1>2, <2>1, <2>2, SamePlaces, PlaceFacts DEF Transfer, Same
<1>6. CASE TakeLast(r, i)
  <2>1. UNCHANGED doc /\ \A j \in Instances \ {i} : At(Sink(j))' = At(Sink(j))
    BY <1>6, SinkFacts DEF TakeLast, SinkTypes
  <2>2. At(Reset(r)) = {}
    BY <1>4, <1>6, ResetFacts DEF TakeLast, Step, ResetHolds
  <2>3. \A o \in Places \ {Sink(i), Reset(r)} : At(o)' = At(o)
    BY <1>1, <1>2, <1>3, <2>1, SamePlaces, ByPlace
  <2>4. CASE delta' = [delta EXCEPT ![i] = {}] /\ reset'[r].frames = delta[i]
    <3>1. At(Sink(i))' = {} /\ At(Reset(r))' = At(Sink(i))
      BY <2>4, SinkFacts, ResetFacts DEF SinkTypes
    <3>2. Pours(Sink(i), Reset(r))
      BY <2>2, <2>3, <3>1 DEF Pours
    <3> QED
      BY <1>1, <1>3, <3>2, PourOut
  <2>5. CASE UNCHANGED delta /\ reset'[r].frames = reset[r].frames
    <3>1. At(Sink(i))' = At(Sink(i)) /\ At(Reset(r))' = At(Reset(r))
      BY <2>5, SinkFacts, ResetFacts
    <3> QED
      BY <1>1, <2>3, <3>1 DEF Transfer, Same
  <2> QED
    BY <1>4, <1>6, <2>4, <2>5 DEF TakeLast, ThreadTypes, ResetThreads
<1>7. CASE WriteLast(r, i)
  <2> PICK t \in Tags : t = reset[r].to
    BY <1>4, <1>7 DEF WriteLast, Step, ResetHolds
  <2> PICK F : F = reset[r].frames
    OBVIOUS
  <2> PICK status : status = IF reset[r].old = None THEN "" ELSE "complete"
    OBVIOUS
  <2>1. UNCHANGED delta
    BY <1>7 DEF WriteLast
  <2>2. At(Reset(r))' = {} /\ F = At(Reset(r))
    BY <1>4, <1>7, ResetFacts DEF WriteLast, ThreadTypes, ResetThreads
  <2>3. Add(t, F, status) \/ (UNCHANGED doc /\ F \subseteq gone')
    BY <1>7 DEF WriteLast, Fails
  <2>4. Doc(t) \in Places /\ Reset(r) # Doc(t)
    BY ResetFacts, DocFacts, PlacesDiffer
  <2>5. /\ \A u \in Tags \ {t} : At(Doc(u))' = At(Doc(u))
        /\ \/ At(Doc(t))' = At(Doc(t)) \cup At(Reset(r))
           \/ At(Doc(t))' = At(Doc(t)) /\ At(Reset(r)) \subseteq gone'
    <3>1. CASE Add(t, F, status)
      BY <2>2, <3>1, AddPlaces
    <3>2. CASE UNCHANGED doc /\ F \subseteq gone'
      BY <2>2, <3>2, SamePlaces
    <3> QED
      BY <2>3, <3>1, <3>2
  <2>6. \A o \in Places \ {Reset(r), Doc(t)} : At(o)' = At(o)
    BY <1>1, <1>2, <1>3, <2>1, <2>4, <2>5, SamePlaces, ByPlace
  <2>7. Pours(Reset(r), Doc(t))
    BY <2>2, <2>5, <2>6 DEF Pours
  <2> QED
    BY <1>1, <1>3, <2>4, <2>7, PourOut
<1>8. CASE Retag(r, i)
  <2>1. UNCHANGED doc /\ \A j \in Instances \ {i} : At(Sink(j))' = At(Sink(j))
    BY <1>8, SinkFacts DEF Retag, SinkTypes
  <2>2. At(Reset(r))' = At(Reset(r))
    BY <1>4, <1>8, ResetFacts DEF Retag, ThreadTypes, ResetThreads
  <2>3. At(Sink(i))' = {} /\ At(Sink(i)) \subseteq gone'
    BY <1>8, SinkFacts DEF Retag, SinkTypes
  <2>4. \A o \in Places \ {Sink(i)} : At(o)' = At(o)
    BY <1>1, <1>2, <1>3, <2>1, <2>2, SamePlaces, ByPlace
  <2> QED
    BY <1>1, <1>3, <2>3, <2>4 DEF Transfer, Empties
<1>9. CASE Create(r, i)
  <2>1. UNCHANGED delta
    BY <1>9 DEF Create
  <2>2. At(Reset(r))' = At(Reset(r))
    <3>1. reset[r].frames = {}
      BY <1>4, <1>9 DEF Create, Step, ResetHolds
    <3>2. reset'[r] = Done
      BY <1>9 DEF Create, ThreadTypes
    <3> QED
      BY <3>1, <3>2, EmptyThreads, ResetFacts
  <2>3. CASE UNCHANGED doc
    BY <1>1, <1>2, <2>1, <2>2, <2>3, SamePlaces, PlaceFacts DEF Transfer, Same
  <2>4. CASE doc' # doc
    <3> PICK t \in Tags : t = reset[r].new
      BY <1>4, <1>9, <2>4 DEF Create, ResetThreads
    <3>1. /\ doc' = [doc EXCEPT ![t] = [status |-> "running", fresh |-> TRUE,
                                        counted |-> {}]]
          /\ gone' = gone \cup doc[t].counted
      BY <1>9, <2>4 DEF Create
    <3>2. At(Doc(t))' = {} /\ At(Doc(t)) \subseteq gone'
      <4>1. doc'[t] = [status |-> "running", fresh |-> TRUE, counted |-> {}]
        BY <2>1, <3>1 DEF DocumentTypes
      <4>2. doc'[t].counted = {} /\ doc[t].counted \subseteq gone'
        BY <3>1, <4>1
      <4> QED
        BY <2>1, <4>2, DocFacts
    <3>3. Doc(t) \in Places /\ \A u \in Tags \ {t} : At(Doc(u))' = At(Doc(u))
      BY <2>1, <3>1, DocFacts DEF DocumentTypes
    <3>4. \A o \in Places \ {Doc(t)} : At(o)' = At(o)
      BY <1>1, <1>2, <2>1, <2>2, <3>3, SamePlaces, ByPlace
    <3>5. Empties(Doc(t))
      BY <3>2, <3>4 DEF Empties
    <3> QED
      BY <1>1, <3>3, <3>5 DEF Transfer
  <2> QED
    BY <2>3, <2>4
<1> QED
  BY <1>5, <1>6, <1>7, <1>8, <1>9

LEMMA EndTransfers ==
  ASSUME SinkTypes, ThreadTypes, DocumentTypes, ThreadsHold, NEW i \in Instances,
         Crash(i) \/ Stop(i)
  PROVE  Transfer /\ UNCHANGED tagged /\ gone \subseteq gone'
<1>1. UNCHANGED tagged /\ gone \subseteq gone' /\ Vanish(i)
  BY DEF Crash, Stop, Vanish, Fails
<1>2. /\ At(Sink(i))' = {} /\ At(Flush(i))' = {}
      /\ \A j \in Instances \ {i} : /\ At(Sink(j))' = At(Sink(j))
                                    /\ At(Flush(j))' = At(Flush(j))
  BY <1>1, SinkFacts, FlushFacts, EmptyThreads DEF Vanish, SinkTypes, ThreadTypes
<1>3. \A r \in Resets : IF reset[r].at = {i} THEN At(Reset(r))' = {}
                                             ELSE At(Reset(r))' = At(Reset(r))
  BY <1>1, ResetFacts, EmptyThreads DEF Vanish
<1>4. \A o \in Places \cap Leaves(i) : At(o)' = {}
  BY <1>2, <1>3 DEF Leaves
<1>5. \A r \in Resets : Reset(r) \in Leaves(i) <=> reset[r].at = {i}
  BY PlacesDiffer DEF Leaves
<1>6. CASE Crash(i)
  <2>1. /\ delta[i] \subseteq gone' /\ flush[i].frames \subseteq gone'
        /\ \A r \in Resets : reset[r].at = {i} => reset[r].frames \subseteq gone'
    BY <1>6 DEF Crash, Held, InHand
  <2>2. \A o \in Places \cap Leaves(i) : At(o) \subseteq gone'
    BY <2>1, SinkFacts, FlushFacts, ResetFacts DEF Leaves
  <2>3. UNCHANGED doc
    BY <1>6 DEF Crash
  <2>4. \A o \in Places \ Leaves(i) : At(o)' = At(o)
    <3>1. \A j \in Instances : /\ Sink(j) \notin Leaves(i) => At(Sink(j))' = At(Sink(j))
                               /\ Flush(j) \notin Leaves(i) => At(Flush(j))' = At(Flush(j))
      BY <1>2 DEF Leaves
    <3>2. \A t \in Tags : At(Doc(t))' = At(Doc(t))
      BY <2>3, SamePlaces
    <3> QED
      BY <1>3, <1>5, <3>1, <3>2, PlaceFacts
  <2>5. Ends(i)
    BY <1>4, <2>2, <2>4 DEF Ends
  <2> QED
    BY <1>1, <2>5 DEF Transfer
<1>7. CASE Stop(i)
  <2>1. /\ flush[i].frames \subseteq gone'
        /\ \A r \in Resets : reset[r].at = {i} => reset[r].frames \subseteq gone'
    <3>1. InHand(i) \subseteq gone'
      BY <1>7 DEF Stop, Held
    <3> QED
      BY <3>1 DEF InHand
  <2>2. \A o \in Places \cap Leaves(i) : o # Sink(i) => At(o) \subseteq gone'
    BY <2>1, FlushFacts, ResetFacts DEF Leaves
  <2>3. \A j \in Instances : /\ Sink(j) \notin Leaves(i) => At(Sink(j))' = At(Sink(j))
                             /\ Flush(j) \notin Leaves(i) => At(Flush(j))' = At(Flush(j))
    BY <1>2 DEF Leaves
  <2>4. CASE UNCHANGED doc /\ delta[i] \subseteq gone'
    <3>1. \A t \in Tags : At(Doc(t))' = At(Doc(t))
      BY <2>4, SamePlaces
    <3>2. \A o \in Places \ Leaves(i) : At(o)' = At(o)
      BY <1>3, <1>5, <2>3, <3>1, PlaceFacts
    <3>3. \A o \in Places \cap Leaves(i) : At(o) \subseteq gone'
      BY <2>2, <2>4, SinkFacts
    <3>4. Ends(i)
      BY <1>4, <3>2, <3>3 DEF Ends
    <3> QED
      BY <1>1, <3>4 DEF Transfer
  <2>5. CASE tag[i] # None /\ Add(tag[i], delta[i], "")
    <3> PICK t \in Tags : t = tag[i]
      BY <2>5 DEF SinkTypes
    <3> PICK F : F = delta[i]
      OBVIOUS
    <3>1. Add(t, F, "")
      BY <2>5
    <3>2. F = At(Sink(i))
      BY SinkFacts
    <3>3. /\ At(Doc(t))' = At(Doc(t)) \cup At(Sink(i))
          /\ \A u \in Tags \ {t} : At(Doc(u))' = At(Doc(u))
      BY <3>1, <3>2, AddPlaces
    <3>4. \A o \in Places \ (Leaves(i) \cup {Doc(t)}) : At(o)' = At(o)
      BY <1>3, <1>5, <2>3, <3>3, PlaceFacts
    <3>5. Ends(i)
      BY <1>4, <2>2, <3>3, <3>4 DEF Ends
    <3> QED
      BY <1>1, <3>5 DEF Transfer
  <2> QED
    BY <1>7, <2>4, <2>5 DEF Stop, Unwritten, Held
<1> QED
  BY <1>6, <1>7

LEMMA StepTransfers ==
  ASSUME TypeOK, ThreadsHold, [Next]_vars
  PROVE  \/ Transfer /\ UNCHANGED tagged /\ gone \subseteq gone'
         \/ \E i \in Instances, f \in Frames : RecordFrame(i, f)
<1> USE TypeParts
<1>1. ASSUME NEW i \in Instances, Start(i)
      PROVE  Transfer /\ UNCHANGED tagged /\ gone \subseteq gone'
  <2>1. UNCHANGED <<delta, flush, reset, doc, tagged, gone>>
    BY <1>1 DEF Start
  <2> QED
    BY <2>1, SamePlaces, PlaceFacts DEF Transfer, Same
<1>2. ASSUME NEW t \in Tags, Age(t)
      PROVE  Transfer /\ UNCHANGED tagged /\ gone \subseteq gone'
  <2>1. UNCHANGED <<delta, flush, reset, tagged, gone>>
    BY <1>2 DEF Age
  <2>2. \A u \in Tags : At(Doc(u))' = At(Doc(u))
    BY <1>2, DocFacts DEF Age, DocumentTypes, Documents
  <2> QED
    BY <2>1, <2>2, SamePlaces, PlaceFacts DEF Transfer, Same
<1>3. CASE UNCHANGED vars
  <2>1. UNCHANGED <<delta, flush, reset, doc, tagged, gone>>
    BY <1>3 DEF vars
  <2> QED
    BY <2>1, SamePlaces, PlaceFacts DEF Transfer, Same
<1> QED
  BY <1>1, <1>2, <1>3, FlusherTransfers, ResetTransfers, EndTransfers DEF Next

-----------------------------------------------------------------------------
(* No frame is counted twice, and none is forgotten *)

LEMMA ApartStep == TypeOK /\ ThreadsHold /\ Apart /\ [Next]_vars => Apart'
<1> SUFFICES ASSUME TypeOK, ThreadsHold, Apart, [Next]_vars PROVE Apart'
  OBVIOUS
<1>1. ASSUME Same, UNCHANGED tagged PROVE Apart'
  BY <1>1 DEF Same, Apart
<1>2. ASSUME NEW p \in Places, Empties(p), UNCHANGED tagged PROVE Apart'
  BY <1>2 DEF Empties, Apart
<1>3. ASSUME NEW p \in Places, NEW q \in Places, p # q, Pours(p, q), UNCHANGED tagged
      PROVE  Apart'
  BY <1>3 DEF Pours, Apart
<1>4. ASSUME NEW i \in Instances, Ends(i), UNCHANGED tagged PROVE Apart'
  <2>1. CASE \A o \in Places \ Leaves(i) : At(o)' = At(o)
    BY <1>4, <2>1 DEF Ends, Apart
  <2>2. ASSUME NEW t \in Tags,
               At(Doc(t))' = At(Doc(t)) \cup At(Sink(i)),
               \A o \in Places \ (Leaves(i) \cup {Doc(t)}) : At(o)' = At(o)
        PROVE  Apart'
    <3>1. Sink(i) \in Places \cap Leaves(i) /\ Doc(t) \in Places
      BY SinkFacts, DocFacts DEF Leaves
    <3>2. \A o \in Places : o # Sink(i) => At(o)' = {} \/ At(o)' = At(o) \/ o = Doc(t)
      BY <1>4, <2>2 DEF Ends
    <3>3. At(Sink(i))' = {}
      BY <1>4, <3>1 DEF Ends
    <3> QED
      BY <1>4, <2>2, <3>1, <3>2, <3>3 DEF Apart
  <2> QED
    BY <1>4, <2>1, <2>2 DEF Ends
<1>5. ASSUME NEW i \in Instances, NEW f \in Frames, RecordFrame(i, f) PROVE Apart'
  <2>1. /\ At(Sink(i))' = At(Sink(i)) \cup {f} /\ Sink(i) \in Places
        /\ \A j \in Instances \ {i} : At(Sink(j))' = At(Sink(j))
    BY <1>5, SinkFacts, TypeParts DEF RecordFrame, SinkTypes
  <2>2. UNCHANGED <<flush, reset, doc>>
    BY <1>5 DEF RecordFrame
  <2>3. \A o \in Places \ {Sink(i)} : At(o)' = At(o)
    BY <2>1, <2>2, SamePlaces, PlaceFacts
  <2>4. /\ tagged[f] = {} /\ tagged'[f] # {}
        /\ \A g \in Frames \ {f} : tagged'[g] = tagged[g]
    BY <1>5, TypeParts DEF RecordFrame, SinkTypes
  <2>5. \A o \in Places : f \notin At(o) /\ At(o) \subseteq Frames
    <3>1. \A o \in Places : At(o) \subseteq Frames
      BY TypeParts, PlaceFacts, SinkFacts, FlushFacts, ResetFacts, DocFacts
         DEF SinkTypes, ThreadTypes, DocumentTypes, Flushes, ResetThreads, Documents
    <3> QED
      BY <2>4, <3>1 DEF Apart
  <2>6. ASSUME NEW o \in Places PROVE \A g \in At(o)' : tagged'[g] # {}
    BY <2>1, <2>3, <2>4, <2>5 DEF Apart
  <2>7. ASSUME NEW o \in Places, NEW x \in Places, o # x PROVE At(o)' \cap At(x)' = {}
    BY <2>1, <2>3, <2>5, <2>7 DEF Apart
  <2> QED
    BY <2>6, <2>7 DEF Apart
<1> QED
  BY <1>1, <1>2, <1>3, <1>4, <1>5, StepTransfers DEF Transfer

LEMMA KeptStep == TypeOK /\ ThreadsHold /\ Kept /\ [Next]_vars => Kept'
<1> SUFFICES ASSUME TypeOK, ThreadsHold, Kept, [Next]_vars PROVE Kept'
  OBVIOUS
<1>1. ASSUME Transfer, UNCHANGED tagged, gone \subseteq gone' PROVE Kept'
  <2> SUFFICES ASSUME NEW p \in Places, NEW f \in At(p)
               PROVE  f \in gone' \/ \E q \in Places : f \in At(q)'
    BY <1>1 DEF Kept
  <2>1. CASE Same
    BY <2>1 DEF Same
  <2>2. ASSUME NEW q \in Places, Empties(q) PROVE f \in gone' \/ f \in At(p)'
    BY <2>2 DEF Empties
  <2>3. ASSUME NEW o \in Places, NEW q \in Places, o # q, Pours(o, q)
        PROVE  f \in gone' \/ f \in At(p)' \/ f \in At(q)'
    BY <2>3 DEF Pours
  <2>4. ASSUME NEW i \in Instances, Ends(i)
        PROVE  f \in gone' \/ \E q \in Places : f \in At(q)'
    BY <2>4, DocFacts DEF Ends
  <2> QED
    BY <1>1, <2>1, <2>2, <2>3, <2>4 DEF Transfer
<1>2. ASSUME NEW i \in Instances, NEW f \in Frames, RecordFrame(i, f) PROVE Kept'
  <2>1. /\ At(Sink(i))' = At(Sink(i)) \cup {f} /\ Sink(i) \in Places
        /\ \A j \in Instances \ {i} : At(Sink(j))' = At(Sink(j))
    BY <1>2, SinkFacts, TypeParts DEF RecordFrame, SinkTypes
  <2>2. UNCHANGED <<flush, reset, doc, gone>>
    BY <1>2 DEF RecordFrame
  <2>3. \A o \in Places : At(o) \subseteq At(o)'
    BY <2>1, <2>2, SamePlaces, PlaceFacts
  <2>4. \A g \in Frames \ {f} : tagged'[g] = tagged[g]
    BY <1>2, TypeParts DEF RecordFrame, SinkTypes
  <2> QED
    BY <2>1, <2>2, <2>3, <2>4 DEF Kept
<1> QED
  BY <1>1, <1>2, StepTransfers

LEMMA PlacesInit == Init => Apart /\ Kept
<1> SUFFICES ASSUME Init PROVE (\A p \in Places : At(p) = {}) /\ Kept
  BY DEF Apart
<1>1. \A p \in Places : At(p) = {}
  BY PlaceFacts, SinkFacts, FlushFacts, ResetFacts, DocFacts
     DEF Init, NoFlush, NoReset, NoDoc
<1>2. Kept
  BY DEF Init, Kept
<1> QED
  BY <1>1, <1>2

LEMMA PlacesInvariant == Spec => [](TypeOK /\ ThreadsHold /\ Apart /\ Kept)
  BY Types, PlacesInit, ApartStep, KeptStep, PTL DEF Spec

\* What an instance holds is at one of its places.
LEMMA HeldAtPlaces ==
  ASSUME ThreadsHold
  PROVE  /\ \A i \in Instances : \A f \in Held(i) :
              \E p \in Places : /\ f \in At(p)
                                /\ \/ p = Sink(i) \/ p = Flush(i)
                                   \/ \E r \in Resets : p = Reset(r) /\ reset[r].at = {i}
         /\ \A p \in Places : \A f \in At(p) : f \in Counted \cup Pending
<1>1. ASSUME NEW i \in Instances, NEW f \in Held(i)
      PROVE  \E p \in Places : /\ f \in At(p)
                               /\ \/ p = Sink(i) \/ p = Flush(i)
                                  \/ \E r \in Resets : p = Reset(r) /\ reset[r].at = {i}
  BY <1>1, SinkFacts, FlushFacts, ResetFacts DEF Held, InHand
<1>2. ASSUME NEW p \in Places, NEW f \in At(p) PROVE f \in Counted \cup Pending
  <2>1. ASSUME NEW i \in Instances, p = Sink(i) \/ p = Flush(i) PROVE f \in Pending
    BY <2>1, <1>2, SinkFacts, FlushFacts DEF Pending, Held, InHand
  <2>2. ASSUME NEW r \in Resets, p = Reset(r) PROVE f \in Pending
    <3>1. f \in reset[r].frames
      BY <1>2, <2>2, ResetFacts
    <3>2. PICK i \in Instances : reset[r].at = {i}
      BY <3>1 DEF ThreadsHold, ResetHolds
    <3> QED
      BY <3>1, <3>2 DEF Pending, Held, InHand
  <2>3. ASSUME NEW t \in Tags, p = Doc(t) PROVE f \in Counted
    BY <1>2, <2>3, DocFacts DEF Counted
  <2> QED
    BY <2>1, <2>2, <2>3, PlaceFacts
<1> QED
  BY <1>1, <1>2

\* Every recorded frame is counted or about to be, or given up by a failed write,
\* a reset or the end of an instance (_flush_once clears before it writes).
THEOREM EveryFrameIsCounted == Spec => []EveryFrameCounted
<1>1. ThreadsHold /\ Kept => EveryFrameCounted
  BY HeldAtPlaces DEF Kept, EveryFrameCounted
<1> QED
  BY <1>1, PlacesInvariant, PTL

\* No frame is counted twice, however writes fail and resets and flushes overlap.
THEOREM FramesAreCountedOnce == Spec => []CountedOnce
<1>1. ASSUME ThreadsHold, Apart PROVE CountedOnce
  <2>1. ASSUME NEW i \in Instances, NEW j \in Instances, i # j
        PROVE  Held(i) \cap Held(j) = {}
    <3> SUFFICES ASSUME NEW f \in Held(i), f \in Held(j) PROVE FALSE
      OBVIOUS
    <3>1. PICK p \in Places :
            /\ f \in At(p)
            /\ \/ p = Sink(i) \/ p = Flush(i)
               \/ \E r \in Resets : p = Reset(r) /\ reset[r].at = {i}
      BY <1>1, HeldAtPlaces
    <3>2. PICK q \in Places :
            /\ f \in At(q)
            /\ \/ q = Sink(j) \/ q = Flush(j)
               \/ \E r \in Resets : q = Reset(r) /\ reset[r].at = {j}
      BY <1>1, HeldAtPlaces
    <3>3. p # q
      BY <2>1, <3>1, <3>2, PlacesDiffer
    <3> QED
      BY <1>1, <3>1, <3>2, <3>3 DEF Apart
  <2>2. ASSUME NEW i \in Instances, NEW t \in Tags PROVE Held(i) \cap doc[t].counted = {}
    <3> SUFFICES ASSUME NEW f \in Held(i), f \in doc[t].counted PROVE FALSE
      OBVIOUS
    <3>1. PICK p \in Places :
            /\ f \in At(p)
            /\ \/ p = Sink(i) \/ p = Flush(i)
               \/ \E r \in Resets : p = Reset(r) /\ reset[r].at = {i}
      BY <1>1, HeldAtPlaces
    <3>2. f \in At(Doc(t)) /\ Doc(t) \in Places /\ p # Doc(t)
      BY <3>1, DocFacts, PlacesDiffer
    <3> QED
      BY <1>1, <3>1, <3>2 DEF Apart
  <2>3. Counted \cap Pending = {}
    <3> SUFFICES ASSUME NEW f \in Counted, f \in Pending PROVE FALSE
      OBVIOUS
    <3>1. PICK t \in Tags : f \in doc[t].counted
      BY DEF Counted
    <3>2. PICK i \in Instances : f \in Held(i)
      BY DEF Pending
    <3> QED
      BY <2>2, <3>1, <3>2
  <2>4. ASSUME NEW t1 \in Tags, NEW t2 \in Tags, t1 # t2
        PROVE  doc[t1].counted \cap doc[t2].counted = {}
    <3>1. Doc(t1) # Doc(t2)
      BY <2>4, PlacesDiffer
    <3>2. At(Doc(t1)) \cap At(Doc(t2)) = {}
      BY <1>1, <3>1, DocFacts DEF Apart
    <3> QED
      BY <3>2, DocFacts
  <2> QED
    BY <2>1, <2>3, <2>4 DEF CountedOnce
<1> QED
  BY <1>1, PlacesInvariant, PTL

-----------------------------------------------------------------------------
(* Every frame counts for its own run *)

\* Two resets that run side by side on one instance have marked the runs they
\* complete, and a reset alone completes the run the instance is tagged with.
OverlapsMarked ==
  /\ \A i \in Instances : \A r, x \in Resets :
       r # x /\ Busy(r, i) /\ Busy(x, i) => reset[r].old \in overlapped
  /\ \A i \in Instances : \A r \in Resets :
       reset[r].phase = "begun" /\ reset[r].at = {i} =>
         reset[r].old = tag[i] \/ reset[r].old \in overlapped

LEMMA OverlapsInit == Init => OverlapsMarked
  BY DEF Init, OverlapsMarked, Busy, NoReset

LEMMA OverlapsStep == TypeOK /\ OverlapsMarked /\ [Next]_vars => OverlapsMarked'
<1> SUFFICES ASSUME SinkTypes, ThreadTypes, OverlapsMarked, [Next]_vars PROVE OverlapsMarked'
  BY TypeParts
<1>1. CASE UNCHANGED <<reset, tag, overlapped>>
  BY <1>1 DEF OverlapsMarked, Busy
<1>2. ASSUME NEW i \in Instances, Vanish(i) PROVE OverlapsMarked'
  <2>1. \A r \in Resets : \/ reset'[r] = reset[r] /\ reset[r].at # {i}
                          \/ reset'[r] = Done
    BY <1>2 DEF Vanish
  <2>2. UNCHANGED overlapped /\ \A j \in Instances \ {i} : tag'[j] = tag[j]
    BY <1>2 DEF Vanish, SinkTypes
  <2> QED
    BY <2>1, <2>2, EmptyThreads DEF OverlapsMarked, Busy
<1>3. ASSUME NEW i \in Instances, NEW r \in Resets, NEW t \in Tags \cup {None}, BeginReset(r, i, t)
      PROVE  OverlapsMarked'
  <2>1. /\ reset'[r].phase = "begun" /\ reset'[r].at = {i} /\ reset'[r].old = tag[i]
        /\ \A x \in Resets \ {r} : reset'[x] = reset[x]
        /\ UNCHANGED tag /\ overlapped \subseteq overlapped'
    BY <1>3 DEF BeginReset, NoReset, ThreadTypes
  <2>2. (\E x \in Resets : Busy(x, i)) =>
          tag[i] \in overlapped' /\ \A x \in Resets : reset[x].old \in overlapped'
    BY <1>3 DEF BeginReset
  <2>3. ~Busy(r, i)
    BY <1>3 DEF BeginReset, Busy
  <2>4. ASSUME NEW j \in Instances, NEW x \in Resets, NEW y \in Resets, x # y,
               Busy(x, j)', Busy(y, j)'
        PROVE  reset'[x].old \in overlapped'
    <3>1. CASE x # r /\ y # r
      BY <2>1, <2>4, <3>1 DEF OverlapsMarked, Busy
    <3>2. CASE x = r
      <4>1. Busy(y, i)
        BY <2>1, <2>4, <3>2 DEF Busy
      <4> QED
        BY <2>1, <2>2, <3>2, <4>1
    <3>3. CASE y = r
      <4>1. Busy(x, i)
        BY <2>1, <2>4, <3>3 DEF Busy
      <4> QED
        BY <2>1, <2>2, <2>4, <3>3, <4>1
    <3> QED
      BY <3>1, <3>2, <3>3
  <2>5. ASSUME NEW j \in Instances, NEW x \in Resets,
               reset'[x].phase = "begun", reset'[x].at = {j}
        PROVE  reset'[x].old = tag'[j] \/ reset'[x].old \in overlapped'
    BY <2>1, <2>5 DEF OverlapsMarked
  <2> QED
    BY <2>4, <2>5 DEF OverlapsMarked
<1>4. ASSUME NEW i \in Instances, NEW r \in Resets,
             TakeLast(r, i) \/ WriteLast(r, i) \/ Create(r, i)
      PROVE  OverlapsMarked'
  <2>1. /\ reset'[r].phase # "begun"
        /\ Busy(r, i)
        /\ \/ reset'[r].at = reset[r].at /\ reset'[r].old = reset[r].old
           \/ reset'[r].phase = "done"
        /\ \A x \in Resets \ {r} : reset'[x] = reset[x]
        /\ UNCHANGED <<tag, overlapped>>
    <3>1. ASSUME TakeLast(r, i) \/ WriteLast(r, i)
          PROVE  /\ reset'[r].phase \in {"writing", "flushed"}
                 /\ reset'[r].at = reset[r].at /\ reset'[r].old = reset[r].old
      <4>1. reset \in [Resets -> ResetThreads]
        BY DEF ThreadTypes
      <4>2. CASE reset' = [reset EXCEPT ![r].phase = "writing", ![r].to = FlushTag(r, i),
                                        ![r].frames = delta[i]]
        BY <4>1, <4>2 DEF ResetThreads
      <4>3. CASE reset' = [reset EXCEPT ![r].phase = "flushed"]
        BY <4>1, <4>3 DEF ResetThreads
      <4>4. CASE reset' = [reset EXCEPT ![r].phase = "flushed", ![r].frames = {}]
        BY <4>1, <4>4 DEF ResetThreads
      <4> QED
        BY <3>1, <4>2, <4>3, <4>4 DEF TakeLast, WriteLast
    <3>2. ASSUME Create(r, i) PROVE reset'[r].phase = "done"
      BY <3>2 DEF Create, Done, NoReset, ThreadTypes, ResetThreads
    <3>3. \A x \in Resets \ {r} : reset'[x] = reset[x]
      BY <1>4 DEF TakeLast, WriteLast, Create, ThreadTypes, ResetThreads
    <3>4. UNCHANGED <<tag, overlapped>> /\ Busy(r, i)
      BY <1>4 DEF TakeLast, WriteLast, Create, Step, Busy
    <3> QED
      BY <1>4, <3>1, <3>2, <3>3, <3>4
  <2> QED
    BY <2>1 DEF OverlapsMarked, Busy
<1>5. ASSUME NEW i \in Instances, NEW r \in Resets, Retag(r, i) PROVE OverlapsMarked'
  <2>1. /\ reset'[r].phase = "cleared" /\ Busy(r, i)
        /\ reset'[r].at = reset[r].at /\ reset'[r].old = reset[r].old
        /\ \A x \in Resets \ {r} : reset'[x] = reset[x]
        /\ \A j \in Instances \ {i} : tag'[j] = tag[j]
        /\ UNCHANGED overlapped
    BY <1>5 DEF Retag, Step, Busy, ThreadTypes, ResetThreads, SinkTypes
  <2>2. ASSUME NEW x \in Resets, reset'[x].phase = "begun", reset'[x].at = {i}
        PROVE  reset'[x].old \in overlapped'
    <3>1. x # r /\ Busy(x, i)
      BY <2>1, <2>2 DEF Busy
    <3> QED
      BY <2>1, <3>1 DEF OverlapsMarked
  <2> QED
    BY <2>1, <2>2 DEF OverlapsMarked, Busy
<1> QED
  BY <1>1, <1>2, <1>3, <1>4, <1>5
     DEF Next, vars, Start, Stop, Crash, Take, Write, WriteFails, Sweep, SweepFails,
         RecordFrame, Age

\* f was recorded for run t, or t is the run of overlapping resets.
Belongs(f, t) == tagged[f] = {t} \/ t \in overlapped

\* What is on its way to a run belongs to it.
OnTheWay ==
  /\ \A i \in Instances : \A f \in delta[i] : Belongs(f, tag[i])
  /\ \A i \in Instances : \A f \in flush[i].frames : Belongs(f, flush[i].tag)
  /\ \A r \in Resets : \A f \in reset[r].frames : Belongs(f, reset[r].to)

LEMMA OnTheWayInit == Init => OnTheWay /\ RightRun
  BY DEF Init, OnTheWay, RightRun, NoFlush, NoReset, NoDoc

\* Once a frame belongs to a run it does so for ever.
LEMMA BelongsStays ==
  ASSUME TypeOK, [Next]_vars
  PROVE  /\ overlapped \subseteq overlapped'
         /\ \A f \in Frames : tagged[f] # {} => tagged'[f] = tagged[f]
<1>1. ASSUME NEW i \in Instances, NEW r \in Resets, NEW t \in Tags \cup {None}, BeginReset(r, i, t)
      PROVE  overlapped \subseteq overlapped' /\ UNCHANGED tagged
  BY <1>1 DEF BeginReset
<1>2. ASSUME NEW i \in Instances, NEW f \in Frames, RecordFrame(i, f)
      PROVE  /\ UNCHANGED overlapped
             /\ \A g \in Frames : tagged[g] # {} => tagged'[g] = tagged[g]
  BY <1>2, TypeParts DEF RecordFrame, SinkTypes, DocumentTypes
<1>3. ASSUME NEW i \in Instances, NEW r \in Resets,
             TakeLast(r, i) \/ WriteLast(r, i) \/ Retag(r, i) \/ Create(r, i)
      PROVE  UNCHANGED <<tagged, overlapped>>
  BY <1>3 DEF TakeLast, WriteLast, Retag, Create
<1>4. ASSUME NEW i \in Instances, Stop(i) \/ Crash(i) \/ Start(i)
      PROVE  UNCHANGED <<tagged, overlapped>>
  BY <1>4 DEF Stop, Crash, Vanish, Start
<1>5. ASSUME NEW i \in Instances, Take(i) \/ Write(i) \/ WriteFails(i)
                                  \/ Sweep(i) \/ SweepFails(i)
      PROVE  UNCHANGED <<tagged, overlapped>>
  BY <1>5 DEF Take, Write, WriteFails, Sweep, SweepFails
<1>6. ASSUME NEW t \in Tags, Age(t) PROVE UNCHANGED <<tagged, overlapped>>
  BY <1>6 DEF Age
<1>7. ASSUME UNCHANGED vars PROVE UNCHANGED <<tagged, overlapped>>
  BY <1>7 DEF vars
<1> QED
  BY <1>1, <1>2, <1>3, <1>4, <1>5, <1>6, <1>7 DEF Next

\* A sink is emptied, or keeps what it has and its tag, or records a frame.
LEMMA SinkMoves ==
  ASSUME TypeOK, [Next]_vars
  PROVE  \A j \in Instances :
           \/ delta'[j] = {}
           \/ delta'[j] = delta[j] /\ tag'[j] = tag[j]
           \/ \E f \in Frames : /\ delta'[j] = delta[j] \cup {f} /\ tag'[j] = tag[j]
                                /\ tagged[f] = {} /\ tagged'[f] = {tag[j]}
<1> USE TypeParts DEF SinkTypes
<1>1. ASSUME NEW i \in Instances, NEW f \in Frames, RecordFrame(i, f)
      PROVE  /\ \A j \in Instances \ {i} : delta'[j] = delta[j]
             /\ delta'[i] = delta[i] \cup {f} /\ UNCHANGED tag
             /\ tagged[f] = {} /\ tagged'[f] = {tag[i]}
  BY <1>1 DEF RecordFrame
<1>2. ASSUME NEW i \in Instances, Vanish(i)
      PROVE  /\ \A j \in Instances \ {i} : delta'[j] = delta[j] /\ tag'[j] = tag[j]
             /\ delta'[i] = {}
  BY <1>2 DEF Vanish
<1>3. ASSUME NEW i \in Instances, Take(i)
      PROVE  /\ \A j \in Instances \ {i} : delta'[j] = delta[j]
             /\ delta'[i] \in {{}, delta[i]} /\ UNCHANGED tag
  BY <1>3 DEF Take
<1>4. ASSUME NEW i \in Instances, NEW r \in Resets, TakeLast(r, i)
      PROVE  /\ \A j \in Instances \ {i} : delta'[j] = delta[j]
             /\ delta'[i] \in {{}, delta[i]} /\ UNCHANGED tag
  BY <1>4 DEF TakeLast
<1>5. ASSUME NEW i \in Instances, NEW r \in Resets, Retag(r, i)
      PROVE  /\ \A j \in Instances \ {i} : delta'[j] = delta[j] /\ tag'[j] = tag[j]
             /\ delta'[i] = {}
  BY <1>5 DEF Retag
<1>6. CASE UNCHANGED <<delta, tag>>
  BY <1>6
<1>7. \/ \E i \in Instances : \E f \in Frames : RecordFrame(i, f)
      \/ \E i \in Instances : Vanish(i) \/ Take(i)
      \/ \E i \in Instances : \E r \in Resets : TakeLast(r, i) \/ Retag(r, i)
      \/ UNCHANGED <<delta, tag>>
  BY DEF Next, vars, Start, Stop, Crash, Write, WriteFails, Sweep, SweepFails, Age,
         BeginReset, WriteLast, Create
<1> QED
  BY <1>1, <1>2, <1>3, <1>4, <1>5, <1>6, <1>7

\* A flush thread holds nothing, or what it held, or what it takes from the sink.
LEMMA FlushMoves ==
  ASSUME TypeOK, [Next]_vars
  PROVE  \A j \in Instances :
           \/ flush'[j].frames = {}
           \/ flush'[j].frames = flush[j].frames /\ flush'[j].tag = flush[j].tag
           \/ flush'[j].frames = delta[j] /\ flush'[j].tag = tag[j]
<1> SUFFICES ASSUME ThreadTypes
             PROVE  \A j \in Instances :
                      \/ flush'[j].frames = {}
                      \/ /\ flush'[j].frames = flush[j].frames
                         /\ flush'[j].tag = flush[j].tag
                      \/ flush'[j].frames = delta[j] /\ flush'[j].tag = tag[j]
  BY TypeParts
<1>0. NoFlush.frames = {} /\ [NoFlush EXCEPT !.phase = "sweeping"].frames = {}
  BY DEF NoFlush
<1>1. ASSUME NEW i \in Instances, Vanish(i)
      PROVE  /\ \A j \in Instances \ {i} : flush'[j] = flush[j]
             /\ flush'[i].frames = {}
  BY <1>0, <1>1 DEF Vanish, ThreadTypes
<1>2. ASSUME NEW i \in Instances, Take(i)
      PROVE  /\ \A j \in Instances \ {i} : flush'[j] = flush[j]
             /\ \/ flush'[i].frames = delta[i] /\ flush'[i].tag = tag[i]
                \/ flush'[i].frames = flush[i].frames /\ flush'[i].tag = flush[i].tag
  <2>1. \/ flush' = [flush EXCEPT ![i] = [phase |-> "writing", tag |-> tag[i],
                                          frames |-> delta[i]]]
        \/ flush' = [flush EXCEPT ![i].phase = "sweeping"]
    BY <1>2 DEF Take
  <2> QED
    BY <2>1 DEF ThreadTypes, Flushes
<1>3. ASSUME NEW i \in Instances,
             Write(i) \/ WriteFails(i) \/ Sweep(i) \/ SweepFails(i)
      PROVE  /\ \A j \in Instances \ {i} : flush'[j] = flush[j]
             /\ flush'[i].frames = {}
  BY <1>0, <1>3 DEF Write, WriteFails, Sweep, SweepFails, ThreadTypes
<1>4. CASE UNCHANGED flush
  BY <1>4
<1>5. \/ \E i \in Instances : Vanish(i) \/ Take(i)
      \/ \E i \in Instances : Write(i) \/ WriteFails(i) \/ Sweep(i) \/ SweepFails(i)
      \/ UNCHANGED flush
  BY DEF Next, vars, Start, Stop, Crash, RecordFrame, Age,
         BeginReset, TakeLast, WriteLast, Retag, Create
<1> QED
  BY <1>1, <1>2, <1>3, <1>4, <1>5

\* A reset holds nothing, or what it held, or what it takes from the sink for the
\* run it completes.
LEMMA ResetMoves ==
  ASSUME TypeOK, [Next]_vars
  PROVE  \A x \in Resets :
           \/ reset'[x].frames = {}
           \/ reset'[x].frames = reset[x].frames /\ reset'[x].to = reset[x].to
           \/ \E i \in Instances :
                /\ reset[x].phase = "begun" /\ reset[x].at = {i}
                /\ reset'[x].frames = delta[i] /\ reset'[x].to = FlushTag(x, i)
<1> SUFFICES ASSUME ThreadTypes
             PROVE  \A x \in Resets :
                      \/ reset'[x].frames = {}
                      \/ /\ reset'[x].frames = reset[x].frames
                         /\ reset'[x].to = reset[x].to
                      \/ \E i \in Instances :
                           /\ reset[x].phase = "begun" /\ reset[x].at = {i}
                           /\ reset'[x].frames = delta[i]
                           /\ reset'[x].to = FlushTag(x, i)
  BY TypeParts
<1>1. ASSUME NEW i \in Instances, Vanish(i)
      PROVE  \A x \in Resets : reset'[x] = reset[x] \/ reset'[x].frames = {}
  BY <1>1, EmptyThreads DEF Vanish
<1>2. ASSUME NEW i \in Instances, NEW r \in Resets, NEW t \in Tags \cup {None}, BeginReset(r, i, t)
      PROVE  /\ \A x \in Resets \ {r} : reset'[x] = reset[x]
             /\ reset'[r].frames = {}
  BY <1>2 DEF BeginReset, NoReset, ThreadTypes
<1>3. ASSUME NEW i \in Instances, NEW r \in Resets, TakeLast(r, i)
      PROVE  /\ \A x \in Resets \ {r} : reset'[x] = reset[x]
             /\ \/ reset'[r].frames = reset[r].frames /\ reset'[r].to = reset[r].to
                \/ /\ reset[r].phase = "begun" /\ reset[r].at = {i}
                   /\ reset'[r].frames = delta[i] /\ reset'[r].to = FlushTag(r, i)
  <2>1. CASE reset' = [reset EXCEPT ![r].phase = "writing", ![r].to = FlushTag(r, i),
                                    ![r].frames = delta[i]]
    BY <1>3, <2>1 DEF TakeLast, Step, ThreadTypes, ResetThreads
  <2>2. CASE reset' = [reset EXCEPT ![r].phase = "flushed"]
    BY <2>2 DEF ThreadTypes, ResetThreads
  <2> QED
    BY <1>3, <2>1, <2>2 DEF TakeLast
<1>4. ASSUME NEW i \in Instances, NEW r \in Resets, WriteLast(r, i) \/ Create(r, i)
      PROVE  /\ \A x \in Resets \ {r} : reset'[x] = reset[x]
             /\ reset'[r].frames = {}
  <2>1. CASE WriteLast(r, i)
    BY <2>1 DEF WriteLast, ThreadTypes, ResetThreads
  <2>2. CASE reset' = [reset EXCEPT ![r] = Done]
    BY <2>2, EmptyThreads DEF ThreadTypes
  <2> QED
    BY <1>4, <2>1, <2>2 DEF Create
<1>5. ASSUME NEW i \in Instances, NEW r \in Resets, Retag(r, i)
      PROVE  /\ \A x \in Resets \ {r} : reset'[x] = reset[x]
             /\ reset'[r].frames = reset[r].frames /\ reset'[r].to = reset[r].to
  BY <1>5 DEF Retag, ThreadTypes, ResetThreads
<1>6. CASE UNCHANGED reset
  BY <1>6
<1>7. \/ \E i \in Instances : Vanish(i)
      \/ \E i \in Instances : \E r \in Resets :
           \/ \E t \in Tags \cup {None} : BeginReset(r, i, t)
           \/ TakeLast(r, i) \/ WriteLast(r, i) \/ Retag(r, i) \/ Create(r, i)
      \/ UNCHANGED reset
  BY DEF Next, vars, Start, Stop, Crash, RecordFrame, Age,
         Take, Write, WriteFails, Sweep, SweepFails
<1> QED
  BY <1>1, <1>2, <1>3, <1>4, <1>5, <1>6, <1>7

\* What a document counts anew comes from a thread that writes to it, or from the
\* sink of an instance that stops.
LEMMA DocumentMoves ==
  ASSUME TypeOK, [Next]_vars
  PROVE  \A t \in Tags : \A f \in doc'[t].counted :
           \/ f \in doc[t].counted
           \/ \E i \in Instances : f \in flush[i].frames /\ t = flush[i].tag
           \/ \E i \in Instances : f \in delta[i] /\ t = tag[i]
           \/ \E r \in Resets : f \in reset[r].frames /\ t = reset[r].to
<1> SUFFICES ASSUME DocumentTypes, NEW t \in Tags, NEW f \in doc'[t].counted
             PROVE  \/ f \in doc[t].counted
                    \/ \E i \in Instances : f \in flush[i].frames /\ t = flush[i].tag
                    \/ \E i \in Instances : f \in delta[i] /\ t = tag[i]
                    \/ \E r \in Resets : f \in reset[r].frames /\ t = reset[r].to
  BY TypeParts
<1>1. ASSUME NEW i \in Instances, Write(i) \/ WriteFails(i)
      PROVE  f \in doc[t].counted \/ (f \in flush[i].frames /\ t = flush[i].tag)
  BY <1>1 DEF Write, WriteFails, Fails, Add, DocumentTypes, Documents
<1>2. ASSUME NEW i \in Instances, Stop(i)
      PROVE  f \in doc[t].counted \/ (f \in delta[i] /\ t = tag[i])
  BY <1>2 DEF Stop, Fails, Add, DocumentTypes, Documents
<1>3. ASSUME NEW i \in Instances, NEW r \in Resets, WriteLast(r, i)
      PROVE  f \in doc[t].counted \/ (f \in reset[r].frames /\ t = reset[r].to)
  <2>1. ASSUME NEW status, Add(reset[r].to, reset[r].frames, status)
        PROVE  f \in doc[t].counted \/ (f \in reset[r].frames /\ t = reset[r].to)
    BY <2>1 DEF Add, DocumentTypes, Documents
  <2>2. CASE UNCHANGED doc
    BY <2>2
  <2> QED
    BY <1>3, <2>1, <2>2 DEF WriteLast, Fails
<1>4. ASSUME NEW i \in Instances, NEW r \in Resets, Create(r, i)
      PROVE  f \in doc[t].counted
  BY <1>4 DEF Create, DocumentTypes, Documents
<1>5. ASSUME NEW i \in Instances, Sweep(i) PROVE f \in doc[t].counted
  BY <1>5 DEF Sweep, DocumentTypes, Documents
<1>6. ASSUME NEW u \in Tags, Age(u) PROVE f \in doc[t].counted
  BY <1>6 DEF Age, DocumentTypes, Documents
<1>7. CASE UNCHANGED doc
  BY <1>7
<1> QED
  BY <1>1, <1>2, <1>3, <1>4, <1>5, <1>6, <1>7
     DEF Next, vars, Start, Crash, RecordFrame, Take, SweepFails,
         BeginReset, TakeLast, Retag

LEMMA OnTheWayStep ==
  ASSUME TypeOK, OverlapsMarked, OnTheWay, RightRun, [Next]_vars
  PROVE  OnTheWay' /\ RightRun'
<1>1. \A f \in Frames : \A t \in Tags \cup {None} :
        tagged[f] = {t} \/ t \in overlapped => tagged'[f] = {t} \/ t \in overlapped'
  BY BelongsStays
<1>2. /\ \A i \in Instances : delta[i] \subseteq Frames /\ tag[i] \in Tags \cup {None}
      /\ \A i \in Instances : flush[i].frames \subseteq Frames
                              /\ flush[i].tag \in Tags \cup {None}
      /\ \A r \in Resets : reset[r].frames \subseteq Frames
                           /\ reset[r].to \in Tags \cup {None}
      /\ \A t \in Tags : doc[t].counted \subseteq Frames
  BY TypeParts DEF SinkTypes, ThreadTypes, DocumentTypes, Flushes, ResetThreads, Documents
<1>3. ASSUME NEW i \in Instances, NEW f \in delta'[i]
      PROVE  tagged'[f] = {tag'[i]} \/ tag'[i] \in overlapped'
  <2>1. CASE delta'[i] = delta[i] /\ tag'[i] = tag[i]
    BY <1>1, <1>2, <1>3, <2>1 DEF OnTheWay, Belongs
  <2>2. ASSUME NEW g \in Frames, delta'[i] = delta[i] \cup {g}, tag'[i] = tag[i],
               tagged'[g] = {tag[i]}
        PROVE  tagged'[f] = {tag'[i]} \/ tag'[i] \in overlapped'
    BY <1>1, <1>2, <1>3, <2>2 DEF OnTheWay, Belongs
  <2> QED
    BY <1>3, <2>1, <2>2, SinkMoves
<1>4. ASSUME NEW i \in Instances, NEW f \in flush'[i].frames
      PROVE  tagged'[f] = {flush'[i].tag} \/ flush'[i].tag \in overlapped'
  <2>1. CASE flush'[i].frames = flush[i].frames /\ flush'[i].tag = flush[i].tag
    BY <1>1, <1>2, <1>4, <2>1 DEF OnTheWay, Belongs
  <2>2. CASE flush'[i].frames = delta[i] /\ flush'[i].tag = tag[i]
    BY <1>1, <1>2, <1>4, <2>2 DEF OnTheWay, Belongs
  <2> QED
    BY <1>4, <2>1, <2>2, FlushMoves
<1>5. ASSUME NEW r \in Resets, NEW f \in reset'[r].frames
      PROVE  tagged'[f] = {reset'[r].to} \/ reset'[r].to \in overlapped'
  <2>1. CASE reset'[r].frames = reset[r].frames /\ reset'[r].to = reset[r].to
    BY <1>1, <1>2, <1>5, <2>1 DEF OnTheWay, Belongs
  <2>2. ASSUME NEW i \in Instances, reset[r].phase = "begun", reset[r].at = {i},
               reset'[r].frames = delta[i], reset'[r].to = FlushTag(r, i)
        PROVE  tagged'[f] = {reset'[r].to} \/ reset'[r].to \in overlapped'
    <3>1. FlushTag(r, i) = tag[i] \/ FlushTag(r, i) \in overlapped
      BY <2>2 DEF OverlapsMarked, FlushTag
    <3>2. tagged[f] = {tag[i]} \/ tag[i] \in overlapped
      BY <1>5, <2>2 DEF OnTheWay, Belongs
    <3>3. overlapped \subseteq overlapped'
      BY BelongsStays
    <3> QED
      BY <1>1, <1>2, <1>5, <2>2, <3>1, <3>2, <3>3
  <2> QED
    BY <1>5, <2>1, <2>2, ResetMoves
<1>6. ASSUME NEW t \in Tags, NEW f \in doc'[t].counted
      PROVE  tagged'[f] = {t} \/ t \in overlapped'
  <2>1. f \in Frames /\ (tagged[f] = {t} \/ t \in overlapped)
    BY <1>2, <1>6, DocumentMoves DEF OnTheWay, RightRun, Belongs
  <2> QED
    BY <1>1, <2>1
<1> QED
  BY <1>3, <1>4, <1>5, <1>6 DEF OnTheWay, RightRun, Belongs

\* A frame is counted for the run its instance was tagged with when it came, or
\* for one that overlapping resets completed (reset_run reads the tag first).
THEOREM FramesCountForTheirRun == Spec => []RightRun
<1>1. Init => OverlapsMarked /\ OnTheWay /\ RightRun
  BY OverlapsInit, OnTheWayInit
<1>2. TypeOK /\ OverlapsMarked /\ OnTheWay /\ RightRun /\ [Next]_vars
        => OverlapsMarked' /\ OnTheWay' /\ RightRun'
  BY OverlapsStep, OnTheWayStep
<1> QED
  BY <1>1, <1>2, ReceiverTypes, PTL DEF Spec
=============================================================================
