---------------------------- MODULE SimulatedPhones ----------------------------
(***************************************************************************)
(* scripts/simulate_soh_phones.py: a loop that keeps made-up phones on the *)
(* status page.  A cycle refreshes the documents and then the hot state,   *)
(* through the admin service or directly, may let every phone stream a few *)
(* frames to the gateway, and sleeps.  Other options let it stream only, or *)
(* write the documents once.  A tick of the clock is 30 seconds.           *)
(***************************************************************************)
EXTENDS Naturals

CONSTANTS
  Phones,
  Interval,         \* --interval-seconds
  CallTime,         \* timeout of a burst's call
  TTL,              \* --redis-ttl-seconds, and redis_ttl_seconds of the gateway
  MaxRefresh,       \* bound of the time a refresh takes: the code has none
  MaxTicks          \* bound of the cycles

ASSUME SimulatorTimes == {Interval, CallTime, TTL, MaxRefresh, MaxTicks} \subseteq Nat

VARIABLES
  mode,             \* --admin-url, --redis-host, --audio-burst or --register-only
  phase,            \* of the loop
  stopping,         \* stop
  tick,
  spent,            \* time since the phase began
  longest,          \* what a refresh took at most, the one under way included
  documents,        \* phones whose document is still to be written
  records,          \* phones whose hot state is still to be written
  calling,          \* phones with an open call
  age               \* per phone: the age of its hot state; TTL for none

simulatorVars ==
  <<mode, phase, stopping, tick, spent, longest, documents, records, calling, age>>

SimulatorInit ==
  /\ mode \in {"admin", "redis", "burst", "register"}
  /\ phase = "begin" /\ stopping = FALSE
  /\ tick = 0 /\ spent = 0 /\ longest = 0
  /\ documents = {} /\ records = {} /\ calling = {}
  /\ age = [p \in Phones |-> TTL]

\* Two loops refresh the phones; the other modes leave the hot state alone.
Refreshes == mode \in {"admin", "redis"}

\* Arguments are missing, or Redis does not answer the ping.
Refused ==
  /\ phase = "begin" /\ tick = 0 /\ phase' = "ended"
  /\ UNCHANGED <<mode, stopping, tick, spent, longest, documents, records, calling, age>>

BeginCycle ==
  /\ phase = "begin" /\ tick < MaxTicks /\ ~stopping
  /\ tick' = tick + 1 /\ spent' = 0
  /\ phase' = IF mode = "burst" THEN "burst" ELSE "refresh"
  /\ calling' = IF mode = "burst" THEN Phones ELSE {}
  /\ documents' = IF mode = "burst" THEN {} ELSE Phones
  /\ records' = IF Refreshes THEN Phones ELSE {}
  /\ UNCHANGED <<mode, stopping, longest, age>>

Returned ==
  /\ phase = "begin" /\ stopping /\ phase' = "ended"
  /\ UNCHANGED <<mode, stopping, tick, spent, longest, documents, records, calling, age>>

\* One batch from here, one set after the other from the admin service.
WriteDocuments ==
  \E ps \in (IF mode # "admin" THEN {Phones} ELSE {{p} : p \in Phones}) :
    /\ ps \subseteq documents
    /\ documents' = documents \ ps
    /\ UNCHANGED <<mode, phase, stopping, tick, spent, longest, records, calling, age>>

\* A command of the pipeline, which is no transaction.
WriteRecord(p) ==
  /\ p \in records /\ documents = {}
  /\ age' = [age EXCEPT ![p] = 0]
  /\ records' = records \ {p}
  /\ UNCHANGED <<mode, phase, stopping, tick, spent, longest, documents, calling>>

\* The cycle goes on with the burst, sleeps, or was the only one (--once).
Refreshed ==
  /\ phase = "refresh" /\ documents = {} /\ records = {}
  /\ phase' \in (IF Refreshes THEN {"burst", "sleep", "ended"} ELSE {"ended"})
  /\ spent' = 0
  /\ calling' = IF phase' = "burst" THEN Phones ELSE {}
  /\ UNCHANGED <<mode, stopping, tick, longest, documents, records, age>>

\* Nothing catches the error of a refresh, nor a signal where nothing loops.  The
\* admin service may be at work on the request all the same.
RefreshFails ==
  /\ phase = "refresh"
  /\ phase' = "ended" /\ spent' = 0
  /\ documents' = IF mode # "admin" THEN {} ELSE documents
  /\ records' = IF mode # "admin" THEN {} ELSE records
  /\ UNCHANGED <<mode, stopping, tick, longest, calling, age>>

\* The gateway has persisted the handshake and writes its own record of the
\* phone: init_session, and touch, which finds a record or writes none.
GatewayRecords(p) ==
  /\ p \in calling
  /\ age' = [age EXCEPT ![p] = 0]
  /\ UNCHANGED <<mode, phase, stopping, tick, spent, longest, documents, records, calling>>

\* Served, refused, broken or timed out.
CallOver(p) ==
  /\ p \in calling /\ calling' = calling \ {p}
  /\ UNCHANGED <<mode, phase, stopping, tick, spent, longest, documents, records, age>>

\* All futures are done.
BurstOver ==
  /\ phase = "burst" /\ calling = {}
  /\ phase' \in {"sleep", "ended"} /\ spent' = 0
  /\ UNCHANGED <<mode, stopping, tick, longest, documents, records, calling, age>>

WakeUp ==
  /\ phase = "sleep" /\ (stopping \/ spent = Interval)
  /\ phase' = "begin" /\ spent' = 0
  /\ UNCHANGED <<mode, stopping, tick, longest, documents, records, calling, age>>

Signal ==
  /\ ~stopping /\ phase # "ended" /\ mode # "register" /\ stopping' = TRUE
  /\ UNCHANGED <<mode, phase, tick, spent, longest, documents, records, calling, age>>

\* Mutant: a call without a timeout.
NoDeadline == TRUE

\* Calls that have not reached their timeout may go on.
CallsInTime == calling = {} \/ spent < CallTime

\* A POST may take longer than its timeout, which is one per operation of a socket
\* and per address; so may the batch and the pipeline.
Elapse ==
  /\ phase \in {"refresh", "burst", "sleep", "ended"}
  /\ phase = "refresh" => spent < MaxRefresh
  /\ phase = "burst" => CallsInTime /\ calling # {}
  /\ phase = "sleep" => spent < Interval
  /\ \E p \in Phones : age[p] < TTL
  /\ spent' = IF phase = "ended" THEN 0 ELSE spent + 1
  /\ longest' = IF phase = "refresh" /\ spent = longest THEN longest + 1 ELSE longest
  /\ age' = [p \in Phones |-> IF age[p] < TTL THEN age[p] + 1 ELSE TTL]
  /\ UNCHANGED <<mode, phase, stopping, tick, documents, records, calling>>

SimulatorNext ==
  \/ Refused \/ BeginCycle \/ Returned \/ WriteDocuments \/ Refreshed \/ RefreshFails
  \/ \E p \in Phones : WriteRecord(p) \/ GatewayRecords(p) \/ CallOver(p)
  \/ BurstOver \/ WakeUp \/ Signal \/ Elapse

-----------------------------------------------------------------------------
(* Properties *)

SimulatorTypeOK ==
  /\ mode \in {"admin", "redis", "burst", "register"} /\ stopping \in BOOLEAN
  /\ phase \in {"begin", "refresh", "burst", "sleep", "ended"}
  /\ tick \in 0..MaxTicks /\ spent \in Nat /\ longest \in 0..MaxRefresh
  /\ {documents, records, calling} \subseteq SUBSET Phones
  /\ age \in [Phones -> 0..TTL]

\* While a loop refreshes them a phone's hot state is never older than two refreshes,
\* a burst and the sleep, whichever phones stream and however calls break: it drops
\* off the status page only for refreshes that took longer than TTL leaves them
\* (refresh_redis, refresh_simulated_devices: ex=ttl_seconds).
KeptVisible ==
  (Refreshes /\ phase # "ended" /\ tick > (IF phase = "refresh" THEN 1 ELSE 0)) =>
    \A p \in Phones : age[p] <= longest + CallTime + Interval + longest
=============================================================================
