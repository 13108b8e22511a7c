----------------------------- MODULE DeviceFleet -----------------------------
(***************************************************************************)
(* The gateway's streams and the operators' tools over one device          *)
(* registry: every order in which their database calls can interleave.     *)
(***************************************************************************)
EXTENDS Gateway, Operators

VARIABLES
  vouched,    \* per device and key: one past the last clock at which the
              \* registry would have handed the key out, 0 if it never would
  eligible    \* live streams whose device may have had audio since they began

vars == <<doc, sess, cache, clock, request, enrolment, vouched, eligible>>

Vouches(document, k) ==
  /\ document.state # Missing
  /\ StateOf(document) \in ConnectableStates
  /\ document.pem = k

\* A state in which a new session publishes audio, or will once promoted.
AudioStates == {"active", "setup_pending"}

\* What the properties remember of a step; the code keeps none of it.
Remember ==
  /\ vouched' = [d \in Devices |-> [k \in Keys |->
                   IF Vouches(doc'[d], k) THEN clock' + 1 ELSE vouched[d][k]]]
  /\ eligible' = {s \in Sessions :
                    /\ sess'[s].phase # "closed"
                    /\ \/ s \in eligible /\ Live(s)
                       \/ StateOf(doc'[sess'[s].device]) \in AudioStates}

Init ==
  /\ RegistryInit
  /\ GatewayInit
  /\ OperatorsInit
  /\ vouched = [d \in Devices |-> [k \in Keys |->
                  IF Vouches(doc[d], k) THEN 1 ELSE 0]]
  /\ eligible = {}

Tick ==
  /\ clock < MaxClock
  /\ clock' = clock + 1
  /\ UNCHANGED <<doc, sess, cache, request, enrolment>>

GatewayStep   == GatewayNext /\ UNCHANGED <<clock, request, enrolment>>
OperatorsStep == OperatorsNext /\ UNCHANGED <<sess, cache, clock>>

Next == (GatewayStep \/ OperatorsStep \/ Tick) /\ Remember

Spec == Init /\ [][Next]_vars
-----------------------------------------------------------------------------
(* What the code's own assumptions amount to *)

\* The deployment the documents describe: auth on, every document written by
\* the CLI, one registration at a time, no simulator.
Hardened ==
  /\ RequireAuth
  /\ LegacyDevices = {}
  /\ ~SimulatorEnabled
  /\ \A r1, r2 \in Registrars : r1 = r2

\* Types of the whole fleet: a document never gets a state the lifecycle does not
\* know, whoever writes it (registry.py, firestore_repo.py, provision_device.py).
TypeOK ==
  /\ doc \in [Devices -> Documents]
  /\ sess \in [Sessions -> Handlers]
  /\ cache \in [Gateways -> [Devices -> CacheEntries]]
  /\ clock \in Nat
  /\ request \in [Admins -> SUBSET Requests]
  /\ enrolment \in [Registrars -> SUBSET Enrolments]
  /\ vouched \in [Devices -> [Keys -> Nat]]
  /\ eligible \in SUBSET Sessions

-----------------------------------------------------------------------------
(* Safety *)

\* A vouched key is still good for a connect that began at time `now`: the
\* registry handed it out at or after that time, or less than the TTL before.
StillGood(d, k, now) ==
  \/ vouched[d][k] > now
  \/ vouched[d][k] # 0 /\ now - (vouched[d][k] - 1) < KeyTTL

\* A key the registry stopped vouching for (device revoked or wiped, key
\* replaced) authenticates no connect begun KeyTTL or more afterwards, however
\* long the lookups that filled the caches took (auth.py: _get_public_key).
KeyStaleness ==
  RequireAuth =>
    \A s \in Sessions :
      sess[s].phase = "admitted" =>
        StillGood(sess[s].device, sess[s].key, sess[s].now)

\* A stream publishes audio only if, at some moment since it connected, its
\* device was active or waiting for setup: a key from the cache never lets a
\* device that was lost, revoked or to be wiped all along be heard
\* (service.py: get_state comes after the authentication).
FreshSessionSilent ==
  \A s \in Sessions : Publishing(s) => s \in eligible

\* When a handler is about to overwrite the state with wipe_sent, the device
\* is still waiting for its wipe or another stream has just recorded it; the
\* plain write of mark_wipe_sent needs no transaction.
WipeIsPending ==
  Hardened =>
    \A s \in Sessions :
      sess[s].phase = "wipe" =>
        LifecycleState(sess[s].device) \in {"wipe_requested", "wipe_sent"}

\* Once a stream is open its device has left setup_pending for good, although
\* three programs may write `state` (state_machine.py: setup_pending).
SetupIsOver ==
  Hardened =>
    \A s \in Sessions :
      sess[s].phase = "stream" =>
        LifecycleState(sess[s].device) # "setup_pending"

\* After a handshake the document has a `state` of its own, so no later read
\* falls back to the legacy `status` (registry.py: upsert_handshake).
StateRecorded ==
  \A s \in Sessions :
    sess[s].phase \in {"open", "wipe", "stream"} =>
      doc[sess[s].device].state # NoState

Life ==
  [d \in Devices |-> IF Exists(d) THEN LifecycleState(d)
                                      ELSE "unregistered"]

Matrix == INSTANCE LifecycleMatrix WITH life <- Life

\* The fleet implements the published lifecycle: whoever writes, and however
\* stale what it read, each device moves only along the matrix.
FollowsMatrix == Matrix!LifecycleSpec
=============================================================================
