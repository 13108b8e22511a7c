-------------------------- MODULE DeviceFleetProofs --------------------------
(***************************************************************************)
(* What holds of a fleet of any size, for any cache lifetime: its types,   *)
(* how long a key outlives the registry's word for it, who may be heard,   *)
(* and that the fleet follows the published lifecycle.                     *)
(***************************************************************************)
EXTENDS DeviceFleet, TLAPS

-----------------------------------------------------------------------------
(* Type correctness *)

LEMMA StateOfType == ASSUME NEW r \in Documents PROVE StateOf(r) \in AllStates
BY DEF StateOf, Normalize, Documents, AllStates

LEMMA InitTypeOK == Init => TypeOK
<1> SUFFICES ASSUME Init PROVE TypeOK
  OBVIOUS
<1> USE DEF Init, RegistryInit, GatewayInit, OperatorsInit
<1>1. doc \in [Devices -> Documents]
  <2>1. LegacyDocuments \subseteq Documents
    BY DEF LegacyDocuments, Documents
  <2>2. NoDocument \in Documents
    BY DEF NoDocument, Documents, LegacyStatuses
  <2> QED BY <2>1, <2>2
<1>2. sess \in [Sessions -> Handlers]
  BY DEF Closed, Handlers, Phases, AllStates, NoState
<1>3. cache \in [Gateways -> [Devices -> CacheEntries]]
  BY DEF EmptyCache, CacheEntries
<1>4. vouched \in [Devices -> [Keys -> Nat]]
  BY DEF Vouches
<1> QED BY <1>1, <1>2, <1>3, <1>4 DEF TypeOK

\* Every write of the registry leaves documents.
LEMMA WritesKeepDocuments ==
  ASSUME doc \in [Devices -> Documents], NEW d \in Devices,
         \/ CompleteSetup(d)
         \/ \E preserved \in AllStates \cup {NoState} :
              PersistHandshake(d, preserved)
         \/ MarkWipeSent(d)
         \/ \E target \in Targets : SetState(d, target)
         \/ \E k \in Keys, seed \in {NoState, "setup_pending"} :
              PersistRegistration(d, k, seed)
         \/ PersistSimulated(d)
  PROVE  doc' \in [Devices -> Documents]
<1>1. CASE CompleteSetup(d)
  BY <1>1 DEF CompleteSetup, Documents, AllStates
<1>2. CASE \E preserved \in AllStates \cup {NoState} :
             PersistHandshake(d, preserved)
  BY <1>2 DEF PersistHandshake, Documents, AllStates
<1>3. CASE MarkWipeSent(d)
  BY <1>3 DEF MarkWipeSent, Documents, AllStates
<1>4. CASE \E target \in Targets : SetState(d, target)
  BY <1>4 DEF SetState, Documents, Targets
<1>5. CASE \E k \in Keys, seed \in {NoState, "setup_pending"} :
             PersistRegistration(d, k, seed)
  BY <1>5 DEF PersistRegistration, Documents, AllStates
<1>6. CASE PersistSimulated(d)
  BY <1>6 DEF PersistSimulated, Documents, AllStates
<1> QED BY <1>1, <1>2, <1>3, <1>4, <1>5, <1>6

\* What Remember does to the history variables, whatever the step.
LEMMA RememberType ==
  ASSUME Remember, NEW now \in Nat, clock' = now,
         vouched \in [Devices -> [Keys -> Nat]]
  PROVE  vouched' \in [Devices -> [Keys -> Nat]] /\ eligible' \in SUBSET Sessions
<1>1. vouched' \in [Devices -> [Keys -> Nat]]
  <2> DEFINE Last(d, k) == IF Vouches(doc'[d], k) THEN clock' + 1 ELSE vouched[d][k]
  <2>1. \A d \in Devices, k \in Keys : Last(d, k) \in Nat
    BY DEF Vouches
  <2>2. vouched' = [d \in Devices |-> [k \in Keys |-> Last(d, k)]]
    BY DEF Remember
  <2> HIDE DEF Last
  <2> QED BY <2>1, <2>2
<1>2. eligible' \in SUBSET Sessions
  BY DEF Remember
<1> QED BY <1>1, <1>2

\* A live handler's device and gateway are real ones.
HandlersOK ==
  \A s \in Sessions :
    Live(s) => sess[s].device \in Devices /\ sess[s].gateway \in Gateways

TInv == TypeOK /\ HandlersOK

-----------------------------------------------------------------------------
(* The gateway's steps *)

LEMMA ClosedType == Closed \in Handlers /\ Closed.phase = "closed"
BY DEF Closed, Handlers, Phases, AllStates, NoState

\* One handler goes on, the others stand still.
LEMMA OneHandlerMoves ==
  ASSUME TInv, NEW s \in Sessions, NEW h \in Handlers, Become(s, h),
         h.phase # "closed" => h.device \in Devices /\ h.gateway \in Gateways
  PROVE  /\ sess' \in [Sessions -> Handlers]
         /\ HandlersOK'
         /\ sess'[s] = h
         /\ \A t \in Sessions \ {s} : sess'[t] = sess[t]
BY DEF TInv, TypeOK, HandlersOK, Become, Live

\* What a connect leads to: nothing, a lookup, or an admitted handler.
LEMMA ConnectHandler ==
  ASSUME TInv, NEW s \in Sessions, NEW g \in Gateways, NEW d \in Devices,
         NEW k \in Keys \cup {NoKey}, Connect(s, g, d, k)
  PROVE  \E h \in Handlers :
           /\ Become(s, h)
           /\ h.phase \in {"closed", "lookup", "admitted"}
           /\ h.phase # "closed" =>
                /\ h.device = d /\ h.gateway = g /\ h.key = k /\ h.now = clock
                /\ h.pem = NoKey
           /\ h.phase = "admitted" /\ RequireAuth =>
                cache[g][d].pem = k /\ CacheHit(g, d)
           /\ h.phase = "lookup" => RequireAuth
<1> DEFINE h == Arrival(g, d, k)
           admitted == [h EXCEPT !.phase = "admitted"]
           verified == [h EXCEPT !.phase = "admitted", !.pem = NoKey]
<1>1. /\ h \in Handlers /\ h.phase = "lookup" /\ h.device = d
      /\ h.gateway = g /\ h.key = k /\ h.now = clock /\ h.pem = NoKey
  BY DEF Arrival, Closed, Handlers, Phases, AllStates, NoState, TInv, TypeOK
<1>2. /\ admitted \in Handlers /\ admitted.phase = "admitted"
      /\ admitted.device = d /\ admitted.gateway = g /\ admitted.key = k
      /\ admitted.now = clock /\ admitted.pem = NoKey
      /\ verified \in Handlers /\ verified.phase = "admitted"
      /\ verified.device = d /\ verified.gateway = g /\ verified.key = k
      /\ verified.now = clock /\ verified.pem = NoKey
  BY <1>1 DEF Handlers, Phases
<1> HIDE DEF h, admitted, verified
<1>3. CASE ~RequireAuth /\ Become(s, admitted)
  BY <1>3, <1>2
<1>4. CASE RequireAuth /\ CacheHit(g, d) /\ Verify(s, cache[g][d].pem, h)
  <2>1. CASE cache[g][d].pem = h.key
    <3>1. Become(s, verified)
      BY <1>4, <2>1 DEF Verify, verified
    <3> QED BY <3>1, <1>4, <2>1, <1>1, <1>2
  <2>2. CASE cache[g][d].pem # h.key
    <3>1. Become(s, Closed)
      BY <1>4, <2>2 DEF Verify
    <3> QED BY <3>1, ClosedType
  <2> QED BY <2>1, <2>2
<1>5. CASE RequireAuth /\ Become(s, h)
  BY <1>5, <1>1
<1> QED BY <1>3, <1>4, <1>5 DEF Connect, h, admitted

\* What each await of a live handler leads to, and what it does besides.
Advanced(s, n) ==
  LET h == sess[s]
  IN  \/ /\ h.phase = "lookup" /\ n.phase = "fill"
         /\ n.pem = PublicKey(h.device) /\ n.key = h.key /\ n.now = h.now
         /\ UNCHANGED <<doc, cache>>
      \/ /\ h.phase = "fill" /\ n.phase = "closed"
         /\ h.pem = NoKey
         /\ UNCHANGED <<doc, cache>>
      \/ /\ h.phase = "fill" /\ n.phase \in {"closed", "admitted"}
         /\ h.pem # NoKey
         /\ n.phase = "admitted" => n.key = h.pem /\ n.now = h.now
         /\ cache' = [cache EXCEPT ![h.gateway][h.device] =
                        [pem |-> h.pem, expires |-> Expiry(h)]]
         /\ UNCHANGED doc
      \/ /\ h.phase = "admitted" /\ n.phase \in {"promote", "upsert"}
         /\ n.state = LifecycleState(h.device)
         /\ n.phase = "promote" <=> n.state = "setup_pending"
         /\ UNCHANGED <<doc, cache>>
      \/ /\ h.phase = "promote" /\ n.phase = "upsert"
         /\ n.state = "active"
         /\ CompleteSetup(h.device)
         /\ UNCHANGED cache
      \/ /\ h.phase = "upsert" /\ n.phase = "persist"
         /\ n.state = h.state
         /\ n.preserved = StateField(doc[h.device])
         /\ UNCHANGED <<doc, cache>>
      \/ /\ h.phase = "persist" /\ n.phase = "open"
         /\ n.state = h.state
         /\ PersistHandshake(h.device, h.preserved)
         /\ UNCHANGED cache
      \/ /\ h.phase = "open" /\ n.phase \in {"wipe", "stream"}
         /\ n.state = h.state
         /\ n.phase = "wipe" <=> n.state = "wipe_requested"
         /\ UNCHANGED <<doc, cache>>
      \/ /\ h.phase = "wipe" /\ n.phase = "closed"
         /\ MarkWipeSent(h.device)
         /\ UNCHANGED cache

SamePlace(s, n) == n.device = sess[s].device /\ n.gateway = sess[s].gateway

LEMMA AdvanceHandler ==
  ASSUME TInv, NEW s \in Sessions, Advance(s)
  PROVE  \E n \in Handlers :
           /\ Live(s) /\ Become(s, n) /\ Advanced(s, n)
           /\ n.phase # "closed" => SamePlace(s, n)
<1> DEFINE h == sess[s]
<1>1. /\ h \in Handlers
      /\ h.phase # "closed" => h.device \in Devices
  BY DEF TInv, TypeOK, HandlersOK, Live
<1> USE DEF SamePlace, Live
<1>2. CASE LookupKey(s)
  <2> DEFINE n == [h EXCEPT !.phase = "fill", !.pem = PublicKey(h.device)]
  <2>1. h.phase = "lookup" /\ Become(s, n) /\ UNCHANGED <<doc, cache>>
    BY <1>2 DEF LookupKey
  <2>2. PublicKey(h.device) \in Keys \cup {NoKey}
    BY <1>1, <2>1 DEF PublicKey, Documents, TInv, TypeOK
  <2>3. n \in Handlers
    BY <1>1, <2>2 DEF Handlers, Phases
  <2>4. Advanced(s, n)
    BY <1>1, <2>1 DEF Advanced, Handlers
  <2> QED BY <1>1, <2>1, <2>3, <2>4 DEF Handlers
<1>3. CASE FillCache(s)
  <2>1. h.phase = "fill" /\ UNCHANGED doc
    BY <1>3 DEF FillCache
  <2>2. CASE h.pem = NoKey
    <3>1. Become(s, Closed) /\ UNCHANGED cache
      BY <1>3, <2>2 DEF FillCache, Close
    <3>2. Advanced(s, Closed)
      BY <2>1, <2>2, <3>1, ClosedType DEF Advanced
    <3> QED BY <2>1, <3>1, <3>2, ClosedType
  <2>3. CASE h.pem # NoKey
    <3> DEFINE n == IF h.pem = h.key
                    THEN [h EXCEPT !.phase = "admitted", !.pem = NoKey]
                    ELSE Closed
    <3>1. /\ Become(s, n)
          /\ cache' = [cache EXCEPT ![h.gateway][h.device] =
                         [pem |-> h.pem, expires |-> Expiry(h)]]
      BY <1>3, <2>3 DEF FillCache, Verify
    <3>2. /\ n \in Handlers
          /\ n.phase \in {"closed", "admitted"}
          /\ n.phase = "admitted" => n.key = h.pem /\ n.now = h.now
          /\ n.phase # "closed" => SamePlace(s, n)
      BY <1>1, ClosedType DEF Handlers, Phases
    <3> HIDE DEF n
    <3>3. Advanced(s, n)
      BY <2>1, <2>3, <3>1, <3>2 DEF Advanced
    <3> QED BY <2>1, <3>1, <3>2, <3>3
  <2> QED BY <2>2, <2>3
<1>4. CASE ReadState(s)
  <2> DEFINE current == LifecycleState(h.device)
             n == [h EXCEPT !.state = current,
                            !.phase = IF current = "setup_pending"
                                      THEN "promote" ELSE "upsert",
                            !.key = NoKey, !.now = 0]
  <2>1. h.phase = "admitted" /\ Become(s, n) /\ UNCHANGED <<doc, cache>>
    BY <1>4 DEF ReadState
  <2>2. current \in AllStates
    BY <1>1, <2>1, StateOfType DEF LifecycleState, TInv, TypeOK
  <2> HIDE DEF current
  <2>3. /\ n \in Handlers
        /\ n.phase \in {"promote", "upsert"} /\ n.state = current
        /\ n.phase = "promote" <=> n.state = "setup_pending"
        /\ SamePlace(s, n)
    BY <1>1, <2>2 DEF Handlers, Phases
  <2> HIDE DEF n
  <2>4. Advanced(s, n)
    BY <2>1, <2>3 DEF Advanced, current
  <2> QED BY <2>1, <2>3, <2>4
<1>5. CASE Promote(s)
  <2> DEFINE n == [h EXCEPT !.state = "active", !.phase = "upsert"]
  <2>1. h.phase = "promote" /\ Become(s, n) /\ CompleteSetup(h.device)
        /\ UNCHANGED cache
    BY <1>5 DEF Promote
  <2>2. n \in Handlers /\ n.phase = "upsert" /\ n.state = "active"
        /\ SamePlace(s, n)
    BY <1>1 DEF Handlers, Phases, AllStates
  <2> HIDE DEF n
  <2> QED BY <2>1, <2>2 DEF Advanced
<1>6. CASE ReadDocument(s)
  <2> DEFINE n == [h EXCEPT !.preserved = StateField(doc[h.device]),
                            !.phase     = "persist"]
  <2>1. h.phase = "upsert" /\ Become(s, n) /\ UNCHANGED <<doc, cache>>
    BY <1>6 DEF ReadDocument
  <2>2. StateField(doc[h.device]) \in AllStates \cup {NoState}
    BY <1>1, <2>1 DEF StateField, Documents, TInv, TypeOK
  <2>3. n \in Handlers /\ n.phase = "persist" /\ n.state = h.state
        /\ n.preserved = StateField(doc[h.device]) /\ SamePlace(s, n)
    BY <1>1, <2>2 DEF Handlers, Phases
  <2> HIDE DEF n
  <2> QED BY <2>1, <2>3 DEF Advanced
<1>7. CASE Persist(s)
  <2> DEFINE n == [h EXCEPT !.preserved = NoState, !.phase = "open"]
  <2>1. h.phase = "persist" /\ Become(s, n)
        /\ PersistHandshake(h.device, h.preserved) /\ UNCHANGED cache
    BY <1>7 DEF Persist
  <2>2. n \in Handlers /\ n.phase = "open" /\ n.state = h.state
        /\ SamePlace(s, n)
    BY <1>1 DEF Handlers, Phases
  <2> HIDE DEF n
  <2> QED BY <2>1, <2>2 DEF Advanced
<1>8. CASE Open(s)
  <2> DEFINE n == [h EXCEPT !.phase = IF h.state = "wipe_requested"
                                      THEN "wipe" ELSE "stream"]
  <2>1. h.phase = "open" /\ Become(s, n) /\ UNCHANGED <<doc, cache>>
    BY <1>8 DEF Open
  <2>2. /\ n \in Handlers /\ n.phase \in {"wipe", "stream"}
        /\ n.state = h.state /\ SamePlace(s, n)
        /\ n.phase = "wipe" <=> n.state = "wipe_requested"
    BY <1>1 DEF Handlers, Phases
  <2> HIDE DEF n
  <2> QED BY <2>1, <2>2 DEF Advanced
<1>9. CASE RecordWipe(s)
  <2>1. h.phase = "wipe" /\ Become(s, Closed) /\ MarkWipeSent(h.device)
        /\ UNCHANGED cache
    BY <1>9 DEF RecordWipe, Close
  <2>2. Advanced(s, Closed)
    BY <2>1, ClosedType DEF Advanced
  <2> QED BY <2>1, <2>2, ClosedType
<1> QED BY <1>2, <1>3, <1>4, <1>5, <1>6, <1>7, <1>8, <1>9 DEF Advance

\* A step of one handler that writes no document of its own making and at most
\* one entry of its instance's cache keeps the types.
LEMMA AdvanceTypes ==
  ASSUME TInv, NEW s \in Sessions, Advance(s)
  PROVE  /\ doc' \in [Devices -> Documents]
         /\ sess' \in [Sessions -> Handlers]
         /\ cache' \in [Gateways -> [Devices -> CacheEntries]]
         /\ HandlersOK'
<1>1. PICK n \in Handlers : /\ Live(s) /\ Become(s, n) /\ Advanced(s, n)
                            /\ n.phase # "closed" => SamePlace(s, n)
  BY AdvanceHandler
<1>2. /\ sess[s] \in Handlers
      /\ sess[s].device \in Devices /\ sess[s].gateway \in Gateways
  BY <1>1 DEF TInv, TypeOK, HandlersOK
<1>3. sess' \in [Sessions -> Handlers] /\ HandlersOK'
  BY <1>1, <1>2, OneHandlerMoves DEF SamePlace
<1>4. doc' \in [Devices -> Documents]
  <2>1. doc \in [Devices -> Documents]
    BY DEF TInv, TypeOK
  <2>2. sess[s].preserved \in AllStates \cup {NoState}
    BY <1>2 DEF Handlers
  <2> QED BY <1>1, <1>2, <2>1, <2>2, WritesKeepDocuments DEF Advanced
<1>5. cache' \in [Gateways -> [Devices -> CacheEntries]]
  <2>1. [pem |-> sess[s].pem, expires |-> Expiry(sess[s])] \in CacheEntries
    BY <1>2, ClockAssumption DEF Expiry, Handlers, CacheEntries
  <2> HIDE DEF CacheEntries
  <2>2. cache \in [Gateways -> [Devices -> CacheEntries]]
    BY DEF TInv, TypeOK
  <2>3. CASE UNCHANGED cache
    BY <2>2, <2>3
  <2>4. CASE cache' = [cache EXCEPT ![sess[s].gateway][sess[s].device] =
                   [pem |-> sess[s].pem, expires |-> Expiry(sess[s])]]
    BY <1>2, <2>1, <2>2, <2>4
  <2> QED BY <1>1, <2>3, <2>4 DEF Advanced
<1> QED BY <1>3, <1>4, <1>5

LEMMA GatewayTypes ==
  ASSUME TInv, GatewayNext
  PROVE  /\ doc' \in [Devices -> Documents]
         /\ sess' \in [Sessions -> Handlers]
         /\ cache' \in [Gateways -> [Devices -> CacheEntries]]
         /\ HandlersOK'
<1>1. ASSUME NEW s \in Sessions, Disconnect(s)
      PROVE  sess' \in [Sessions -> Handlers] /\ HandlersOK'
  BY <1>1, ClosedType, OneHandlerMoves DEF Disconnect, Close
<1>2. ASSUME NEW s \in Sessions, NEW g \in Gateways, NEW d \in Devices,
             NEW k \in Keys \cup {NoKey}, Connect(s, g, d, k)
      PROVE  sess' \in [Sessions -> Handlers] /\ HandlersOK'
  <2>1. PICK h \in Handlers :
          /\ Become(s, h)
          /\ h.phase # "closed" => h.device = d /\ h.gateway = g
    BY <1>2, ConnectHandler
  <2> QED BY <2>1, OneHandlerMoves
<1>3. ASSUME NEW g \in Gateways, Restart(g)
      PROVE  /\ sess' \in [Sessions -> Handlers] /\ HandlersOK'
             /\ cache' \in [Gateways -> [Devices -> CacheEntries]]
  <2>1. EmptyCache \in [Devices -> CacheEntries]
    BY DEF EmptyCache, CacheEntries
  <2>2. cache' \in [Gateways -> [Devices -> CacheEntries]]
    BY <1>3, <2>1 DEF Restart, TInv, TypeOK
  <2>3. sess' \in [Sessions -> Handlers] /\ HandlersOK'
    BY <1>3, ClosedType DEF Restart, TInv, TypeOK, HandlersOK, Live
  <2> QED BY <2>2, <2>3
<1> QED
  BY <1>1, <1>2, <1>3, AdvanceTypes
  DEF GatewayNext, Disconnect, Connect, Restart, TInv, TypeOK

-----------------------------------------------------------------------------
(* The operators' steps *)

LEMMA OperatorsTypes ==
  ASSUME TInv, OperatorsNext
  PROVE  /\ doc' \in [Devices -> Documents]
         /\ request' \in [Admins -> SUBSET Requests]
         /\ enrolment' \in [Registrars -> SUBSET Enrolments]
<1>1. /\ doc \in [Devices -> Documents]
      /\ request \in [Admins -> SUBSET Requests]
      /\ enrolment \in [Registrars -> SUBSET Enrolments]
  BY DEF TInv, TypeOK
<1>2. ASSUME NEW d \in Devices, NEW target \in Targets,
             NEW confirm \in Confirmations, CliSetState(d, target, confirm)
      PROVE  doc' \in [Devices -> Documents] /\ UNCHANGED <<request, enrolment>>
  BY <1>1, <1>2, WritesKeepDocuments DEF CliSetState
<1>3. ASSUME NEW d \in Devices, NEW target \in Targets,
             NEW confirm \in Confirmations, NEW a \in Admins,
             CheckRequest(a, d, target, confirm)
      PROVE  request' \in [Admins -> SUBSET Requests]
             /\ UNCHANGED <<doc, enrolment>>
  <2>1. [device |-> d, target |-> target, confirm |-> confirm] \in Requests
    BY DEF Requests
  <2> QED BY <1>1, <1>3, <2>1 DEF CheckRequest
<1>4. ASSUME NEW a \in Admins, ApplyRequest(a)
      PROVE  /\ doc' \in [Devices -> Documents]
             /\ request' \in [Admins -> SUBSET Requests]
             /\ UNCHANGED enrolment
  <2>1. PICK r \in request[a] :
          \/ SetState(r.device, r.target)
          \/ UNCHANGED doc
    BY <1>4 DEF ApplyRequest
  <2>2. r.device \in Devices /\ r.target \in Targets
    BY <1>1, <2>1 DEF Requests
  <2>3. doc' \in [Devices -> Documents]
    BY <1>1, <2>1, <2>2, WritesKeepDocuments
  <2> QED BY <1>1, <1>4, <2>3 DEF ApplyRequest
<1>5. ASSUME NEW r \in Registrars, FinishRegister(r)
      PROVE  /\ doc' \in [Devices -> Documents]
             /\ enrolment' \in [Registrars -> SUBSET Enrolments]
             /\ UNCHANGED request
  <2>1. PICK e \in enrolment[r] : PersistRegistration(e.device, e.key, e.seed)
    BY <1>5 DEF FinishRegister
  <2>2. /\ e.device \in Devices /\ e.key \in Keys
        /\ e.seed \in {NoState, "setup_pending"}
    BY <1>1, <2>1 DEF Enrolments
  <2>3. doc' \in [Devices -> Documents]
    BY <1>1, <2>1, <2>2, WritesKeepDocuments
  <2> QED BY <1>1, <1>5, <2>3 DEF FinishRegister
<1>6. ASSUME NEW r \in Registrars, NEW d \in Devices, NEW k \in Keys,
             BeginRegister(r, d, k)
      PROVE  /\ enrolment' \in [Registrars -> SUBSET Enrolments]
             /\ UNCHANGED <<doc, request>>
  <2> DEFINE e == [device |-> d, key |-> k,
                   seed |-> IF Exists(d) THEN NoState ELSE "setup_pending"]
  <2>1. e \in Enrolments
    BY DEF Enrolments
  <2> HIDE DEF e
  <2>2. enrolment' = [enrolment EXCEPT ![r] = {e}] /\ UNCHANGED <<doc, request>>
    BY <1>6 DEF BeginRegister, e
  <2> QED BY <1>1, <2>1, <2>2
<1>7. ASSUME NEW d \in Devices, SimulatePhone(d)
      PROVE  doc' \in [Devices -> Documents] /\ UNCHANGED <<request, enrolment>>
  BY <1>1, <1>7, WritesKeepDocuments DEF SimulatePhone
<1> QED
  BY <1>1, <1>2, <1>3, <1>4, <1>5, <1>6, <1>7 DEF OperatorsNext

-----------------------------------------------------------------------------

LEMMA TypeStep == TInv /\ [Next]_vars => TInv'
<1> SUFFICES ASSUME TInv, [Next]_vars PROVE TInv'
  OBVIOUS
<1> USE DEF TInv, TypeOK
<1>1. CASE UNCHANGED vars
  BY <1>1 DEF vars, HandlersOK, Live
<1>2. ASSUME Remember, clock' \in Nat
      PROVE  vouched' \in [Devices -> [Keys -> Nat]] /\ eligible' \in SUBSET Sessions
  <2>1. PICK now \in Nat : clock' = now
    BY <1>2
  <2> QED BY <1>2, <2>1, RememberType
<1>3. CASE GatewayStep /\ Remember
  BY <1>2, <1>3, GatewayTypes DEF GatewayStep
<1>4. CASE OperatorsStep /\ Remember
  BY <1>2, <1>4, OperatorsTypes DEF OperatorsStep, HandlersOK, Live
<1>5. CASE Tick /\ Remember
  BY <1>2, <1>5 DEF Tick, HandlersOK, Live
<1> QED BY <1>1, <1>3, <1>4, <1>5 DEF Next

LEMMA TypeInvariant == Spec => []TInv
<1>1. Init => TInv
  <2>1. Init => HandlersOK
    BY DEF Init, GatewayInit, HandlersOK, Live, Closed
  <2> QED BY <2>1, InitTypeOK DEF TInv
<1> QED BY <1>1, TypeStep, PTL DEF Spec

\* Every variable of the fleet keeps its type, whatever the number of devices,
\* streams, instances and operators.
THEOREM FleetTypes == Spec => []TypeOK
<1>1. TInv => TypeOK
  BY DEF TInv
<1> QED BY <1>1, TypeInvariant, PTL

-----------------------------------------------------------------------------
(* What a step of the fleet means to one handler *)

Connected(h) ==
  /\ h.phase \in {"lookup", "admitted"}
  /\ h.device \in Devices /\ h.gateway \in Gateways
  /\ h.now = clock /\ h.pem = NoKey
  /\ h.phase = "admitted" /\ RequireAuth =>
       /\ cache[h.gateway][h.device].pem = h.key
       /\ CacheHit(h.gateway, h.device)

LEMMA HandlerSteps ==
  ASSUME TInv, Next, NEW t \in Sessions
  PROVE  \/ sess'[t] = sess[t]
         \/ sess'[t].phase = "closed"
         \/ /\ Live(t) /\ Advanced(t, sess'[t]) /\ SamePlace(t, sess'[t])
            /\ clock' = clock
         \/ ~Live(t) /\ Connected(sess'[t]) /\ UNCHANGED <<doc, cache, clock>>
<1>1. ASSUME NEW s \in Sessions, Advance(s), clock' = clock
      PROVE  \/ sess'[t] = sess[t]
             \/ sess'[t].phase = "closed"
             \/ /\ Live(t) /\ Advanced(t, sess'[t]) /\ SamePlace(t, sess'[t])
                /\ clock' = clock
  <2>1. PICK n \in Handlers : /\ Live(s) /\ Become(s, n) /\ Advanced(s, n)
                              /\ n.phase # "closed" => SamePlace(s, n)
    BY <1>1, AdvanceHandler
  <2>2. n.phase # "closed" => n.device \in Devices /\ n.gateway \in Gateways
    BY <2>1 DEF SamePlace, TInv, HandlersOK
  <2>3. /\ sess'[s] = n
        /\ \A u \in Sessions \ {s} : sess'[u] = sess[u]
    BY <2>1, <2>2, OneHandlerMoves
  <2> QED BY <1>1, <2>1, <2>3
<1>2. ASSUME NEW s \in Sessions, Disconnect(s)
      PROVE  sess'[t] = sess[t] \/ sess'[t].phase = "closed"
  BY <1>2, ClosedType, OneHandlerMoves DEF Disconnect, Close
<1>3. ASSUME NEW s \in Sessions, NEW g \in Gateways, NEW d \in Devices,
             NEW k \in Keys \cup {NoKey}, Connect(s, g, d, k)
      PROVE  \/ sess'[t] = sess[t]
             \/ sess'[t].phase = "closed"
             \/ /\ ~Live(t) /\ Connected(sess'[t]) /\ UNCHANGED <<doc, cache>>
  <2>1. PICK h \in Handlers :
           /\ Become(s, h)
           /\ h.phase \in {"closed", "lookup", "admitted"}
           /\ h.phase # "closed" =>
                /\ h.device = d /\ h.gateway = g /\ h.key = k /\ h.now = clock
                /\ h.pem = NoKey
           /\ h.phase = "admitted" /\ RequireAuth =>
                cache[g][d].pem = k /\ CacheHit(g, d)
    BY <1>3, ConnectHandler
  <2>2. /\ sess'[s] = h
        /\ \A u \in Sessions \ {s} : sess'[u] = sess[u]
    BY <2>1, OneHandlerMoves
  <2>3. ~Live(s) /\ UNCHANGED <<doc, cache>>
    BY <1>3 DEF Connect
  <2>4. h.phase = "closed" \/ Connected(h)
    BY <2>1 DEF Connected
  <2> QED BY <2>2, <2>3, <2>4
<1>4. ASSUME NEW g \in Gateways, Restart(g)
      PROVE  sess'[t] = sess[t] \/ sess'[t].phase = "closed"
  BY <1>4, ClosedType DEF Restart
<1> QED
  BY <1>1, <1>2, <1>3, <1>4
  DEF Next, GatewayStep, GatewayNext, OperatorsStep, Tick

\* What a step of the fleet means to one cache entry.
LEMMA CacheSteps ==
  ASSUME TInv, Next, NEW g \in Gateways, NEW d \in Devices
  PROVE  \/ cache'[g][d] = cache[g][d]
         \/ cache'[g][d].pem = NoKey
         \/ \E s \in Sessions :
              /\ sess[s].phase = "fill" /\ sess[s].device = d
              /\ sess[s].pem # NoKey
              /\ cache'[g][d] = [pem |-> sess[s].pem, expires |-> Expiry(sess[s])]
<1>1. cache \in [Gateways -> [Devices -> CacheEntries]]
  BY DEF TInv, TypeOK
<1>2. ASSUME NEW s \in Sessions, Advance(s), cache' # cache
      PROVE  \/ cache'[g][d] = cache[g][d]
             \/ /\ sess[s].phase = "fill" /\ sess[s].device = d
                /\ sess[s].pem # NoKey
                /\ cache'[g][d] = [pem |-> sess[s].pem, expires |-> Expiry(sess[s])]
  <2>1. PICK n \in Handlers : Advanced(s, n)
    BY <1>2, AdvanceHandler
  <2>2. /\ sess[s].phase = "fill" /\ sess[s].pem # NoKey
        /\ cache' = [cache EXCEPT ![sess[s].gateway][sess[s].device] =
                       [pem |-> sess[s].pem, expires |-> Expiry(sess[s])]]
    BY <1>2, <2>1 DEF Advanced
  <2> DEFINE e == [pem |-> sess[s].pem, expires |-> Expiry(sess[s])]
  <2> HIDE DEF e
  <2>3. cache' = [cache EXCEPT ![sess[s].gateway][sess[s].device] = e]
    BY <2>2 DEF e
  <2>4. \/ cache'[g][d] = cache[g][d]
        \/ sess[s].device = d /\ cache'[g][d] = e
    BY <1>1, <2>3
  <2> QED BY <2>2, <2>4 DEF e
<1>3. ASSUME NEW i \in Gateways, Restart(i)
      PROVE  cache'[g][d] = cache[g][d] \/ cache'[g][d].pem = NoKey
  BY <1>1, <1>3 DEF Restart, EmptyCache
<1> QED
  BY <1>2, <1>3
  DEF Next, GatewayStep, GatewayNext, Disconnect, Connect, OperatorsStep, Tick

-----------------------------------------------------------------------------
(* Keys: for any number of caches, and however slow their lookups *)

\* The registry vouches now for what it would hand out now, and never later.
VouchedNow ==
  \A d \in Devices, k \in Keys :
    /\ Vouches(doc[d], k) => vouched[d][k] = clock + 1
    /\ vouched[d][k] <= clock + 1

\* A cached key expires less than KeyTTL after it was last vouched for.
CachedBriefly ==
  \A g \in Gateways, d \in Devices :
    LET entry == cache[g][d]
    IN  entry.pem # NoKey =>
          /\ vouched[d][entry.pem] # 0
          /\ entry.expires < vouched[d][entry.pem] + KeyTTL

\* A key on its way into the cache was vouched for after the handler took the
\* time its expiry will count from.
AnswerIsRecent ==
  \A s \in Sessions :
    /\ sess[s].phase \in {"lookup", "fill"} => sess[s].now <= clock
    /\ sess[s].phase = "fill" /\ sess[s].pem # NoKey =>
         sess[s].now < vouched[sess[s].device][sess[s].pem]

\* With authentication on, only a registered key gets a handler admitted.
AdmittedByKey ==
  RequireAuth =>
    \A s \in Sessions : sess[s].phase = "admitted" => sess[s].key \in Keys

KeyInv ==
  /\ TInv /\ VouchedNow /\ CachedBriefly /\ AnswerIsRecent /\ AdmittedByKey
  /\ KeyStaleness

LEMMA KeyInit == Init => KeyInv
<1> SUFFICES ASSUME Init PROVE KeyInv
  OBVIOUS
<1>1. TInv
  BY InitTypeOK DEF TInv, Init, GatewayInit, HandlersOK, Live, Closed
<1>2. VouchedNow
  BY DEF VouchedNow, Init, GatewayInit, Vouches
<1>3. CachedBriefly
  BY DEF CachedBriefly, Init, GatewayInit, EmptyCache
<1>4. AnswerIsRecent /\ AdmittedByKey /\ KeyStaleness
  BY DEF AnswerIsRecent, AdmittedByKey, KeyStaleness, Init, GatewayInit, Closed
<1> QED BY <1>1, <1>2, <1>3, <1>4 DEF KeyInv

\* The history of a key only moves forward.
LEMMA VouchedStep ==
  ASSUME KeyInv, TInv', Next
  PROVE  /\ VouchedNow'
         /\ \A d \in Devices, k \in Keys :
              vouched[d][k] \in Nat /\ vouched'[d][k] \in Nat
              /\ vouched'[d][k] >= vouched[d][k]
<1>1. PICK now \in Nat, then \in Nat :
        clock = now /\ clock' = then /\ then \in {now, now + 1}
  BY DEF KeyInv, TInv, TypeOK, Next, GatewayStep, OperatorsStep, Tick
<1>2. ASSUME NEW d \in Devices, NEW k \in Keys
      PROVE  /\ vouched[d][k] \in Nat /\ vouched'[d][k] \in Nat
             /\ vouched[d][k] <= now + 1
             /\ Vouches(doc'[d], k) => vouched'[d][k] = then + 1
             /\ ~Vouches(doc'[d], k) => vouched'[d][k] = vouched[d][k]
  BY <1>1 DEF KeyInv, VouchedNow, TInv, TypeOK, Next, Remember
<1>3. VouchedNow'
  BY <1>1, <1>2 DEF VouchedNow
<1>4. ASSUME NEW d \in Devices, NEW k \in Keys
      PROVE  vouched'[d][k] >= vouched[d][k]
  BY <1>1, <1>2
<1> QED BY <1>2, <1>3, <1>4

LEMMA CachedStep ==
  ASSUME KeyInv, TInv', Next,
         \A d \in Devices, k \in Keys :
           vouched[d][k] \in Nat /\ vouched'[d][k] \in Nat
           /\ vouched'[d][k] >= vouched[d][k]
  PROVE  CachedBriefly'
<1> SUFFICES ASSUME NEW g \in Gateways, NEW d \in Devices,
                    cache'[g][d].pem # NoKey
             PROVE  /\ vouched'[d][cache'[g][d].pem] # 0
                    /\ cache'[g][d].expires <
                         vouched'[d][cache'[g][d].pem] + KeyTTL
  BY DEF CachedBriefly
<1>1. CASE cache'[g][d] = cache[g][d]
  <2>1. cache[g][d].pem \in Keys /\ cache[g][d].expires \in Nat
    BY <1>1 DEF KeyInv, TInv, TypeOK, CacheEntries
  <2> QED
    BY <1>1, <2>1, ClockAssumption DEF KeyInv, CachedBriefly
<1>2. CASE \E s \in Sessions :
             /\ sess[s].phase = "fill" /\ sess[s].device = d
             /\ sess[s].pem # NoKey
             /\ cache'[g][d] = [pem |-> sess[s].pem,
                                expires |-> Expiry(sess[s])]
  <2>1. PICK s \in Sessions :
          /\ sess[s].phase = "fill" /\ sess[s].device = d
          /\ sess[s].pem # NoKey
          /\ cache'[g][d] = [pem |-> sess[s].pem,
                             expires |-> Expiry(sess[s])]
    BY <1>2
  <2>2. /\ sess[s].pem \in Keys /\ sess[s].now \in Nat
        /\ sess[s].now < vouched[d][sess[s].pem]
    BY <2>1 DEF KeyInv, AnswerIsRecent, TInv, TypeOK, Handlers
  <2> QED BY <2>1, <2>2, ClockAssumption DEF Expiry
<1> QED BY <1>1, <1>2, CacheSteps DEF KeyInv

LEMMA AnswerStep ==
  ASSUME KeyInv, TInv', Next, VouchedNow',
         \A d \in Devices, k \in Keys :
           vouched[d][k] \in Nat /\ vouched'[d][k] \in Nat
           /\ vouched'[d][k] >= vouched[d][k]
  PROVE  AnswerIsRecent'
<1>1. PICK now \in Nat, then \in Nat :
        clock = now /\ clock' = then /\ then \in {now, now + 1}
  BY DEF KeyInv, TInv, TypeOK, Next, GatewayStep, OperatorsStep, Tick
<1> SUFFICES ASSUME NEW s \in Sessions, sess'[s].phase \in {"lookup", "fill"}
             PROVE  /\ sess'[s].now <= then
                    /\ sess'[s].phase = "fill" /\ sess'[s].pem # NoKey =>
                         sess'[s].now < vouched'[sess'[s].device][sess'[s].pem]
  BY <1>1 DEF AnswerIsRecent
<1>2. /\ sess[s] \in Handlers /\ sess'[s] \in Handlers
      /\ Live(s) => sess[s].device \in Devices
      /\ sess[s].now \in Nat
      /\ sess'[s].pem # NoKey => sess'[s].pem \in Keys
  BY DEF KeyInv, TInv, TypeOK, HandlersOK, Handlers
<1>3. sess[s].phase \in {"lookup", "fill"} => sess[s].now <= now
  BY <1>1 DEF KeyInv, AnswerIsRecent
<1>4. CASE sess'[s] = sess[s]
  BY <1>1, <1>2, <1>3, <1>4 DEF KeyInv, AnswerIsRecent, Live
<1>5. CASE /\ Live(s) /\ Advanced(s, sess'[s]) /\ SamePlace(s, sess'[s])
           /\ clock' = clock
  <2>1. /\ sess[s].phase = "lookup" /\ sess'[s].now = sess[s].now
        /\ sess'[s].pem = PublicKey(sess[s].device) /\ UNCHANGED doc
        /\ sess'[s].device = sess[s].device /\ sess[s].device \in Devices
    BY <1>2, <1>5 DEF Advanced, SamePlace
  <2>2. CASE sess'[s].pem # NoKey
    <3>1. Vouches(doc'[sess'[s].device], sess'[s].pem)
      BY <2>1, <2>2 DEF PublicKey, Vouches, LifecycleState, Exists
    <3>2. vouched'[sess'[s].device][sess'[s].pem] = then + 1
      BY <1>1, <1>2, <2>1, <2>2, <3>1 DEF VouchedNow
    <3>3. sess'[s].now \in Nat /\ sess'[s].now <= then
      BY <1>1, <1>2, <1>3, <1>5, <2>1
    <3> QED BY <3>2, <3>3
  <2> QED BY <1>1, <1>3, <1>5, <2>1, <2>2
<1>6. CASE Connected(sess'[s]) /\ UNCHANGED clock
  BY <1>1, <1>6 DEF Connected
<1> QED
  BY <1>4, <1>5, <1>6, HandlerSteps DEF KeyInv

LEMMA AdmittedStep ==
  ASSUME KeyInv, TInv', Next,
         \A d \in Devices, k \in Keys :
           vouched[d][k] \in Nat /\ vouched'[d][k] \in Nat
           /\ vouched'[d][k] >= vouched[d][k]
  PROVE  (AdmittedByKey /\ KeyStaleness)'
<1> SUFFICES ASSUME RequireAuth, NEW s \in Sessions,
                    sess'[s].phase = "admitted"
             PROVE  /\ sess'[s].key \in Keys
                    /\ StillGood(sess[s].device, sess[s].key, sess[s].now)'
  BY DEF AdmittedByKey, KeyStaleness
<1>1. /\ sess[s] \in Handlers /\ sess'[s] \in Handlers
      /\ Live(s) => sess[s].device \in Devices
      /\ sess'[s].device \in Devices /\ sess'[s].now \in Nat
  BY DEF KeyInv, TInv, TypeOK, HandlersOK, Live, Handlers
<1>2. CASE sess'[s] = sess[s]
  <2>1. StillGood(sess[s].device, sess[s].key, sess[s].now) /\ sess[s].key \in Keys
    BY <1>2 DEF KeyInv, KeyStaleness, AdmittedByKey
  <2>2. PICK v \in Nat, w \in Nat :
          /\ v = vouched[sess[s].device][sess[s].key]
          /\ w = vouched'[sess[s].device][sess[s].key]
          /\ w >= v
    BY <1>1, <1>2, <2>1
  <2>3. w > sess[s].now \/ (w # 0 /\ sess[s].now - (w - 1) < KeyTTL)
    BY <1>1, <1>2, <2>1, <2>2, ClockAssumption DEF StillGood
  <2> QED BY <1>2, <2>1, <2>2, <2>3 DEF StillGood
<1>3. CASE Live(s) /\ Advanced(s, sess'[s]) /\ SamePlace(s, sess'[s])
  <2>1. /\ sess[s].phase = "fill" /\ sess[s].pem \in Keys
        /\ sess'[s].key = sess[s].pem /\ sess'[s].now = sess[s].now
        /\ sess'[s].device = sess[s].device
    BY <1>1, <1>3 DEF Advanced, SamePlace, Handlers
  <2>2. sess[s].now < vouched[sess[s].device][sess[s].pem]
    BY <2>1, KeyAssumption DEF KeyInv, AnswerIsRecent
  <2>3. sess'[s].now < vouched'[sess'[s].device][sess'[s].key]
    BY <1>1, <2>1, <2>2
  <2> QED BY <2>1, <2>3 DEF StillGood
<1>4. CASE Connected(sess'[s]) /\ UNCHANGED <<doc, cache, clock>>
  <2> DEFINE g == sess'[s].gateway
             d == sess'[s].device
             k == sess'[s].key
  <2>1. /\ g \in Gateways /\ d \in Devices /\ sess'[s].now = clock
        /\ cache[g][d].pem = k /\ k # NoKey /\ cache[g][d].expires > clock
    BY <1>4 DEF Connected, CacheHit
  <2>2. k \in Keys /\ cache[g][d].expires \in Nat /\ clock \in Nat
    BY <2>1 DEF KeyInv, TInv, TypeOK, CacheEntries
  <2>3. vouched[d][k] # 0 /\ cache[g][d].expires < vouched[d][k] + KeyTTL
    BY <2>1 DEF KeyInv, CachedBriefly
  <2>4. PICK v \in Nat, w \in Nat :
          v = vouched[d][k] /\ w = vouched'[d][k] /\ w >= v
    BY <2>1, <2>2
  <2>5. w # 0 /\ sess'[s].now - (w - 1) < KeyTTL
    BY <2>1, <2>2, <2>3, <2>4, ClockAssumption
  <2> QED BY <2>2, <2>4, <2>5 DEF StillGood
<1> QED BY <1>2, <1>3, <1>4, HandlerSteps DEF KeyInv

LEMMA KeyStep == KeyInv /\ [Next]_vars => KeyInv'
<1> SUFFICES ASSUME KeyInv, [Next]_vars PROVE KeyInv'
  OBVIOUS
<1>1. TInv'
  BY TypeStep DEF KeyInv
<1>2. CASE UNCHANGED vars
  <2> USE <1>2 DEF vars
  <2>1. VouchedNow' /\ CachedBriefly' /\ AnswerIsRecent' /\ AdmittedByKey'
    BY DEF KeyInv, VouchedNow, CachedBriefly, AnswerIsRecent, AdmittedByKey,
           Vouches
  <2>2. KeyStaleness'
    BY DEF KeyInv, KeyStaleness, StillGood
  <2> QED BY <1>1, <2>1, <2>2 DEF KeyInv
<1>3. CASE Next
  <2>1. /\ VouchedNow'
        /\ \A d \in Devices, k \in Keys :
             vouched[d][k] \in Nat /\ vouched'[d][k] \in Nat
             /\ vouched'[d][k] >= vouched[d][k]
    BY <1>1, <1>3, VouchedStep
  <2> QED
    BY <1>1, <1>3, <2>1, CachedStep, AnswerStep, AdmittedStep DEF KeyInv
<1> QED BY <1>2, <1>3

\* No key authenticates a connect that began KeyTTL or more after the registry
\* stopped vouching for it, on any instance, whatever the lookups' delays.
THEOREM StaleKeysExpire == Spec => []KeyStaleness
<1>1. KeyInv => KeyStaleness
  BY DEF KeyInv
<1> QED BY <1>1, KeyInit, KeyStep, PTL DEF Spec

-----------------------------------------------------------------------------
(* Audio: needs no assumption on the deployment *)

\* A handler past get_state that will publish saw its device in an audio state.
AudioSeen ==
  \A s \in Sessions :
    /\ sess[s].phase = "promote" => s \in eligible
    /\ sess[s].phase \in {"upsert", "persist", "open", "wipe", "stream"}
         /\ sess[s].state = "active" => s \in eligible

LEMMA AudioStep == TInv /\ AudioSeen /\ [Next]_vars => AudioSeen'
<1> SUFFICES ASSUME TInv, AudioSeen, [Next]_vars PROVE AudioSeen'
  OBVIOUS
<1>1. CASE UNCHANGED vars
  BY <1>1 DEF vars, AudioSeen
<1>2. CASE Next
  <2> SUFFICES ASSUME NEW s \in Sessions
               PROVE  /\ sess'[s].phase = "promote" => s \in eligible'
                      /\ sess'[s].phase \in {"upsert", "persist", "open",
                                             "wipe", "stream"}
                           /\ sess'[s].state = "active" => s \in eligible'
    BY DEF AudioSeen
  <2>1. sess'[s].phase # "closed" =>
          /\ s \in eligible /\ Live(s) => s \in eligible'
          /\ StateOf(doc'[sess'[s].device]) \in AudioStates => s \in eligible'
    BY <1>2 DEF Next, Remember
  <2>2. CASE sess'[s] = sess[s]
    BY <2>1, <2>2 DEF AudioSeen, Live
  <2>3. CASE Live(s) /\ Advanced(s, sess'[s]) /\ SamePlace(s, sess'[s])
    <3>1. CASE sess[s].phase = "admitted"
      <4>1. sess'[s].phase # "closed"
            /\ sess'[s].state = StateOf(doc'[sess'[s].device])
        BY <2>3, <3>1 DEF Advanced, SamePlace, LifecycleState
      <4>2. sess'[s].phase = "promote" => sess'[s].state = "setup_pending"
        BY <2>3, <3>1 DEF Advanced
      <4> QED BY <2>1, <4>1, <4>2 DEF AudioStates
    <3>2. CASE sess[s].phase # "admitted"
      BY <2>1, <2>3, <3>2 DEF Advanced, AudioSeen
    <3> QED BY <3>1, <3>2
  <2> QED BY <1>2, <2>2, <2>3, HandlerSteps DEF Connected
<1> QED BY <1>1, <1>2

\* A stream that publishes belongs to a device that was active, or waiting for
\* setup, at some moment since the stream connected.
THEOREM FreshSessionsAreSilent == Spec => []FreshSessionSilent
<1>1. Init => AudioSeen
  BY DEF Init, GatewayInit, AudioSeen, Closed
<1>2. AudioSeen => FreshSessionSilent
  BY DEF AudioSeen, FreshSessionSilent, Publishing, PublishAudioStates
<1> QED BY <1>1, <1>2, AudioStep, TypeInvariant, PTL DEF Spec

-----------------------------------------------------------------------------
(* The state field: again without an assumption on the deployment *)

Recorded ==
  \A s \in Sessions :
    \/ sess[s].phase \in {"open", "wipe", "stream"}
    \/ sess[s].phase = "persist" /\ sess[s].preserved # NoState
    => doc[sess[s].device].state # NoState

\* No write takes the field away.
LEMMA WritesRecord ==
  ASSUME TInv, NEW d \in Devices, NEW c \in Devices, doc[c].state # NoState,
         \/ CompleteSetup(d)
         \/ \E preserved \in AllStates \cup {NoState} :
              PersistHandshake(d, preserved)
         \/ MarkWipeSent(d)
         \/ \E target \in Targets : SetState(d, target)
         \/ \E k \in Keys, seed \in {NoState, "setup_pending"} :
              PersistRegistration(d, k, seed)
         \/ PersistSimulated(d)
  PROVE  doc'[c].state # NoState
<1>0. doc \in [Devices -> Documents]
  BY DEF TInv, TypeOK
<1> USE <1>0 DEF Documents, AllStates, NoState
<1>1. CASE CompleteSetup(d)
  BY <1>1 DEF CompleteSetup
<1>2. CASE \E preserved \in AllStates \cup {NoState} :
             PersistHandshake(d, preserved)
  BY <1>2 DEF PersistHandshake
<1>3. CASE MarkWipeSent(d)
  BY <1>3 DEF MarkWipeSent
<1>4. CASE \E target \in Targets : SetState(d, target)
  BY <1>4 DEF SetState, Targets
<1>5. CASE \E k \in Keys, seed \in {NoState, "setup_pending"} :
             PersistRegistration(d, k, seed)
  <2>1. PICK k \in Keys, seed \in {NoState, "setup_pending"} : PersistRegistration(d, k, seed)
    BY <1>5
  <2>2. doc'[c] = IF c = d
                  THEN [doc[d] EXCEPT !.pem   = k,
                                      !.state = IF seed = NoState THEN @ ELSE seed]
                  ELSE doc[c]
    BY <2>1 DEF PersistRegistration
  <2>3. doc[c] \in Documents /\ doc[d] \in Documents
    BY <1>0
  <2>4. seed = NoState \/ seed = "setup_pending"
    BY <2>1
  <2>5. CASE c = d
    <3>1. doc'[c].state = IF seed = NoState THEN doc[d].state ELSE seed
      BY <2>2, <2>3, <2>5
    <3> QED BY <2>4, <2>5, <3>1
  <2>6. CASE c # d
    BY <2>2, <2>6
  <2> QED BY <2>5, <2>6
<1>6. CASE PersistSimulated(d)
  BY <1>6 DEF PersistSimulated
<1> QED BY <1>1, <1>2, <1>3, <1>4, <1>5, <1>6

LEMMA StepsRecord ==
  ASSUME TInv, Next, NEW c \in Devices, doc[c].state # NoState
  PROVE  doc'[c].state # NoState
<1>1. ASSUME NEW s \in Sessions, Advance(s) PROVE doc'[c].state # NoState
  <2>1. PICK n \in Handlers : Live(s) /\ Advanced(s, n)
    BY <1>1, AdvanceHandler
  <2>2. sess[s].device \in Devices /\ sess[s].preserved \in AllStates \cup {NoState}
    BY <2>1 DEF TInv, TypeOK, HandlersOK, Handlers
  <2> QED BY <2>1, <2>2, WritesRecord DEF Advanced
<1>2. ASSUME NEW a \in Admins, ApplyRequest(a) PROVE doc'[c].state # NoState
  <2>1. PICK r \in request[a] : SetState(r.device, r.target) \/ UNCHANGED doc
    BY <1>2 DEF ApplyRequest
  <2>2. r.device \in Devices /\ r.target \in Targets
    BY <2>1 DEF TInv, TypeOK, Requests
  <2> QED BY <2>1, <2>2, WritesRecord
<1>3. ASSUME NEW r \in Registrars, FinishRegister(r) PROVE doc'[c].state # NoState
  <2>1. PICK e \in enrolment[r] : PersistRegistration(e.device, e.key, e.seed)
    BY <1>3 DEF FinishRegister
  <2>2. /\ e.device \in Devices /\ e.key \in Keys
        /\ e.seed \in {NoState, "setup_pending"}
    BY <2>1 DEF TInv, TypeOK, Enrolments
  <2> QED BY <2>1, <2>2, WritesRecord
<1> QED
  BY <1>1, <1>2, <1>3, WritesRecord
  DEF Next, GatewayStep, GatewayNext, Disconnect, Connect, Restart,
      OperatorsStep, OperatorsNext, CliSetState, CheckRequest, BeginRegister,
      SimulatePhone, Tick

LEMMA RecordStep == TInv /\ Recorded /\ [Next]_vars => Recorded'
<1> SUFFICES ASSUME TInv, Recorded, [Next]_vars PROVE Recorded'
  OBVIOUS
<1>1. CASE UNCHANGED vars
  BY <1>1 DEF vars, Recorded
<1>2. CASE Next
  <2> SUFFICES ASSUME NEW s \in Sessions,
                      \/ sess'[s].phase \in {"open", "wipe", "stream"}
                      \/ sess'[s].phase = "persist" /\ sess'[s].preserved # NoState
               PROVE  doc'[sess'[s].device].state # NoState
    BY DEF Recorded
  <2>1. sess'[s].phase # "closed" /\ (Live(s) => sess[s].device \in Devices)
    BY DEF TInv, HandlersOK
  <2>2. CASE sess'[s] = sess[s]
    BY <1>2, <2>1, <2>2, StepsRecord DEF Recorded, Live
  <2>3. CASE Live(s) /\ Advanced(s, sess'[s]) /\ SamePlace(s, sess'[s])
    <3> DEFINE d == sess[s].device
    <3>1. d \in Devices /\ sess'[s].device = d
      BY <2>1, <2>3 DEF SamePlace
    <3>2. CASE sess[s].phase = "upsert"
      <4>1. StateField(doc[d]) # NoState /\ UNCHANGED doc
        BY <2>3, <3>2 DEF Advanced
      <4> QED BY <3>1, <4>1 DEF StateField
    <3>3. CASE sess[s].phase = "persist"
      <4>1. PersistHandshake(d, sess[s].preserved)
        BY <2>3, <3>3 DEF Advanced
      <4>2. CASE sess[s].preserved = NoState
        <5>1. doc'[d].state = "active"
          BY <3>1, <4>1, <4>2 DEF PersistHandshake, TInv, TypeOK, Documents
        <5> QED BY <3>1, <5>1 DEF NoState
      <4>3. CASE sess[s].preserved # NoState
        <5>1. doc[d].state # NoState
          BY <3>3, <4>3 DEF Recorded
        <5> QED BY <1>2, <3>1, <5>1, StepsRecord
      <4> QED BY <4>2, <4>3
    <3>4. CASE sess[s].phase = "open"
      <4>1. doc[d].state # NoState
        BY <3>4 DEF Recorded
      <4> QED BY <1>2, <3>1, <4>1, StepsRecord
    <3> QED BY <2>3, <3>2, <3>3, <3>4 DEF Advanced
  <2> QED BY <1>2, <2>2, <2>3, HandlerSteps DEF Connected
<1> QED BY <1>1, <1>2

\* After a handshake no read falls back to the legacy `status`, with or without
\* authentication, legacy documents, simulator and concurrent registrars.
THEOREM HandshakesRecord == Spec => []StateRecorded
<1>1. Init => Recorded
  BY DEF Init, GatewayInit, Recorded, Closed
<1>2. Recorded => StateRecorded
  BY DEF Recorded, StateRecorded
<1> QED BY <1>1, <1>2, RecordStep, TypeInvariant, PTL DEF Spec

-----------------------------------------------------------------------------
(* The lifecycle, in the deployment the documents describe *)

\* Handlers that authenticated, and the keys that let them, have a document.
Authenticated ==
  /\ \A s \in Sessions :
       \/ sess[s].phase \in {"closed", "lookup"}
       \/ sess[s].phase = "fill" /\ sess[s].pem = NoKey
       \/ Exists(sess[s].device)
  /\ \A g \in Gateways, d \in Devices : cache[g][d].pem # NoKey => Exists(d)

\* Every document has a state of its own, so a handshake preserves one.
StatesRecorded ==
  /\ \A d \in Devices : doc[d].state # NoState
  /\ \A s \in Sessions : sess[s].phase = "persist" => sess[s].preserved # NoState

\* What a handler knows of its device once it has read the state.
HandlerKnows ==
  \A s \in Sessions :
    sess[s].phase \in {"upsert", "persist", "open", "wipe", "stream"} =>
      /\ sess[s].state = "wipe_requested" =>
           doc[sess[s].device].state \in {"wipe_requested", "wipe_sent"}
      /\ sess[s].phase = "wipe" => sess[s].state = "wipe_requested"
      /\ doc[sess[s].device].state # "setup_pending"

\* A registration in flight is still right about whether the device is new.
EnrolmentIsCurrent ==
  \A r \in Registrars : \A e \in enrolment[r] :
    e.seed = NoState <=> Exists(e.device)

LifeInv ==
  TInv /\ Authenticated /\ StatesRecorded /\ HandlerKnows /\ EnrolmentIsCurrent

LEMMA MatrixFacts ==
  /\ \A s \in AllStates :
       /\ AdminTransitions[s] \subseteq AllStates
       /\ "setup_pending" \notin AdminTransitions[s]
  /\ AdminTransitions["wipe_requested"] = {}
  /\ AdminTransitions["wipe_sent"] = {}
BY DEF AdminTransitions, AllStates

LEMMA OwnState ==
  ASSUME NEW d \in Devices, doc[d].state \in AllStates
  PROVE  Exists(d) /\ LifecycleState(d) = doc[d].state
BY DEF Exists, LifecycleState, StateOf, StateField, Normalize, AllStates,
       Missing, NoState

LEMMA LifeInit == ASSUME Hardened PROVE Init => LifeInv
<1> SUFFICES ASSUME Init PROVE LifeInv
  OBVIOUS
<1>1. TInv
  BY InitTypeOK DEF TInv, Init, GatewayInit, HandlersOK, Live, Closed
<1>2. Authenticated /\ HandlerKnows /\ EnrolmentIsCurrent
  BY DEF Authenticated, HandlerKnows, EnrolmentIsCurrent, Init, GatewayInit,
         OperatorsInit, Closed, EmptyCache
<1>3. \A d \in Devices : doc[d] = NoDocument
  BY DEF Hardened, Init, RegistryInit
<1>4. StatesRecorded
  BY <1>3 DEF StatesRecorded, Init, GatewayInit, Closed, NoDocument, Missing, NoState
<1> QED BY <1>1, <1>2, <1>4 DEF LifeInv

-----------------------------------------------------------------------------
(* What a step does to the states *)

StatesKept == \A d \in Devices : doc'[d].state = doc[d].state

OthersKept(d) == \A c \in Devices \ {d} : doc'[c].state = doc[c].state

Moves(d) ==
  /\ OthersKept(d)
  /\ doc[d].state \in AllStates /\ doc'[d].state \in AllStates
  /\ \/ doc'[d].state \in AdminTransitions[doc[d].state]
     \/ <<doc[d].state, doc'[d].state>> \in
          {<<"setup_pending", "active">>, <<"wipe_requested", "wipe_sent">>}

Enrols(d) ==
  /\ OthersKept(d)
  /\ doc[d].state = Missing /\ doc'[d].state = "setup_pending"

LEMMA GatewayWrites ==
  ASSUME LifeInv, NEW s \in Sessions, Advance(s)
  PROVE  StatesKept \/ \E d \in Devices : Moves(d)
<1>1. PICK n \in Handlers : Live(s) /\ Advanced(s, n)
  BY AdvanceHandler DEF LifeInv
<1> DEFINE d == sess[s].device
<1>2. /\ d \in Devices /\ doc \in [Devices -> Documents]
      /\ doc[d].state \in AllStates \cup {NoState, Missing}
  BY <1>1 DEF LifeInv, TInv, TypeOK, HandlersOK, Documents
<1> HIDE DEF d
<1>3. CASE sess[s].phase = "promote"
  <2>1. CompleteSetup(d) /\ doc[d].state \in AllStates
    BY <1>1, <1>2, <1>3 DEF Advanced, d, LifeInv, Authenticated, Exists, StatesRecorded
  <2>2. CASE doc[d].state = "setup_pending"
    BY <1>2, <2>1, <2>2, OwnState
    DEF CompleteSetup, Moves, OthersKept, AllStates, Documents
  <2>3. CASE doc[d].state # "setup_pending"
    BY <1>2, <2>1, <2>3, OwnState DEF CompleteSetup, StatesKept, Documents
  <2> QED BY <1>2, <2>2, <2>3
<1>4. CASE sess[s].phase = "persist"
  <2>1. PersistHandshake(d, sess[s].preserved) /\ sess[s].preserved # NoState
    BY <1>1, <1>4 DEF Advanced, d, LifeInv, StatesRecorded
  <2> QED BY <1>2, <2>1 DEF PersistHandshake, StatesKept, Documents
<1>5. CASE sess[s].phase = "wipe"
  <2>1. /\ MarkWipeSent(d)
        /\ doc[d].state \in {"wipe_requested", "wipe_sent"}
    BY <1>1, <1>5 DEF Advanced, d, LifeInv, HandlerKnows
  <2>2. doc'[d].state = "wipe_sent" /\ OthersKept(d)
    BY <1>2, <2>1 DEF MarkWipeSent, OthersKept, Documents
  <2> QED BY <1>2, <2>1, <2>2 DEF Moves, StatesKept, OthersKept, AllStates
<1> QED BY <1>1, <1>3, <1>4, <1>5 DEF Advanced, StatesKept

LEMMA OperatorMoves ==
  ASSUME LifeInv, NEW d \in Devices, NEW target \in Targets, SetState(d, target)
  PROVE  Moves(d)
<1>1. doc \in [Devices -> Documents] /\ doc[d].state \in AllStates
  BY DEF LifeInv, TInv, TypeOK, Documents, SetState, Exists, StatesRecorded
<1>2. target \in AdminTransitions[doc[d].state]
  BY <1>1, OwnState DEF SetState, ValidAdminTransition, Normalize
<1>3. doc'[d].state = target /\ OthersKept(d)
  BY <1>1 DEF SetState, OthersKept, Documents
<1> QED BY <1>1, <1>2, <1>3, MatrixFacts DEF Moves

LEMMA RegistrarWrites ==
  ASSUME LifeInv, NEW r \in Registrars, FinishRegister(r)
  PROVE  StatesKept \/ \E d \in Devices : Enrols(d)
<1>1. PICK e \in enrolment[r] : PersistRegistration(e.device, e.key, e.seed)
  BY DEF FinishRegister
<1> DEFINE d == e.device
<1>2. /\ d \in Devices /\ e.seed \in {NoState, "setup_pending"}
      /\ doc \in [Devices -> Documents]
  BY <1>1 DEF LifeInv, TInv, TypeOK, Enrolments
<1>3. /\ doc'[d].state = IF e.seed = NoState THEN doc[d].state ELSE e.seed
      /\ OthersKept(d)
  BY <1>1, <1>2 DEF PersistRegistration, OthersKept, Documents
<1>4. CASE e.seed = NoState
  BY <1>3, <1>4 DEF StatesKept, OthersKept
<1>5. CASE e.seed # NoState
  <2>1. doc[d].state = Missing
    BY <1>1, <1>5 DEF LifeInv, EnrolmentIsCurrent, Exists
  <2> QED BY <1>2, <1>3, <1>5, <2>1 DEF Enrols
<1> QED BY <1>4, <1>5

\* Only the registrar makes a document; all else moves one along the matrix.
LEMMA StateSteps ==
  ASSUME LifeInv, Hardened, Next
  PROVE  \/ StatesKept
         \/ \E d \in Devices : Moves(d)
         \/ /\ \E d \in Devices : Enrols(d)
            /\ \E r \in Registrars : FinishRegister(r)
            /\ UNCHANGED sess
<1>1. ASSUME UNCHANGED doc PROVE StatesKept
  BY <1>1 DEF StatesKept
<1>2. CASE GatewayStep
  BY <1>1, <1>2, GatewayWrites
  DEF GatewayStep, GatewayNext, Disconnect, Connect, Restart
<1>3. CASE OperatorsStep
  <2>1. ASSUME NEW a \in Admins, ApplyRequest(a)
        PROVE  StatesKept \/ \E d \in Devices : Moves(d)
    <3>1. PICK r \in request[a] : SetState(r.device, r.target) \/ UNCHANGED doc
      BY <2>1 DEF ApplyRequest
    <3>2. r.device \in Devices /\ r.target \in Targets
      BY <3>1 DEF LifeInv, TInv, TypeOK, Requests
    <3> QED BY <1>1, <3>1, <3>2, OperatorMoves
  <2> QED
    BY <1>1, <1>3, <2>1, OperatorMoves, RegistrarWrites
    DEF OperatorsStep, OperatorsNext, CliSetState, CheckRequest, BeginRegister,
        SimulatePhone, Hardened
<1> QED BY <1>1, <1>2, <1>3 DEF Next, Tick

\* What no step of the fleet takes back.
LEMMA StatesEndure ==
  ASSUME LifeInv, Hardened, Next, NEW d \in Devices
  PROVE  /\ Exists(d) => Exists(d)'
         /\ doc'[d].state # NoState
         /\ doc[d].state \in {"wipe_requested", "wipe_sent"} =>
              doc'[d].state \in {"wipe_requested", "wipe_sent"}
         /\ Exists(d) /\ doc[d].state # "setup_pending" =>
              doc'[d].state # "setup_pending"
<1>1. doc[d].state # NoState
  BY DEF LifeInv, StatesRecorded
<1>2. CASE doc'[d].state = doc[d].state
  BY <1>1, <1>2 DEF Exists
<1>3. CASE Moves(d)
  BY <1>3, MatrixFacts DEF Moves, Exists, AllStates, NoState, Missing
<1>4. CASE Enrols(d)
  BY <1>4 DEF Enrols, Exists, NoState, Missing
<1> QED BY <1>2, <1>3, <1>4, StateSteps DEF StatesKept, Moves, Enrols, OthersKept

LEMMA AuthenticatedStep ==
  ASSUME LifeInv, Hardened, Next PROVE Authenticated'
<1>1. ASSUME NEW g \in Gateways, NEW d \in Devices, cache'[g][d].pem # NoKey
      PROVE  Exists(d)'
  <2>1. Exists(d)
    BY <1>1, CacheSteps DEF LifeInv, Authenticated
  <2> QED BY <2>1, StatesEndure
<1>2. ASSUME NEW s \in Sessions,
             sess'[s].phase \notin {"closed", "lookup"},
             ~(sess'[s].phase = "fill" /\ sess'[s].pem = NoKey)
      PROVE  Exists(sess[s].device)'
  <2>1. /\ sess'[s].phase # "closed"
        /\ Live(s) => sess[s].device \in Devices
    BY <1>2 DEF LifeInv, TInv, HandlersOK
  <2>2. CASE sess'[s] = sess[s]
    <3>1. Exists(sess[s].device) /\ sess[s].device \in Devices
      BY <1>2, <2>1, <2>2 DEF LifeInv, Authenticated, Live
    <3> QED BY <2>2, <3>1, StatesEndure DEF Exists
  <2>3. CASE Live(s) /\ Advanced(s, sess'[s]) /\ SamePlace(s, sess'[s])
    <3>1. Exists(sess[s].device)
      <4>1. CASE sess[s].phase = "lookup"
        <5>1. PublicKey(sess[s].device) # NoKey
          BY <1>2, <2>3, <4>1 DEF Advanced
        <5> QED BY <5>1 DEF PublicKey
      <4>2. CASE sess[s].phase # "lookup"
        BY <2>1, <2>3, <4>2 DEF Advanced, LifeInv, Authenticated
      <4> QED BY <4>1, <4>2
    <3> QED BY <2>1, <2>3, <3>1, StatesEndure DEF Exists, SamePlace
  <2>4. CASE Connected(sess'[s]) /\ UNCHANGED <<doc, cache, clock>>
    <3>1. /\ sess'[s].gateway \in Gateways /\ sess'[s].device \in Devices
          /\ CacheHit(sess'[s].gateway, sess'[s].device)
      BY <1>2, <2>4 DEF Connected, Hardened
    <3>2. Exists(sess'[s].device)
      BY <3>1 DEF CacheHit, LifeInv, Authenticated
    <3> QED BY <2>4, <3>2 DEF Exists
  <2> QED BY <2>1, <2>2, <2>3, <2>4, HandlerSteps DEF LifeInv
<1> QED BY <1>1, <1>2 DEF Authenticated

LEMMA RecordedStep ==
  ASSUME LifeInv, Hardened, Next PROVE StatesRecorded'
<1>1. ASSUME NEW s \in Sessions, sess'[s].phase = "persist"
      PROVE  sess'[s].preserved # NoState
  <2>1. CASE sess'[s] = sess[s]
    BY <1>1, <2>1 DEF LifeInv, StatesRecorded
  <2>2. CASE Live(s) /\ Advanced(s, sess'[s])
    <3>1. /\ sess[s].phase = "upsert"
          /\ sess'[s].preserved = StateField(doc[sess[s].device])
          /\ sess[s].device \in Devices
      BY <1>1, <2>2 DEF Advanced, LifeInv, TInv, HandlersOK
    <3>2. Exists(sess[s].device) /\ doc[sess[s].device].state # NoState
      BY <3>1 DEF LifeInv, Authenticated, StatesRecorded
    <3> QED BY <3>1, <3>2 DEF StateField, Exists
  <2> QED BY <1>1, <2>1, <2>2, HandlerSteps DEF LifeInv, Connected
<1> QED BY <1>1, StatesEndure DEF StatesRecorded

LEMMA KnowsStep ==
  ASSUME LifeInv, Hardened, Next PROVE HandlerKnows'
<1> DEFINE Known(s, h, document) ==
      /\ h.state = "wipe_requested" =>
           document.state \in {"wipe_requested", "wipe_sent"}
      /\ h.phase = "wipe" => h.state = "wipe_requested"
      /\ document.state # "setup_pending"
<1> SUFFICES ASSUME NEW s \in Sessions,
                    sess'[s].phase \in {"upsert", "persist", "open", "wipe", "stream"}
             PROVE  Known(s, sess'[s], doc'[sess'[s].device])
  BY DEF HandlerKnows
<1>1. CASE sess'[s] = sess[s]
  <2>1. /\ sess[s].device \in Devices /\ Exists(sess[s].device)
        /\ Known(s, sess[s], doc[sess[s].device])
    BY <1>1 DEF LifeInv, TInv, HandlersOK, Live, Authenticated, HandlerKnows
  <2> QED BY <1>1, <2>1, StatesEndure
<1>2. CASE Live(s) /\ Advanced(s, sess'[s]) /\ SamePlace(s, sess'[s])
  <2> DEFINE d == sess[s].device
  <2>1. d \in Devices /\ sess'[s].device = d
    BY <1>2 DEF LifeInv, TInv, HandlersOK, SamePlace
  <2>2. Exists(d) /\ doc[d].state \in AllStates
    <3>1. Exists(d)
      BY <1>2 DEF Advanced, LifeInv, Authenticated
    <3> QED BY <2>1, <3>1 DEF LifeInv, TInv, TypeOK, Documents, StatesRecorded, Exists
  <2>3. CASE sess[s].phase = "admitted"
    <3>1. /\ UNCHANGED doc /\ sess'[s].phase = "upsert"
          /\ sess'[s].state = doc[d].state /\ sess'[s].state # "setup_pending"
      BY <1>2, <2>1, <2>2, <2>3, OwnState DEF Advanced
    <3> QED BY <2>1, <3>1
  <2>4. CASE sess[s].phase = "promote"
    <3>1. sess'[s].state = "active" /\ sess'[s].phase = "upsert" /\ CompleteSetup(d)
      BY <1>2, <2>4 DEF Advanced
    <3>2. doc'[d].state # "setup_pending"
      BY <2>1, <2>2, <3>1, OwnState
      DEF CompleteSetup, LifeInv, TInv, TypeOK, Documents
    <3> QED BY <2>1, <3>1, <3>2
  <2>5. CASE sess[s].phase \in {"upsert", "persist", "open"}
    <3>1. /\ sess'[s].state = sess[s].state
          /\ sess'[s].phase = "wipe" => sess'[s].state = "wipe_requested"
      BY <1>2, <2>5 DEF Advanced
    <3>2. Known(s, sess[s], doc[d])
      BY <2>5 DEF LifeInv, HandlerKnows
    <3> QED BY <2>1, <2>2, <3>1, <3>2, StatesEndure
  <2> QED BY <1>2, <2>3, <2>4, <2>5 DEF Advanced
<1> QED BY <1>1, <1>2, HandlerSteps DEF LifeInv, Connected

LEMMA EnrolmentStep ==
  ASSUME LifeInv, Hardened, Next PROVE EnrolmentIsCurrent'
<1> SUFFICES ASSUME NEW r \in Registrars, NEW e \in enrolment'[r]
             PROVE  e.seed = NoState <=> Exists(e.device)'
  BY DEF EnrolmentIsCurrent
<1>0. enrolment \in [Registrars -> SUBSET Enrolments]
  BY DEF LifeInv, TInv, TypeOK
<1>1. ASSUME NEW q \in Registrars, FinishRegister(q) PROVE FALSE
  <2>1. q = r
    BY DEF Hardened
  <2> QED BY <1>0, <1>1, <2>1 DEF FinishRegister
<1>2. CASE e \in enrolment[r]
  <2>1. e.device \in Devices /\ (e.seed = NoState <=> Exists(e.device))
    BY <1>0, <1>2 DEF Enrolments, LifeInv, EnrolmentIsCurrent
  <2>2. Exists(e.device)' <=> Exists(e.device)
    BY <1>1, <2>1, StateSteps
    DEF StatesKept, Moves, OthersKept, Exists, AllStates, Missing
  <2> QED BY <2>1, <2>2
<1>3. ASSUME NEW q \in Registrars, NEW d \in Devices, NEW k \in Keys,
             BeginRegister(q, d, k), e \notin enrolment[r]
      PROVE  e.seed = NoState <=> Exists(e.device)'
  <2> DEFINE b == [device |-> d, key |-> k,
                   seed |-> IF Exists(d) THEN NoState ELSE "setup_pending"]
  <2>1. e = b /\ UNCHANGED doc
    BY <1>0, <1>3 DEF BeginRegister
  <2>2. e.device = d /\ (e.seed = NoState <=> Exists(d))
    BY <2>1 DEF NoState
  <2> QED BY <2>1, <2>2 DEF Exists
<1>4. ASSUME e \notin enrolment[r]
      PROVE  \E q \in Registrars, d \in Devices, k \in Keys : BeginRegister(q, d, k)
  BY <1>1, <1>4
  DEF Next, GatewayStep, OperatorsStep, OperatorsNext, Tick, CliSetState,
      CheckRequest, ApplyRequest, SimulatePhone
<1> QED BY <1>2, <1>3, <1>4

LEMMA LifeStep == ASSUME Hardened PROVE LifeInv /\ [Next]_vars => LifeInv'
<1> SUFFICES ASSUME LifeInv, [Next]_vars PROVE LifeInv'
  OBVIOUS
<1>1. TInv'
  BY TypeStep DEF LifeInv
<1>2. CASE Next
  BY <1>1, <1>2, AuthenticatedStep, RecordedStep, KnowsStep, EnrolmentStep
  DEF LifeInv
<1>3. CASE UNCHANGED vars
  BY <1>1, <1>3
  DEF vars, LifeInv, Authenticated, StatesRecorded, HandlerKnows,
      EnrolmentIsCurrent, Exists
<1> QED BY <1>2, <1>3

LEMMA LifeInvariant == ASSUME Hardened PROVE Spec => []LifeInv
BY LifeInit, LifeStep, PTL DEF Spec

-----------------------------------------------------------------------------
(* The theorems *)

\* A document's own state is its lifecycle state.
LEMMA KnownLife ==
  ASSUME LifeInv, NEW d \in Devices
  PROVE  /\ Exists(d) => LifecycleState(d) = doc[d].state /\ doc[d].state \in AllStates
         /\ Life[d] = IF Exists(d) THEN doc[d].state ELSE "unregistered"
<1>1. Exists(d) => doc[d].state \in AllStates
  BY DEF Exists, LifeInv, TInv, TypeOK, Documents, StatesRecorded
<1> QED BY <1>1, OwnState DEF Life

\* mark_wipe_sent overwrites only a pending wipe or one already recorded.
THEOREM WipesArePending == Spec => []WipeIsPending
<1>1. LifeInv => WipeIsPending
  BY KnownLife
  DEF WipeIsPending, LifeInv, HandlerKnows, Authenticated, TInv, HandlersOK, Live
<1>2. CASE Hardened
  BY <1>1, <1>2, LifeInvariant, PTL
<1>3. CASE ~Hardened
  <2>1. WipeIsPending
    BY <1>3 DEF WipeIsPending
  <2> QED BY <2>1, PTL
<1> QED BY <1>2, <1>3

\* The device of an open stream has left setup_pending and does not return.
THEOREM SetupStaysOver == Spec => []SetupIsOver
<1>1. LifeInv => SetupIsOver
  BY KnownLife
  DEF SetupIsOver, LifeInv, HandlerKnows, Authenticated, TInv, HandlersOK, Live
<1>2. CASE Hardened
  BY <1>1, <1>2, LifeInvariant, PTL
<1>3. CASE ~Hardened
  <2>1. SetupIsOver
    BY <1>3 DEF SetupIsOver
  <2> QED BY <2>1, PTL
<1> QED BY <1>2, <1>3

LEMMA LifeMoves ==
  ASSUME Hardened, LifeInv, LifeInv', Next
  PROVE  [Matrix!LifecycleNext]_Life
<1>1. /\ \A d \in Devices :
           Life[d] = IF Exists(d) THEN doc[d].state ELSE "unregistered"
      /\ \A d \in Devices :
           Life'[d] = IF Exists(d)' THEN doc'[d].state ELSE "unregistered"
  <2>1. \A d \in Devices :
          /\ doc[d] \in Documents /\ doc[d].state # NoState
          /\ doc'[d] \in Documents /\ doc'[d].state # NoState
    BY DEF LifeInv, TInv, TypeOK, StatesRecorded
  <2>2. \A r \in Documents :
          r.state \notin {NoState, Missing} =>
            r.state \in AllStates /\ StateOf(r) = r.state
    BY DEF Documents, StateOf, StateField, Normalize
  <2> QED BY <2>1, <2>2 DEF Life, Exists, LifecycleState
<1>2. /\ Life = [d \in Devices |-> Life[d]]
      /\ Life' = [d \in Devices |-> Life'[d]]
  BY DEF Life
<1>3. CASE StatesKept
  BY <1>1, <1>2, <1>3 DEF StatesKept, Exists
<1>4. ASSUME NEW d \in Devices, Moves(d) \/ Enrols(d)
      PROVE  Matrix!LifecycleNext
  <2>1. /\ Exists(d)' /\ Life'[d] = doc'[d].state /\ doc'[d].state \in AllStates
    BY <1>1, <1>4 DEF Moves, Enrols, Exists, AllStates, Missing
  <2>2. Life' = [Life EXCEPT ![d] = doc'[d].state]
    BY <1>1, <1>2, <1>4, <2>1 DEF Moves, Enrols, OthersKept, Exists
  <2>3. Matrix!Permitted(Life[d], doc'[d].state)
    BY <1>1, <1>4
    DEF Moves, Enrols, Exists, AllStates, Missing, Matrix!Permitted,
        Matrix!GatewayTransitions, Matrix!Unregistered, Matrix!AllStates,
        Matrix!AdminTransitions, AdminTransitions
  <2> QED BY <2>1, <2>2, <2>3
    DEF Matrix!LifecycleNext, Matrix!Move, Matrix!AllStates, AllStates
<1> QED BY <1>3, <1>4, StateSteps

\* The fleet implements the published lifecycle matrix.
THEOREM FleetFollowsMatrix == ASSUME Hardened PROVE Spec => FollowsMatrix
<1>1. Init => Matrix!LifecycleInit
  BY DEF Init, RegistryInit, Hardened, Matrix!LifecycleInit, Life, Exists,
         NoDocument, Matrix!Unregistered
<1>2. LifeInv /\ LifeInv' /\ [Next]_vars => [Matrix!LifecycleNext]_Life
  <2>1. UNCHANGED vars => UNCHANGED Life
    BY DEF vars, Life, Exists, LifecycleState
  <2> QED BY <2>1, LifeMoves
<1> QED
  BY <1>1, <1>2, LifeInvariant, PTL DEF Spec, FollowsMatrix, Matrix!LifecycleSpec
=============================================================================
