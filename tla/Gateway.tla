------------------------------- MODULE Gateway -------------------------------
(***************************************************************************)
(* StreamAudio in the gateway: one handler per gRPC stream, several        *)
(* gateway instances over one device registry, and in each instance a      *)
(* cache of public keys.                                                   *)
(*                                                                         *)
(* The handler is an asyncio coroutine.  A step ends where it awaits, so   *)
(* everything between two awaits is atomic and anything may happen at one: *)
(* an operator changes the state, another stream of the same device        *)
(* advances, the stream dies.  The phases name what the coroutine is about *)
(* to do.  Time is a clock that Tick advances.                             *)
(***************************************************************************)
EXTENDS DeviceRegistry

CONSTANTS
  Gateways,         \* gateway instances
  Sessions,         \* stream handlers; one is used again after it closed
  NoDevice,         \* the device of a closed handler
  RequireAuth,      \* GATEWAY_REQUIRE_AUTH
  KeyTTL,           \* jwt_public_key_cache_seconds
  MaxClock          \* bound of the clock

ASSUME DeviceAssumption == NoDevice \notin Devices
ASSUME AuthAssumption   == RequireAuth \in BOOLEAN
ASSUME ClockAssumption  == KeyTTL \in Nat /\ MaxClock \in Nat

VARIABLES
  sess,             \* the handlers
  cache,            \* per instance and device: a key and when it expires
  clock

Phases == {"closed",
           "lookup",      \* cache missed: about to read the public key
           "fill",        \* holds the answer, about to cache it
           "admitted",    \* authenticated, or auth is off; handshake to come
           "promote",     \* read setup_pending: about to complete_setup
           "upsert",      \* about to read the document for upsert_handshake
           "persist",     \* about to write it
           "open",        \* about to init_session and acknowledge
           "wipe",        \* sent the wipe command: about to mark_wipe_sent
           "stream"}      \* the receive loop

Handlers == [phase     : Phases,
             device    : Devices \cup {NoDevice},
             gateway   : Gateways \cup {NoDevice},
             key       : Keys \cup {NoKey},     \* signed the stream's token
             now       : Nat,                   \* when _get_public_key began
             pem       : Keys \cup {NoKey},     \* what the registry answered
             state     : AllStates,             \* device_state, a local
             preserved : AllStates \cup {NoState}]

Closed == [phase |-> "closed", device |-> NoDevice, gateway |-> NoDevice,
           key |-> NoKey, now |-> 0, pem |-> NoKey, state |-> "active",
           preserved |-> NoState]

CacheEntries == [pem : Keys \cup {NoKey}, expires : Nat]

EmptyCache == [d \in Devices |-> [pem |-> NoKey, expires |-> 0]]

GatewayInit ==
  /\ sess  = [s \in Sessions |-> Closed]
  /\ cache = [g \in Gateways |-> EmptyCache]
  /\ clock = 0

\* The handler of s goes on as `handler`.
Become(s, handler) == sess' = [sess EXCEPT ![s] = handler]

\* abort() or return: the handler is gone.
Close(s) == Become(s, Closed)

Live(s) == sess[s].phase # "closed"

\* publish_audio, fixed when the receive loop starts.
Publishing(s) == sess[s].phase = "stream" /\ sess[s].state \in PublishAudioStates
-----------------------------------------------------------------------------
(* Authentication: JwtAuth.validate and its key cache *)

CacheHit(g, d) == cache[g][d].pem # NoKey /\ cache[g][d].expires > clock

\* Mutant: the expiry counts from the answer.
ExpiryFromAnswer(handler) == clock + KeyTTL

\* The expiry counts from before the lookup, not from the answer.
Expiry(handler) == handler.now + KeyTTL

\* The token verifies iff it was signed with the key at hand.
Verify(s, pem, handler) ==
  Become(s, IF pem = handler.key
            THEN [handler EXCEPT !.phase = "admitted", !.pem = NoKey]
            ELSE Closed)

\* A stream of device d, its token signed by k (NoKey: by a key nobody
\* registered).  The clock is read before the cache and before the registry.
Arrival(g, d, k) == [Closed EXCEPT !.phase = "lookup", !.device = d,
                                   !.gateway = g, !.key = k, !.now = clock]

Connect(s, g, d, k) ==
  /\ ~Live(s)
  /\ \/ /\ ~RequireAuth
        /\ Become(s, [Arrival(g, d, k) EXCEPT !.phase = "admitted"])
     \/ /\ RequireAuth
        /\ CacheHit(g, d)
        /\ Verify(s, cache[g][d].pem, Arrival(g, d, k))
     \/ /\ RequireAuth
        /\ ~CacheHit(g, d)
        /\ Become(s, Arrival(g, d, k))
  /\ UNCHANGED <<doc, cache>>

LookupKey(s) ==
  LET h == sess[s]
  IN  /\ h.phase = "lookup"
      /\ Become(s, [h EXCEPT !.phase = "fill", !.pem = PublicKey(h.device)])
      /\ UNCHANGED <<doc, cache>>

FillCache(s) ==
  LET h == sess[s]
  IN  /\ h.phase = "fill"
      /\ \/ /\ h.pem = NoKey
            /\ Close(s)
            /\ UNCHANGED cache
         \/ /\ h.pem # NoKey
            /\ cache' = [cache EXCEPT ![h.gateway][h.device] =
                           [pem |-> h.pem, expires |-> Expiry(h)]]
            /\ Verify(s, h.pem, h)
      /\ UNCHANGED doc

-----------------------------------------------------------------------------
(* The handshake, up to the session acknowledgement *)

\* The claims of the token are of no more use once the handshake matched them.
ReadState(s) ==
  LET h == sess[s]
      current == LifecycleState(h.device)
      next == IF current = "setup_pending" THEN "promote" ELSE "upsert"
  IN  /\ h.phase = "admitted"
      /\ Become(s, [h EXCEPT !.state = current, !.phase = next,
                             !.key = NoKey, !.now = 0])
      /\ UNCHANGED <<doc, cache>>

\* Whether or not the transaction promoted the device, this session goes on as
\* an active one.
Promote(s) ==
  LET h == sess[s]
  IN  /\ h.phase = "promote"
      /\ CompleteSetup(h.device)
      /\ Become(s, [h EXCEPT !.state = "active", !.phase = "upsert"])
      /\ UNCHANGED cache

\* The first half of upsert_handshake reads `state` alone, not `status`.
ReadDocument(s) ==
  LET h == sess[s]
  IN  /\ h.phase = "upsert"
      /\ Become(s, [h EXCEPT !.preserved = StateField(doc[h.device]),
                             !.phase     = "persist"])
      /\ UNCHANGED <<doc, cache>>

Persist(s) ==
  LET h == sess[s]
  IN  /\ h.phase = "persist"
      /\ PersistHandshake(h.device, h.preserved)
      /\ Become(s, [h EXCEPT !.preserved = NoState, !.phase = "open"])
      /\ UNCHANGED cache

-----------------------------------------------------------------------------
(* The session *)

\* init_session, SessionAck, and for a device to be wiped the wipe command.
Open(s) ==
  LET h == sess[s]
      next == IF h.state = "wipe_requested" THEN "wipe" ELSE "stream"
  IN  /\ h.phase = "open"
      /\ Become(s, [h EXCEPT !.phase = next])
      /\ UNCHANGED <<doc, cache>>

RecordWipe(s) ==
  /\ sess[s].phase = "wipe"
  /\ MarkWipeSent(sess[s].device)
  /\ Close(s)
  /\ UNCHANGED cache

\* The stream ends at any await: no or a wrong handshake, the client hangs up,
\* a call fails.  The finally clause writes only last_disconnect_*.
Disconnect(s) ==
  /\ Live(s)
  /\ Close(s)
  /\ UNCHANGED <<doc, cache>>

\* An instance is replaced: its streams and its cache go.
Restart(g) ==
  /\ cache' = [cache EXCEPT ![g] = EmptyCache]
  /\ sess' = [s \in Sessions |-> IF sess[s].gateway = g THEN Closed ELSE sess[s]]
  /\ UNCHANGED doc

Advance(s) ==
  \/ LookupKey(s)  \/ FillCache(s) \/ ReadState(s) \/ Promote(s)
  \/ ReadDocument(s) \/ Persist(s) \/ Open(s) \/ RecordWipe(s)

GatewayNext ==
  \/ \E s \in Sessions :
       \/ Advance(s)
       \/ Disconnect(s)
       \/ \E g \in Gateways, d \in Devices, k \in Keys \cup {NoKey} :
            Connect(s, g, d, k)
  \/ \E g \in Gateways : Restart(g)
=============================================================================
