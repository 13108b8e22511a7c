---------------------------- MODULE DeviceRegistry ----------------------------
(***************************************************************************)
(* The Firestore collection `devices`: one document per device, shared by  *)
(* every gateway instance, the admin service and the provisioning CLI.     *)
(*                                                                         *)
(* Only the fields that decide anything are kept: `state`, the legacy      *)
(* `status`, and `public_key_pem`; a device without a document has state   *)
(* Missing, and nothing deletes one.  Each                                 *)
(* operator below is one call that reaches the database.  A transaction    *)
(* and a single set(merge=True) are atomic there; a get followed by a set  *)
(* is two calls, and the modules that make them put them in two steps.     *)
(***************************************************************************)
EXTENDS Naturals, DeviceLifecycle

CONSTANTS
  Devices,          \* device ids
  Keys,             \* public keys a device may hold
  NoKey,            \* a document without a usable public_key_pem
  LegacyDevices     \* devices with a document that predates the `state` field

ASSUME KeyAssumption == NoKey \notin Keys
ASSUME LegacyAssumption == LegacyDevices \subseteq Devices

VARIABLE doc

Documents == [state  : AllStates \cup {NoState, Missing},
              status : LegacyStatuses,
              pem    : Keys \cup {NoKey}]

NoDocument == [state |-> Missing, status |-> NoState, pem |-> NoKey]

LegacyDocuments == [state : {NoState}, status : LegacyStatuses, pem : Keys]

RegistryInit ==
  doc \in {f \in [Devices -> LegacyDocuments \cup {NoDocument}] :
             \A d \in Devices : f[d] # NoDocument <=> d \in LegacyDevices}

-----------------------------------------------------------------------------
(* Reads *)

Exists(d) == doc[d].state # Missing

\* The `state` field as a read of the document returns it.
StateField(document) == IF document.state = Missing THEN NoState
                                                    ELSE document.state

\* The lifecycle state every reader derives: `state`, or else `status`, then
\* normalised.  A missing document reads as None, which normalises to active.
StateOf(document) ==
  Normalize(IF StateField(document) # NoState THEN document.state
                                              ELSE document.status)

LifecycleState(d) == StateOf(doc[d])

\* get_public_key: the key, unless the device must not authenticate at all.
PublicKey(d) ==
  IF Exists(d) /\ LifecycleState(d) \in ConnectableStates
  THEN doc[d].pem
  ELSE NoKey

-----------------------------------------------------------------------------
(* Writes *)

\* Transaction: flips setup_pending to active, and only that.
CompleteSetup(d) ==
  doc' = [doc EXCEPT ![d].state =
            IF Exists(d) /\ LifecycleState(d) = "setup_pending"
            THEN "active" ELSE @]

\* Mutant: every handshake makes the device active.
HandshakeActivates(d, preserved) == doc' = [doc EXCEPT ![d].state = "active"]

\* Mutant: a handshake leaves the state to the operators.
HandshakeSeedsNothing(d, preserved) == UNCHANGED doc

\* The write of upsert_handshake; `preserved` is what its read returned.
PersistHandshake(d, preserved) ==
  doc' = [doc EXCEPT ![d].state = IF preserved = NoState THEN "active" ELSE @]

\* A plain write: whatever the state has become meanwhile, it is overwritten.
MarkWipeSent(d) == doc' = [doc EXCEPT ![d].state = "wipe_sent"]

\* Transaction: validates against the state it reads, then writes.
SetState(d, target) ==
  /\ Exists(d)
  /\ ValidAdminTransition(LifecycleState(d), target)
  /\ doc' = [doc EXCEPT ![d].state = target]

\* Mutant: every registration starts the device over.
RegistrationResets(d, k, seed) ==
  doc' = [doc EXCEPT ![d] = [doc[d] EXCEPT !.pem = k, !.state = "setup_pending"]]

\* The write of `register`: the key, and for a document its read did not find
\* (`seed`) the first state.
PersistRegistration(d, k, seed) ==
  doc' = [doc EXCEPT ![d] =
            [doc[d] EXCEPT !.pem   = k,
                           !.state = IF seed = NoState THEN @ ELSE seed]]

\* The simulator endpoint writes state=active into whatever document it names.
PersistSimulated(d) == doc' = [doc EXCEPT ![d].state = "active"]
=============================================================================
