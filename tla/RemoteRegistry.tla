--------------------------- MODULE RemoteRegistry ---------------------------
(***************************************************************************)
(* Which motor a physical remote stands for: the three dicts of api.py,    *)
(* _remote_to_motor, _remote_ref_counts and _registered_devices, and the   *)
(* entities that fill and empty them.  A timed motor with a bound remote   *)
(* has two entities that register the same key, its cover and its event    *)
(* entity; Home Assistant adds, removes and re-adds each on its own (a     *)
(* disabled entity, a renamed one, a deleted motor, an unload).            *)
(*                                                                         *)
(* A dict read with .get() is a total function with the default as value.  *)
(***************************************************************************)
EXTENDS Naturals, FiniteSets

CONSTANTS Motor,      \* ids of the motors of the entry
          Timed,      \* those configured as not bidirectional
          Remote,     \* ids of physical remotes
          Channel,    \* channel selectors, frame[2:4]
          None,       \* Python's None
          Stored      \* what the subentries may say: bindings of the motors

(* (remote_enum, remote_id); binds made before v1.4 have no enum. *)
Key == (Channel \cup {None}) \X Remote
Kind == {"cover", "event"}
Device == Motor \cup Remote

ASSUME RegistryAssumption ==
    /\ Timed \subseteq Motor /\ IsFiniteSet(Motor)
    /\ None \notin Motor \cup Remote \cup Channel \cup Key
    /\ Motor \cap Remote = {}      \* the flow refuses a motor as a remote
    /\ Stored \subseteq [Motor -> Key \cup {None}]

VARIABLES
    binding,      \* (CONF_REMOTE_ENUM, CONF_REMOTE_ID) of each motor's subentry
    live,         \* entities added to Home Assistant: kind and motor
    route,        \* _remote_to_motor
    refs,         \* _remote_ref_counts
    registered    \* _registered_devices: id to the motor whose enum it carries

regVars == <<binding, live, route, refs, registered>>

(* Entities that register a remote: none does for a bidirectional motor.   *)
Holders(k) == {h \in live : h[2] \in Timed /\ binding[h[2]] = k}

RegistryTypeOK ==
    /\ binding \in Stored
    /\ live \subseteq Kind \X Motor
    /\ route \in [Key -> Motor \cup {None}]
    /\ refs \in [Key -> Nat]
    /\ registered \in [Device -> Motor \cup {None}]

RegistryInit ==
    /\ binding \in Stored
    /\ live = {}
    /\ route = [k \in Key |-> None]
    /\ refs = [k \in Key |-> 0]
    /\ registered = [d \in Device |-> None]

-----------------------------------------------------------------------------
(* _is_bound_remote_id(), in the dict `table`. *)
IsBoundRemoteId(table, d) == \E k \in Key : k[2] = d /\ table[k] # None

(* register_remote(), after the entity put `known` in _registered_devices. *)
RegisterRemote_OwnEnum(k, m, known) ==
    /\ registered' = [known EXCEPT ![k[2]] = k[1]]
    /\ route' = [route EXCEPT ![k] = m]
    /\ refs' = [refs EXCEPT ![k] = @ + 1]

RegisterRemote_Once(k, m, known) ==
    /\ registered' = [known EXCEPT ![k[2]] = m]
    /\ route' = [route EXCEPT ![k] = m]
    /\ refs' = [refs EXCEPT ![k] = 1]

RegisterRemote(k, m, known) ==
    /\ registered' = [known EXCEPT ![k[2]] = m]
    /\ route' = [route EXCEPT ![k] = m]
    /\ refs' = [refs EXCEPT ![k] = @ + 1]

(* unregister_remote() *)
UnregisterRemote_ForgetsSibling(k) ==
    IF refs[k] > 1
    THEN refs' = [refs EXCEPT ![k] = @ - 1] /\ UNCHANGED <<route, registered>>
    ELSE /\ refs' = [refs EXCEPT ![k] = 0]
         /\ route' = [route EXCEPT ![k] = None]
         /\ registered' = [registered EXCEPT ![k[2]] = None]

UnregisterRemote_FirstLeaverClears(k) ==
    /\ refs' = [refs EXCEPT ![k] = 0]
    /\ route' = [route EXCEPT ![k] = None]
    /\ registered' = IF IsBoundRemoteId(route', k[2]) THEN registered
                     ELSE [registered EXCEPT ![k[2]] = None]

UnregisterRemote(k) ==
    IF refs[k] > 1
    THEN refs' = [refs EXCEPT ![k] = @ - 1] /\ UNCHANGED <<route, registered>>
    ELSE /\ refs' = [refs EXCEPT ![k] = 0]
         /\ route' = [route EXCEPT ![k] = None]
         /\ registered' = IF IsBoundRemoteId(route', k[2]) THEN registered
                          ELSE [registered EXCEPT ![k[2]] = None]

HoldsRemote(m) == m \in Timed /\ binding[m] # None

(* async_added_to_hass of the cover: the motor, then its remote. *)
CoverAdded(m) ==
    LET known == [registered EXCEPT ![m] = m] IN
    /\ <<"cover", m>> \notin live
    /\ live' = live \cup {<<"cover", m>>}
    /\ IF HoldsRemote(m) THEN RegisterRemote(binding[m], m, known)
       ELSE registered' = known /\ UNCHANGED <<route, refs>>
    /\ UNCHANGED binding

(* event.py creates the entity for timed motors with a remote only. *)
EventAdded(m) ==
    /\ HoldsRemote(m) /\ <<"event", m>> \notin live
    /\ live' = live \cup {<<"event", m>>}
    /\ RegisterRemote(binding[m], m, registered)
    /\ UNCHANGED binding

(* The on_remove callback; the motor's own id stays registered. *)
Removed(kind, m) ==
    /\ <<kind, m>> \in live
    /\ live' = live \ {<<kind, m>>}
    /\ IF HoldsRemote(m) THEN UnregisterRemote(binding[m])
       ELSE UNCHANGED <<route, refs, registered>>
    /\ UNCHANGED binding

RegistryNext ==
    \E m \in Motor : \/ CoverAdded(m) \/ EventAdded(m)
                     \/ \E kind \in Kind : Removed(kind, m)

RegistrySpec == RegistryInit /\ [][RegistryNext]_regVars

-----------------------------------------------------------------------------
(* Lookups *)

IsRegisteredMotor(d) == registered[d] # None /\ ~IsBoundRemoteId(route, d)

(* bound_motor_for(), and the lookup before Gate 3. *)
BoundMotorFor_WildcardFirst(e, r) ==
    IF route[<<None, r>>] # None THEN route[<<None, r>>] ELSE route[<<e, r>>]

BoundMotorFor(e, r) ==
    IF route[<<e, r>>] # None THEN route[<<e, r>>] ELSE route[<<None, r>>]

-----------------------------------------------------------------------------
(* The reference count of a channel is the number of entities alive that   *)
(* registered it, whatever order they came and went in (Phase 13 D-04).    *)
RefCountExact == \A k \in Key : refs[k] = Cardinality(Holders(k))

(* A channel has a route exactly while an entity holds it, and the route   *)
(* leads to a motor bound to that very channel: the first of a motor's two *)
(* entities to go does not unbind the remote of the other.                 *)
RouteWhileHeld ==
    \A k \in Key :
        /\ route[k] # None <=> Holders(k) # {}
        /\ route[k] # None => route[k] \in Timed /\ binding[route[k]] = k

(* A remote is known exactly while some channel of it is routed: its last  *)
(* channel leaving makes it a stranger, a sibling leaving does not.        *)
KnownWhileRouted ==
    \A r \in Remote : registered[r] # None <=> IsBoundRemoteId(route, r)

(* What the gates read matches the entities that are alive. *)
RegistryExact == RouteWhileHeld /\ KnownWhileRouted

(* A channel bound to a motor of its own is never routed elsewhere by the  *)
(* enum-agnostic bind of another motor (the v1.3 upgrade, Plan 17-05).     *)
ChannelWins ==
    \A e \in Channel, r \in Remote :
        Holders(<<e, r>>) # {} => binding[BoundMotorFor(e, r)] = <<e, r>>
=============================================================================
