------------------------ MODULE RemoteRegistryProofs ------------------------
(***************************************************************************)
(* Proofs about RemoteRegistry, for all motors, remotes, channels and      *)
(* bindings, those that bind one channel to several motors included.       *)
(***************************************************************************)
EXTENDS RemoteRegistry, FiniteSetTheorems, TLAPS

RInv == RegistryTypeOK /\ RefCountExact /\ RouteWhileHeld /\ KnownWhileRouted

LEMMA HoldersFinite ==
  ASSUME RegistryTypeOK, NEW k \in Key
  PROVE  IsFiniteSet(Holders(k)) /\ Cardinality(Holders(k)) \in Nat
<1>1. IsFiniteSet(Kind)
  <2>1. IsFiniteSet({"cover"})
    BY FS_Singleton
  <2>2. Kind = {"cover"} \cup {"event"}
    BY DEF Kind
  <2> QED
    BY <2>1, <2>2, FS_AddElement
<1>2. IsFiniteSet(Kind \X Motor)
  BY <1>1, FS_Product, RegistryAssumption
<1>3. Holders(k) \subseteq Kind \X Motor
  BY DEF Holders, RegistryTypeOK
<1> QED
  BY <1>2, <1>3, FS_Subset, FS_CardinalityType

(* An entity that holds no remote leaves the holders as they are. *)
LEMMA HoldersUntouched ==
  ASSUME RegistryTypeOK, NEW kind \in Kind, NEW m \in Motor, ~HoldsRemote(m),
         live' \in {live \cup {<<kind, m>>}, live \ {<<kind, m>>}},
         UNCHANGED binding, NEW k \in Key
  PROVE  Holders(k)' = Holders(k)
<1>1. ~(m \in Timed /\ binding[m] = k)
  BY RegistryAssumption DEF HoldsRemote
<1> QED
  BY <1>1 DEF Holders

LEMMA RInvInit == RegistryInit => RInv
<1> SUFFICES ASSUME RegistryInit PROVE RInv
  OBVIOUS
<1>1. RegistryTypeOK
  BY RegistryAssumption DEF RegistryInit, RegistryTypeOK
<1>2. \A k \in Key : Holders(k) = {}
  BY DEF RegistryInit, Holders
<1>3. RefCountExact
  BY <1>2, FS_EmptySet DEF RegistryInit, RefCountExact
<1>4. RouteWhileHeld
  BY <1>2 DEF RegistryInit, RouteWhileHeld
<1>5. KnownWhileRouted
  BY DEF RegistryInit, KnownWhileRouted, IsBoundRemoteId, Device
<1> QED
  BY <1>1, <1>3, <1>4, <1>5 DEF RInv

(* An entity that registers its remote. *)
LEMMA Joins ==
  ASSUME RInv, NEW kind \in Kind, NEW m \in Motor, HoldsRemote(m),
         NEW known \in [Device -> Motor \cup {None}],
         \A r \in Remote : known[r] = registered[r],
         <<kind, m>> \notin live, live' = live \cup {<<kind, m>>},
         RegisterRemote(binding[m], m, known), UNCHANGED binding
  PROVE  RInv'
<1> DEFINE key == binding[m]
<1>1. key \in Key /\ m \in Timed /\ m # None /\ key[2] \in Remote
  BY RegistryAssumption DEF RInv, RegistryTypeOK, HoldsRemote, Key
<1>2. RegistryTypeOK'
  BY <1>1 DEF RInv, RegistryTypeOK, RegisterRemote, Device
<1>3. ASSUME NEW k \in Key
      PROVE  Holders(k)' = IF k = key THEN Holders(k) \cup {<<kind, m>>} ELSE Holders(k)
  BY <1>1 DEF Holders
<1>4. ASSUME NEW k \in Key PROVE refs'[k] = Cardinality(Holders(k)')
  <2>1. CASE k = key
    <3>1. <<kind, m>> \notin Holders(k) /\ IsFiniteSet(Holders(k))
      BY HoldersFinite DEF Holders, RInv
    <3>2. Cardinality(Holders(k)') = Cardinality(Holders(k)) + 1
      BY <1>3, <2>1, <3>1, FS_AddElement
    <3> QED
      BY <1>1, <2>1, <3>2 DEF RInv, RefCountExact, RegistryTypeOK, RegisterRemote
  <2>2. CASE k # key
    BY <1>3, <2>2 DEF RInv, RefCountExact, RegistryTypeOK, RegisterRemote
  <2> QED
    BY <2>1, <2>2
<1>5. RouteWhileHeld'
  <2>1. ASSUME NEW k \in Key
        PROVE  route'[k] = IF k = key THEN m ELSE route[k]
    BY <1>1 DEF RInv, RegistryTypeOK, RegisterRemote
  <2> QED
    BY <1>1, <1>3, <2>1 DEF RInv, RouteWhileHeld
<1>6. KnownWhileRouted'
  <2>1. \A k \in Key : route'[k] = IF k = key THEN m ELSE route[k]
    BY <1>1 DEF RInv, RegistryTypeOK, RegisterRemote
  <2>2. \A r \in Remote : registered'[r] = IF r = key[2] THEN m ELSE registered[r]
    BY <1>1 DEF RegisterRemote, Device
  <2> QED
    BY <1>1, <2>1, <2>2 DEF RInv, KnownWhileRouted, IsBoundRemoteId
<1> QED
  BY <1>2, <1>4, <1>5, <1>6 DEF RInv, RefCountExact

(* An entity that unregisters it. *)
LEMMA Leaves ==
  ASSUME RInv, NEW kind \in Kind, NEW m \in Motor, HoldsRemote(m),
         <<kind, m>> \in live, live' = live \ {<<kind, m>>},
         UnregisterRemote(binding[m]), UNCHANGED binding
  PROVE  RInv'
<1> DEFINE key == binding[m]
           h == <<kind, m>>
<1>1. key \in Key /\ m \in Timed /\ key[2] \in Remote
  BY RegistryAssumption DEF RInv, RegistryTypeOK, HoldsRemote, Key
<1>2. RegistryTypeOK'
  BY <1>1 DEF RInv, RegistryTypeOK, UnregisterRemote, Device
<1>3. ASSUME NEW k \in Key
      PROVE  Holders(k)' = IF k = key THEN Holders(k) \ {h} ELSE Holders(k)
  BY <1>1 DEF Holders
<1>4. /\ h \in Holders(key) /\ IsFiniteSet(Holders(key))
      /\ refs[key] = Cardinality(Holders(key)) /\ refs[key] \in Nat
  BY <1>1, HoldersFinite DEF Holders, RInv, RefCountExact, RegistryTypeOK
<1>5. /\ IsFiniteSet(Holders(key) \ {h})
      /\ Cardinality(Holders(key) \ {h}) = refs[key] - 1
  BY <1>4, FS_RemoveElement
<1>6. refs[key] > 0
  BY <1>4, FS_EmptySet
<1>7. Holders(key) \ {h} = {} <=> refs[key] = 1
  BY <1>4, <1>5, <1>6, FS_EmptySet
<1>8. \A k \in Key : refs'[k] = IF k = key THEN refs[k] - 1 ELSE refs[k]
  BY <1>1, <1>4, <1>6 DEF UnregisterRemote, RInv, RegistryTypeOK
<1>9. RefCountExact'
  BY <1>1, <1>3, <1>5, <1>8 DEF RInv, RefCountExact
<1>10. CASE refs[key] > 1
  <2>1. UNCHANGED <<route, registered>>
    BY <1>10 DEF UnregisterRemote
  <2>2. Holders(key) \ {h} # {} /\ Holders(key) # {}
    BY <1>7, <1>10, <1>4
  <2>3. RouteWhileHeld' /\ KnownWhileRouted'
    BY <1>3, <2>1, <2>2
    DEF RInv, RouteWhileHeld, KnownWhileRouted, IsBoundRemoteId
  <2> QED
    BY <1>2, <1>9, <2>3 DEF RInv
<1>11. CASE ~(refs[key] > 1)
  <2>1. Holders(key) \ {h} = {}
    BY <1>4, <1>6, <1>7, <1>11
  <2>2. \A k \in Key : route'[k] = IF k = key THEN None ELSE route[k]
    BY <1>1, <1>11 DEF UnregisterRemote, RInv, RegistryTypeOK
  <2>3. RouteWhileHeld'
    BY <1>3, <2>1, <2>2, RegistryAssumption DEF RInv, RouteWhileHeld
  <2>4. ASSUME NEW r \in Remote
        PROVE  registered'[r] # None <=> IsBoundRemoteId(route', r)
    <3>1. CASE r # key[2]
      <4>1. registered'[r] = registered[r]
        BY <1>1, <1>11, <3>1 DEF UnregisterRemote, RInv, RegistryTypeOK, Device
      <4>2. IsBoundRemoteId(route', r) <=> IsBoundRemoteId(route, r)
        BY <2>2, <3>1 DEF IsBoundRemoteId
      <4> QED
        BY <4>1, <4>2 DEF RInv, KnownWhileRouted
    <3>2. CASE r = key[2] /\ IsBoundRemoteId(route', r)
      <4>1. registered' = registered
        BY <1>11, <3>2 DEF UnregisterRemote
      <4>2. IsBoundRemoteId(route, r)
        BY <2>2, <3>2 DEF IsBoundRemoteId
      <4> QED
        BY <3>2, <4>1, <4>2 DEF RInv, KnownWhileRouted
    <3>3. CASE r = key[2] /\ ~IsBoundRemoteId(route', r)
      BY <1>1, <1>11, <3>3 DEF UnregisterRemote, RInv, RegistryTypeOK, Device
    <3> QED
      BY <3>1, <3>2, <3>3
  <2> QED
    BY <1>2, <1>9, <2>3, <2>4 DEF RInv, KnownWhileRouted
<1> QED
  BY <1>10, <1>11

LEMMA RInvStep == RInv /\ [RegistryNext]_regVars => RInv'
<1> SUFFICES ASSUME RInv, [RegistryNext]_regVars PROVE RInv'
  OBVIOUS
<1>1. ASSUME NEW m \in Motor, CoverAdded(m) PROVE RInv'
  <2> DEFINE known == [registered EXCEPT ![m] = m]
  <2>1. /\ known \in [Device -> Motor \cup {None}]
        /\ \A r \in Remote : known[r] = registered[r]
    BY RegistryAssumption DEF RInv, RegistryTypeOK, Device
  <2>2. CASE HoldsRemote(m)
    BY <1>1, <2>1, <2>2, Joins DEF CoverAdded, Kind
  <2>3. CASE ~HoldsRemote(m)
    <3>1. registered' = known /\ UNCHANGED <<route, refs, binding>>
      BY <1>1, <2>3 DEF CoverAdded
    <3>2. \A k \in Key : Holders(k)' = Holders(k)
      BY <1>1, <2>3, HoldersUntouched DEF CoverAdded, Kind, RInv
    <3>3. RegistryTypeOK'
      BY <1>1, <2>1, <3>1 DEF RInv, RegistryTypeOK, CoverAdded, Kind
    <3> QED
      BY <2>1, <3>1, <3>2, <3>3
      DEF RInv, RefCountExact, RouteWhileHeld, KnownWhileRouted, IsBoundRemoteId
  <2> QED
    BY <2>2, <2>3
<1>2. ASSUME NEW m \in Motor, EventAdded(m) PROVE RInv'
  BY <1>2, Joins DEF EventAdded, Kind, RInv, RegistryTypeOK
<1>3. ASSUME NEW m \in Motor, NEW kind \in Kind, Removed(kind, m) PROVE RInv'
  <2>1. CASE HoldsRemote(m)
    BY <1>3, <2>1, Leaves DEF Removed
  <2>2. CASE ~HoldsRemote(m)
    <3>1. UNCHANGED <<route, refs, registered, binding>>
      BY <1>3, <2>2 DEF Removed
    <3>2. \A k \in Key : Holders(k)' = Holders(k)
      BY <1>3, <2>2, HoldersUntouched DEF Removed, RInv
    <3>3. RegistryTypeOK'
      BY <1>3, <3>1 DEF RInv, RegistryTypeOK, Removed
    <3> QED
      BY <3>1, <3>2, <3>3
      DEF RInv, RefCountExact, RouteWhileHeld, KnownWhileRouted, IsBoundRemoteId
  <2> QED
    BY <2>1, <2>2
<1>4. CASE UNCHANGED regVars
  BY <1>4 DEF regVars, RInv, RegistryTypeOK, RefCountExact, RouteWhileHeld,
              KnownWhileRouted, IsBoundRemoteId, Holders
<1> QED
  BY <1>1, <1>2, <1>3, <1>4 DEF RegistryNext

THEOREM RegistryInductive == RegistrySpec => []RInv
<1> QED
  BY RInvInit, RInvStep, PTL DEF RegistrySpec

(* Type correctness of the three dicts. *)
THEOREM RegistryTypeCorrect == RegistrySpec => []RegistryTypeOK
<1>1. RInv => RegistryTypeOK
  BY DEF RInv
<1> QED
  BY <1>1, RegistryInductive, PTL

(* The reference count of a channel is the number of its holders alive.    *)
THEOREM CountsHolders == RegistrySpec => []RefCountExact
<1>1. RInv => RefCountExact
  BY DEF RInv
<1> QED
  BY <1>1, RegistryInductive, PTL

(* A channel is routed exactly while it is held, to a motor bound to it.   *)
THEOREM RoutesHolders == RegistrySpec => []RouteWhileHeld
<1>1. RInv => RouteWhileHeld
  BY DEF RInv
<1> QED
  BY <1>1, RegistryInductive, PTL

(* A remote is known exactly while some channel of it is routed.           *)
THEOREM KnowsRouted == RegistrySpec => []KnownWhileRouted
<1>1. RInv => KnownWhileRouted
  BY DEF RInv
<1> QED
  BY <1>1, RegistryInductive, PTL

(* Together: what the gates read matches the entities that are alive.      *)
THEOREM RegistryStaysExact == RegistrySpec => []RegistryExact
<1>1. RInv => RegistryExact
  BY DEF RInv, RegistryExact
<1> QED
  BY <1>1, RegistryInductive, PTL

(* No enum-agnostic bind takes the presses of a channel bound by itself.   *)
THEOREM ChannelBeatsWildcard == RegistrySpec => []ChannelWins
<1>1. RouteWhileHeld => ChannelWins
  <2> SUFFICES ASSUME RouteWhileHeld, NEW e \in Channel, NEW r \in Remote,
                      Holders(<<e, r>>) # {}
               PROVE  binding[BoundMotorFor(e, r)] = <<e, r>>
    BY DEF ChannelWins
  <2>1. <<e, r>> \in Key
    BY DEF Key
  <2> QED
    BY <2>1 DEF RouteWhileHeld, BoundMotorFor
<1> QED
  BY <1>1, RoutesHolders, PTL
=============================================================================
