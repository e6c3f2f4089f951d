--------------------------- MODULE FaultMap_proofs ---------------------------
(***************************************************************************)
(* Proofs about the fault map, for any retry time and number of reloads.   *)
(***************************************************************************)
EXTENDS FaultMap, TLAPS

\* What the four maps consist of.
LEMMA KeyFacts ==
  /\ Keys["isaver"] = {"isaver"} /\ Keys["legacy"] = {"legacy only", "both"}
  /\ Keys["v15"] = {"both", "v15 only"}
  /\ Keys.union = {"legacy only", "both", "v15 only"}
  /\ Keys.isaver = {"isaver"} /\ Keys["union"] = {"legacy only", "both", "v15 only"}
  BY DEF Keys

\* A map that is chosen as definitive is the pump's, the union is everyone's.
LEMMA ChosenMap ==
  ASSUME IInv, phase = "refreshed",
         NEW m, m = IF protocol = "isaver" THEN "isaver" ELSE FaultsForSetup(mode, extended)
  PROVE  /\ m \in Maps
         /\ m \in {"isaver", "legacy", "v15"} => m = MapOf(pump)
         /\ m = "isaver" => pump = "isaver"
  BY FaultMapAssumption
     DEF IInv, TypeOK, Learned, FaultsForSetup, Maps, MapOf, ProtocolOf, Pumps

\* Nothing is set up yet: the invariant holds.
LEMMA InitIInv == Init => IInv
<1> SUFFICES ASSUME Init
             PROVE  IInv
  OBVIOUS
<1>1. TypeOK
  <2>1. 0 \in 0..Retry /\ 0 \in 0..(MaxReloads + 1)
    BY FaultMapAssumption
  <2>2. registry \subseteq Keys.isaver \cup Keys.union
    BY DEF Init
  <2>3. stored \in {None, "isaver", "modbus"}
    BY DEF Init, ProtocolOf
  <2> QED
    BY <2>1, <2>2, <2>3 DEF Init, TypeOK
<1>2. Learned /\ RightMap /\ BitsRemembered /\ RegistryIsCurrent
  BY FaultMapAssumption
     DEF Init, Learned, RightMap, BitsRemembered, RegistryIsCurrent, Pumps, ProtocolOf
<1> QED
  BY <1>1, <1>2 DEF IInv

\* A status is published: in a setup it is kept for the platforms, later the
\* entities see it.  The caller says what was learned with it.
LEMMA PublishKeeps ==
  ASSUME IInv, NEW m \in {"unread", "v15", "other"}, Publish(m),
         reading # "no", phase \in {"setup", "loaded"},
         extended' \in {"unknown", "supported", "refused"}, retryIn' \in 0..Retry,
         m = "v15" => pump = "v15",
         extended' = "refused" => pump = "legacy",
         extended' = "supported" => pump \in {"v15", "other"},
         extended' = "supported" => m = pump \/ extended = "supported"
  PROVE  IInv'
<1>1. /\ reading' = "no" /\ mode' = m /\ protocol' = ProtocolOf(pump)
      /\ pump' = pump /\ registry' = registry /\ map' = map
  BY DEF Publish
<1>2. MaxReloads \in Nat /\ reloads \in 0..(MaxReloads + 1)
  BY FaultMapAssumption DEF IInv, TypeOK
<1>3. CASE phase = "setup"
  <2>1. /\ phase' = "refreshed" /\ stored' = ProtocolOf(pump)
        /\ seen' = seen /\ scheduled' = scheduled /\ reloads' = reloads
    BY <1>3 DEF Publish
  <2>2. TypeOK'
    BY <1>1, <2>1 DEF IInv, TypeOK, ProtocolOf
  <2>3. Learned'
    BY <1>1, <1>3, <2>1 DEF IInv, Learned, TypeOK, ProtocolOf
  <2>4. RightMap' /\ BitsRemembered' /\ RegistryIsCurrent'
    BY <1>1, <2>1 DEF IInv, RightMap, BitsRemembered, RegistryIsCurrent, MapOf
  <2> QED
    BY <2>2, <2>3, <2>4 DEF IInv
<1>4. CASE phase = "loaded"
  <2>1. /\ phase' = "loaded" /\ stored' = stored
        /\ seen' = (seen \/ m = "v15")
        /\ ReloadWhenKnown
    BY <1>4 DEF Publish, See
  <2>2. seen' \in BOOLEAN
    BY <2>1, Zenon
  <2>3. /\ scheduled' \in BOOLEAN /\ (scheduled' => map = "union")
        /\ reloads' = reloads \/ (~scheduled /\ scheduled' /\ reloads' = reloads + 1)
    BY <2>1 DEF ReloadWhenKnown, IInv, TypeOK, Learned
  <2>4. reloads' \in 0..(MaxReloads + 1) /\ (~scheduled' => reloads' <= MaxReloads)
    BY <1>2, <2>1, <2>3 DEF ReloadWhenKnown, IInv, Learned
  <2>5. TypeOK'
    BY <1>1, <2>1, <2>2, <2>3, <2>4 DEF IInv, TypeOK, ProtocolOf
  <2>6. Learned'
    BY <1>1, <1>4, <2>1, <2>3, <2>4 DEF IInv, Learned, TypeOK, ProtocolOf
  <2>7. RightMap' /\ RegistryIsCurrent'
    BY <1>1, <1>4, <2>1 DEF IInv, RightMap, RegistryIsCurrent, MapOf
  <2>8. BitsRemembered'
    BY <1>1, <1>4, <2>1 DEF IInv, BitsRemembered
  <2> QED
    BY <2>5, <2>6, <2>7, <2>8 DEF IInv
<1> QED
  BY <1>3, <1>4

\* The exchanges of a refresh.
LEMMA ExchangeKeeps ==
  ASSUME IInv, ExchangeEnds
  PROVE  IInv'
<1>1. /\ Retry \in Nat \ {0} /\ 0 \in 0..Retry /\ Retry \in 0..Retry
      /\ retryIn \in 0..Retry /\ extended \in {"unknown", "supported", "refused"}
  BY FaultMapAssumption DEF IInv, TypeOK
<1>2. /\ reading # "no" => phase \in {"setup", "loaded"}
      /\ extended = "refused" => pump = "legacy"
      /\ extended = "supported" => pump \in {"v15", "other"}
  BY DEF IInv, TypeOK, Learned
<1>3. CASE StatusFails
  <2>1. /\ reading = "status" /\ reading' = "no"
        /\ phase' = IF phase = "setup" THEN "refreshed" ELSE phase
        /\ pump' = pump /\ stored' = stored /\ registry' = registry /\ reloads' = reloads
        /\ protocol' = protocol /\ extended' = extended /\ retryIn' = retryIn
        /\ mode' = mode /\ map' = map /\ seen' = seen /\ scheduled' = scheduled
    BY <1>3 DEF StatusFails, kept, client, entities
  <2>2. TypeOK' /\ Learned'
    BY <2>1 DEF IInv, TypeOK, Learned
  <2>3. RightMap' /\ BitsRemembered' /\ RegistryIsCurrent'
    BY <2>1 DEF IInv, RightMap, BitsRemembered, RegistryIsCurrent, MapOf
  <2> QED
    BY <2>2, <2>3 DEF IInv
<1>4. CASE StatusAnswers
  <2>1. CASE Publish("unread")
    <3>1. reading = "status" /\ extended' = extended /\ retryIn' = retryIn
      BY <1>4 DEF StatusAnswers
    <3> QED
      BY <1>1, <1>2, <2>1, <3>1, PublishKeeps
  <2>2. CASE /\ ProtocolOf(pump) = "modbus" /\ extended # "refused"
             /\ reading' = "extended"
             /\ UNCHANGED <<kept, reloads, phase, protocol, mode, entities>>
    <3>1. /\ reading = "status" /\ extended' = extended /\ retryIn' = retryIn
          /\ pump' = pump /\ stored' = stored /\ registry' = registry /\ reloads' = reloads
          /\ protocol' = protocol /\ phase' = phase
          /\ mode' = mode /\ map' = map /\ seen' = seen /\ scheduled' = scheduled
      BY <1>4, <2>2 DEF StatusAnswers, kept, entities
    <3>2. pump # "isaver" /\ phase \in {"setup", "loaded"}
      BY <1>2, <2>2, <3>1 DEF ProtocolOf
    <3>3. TypeOK'
      BY <2>2, <3>1 DEF IInv, TypeOK
    <3>4. Learned'
      BY <2>2, <3>1, <3>2 DEF IInv, Learned
    <3>5. RightMap' /\ BitsRemembered' /\ RegistryIsCurrent'
      BY <3>1 DEF IInv, RightMap, BitsRemembered, RegistryIsCurrent, MapOf
    <3> QED
      BY <3>3, <3>4, <3>5 DEF IInv
  <2> QED
    BY <1>4, <2>1, <2>2 DEF StatusAnswers
<1>5. CASE ExtendedRefused
  BY <1>1, <1>2, <1>5, PublishKeeps DEF ExtendedRefused
<1>6. CASE ExtendedFails
  BY <1>1, <1>2, <1>6, PublishKeeps DEF ExtendedFails
<1>7. CASE ExtendedAnswers
  BY <1>1, <1>2, <1>7, PublishKeeps DEF ExtendedAnswers
<1> QED
  BY <1>3, <1>4, <1>5, <1>6, <1>7 DEF ExchangeEnds

\* The entities are chosen by what the first refresh learned.
LEMMA SetupFaultsKeeps ==
  ASSUME IInv, SetupFaults
  PROVE  IInv'
<1>1. /\ phase = "refreshed" /\ phase' = "loaded"
      /\ map' = IF protocol = "isaver" THEN "isaver" ELSE FaultsForSetup(mode, extended)
      /\ registry' = Keys[map'] \cup
                     IF map' \in {"legacy", "v15"} THEN RemoveInactive(map') ELSE registry
      /\ seen' = (seen \/ mode = "v15")
      /\ pump' = pump /\ stored' = stored /\ reloads' = reloads
      /\ protocol' = protocol /\ extended' = extended /\ retryIn' = retryIn
      /\ reading' = reading /\ mode' = mode /\ scheduled' = scheduled
  BY DEF SetupFaults, See, client
<1>2. /\ map' \in Maps
      /\ map' \in {"isaver", "legacy", "v15"} => map' = MapOf(pump)
      /\ map' = "isaver" => pump = "isaver"
  BY <1>1, ChosenMap
<1>3. seen' \in BOOLEAN /\ (seen' <=> mode = "v15")
  <2>1. seen = FALSE
    <3>1. phase # "loaded" => ~seen
      BY Zenon DEF IInv, Learned
    <3>2. seen \in BOOLEAN
      BY Zenon DEF IInv, TypeOK
    <3>3. phase # "loaded"
      BY <1>1
    <3> QED
      BY <3>1, <3>2, <3>3, Zenon
  <2>2. seen' = (mode = "v15")
    BY <1>1, <2>1, Zenon
  <2> QED
    BY <2>2, Zenon
<1>4. registry' \subseteq Keys.isaver \cup Keys.union
  BY <1>1, <1>2, KeyFacts DEF IInv, TypeOK, RemoveInactive, Maps
<1>5. TypeOK'
  BY <1>1, <1>2, <1>3, <1>4 DEF IInv, TypeOK
<1>6. Learned'
  BY <1>1, <1>3 DEF IInv, Learned
<1>7. RightMap'
  BY <1>1, <1>2 DEF RightMap, MapOf
<1>8. BitsRemembered'
  BY <1>1, <1>3 DEF IInv, Learned, BitsRemembered
<1>9. RegistryIsCurrent'
  BY <1>1, <1>4, KeyFacts DEF RegistryIsCurrent, RemoveInactive
<1> QED
  BY <1>5, <1>6, <1>7, <1>8, <1>9 DEF IInv

\* After an unload or a restart nothing is known but what is stored.
LEMMA DownKeeps ==
  ASSUME IInv, Down, UNCHANGED <<stored, registry>>, reloads' \in 0..MaxReloads
  PROVE  IInv'
<1>1. /\ pump' \in Pumps /\ ProtocolOf(pump') = ProtocolOf(pump)
      /\ phase' = "off" /\ reading' = "no" /\ mode' = None
      /\ protocol' = None /\ extended' = "unknown" /\ retryIn' = 0
      /\ map' = None /\ seen' = FALSE /\ scheduled' = FALSE
  BY DEF Down
<1>2. 0 \in 0..Retry /\ reloads' \in 0..(MaxReloads + 1) /\ reloads' <= MaxReloads
  BY FaultMapAssumption
<1>3. TypeOK'
  BY <1>1, <1>2 DEF IInv, TypeOK
<1>4. Learned'
  BY <1>1, <1>2, FaultMapAssumption DEF IInv, Learned, TypeOK
<1>5. RightMap' /\ BitsRemembered' /\ RegistryIsCurrent'
  BY <1>1, FaultMapAssumption DEF RightMap, BitsRemembered, RegistryIsCurrent
<1> QED
  BY <1>3, <1>4, <1>5 DEF IInv

\* A setup or a refresh begins, time passes, a reload is asked for.
LEMMA BeginKeeps ==
  ASSUME IInv, Setup \/ StartRefresh \/ Tick \/ AskReload
  PROVE  IInv'
<1>1. /\ pump' = pump /\ stored' = stored /\ registry' = registry
      /\ extended' = extended /\ mode' = mode
      /\ map' = map /\ seen' = seen /\ scheduled' = scheduled
  BY DEF Setup, StartRefresh, Tick, AskReload, kept, client, entities
<1>2. MaxReloads \in Nat /\ reloads \in 0..(MaxReloads + 1)
  BY FaultMapAssumption DEF IInv, TypeOK
<1>3. CASE Setup
  <2>1. /\ phase = "off" /\ phase' = "setup" /\ reading' = "status" /\ protocol' = stored
        /\ reloads' = reloads /\ retryIn' = retryIn
    BY <1>3 DEF Setup
  <2>2. TypeOK'
    BY <1>1, <2>1 DEF IInv, TypeOK
  <2>3. Learned'
    BY <1>1, <2>1 DEF IInv, Learned
  <2>4. RightMap' /\ BitsRemembered' /\ RegistryIsCurrent'
    BY <1>1, <2>1 DEF IInv, RightMap, BitsRemembered, RegistryIsCurrent, MapOf
  <2> QED
    BY <2>2, <2>3, <2>4 DEF IInv
<1>4. CASE StartRefresh
  <2>1. /\ phase = "loaded" /\ reading' = "status"
        /\ phase' = phase /\ protocol' = protocol /\ reloads' = reloads /\ retryIn' = retryIn
    BY <1>4 DEF StartRefresh, client
  <2>2. TypeOK' /\ Learned'
    BY <1>1, <2>1 DEF IInv, TypeOK, Learned
  <2>3. RightMap' /\ BitsRemembered' /\ RegistryIsCurrent'
    BY <1>1, <2>1 DEF IInv, RightMap, BitsRemembered, RegistryIsCurrent, MapOf
  <2> QED
    BY <2>2, <2>3 DEF IInv
<1>5. CASE Tick
  <2>1. /\ reading = "no" /\ retryIn > 0 /\ retryIn' = retryIn - 1
        /\ reading' = reading /\ phase' = phase /\ protocol' = protocol
        /\ reloads' = reloads
    BY <1>5 DEF Tick
  <2>2. retryIn' \in 0..Retry
    BY <2>1, FaultMapAssumption DEF IInv, TypeOK
  <2>3. TypeOK'
    BY <1>1, <2>1, <2>2 DEF IInv, TypeOK
  <2>4. Learned'
    BY <1>1, <2>1 DEF IInv, Learned
  <2>5. RightMap' /\ BitsRemembered' /\ RegistryIsCurrent'
    BY <1>1, <2>1 DEF IInv, RightMap, BitsRemembered, RegistryIsCurrent, MapOf
  <2> QED
    BY <2>3, <2>4, <2>5 DEF IInv
<1>6. CASE AskReload
  <2>1. /\ reloads < MaxReloads /\ reloads' = reloads + 1
        /\ phase' = phase /\ protocol' = protocol /\ retryIn' = retryIn
        /\ reading' = reading
    BY <1>6 DEF AskReload, client
  <2>2. reloads' \in 0..(MaxReloads + 1) /\ reloads' <= MaxReloads
    BY <1>2, <2>1
  <2>3. TypeOK'
    BY <1>1, <2>1, <2>2 DEF IInv, TypeOK
  <2>4. Learned'
    BY <1>1, <2>1, <2>2 DEF IInv, Learned
  <2>5. RightMap' /\ BitsRemembered' /\ RegistryIsCurrent'
    BY <1>1, <2>1 DEF IInv, RightMap, BitsRemembered, RegistryIsCurrent, MapOf
  <2> QED
    BY <2>3, <2>4, <2>5 DEF IInv
<1> QED
  BY <1>3, <1>4, <1>5, <1>6

\* Every step keeps the invariant.
LEMMA NextKeepsIInv == IInv /\ [Next]_vars => IInv'
<1> SUFFICES ASSUME IInv, [Next]_vars
             PROVE  IInv'
  OBVIOUS
<1>1. CASE Setup \/ StartRefresh \/ Tick \/ AskReload
  BY <1>1, BeginKeeps
<1>2. CASE ExchangeEnds
  BY <1>2, ExchangeKeeps
<1>3. CASE SetupFaults
  BY <1>3, SetupFaultsKeeps
<1>4. CASE Reload
  <2>1. reloads' \in 0..MaxReloads
    BY <1>4, FaultMapAssumption DEF Reload, IInv, TypeOK
  <2> QED
    BY <1>4, <2>1, DownKeeps DEF Reload
<1>5. CASE Restart
  <2>1. reloads' \in 0..MaxReloads
    BY <1>5, FaultMapAssumption DEF Restart
  <2> QED
    BY <1>5, <2>1, DownKeeps DEF Restart
<1>6. CASE UNCHANGED vars
  BY <1>6
     DEF vars, kept, client, entities, IInv, TypeOK, Learned, RightMap, BitsRemembered,
         RegistryIsCurrent, MapOf
<1> QED
  BY <1>1, <1>2, <1>3, <1>4, <1>5, <1>6 DEF Next

-----------------------------------------------------------------------------
\* What the client, the entities and the registry know of the pump holds always.
THEOREM InductiveInvariant == Spec => []IInv
  BY InitIInv, NextKeepsIInv, PTL DEF Spec

\* _v15_seen outlives every temporary failure of the extended registers.
THEOREM V15Remembered == Spec => []BitsRemembered
<1>1. IInv => BitsRemembered
  BY DEF IInv
<1> QED
  BY <1>1, InductiveInvariant, PTL

\* A definitive setup leaves the entities of its own map and no other.
THEOREM NoStaleEntities == Spec => []RegistryIsCurrent
<1>1. IInv => RegistryIsCurrent
  BY DEF IInv
<1> QED
  BY <1>1, InductiveInvariant, PTL

\* _remove_inactive_modbus_registry_entities never removes an entity of the
\* pump's own map, whatever failed before the choice.
THEOREM OwnEntitiesStay == Spec => OwnFaultsKept
<1>1. IInv /\ [Next]_vars =>
        [registry \cap Keys[MapOf(pump)] \subseteq registry']_vars
  <2> SUFFICES ASSUME IInv, Next
               PROVE  registry \cap Keys[MapOf(pump)] \subseteq registry'
    OBVIOUS
  <2>1. CASE SetupFaults
    <3>1. /\ phase = "refreshed"
          /\ map' = IF protocol = "isaver" THEN "isaver" ELSE FaultsForSetup(mode, extended)
          /\ registry' = Keys[map'] \cup
                IF map' \in {"legacy", "v15"} THEN RemoveInactive(map') ELSE registry
      BY <2>1 DEF SetupFaults
    <3>2. map' \in {"legacy", "v15"} => map' = MapOf(pump)
      BY <3>1, ChosenMap
    <3> QED
      BY <3>1, <3>2 DEF RemoveInactive
  <2>2. CASE ~SetupFaults
    <3>1. registry' = registry
      BY <2>2
         DEF Next, Setup, StartRefresh, Tick, AskReload, Reload, Restart, ExchangeEnds,
             StatusFails, StatusAnswers, ExtendedRefused, ExtendedFails, ExtendedAnswers,
             Publish, kept
    <3> QED
      BY <3>1
  <2> QED
    BY <2>1, <2>2
<1> QED
  BY <1>1, InductiveInvariant, PTL DEF Spec, OwnFaultsKept
=============================================================================
