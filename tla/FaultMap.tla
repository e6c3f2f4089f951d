------------------------------ MODULE FaultMap ------------------------------
(***************************************************************************)
(* Which fault bits a pump has: the optional registers 2007..2009 of       *)
(* protocol.py, the choice of the fault map in binary_sensor.py with its   *)
(* one reload when the map becomes known, and the fault entities that      *)
(* remain in Home Assistant's registry, over reloads and restarts.         *)
(*                                                                         *)
(* A pump is an iSaver, or a Modbus pump that refuses the registers, that  *)
(* reports a V1.5 mode code, or that reports another.  Every exchange may  *)
(* fail for a while.  A unit of time is longer than an exchange.           *)
(***************************************************************************)
EXTENDS Naturals

CONSTANTS
    Retry,        \* units of time before failed registers are asked again
    MaxReloads,   \* bound: reloads a user has waiting at a time
    None

ASSUME FaultMapAssumption ==
    Retry \in Nat \ {0} /\ MaxReloads \in Nat
    /\ None \notin {"isaver", "modbus", "legacy", "v15", "union", "unread", "other"}

VARIABLES
    pump,       \* what is connected
    stored,     \* the protocol in the entry's data
    registry,   \* the kinds of fault entities in the entity registry
    reloads,    \* reloads of the entry that were asked for
    phase,      \* "off", "setup" (first refresh), "refreshed", "loaded"
    protocol,   \* client.protocol
    extended,   \* client._extended_modbus_supported
    retryIn,    \* client._extended_modbus_retry_after - now
    reading,    \* the exchange in progress: "no", "status", "extended"
    mode,       \* coordinator.data: None, or its mode_code
    map,        \* the fault entities that were added
    seen,       \* their _v15_seen
    scheduled   \* reload_scheduled

kept == <<pump, stored, registry>>
client == <<protocol, extended, retryIn>>
entities == <<map, seen, scheduled>>
vars == <<kept, reloads, phase, client, reading, mode, entities>>

Pumps == {"isaver", "legacy", "v15", "other"}

ProtocolOf(p) == IF p = "isaver" THEN "isaver" ELSE "modbus"

\* The fault maps as kinds of faults: what only one of the two Modbus maps has,
\* and what is in both, if at another bit.
Keys == [isaver |-> {"isaver"}, legacy |-> {"legacy only", "both"},
         v15 |-> {"both", "v15 only"}, union |-> {"legacy only", "both", "v15 only"}]

\* Nothing set up: a new client, coordinator and entities for the next setup.
\* The entry may have been reconfigured for another pump of its protocol.
Down ==
    /\ pump' \in {p \in Pumps : ProtocolOf(p) = ProtocolOf(pump)}
    /\ phase' = "off" /\ reading' = "no" /\ mode' = None
    /\ protocol' = None /\ extended' = "unknown" /\ retryIn' = 0
    /\ map' = None /\ seen' = FALSE /\ scheduled' = FALSE

Init ==
    /\ pump \in Pumps
    /\ stored \in {None, ProtocolOf(pump)}
    /\ registry \in {{}, IF pump = "isaver" THEN Keys.isaver ELSE Keys.union}
    /\ reloads = 0
    /\ phase = "off" /\ reading = "no" /\ mode = None
    /\ protocol = None /\ extended = "unknown" /\ retryIn = 0
    /\ map = None /\ seen = FALSE /\ scheduled = FALSE

-----------------------------------------------------------------------------
\* Mutant: the fallback is the legacy map, not the union.
LegacyFallback(m, ext) == IF m = "v15" THEN "v15" ELSE "legacy"

\* _modbus_faults_for_setup; every choice but the union is definitive.
FaultsForSetup(m, ext) ==
    IF m = "v15" THEN "v15" ELSE IF ext = "refused" THEN "legacy" ELSE "union"

\* Mutant: the entities go by the last status alone.
SeenNow(m) == seen' = (m = "v15")

\* _active_bit, when the entities write their state: V1.5 bits from now on.
See(m) == seen' = (seen \/ m = "v15")

\* Mutant: the entry is never reloaded.
NoReload == UNCHANGED <<scheduled, reloads>>

\* _reload_when_fault_map_is_known, called with every status
ReloadWhenKnown ==
    IF map = "union" /\ ~scheduled /\ FaultsForSetup(mode', extended') # "union"
      THEN scheduled' = TRUE /\ reloads' = reloads + 1
      ELSE UNCHANGED <<scheduled, reloads>>

\* A refresh succeeds with a status that carries mode code m.  In the first one
\* the protocol is stored; later ones go to the listener and to the entities.
Publish(m) ==
    /\ reading' = "no" /\ mode' = m
    /\ protocol' = ProtocolOf(pump)
    /\ IF phase = "setup"
         THEN /\ phase' = "refreshed" /\ stored' = ProtocolOf(pump)
              /\ UNCHANGED <<seen, scheduled, reloads>>
         ELSE See(m) /\ ReloadWhenKnown /\ UNCHANGED <<phase, stored>>
    /\ UNCHANGED <<pump, registry, map>>

\* async_setup_entry up to the first refresh
Setup ==
    /\ phase = "off"
    /\ phase' = "setup" /\ reading' = "status" /\ protocol' = stored
    /\ UNCHANGED <<kept, reloads, extended, retryIn, mode, entities>>

StartRefresh ==
    /\ phase = "loaded" /\ reading = "no"
    /\ reading' = "status"
    /\ UNCHANGED <<kept, reloads, phase, client, mode, entities>>

\* No answer to the status request, or no signature found: the old data stays,
\* and a setup goes on without any.
StatusFails ==
    /\ reading = "status"
    /\ reading' = "no"
    /\ phase' = IF phase = "setup" THEN "refreshed" ELSE phase
    /\ UNCHANGED <<kept, reloads, client, mode, entities>>

\* The status of a Modbus pump is followed by the extended registers, unless
\* they were refused or failed a short time ago.
StatusAnswers ==
    /\ reading = "status"
    /\ UNCHANGED <<extended, retryIn>>
    /\ IF ProtocolOf(pump) = "modbus" /\ extended # "refused" /\ retryIn = 0
         THEN /\ reading' = "extended"
              /\ UNCHANGED <<kept, reloads, phase, protocol, mode, entities>>
         ELSE Publish("unread")

\* Illegal function or address: never asked again by this client.
ExtendedRefused ==
    /\ reading = "extended" /\ pump = "legacy"
    /\ extended' = "refused"
    /\ Publish("unread")
    /\ UNCHANGED retryIn

\* Mutant: whatever goes wrong disables the registers.
DisableExtended ==
    /\ reading = "extended"
    /\ extended' = "refused"
    /\ Publish("unread")
    /\ UNCHANGED retryIn

\* Any other failure: the status counts, the registers are retried later.
ExtendedFails ==
    /\ reading = "extended"
    /\ retryIn' = Retry
    /\ UNCHANGED extended
    /\ Publish("unread")

ExtendedAnswers ==
    /\ reading = "extended" /\ pump \in {"v15", "other"}
    /\ extended' = "supported" /\ retryIn' = 0
    /\ Publish(pump)

\* Mutant: entities of a map that is no longer used stay registered.
KeepInactive(active) == registry

\* _remove_inactive_modbus_registry_entities
RemoveInactive(active) == registry \ (Keys.union \ Keys[active])

\* The binary sensors are set up and write their first state.  An entry whose
\* protocol is still unknown is taken for a Modbus pump.
SetupFaults ==
    /\ phase = "refreshed" /\ phase' = "loaded"
    /\ map' = IF protocol = "isaver" THEN "isaver" ELSE FaultsForSetup(mode, extended)
    /\ registry' = Keys[map'] \cup
                   IF map' \in {"legacy", "v15"} THEN RemoveInactive(map') ELSE registry
    /\ See(mode)
    /\ UNCHANGED <<pump, stored, reloads, client, reading, mode, scheduled>>

\* Options were changed, or the user reloads the entry.
AskReload ==
    /\ phase = "loaded" /\ reloads < MaxReloads
    /\ reloads' = reloads + 1
    /\ UNCHANGED <<kept, phase, client, reading, mode, entities>>

\* async_reload: one at a time, here up to the unload.
Reload ==
    /\ phase = "loaded" /\ reloads > 0
    /\ reloads' = reloads - 1
    /\ Down
    /\ UNCHANGED <<stored, registry>>

Restart ==
    /\ phase # "off"
    /\ reloads' = 0
    /\ Down
    /\ UNCHANGED <<stored, registry>>

Tick ==
    /\ reading = "no" /\ retryIn > 0
    /\ retryIn' = retryIn - 1
    /\ UNCHANGED <<kept, reloads, phase, protocol, extended, reading, mode, entities>>

ExchangeEnds ==
    \/ StatusFails \/ StatusAnswers
    \/ ExtendedRefused \/ ExtendedFails \/ ExtendedAnswers

Next ==
    \/ Setup \/ SetupFaults \/ StartRefresh \/ ExchangeEnds
    \/ AskReload \/ Reload \/ Restart \/ Tick

Spec == Init /\ [][Next]_vars

\* The event loop finishes what it began, polls go on and time passes.  Nothing
\* is assumed of the answers or of the user.
Fairness ==
    /\ WF_vars(Setup) /\ WF_vars(SetupFaults) /\ WF_vars(Reload)
    /\ WF_vars(StartRefresh) /\ WF_vars(ExchangeEnds) /\ WF_vars(Tick)

FairSpec == Spec /\ Fairness

-----------------------------------------------------------------------------
Maps == {"isaver", "legacy", "v15", "union"}

\* The map that a pump should come to have.
MapOf(p) == IF p = "other" THEN "union" ELSE p

TypeOK ==
    /\ pump \in Pumps
    /\ stored \in {None, "isaver", "modbus"}
    /\ registry \subseteq Keys.isaver \cup Keys.union
    /\ reloads \in 0..(MaxReloads + 1)
    /\ phase \in {"off", "setup", "refreshed", "loaded"}
    /\ protocol \in {None, "isaver", "modbus"}
    /\ extended \in {"unknown", "supported", "refused"}
    /\ retryIn \in 0..Retry
    /\ reading \in {"no", "status", "extended"}
    /\ mode \in {None, "unread", "v15", "other"}
    /\ map \in Maps \cup {None}
    /\ seen \in BOOLEAN /\ scheduled \in BOOLEAN

\* What was learned of the pump is true, and is at hand when it is needed.
Learned ==
    /\ {stored, protocol} \subseteq {None, ProtocolOf(pump)}
    /\ extended = "refused" => pump = "legacy"
    /\ extended = "supported" => pump \in {"v15", "other"}
    /\ reading = "extended" => pump # "isaver" /\ extended # "refused"
    /\ mode = "v15" \/ seen => pump = "v15"
    /\ phase \in {"off", "setup"} => mode = None /\ extended = "unknown" /\ retryIn = 0
    /\ phase = "setup" => reading # "no"
    /\ phase \in {"off", "refreshed"} => reading = "no"
    /\ phase # "loaded" => map = None /\ ~scheduled /\ ~seen
    /\ phase = "refreshed" /\ extended = "supported" => mode = pump
    /\ scheduled => map = "union"
    /\ ~scheduled => reloads <= MaxReloads

\* A map that is called definitive is that of the pump.
RightMap == map \in {"isaver", "legacy", "v15"} => map = MapOf(pump)

\* "V1.5 detection is remembered through temporary extended-register read
\* failures" (docs/ALPHA_0.4.0.md), within one setup: when the registers of a
\* V1.5 pump were read once, its fault bits are read by the V1.5 map.
BitsRemembered ==
    phase = "loaded" /\ pump = "v15" /\ extended = "supported" => seen

\* With a definitive map no entity of another Modbus map stays registered, from
\* whatever setup, unavailable for good.
RegistryIsCurrent ==
    phase = "loaded" /\ map \in {"legacy", "v15"} => registry \cap Keys.union = Keys[map]

\* Reloads, restarts, failed reads and other pumps in any order never remove an entity of the
\* pump's own map, with the name and the history the user knows it by.
OwnFaultsKept ==
    [][registry \cap Keys[MapOf(pump)] \subseteq registry']_vars

IInv == TypeOK /\ Learned /\ RightMap /\ BitsRemembered /\ RegistryIsCurrent

Disturbance ==
    StatusFails \/ ExtendedFails \/ AskReload \/ Restart

\* When reads stop to fail, the map becomes the pump's and the reloads end.  The
\* exception is an iSaver of before 0.4 that did not answer its first refresh:
\* it keeps the Modbus faults until someone reloads it.
MapSettles ==
    <>[][~Disturbance]_vars =>
        <>[](/\ phase = "loaded" /\ reloads = 0
             /\ map = MapOf(pump) \/ (pump = "isaver" /\ stored = None)
             /\ pump = "v15" => seen)
=============================================================================
