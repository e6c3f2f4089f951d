----------------------------- MODULE ConfigFlow -----------------------------
(***************************************************************************)
(* AquagemConfigFlow of config_flow.py and the identity bookkeeping of     *)
(* __init__.py: which pumps the config entries stand for, with several     *)
(* flows open at a time and reloads on their way.                          *)
(*                                                                         *)
(* A pump is an endpoint, a protocol and, for Modbus, a unit.  A flow that *)
(* was submitted probes the pump, and a setup reads its status, which takes*)
(* as long as it takes; what they saw before may have changed when they go *)
(* on.                                                                     *)
(*                                                                         *)
(* Home Assistant's part: async_set_unique_id refuses the identity of      *)
(* another open flow; finishing a flow replaces an entry with the same     *)
(* unique id; updating an entry schedules its reload.                      *)
(***************************************************************************)
CONSTANTS
    EntryIds,         \* bound: config entries at a time
    Flows,            \* bound: flows open at a time
    TcpEndpoints, SerialPorts, Units,
    None

VARIABLES
    data,      \* [EntryIds -> pump or None], the entries' stored data
    uid,       \* [EntryIds -> pump or None], their unique_id
    reload,    \* the entries whose async_setup_entry is still to come
    client,    \* [EntryIds -> pump or None], the client of a setup in its first refresh
    flow,      \* [Flows -> [step, kind, pump, uid, entry]]
    \* history
    escaped,   \* entries that a check did not see (Unseen, Behind, Doubled)
    contested, \* serial ports that got an entry behind a check for the other protocol
    replaced   \* finishing a flow removed an entry that no check had missed

history == <<escaped, contested, replaced>>
vars == <<data, uid, reload, client, flow, history>>

Pumps(endpoints) ==
    [endpoint : endpoints, protocol : {"isaver"}, unit : {None}]
    \cup [endpoint : endpoints, protocol : {"modbus"}, unit : Units]

\* Before 0.4 an entry could be stored without its protocol.
Undetected == [endpoint : TcpEndpoints, protocol : {None}, unit : {None}]

AllPumps == Pumps(TcpEndpoints \cup SerialPorts) \cup Undetected

ASSUME EndpointAssumption ==
    /\ TcpEndpoints \cap SerialPorts = {}
    /\ None \notin AllPumps \cup EntryIds \cup Flows \cup {"isaver", "modbus"}

Entries == {e \in EntryIds : data[e] # None}

Closed == [step |-> "closed", kind |-> None, pump |-> None, uid |-> None, entry |-> None]

Init ==
    /\ \E old \in Undetected \cup {None}, e \in EntryIds :
         data = [x \in EntryIds |-> IF x = e THEN old ELSE None]
    /\ uid = data
    /\ reload = {e \in EntryIds : data[e] # None}
    /\ client = [e \in EntryIds |-> None]
    /\ flow = [f \in Flows |-> Closed]
    /\ escaped = {} /\ contested = {} /\ replaced = FALSE

-----------------------------------------------------------------------------
(***************************************************************************)
(* Checks and effects shared by the steps.                                 *)
(***************************************************************************)
\* async_set_unique_id and _abort_if_unique_id_configured
UniqueIdFree(f, p) ==
    /\ \A g \in Flows \ {f} : flow[g].uid # p
    /\ \A e \in Entries : uid[e] # p

\* The comparison of identities with the other entries' data.
IdentityFree(e, p) == \A x \in Entries \ {e} : data[x] # p

\* Mutant: every port is free for every protocol.
AnyBus(e, p) == TRUE

\* A serial bus carries one protocol.
BusCompatible(e, p) ==
    \A x \in Entries \ {e} :
        data[x].endpoint = p.endpoint => data[x].protocol = p.protocol

\* Entries that were reconfigured for p but still have their former unique id.
Unseen(p) == {e \in Entries : data[e] = p /\ uid[e] # p}

\* The other flows that made their checks of a serial pump and are not done yet.
CheckedBefore(f) ==
    {g \in Flows \ {f} : flow[g].step = "probing" /\ flow[g].kind \in {"serial", "reserial"}}

\* p is stored in e, unseen by the flows that checked for p before.
Behind(f, e, p) ==
    {x \in {e} : \E g \in CheckedBefore(f) : flow[g].pump = p /\ flow[g].entry # e}

Contest(f, p) ==
    contested' = contested \cup
        {x \in SerialPorts : x = p.endpoint /\ \E g \in CheckedBefore(f) :
            flow[g].pump.endpoint = x /\ flow[g].pump.protocol # p.protocol}

Close(f) == flow' = [flow EXCEPT ![f] = Closed]

\* The flow is finished: an entry with its unique id is replaced.
CreateEntry(f, p) ==
    \E e \in EntryIds :
        /\ \/ uid[e] = p /\ e \in Entries
           \/ e \notin Entries /\ \A x \in Entries : uid[x] # p
        /\ data' = [data EXCEPT ![e] = p]
        /\ uid' = [uid EXCEPT ![e] = p]
        /\ reload' = reload \cup {e}
        /\ client' = [client EXCEPT ![e] = None]
        /\ flow' = [g \in Flows |->
                      IF g = f \/ (flow[g].uid = p) \/ flow[g].entry = e
                      THEN Closed ELSE flow[g]]
        /\ escaped' = escaped \cup Unseen(p) \cup Behind(f, e, p)
        /\ Contest(f, p)
        /\ replaced' = (replaced \/ e \in Entries \ escaped)

\* async_update_reload_and_abort
UpdateEntry(f, p) ==
    LET e == flow[f].entry IN
    /\ data' = [data EXCEPT ![e] = p]
    /\ reload' = reload \cup {e}
    /\ Close(f)
    /\ escaped' = escaped \cup Behind(f, e, p)
    /\ Contest(f, p)
    /\ UNCHANGED <<uid, client, replaced>>

Probe(f, kind, p, u, e) ==
    /\ flow' = [flow EXCEPT ![f] =
                  [step |-> "probing", kind |-> kind, pump |-> p, uid |-> u, entry |-> e]]
    /\ escaped' = IF u = p THEN escaped \cup Unseen(p) ELSE escaped
    /\ UNCHANGED <<data, uid, reload, client, contested, replaced>>

\* Back to the form; a unique id that was set stays with the flow, and the
\* endpoint that the manual form is about.
ShowForm(f) ==
    /\ flow' = [flow EXCEPT ![f].step = "form",
                           ![f].pump = IF flow[f].kind = "manual" THEN @ ELSE None]
    /\ UNCHANGED <<data, uid, reload, client, history>>

Open(f) == flow[f].step \in {"closed", "form"}

-----------------------------------------------------------------------------
(***************************************************************************)
(* A new entry over TCP.  The identity is known and checked after the      *)
(* probe; if that finds no pump, the user may name a protocol and a unit.  *)
(***************************************************************************)
SubmitTcp(f, endpoint) ==
    /\ Open(f) /\ flow[f].kind \in {None, "tcp"}
    /\ Probe(f, "tcp", [endpoint |-> endpoint, protocol |-> None, unit |-> None],
             flow[f].uid, None)

\* Mutant: no check that the pump is configured already.
CreateUnchecked(f, p) ==
    /\ flow[f].step = "probing" /\ flow[f].kind = "tcp"
    /\ p.endpoint = flow[f].pump.endpoint
    /\ CreateEntry(f, p)

\* The probe found p, which is created at once unless it is configured.
TcpFound(f, p) ==
    /\ flow[f].step = "probing" /\ flow[f].kind = "tcp"
    /\ p.endpoint = flow[f].pump.endpoint
    /\ IF UniqueIdFree(f, p)
         THEN CreateEntry(f, p)
         ELSE Close(f) /\ UNCHANGED <<data, uid, reload, client, history>>

\* The gateway answers but no signature was found: the manual form.
TcpUndetected(f) ==
    /\ flow[f].step = "probing" /\ flow[f].kind = "tcp"
    /\ flow' = [flow EXCEPT ![f].step = "form", ![f].kind = "manual"]
    /\ UNCHANGED <<data, uid, reload, client, history>>

SubmitManual(f, p) ==
    /\ flow[f].step = "form" /\ flow[f].kind = "manual"
    /\ p.endpoint = flow[f].pump.endpoint
    /\ Probe(f, "manual", p, flow[f].uid, None)

ManualFound(f) ==
    /\ flow[f].step = "probing" /\ flow[f].kind = "manual"
    /\ IF UniqueIdFree(f, flow[f].pump)
         THEN CreateEntry(f, flow[f].pump)
         ELSE Close(f) /\ UNCHANGED <<data, uid, reload, client, history>>

(***************************************************************************)
(* A new entry on a serial port: async_step_serial.  The checks come first,*)
(* then the probe, then the entry.                                         *)
(***************************************************************************)
SubmitSerial(f, p) ==
    /\ Open(f) /\ flow[f].kind \in {None, "serial"}
    /\ BusCompatible(None, p)
    /\ IF UniqueIdFree(f, p)
         THEN Probe(f, "serial", p, p, None)
         ELSE Close(f) /\ UNCHANGED <<data, uid, reload, client, history>>

SerialFound(f) ==
    /\ flow[f].step = "probing" /\ flow[f].kind = "serial"
    /\ CreateEntry(f, flow[f].pump)

(***************************************************************************)
(* Reconfiguration of an entry, which keeps its transport.                 *)
(***************************************************************************)

\* Mutant: the entry's transport does not choose the form.
ReconfigureAnyAsTcp(f, e, p) ==
    /\ Open(f) /\ flow[f].kind \in {None, "retcp"} /\ flow[f].entry \in {None, e}
    /\ e \in Entries /\ p.protocol = data[e].protocol
    /\ IdentityFree(e, p)
    /\ Probe(f, "retcp", p, None, e)

SubmitReconfigureTcp(f, e, p) ==
    /\ Open(f) /\ flow[f].kind \in {None, "retcp"} /\ flow[f].entry \in {None, e}
    /\ e \in Entries /\ data[e].endpoint \in TcpEndpoints
    /\ p.protocol = data[e].protocol
    /\ IdentityFree(e, p)
    /\ Probe(f, "retcp", p, None, e)

\* Mutant: the identity is not compared again after the probe.
UpdateUnchecked(f, p) ==
    /\ flow[f].step = "probing" /\ flow[f].kind = "retcp"
    /\ p.endpoint = flow[f].pump.endpoint
    /\ flow[f].pump.protocol # None => p = flow[f].pump
    /\ UpdateEntry(f, p)

\* After the probe the identity, now with its detected protocol, is compared
\* once more; the update follows without a pause.
ReconfigureTcpFound(f, p) ==
    /\ flow[f].step = "probing" /\ flow[f].kind = "retcp"
    /\ p.endpoint = flow[f].pump.endpoint
    /\ flow[f].pump.protocol # None => p = flow[f].pump
    /\ IF IdentityFree(flow[f].entry, p) THEN UpdateEntry(f, p) ELSE ShowForm(f)

SubmitReconfigureSerial(f, e, p) ==
    /\ Open(f) /\ flow[f].kind \in {None, "reserial"} /\ flow[f].entry \in {None, e}
    /\ e \in Entries /\ data[e].endpoint \in SerialPorts
    /\ p.protocol = data[e].protocol
    /\ BusCompatible(e, p) /\ IdentityFree(e, p)
    /\ Probe(f, "reserial", p, None, e)

ReconfigureSerialFound(f) ==
    /\ flow[f].step = "probing" /\ flow[f].kind = "reserial"
    /\ UpdateEntry(f, flow[f].pump)

\* No connection or no valid answer: the form again.
ProbeFails(f) == flow[f].step = "probing" /\ ShowForm(f)

Abandon(f) ==
    /\ flow[f].step = "form"
    /\ Close(f)
    /\ UNCHANGED <<data, uid, reload, client, history>>

-----------------------------------------------------------------------------
(***************************************************************************)
(* The entries' own life: __init__.py.                                     *)
(***************************************************************************)
\* Mutant: the unique id of a reconfigured entry is left as it was.
NoSync(e, p) == UNCHANGED uid

\* _sync_entry_unique_id
SyncUniqueId(e, p) == uid' = IF IdentityFree(e, p) THEN [uid EXCEPT ![e] = p] ELSE uid

\* Another entry stands for the pump, and the unique id is left as it was.
Doubled(e, p) == {x \in {e} : ~IdentityFree(e, p)}

\* async_setup_entry up to its first refresh: the client is built from the data of
\* now.  Reloads and removals wait for the setup, flows do not.
SetupBegins(e) ==
    /\ e \in reload /\ client[e] = None
    /\ client' = [client EXCEPT ![e] = data[e]]
    /\ SyncUniqueId(e, data[e])
    /\ reload' = reload \ {e}
    /\ escaped' = escaped \cup Doubled(e, data[e])
    /\ UNCHANGED <<data, flow, contested, replaced>>

\* The refresh of a legacy entry detects the protocol and the unit.
Answers(p) == IF p.protocol = None THEN Pumps({p.endpoint}) ELSE {p}

\* The client's protocol and unit go into the data of then, unconditionally: a
\* reconfiguration that was stored meanwhile keeps its endpoint only.
WriteBack(e, p) == [p EXCEPT !.endpoint = data[e].endpoint]

\* The first refresh was answered.
SetupAnswers(e, p) ==
    /\ client[e] # None /\ p \in Answers(client[e])
    /\ LET now == WriteBack(e, p) IN
         /\ data' = [data EXCEPT ![e] = now]
         /\ SyncUniqueId(e, now)
         /\ escaped' = escaped \cup Behind(None, e, now) \cup Doubled(e, now)
    /\ client' = [client EXCEPT ![e] = None]
    /\ UNCHANGED <<reload, flow, contested, replaced>>

\* It was not: the entry is set up all the same.
SetupUnanswered(e) ==
    /\ client[e] # None
    /\ client' = [client EXCEPT ![e] = None]
    /\ UNCHANGED <<data, uid, reload, flow, history>>

\* A restart of Home Assistant sets every entry up again and forgets flows.
Restart ==
    /\ reload' = Entries
    /\ client' = [e \in EntryIds |-> None]
    /\ flow' = [f \in Flows |-> Closed]
    /\ UNCHANGED <<data, uid, history>>

RemoveEntry(e) ==
    /\ e \in Entries /\ client[e] = None
    /\ data' = [data EXCEPT ![e] = None]
    /\ uid' = [uid EXCEPT ![e] = None]
    /\ reload' = reload \ {e}
    /\ flow' = [f \in Flows |-> IF flow[f].entry = e THEN Closed ELSE flow[f]]
    /\ escaped' = escaped \ {e}
    /\ UNCHANGED <<client, contested, replaced>>

FlowStep(f) ==
    \/ \E x \in TcpEndpoints : SubmitTcp(f, x)
    \/ \E p \in Pumps(TcpEndpoints) : TcpFound(f, p) \/ SubmitManual(f, p)
    \/ TcpUndetected(f) \/ ManualFound(f)
    \/ \E p \in Pumps(SerialPorts) : SubmitSerial(f, p)
    \/ SerialFound(f)
    \/ \E e \in EntryIds, p \in Pumps(TcpEndpoints) \cup Undetected :
          SubmitReconfigureTcp(f, e, p)
    \/ \E p \in Pumps(TcpEndpoints) : ReconfigureTcpFound(f, p)
    \/ \E e \in EntryIds, p \in Pumps(SerialPorts) : SubmitReconfigureSerial(f, e, p)
    \/ ReconfigureSerialFound(f)
    \/ ProbeFails(f) \/ Abandon(f)

Next ==
    \/ \E f \in Flows : FlowStep(f)
    \/ \E e \in EntryIds :
          \/ SetupBegins(e) \/ SetupUnanswered(e) \/ RemoveEntry(e)
          \/ \E p \in AllPumps : SetupAnswers(e, p)
    \/ Restart

Spec == Init /\ [][Next]_vars

-----------------------------------------------------------------------------
FlowStates ==
    [step : {"closed", "form", "probing"},
     kind : {None, "tcp", "manual", "serial", "retcp", "reserial"},
     pump : AllPumps \cup {None}, uid : AllPumps \cup {None}, entry : EntryIds \cup {None}]

TypeOK ==
    /\ data \in [EntryIds -> AllPumps \cup {None}]
    /\ uid \in [EntryIds -> AllPumps \cup {None}]
    /\ reload \subseteq Entries
    /\ client \in [EntryIds -> AllPumps \cup {None}]
    /\ flow \in [Flows -> FlowStates]
    /\ escaped \subseteq Entries /\ contested \subseteq SerialPorts
    /\ replaced \in BOOLEAN

\* A flow that adds a serial pump holds its identity, and a reconfiguration is
\* of an entry that still exists and stays on that entry's transport.
HoldsPump(f) ==
    LET q == flow[f] IN
    /\ q.kind = "tcp" => q.pump \in Undetected
    /\ q.kind = "manual" => q.pump \in Pumps(TcpEndpoints)
    /\ q.kind = "serial" => q.uid = q.pump /\ q.pump \in Pumps(SerialPorts) /\ q.entry = None
    /\ q.kind = "retcp" =>
         /\ q.entry \in Entries /\ data[q.entry].endpoint \in TcpEndpoints
         /\ q.pump.endpoint \in TcpEndpoints
    /\ q.kind = "reserial" =>
         /\ q.entry \in Entries /\ data[q.entry].endpoint \in SerialPorts
         /\ q.pump \in Pumps(SerialPorts)
         /\ q.pump.protocol = data[q.entry].protocol

\* So it is for every flow that probes, and no two flows hold the same identity.
FlowsHoldTheirPumps ==
    /\ \A f \in Flows : flow[f].step = "probing" => HoldsPump(f)
    /\ \A f, g \in Flows : flow[f].uid = flow[g].uid => f = g \/ flow[f].uid = None

\* A setup's client keeps the transport of its entry and, on a serial port, the
\* protocol, whatever is reconfigured meanwhile.
ClientsKeepTheirTransport ==
    \A e \in EntryIds : client[e] # None =>
        /\ e \in Entries
        /\ data[e].endpoint \in TcpEndpoints <=> client[e].endpoint \in TcpEndpoints
        /\ data[e].endpoint \in SerialPorts => client[e].protocol = data[e].protocol

\* No pump is configured twice, unless one of its entries was not seen by a check:
\* it was stored behind the checks of a serial flow, or still had the unique id of
\* its former pump, or its setup turned it into the pump of another entry.
OneEntryPerPump ==
    \A e, x \in Entries \ escaped : data[e] = data[x] => e = x

\* Between reloads the unique id, by which Home Assistant tells entries apart, is
\* the identity of the stored pump, of every entry that no check missed.
UniqueIdIsIdentity ==
    \A e \in Entries \ (reload \cup escaped) : uid[e] = data[e]

\* A serial line is configured for two protocols, that is for two speeds, only
\* if an entry for one was stored while a flow that had checked the line for the
\* other still probed it.  Nothing else does it, no setup and no removal.
OneProtocolPerBus ==
    \A e, x \in Entries :
        data[e].endpoint \in SerialPorts /\ data[x].endpoint = data[e].endpoint
        => data[x].protocol = data[e].protocol \/ data[e].endpoint \in contested

\* Finishing a flow never removes an entry that the user had configured, but one
\* that a check did not see.
NeverReplaced == ~replaced

\* What a serial flow checked before its probe still holds when it goes on, but
\* for what was stored behind it.
CheckStands(f) ==
    LET q == flow[f] IN
    /\ q.kind \in {"serial", "reserial"} =>
         /\ BusCompatible(q.entry, q.pump) \/ q.pump.endpoint \in contested
         /\ \A e \in Entries \ (escaped \cup {q.entry}) : data[e] # q.pump
    /\ q.kind = "serial" => \A e \in Entries \ escaped : uid[e] # q.pump

ChecksStand == \A f \in Flows : flow[f].step = "probing" => CheckStands(f)

IInv ==
    /\ TypeOK /\ FlowsHoldTheirPumps /\ ClientsKeepTheirTransport /\ ChecksStand
    /\ OneEntryPerPump /\ UniqueIdIsIdentity /\ OneProtocolPerBus /\ NeverReplaced

\* "a changed endpoint cannot later be configured as an accidental duplicate"
\* (docs/ALPHA_0.4.0.md).
NoAccidentalDuplicate ==
    \A e, x \in Entries : data[e] = data[x] => e = x
=============================================================================
