-------------------------- MODULE ConfigFlow_proofs --------------------------
(***************************************************************************)
(* Proofs about the entries' identities, for any sets of entries, flows,   *)
(* endpoints and units.                                                    *)
(***************************************************************************)
EXTENDS ConfigFlow, TLAPS

\* What a pump is made of.
LEMMA PumpFacts ==
  ASSUME NEW S, NEW p \in Pumps(S)
  PROVE  p.endpoint \in S /\ p.protocol \in {"isaver", "modbus"}
  BY DEF Pumps

\* The pumps of some of the endpoints are pumps.
LEMMA PumpsAreAllPumps ==
  ASSUME NEW S, S \subseteq TcpEndpoints \cup SerialPorts, NEW p \in Pumps(S)
  PROVE  p \in AllPumps
  BY DEF Pumps, AllPumps

\* A pump on a serial port has a protocol.
LEMMA SerialPumps ==
  ASSUME NEW p \in AllPumps, p.endpoint \in SerialPorts
  PROVE  p \in Pumps(SerialPorts) /\ p.protocol # None
<1>1. p \notin Undetected
  BY EndpointAssumption DEF Undetected
<1>2. p \in Pumps(TcpEndpoints \cup SerialPorts)
  BY <1>1 DEF AllPumps
<1>3. p \in Pumps(SerialPorts)
  BY <1>2 DEF Pumps
<1> QED
  BY <1>3, PumpFacts, EndpointAssumption

\* The transports are told apart by the endpoint.
LEMMA TcpIsNotSerial ==
  ASSUME NEW x \in TcpEndpoints
  PROVE  x \notin SerialPorts
  BY EndpointAssumption

\* An entry's data is a pump.
LEMMA EntryData ==
  ASSUME TypeOK, NEW e \in Entries
  PROVE  e \in EntryIds /\ data[e] \in AllPumps /\ data[e] # None
  BY DEF TypeOK, Entries

\* What a client answers for is a pump with its protocol on the same endpoint.
LEMMA AnswerFacts ==
  ASSUME NEW c \in AllPumps, NEW p \in Answers(c)
  PROVE  /\ p \in Pumps(TcpEndpoints \cup SerialPorts) /\ p.endpoint = c.endpoint
         /\ c.protocol # None => p = c
<1>1. c.endpoint \in TcpEndpoints \cup SerialPorts
  BY PumpFacts DEF AllPumps, Undetected
<1>2. CASE c.protocol = None
  BY <1>1, <1>2, PumpFacts DEF Answers, Pumps
<1>3. CASE c.protocol # None
  <2>1. c \notin Undetected
    BY <1>3 DEF Undetected
  <2> QED
    BY <1>3, <2>1 DEF Answers, AllPumps
<1> QED
  BY <1>2, <1>3

\* Nothing to reconfigure, no flow: the invariant holds initially.
LEMMA InitIInv == Init => IInv
<1> SUFFICES ASSUME Init
             PROVE  IInv
  OBVIOUS
<1>1. PICK old \in Undetected \cup {None}, i \in EntryIds :
        data = [x \in EntryIds |-> IF x = i THEN old ELSE None]
  BY DEF Init
<1>2. \A f \in Flows : flow[f] = Closed
  BY DEF Init
<1>3. data \in [EntryIds -> AllPumps \cup {None}]
  BY <1>1 DEF AllPumps
<1>4. TypeOK
  <2>1. flow \in [Flows -> FlowStates]
    BY DEF Init, Closed, FlowStates
  <2> QED
    BY <1>3, <2>1 DEF Init, TypeOK, Entries
<1>5. FlowsHoldTheirPumps /\ ChecksStand
  BY <1>2 DEF FlowsHoldTheirPumps, ChecksStand, Closed
<1>6. \A e \in Entries : e = i
  BY <1>1 DEF Entries
<1>7. OneEntryPerPump /\ OneProtocolPerBus
  BY <1>6 DEF OneEntryPerPump, OneProtocolPerBus
<1>8. UniqueIdIsIdentity /\ NeverReplaced /\ ClientsKeepTheirTransport
  BY DEF Init, UniqueIdIsIdentity, NeverReplaced, ClientsKeepTheirTransport
<1> QED
  BY <1>4, <1>5, <1>7, <1>8 DEF IInv

-----------------------------------------------------------------------------
(***************************************************************************)
(* The effects, each with what its callers must know.                      *)
(***************************************************************************)
\* A step that only changes one flow: to one that keeps what a flow must.
LEMMA FlowChangeKeeps ==
  ASSUME IInv, NEW f \in Flows,
         UNCHANGED <<data, uid, reload, client, contested, replaced>>,
         escaped \subseteq escaped', escaped' \subseteq Entries,
         NEW q \in FlowStates, flow' = [flow EXCEPT ![f] = q],
         q.uid = None \/ \A g \in Flows \ {f} : flow[g].uid # q.uid,
         q.step = "probing" => HoldsPump(f)' /\ CheckStands(f)'
  PROVE  IInv'
<1>1. Entries' = Entries
  BY DEF Entries
<1>0. flow'[f] = q /\ \A g \in Flows \ {f} : flow'[g] = flow[g]
  BY DEF IInv, TypeOK
<1>2. TypeOK'
  BY <1>1 DEF IInv, TypeOK
<1>3. \A g \in Flows \ {f} : HoldsPump(g)' <=> HoldsPump(g)
  BY <1>0, <1>1 DEF HoldsPump
<1>4. \A g \in Flows \ {f} : CheckStands(g) => CheckStands(g)'
  BY <1>0, <1>1 DEF CheckStands, BusCompatible
<1>5. FlowsHoldTheirPumps'
  <2>1. \A g \in Flows : flow'[g].step = "probing" => HoldsPump(g)'
    BY <1>0, <1>3 DEF IInv, FlowsHoldTheirPumps
  <2>2. \A g, h \in Flows : flow'[g].uid = flow'[h].uid => g = h \/ flow'[g].uid = None
    BY <1>0 DEF IInv, FlowsHoldTheirPumps
  <2> QED
    BY <2>1, <2>2 DEF FlowsHoldTheirPumps
<1>6. ChecksStand'
  BY <1>0, <1>4 DEF IInv, ChecksStand
<1>7. OneEntryPerPump' /\ UniqueIdIsIdentity' /\ OneProtocolPerBus' /\ NeverReplaced'
  BY <1>1 DEF IInv, OneEntryPerPump, UniqueIdIsIdentity, OneProtocolPerBus, NeverReplaced
<1>8. ClientsKeepTheirTransport'
  BY <1>1 DEF IInv, ClientsKeepTheirTransport
<1> QED
  BY <1>2, <1>5, <1>6, <1>7, <1>8 DEF IInv

\* Storing p in e behind the flow g: either g's pump and port are others, or the
\* history says so.
LEMMA BehindFacts ==
  ASSUME NEW f \in Flows, NEW e, NEW p, NEW g \in CheckedBefore(f),
         NEW S, S \cup Behind(f, e, p) \subseteq escaped', Contest(f, p)
  PROVE  /\ flow[g].pump = p /\ flow[g].entry # e => e \in escaped'
         /\ p.endpoint = flow[g].pump.endpoint /\ p.endpoint \in SerialPorts =>
              p.protocol = flow[g].pump.protocol \/ p.endpoint \in contested'
  BY DEF Behind, Contest

\* A flow that finishes keeps the invariant if it found the unique id free and,
\* on a serial port, the bus compatible.
LEMMA CreateKeeps ==
  ASSUME IInv, NEW f \in Flows, NEW p \in Pumps(TcpEndpoints \cup SerialPorts),
         CreateEntry(f, p),
         \A e \in Entries \ escaped : uid[e] # p,
         p.endpoint \in SerialPorts => BusCompatible(None, p) \/ p.endpoint \in contested
  PROVE  IInv'
<1>1. PICK e \in EntryIds :
        /\ \/ uid[e] = p /\ e \in Entries
           \/ e \notin Entries /\ \A x \in Entries : uid[x] # p
        /\ data' = [data EXCEPT ![e] = p]
        /\ uid' = [uid EXCEPT ![e] = p]
        /\ reload' = reload \cup {e}
        /\ client' = [client EXCEPT ![e] = None]
        /\ flow' = [g \in Flows |->
                      IF g = f \/ (flow[g].uid = p) \/ flow[g].entry = e
                      THEN Closed ELSE flow[g]]
        /\ escaped' = escaped \cup Unseen(p) \cup Behind(f, e, p)
        /\ Contest(f, p)
        /\ replaced' = (replaced \/ e \in Entries \ escaped)
  BY DEF CreateEntry
<1>2. p \in AllPumps /\ p # None
  BY PumpsAreAllPumps, EndpointAssumption
<1>3. Entries' = Entries \cup {e} /\ data'[e] = p /\ uid'[e] = p
  BY <1>1, <1>2 DEF Entries, IInv, TypeOK
<1>4. \A x \in Entries \ {e} : data'[x] = data[x] /\ uid'[x] = uid[x]
  BY <1>1 DEF Entries, IInv, TypeOK
<1>5. \A g \in Flows :
        \/ flow'[g] = Closed
        \/ flow'[g] = flow[g] /\ g # f /\ flow[g].uid # p /\ flow[g].entry # e
  BY <1>1
<1>h. /\ escaped \subseteq escaped' /\ contested \subseteq contested'
      /\ Unseen(p) \subseteq escaped'
  BY <1>1 DEF Contest
<1>6. TypeOK'
  <2>1. data' \in [EntryIds -> AllPumps \cup {None}]
    BY <1>1, <1>2 DEF IInv, TypeOK
  <2>2. uid' \in [EntryIds -> AllPumps \cup {None}]
    BY <1>1, <1>2 DEF IInv, TypeOK
  <2>3. reload' \subseteq Entries' /\ client' \in [EntryIds -> AllPumps \cup {None}]
    BY <1>1, <1>3 DEF IInv, TypeOK
  <2>4. escaped' \subseteq Entries'
    BY <1>1, <1>3 DEF IInv, TypeOK, Unseen, Behind
  <2>5. contested' \subseteq SerialPorts
    BY <1>1 DEF IInv, TypeOK, Contest
  <2>6. replaced' \in BOOLEAN
    BY <1>1, Zenon DEF IInv, TypeOK
  <2>7. flow' \in [Flows -> FlowStates]
    BY <1>1 DEF IInv, TypeOK, Closed, FlowStates
  <2> QED
    BY <2>1, <2>2, <2>3, <2>4, <2>5, <2>6, <2>7 DEF TypeOK
<1>7. \A g \in Flows : flow'[g].step = "probing" =>
        flow'[g] = flow[g] /\ g # f /\ flow[g].uid # p /\ flow[g].entry # e
  BY <1>5 DEF Closed
<1>8. FlowsHoldTheirPumps'
  <2>1. ASSUME NEW g \in Flows, flow'[g].step = "probing"
        PROVE  HoldsPump(g)'
    <3>1. HoldsPump(g)
      BY <1>7, <2>1 DEF IInv, FlowsHoldTheirPumps
    <3> QED
      BY <1>3, <1>4, <1>7, <2>1, <3>1 DEF HoldsPump
  <2>2. ASSUME NEW g \in Flows, NEW h \in Flows, flow'[g].uid = flow'[h].uid
        PROVE  g = h \/ flow'[g].uid = None
    BY <1>5, <2>2 DEF IInv, FlowsHoldTheirPumps, Closed
  <2> QED
    BY <2>1, <2>2 DEF FlowsHoldTheirPumps
<1>9. ClientsKeepTheirTransport'
  <2>1. \A x \in EntryIds \ {e} : data'[x] = data[x] /\ client'[x] = client[x]
    BY <1>1 DEF IInv, TypeOK
  <2>2. client'[e] = None
    BY <1>1 DEF IInv, TypeOK
  <2> QED
    BY <1>3, <2>1, <2>2 DEF IInv, ClientsKeepTheirTransport
<1>10. OneEntryPerPump'
  <2>1. \A x \in Entries \ {e} : data[x] = p => x \in escaped'
    BY <1>h DEF Unseen
  <2> QED
    BY <1>3, <1>4, <1>h, <2>1 DEF IInv, OneEntryPerPump
<1>11. UniqueIdIsIdentity'
  BY <1>1, <1>3, <1>4, <1>h DEF IInv, UniqueIdIsIdentity
<1>12. NeverReplaced'
  BY <1>1 DEF IInv, NeverReplaced
<1>13. OneProtocolPerBus'
  <2>1. p.endpoint \in SerialPorts =>
          \/ \A x \in Entries : data[x].endpoint = p.endpoint => data[x].protocol = p.protocol
          \/ p.endpoint \in contested
    BY EndpointAssumption DEF BusCompatible, Entries
  <2> QED
    BY <1>3, <1>4, <1>h, <2>1 DEF IInv, OneProtocolPerBus
<1>14. ChecksStand'
  <2>1. ASSUME NEW g \in Flows, flow'[g].step = "probing"
        PROVE  CheckStands(g)'
    <3>1. CheckStands(g) /\ HoldsPump(g)
      BY <1>7, <2>1 DEF IInv, ChecksStand, FlowsHoldTheirPumps
    <3>2. ASSUME flow[g].kind \in {"serial", "reserial"}
          PROVE  /\ flow[g].pump = p /\ flow[g].entry # e => e \in escaped'
                 /\ p.endpoint = flow[g].pump.endpoint =>
                      p.protocol = flow[g].pump.protocol \/ p.endpoint \in contested'
      <4>1. g \in CheckedBefore(f)
        BY <1>7, <2>1, <3>2 DEF CheckedBefore
      <4>2. flow[g].pump.endpoint \in SerialPorts
        BY <3>1, <3>2, PumpFacts DEF HoldsPump
      <4> QED
        BY <1>1, <4>1, <4>2, BehindFacts
    <3>3. ASSUME flow[g].kind \in {"serial", "reserial"}
          PROVE  /\ BusCompatible(flow[g].entry, flow[g].pump)' \/ flow[g].pump.endpoint \in contested'
                 /\ \A x \in Entries' \ (escaped' \cup {flow[g].entry}) : data'[x] # flow[g].pump
      BY <1>3, <1>4, <1>7, <1>h, <2>1, <3>1, <3>2, <3>3 DEF CheckStands, BusCompatible
    <3>4. flow[g].kind = "serial" => \A x \in Entries' \ escaped' : uid'[x] # flow[g].pump
      BY <1>3, <1>4, <1>7, <1>h, <2>1, <3>1, <3>2 DEF CheckStands
    <3> QED
      BY <1>7, <2>1, <3>3, <3>4 DEF CheckStands, BusCompatible
  <2> QED
    BY <2>1 DEF ChecksStand
<1> QED
  BY <1>6, <1>8, <1>9, <1>10, <1>11, <1>12, <1>13, <1>14 DEF IInv

\* A reconfiguration keeps the invariant if the transport stays and the
\* identity and the bus were found free.
LEMMA UpdateKeeps ==
  ASSUME IInv, NEW f \in Flows, NEW p \in Pumps(TcpEndpoints \cup SerialPorts),
         UpdateEntry(f, p),
         flow[f].entry \in Entries,
         p.endpoint \in TcpEndpoints => data[flow[f].entry].endpoint \in TcpEndpoints,
         p.endpoint \in SerialPorts =>
             /\ data[flow[f].entry].endpoint \in SerialPorts
             /\ p.protocol = data[flow[f].entry].protocol
             /\ BusCompatible(flow[f].entry, p) \/ p.endpoint \in contested,
         \A x \in Entries \ (escaped \cup {flow[f].entry}) : data[x] # p
  PROVE  IInv'
<1> DEFINE e == flow[f].entry
<1>1. /\ e \in EntryIds /\ e \in Entries
      /\ data' = [data EXCEPT ![e] = p]
      /\ reload' = reload \cup {e}
      /\ flow' = [flow EXCEPT ![f] = Closed]
      /\ escaped' = escaped \cup Behind(f, e, p)
      /\ Contest(f, p)
      /\ uid' = uid /\ client' = client /\ replaced' = replaced
  BY DEF UpdateEntry, Close, Entries
<1>b. p.endpoint \in SerialPorts => BusCompatible(e, p) \/ p.endpoint \in contested
  OBVIOUS
<1>d. \A x \in Entries \ (escaped \cup {e}) : data[x] # p
  OBVIOUS
<1> HIDE DEF e
<1>2. p \in AllPumps /\ p # None /\ p.endpoint \in TcpEndpoints \cup SerialPorts
  BY PumpsAreAllPumps, PumpFacts, EndpointAssumption
<1>3. Entries' = Entries /\ data'[e] = p
  BY <1>1, <1>2 DEF Entries, IInv, TypeOK
<1>4. \A x \in Entries \ {e} : data'[x] = data[x]
  BY <1>1 DEF Entries, IInv, TypeOK
<1>5. \A g \in Flows : (g = f /\ flow'[g] = Closed) \/ (g # f /\ flow'[g] = flow[g])
  BY <1>1 DEF IInv, TypeOK
<1>h. escaped \subseteq escaped' /\ contested \subseteq contested'
  BY <1>1 DEF Contest
<1>t. /\ \A x \in Entries : data[x].endpoint \in TcpEndpoints <=> data'[x].endpoint \in TcpEndpoints
      /\ \A x \in Entries : data[x].endpoint \in SerialPorts =>
                /\ data'[x].endpoint \in SerialPorts
                /\ data'[x].protocol = data[x].protocol
  BY <1>2, <1>3, <1>4, TcpIsNotSerial DEF e
<1>6. TypeOK'
  <2>1. data' \in [EntryIds -> AllPumps \cup {None}]
    BY <1>1, <1>2 DEF IInv, TypeOK
  <2>2. flow' \in [Flows -> FlowStates]
    BY <1>1 DEF IInv, TypeOK, Closed, FlowStates
  <2>3. escaped' \subseteq Entries' /\ contested' \subseteq SerialPorts
    BY <1>1, <1>3 DEF IInv, TypeOK, Behind, Contest
  <2> QED
    BY <1>1, <1>3, <2>1, <2>2, <2>3 DEF IInv, TypeOK
<1>7. \A g \in Flows : flow'[g].step = "probing" => g # f /\ flow'[g] = flow[g]
  BY <1>5 DEF Closed
<1>8. FlowsHoldTheirPumps'
  <2>1. ASSUME NEW g \in Flows, flow'[g].step = "probing"
        PROVE  HoldsPump(g)'
    <3>1. HoldsPump(g)
      BY <1>7, <2>1 DEF IInv, FlowsHoldTheirPumps
    <3> QED
      BY <1>3, <1>7, <1>t, <2>1, <3>1 DEF HoldsPump
  <2>2. ASSUME NEW g \in Flows, NEW h \in Flows, flow'[g].uid = flow'[h].uid
        PROVE  g = h \/ flow'[g].uid = None
    BY <1>5, <2>2 DEF IInv, FlowsHoldTheirPumps, Closed
  <2> QED
    BY <2>1, <2>2 DEF FlowsHoldTheirPumps
<1>9. ClientsKeepTheirTransport'
  <2>1. ASSUME NEW x \in EntryIds, client[x] # None
        PROVE  /\ x \in Entries
               /\ data'[x].endpoint \in TcpEndpoints <=> client[x].endpoint \in TcpEndpoints
               /\ data'[x].endpoint \in SerialPorts => client[x].protocol = data'[x].protocol
    <3>1. /\ x \in Entries
          /\ data[x].endpoint \in TcpEndpoints <=> client[x].endpoint \in TcpEndpoints
          /\ data[x].endpoint \in SerialPorts => client[x].protocol = data[x].protocol
      BY <2>1 DEF IInv, ClientsKeepTheirTransport
    <3>2. data[x].endpoint \in TcpEndpoints \cup SerialPorts
      BY <3>1, EntryData, PumpFacts DEF IInv, AllPumps, Undetected
    <3> QED
      BY <1>t, <3>1, <3>2, TcpIsNotSerial
  <2> QED
    BY <1>1, <1>3, <2>1 DEF ClientsKeepTheirTransport
<1>10. OneEntryPerPump'
  BY <1>3, <1>4, <1>d, <1>h DEF IInv, OneEntryPerPump
<1>11. UniqueIdIsIdentity' /\ NeverReplaced'
  BY <1>1, <1>3, <1>4, <1>h DEF IInv, UniqueIdIsIdentity, NeverReplaced
<1>12. OneProtocolPerBus'
  <2>1. p.endpoint \in SerialPorts =>
          \/ \A x \in Entries \ {e} :
                data[x].endpoint = p.endpoint => data[x].protocol = p.protocol
          \/ p.endpoint \in contested
    BY <1>b DEF BusCompatible
  <2> QED
    BY <1>3, <1>4, <1>h, <2>1 DEF IInv, OneProtocolPerBus
<1>13. ChecksStand'
  <2>1. ASSUME NEW g \in Flows, flow'[g].step = "probing"
        PROVE  CheckStands(g)'
    <3>1. CheckStands(g) /\ HoldsPump(g)
      BY <1>7, <2>1 DEF IInv, ChecksStand, FlowsHoldTheirPumps
    <3>2. ASSUME flow[g].kind \in {"serial", "reserial"}
          PROVE  /\ flow[g].pump = p /\ flow[g].entry # e => e \in escaped'
                 /\ p.endpoint = flow[g].pump.endpoint =>
                      p.protocol = flow[g].pump.protocol \/ p.endpoint \in contested'
      <4>1. g \in CheckedBefore(f)
        BY <1>7, <2>1, <3>2 DEF CheckedBefore
      <4>2. flow[g].pump.endpoint \in SerialPorts
        BY <3>1, <3>2, PumpFacts DEF HoldsPump
      <4>3. escaped \cup Behind(f, e, p) \subseteq escaped' /\ Contest(f, p)
        BY <1>1
      <4> QED
        BY <4>1, <4>2, <4>3, BehindFacts
    <3>3. ASSUME flow[g].kind \in {"serial", "reserial"}
          PROVE  /\ BusCompatible(flow[g].entry, flow[g].pump)' \/ flow[g].pump.endpoint \in contested'
                 /\ \A x \in Entries' \ (escaped' \cup {flow[g].entry}) : data'[x] # flow[g].pump
      <4>1. /\ BusCompatible(flow[g].entry, flow[g].pump) \/ flow[g].pump.endpoint \in contested
            /\ \A x \in Entries \ (escaped \cup {flow[g].entry}) : data[x] # flow[g].pump
        BY <3>1, <3>3 DEF CheckStands
      <4>2. BusCompatible(flow[g].entry, flow[g].pump)' \/ flow[g].pump.endpoint \in contested'
        BY <1>3, <1>4, <1>7, <1>h, <2>1, <3>2, <3>3, <4>1 DEF BusCompatible
      <4>3. \A x \in Entries' \ (escaped' \cup {flow[g].entry}) : data'[x] # flow[g].pump
        BY <1>3, <1>4, <1>h, <3>2, <3>3, <4>1
      <4> QED
        BY <4>2, <4>3
    <3>4. flow[g].kind = "serial" => \A x \in Entries' \ escaped' : uid'[x] # flow[g].pump
      BY <1>1, <1>3, <1>h, <3>1 DEF CheckStands
    <3> QED
      BY <1>7, <2>1, <3>3, <3>4 DEF CheckStands, BusCompatible
  <2> QED
    BY <2>1 DEF ChecksStand
<1> QED
  BY <1>6, <1>8, <1>9, <1>10, <1>11, <1>12, <1>13 DEF IInv

\* Setting an entry up keeps the invariant, when it begins and when its refresh
\* is answered: p is stored on the same endpoint, on a serial port for the same
\* protocol, and if it is another pump than before, a flow that probes for that
\* pump has not seen it.
LEMMA SyncKeeps ==
  ASSUME IInv, NEW e \in Entries, NEW p \in AllPumps,
         p.endpoint = data[e].endpoint,
         p.endpoint \in SerialPorts => p.protocol = data[e].protocol,
         data' = [data EXCEPT ![e] = p], SyncUniqueId(e, p),
         NEW S \in SUBSET {e}, p # data[e] => Behind(None, e, p) \subseteq S,
         escaped' = escaped \cup S \cup Doubled(e, p),
         UNCHANGED <<flow, contested, replaced>>,
         reload \ {e} \subseteq reload', reload' \subseteq reload,
         client' \in [EntryIds -> AllPumps \cup {None}], ClientsKeepTheirTransport'
  PROVE  IInv'
<1>0. e \in EntryIds /\ p # None
  BY EndpointAssumption DEF Entries
<1>1. Entries' = Entries /\ data'[e] = p /\ \A x \in Entries \ {e} : data'[x] = data[x]
  BY <1>0 DEF Entries, IInv, TypeOK
<1>2. /\ \A x \in Entries \ {e} : uid'[x] = uid[x]
      /\ uid'[e] = IF IdentityFree(e, p) THEN p ELSE uid[e]
  BY <1>0 DEF Entries, IInv, TypeOK, SyncUniqueId
<1>3. TypeOK'
  <2>1. data' \in [EntryIds -> AllPumps \cup {None}]
    BY DEF IInv, TypeOK
  <2>2. uid' \in [EntryIds -> AllPumps \cup {None}]
    BY DEF IInv, TypeOK, SyncUniqueId
  <2>3. escaped' \subseteq Entries'
    BY <1>1 DEF IInv, TypeOK, Doubled
  <2> QED
    BY <1>1, <2>1, <2>2, <2>3 DEF IInv, TypeOK
<1>4. FlowsHoldTheirPumps'
  <2>1. ASSUME NEW g \in Flows, flow[g].step = "probing"
        PROVE  HoldsPump(g)'
    <3>1. HoldsPump(g)
      BY <2>1 DEF IInv, FlowsHoldTheirPumps
    <3>2. \A x \in Entries : /\ data'[x].endpoint = data[x].endpoint
                             /\ data[x].endpoint \in SerialPorts =>
                                   data'[x].protocol = data[x].protocol
      BY <1>1
    <3> QED
      BY <1>1, <3>1, <3>2 DEF HoldsPump
  <2> QED
    BY <2>1 DEF IInv, FlowsHoldTheirPumps
<1>5. ~IdentityFree(e, p) => e \in escaped'
  BY DEF Doubled
<1>6. OneEntryPerPump'
  BY <1>1, <1>5 DEF IInv, OneEntryPerPump, IdentityFree
<1>7. UniqueIdIsIdentity'
  BY <1>1, <1>2, <1>5 DEF IInv, UniqueIdIsIdentity
<1>8. OneProtocolPerBus' /\ NeverReplaced'
  BY <1>1 DEF IInv, OneProtocolPerBus, NeverReplaced
<1>9. ChecksStand'
  <2>1. ASSUME NEW g \in Flows, flow[g].step = "probing"
        PROVE  CheckStands(g)'
    <3>1. CheckStands(g) /\ HoldsPump(g)
      BY <2>1 DEF IInv, ChecksStand, FlowsHoldTheirPumps
    <3>2. ASSUME flow[g].kind \in {"serial", "reserial"}
          PROVE  BusCompatible(flow[g].entry, flow[g].pump)' \/ flow[g].pump.endpoint \in contested'
      <4>1. flow[g].pump.endpoint \in SerialPorts
        BY <3>1, <3>2, PumpFacts DEF HoldsPump
      <4> QED
        BY <1>1, <3>1, <3>2, <4>1 DEF CheckStands, BusCompatible
    <3>3. ASSUME flow[g].kind \in {"serial", "reserial"}
          PROVE  \A x \in Entries \ (escaped' \cup {flow[g].entry}) : data'[x] # flow[g].pump
      <4>1. p # data[e] /\ flow[g].pump = p /\ flow[g].entry # e => e \in escaped'
        <5>1. g \in CheckedBefore(None) \/ g = None
          BY <2>1, <3>3 DEF CheckedBefore
        <5> QED
          BY <5>1, EndpointAssumption DEF Behind
      <4> QED
        BY <1>1, <3>1, <3>3, <4>1 DEF CheckStands
    <3>4. ASSUME flow[g].kind = "serial"
          PROVE  \A x \in Entries \ escaped' : uid'[x] # flow[g].pump
      <4>1. flow[g].entry = None /\ flow[g].entry # e
        BY <1>0, <3>1, <3>4, EndpointAssumption DEF HoldsPump
      <4>2. e \notin escaped' => data'[e] # flow[g].pump
        BY <3>3, <3>4, <4>1
      <4> QED
        BY <1>1, <1>2, <3>1, <3>4, <4>2 DEF CheckStands
    <3> QED
      BY <1>1, <3>2, <3>3, <3>4 DEF CheckStands, BusCompatible
  <2> QED
    BY <2>1 DEF ChecksStand
<1> QED
  BY <1>3, <1>4, <1>6, <1>7, <1>8, <1>9 DEF IInv

LEMMA SetupBeginsKeeps ==
  ASSUME IInv, NEW e \in EntryIds, SetupBegins(e)
  PROVE  IInv'
<1>1. e \in Entries /\ data[e] \in AllPumps
  BY EntryData DEF SetupBegins, IInv, TypeOK
<1>2. data' = [data EXCEPT ![e] = data[e]] /\ Entries' = Entries
  BY DEF SetupBegins, IInv, TypeOK, Entries
<1>3. escaped' = escaped \cup {} \cup Doubled(e, data[e])
  BY DEF SetupBegins
<1>4. client' \in [EntryIds -> AllPumps \cup {None}]
  BY <1>1 DEF SetupBegins, IInv, TypeOK
<1>5. ClientsKeepTheirTransport'
  <2>1. \A x \in EntryIds : client'[x] = IF x = e THEN data[e] ELSE client[x]
    BY DEF SetupBegins, IInv, TypeOK
  <2> QED
    BY <1>1, <1>2, <2>1 DEF SetupBegins, IInv, ClientsKeepTheirTransport
<1>6. {} \in SUBSET {e} /\ reload \ {e} \subseteq reload' /\ reload' \subseteq reload
  BY DEF SetupBegins
<1>7. SyncUniqueId(e, data[e]) /\ UNCHANGED <<flow, contested, replaced>>
  BY DEF SetupBegins
<1>8. data[e] # data[e] => Behind(None, e, data[e]) \subseteq {}
  OBVIOUS
<1> QED
  BY <1>1, <1>2, <1>3, <1>4, <1>5, <1>6, <1>7, <1>8, SyncKeeps

LEMMA SetupAnswersKeeps ==
  ASSUME IInv, NEW e \in EntryIds, NEW p \in AllPumps, SetupAnswers(e, p)
  PROVE  IInv'
<1> DEFINE now == WriteBack(e, p)
<1>1. /\ client[e] \in AllPumps /\ e \in Entries
      /\ data[e].endpoint \in TcpEndpoints <=> client[e].endpoint \in TcpEndpoints
      /\ data[e].endpoint \in SerialPorts => client[e].protocol = data[e].protocol
  BY DEF SetupAnswers, IInv, TypeOK, ClientsKeepTheirTransport
<1>2. data[e] \in AllPumps /\ data[e].endpoint \in TcpEndpoints \cup SerialPorts
  BY <1>1, EntryData, PumpFacts DEF IInv, AllPumps, Undetected
<1>3. /\ p \in Pumps(TcpEndpoints \cup SerialPorts)
      /\ client[e].protocol # None => p = client[e]
  BY <1>1, AnswerFacts DEF SetupAnswers
<1>4. now \in Pumps(TcpEndpoints \cup SerialPorts) /\ now.endpoint = data[e].endpoint
      /\ now.protocol = p.protocol
  BY <1>2, <1>3 DEF Pumps, WriteBack
<1>5. now \in AllPumps
  BY <1>4 DEF AllPumps
<1>6. now.endpoint \in SerialPorts => now.protocol = data[e].protocol
  BY <1>1, <1>2, <1>3, <1>4, SerialPumps
<1>7. /\ data' = [data EXCEPT ![e] = now] /\ SyncUniqueId(e, now)
      /\ escaped' = escaped \cup Behind(None, e, now) \cup Doubled(e, now)
      /\ client' = [client EXCEPT ![e] = None]
      /\ UNCHANGED <<reload, flow, contested, replaced>>
  BY DEF SetupAnswers
<1> HIDE DEF now
<1>8. client' \in [EntryIds -> AllPumps \cup {None}]
  BY <1>7 DEF IInv, TypeOK
<1>9. ClientsKeepTheirTransport'
  <2>1. \A x \in EntryIds : client'[x] = IF x = e THEN None ELSE client[x]
    BY <1>7 DEF IInv, TypeOK
  <2>2. \A x \in EntryIds \ {e} : data'[x] = data[x]
    BY <1>7 DEF IInv, TypeOK
  <2>3. Entries \subseteq Entries'
    BY <1>5, <1>7, EndpointAssumption DEF Entries, IInv, TypeOK
  <2> QED
    BY <2>1, <2>2, <2>3 DEF IInv, ClientsKeepTheirTransport
<1>10. Behind(None, e, now) \in SUBSET {e}
  BY DEF Behind
<1> QED
  BY <1>1, <1>4, <1>5, <1>6, <1>7, <1>8, <1>9, <1>10, SyncKeeps

LEMMA SetupUnansweredKeeps ==
  ASSUME IInv, NEW e \in EntryIds, SetupUnanswered(e)
  PROVE  IInv'
<1>1. /\ UNCHANGED <<data, uid, reload, flow, escaped, contested, replaced>>
      /\ client' = [client EXCEPT ![e] = None]
  BY DEF SetupUnanswered, history
<1>2. Entries' = Entries
  BY <1>1 DEF Entries
<1>3. TypeOK' /\ OneEntryPerPump' /\ UniqueIdIsIdentity' /\ OneProtocolPerBus' /\ NeverReplaced'
  BY <1>1, <1>2
     DEF IInv, TypeOK, OneEntryPerPump, UniqueIdIsIdentity, OneProtocolPerBus, NeverReplaced
<1>4. FlowsHoldTheirPumps'
  BY <1>1, <1>2 DEF IInv, FlowsHoldTheirPumps, HoldsPump
<1>5. ChecksStand'
  BY <1>1, <1>2 DEF IInv, ChecksStand, CheckStands, BusCompatible
<1>6. ClientsKeepTheirTransport'
  <2>1. \A x \in EntryIds : client'[x] = IF x = e THEN None ELSE client[x]
    BY <1>1 DEF IInv, TypeOK
  <2> QED
    BY <1>1, <1>2, <2>1 DEF IInv, ClientsKeepTheirTransport
<1> QED
  BY <1>3, <1>4, <1>5, <1>6 DEF IInv

\* Removing an entry leaves less to clash with, and takes its reconfigurations along.
LEMMA RemoveKeeps ==
  ASSUME IInv, NEW e \in EntryIds, RemoveEntry(e)
  PROVE  IInv'
<1>1. Entries' = Entries \ {e}
  BY DEF RemoveEntry, Entries, IInv, TypeOK
<1>2. \A x \in Entries' : data'[x] = data[x] /\ uid'[x] = uid[x] /\ x \in Entries
  BY <1>1 DEF RemoveEntry, Entries, IInv, TypeOK
<1>3. \A g \in Flows : flow'[g] = Closed \/ (flow'[g] = flow[g] /\ flow[g].entry # e)
  BY DEF RemoveEntry
<1>4. TypeOK'
  <2>1. data' \in [EntryIds -> AllPumps \cup {None}] /\ uid' \in [EntryIds -> AllPumps \cup {None}]
    BY DEF RemoveEntry, IInv, TypeOK
  <2>2. flow' \in [Flows -> FlowStates]
    BY DEF RemoveEntry, IInv, TypeOK, Closed, FlowStates
  <2>3. reload' \subseteq Entries' /\ escaped' \subseteq Entries'
    BY <1>1 DEF RemoveEntry, IInv, TypeOK
  <2> QED
    BY <2>1, <2>2, <2>3 DEF RemoveEntry, IInv, TypeOK
<1>5. \A g \in Flows : flow'[g].step = "probing" => flow'[g] = flow[g] /\ flow[g].entry # e
  BY <1>3 DEF Closed
<1>6. FlowsHoldTheirPumps'
  <2>1. ASSUME NEW g \in Flows, flow'[g].step = "probing"
        PROVE  HoldsPump(g)'
    BY <1>1, <1>2, <1>5, <2>1 DEF IInv, FlowsHoldTheirPumps, HoldsPump
  <2>2. \A g, h \in Flows : flow'[g].uid = flow'[h].uid => g = h \/ flow'[g].uid = None
    BY <1>3 DEF IInv, FlowsHoldTheirPumps, Closed
  <2> QED
    BY <2>1, <2>2 DEF FlowsHoldTheirPumps
<1>7. /\ UNCHANGED <<client, contested, replaced>> /\ reload' = reload \ {e}
      /\ escaped' = escaped \ {e} /\ client[e] = None
  BY DEF RemoveEntry
<1>8. ChecksStand'
  <2>1. ASSUME NEW g \in Flows, flow'[g].step = "probing", CheckStands(g)
        PROVE  CheckStands(g)'
    BY <1>1, <1>2, <1>5, <1>7, <2>1 DEF CheckStands, BusCompatible
  <2> QED
    BY <1>5, <2>1 DEF IInv, ChecksStand
<1>9. OneEntryPerPump' /\ UniqueIdIsIdentity' /\ OneProtocolPerBus' /\ NeverReplaced'
  BY <1>1, <1>2, <1>7 DEF IInv, OneEntryPerPump, UniqueIdIsIdentity, OneProtocolPerBus, NeverReplaced
<1>10. ClientsKeepTheirTransport'
  <2>1. \A x \in EntryIds : client[x] # None => x \in Entries'
    BY <1>1, <1>7 DEF IInv, ClientsKeepTheirTransport
  <2> QED
    BY <1>2, <1>7, <2>1 DEF IInv, ClientsKeepTheirTransport
<1> QED
  BY <1>4, <1>6, <1>8, <1>9, <1>10 DEF IInv

\* After a restart no flow is open and every entry is to be set up.
LEMMA RestartKeeps ==
  ASSUME IInv, Restart
  PROVE  IInv'
<1>1. Entries' = Entries
  BY DEF Restart, Entries
<1>2. \A f \in Flows : flow'[f] = Closed
  BY DEF Restart
<1>3. TypeOK'
  <2>1. flow' \in [Flows -> FlowStates]
    BY DEF Restart, Closed, FlowStates
  <2> QED
    BY <1>1, <2>1 DEF Restart, IInv, TypeOK, history
<1>4. FlowsHoldTheirPumps' /\ ChecksStand'
  BY <1>2 DEF FlowsHoldTheirPumps, ChecksStand, Closed
<1>5. /\ OneEntryPerPump' /\ UniqueIdIsIdentity' /\ OneProtocolPerBus' /\ NeverReplaced'
      /\ ClientsKeepTheirTransport'
  BY <1>1
     DEF Restart, ClientsKeepTheirTransport, history, IInv, OneEntryPerPump, UniqueIdIsIdentity, OneProtocolPerBus,
         NeverReplaced
<1> QED
  BY <1>3, <1>4, <1>5 DEF IInv

\* A flow that starts to probe keeps the invariant if it has made its checks.
LEMMA ProbeKeeps ==
  ASSUME IInv, NEW f \in Flows,
         NEW kind \in {"tcp", "manual", "serial", "retcp", "reserial"},
         NEW p \in AllPumps, NEW u \in AllPumps \cup {None}, NEW e \in EntryIds \cup {None},
         Probe(f, kind, p, u, e),
         u = None \/ \A g \in Flows \ {f} : flow[g].uid # u,
         kind = "tcp" => p \in Undetected,
         kind = "manual" => p \in Pumps(TcpEndpoints),
         kind = "serial" =>
           /\ u = p /\ p \in Pumps(SerialPorts) /\ e = None
           /\ \A x \in Entries : uid[x] # p,
         kind = "retcp" =>
           /\ e \in Entries /\ data[e].endpoint \in TcpEndpoints
           /\ p.endpoint \in TcpEndpoints,
         kind = "reserial" =>
           /\ e \in Entries /\ data[e].endpoint \in SerialPorts
           /\ p \in Pumps(SerialPorts) /\ p.protocol = data[e].protocol,
         kind \in {"serial", "reserial"} =>
           /\ BusCompatible(e, p) \/ p.endpoint \in contested
           /\ \A x \in Entries \ (escaped' \cup {e}) : data[x] # p
  PROVE  IInv'
<1> DEFINE q == [step |-> "probing", kind |-> kind, pump |-> p, uid |-> u, entry |-> e]
<1>1. q \in FlowStates
  BY DEF FlowStates
<1>2. /\ flow' = [flow EXCEPT ![f] = q]
      /\ UNCHANGED <<data, uid, reload, client, contested, replaced>>
  BY DEF Probe
<1>3. escaped \subseteq escaped' /\ escaped' \subseteq Entries
  BY DEF Probe, Unseen, IInv, TypeOK
<1>4. flow'[f] = q /\ Entries' = Entries
  BY <1>2 DEF IInv, TypeOK, Entries
<1>5. HoldsPump(f)'
  BY <1>2, <1>4 DEF HoldsPump
<1>6. CheckStands(f)'
  BY <1>2, <1>3, <1>4 DEF CheckStands, BusCompatible
<1>7. q.uid = None \/ \A g \in Flows \ {f} : flow[g].uid # q.uid
  OBVIOUS
<1> HIDE DEF q
<1> QED
  BY <1>1, <1>2, <1>3, <1>5, <1>6, <1>7, FlowChangeKeeps

\* A flow that returns to a form or closes keeps the invariant.
LEMMA StopKeeps ==
  ASSUME IInv, NEW f \in Flows, NEW q \in FlowStates,
         flow' = [flow EXCEPT ![f] = q], UNCHANGED <<data, uid, reload, client, history>>,
         q.step # "probing", q.uid \in {None, flow[f].uid}
  PROVE  IInv'
<1>1. q.uid = None \/ \A g \in Flows \ {f} : flow[g].uid # q.uid
  BY DEF IInv, FlowsHoldTheirPumps
<1>2. /\ escaped \subseteq escaped' /\ escaped' \subseteq Entries
      /\ UNCHANGED <<data, uid, reload, client, contested, replaced>>
  BY DEF history, IInv, TypeOK
<1> QED
  BY <1>1, <1>2, FlowChangeKeeps

LEMMA CloseKeeps ==
  ASSUME IInv, NEW f \in Flows, Close(f), UNCHANGED <<data, uid, reload, client, history>>
  PROVE  IInv'
<1>1. Closed \in FlowStates /\ Closed.step # "probing" /\ Closed.uid = None
  BY DEF Closed, FlowStates
<1> QED
  BY <1>1, StopKeeps DEF Close

LEMMA ShowFormKeeps ==
  ASSUME IInv, NEW f \in Flows, ShowForm(f)
  PROVE  IInv'
<1> DEFINE q == [flow[f] EXCEPT !.step = "form",
                                !.pump = IF flow[f].kind = "manual" THEN flow[f].pump ELSE None]
<1>1. flow[f] \in FlowStates
  BY DEF IInv, TypeOK
<1>2. q \in FlowStates /\ q.step # "probing" /\ q.uid = flow[f].uid
  BY <1>1 DEF FlowStates
<1>3. flow' = [flow EXCEPT ![f] = q] /\ UNCHANGED <<data, uid, reload, client, history>>
  BY <1>1 DEF ShowForm, FlowStates, IInv, TypeOK
<1> HIDE DEF q
<1> QED
  BY <1>2, <1>3, StopKeeps

-----------------------------------------------------------------------------
(***************************************************************************)
(* The steps of a flow.                                                    *)
(***************************************************************************)
LEMMA FlowStepKeeps ==
  ASSUME IInv, NEW f \in Flows, FlowStep(f)
  PROVE  IInv'
<1>0. flow[f] \in FlowStates /\ flow[f].uid \in AllPumps \cup {None}
  BY DEF IInv, TypeOK, FlowStates
<1>a. flow[f].step = "probing" => HoldsPump(f)
  BY DEF IInv, FlowsHoldTheirPumps
<1>b. flow[f].step = "probing" => CheckStands(f)
  BY DEF IInv, ChecksStand
<1>c. flow[f].uid = None \/ \A g \in Flows \ {f} : flow[g].uid # flow[f].uid
  BY DEF IInv, FlowsHoldTheirPumps
<1>1. ASSUME NEW x \in TcpEndpoints, SubmitTcp(f, x) PROVE IInv'
  <2> DEFINE p == [endpoint |-> x, protocol |-> None, unit |-> None]
  <2>1. p \in Undetected /\ p \in AllPumps
    BY DEF Undetected, AllPumps
  <2>2. Probe(f, "tcp", p, flow[f].uid, None)
    BY <1>1 DEF SubmitTcp
  <2> HIDE DEF p
  <2> QED
    BY <1>0, <1>c, <2>1, <2>2, ProbeKeeps
<1>2. ASSUME NEW p \in Pumps(TcpEndpoints), TcpFound(f, p) PROVE IInv'
  <2>1. p \in Pumps(TcpEndpoints \cup SerialPorts) /\ p.endpoint \notin SerialPorts
    BY PumpFacts, TcpIsNotSerial DEF Pumps
  <2>2. CASE UniqueIdFree(f, p)
    BY <1>2, <2>1, <2>2, CreateKeeps DEF TcpFound, UniqueIdFree
  <2>3. CASE ~UniqueIdFree(f, p)
    BY <1>2, <2>3, CloseKeeps DEF TcpFound
  <2> QED
    BY <2>2, <2>3
<1>3. ASSUME NEW p \in Pumps(TcpEndpoints), SubmitManual(f, p) PROVE IInv'
  <2>1. p \in AllPumps
    BY PumpsAreAllPumps
  <2> QED
    BY <1>0, <1>3, <1>c, <2>1, ProbeKeeps DEF SubmitManual
<1>4. ASSUME TcpUndetected(f) PROVE IInv'
  <2> DEFINE q == [flow[f] EXCEPT !.step = "form", !.kind = "manual"]
  <2>1. q \in FlowStates /\ q.step # "probing" /\ q.uid = flow[f].uid
    BY <1>0 DEF FlowStates
  <2>2. flow' = [flow EXCEPT ![f] = q] /\ UNCHANGED <<data, uid, reload, client, history>>
    BY <1>4 DEF TcpUndetected
  <2> HIDE DEF q
  <2> QED
    BY <2>1, <2>2, StopKeeps
<1>5. ASSUME ManualFound(f) PROVE IInv'
  <2> DEFINE p == flow[f].pump
  <2>1. p \in Pumps(TcpEndpoints)
    BY <1>5, <1>a DEF ManualFound, HoldsPump
  <2>2. p \in Pumps(TcpEndpoints \cup SerialPorts) /\ p.endpoint \notin SerialPorts
    BY <2>1, PumpFacts, TcpIsNotSerial DEF Pumps
  <2>3. CASE UniqueIdFree(f, p)
    BY <1>5, <2>2, <2>3, CreateKeeps DEF ManualFound, UniqueIdFree
  <2>4. CASE ~UniqueIdFree(f, p)
    BY <1>5, <2>4, CloseKeeps DEF ManualFound
  <2> QED
    BY <2>3, <2>4
<1>6. ASSUME NEW p \in Pumps(SerialPorts), SubmitSerial(f, p) PROVE IInv'
  <2>1. p \in AllPumps
    BY PumpsAreAllPumps
  <2>2. CASE UniqueIdFree(f, p)
    <3>1. Probe(f, "serial", p, p, None) /\ BusCompatible(None, p)
      BY <1>6, <2>2 DEF SubmitSerial
    <3>2. \A g \in Flows \ {f} : flow[g].uid # p
      BY <2>2 DEF UniqueIdFree
    <3>3. \A x \in Entries : uid[x] # p
      BY <2>2 DEF UniqueIdFree
    <3>4. \A x \in Entries \ (escaped' \cup {None}) : data[x] # p
      BY <3>1, <3>3 DEF Probe, Unseen
    <3> QED
      BY <2>1, <3>1, <3>2, <3>3, <3>4, ProbeKeeps
  <2>3. CASE ~UniqueIdFree(f, p)
    BY <1>6, <2>3, CloseKeeps DEF SubmitSerial
  <2> QED
    BY <2>2, <2>3
<1>7. ASSUME SerialFound(f) PROVE IInv'
  <2> DEFINE p == flow[f].pump
  <2>1. CreateEntry(f, p) /\ flow[f].step = "probing" /\ flow[f].kind = "serial"
    BY <1>7 DEF SerialFound
  <2>2. p \in Pumps(SerialPorts) /\ flow[f].entry = None
    BY <1>a, <2>1 DEF HoldsPump
  <2>3. p \in Pumps(TcpEndpoints \cup SerialPorts)
    BY <2>2 DEF Pumps
  <2>4. /\ BusCompatible(None, p) \/ p.endpoint \in contested
        /\ \A x \in Entries \ escaped : uid[x] # p
    BY <1>b, <2>1, <2>2 DEF CheckStands
  <2> HIDE DEF p
  <2> QED
    BY <2>1, <2>3, <2>4, CreateKeeps
<1>8. ASSUME NEW e \in EntryIds, NEW p \in Pumps(TcpEndpoints) \cup Undetected,
             SubmitReconfigureTcp(f, e, p)
      PROVE  IInv'
  <2>1. p \in AllPumps /\ p.endpoint \in TcpEndpoints
    BY PumpsAreAllPumps, PumpFacts DEF Undetected, AllPumps
  <2>2. e \in Entries /\ data[e].endpoint \in TcpEndpoints /\ Probe(f, "retcp", p, None, e)
    BY <1>8 DEF SubmitReconfigureTcp
  <2> QED
    BY <2>1, <2>2, ProbeKeeps
<1>9. ASSUME NEW p \in Pumps(TcpEndpoints), ReconfigureTcpFound(f, p) PROVE IInv'
  <2>1. /\ p \in Pumps(TcpEndpoints \cup SerialPorts)
        /\ p.endpoint \in TcpEndpoints /\ p.endpoint \notin SerialPorts
    BY PumpFacts, TcpIsNotSerial DEF Pumps
  <2>2. flow[f].entry \in Entries /\ data[flow[f].entry].endpoint \in TcpEndpoints
    BY <1>9, <1>a DEF ReconfigureTcpFound, HoldsPump
  <2>3. CASE IdentityFree(flow[f].entry, p)
    BY <1>9, <2>1, <2>2, <2>3, UpdateKeeps DEF ReconfigureTcpFound, IdentityFree
  <2>4. CASE ~IdentityFree(flow[f].entry, p)
    BY <1>9, <2>4, ShowFormKeeps DEF ReconfigureTcpFound
  <2> QED
    BY <2>3, <2>4
<1>10. ASSUME NEW e \in EntryIds, NEW p \in Pumps(SerialPorts), SubmitReconfigureSerial(f, e, p)
       PROVE  IInv'
  <2>1. p \in AllPumps
    BY PumpsAreAllPumps
  <2>2. /\ e \in Entries /\ data[e].endpoint \in SerialPorts /\ p.protocol = data[e].protocol
        /\ BusCompatible(e, p) /\ Probe(f, "reserial", p, None, e)
        /\ \A x \in Entries \ {e} : data[x] # p
    BY <1>10 DEF SubmitReconfigureSerial, IdentityFree
  <2> QED
    BY <2>1, <2>2, ProbeKeeps
<1>11. ASSUME ReconfigureSerialFound(f) PROVE IInv'
  <2> DEFINE p == flow[f].pump
             e == flow[f].entry
  <2>1. UpdateEntry(f, p) /\ flow[f].step = "probing" /\ flow[f].kind = "reserial"
    BY <1>11 DEF ReconfigureSerialFound
  <2>2. /\ e \in Entries /\ data[e].endpoint \in SerialPorts
        /\ p \in Pumps(SerialPorts) /\ p.protocol = data[e].protocol
    BY <1>a, <2>1 DEF HoldsPump
  <2>3. p \in Pumps(TcpEndpoints \cup SerialPorts) /\ p.endpoint \notin TcpEndpoints
    BY <2>2, PumpFacts, EndpointAssumption DEF Pumps
  <2>4. /\ BusCompatible(e, p) \/ p.endpoint \in contested
        /\ \A x \in Entries \ (escaped \cup {e}) : data[x] # p
    BY <1>b, <2>1 DEF CheckStands
  <2> HIDE DEF p
  <2> QED
    BY <2>1, <2>2, <2>3, <2>4, UpdateKeeps
<1>12. ASSUME ProbeFails(f) PROVE IInv'
  BY <1>12, ShowFormKeeps DEF ProbeFails
<1>13. ASSUME Abandon(f) PROVE IInv'
  BY <1>13, CloseKeeps DEF Abandon
<1> QED
  BY <1>1, <1>2, <1>3, <1>4, <1>5, <1>6, <1>7, <1>8, <1>9, <1>10, <1>11, <1>12, <1>13
     DEF FlowStep

LEMMA NextKeepsIInv == IInv /\ [Next]_vars => IInv'
<1> SUFFICES ASSUME IInv, [Next]_vars
             PROVE  IInv'
  OBVIOUS
<1>1. CASE UNCHANGED vars
  <2>1. UNCHANGED <<data, uid, reload, client, flow, escaped, contested, replaced>>
    BY <1>1 DEF vars, history
  <2>2. Entries' = Entries
    BY <2>1 DEF Entries
  <2>3. /\ TypeOK' /\ OneEntryPerPump' /\ UniqueIdIsIdentity' /\ OneProtocolPerBus'
        /\ NeverReplaced' /\ ClientsKeepTheirTransport'
    BY <2>1, <2>2
       DEF IInv, ClientsKeepTheirTransport, TypeOK, OneEntryPerPump, UniqueIdIsIdentity, OneProtocolPerBus, NeverReplaced
  <2>4. FlowsHoldTheirPumps'
    BY <2>1, <2>2 DEF IInv, FlowsHoldTheirPumps, HoldsPump
  <2>5. ChecksStand'
    BY <2>1, <2>2 DEF IInv, ChecksStand, CheckStands, BusCompatible
  <2> QED
    BY <2>3, <2>4, <2>5 DEF IInv
<1>2. ASSUME NEW f \in Flows, FlowStep(f) PROVE IInv'
  BY <1>2, FlowStepKeeps
<1>3. ASSUME NEW e \in EntryIds, SetupBegins(e) \/ SetupUnanswered(e) PROVE IInv'
  BY <1>3, SetupBeginsKeeps, SetupUnansweredKeeps
<1>6. ASSUME NEW e \in EntryIds, NEW p \in AllPumps, SetupAnswers(e, p) PROVE IInv'
  BY <1>6, SetupAnswersKeeps
<1>4. CASE Restart
  BY <1>4, RestartKeeps
<1>5. ASSUME NEW e \in EntryIds, RemoveEntry(e) PROVE IInv'
  BY <1>5, RemoveKeeps
<1> QED
  BY <1>1, <1>2, <1>3, <1>4, <1>5, <1>6 DEF Next

-----------------------------------------------------------------------------
\* The inductive invariant: every step of every flow, setup, restart and
\* removal of config_flow.py and __init__.py keeps it.
THEOREM InductiveInvariant == Spec => []IInv
  BY InitIInv, NextKeepsIInv, PTL DEF Spec

\* A pump is configured once, for any number of entries and flows, but for the
\* entries a check did not see: stored behind a serial flow's checks, found under
\* their former unique id, or turned into another's pump by their own setup.
THEOREM UniquePumps == Spec => []OneEntryPerPump
<1>1. IInv => OneEntryPerPump
  BY DEF IInv
<1> QED
  BY <1>1, InductiveInvariant, PTL

\* Between reloads the unique id that _sync_entry_unique_id keeps is the stored
\* pump's identity, whatever was reconfigured during a setup, of every entry that
\* no check missed.
THEOREM IdentityKept == Spec => []UniqueIdIsIdentity
<1>1. IInv => UniqueIdIsIdentity
  BY DEF IInv
<1> QED
  BY <1>1, InductiveInvariant, PTL

\* The checks before a serial probe keep one protocol on a line, but for one way:
\* an entry stored behind them while the probe ran.
THEOREM BusesKeepProtocol == Spec => []OneProtocolPerBus
<1>1. IInv => OneProtocolPerBus
  BY DEF IInv
<1> QED
  BY <1>1, InductiveInvariant, PTL

\* async_create_entry replaces no entry with the flow's unique id but one that the
\* flow's checks did not see.
THEOREM NobodyReplaced == Spec => []NeverReplaced
<1>1. IInv => NeverReplaced
  BY DEF IInv
<1> QED
  BY <1>1, InductiveInvariant, PTL
=============================================================================
