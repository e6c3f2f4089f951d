----------------------------- MODULE SerialPort -----------------------------
(***************************************************************************)
(* SerialTransport of transport.py: several clients, each with a transport *)
(* of its own, on one RS485 adapter.  The bus manager is the fair lock of  *)
(* FifoLock, which Rs485Bus implements.                                    *)
(*                                                                         *)
(* Every transaction opens the port, sends one frame, reads one reply if   *)
(* it expects one, and closes the port.  A pump may answer late: its reply *)
(* is then heard by whichever port is open, or by none.                    *)
(***************************************************************************)
EXTENDS Naturals, FiniteSets, Sequences

CONSTANTS
    Transports,  \* the transports on this adapter; also names their pumps
    Guard,       \* inter_frame_delay
    InputBound,  \* replies kept in the input buffer of an open port
    AirBound,    \* replies on their way at a time
    Nobody

ASSUME SerialAssumption ==
    /\ Guard \in Nat \ {0}
    /\ InputBound \in Nat \ {0} /\ AirBound \in Nat \ {0}
    /\ Nobody \notin Transports

VARIABLES
    owner, queued, before,  \* the bus manager
    op,         \* the transaction: "none", "exchange", "send", "test", "close"
    step,       \* "idle", "queued", "ready" (owns the bus), "wire" (frame sent)
    open,       \* self._writer is not None
    input,      \* the replies in the input buffer of the open port
    guardLeft,  \* last_exchange_end + inter_frame_delay - now
    air,        \* replies on their way from the pumps
    silence,    \* time since a frame of a transaction in progress, up to Guard
    cancelled,  \* the transports whose last transaction was cancelled on the wire
    late,       \* the transports that gave up an exchange whose reply may turn up
    unrecorded  \* the last transaction on the wire did not record its end

lockVars == <<owner, queued, before>>
taskVars == <<op, step>>
portVars == <<open, input, guardLeft>>
wireVars == <<air, silence>>
history  == <<cancelled, late, unrecorded>>
vars == <<lockVars, taskVars, portVars, wireVars, history>>

Lock == INSTANCE FifoLock WITH Tasks <- Transports

\* A reply: its pump, what it answers, and whether it answers the last request.
Replies == [unit : Transports, to : {"exchange", "send"}, last : BOOLEAN]

Init ==
    /\ Lock!Init
    /\ op = [t \in Transports |-> "none"]
    /\ step = [t \in Transports |-> "idle"]
    /\ open = [t \in Transports |-> FALSE]
    /\ input = [t \in Transports |-> <<>>]
    /\ guardLeft = 0
    /\ air = {} /\ silence = Guard
    /\ cancelled = {} /\ late = {} /\ unrecorded = FALSE

-----------------------------------------------------------------------------
\* Mutant: the writer is forgotten but not closed.
ForgetConnection(t) == UNCHANGED <<open, input>>

\* _drop_connection
DropConnection(t) ==
    /\ open' = [open EXCEPT ![t] = FALSE]
    /\ input' = [input EXCEPT ![t] = <<>>]

\* Mutant: an early return forgets to release the bus.
LeaveHolding(t) ==
    /\ op' = [op EXCEPT ![t] = "none"]
    /\ step' = [step EXCEPT ![t] = "idle"]
    /\ UNCHANGED lockVars

\* The end of the transaction: the bus goes on.
Leave(t) ==
    /\ Lock!Done
    /\ op' = [op EXCEPT ![t] = "none"]
    /\ step' = [step EXCEPT ![t] = "idle"]

\* Mutant: the time of the exchange is not recorded.
UnrecordedEnd == UNCHANGED guardLeft

RecordEnd == guardLeft' = Guard

\* Replies to t's status requests.
Own(t, r) == r.unit = t /\ r.to = "exchange"

\* The exchange was answered: a transport that gave one up before has nothing to
\* wait for any more, unless there still is a reply in the air or another port.
Answered(t) ==
    late' = late \ {u \in {t} :
              /\ \A r \in air : ~Own(t, r)
              /\ \A p \in Transports \ {t} : \A i \in DOMAIN input[p] : ~Own(t, input[p][i])}

\* The transaction ends without an answer.
GivesUp(t) == late' = late \cup {u \in {t} : step[t] = "wire" /\ op[t] = "exchange"}

\* A transaction begins: it queues for the bus.
Request(t, kind) ==
    /\ step[t] = "idle"
    /\ op' = [op EXCEPT ![t] = kind]
    /\ \/ Lock!AskFree(t) /\ step' = [step EXCEPT ![t] = "ready"]
       \/ /\ owner # Nobody \/ queued # {}
          /\ Lock!Ask(t) /\ step' = [step EXCEPT ![t] = "queued"]
    /\ UNCHANGED <<portVars, wireVars, history>>

Granted(t) ==
    /\ step[t] = "queued"
    /\ Lock!Grant(t)
    /\ step' = [step EXCEPT ![t] = "ready"]
    /\ UNCHANGED <<op, portVars, wireVars, history>>

Outdated(t, r) == [r EXCEPT !.last = @ /\ r.unit # t]

\* After the guard time the port is opened, unless it still is, and the frame
\* goes out.  The pump may answer, a write included.
SendFrame(t, answers) ==
    /\ step[t] = "ready" /\ op[t] \in {"exchange", "send"} /\ guardLeft = 0
    /\ answers => Cardinality(air) < AirBound
    /\ step' = [step EXCEPT ![t] = "wire"]
    /\ open' = [open EXCEPT ![t] = TRUE]
    /\ air' = {Outdated(t, r) : r \in air} \cup
               IF answers THEN {[unit |-> t, to |-> op[t], last |-> TRUE]} ELSE {}
    /\ input' = [p \in Transports |->
                   [i \in DOMAIN input[p] |-> Outdated(t, input[p][i])]]
    /\ silence' = 0
    /\ cancelled' = cancelled \ {t}
    /\ UNCHANGED <<lockVars, op, guardLeft, late, unrecorded>>

\* The port cannot be opened: missing, or opened exclusively by someone else.
OpenFails(t) ==
    /\ step[t] = "ready" /\ op[t] # "close" /\ ~open[t]
    /\ op[t] # "test" => guardLeft = 0
    /\ DropConnection(t)
    /\ Leave(t)
    /\ UNCHANGED <<guardLeft, wireVars, history>>

\* test_connection opens the port and drops it; close() only drops it.
TestOrClose(t) ==
    /\ step[t] = "ready" /\ op[t] \in {"test", "close"}
    /\ DropConnection(t)
    /\ Leave(t)
    /\ cancelled' = cancelled \ {t}
    /\ UNCHANGED <<guardLeft, wireVars, late, unrecorded>>

\* A reply is heard by one of the open ports, or is lost on a closed one.
ReplyArrives(r) ==
    /\ air' = air \ {r}
    /\ silence' = IF \E t \in Transports : step[t] = "wire" THEN 0 ELSE silence
    /\ \/ \E p \in Transports :
             /\ open[p] /\ Len(input[p]) < InputBound
             /\ input' = [input EXCEPT ![p] = Append(@, r)]
       \/ (\A p \in Transports : ~open[p] \/ Len(input[p]) = InputBound) /\ UNCHANGED input
    /\ UNCHANGED <<lockVars, taskVars, open, guardLeft, history>>

\* Mutant: any well-formed frame from the own pump passes for the reply.
DecodesByUnit(t, r) == r.unit = t

\* The decoders: address and function code must be those of the request.
Decodes(t, r) == Own(t, r)

\* The first reply in the buffer is taken for the answer.
ExchangeCompletes(t) ==
    /\ step[t] = "wire" /\ op[t] = "exchange" /\ input[t] # <<>>
    /\ DropConnection(t)
    /\ RecordEnd /\ unrecorded' = FALSE
    /\ Leave(t)
    /\ IF Decodes(t, Head(input[t])) THEN Answered(t) ELSE GivesUp(t)
    /\ UNCHANGED <<wireVars, cancelled>>

\* A write stays open for its own time on the wire, then closes.
SendCompletes(t) ==
    /\ step[t] = "wire" /\ op[t] = "send"
    /\ DropConnection(t)
    /\ RecordEnd /\ unrecorded' = FALSE
    /\ Leave(t)
    /\ UNCHANGED <<wireVars, cancelled, late>>

\* asyncio.timeout, a short frame or a driver error.
TransactionFails(t) ==
    /\ step[t] = "wire"
    /\ DropConnection(t)
    /\ Leave(t)
    /\ GivesUp(t)
    /\ unrecorded' = TRUE
    /\ UNCHANGED <<guardLeft, wireVars, cancelled>>

\* The calling task is cancelled.  A waiter leaves the queue, an owner
\* releases the bus; the handlers catch Exception, so the port stays as it is.
CancelQueued(t) ==
    /\ step[t] = "queued"
    /\ Lock!Withdraw(t)
    /\ op' = [op EXCEPT ![t] = "none"]
    /\ step' = [step EXCEPT ![t] = "idle"]
    /\ UNCHANGED <<portVars, wireVars, history>>

CancelOwner(t) ==
    /\ step[t] \in {"ready", "wire"}
    /\ Leave(t)
    /\ GivesUp(t)
    /\ IF step[t] = "wire"
         THEN cancelled' = cancelled \cup {t} /\ unrecorded' = TRUE
         ELSE UNCHANGED <<cancelled, unrecorded>>
    /\ UNCHANGED <<portVars, wireVars>>

Tick ==
    /\ silence < Guard \/ guardLeft > 0
    /\ silence' = IF silence < Guard THEN silence + 1 ELSE Guard
    /\ guardLeft' = IF guardLeft > 0 THEN guardLeft - 1 ELSE 0
    /\ UNCHANGED <<lockVars, taskVars, open, input, air, history>>

Transaction(t) ==
    \/ \E kind \in {"exchange", "send", "test", "close"} : Request(t, kind)
    \/ Granted(t)
    \/ \E answers \in BOOLEAN : SendFrame(t, answers)
    \/ OpenFails(t) \/ TestOrClose(t)
    \/ ExchangeCompletes(t) \/ SendCompletes(t) \/ TransactionFails(t)
    \/ CancelQueued(t) \/ CancelOwner(t)

Next ==
    \/ \E t \in Transports : Transaction(t)
    \/ \E r \in air : ReplyArrives(r)
    \/ Tick

Spec == Init /\ [][Next]_vars

-----------------------------------------------------------------------------
TypeOK ==
    /\ owner \in Transports \cup {Nobody} /\ queued \subseteq Transports
    /\ before \subseteq Transports \X Transports
    /\ op \in [Transports -> {"none", "exchange", "send", "test", "close"}]
    /\ step \in [Transports -> {"idle", "queued", "ready", "wire"}]
    /\ open \in [Transports -> BOOLEAN]
    /\ input \in [Transports -> Seq(Replies)]
    /\ guardLeft \in 0..Guard /\ silence \in 0..Guard
    /\ air \subseteq Replies
    /\ cancelled \subseteq Transports /\ late \subseteq Transports /\ unrecorded \in BOOLEAN

\* A port is open only inside its transaction on the wire, or because that
\* transaction was cancelled there: every return, error and timeout closes it.
OpenOnlyOnWire ==
    \A t \in Transports : open[t] => step[t] = "wire" \/ t \in cancelled

\* The steps and the bus manager agree, and a closed port has read nothing.
Agreement == \A t \in Transports :
    /\ owner = t <=> step[t] \in {"ready", "wire"}
    /\ t \in queued <=> step[t] = "queued"
    /\ step[t] = "wire" => op[t] \in {"exchange", "send"} /\ open[t]
    /\ ~open[t] => input[t] = <<>>

\* Between transactions the rest of the guard time makes up for what the
\* silence lacks, unless the last one ended without recording its end.
SilenceIsCounted ==
    ~unrecorded /\ (\A t \in Transports : step[t] # "wire") => silence + guardLeft >= Guard

OnWire(t) == step[t] = "wire" /\ op[t] = "exchange"

\* There is one reply at most to t's status requests, in the air or in one buffer,
\* and it answers the request that is on the wire.
OneReply(t) ==
    /\ \A r \in air : Own(t, r) => r.last /\ OnWire(t)
    /\ \A p \in Transports : \A i \in DOMAIN input[p] : Own(t, input[p][i]) =>
          /\ input[p][i].last /\ OnWire(t)
          /\ \A r \in air : ~Own(t, r)
          /\ \A q \in Transports : \A j \in DOMAIN input[q] :
                Own(t, input[q][j]) => p = q /\ i = j

\* So it is for every transport that has not given up an exchange, whatever the
\* others did.
NothingStale == \A t \in Transports \ late : OneReply(t)

IInv == TypeOK /\ Agreement /\ OpenOnlyOnWire /\ SilenceIsCounted /\ NothingStale

\* A frame goes out only after the bus was silent for the guard time since the
\* last transaction, whichever transport it was, unless that one failed or was
\* cancelled: the transactions before it, however they ended, do not matter.
SilenceBeforeFrames ==
    [][\A t \in Transports :
         step[t] = "ready" /\ step'[t] = "wire" => silence = Guard \/ unrecorded]_vars

\* A decoder accepts nothing but the reply to the status request just sent: no
\* write acknowledgement, nothing that is meant for another transport however
\* late, and no earlier reply; but after an exchange of its own that timed out or
\* was cancelled, or whose reply it did not take, that one's late reply passes.
AcceptsTheAnswer ==
    \A t \in Transports \ late :
        /\ step[t] = "wire" /\ op[t] = "exchange"
        /\ input[t] # <<>> /\ Decodes(t, Head(input[t]))
        => Head(input[t]).unit = t /\ Head(input[t]).to = "exchange" /\ Head(input[t]).last

\* "Direct serial entries sharing one adapter must never keep competing file
\* descriptors open" (SerialTransport.exchange).
NoCompetingDescriptors ==
    \A s, t \in Transports : open[s] /\ open[t] => s = t
=============================================================================
