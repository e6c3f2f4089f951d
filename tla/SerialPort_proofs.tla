-------------------------- MODULE SerialPort_proofs --------------------------
(***************************************************************************)
(* Proofs about the serial port, for any transports, guard time and        *)
(* bounds: the port is closed when the bus is released, the wire is silent *)
(* before a frame, and a decoder accepts only the answer to its request.   *)
(***************************************************************************)
EXTENDS SerialPort, SequenceTheorems, TLAPS

\* Nothing is open, asked for or on its way.
LEMMA InitIInv == Init => IInv
<1> SUFFICES ASSUME Init
             PROVE  IInv
  OBVIOUS
<1>1. input \in [Transports -> Seq(Replies)]
  <2>1. <<>> \in Seq(Replies)
    OBVIOUS
  <2> QED
    BY <2>1 DEF Init
<1>2. TypeOK
  <2>1. 0 \in 0..Guard /\ Guard \in 0..Guard
    BY SerialAssumption
  <2>2. /\ op \in [Transports -> {"none", "exchange", "send", "test", "close"}]
        /\ step \in [Transports -> {"idle", "queued", "ready", "wire"}]
        /\ open \in [Transports -> BOOLEAN]
    BY DEF Init
  <2> QED
    BY <1>1, <2>1, <2>2 DEF Init, Lock!Init, TypeOK
<1>3. Agreement /\ OpenOnlyOnWire
  BY SerialAssumption DEF Init, Lock!Init, Agreement, OpenOnlyOnWire
<1>4. SilenceIsCounted
  BY SerialAssumption DEF Init, SilenceIsCounted
<1>5. NothingStale
  BY DEF Init, NothingStale, OneReply
<1> QED
  BY <1>2, <1>3, <1>4, <1>5 DEF IInv

\* The bus has one owner, so one transaction is past its wait.
LEMMA OneOwner ==
  ASSUME IInv, NEW s \in Transports, NEW t \in Transports,
         step[s] \in {"ready", "wire"}, step[t] \in {"ready", "wire"}
  PROVE  s = t
  BY DEF IInv, Agreement

NoReply(t) ==
    /\ \A r \in air : ~Own(t, r)
    /\ \A p \in Transports : \A i \in DOMAIN input[p] : ~Own(t, input[p][i])

\* A transport without an exchange on the wire has no reply to come, unless it
\* gave one up.
LEMMA NoneOffTheWire ==
  ASSUME IInv, NEW t \in Transports \ late, ~OnWire(t)
  PROVE  NoReply(t)
  BY DEF IInv, NothingStale, OneReply, NoReply

LEMMA NoneIsOne ==
  ASSUME NEW t, NoReply(t)'
  PROVE  OneReply(t)'
  BY DEF NoReply, OneReply

\* A transaction that only moves between the waits of the bus.
LEMMA WaitKeeps ==
  ASSUME IInv, NEW t \in Transports, NEW now \in {"idle", "queued", "ready"},
         step[t] # "wire", step' = [step EXCEPT ![t] = now],
         op' \in [Transports -> {"none", "exchange", "send", "test", "close"}],
         \A s \in Transports \ {t} : op'[s] = op[s],
         owner' \in Transports \cup {Nobody}, queued' \subseteq Transports,
         before' \subseteq Transports \X Transports,
         owner' = t <=> now = "ready", t \in queued' <=> now = "queued",
         \A s \in Transports \ {t} :
            (owner' = s <=> owner = s) /\ (s \in queued' <=> s \in queued),
         UNCHANGED <<portVars, wireVars, history>>
  PROVE  IInv'
<1>1. step'[t] = now /\ \A s \in Transports \ {t} : step'[s] = step[s]
  BY DEF IInv, TypeOK
<1>2. UNCHANGED <<open, input, guardLeft, air, silence, cancelled, late, unrecorded>>
  BY DEF portVars, wireVars, history
<1>3. \A s \in Transports : step'[s] = "wire" <=> step[s] = "wire"
  BY <1>1
<1>4. TypeOK'
  BY <1>2 DEF IInv, TypeOK
<1>5. Agreement'
  BY <1>1, <1>2 DEF IInv, Agreement
<1>6. OpenOnlyOnWire' /\ SilenceIsCounted'
  BY <1>2, <1>3 DEF IInv, OpenOnlyOnWire, SilenceIsCounted
<1>7. NothingStale'
  <2>1. \A s \in Transports : OnWire(s) => OnWire(s)'
    BY <1>1 DEF OnWire
  <2>2. ASSUME NEW s \in Transports \ late
        PROVE  OneReply(s)'
    <3>1. OneReply(s) /\ (OnWire(s) => OnWire(s)')
      BY <2>1, <2>2 DEF IInv, NothingStale
    <3> QED
      BY <1>2, <3>1 DEF OneReply
  <2> QED
    BY <1>2, <2>2 DEF NothingStale
<1> QED
  BY <1>4, <1>5, <1>6, <1>7 DEF IInv

LEMMA RequestKeeps ==
  ASSUME IInv, NEW t \in Transports, NEW kind \in {"exchange", "send", "test", "close"},
         Request(t, kind)
  PROVE  IInv'
<1>1. step[t] = "idle" /\ owner # t /\ t \notin queued
  BY DEF Request, IInv, Agreement
<1>2. /\ op' \in [Transports -> {"none", "exchange", "send", "test", "close"}]
      /\ \A s \in Transports \ {t} : op'[s] = op[s]
  BY DEF Request, IInv, TypeOK
<1>3. CASE Lock!AskFree(t) /\ step' = [step EXCEPT ![t] = "ready"]
  <2>1. /\ owner' = t /\ queued' = queued /\ before' = before /\ owner = Nobody
    BY <1>3 DEF Lock!AskFree
  <2>2. /\ queued' \subseteq Transports /\ before' \subseteq Transports \X Transports
        /\ owner' \in Transports \cup {Nobody}
    BY <2>1 DEF IInv, TypeOK
  <2>3. \A s \in Transports \ {t} :
           (owner' = s <=> owner = s) /\ (s \in queued' <=> s \in queued)
    BY <2>1, SerialAssumption
  <2>4. step' = [step EXCEPT ![t] = "ready"] /\ step[t] # "wire"
    BY <1>1, <1>3
  <2>5. UNCHANGED <<portVars, wireVars, history>>
    BY DEF Request
  <2>6. (owner' = t <=> "ready" = "ready") /\ (t \in queued' <=> "ready" = "queued")
    BY <1>1, <2>1
  <2> QED
    BY <1>2, <2>2, <2>3, <2>4, <2>5, <2>6, WaitKeeps
<1>4. CASE Lock!Ask(t) /\ step' = [step EXCEPT ![t] = "queued"]
  <2>1. owner' = owner /\ queued' = queued \cup {t}
        /\ before' = before \cup {<<s, t>> : s \in queued}
    BY <1>4 DEF Lock!Ask
  <2>2. before' \subseteq Transports \X Transports
    BY <2>1 DEF IInv, TypeOK
  <2> QED
    BY <1>1, <1>2, <1>4, <2>1, <2>2, WaitKeeps DEF Request, IInv, TypeOK
<1> QED
  BY <1>3, <1>4 DEF Request

LEMMA GrantedKeeps ==
  ASSUME IInv, NEW t \in Transports, Granted(t)
  PROVE  IInv'
<1>1. /\ step[t] = "queued" /\ owner = Nobody
      /\ owner' = t /\ queued' = queued \ {t} /\ before' \subseteq before
      /\ step' = [step EXCEPT ![t] = "ready"] /\ op' = op
  BY DEF Granted, Lock!Grant, Lock!Without
<1>2. /\ queued' \subseteq Transports /\ before' \subseteq Transports \X Transports
      /\ op' \in [Transports -> {"none", "exchange", "send", "test", "close"}]
  BY <1>1 DEF IInv, TypeOK
<1>3. \A s \in Transports \ {t} :
         (owner' = s <=> owner = s) /\ (s \in queued' <=> s \in queued)
  BY <1>1, SerialAssumption
<1>4. UNCHANGED <<portVars, wireVars, history>>
  BY DEF Granted
<1> QED
  BY <1>1, <1>2, <1>3, <1>4, WaitKeeps

LEMMA CancelQueuedKeeps ==
  ASSUME IInv, NEW t \in Transports, CancelQueued(t)
  PROVE  IInv'
<1>1. /\ step[t] = "queued" /\ owner' = owner
      /\ queued' = queued \ {t} /\ before' \subseteq before
      /\ step' = [step EXCEPT ![t] = "idle"] /\ op' = [op EXCEPT ![t] = "none"]
  BY DEF CancelQueued, Lock!Withdraw, Lock!Without
<1>2. owner # t
  BY <1>1 DEF IInv, Agreement
<1>3. /\ op' \in [Transports -> {"none", "exchange", "send", "test", "close"}]
      /\ \A s \in Transports \ {t} : op'[s] = op[s]
  BY <1>1 DEF IInv, TypeOK
<1> QED
  BY <1>1, <1>2, <1>3, WaitKeeps DEF CancelQueued, IInv, TypeOK

\* A frame goes out into silence, and only its own reply can follow.
LEMMA SendFrameKeeps ==
  ASSUME IInv, NEW t \in Transports, NEW answers \in BOOLEAN, SendFrame(t, answers)
  PROVE  IInv'
<1> DEFINE reply == [unit |-> t, to |-> op[t], last |-> TRUE]
<1>1. /\ step[t] = "ready" /\ op[t] \in {"exchange", "send"}
      /\ step' = [step EXCEPT ![t] = "wire"]
      /\ open' = [open EXCEPT ![t] = TRUE]
      /\ air' = {Outdated(t, r) : r \in air} \cup IF answers THEN {reply} ELSE {}
      /\ input' = [p \in Transports |->
                     [i \in DOMAIN input[p] |-> Outdated(t, input[p][i])]]
      /\ silence' = 0 /\ cancelled' = cancelled \ {t}
      /\ owner' = owner /\ queued' = queued /\ before' = before
      /\ op' = op /\ guardLeft' = guardLeft
      /\ late' = late /\ unrecorded' = unrecorded
  BY DEF SendFrame, lockVars
<1>2. step'[t] = "wire" /\ \A s \in Transports \ {t} : step'[s] = step[s]
  BY <1>1 DEF IInv, TypeOK
<1>3. open'[t] /\ \A s \in Transports \ {t} : open'[s] = open[s]
  BY <1>1 DEF IInv, TypeOK
<1>4. \A r \in Replies : Outdated(t, r) \in Replies /\ Outdated(t, r).to = r.to
  BY DEF Outdated, Replies
<1>5. TypeOK'
  <2>1. reply \in Replies
    BY <1>1 DEF Replies
  <2>2. air' \subseteq Replies
    BY <1>1, <1>4, <2>1 DEF IInv, TypeOK
  <2>3. input' \in [Transports -> Seq(Replies)]
    <3>1. ASSUME NEW p \in Transports
          PROVE  [i \in DOMAIN input[p] |-> Outdated(t, input[p][i])] \in Seq(Replies)
      <4>1. input[p] \in Seq(Replies)
        BY DEF IInv, TypeOK
      <4>2. /\ DOMAIN input[p] = 1..Len(input[p]) /\ Len(input[p]) \in Nat
            /\ \A i \in DOMAIN input[p] : input[p][i] \in Replies
        BY <4>1
      <4>3. [i \in 1..Len(input[p]) |-> Outdated(t, input[p][i])]
              \in [1..Len(input[p]) -> Replies]
        BY <1>4, <4>2
      <4> QED
        BY <4>2, <4>3, SeqDef
    <3> QED
      BY <1>1, <3>1
  <2>4. step' \in [Transports -> {"idle", "queued", "ready", "wire"}]
    BY <1>1 DEF IInv, TypeOK
  <2>5. open' \in [Transports -> BOOLEAN]
    BY <1>1 DEF IInv, TypeOK
  <2> QED
    BY <1>1, <2>2, <2>3, <2>4, <2>5, SerialAssumption DEF IInv, TypeOK
<1>6. \A p \in Transports : input[p] = <<>> => input'[p] = <<>>
  BY <1>1
<1>7. Agreement'
  BY <1>1, <1>2, <1>3, <1>6 DEF IInv, Agreement
<1>8. OpenOnlyOnWire'
  BY <1>1, <1>2, <1>3 DEF IInv, OpenOnlyOnWire
<1>9. SilenceIsCounted'
  BY <1>2 DEF SilenceIsCounted
<1>10. NothingStale'
  <2>1. ASSUME NEW p \in Transports
        PROVE  /\ DOMAIN input'[p] = DOMAIN input[p]
               /\ \A i \in DOMAIN input[p] :
                     input[p][i] \in Replies /\ input'[p][i] = Outdated(t, input[p][i])
    <3>1. input[p] \in Seq(Replies)
      BY DEF IInv, TypeOK
    <3>2. input'[p] = [i \in DOMAIN input[p] |-> Outdated(t, input[p][i])]
      BY <1>1
    <3>3. \A i \in DOMAIN input[p] : input[p][i] \in Replies
      BY <3>1
    <3> QED
      BY <3>2, <3>3
  <2>2. \A s \in Transports \ {t} : \A r \in Replies : Own(s, r) => Outdated(t, r) = r
    BY DEF Own, Outdated, Replies
  <2>3. \A s \in Transports : \A r \in Replies : Own(s, Outdated(t, r)) => Own(s, r)
    BY DEF Own, Outdated, Replies
  <2>4. ASSUME NEW s \in Transports \ late, s # t
        PROVE  OneReply(s)'
    <3>1. OneReply(s) /\ (OnWire(s) => OnWire(s)')
      BY <1>1, <1>2, <2>4 DEF IInv, NothingStale, OnWire
    <3>2. \A r \in air' : Own(s, r) => r \in air
      <4>1. ~Own(s, reply)
        BY <2>4 DEF Own
      <4>2. \A r \in air : Own(s, Outdated(t, r)) => Outdated(t, r) = r
        BY <2>2, <2>3, <2>4 DEF IInv, TypeOK
      <4> HIDE DEF reply
      <4> QED
        BY <1>1, <4>1, <4>2
    <3>3. ASSUME NEW p \in Transports, NEW i \in DOMAIN input'[p], Own(s, input'[p][i])
          PROVE  i \in DOMAIN input[p] /\ input'[p][i] = input[p][i]
      BY <2>1, <2>2, <2>3, <2>4, <3>3
    <3> QED
      BY <3>1, <3>2, <3>3 DEF OneReply
  <2>5. ASSUME t \notin late
        PROVE  OneReply(t)'
    <3>1. NoReply(t)
      BY <1>1, <2>5, NoneOffTheWire DEF OnWire
    <3>2. \A p \in Transports : \A i \in DOMAIN input'[p] : ~Own(t, input'[p][i])
      BY <2>1, <2>3, <3>1 DEF NoReply
    <3>3. \A r \in air : ~Own(t, Outdated(t, r))
      BY <2>3, <3>1 DEF NoReply, IInv, TypeOK
    <3>4. ASSUME NEW r \in air', Own(t, r)
          PROVE  r.last /\ OnWire(t)'
      <4>1. r = reply
        BY <1>1, <3>3, <3>4
      <4> QED
        BY <1>1, <1>2, <3>4, <4>1 DEF Own, OnWire
    <3> QED
      BY <3>2, <3>4 DEF OneReply
  <2> QED
    BY <1>1, <2>4, <2>5 DEF NothingStale
<1> QED
  BY <1>5, <1>7, <1>8, <1>9, <1>10 DEF IInv

\* The end of a transaction that closes the port, whatever it recorded.
LEMMA CloseKeeps ==
  ASSUME IInv, NEW t \in Transports, step[t] \in {"ready", "wire"},
         DropConnection(t), Leave(t),
         guardLeft' \in 0..Guard, silence' = silence, air' = air,
         cancelled' = cancelled \/ cancelled' = cancelled \ {t},
         unrecorded' \in BOOLEAN, ~unrecorded' => silence + guardLeft' >= Guard,
         late' \subseteq late \cup {t}, late \ {t} \subseteq late',
         t \notin late' =>
            /\ \A r \in air : ~Own(t, r)
            /\ \A p \in Transports \ {t} : \A i \in DOMAIN input[p] : ~Own(t, input[p][i])
  PROVE  IInv'
<1>1. /\ open' = [open EXCEPT ![t] = FALSE] /\ input' = [input EXCEPT ![t] = <<>>]
      /\ op' = [op EXCEPT ![t] = "none"] /\ step' = [step EXCEPT ![t] = "idle"]
      /\ owner' = Nobody /\ queued' = queued /\ before' = before
  BY DEF DropConnection, Leave, Lock!Done
<1>2. step'[t] = "idle" /\ \A s \in Transports \ {t} : step'[s] = step[s]
  BY <1>1 DEF IInv, TypeOK
<1>3. ~open'[t] /\ \A s \in Transports \ {t} : open'[s] = open[s]
  BY <1>1 DEF IInv, TypeOK
<1>4. input'[t] = <<>> /\ \A s \in Transports \ {t} : input'[s] = input[s]
  BY <1>1 DEF IInv, TypeOK
<1>5. \A s \in Transports \ {t} : op'[s] = op[s]
  BY <1>1 DEF IInv, TypeOK
<1>6. \A s \in Transports \ {t} : step[s] \notin {"ready", "wire"}
  BY OneOwner
<1>7. TypeOK'
  <2>1. open' \in [Transports -> BOOLEAN]
    BY <1>1 DEF IInv, TypeOK
  <2>2. input' \in [Transports -> Seq(Replies)]
    BY <1>1 DEF IInv, TypeOK
  <2>3. /\ op' \in [Transports -> {"none", "exchange", "send", "test", "close"}]
        /\ step' \in [Transports -> {"idle", "queued", "ready", "wire"}]
    BY <1>1 DEF IInv, TypeOK
  <2> QED
    BY <1>1, <2>1, <2>2, <2>3 DEF IInv, TypeOK
<1>8. Agreement'
  BY <1>1, <1>2, <1>3, <1>4, <1>5, <1>6, SerialAssumption DEF IInv, Agreement
<1>9. OpenOnlyOnWire'
  BY <1>2, <1>3 DEF IInv, OpenOnlyOnWire
<1>10. SilenceIsCounted'
  BY DEF SilenceIsCounted
<1>11. NothingStale'
  <2>1. ASSUME NEW s \in Transports \ late', s # t
        PROVE  OneReply(s)'
    <3>1. OneReply(s) /\ (OnWire(s) => OnWire(s)')
      BY <1>2, <1>5, <2>1 DEF IInv, NothingStale, OnWire
    <3>2. ASSUME NEW p \in Transports, NEW i \in DOMAIN input'[p]
          PROVE  i \in DOMAIN input[p] /\ input'[p][i] = input[p][i]
      BY <1>4, <3>2
    <3> QED
      BY <3>1, <3>2 DEF OneReply
  <2>2. ASSUME t \notin late'
        PROVE  OneReply(t)'
    <3>1. NoReply(t)'
      BY <1>4, <2>2 DEF NoReply
    <3> QED
      BY <3>1, NoneIsOne
  <2> QED
    BY <2>1, <2>2 DEF NothingStale
<1> QED
  BY <1>7, <1>8, <1>9, <1>10, <1>11 DEF IInv

\* The five ways to end a transaction and close its port.
LEMMA EndKeeps ==
  ASSUME IInv, NEW t \in Transports,
         \/ OpenFails(t) \/ TestOrClose(t)
         \/ ExchangeCompletes(t) \/ SendCompletes(t) \/ TransactionFails(t)
  PROVE  IInv'
<1>1. /\ guardLeft \in 0..Guard /\ silence \in 0..Guard /\ Guard \in 0..Guard
      /\ Guard \in Nat /\ unrecorded \in BOOLEAN /\ late \subseteq Transports
  BY SerialAssumption DEF IInv, TypeOK
<1>2. ~OnWire(t) => t \in late \/ NoReply(t)
  BY NoneOffTheWire
<1>3. CASE OpenFails(t) \/ TestOrClose(t)
  <2>1. /\ step[t] = "ready" /\ DropConnection(t) /\ Leave(t)
        /\ guardLeft' = guardLeft /\ silence' = silence /\ air' = air
        /\ late' = late /\ unrecorded' = unrecorded
        /\ cancelled' = cancelled \/ cancelled' = cancelled \ {t}
    BY <1>3 DEF OpenFails, TestOrClose, wireVars, history
  <2>2. ~unrecorded => silence + guardLeft >= Guard
    BY <2>1, OneOwner DEF IInv, SilenceIsCounted
  <2>3. t \in late \/ NoReply(t)
    BY <1>2, <2>1 DEF OnWire
  <2> QED
    BY <1>1, <2>1, <2>2, <2>3, CloseKeeps DEF NoReply
<1>4. CASE ExchangeCompletes(t)
  <2>1. /\ OnWire(t) /\ step[t] = "wire" /\ DropConnection(t) /\ Leave(t)
        /\ guardLeft' = Guard /\ silence' = silence /\ air' = air /\ cancelled' = cancelled
        /\ unrecorded' = FALSE /\ input[t] # <<>>
        /\ IF Decodes(t, Head(input[t])) THEN Answered(t) ELSE GivesUp(t)
    BY <1>4 DEF ExchangeCompletes, RecordEnd, OnWire, wireVars
  <2>2. late' \subseteq late \cup {t} /\ late \ {t} \subseteq late'
    BY <2>1 DEF Answered, GivesUp
  <2>3. ASSUME t \notin late'
        PROVE  /\ \A r \in air : ~Own(t, r)
               /\ \A p \in Transports \ {t} : \A i \in DOMAIN input[p] : ~Own(t, input[p][i])
    <3>1. Own(t, Head(input[t])) /\ Answered(t)
      BY <2>1, <2>3 DEF GivesUp, OnWire, Decodes
    <3>2. CASE t \in late
      BY <2>3, <3>1, <3>2 DEF Answered
    <3>3. CASE t \notin late
      <4>1. input[t] \in Seq(Replies)
        BY DEF IInv, TypeOK
      <4>2. 1 \in DOMAIN input[t] /\ Own(t, input[t][1])
        BY <2>1, <3>1, <4>1
      <4>3. OneReply(t)
        BY <3>3 DEF IInv, NothingStale
      <4> QED
        BY <4>2, <4>3 DEF OneReply
    <3> QED
      BY <3>2, <3>3
  <2>4. silence + guardLeft' >= Guard
    BY <1>1, <2>1
  <2> QED
    BY <1>1, <2>1, <2>2, <2>3, <2>4, CloseKeeps
<1>5. CASE SendCompletes(t)
  <2>1. /\ step[t] = "wire" /\ op[t] = "send" /\ DropConnection(t) /\ Leave(t)
        /\ guardLeft' = Guard /\ silence' = silence /\ air' = air
        /\ cancelled' = cancelled /\ late' = late /\ unrecorded' = FALSE
    BY <1>5 DEF SendCompletes, RecordEnd, wireVars
  <2>2. t \in late \/ NoReply(t)
    BY <1>2, <2>1 DEF OnWire
  <2>3. silence + guardLeft' >= Guard
    BY <1>1, <2>1
  <2> QED
    BY <1>1, <2>1, <2>2, <2>3, CloseKeeps DEF NoReply
<1>6. CASE TransactionFails(t)
  <2>1. /\ step[t] = "wire" /\ DropConnection(t) /\ Leave(t) /\ GivesUp(t)
        /\ guardLeft' = guardLeft /\ silence' = silence /\ air' = air
        /\ cancelled' = cancelled /\ unrecorded' = TRUE
    BY <1>6 DEF TransactionFails, wireVars
  <2>2. late' \subseteq late \cup {t} /\ late \ {t} \subseteq late'
    BY <2>1 DEF GivesUp
  <2>3. t \in late' \/ NoReply(t)
    BY <1>2, <2>1 DEF GivesUp, OnWire
  <2> QED
    BY <1>1, <2>1, <2>2, <2>3, CloseKeeps DEF NoReply
<1> QED
  BY <1>3, <1>4, <1>5, <1>6

\* A cancelled owner leaves its port as it is and is remembered.
LEMMA CancelOwnerKeeps ==
  ASSUME IInv, NEW t \in Transports, CancelOwner(t)
  PROVE  IInv'
<1>1. /\ step[t] \in {"ready", "wire"}
      /\ op' = [op EXCEPT ![t] = "none"] /\ step' = [step EXCEPT ![t] = "idle"]
      /\ owner' = Nobody /\ queued' = queued /\ before' = before
      /\ open' = open /\ input' = input /\ guardLeft' = guardLeft
      /\ air' = air /\ silence' = silence
      /\ late' = late \cup {u \in {t} : OnWire(t)}
      /\ step[t] = "wire" => cancelled' = cancelled \cup {t} /\ unrecorded' = TRUE
      /\ step[t] # "wire" => cancelled' = cancelled /\ unrecorded' = unrecorded
  BY DEF CancelOwner, GivesUp, OnWire, Leave, Lock!Done, portVars, wireVars
<1>2. step'[t] = "idle" /\ \A s \in Transports \ {t} : step'[s] = step[s] /\ op'[s] = op[s]
  BY <1>1 DEF IInv, TypeOK
<1>3. \A s \in Transports \ {t} : step[s] \notin {"ready", "wire"}
  BY <1>1, OneOwner
<1>4. TypeOK'
  <2>1. /\ op' \in [Transports -> {"none", "exchange", "send", "test", "close"}]
        /\ step' \in [Transports -> {"idle", "queued", "ready", "wire"}]
    BY <1>1 DEF IInv, TypeOK
  <2> QED
    BY <1>1, <2>1 DEF IInv, TypeOK
<1>5. Agreement'
  BY <1>1, <1>2, <1>3, SerialAssumption DEF IInv, Agreement
<1>6. OpenOnlyOnWire'
  BY <1>1, <1>2 DEF IInv, OpenOnlyOnWire
<1>7. ~unrecorded' => ~unrecorded /\ \A s \in Transports : step[s] # "wire"
  BY <1>1, <1>3 DEF IInv, TypeOK
<1>8. SilenceIsCounted'
  BY <1>1, <1>7 DEF IInv, SilenceIsCounted
<1>9. NothingStale'
  <2>1. ASSUME NEW s \in Transports \ late', s # t
        PROVE  OneReply(s)'
    <3>1. OneReply(s) /\ (OnWire(s) => OnWire(s)')
      BY <1>1, <1>2, <2>1 DEF IInv, NothingStale, OnWire
    <3> QED
      BY <1>1, <3>1, Zenon DEF OneReply
  <2>2. ASSUME t \notin late'
        PROVE  OneReply(t)'
    <3>1. NoReply(t)
      BY <1>1, <2>2, NoneOffTheWire
    <3>2. NoReply(t)'
      BY <1>1, <3>1, Zenon DEF NoReply
    <3> QED
      BY <3>2, NoneIsOne
  <2> QED
    BY <2>1, <2>2 DEF NothingStale
<1> QED
  BY <1>4, <1>5, <1>6, <1>8, <1>9 DEF IInv

\* A reply from the air goes to one buffer or is lost.
LEMMA ReplyKeeps ==
  ASSUME IInv, NEW r \in air, ReplyArrives(r)
  PROVE  IInv'
<1>1. /\ air' = air \ {r}
      /\ silence' = IF \E t \in Transports : step[t] = "wire" THEN 0 ELSE silence
      /\ owner' = owner /\ queued' = queued /\ before' = before
      /\ op' = op /\ step' = step /\ open' = open /\ guardLeft' = guardLeft
      /\ cancelled' = cancelled /\ late' = late /\ unrecorded' = unrecorded
  BY DEF ReplyArrives, lockVars, taskVars, history
<1>2. r \in Replies
  BY DEF IInv, TypeOK
<1>3. \A p \in Transports : input[p] \in Seq(Replies)
  BY DEF IInv, TypeOK
<1>4. \/ \E p \in Transports : open[p] /\ input' = [input EXCEPT ![p] = Append(@, r)]
      \/ input' = input
  BY DEF ReplyArrives
<1>5. input' \in [Transports -> Seq(Replies)]
  <2>1. \A p \in Transports : Append(input[p], r) \in Seq(Replies)
    BY <1>2, <1>3
  <2> QED
    BY <1>4, <2>1 DEF IInv, TypeOK
<1>6. \A p \in Transports : ~open[p] => input'[p] = input[p]
  BY <1>4 DEF IInv, TypeOK
<1>7. ASSUME NEW p \in Transports, NEW i \in DOMAIN input'[p]
      PROVE  input'[p][i] = r \/ (i \in DOMAIN input[p] /\ input'[p][i] = input[p][i])
  <2>1. input'[p] = input[p] \/ input'[p] = Append(input[p], r)
    BY <1>4 DEF IInv, TypeOK
  <2>2. CASE input'[p] = Append(input[p], r)
    BY <1>2, <1>3, <1>7, <2>2
  <2> QED
    BY <1>7, <2>1, <2>2
<1>8. TypeOK'
  <2>1. 0 \in 0..Guard
    BY SerialAssumption
  <2> QED
    BY <1>1, <1>5, <2>1 DEF IInv, TypeOK
<1>9. Agreement' /\ OpenOnlyOnWire'
  BY <1>1, <1>6 DEF IInv, Agreement, OpenOnlyOnWire
<1>10. SilenceIsCounted'
  BY <1>1 DEF IInv, SilenceIsCounted
<1>11. NothingStale'
  <2>1. ASSUME NEW s \in Transports \ late
        PROVE  OneReply(s)'
    <3>1. OneReply(s) /\ (OnWire(s) => OnWire(s)')
      BY <1>1 DEF IInv, NothingStale, OnWire
    <3>2. CASE ~Own(s, r) \/ input' = input
      <4>1. ASSUME NEW p \in Transports, NEW i \in DOMAIN input'[p], Own(s, input'[p][i])
            PROVE  i \in DOMAIN input[p] /\ input'[p][i] = input[p][i]
        BY <1>7, <3>2, <4>1
      <4> QED
        BY <1>1, <3>1, <4>1 DEF OneReply
    <3>3. CASE Own(s, r) /\ input' # input
      <4>1. PICK p \in Transports : input' = [input EXCEPT ![p] = Append(@, r)]
        BY <1>4, <3>3
      <4>2. \A q \in Transports : \A j \in DOMAIN input[q] : ~Own(s, input[q][j])
        BY <3>1, <3>3 DEF OneReply
      <4>3. ASSUME NEW q \in Transports, NEW j \in DOMAIN input'[q], Own(s, input'[q][j])
            PROVE  q = p /\ j = Len(input[p]) + 1 /\ input'[q][j] = r
        <5>1. input[q] \in Seq(Replies) /\ input[p] \in Seq(Replies)
          BY <1>3
        <5>2. CASE q # p
          <6>1. input'[q] = input[q]
            BY <4>1, <5>2 DEF IInv, TypeOK
          <6> QED
            BY <4>2, <4>3, <6>1
        <5>3. CASE q = p
          <6>1. input'[p] = Append(input[p], r)
            BY <4>1 DEF IInv, TypeOK
          <6>2. j \in 1..(Len(input[p]) + 1)
            BY <1>2, <4>3, <5>1, <5>3, <6>1
          <6>3. CASE j \in 1..Len(input[p])
            <7>1. input'[p][j] = input[p][j] /\ j \in DOMAIN input[p]
              BY <5>1, <6>1, <6>3
            <7> QED
              BY <4>2, <4>3, <5>3, <7>1
          <6>4. CASE j = Len(input[p]) + 1
            BY <1>2, <5>1, <5>3, <6>1, <6>4
          <6> QED
            BY <5>1, <6>2, <6>3, <6>4
        <5> QED
          BY <5>2, <5>3
      <4>4. r.last /\ OnWire(s)'
        BY <3>1, <3>3 DEF OneReply
      <4>5. \A x \in air' : ~Own(s, x)
        <5>1. ASSUME NEW x \in air, Own(s, x)
              PROVE  x = r
          <6>1. x \in Replies /\ x.last /\ r.last
            BY <3>1, <3>3, <5>1 DEF IInv, TypeOK, OneReply
          <6> QED
            BY <1>2, <3>3, <5>1, <6>1 DEF Own, Replies
        <5> QED
          BY <1>1, <5>1
      <4> QED
        BY <4>3, <4>4, <4>5 DEF OneReply
    <3> QED
      BY <3>2, <3>3
  <2> QED
    BY <1>1, <2>1 DEF NothingStale
<1> QED
  BY <1>8, <1>9, <1>10, <1>11 DEF IInv

LEMMA TickKeeps ==
  ASSUME IInv, Tick
  PROVE  IInv'
<1>1. /\ silence' = IF silence < Guard THEN silence + 1 ELSE Guard
      /\ guardLeft' = IF guardLeft > 0 THEN guardLeft - 1 ELSE 0
      /\ owner' = owner /\ queued' = queued /\ before' = before
      /\ op' = op /\ step' = step /\ open' = open /\ input' = input /\ air' = air
      /\ cancelled' = cancelled /\ late' = late /\ unrecorded' = unrecorded
  BY DEF Tick, lockVars, taskVars, history
<1>2. silence \in 0..Guard /\ guardLeft \in 0..Guard /\ Guard \in Nat
  BY SerialAssumption DEF IInv, TypeOK
<1>3. silence' \in 0..Guard /\ guardLeft' \in 0..Guard
  BY <1>1, <1>2
<1>4. TypeOK'
  BY <1>1, <1>3 DEF IInv, TypeOK
<1>5. Agreement' /\ OpenOnlyOnWire' /\ NothingStale'
  BY <1>1 DEF IInv, Agreement, OpenOnlyOnWire, NothingStale, OneReply, OnWire
<1>6. silence + guardLeft >= Guard => silence' + guardLeft' >= Guard
  BY <1>1, <1>2
<1>7. SilenceIsCounted'
  BY <1>1, <1>6 DEF IInv, SilenceIsCounted
<1> QED
  BY <1>4, <1>5, <1>7 DEF IInv

\* Every step keeps the invariant.
LEMMA NextKeepsIInv == IInv /\ [Next]_vars => IInv'
<1> SUFFICES ASSUME IInv, [Next]_vars
             PROVE  IInv'
  OBVIOUS
<1>1. ASSUME NEW t \in Transports, Transaction(t)
      PROVE  IInv'
  BY <1>1, RequestKeeps, GrantedKeeps, SendFrameKeeps, EndKeeps, CancelQueuedKeeps,
     CancelOwnerKeeps DEF Transaction
<1>2. ASSUME NEW r \in air, ReplyArrives(r)
      PROVE  IInv'
  BY <1>2, ReplyKeeps
<1>3. CASE Tick
  BY <1>3, TickKeeps
<1>4. CASE UNCHANGED vars
  BY <1>4
     DEF vars, lockVars, taskVars, portVars, wireVars, history, IInv, TypeOK, Agreement,
         OpenOnlyOnWire, SilenceIsCounted, NothingStale, OneReply, OnWire
<1> QED
  BY <1>1, <1>2, <1>3, <1>4 DEF Next

-----------------------------------------------------------------------------
\* What the ports, the bus manager and the wire say about each other holds
\* always, for any number of transports and any guard time.
THEOREM InductiveInvariant == Spec => []IInv
  BY InitIInv, NextKeepsIInv, PTL DEF Spec

\* Only a cancellation leaves a descriptor open behind SerialTransport's back.
THEOREM PortsAreClosed == Spec => []OpenOnlyOnWire
<1>1. IInv => OpenOnlyOnWire
  BY DEF IInv
<1> QED
  BY <1>1, InductiveInvariant, PTL

\* What a decoder accepts is the reply to the request just sent, whatever the
\* other transports gave up and however late their replies are; and so it is again
\* once an exchange is answered.  It is not so after a transport's own exchange
\* timed out or was cancelled: nothing in the reply tells which request it answers.
THEOREM AnswersMatch == Spec => []AcceptsTheAnswer
<1>1. IInv => AcceptsTheAnswer
  <2> SUFFICES ASSUME IInv, NEW t \in Transports \ late,
                      input[t] # <<>>, Decodes(t, Head(input[t]))
               PROVE  /\ Head(input[t]).unit = t /\ Head(input[t]).to = "exchange"
                      /\ Head(input[t]).last
    BY DEF AcceptsTheAnswer
  <2>1. input[t] \in Seq(Replies)
    BY DEF IInv, TypeOK
  <2>2. 1 \in DOMAIN input[t] /\ Head(input[t]) = input[t][1]
    BY <2>1
  <2> QED
    BY <2>2 DEF Decodes, Own, IInv, NothingStale, OneReply
<1> QED
  BY <1>1, InductiveInvariant, PTL

\* A frame follows the guard time of silence, whoever spoke last, because the time
\* of the last exchange is the bus manager's, not the transport's; it may not if the
\* last transaction on the wire failed or was cancelled, which records no time.
THEOREM FramesFollowSilence == Spec => SilenceBeforeFrames
<1>1. IInv /\ [Next]_vars =>
        [\A t \in Transports :
           step[t] = "ready" /\ step'[t] = "wire" => silence = Guard \/ unrecorded]_vars
  <2> SUFFICES ASSUME IInv, Next, NEW t \in Transports,
                      step[t] = "ready", step'[t] = "wire", ~unrecorded
               PROVE  silence = Guard
    BY DEF SilenceBeforeFrames
  <2>1. \E answers \in BOOLEAN : SendFrame(t, answers)
    <3>1. ASSUME NEW u \in Transports, Transaction(u)
          PROVE  \E answers \in BOOLEAN : SendFrame(t, answers)
      <4>1. CASE \E answers \in BOOLEAN : SendFrame(u, answers)
        <5>1. u = t
          BY <4>1, OneOwner DEF SendFrame
        <5> QED
          BY <4>1, <5>1
      <4>2. CASE \E s \in {"idle", "queued", "ready"} : step' = [step EXCEPT ![u] = s]
        BY <4>2 DEF IInv, TypeOK
      <4> QED
        BY <3>1, <4>1, <4>2
           DEF Transaction, Request, Granted, OpenFails, TestOrClose, ExchangeCompletes,
               SendCompletes, TransactionFails, CancelQueued, CancelOwner, Leave
    <3>2. ASSUME NEW r \in air, ReplyArrives(r)
          PROVE  FALSE
      BY <3>2 DEF ReplyArrives, taskVars
    <3>3. CASE Tick
      BY <3>3 DEF Tick, taskVars
    <3> QED
      BY <3>1, <3>2, <3>3 DEF Next
  <2>2. guardLeft = 0
    BY <2>1 DEF SendFrame
  <2>3. \A s \in Transports : step[s] # "wire"
    BY OneOwner
  <2> QED
    BY <2>2, <2>3, SerialAssumption DEF IInv, SilenceIsCounted, TypeOK
<1> QED
  BY <1>1, InductiveInvariant, PTL DEF Spec, SilenceBeforeFrames

(***************************************************************************)
(* Two descriptors compete for the adapter only after a transaction that   *)
(* was cancelled on the wire, and one of the two is the port it left open: *)
(* neither an error nor a timeout nor a write does it (_drop_connection in *)
(* the branches of SerialTransport.exchange and send).                     *)
(***************************************************************************)
CompetesAfterCancelOnly ==
    \A s, t \in Transports : open[s] /\ open[t] => s = t \/ s \in cancelled \/ t \in cancelled

THEOREM OnlyCancelLeavesTwoOpen == Spec => []CompetesAfterCancelOnly
<1>1. IInv => CompetesAfterCancelOnly
  BY OneOwner DEF IInv, OpenOnlyOnWire, CompetesAfterCancelOnly
<1> QED
  BY <1>1, InductiveInvariant, PTL

(***************************************************************************)
(* The bus is freed by its owner and at the end of its transaction, never  *)
(* under a transaction that still runs.                                    *)
(***************************************************************************)
FreedByOwner ==
    owner # Nobody /\ owner' # owner =>
        /\ owner' = Nobody
        /\ step[owner] \in {"ready", "wire"} /\ step'[owner] = "idle"

THEOREM OwnerFreesTheBus == Spec => [][FreedByOwner]_vars
<1>1. ASSUME IInv, Next
      PROVE  FreedByOwner
  <2> SUFFICES ASSUME owner # Nobody, owner' # owner
               PROVE  /\ owner' = Nobody
                      /\ step[owner] \in {"ready", "wire"} /\ step'[owner] = "idle"
    BY DEF FreedByOwner
  <2>1. owner \in Transports /\ step[owner] \in {"ready", "wire"}
    BY <1>1 DEF IInv, TypeOK, Agreement
  <2>2. ASSUME NEW t \in Transports, step[t] \in {"ready", "wire"}, Leave(t)
        PROVE  owner' = Nobody /\ step'[owner] = "idle"
    <3>1. owner = t
      BY <1>1, <2>2 DEF IInv, Agreement
    <3> QED
      BY <1>1, <2>2, <3>1 DEF Leave, Lock!Done, IInv, TypeOK
  <2>3. ASSUME NEW t \in Transports, Transaction(t)
        PROVE  step[t] \in {"ready", "wire"} /\ Leave(t)
    BY <2>3 DEF Transaction, Request, Granted, SendFrame, OpenFails, TestOrClose,
                ExchangeCompletes, SendCompletes, TransactionFails, CancelQueued, CancelOwner,
                lockVars, Lock!AskFree, Lock!Ask, Lock!Grant, Lock!Withdraw
  <2> QED
    BY <1>1, <2>1, <2>2, <2>3 DEF Next, ReplyArrives, Tick, lockVars
<1>2. IInv /\ [Next]_vars => [FreedByOwner]_vars
  BY <1>1
<1> QED
  BY <1>2, InductiveInvariant, PTL DEF Spec

(***************************************************************************)
(* The transports use the bus manager as FifoLock lets its tasks use it,   *)
(* whatever is cancelled. IsFifoLock of Rs485Bus_proofs is the other side  *)
(* of that interface: the manager's deque and futures do as FifoLock says. *)
(***************************************************************************)
THEOREM FollowsTheLock == Spec => Lock!Spec
<1>1. Init => Lock!Init
  BY DEF Init
<1>2. IInv /\ [Next]_vars => [Lock!Next]_Lock!vars
  <2> SUFFICES ASSUME IInv, [Next]_vars
               PROVE  Lock!Next \/ UNCHANGED Lock!vars
    OBVIOUS
  <2>1. ASSUME NEW t \in Transports, Transaction(t)
        PROVE  Lock!Next \/ UNCHANGED Lock!vars
    BY <2>1 DEF Transaction, Request, Granted, SendFrame, OpenFails, TestOrClose,
                ExchangeCompletes, SendCompletes, TransactionFails, CancelQueued, CancelOwner,
                Leave, lockVars, Lock!Next, Lock!vars
  <2>2. CASE (\E r \in air : ReplyArrives(r)) \/ Tick \/ UNCHANGED vars
    BY <2>2 DEF ReplyArrives, Tick, vars, lockVars, Lock!vars
  <2> QED
    BY <2>1, <2>2 DEF Next
<1> QED
  BY <1>1, <1>2, InductiveInvariant, PTL DEF Spec, Lock!Spec
=============================================================================
