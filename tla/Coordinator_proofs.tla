-------------------------- MODULE Coordinator_proofs --------------------------
(***************************************************************************)
(* Proofs about the coordinator, for any number of concurrent commands,    *)
(* any intervals, delays, thresholds and speed limits, on both profiles:   *)
(* its inductive invariant, and the properties that follow from it.        *)
(*                                                                         *)
(* One lemma per part of the invariant says that a step keeps it; in it,   *)
(* one case per action of Next.                                            *)
(***************************************************************************)
EXTENDS Coordinator, SequenceTheorems, TLAPS

USE ConstantTypes
USE DEF vars, coordVars, taskVars, pumpVars, history

(***************************************************************************)
(* Facts about the queue of the client's lock, in which no user is twice.  *)
(***************************************************************************)
\* A user that was not waiting queues at the end.
LEMMA Enqueue ==
  ASSUME NEW S, NEW q \in Seq(S), NEW u \in S, IsInjective(q), u \notin ToSet(q)
  PROVE  LET r == Append(q, u) IN
         r \in Seq(S) /\ IsInjective(r) /\ ToSet(r) = ToSet(q) \cup {u}
<1> DEFINE n == Len(q)
           r == Append(q, u)
<1>1. n \in Nat /\ DOMAIN q = 1..n
  BY LenProperties
<1>2. /\ r \in Seq(S) /\ Len(r) = n + 1 /\ r[n + 1] = u
      /\ \A i \in 1..n : r[i] = q[i]
  BY AppendProperties
<1>3. DOMAIN r = 1..n \cup {n + 1}
  BY <1>1, <1>2, LenProperties
<1> HIDE DEF r, n
<1>4. ToSet(r) = ToSet(q) \cup {u}
  BY <1>1, <1>2, <1>3 DEF ToSet
<1>5. \A i \in 1..n : q[i] # u
  BY <1>1 DEF ToSet
<1>6. IsInjective(r)
  BY <1>1, <1>2, <1>3, <1>5 DEF IsInjective
<1> QED
  BY <1>2, <1>4, <1>6 DEF r

\* r is q without its k-th element.
Without(q, k, r) ==
    /\ Len(r) = Len(q) - 1
    /\ \A i \in 1..Len(q) - 1 : r[i] = IF i < k THEN q[i] ELSE q[i + 1]

\* A user leaves from place k, the head or behind it.
LEMMA LeavePlace ==
  ASSUME NEW S, NEW q \in Seq(S), NEW r \in Seq(S), NEW k \in 1..Len(q),
         IsInjective(q), Without(q, k, r)
  PROVE  /\ IsInjective(r) /\ ToSet(r) = ToSet(q) \ {q[k]}
         /\ k # 1 => r # <<>> /\ Head(r) = Head(q)
<1> DEFINE n == Len(q)
<1>1. /\ n \in Nat /\ DOMAIN q = 1..n /\ DOMAIN r = 1..(n - 1) /\ Len(r) = n - 1
      /\ \A i \in 1..n - 1 : r[i] = IF i < k THEN q[i] ELSE q[i + 1]
  BY LenProperties DEF Without
<1>2. \A i, j \in 1..n : q[i] = q[j] => i = j
  BY <1>1 DEF IsInjective
<1>3. \A i, j \in 1..(n - 1) : r[i] = r[j] => i = j
  BY <1>1, <1>2
<1>4. IsInjective(r)
  BY <1>1, <1>3 DEF IsInjective
<1> DEFINE elements == {q[i] : i \in 1..n}
<1>5. ToSet(q) = elements /\ ToSet(r) = {r[i] : i \in 1..(n - 1)}
  BY <1>1 DEF ToSet
<1>6. {r[i] : i \in 1..(n - 1)} \subseteq elements \ {q[k]}
  <2>1. ASSUME NEW i \in 1..(n - 1)
        PROVE  \E j \in 1..n : j # k /\ r[i] = q[j]
    <3>1. i \in 1..n /\ i + 1 \in 1..n
      BY <1>1
    <3> QED
      BY <1>1, <3>1
  <2>2. \A j \in 1..n : j # k => q[j] # q[k]
    BY <1>2
  <2> QED
    BY <2>1, <2>2
<1>7. elements \ {q[k]} \subseteq {r[i] : i \in 1..(n - 1)}
  <2>1. ASSUME NEW j \in 1..n, j # k
        PROVE  \E i \in 1..(n - 1) : r[i] = q[j]
    <3>1. CASE j < k
      <4>1. j \in 1..(n - 1)
        BY <1>1, <3>1
      <4> QED
        BY <1>1, <3>1, <4>1
    <3>2. CASE j > k
      <4>1. j - 1 \in 1..(n - 1) /\ ~(j - 1 < k) /\ (j - 1) + 1 = j
        BY <1>1, <3>2
      <4> QED
        BY <1>1, <4>1
    <3>3. j < k \/ j > k
      BY <1>1, <2>1
    <3> QED
      BY <3>1, <3>2, <3>3
  <2>2. ASSUME NEW x \in elements \ {q[k]}
        PROVE  \E i \in 1..(n - 1) : r[i] = x
    <3>1. PICK j \in 1..n : x = q[j]
      OBVIOUS
    <3> QED
      BY <2>1, <3>1
  <2> QED
    BY <2>2
<1>8. ASSUME k # 1
      PROVE  r # <<>> /\ Head(r) = Head(q)
  <2>1. 1 \in 1..n - 1 /\ 1 < k
    BY <1>1, <1>8
  <2>2. r[1] = q[1] /\ Len(r) # 0
    BY <1>1, <2>1
  <2> QED
    BY <2>2, EmptySeq
<1> QED
  BY <1>4, <1>5, <1>6, <1>7, <1>8

\* The holder releases the lock.
LEMMA ReleaseHead ==
  ASSUME NEW S, NEW q \in Seq(S), IsInjective(q), q # <<>>
  PROVE  /\ Tail(q) \in Seq(S) /\ IsInjective(Tail(q))
         /\ ToSet(Tail(q)) = ToSet(q) \ {Head(q)}
<1>1. Len(q) \in Nat /\ 1 \in 1..Len(q) /\ Head(q) = q[1]
  BY EmptySeq, LenProperties
<1>2. /\ Tail(q) \in Seq(S) /\ Len(Tail(q)) = Len(q) - 1
      /\ \A i \in 1..Len(q) - 1 : Tail(q)[i] = q[i + 1]
  BY <1>1, HeadTailProperties
<1>3. PICK k \in 1..Len(q) : k = 1
  BY <1>1
<1>4. Without(q, k, Tail(q))
  BY <1>1, <1>2, <1>3 DEF Without
<1>5. IsInjective(Tail(q)) /\ ToSet(Tail(q)) = ToSet(q) \ {q[k]}
  BY <1>2, <1>4, LeavePlace
<1> QED
  BY <1>1, <1>2, <1>3, <1>5

\* A user that is cancelled, or fails, leaves without disturbing the others.
LEMMA LeaveQueue ==
  ASSUME NEW S, NEW q \in Seq(S), IsInjective(q), NEW u \in ToSet(q)
  PROVE  LET r == RemoveFirst(q, u) IN
         /\ r \in Seq(S) /\ IsInjective(r) /\ ToSet(r) = ToSet(q) \ {u}
         /\ Head(q) # u => r # <<>> /\ Head(r) = Head(q)
<1> DEFINE I == {i \in 1..Len(q) : q[i] = u}
           r == RemoveFirst(q, u)
<1>1. /\ Len(q) \in Nat /\ DOMAIN q = 1..Len(q)
      /\ \A i \in 1..Len(q) : q[i] \in S
  BY LenProperties, ElementOfSeq
<1>2. PICK k \in 1..Len(q) : q[k] = u
  BY <1>1 DEF ToSet
<1>3. I = {k}
  BY <1>1, <1>2 DEF IsInjective
<1>4. SelectInSeq(q, LAMBDA v : v = u) = k
  <2>1. Min({k}) = k
    BY <1>1 DEF Min
  <2> QED
    BY <1>3, <2>1 DEF SelectInSeq
<1> DEFINE a == SubSeq(q, 1, k - 1)
           b == SubSeq(q, k + 1, Len(q))
<1>5. r = a \o b
  BY <1>2, <1>4 DEF RemoveFirst, RemoveAt
<1>6. /\ a \in Seq(S) /\ Len(a) = k - 1
      /\ \A i \in 1..k - 1 : a[i] = q[i]
  <2>1. 1 \in Int /\ k - 1 \in Int /\ \A i \in 1..k - 1 : q[i] \in S
    BY <1>1
  <2> QED
    BY <1>1, <2>1, SubSeqProperties
<1>7. /\ b \in Seq(S) /\ Len(b) = Len(q) - k
      /\ \A i \in 1..Len(q) - k : b[i] = q[k + i]
  <2>1. k + 1 \in Int /\ Len(q) \in Int /\ \A i \in k + 1..Len(q) : q[i] \in S
    BY <1>1
  <2>2. /\ b \in Seq(S)
        /\ Len(b) = IF k + 1 <= Len(q) THEN Len(q) - (k + 1) + 1 ELSE 0
        /\ \A i \in 1..Len(q) - (k + 1) + 1 : b[i] = q[(k + 1) + i - 1]
    BY <2>1, SubSeqProperties
  <2>3. Len(q) - (k + 1) + 1 = Len(q) - k /\ (k + 1 <= Len(q) \/ Len(q) - k = 0)
    <3>1. Len(q) \in Int /\ k \in Int /\ k <= Len(q)
      BY <1>1
    <3> HIDE DEF I, r, a, b
    <3> QED
      BY <3>1
  <2>4. \A i \in 1..Len(q) - k : (k + 1) + i - 1 = k + i
    BY <1>1
  <2> HIDE DEF b
  <2>5. Len(b) = Len(q) - k
    BY <1>1, <2>2, <2>3
  <2> QED
    BY <2>2, <2>3, <2>4, <2>5
<1> HIDE DEF a, b
<1>8. /\ a \o b \in Seq(S)
      /\ Len(a \o b) = Len(a) + Len(b)
      /\ \A i \in 1..Len(a) + Len(b) :
           (a \o b)[i] = IF i <= Len(a) THEN a[i] ELSE b[i - Len(a)]
  BY <1>6, <1>7, ConcatProperties
<1>9. ASSUME NEW i \in 1..Len(q) - 1
      PROVE  (a \o b)[i] = IF i < k THEN q[i] ELSE q[i + 1]
  <2>1. CASE i < k
    BY <1>1, <1>6, <1>7, <1>8, <2>1
  <2>2. CASE ~(i < k)
    <3>1. /\ i - Len(a) \in 1..Len(q) - k /\ k + (i - Len(a)) = i + 1
          /\ ~(i <= Len(a)) /\ i \in 1..Len(a) + Len(b)
      BY <1>1, <1>6, <1>7, <2>2
    <3>2. b[i - Len(a)] = q[i + 1]
      BY <1>7, <3>1
    <3> QED
      BY <1>8, <2>2, <3>1, <3>2
  <2> QED
    BY <2>1, <2>2
<1>10. r \in Seq(S) /\ Len(r) = Len(q) - 1
  BY <1>1, <1>5, <1>6, <1>7, <1>8
<1>11. Without(q, k, r)
  BY <1>5, <1>9, <1>10 DEF Without
<1>12. Head(q) = q[1]
  BY <1>1
<1> HIDE DEF r
<1>13. /\ IsInjective(r) /\ ToSet(r) = ToSet(q) \ {q[k]}
       /\ k # 1 => r # <<>> /\ Head(r) = Head(q)
  BY <1>10, <1>11, LeavePlace
<1> QED
  BY <1>2, <1>10, <1>12, <1>13 DEF r

(***************************************************************************)
(* Facts about the parts of the handlers.                                  *)
(***************************************************************************)

\* Releasing the lock, or releasing it and queueing again, keeps a queue.
LEMMA ReleaseTypes ==
  ASSUME TaskTypes, lockQ # <<>>
  PROVE  Tail(lockQ) \in Seq(Users) /\ Append(Tail(lockQ), Refresh) \in Seq(Users)
<1>1. Tail(lockQ) \in Seq(Users)
  BY HeadTailProperties DEF TaskTypes
<1> QED
  BY <1>1, AppendProperties DEF Users

\* A command that fails leaves the queue wherever it was in it.
LEMMA FailedLeaves ==
  ASSUME TypeOK, LockUsers, NEW c \in Callers, CommandFails(c)
  PROVE  /\ lockQ' \in Seq(Users) /\ IsInjective(lockQ')
         /\ ToSet(lockQ') = ToSet(lockQ) \ {c}
         /\ Head(lockQ) # c => lockQ' # <<>> /\ Head(lockQ') = Head(lockQ)
<1>1. c \in ToSet(lockQ)
  BY DEF CommandFails, LockUsers, InFlight, Users
<1>2. lockQ \in Seq(Users) /\ IsInjective(lockQ) /\ lockQ' = RemoveFirst(lockQ, c)
  BY DEF CommandFails, TypeOK, TaskTypes, LockUsers
<1> QED
  BY <1>1, <1>2, LeaveQueue

\* The remembered running speed can always be commanded again.
LEMMA RunningSpeedCommandable ==
  ASSUME CoordinatorTypes, NEW s \in Reported
  PROVE  RunningSpeed(s) \in MinSpeed..MaxSpeed
  BY DEF CoordinatorTypes, Reported, RunningSpeed

\* The origin of a change and the pending command stay well typed.
LEMMA TrackChangeSourceTypes ==
  ASSUME CoordinatorTypes, NEW prev, NEW s, TrackChangeSource(prev, s)
  PROVE  /\ pending' \in Commands \cup {None}
         /\ source' \in {"unknown", "homeassistant", "external"}
<1>1. pending' = pending \/ pending' = None
  BY DEF TrackChangeSource
<1>2. source' = source \/ source' = "homeassistant" \/ source' = "external"
  BY DEF TrackChangeSource
<1> QED
  BY <1>1, <1>2 DEF CoordinatorTypes

\* A successful refresh leaves a well-typed coordinator and client lock.
LEMMA AcceptTypes ==
  ASSUME CoordinatorTypes, TaskTypes, NEW s \in Reported, Accept(s), lockQ # <<>>
  PROVE  CoordinatorTypes' /\ TaskTypes'
<1>1. lastRunning' \in MinSpeed..MaxSpeed
  BY RunningSpeedCommandable DEF Accept
<1>2. /\ pending' \in Commands \cup {None}
      /\ source' \in {"unknown", "homeassistant", "external"}
  BY TrackChangeSourceTypes DEF Accept
<1>3. running' \in BOOLEAN
  BY DEF Accept, Track, On
<1>4. CoordinatorTypes'
  BY <1>1, <1>2, <1>3 DEF Accept, Recovered, EndRefresh, CoordinatorTypes
<1>5. TaskTypes'
  BY ReleaseTypes DEF Accept, EndRefresh, TaskTypes
<1> QED
  BY <1>4, <1>5

(***************************************************************************)
(* Types.                                                                  *)
(***************************************************************************)
LEMMA CoordinatorTypesStep ==
  ASSUME IInv, [Next]_vars
  PROVE  CoordinatorTypes'
<1>1. CASE SkipQuietRefresh
  BY <1>1
     DEF SkipQuietRefresh, InQuietWindow, QuietInterval, IInv, TypeOK,
         CoordinatorTypes, Larger
<1>2. CASE StartRefresh
  BY <1>2 DEF StartRefresh, InQuietWindow, IInv, TypeOK, CoordinatorTypes, Larger
<1>3. CASE SendRead
  BY <1>3 DEF SendRead, PumpSeesRead, IInv, TypeOK, CoordinatorTypes, Larger
<1>4. CASE StatusCompletes
  BY <1>4, AcceptTypes
     DEF StatusCompletes, IInv, TypeOK, PumpTypes, LockDiscipline, ReadOnWire, HoldsLock
<1>5. CASE StatusThenExtended
  BY <1>5 DEF StatusThenExtended, IInv, TypeOK, CoordinatorTypes, Larger
<1>6. CASE SendExtended
  BY <1>6 DEF SendExtended, PumpSeesRead, IInv, TypeOK, CoordinatorTypes, Larger
<1>7. CASE ExtendedCompletes
  <2>1. sample \in Reported /\ lockQ # <<>>
    BY <1>7
       DEF ExtendedCompletes, IInv, TypeOK, TaskTypes, LockDiscipline, ReadOnWire,
           HoldsLock
  <2> QED
    BY <1>7, <2>1, AcceptTypes DEF ExtendedCompletes, IInv, TypeOK
<1>8. CASE RefreshFails
  <2>1. failures' \in 0..FailureThreshold
    BY <1>8 DEF RefreshFails, IInv, TypeOK, CoordinatorTypes
  <2>2. /\ data' = data /\ online' \in {"online", "offline"}
        /\ running' \in BOOLEAN /\ interval' \in Nat /\ timer' \in Nat
    BY <1>8 DEF RefreshFails, EndRefresh, IInv, TypeOK, CoordinatorTypes
  <2> QED
    BY <1>8, <2>1, <2>2 DEF RefreshFails, IInv, TypeOK, CoordinatorTypes
<1>9. ASSUME NEW c \in Callers, NEW s \in Commands, StartCommand(c, s)
      PROVE  CoordinatorTypes'
  BY <1>9 DEF StartCommand, IInv, TypeOK, CoordinatorTypes, Larger
<1>10. ASSUME NEW c \in Callers, NEW x \in BOOLEAN, SendWrite(c, x)
      PROVE  CoordinatorTypes'
  BY <1>10 DEF SendWrite, IInv, TypeOK, CoordinatorTypes, Larger
<1>11. ASSUME NEW c \in Callers, CommandCompletes(c)
      PROVE  CoordinatorTypes'
  <2>1. target[c] \in Commands /\ target[c] \in Reported
    BY <1>11 DEF IInv, TypeOK, TaskTypes, Commands, Reported
  <2>2. data # None
    BY <1>11 DEF CommandCompletes, IInv, WindowFacts
  <2>3. lastRunning' \in MinSpeed..MaxSpeed
    BY <1>11, <2>1, <2>2
       DEF CommandCompletes, On, Commands, IInv, TypeOK, CoordinatorTypes
  <2>4. quietLeft' \in Nat /\ interval' \in Nat /\ timer' \in Nat
    BY <1>11 DEF CommandCompletes, WindowAfterCommand, QuietInterval, Larger, Arm,
             IInv, TypeOK, CoordinatorTypes
  <2>5. running' \in BOOLEAN
    BY <1>11 DEF CommandCompletes, Track, On
  <2>6. /\ data' = target[c] /\ pending' = target[c]
        /\ source' = "homeassistant" /\ cmdAge' = 0
    BY <1>11 DEF CommandCompletes
  <2>7. UNCHANGED <<online, failures, assist, idle>>
    BY <1>11 DEF CommandCompletes
  <2>8. lastRunning' \in Nat /\ 0 \in 0..Horizon
    BY <2>3
  <2> QED
    BY <2>1, <2>3, <2>4, <2>5, <2>6, <2>7, <2>8 DEF IInv, TypeOK, CoordinatorTypes
<1>12. ASSUME NEW c \in Callers, CommandFails(c)
      PROVE  CoordinatorTypes'
  BY <1>12 DEF CommandFails, IInv, TypeOK, CoordinatorTypes, Larger
<1>13. ASSUME NEW b \in BOOLEAN, SetAssist(b)
      PROVE  CoordinatorTypes'
  BY <1>13 DEF SetAssist, Reschedule, Arm, IInv, TypeOK, CoordinatorTypes, Larger
<1>14. ASSUME NEW i \in IdleChoices, SetIdle(i)
      PROVE  CoordinatorTypes'
  BY <1>14
     DEF SetIdle, Reschedule, Arm, QuietInterval, IInv, TypeOK, CoordinatorTypes,
         Larger
<1>15. ASSUME NEW s \in PumpStates, PumpChanges(s)
      PROVE  CoordinatorTypes'
  BY <1>15 DEF PumpChanges, IInv, TypeOK, CoordinatorTypes, Larger
<1>16. CASE Tick
  BY <1>16 DEF Tick, Down, IInv, TypeOK, CoordinatorTypes, Larger
<1>17. CASE UNCHANGED vars
  BY <1>17 DEF IInv, TypeOK, CoordinatorTypes, Larger
<1> QED
  BY <1>1, <1>2, <1>3, <1>4, <1>5, <1>6, <1>7, <1>8, <1>9, <1>10, <1>11, <1>12, <1>13,
     <1>14, <1>15, <1>16, <1>17
     DEF Next, RefreshStep, CommandStep, SettingStep

\* Refreshes, commands and the client lock's queue stay well typed.
LEMMA TaskTypesStep ==
  ASSUME IInv, [Next]_vars
  PROVE  TaskTypes'
<1>1. CASE SkipQuietRefresh
  BY <1>1 DEF SkipQuietRefresh, InQuietWindow, QuietInterval, IInv, TypeOK, TaskTypes, Users
<1>2. CASE StartRefresh
  <2>1. Append(lockQ, Refresh) \in Seq(Users)
    BY AppendProperties DEF IInv, TypeOK, TaskTypes, Users
  <2>2. data \in Reported \cup {None}
    BY DEF IInv, TypeOK, CoordinatorTypes
  <2> QED
    BY <1>2, <2>1, <2>2 DEF StartRefresh, IInv, TypeOK, TaskTypes
<1>3. CASE SendRead
  BY <1>3 DEF SendRead, PumpSeesRead, IInv, TypeOK, TaskTypes, Users
<1>4. CASE StatusCompletes
  BY <1>4, AcceptTypes
     DEF StatusCompletes, IInv, TypeOK, PumpTypes, LockDiscipline, ReadOnWire, HoldsLock
<1>5. CASE StatusThenExtended
  <2>1. Append(Tail(lockQ), Refresh) \in Seq(Users)
    BY <1>5, ReleaseTypes
       DEF StatusThenExtended, IInv, TypeOK, LockDiscipline, ReadOnWire, HoldsLock
  <2>2. pump # None
    BY DEF IInv, TypeOK, PumpTypes, Reported
  <2> QED
    BY <1>5, <2>1, <2>2 DEF StatusThenExtended, IInv, TypeOK, TaskTypes, PumpTypes
<1>6. CASE SendExtended
  BY <1>6 DEF SendExtended, PumpSeesRead, IInv, TypeOK, TaskTypes, Users
<1>7. CASE ExtendedCompletes
  <2>1. sample \in Reported /\ lockQ # <<>>
    BY <1>7
       DEF ExtendedCompletes, IInv, TypeOK, TaskTypes, LockDiscipline, ReadOnWire,
           HoldsLock
  <2> QED
    BY <1>7, <2>1, AcceptTypes DEF ExtendedCompletes, IInv, TypeOK
<1>8. CASE RefreshFails
  <2>1. Tail(lockQ) \in Seq(Users)
    BY <1>8, ReleaseTypes
       DEF RefreshFails, IInv, TypeOK, LockDiscipline, ReadOnWire, HoldsLock
  <2>2. /\ refresh' = "idle" /\ previous' = None /\ sample' = None
        /\ lockQ' = Tail(lockQ)
    BY <1>8 DEF RefreshFails, EndRefresh
  <2> QED
    BY <1>8, <2>1, <2>2 DEF RefreshFails, IInv, TypeOK, TaskTypes
<1>9. ASSUME NEW c \in Callers, NEW s \in Commands, StartCommand(c, s)
      PROVE  TaskTypes'
  BY <1>9 DEF StartCommand, IInv, TypeOK, TaskTypes, Users
<1>10. ASSUME NEW c \in Callers, NEW x \in BOOLEAN, SendWrite(c, x)
      PROVE  TaskTypes'
  BY <1>10 DEF SendWrite, IInv, TypeOK, TaskTypes, Users
<1>11. ASSUME NEW c \in Callers, CommandCompletes(c)
      PROVE  TaskTypes'
  <2>1. Tail(lockQ) \in Seq(Users)
    BY <1>11, ReleaseTypes DEF CommandCompletes, IInv, TypeOK, LockDiscipline, HoldsLock
  <2> QED
    BY <1>11, <2>1 DEF CommandCompletes, IInv, TypeOK, TaskTypes, Commands
<1>12. ASSUME NEW c \in Callers, CommandFails(c)
      PROVE  TaskTypes'
  <2>1. RemoveFirst(lockQ, c) \in Seq(Users)
    BY <1>12, FailedLeaves DEF CommandFails, IInv
  <2> QED
    BY <1>12, <2>1 DEF CommandFails, IInv, TypeOK, TaskTypes, Commands
<1>13. ASSUME NEW b \in BOOLEAN, SetAssist(b)
      PROVE  TaskTypes'
  BY <1>13 DEF SetAssist, Reschedule, Arm, IInv, TypeOK, TaskTypes, Users
<1>14. ASSUME NEW i \in IdleChoices, SetIdle(i)
      PROVE  TaskTypes'
  BY <1>14 DEF SetIdle, Reschedule, Arm, QuietInterval, IInv, TypeOK, TaskTypes, Users
<1>15. ASSUME NEW s \in PumpStates, PumpChanges(s)
      PROVE  TaskTypes'
  BY <1>15 DEF PumpChanges, IInv, TypeOK, TaskTypes, Users
<1>16. CASE Tick
  BY <1>16 DEF Tick, Down, IInv, TypeOK, TaskTypes, Users
<1>17. CASE UNCHANGED vars
  BY <1>17 DEF IInv, TypeOK, TaskTypes, Users
<1> QED
  BY <1>1, <1>2, <1>3, <1>4, <1>5, <1>6, <1>7, <1>8, <1>9, <1>10, <1>11, <1>12, <1>13,
     <1>14, <1>15, <1>16, <1>17
     DEF Next, RefreshStep, CommandStep, SettingStep

\* The pump and the history variables stay well typed.
LEMMA PumpTypesStep ==
  ASSUME IInv, [Next]_vars
  PROVE  PumpTypes'
<1>1. CASE SkipQuietRefresh
  BY <1>1
     DEF SkipQuietRefresh, InQuietWindow, QuietInterval, IInv, TypeOK, TaskTypes,
         PumpTypes, Reported, Commands
<1>2. CASE StartRefresh
  BY <1>2
     DEF StartRefresh, InQuietWindow, IInv, TypeOK, TaskTypes, PumpTypes, Reported,
         Commands
<1>3. CASE SendRead
  BY <1>3 DEF SendRead, PumpSeesRead, IInv, TypeOK, TaskTypes, PumpTypes, Reported, Commands
<1>4. CASE StatusCompletes
  BY <1>4
     DEF StatusCompletes, Accept, Recovered, TrackChangeSource, Track, RunningSpeed,
         EndRefresh, IInv, TypeOK, TaskTypes, PumpTypes, Reported, Commands
<1>5. CASE StatusThenExtended
  BY <1>5 DEF StatusThenExtended, IInv, TypeOK, TaskTypes, PumpTypes, Reported, Commands
<1>6. CASE SendExtended
  BY <1>6
     DEF SendExtended, PumpSeesRead, IInv, TypeOK, TaskTypes, PumpTypes, Reported,
         Commands
<1>7. CASE ExtendedCompletes
  BY <1>7
     DEF ExtendedCompletes, Accept, Recovered, TrackChangeSource, Track, RunningSpeed,
         EndRefresh, IInv, TypeOK, TaskTypes, PumpTypes, Reported, Commands
<1>8. CASE RefreshFails
  BY <1>8
     DEF RefreshFails, EndRefresh, IInv, TypeOK, TaskTypes, PumpTypes, Reported,
         Commands
<1>9. ASSUME NEW c \in Callers, NEW s \in Commands, StartCommand(c, s)
      PROVE  PumpTypes'
  BY <1>9 DEF StartCommand, IInv, TypeOK, TaskTypes, PumpTypes, Reported, Commands
<1>10. ASSUME NEW c \in Callers, NEW x \in BOOLEAN, SendWrite(c, x)
      PROVE  PumpTypes'
  BY <1>10 DEF SendWrite, IInv, TypeOK, TaskTypes, PumpTypes, Reported, Commands
<1>11. ASSUME NEW c \in Callers, CommandCompletes(c)
      PROVE  PumpTypes'
  BY <1>11
     DEF CommandCompletes, Arm, WindowAfterCommand, QuietInterval, Track, IInv,
         TypeOK, TaskTypes, PumpTypes, Reported, Commands
<1>12. ASSUME NEW c \in Callers, CommandFails(c)
      PROVE  PumpTypes'
  BY <1>12 DEF CommandFails, IInv, TypeOK, TaskTypes, PumpTypes, Reported, Commands
<1>13. ASSUME NEW b \in BOOLEAN, SetAssist(b)
      PROVE  PumpTypes'
  BY <1>13
     DEF SetAssist, Reschedule, Arm, IInv, TypeOK, TaskTypes, PumpTypes, Reported,
         Commands
<1>14. ASSUME NEW i \in IdleChoices, SetIdle(i)
      PROVE  PumpTypes'
  BY <1>14
     DEF SetIdle, Reschedule, Arm, QuietInterval, IInv, TypeOK, TaskTypes, PumpTypes,
         Reported, Commands
<1>15. ASSUME NEW s \in PumpStates, PumpChanges(s)
      PROVE  PumpTypes'
  BY <1>15 DEF PumpChanges, IInv, TypeOK, TaskTypes, PumpTypes, Reported, Commands
<1>16. CASE Tick
  BY <1>16 DEF Tick, Down, IInv, TypeOK, TaskTypes, PumpTypes, Reported, Commands
<1>17. CASE UNCHANGED vars
  BY <1>17 DEF IInv, TypeOK, TaskTypes, PumpTypes, Reported, Commands
<1> QED
  BY <1>1, <1>2, <1>3, <1>4, <1>5, <1>6, <1>7, <1>8, <1>9, <1>10, <1>11, <1>12, <1>13,
     <1>14, <1>15, <1>16, <1>17
     DEF Next, RefreshStep, CommandStep, SettingStep

(***************************************************************************)
(* Only the holder of the client's lock is on the wire: everyone queues at *)
(* the end, leaves from the head, or leaves from behind it without         *)
(* disturbing it.                                                          *)
(***************************************************************************)
LEMMA LockStep ==
  ASSUME IInv, [Next]_vars
  PROVE  LockDiscipline'
<1>1. CASE SkipQuietRefresh
  BY <1>1
     DEF SkipQuietRefresh, InQuietWindow, QuietInterval, IInv, TypeOK, TaskTypes,
         LockDiscipline, HoldsLock, ReadOnWire
<1>2. CASE StartRefresh
  BY <1>2
     DEF StartRefresh, InQuietWindow, IInv, TypeOK, TaskTypes, LockDiscipline,
         HoldsLock, ReadOnWire
<1>3. CASE SendRead
  BY <1>3
     DEF SendRead, PumpSeesRead, IInv, TypeOK, TaskTypes, LockDiscipline, HoldsLock,
         ReadOnWire
<1>4. CASE StatusCompletes
  BY <1>4
     DEF StatusCompletes, Accept, Recovered, TrackChangeSource, Track, RunningSpeed,
         EndRefresh, IInv, TypeOK, TaskTypes, LockDiscipline, HoldsLock, ReadOnWire
<1>5. CASE StatusThenExtended
  BY <1>5
     DEF StatusThenExtended, IInv, TypeOK, TaskTypes, LockDiscipline, HoldsLock,
         ReadOnWire
<1>6. CASE SendExtended
  BY <1>6
     DEF SendExtended, PumpSeesRead, IInv, TypeOK, TaskTypes, LockDiscipline,
         HoldsLock, ReadOnWire
<1>7. CASE ExtendedCompletes
  BY <1>7
     DEF ExtendedCompletes, Accept, Recovered, TrackChangeSource, Track, RunningSpeed,
         EndRefresh, IInv, TypeOK, TaskTypes, LockDiscipline, HoldsLock, ReadOnWire
<1>8. CASE RefreshFails
  BY <1>8
     DEF RefreshFails, EndRefresh, IInv, TypeOK, TaskTypes, LockDiscipline, HoldsLock,
         ReadOnWire
<1>9. ASSUME NEW c \in Callers, NEW s \in Commands, StartCommand(c, s)
      PROVE  LockDiscipline'
  BY <1>9 DEF StartCommand, IInv, TypeOK, TaskTypes, LockDiscipline, HoldsLock, ReadOnWire
<1>10. ASSUME NEW c \in Callers, NEW x \in BOOLEAN, SendWrite(c, x)
      PROVE  LockDiscipline'
  BY <1>10 DEF SendWrite, IInv, TypeOK, TaskTypes, LockDiscipline, HoldsLock, ReadOnWire
<1>11. ASSUME NEW c \in Callers, CommandCompletes(c)
      PROVE  LockDiscipline'
  BY <1>11
     DEF CommandCompletes, Arm, WindowAfterCommand, QuietInterval, Track, IInv,
         TypeOK, TaskTypes, LockDiscipline, HoldsLock, ReadOnWire
<1>12. ASSUME NEW c \in Callers, CommandFails(c)
      PROVE  LockDiscipline'
  <2>1. \A u : HoldsLock(u) /\ u # c => HoldsLock(u)'
    BY <1>12, FailedLeaves DEF HoldsLock, IInv
  <2> QED
    BY <1>12, <2>1 DEF CommandFails, IInv, TypeOK, TaskTypes, LockDiscipline, ReadOnWire
<1>13. ASSUME NEW b \in BOOLEAN, SetAssist(b)
      PROVE  LockDiscipline'
  BY <1>13
     DEF SetAssist, Reschedule, Arm, IInv, TypeOK, TaskTypes, LockDiscipline,
         HoldsLock, ReadOnWire
<1>14. ASSUME NEW i \in IdleChoices, SetIdle(i)
      PROVE  LockDiscipline'
  BY <1>14
     DEF SetIdle, Reschedule, Arm, QuietInterval, IInv, TypeOK, TaskTypes,
         LockDiscipline, HoldsLock, ReadOnWire
<1>15. ASSUME NEW s \in PumpStates, PumpChanges(s)
      PROVE  LockDiscipline'
  BY <1>15 DEF PumpChanges, IInv, TypeOK, TaskTypes, LockDiscipline, HoldsLock, ReadOnWire
<1>16. CASE Tick
  BY <1>16 DEF Tick, Down, IInv, TypeOK, TaskTypes, LockDiscipline, HoldsLock, ReadOnWire
<1>17. CASE UNCHANGED vars
  BY <1>17 DEF IInv, TypeOK, TaskTypes, LockDiscipline, HoldsLock, ReadOnWire
<1> QED
  BY <1>1, <1>2, <1>3, <1>4, <1>5, <1>6, <1>7, <1>8, <1>9, <1>10, <1>11, <1>12, <1>13,
     <1>14, <1>15, <1>16, <1>17
     DEF Next, RefreshStep, CommandStep, SettingStep

(***************************************************************************)
(* Everyone in flight is in the lock's queue once, and nobody else: a user *)
(* enters when it starts, and leaves when it ends, fails or is cancelled.  *)
(***************************************************************************)
\* Nobody starts and nobody ends.
LEMMA SameUsers ==
  ASSUME LockUsers, lockQ' = lockQ, refresh' = "idle" <=> refresh = "idle",
         \A c \in Callers : write'[c] = "idle" <=> write[c] = "idle"
  PROVE  LockUsers'
<1>1. InFlight' = InFlight
  BY DEF InFlight, Users
<1> QED
  BY <1>1 DEF LockUsers

\* The refresh that holds the lock ends.
LEMMA RefreshLeaves ==
  ASSUME IInv, ReadOnWire, lockQ' = Tail(lockQ), refresh' = "idle", write' = write
  PROVE  LockUsers'
<1>1. lockQ # <<>> /\ Head(lockQ) = Refresh
  BY DEF IInv, LockDiscipline, HoldsLock
<1>2. IsInjective(lockQ') /\ ToSet(lockQ') = ToSet(lockQ) \ {Refresh}
  BY <1>1, ReleaseHead DEF IInv, TypeOK, TaskTypes, LockUsers
<1>3. InFlight' = InFlight \ {Refresh}
  BY DEF InFlight, Users
<1> QED
  BY <1>2, <1>3 DEF IInv, LockUsers

\* A caller's write ends.
LEMMA CallerLeaves ==
  ASSUME IInv, NEW c \in Callers, write' = [write EXCEPT ![c] = "idle"], refresh' = refresh,
         IsInjective(lockQ'), ToSet(lockQ') = ToSet(lockQ) \ {c}
  PROVE  LockUsers'
<1>1. InFlight' = InFlight \ {c}
  BY DEF InFlight, Users, IInv, TypeOK, TaskTypes
<1> QED
  BY <1>1 DEF IInv, LockUsers

LEMMA LockUsersStep ==
  ASSUME IInv, [Next]_vars
  PROVE  LockUsers'
<1>0. LockUsers /\ TaskTypes /\ Refresh \notin Callers
  BY DEF IInv, TypeOK
<1>1. CASE SkipQuietRefresh
  BY <1>0, <1>1, SameUsers DEF SkipQuietRefresh
<1>2. CASE StartRefresh
  <2>1. /\ refresh = "idle" /\ refresh' = "queued" /\ write' = write
        /\ lockQ' = Append(lockQ, Refresh)
    BY <1>2 DEF StartRefresh
  <2>2. Refresh \notin ToSet(lockQ) /\ Refresh \in Users
    BY <1>0, <2>1 DEF LockUsers, InFlight, Users
  <2>3. IsInjective(lockQ') /\ ToSet(lockQ') = ToSet(lockQ) \cup {Refresh}
    BY <1>0, <2>1, <2>2, Enqueue DEF LockUsers, TaskTypes
  <2>4. InFlight' = InFlight \cup {Refresh}
    BY <2>1 DEF InFlight, Users
  <2> QED
    BY <1>0, <2>3, <2>4 DEF LockUsers
<1>3. CASE SendRead
  BY <1>0, <1>3, SameUsers DEF SendRead
<1>4. CASE StatusCompletes
  BY <1>4, RefreshLeaves DEF StatusCompletes, Accept, EndRefresh, ReadOnWire
<1>5. CASE StatusThenExtended
  <2>1. /\ refresh = "wire" /\ refresh' = "extQueued" /\ write' = write
        /\ lockQ' = Append(Tail(lockQ), Refresh)
    BY <1>5 DEF StatusThenExtended
  <2>2. lockQ # <<>> /\ Head(lockQ) = Refresh
    BY <2>1 DEF IInv, LockDiscipline, ReadOnWire, HoldsLock
  <2>3. /\ Tail(lockQ) \in Seq(Users) /\ IsInjective(Tail(lockQ))
        /\ ToSet(Tail(lockQ)) = ToSet(lockQ) \ {Refresh}
    BY <1>0, <2>2, ReleaseHead DEF TaskTypes, LockUsers
  <2>4. /\ IsInjective(lockQ')
        /\ ToSet(lockQ') = (ToSet(lockQ) \ {Refresh}) \cup {Refresh}
    <3>1. Refresh \in Users /\ Refresh \notin ToSet(Tail(lockQ))
      BY <2>3 DEF Users
    <3> QED
      BY <2>1, <2>3, <3>1, Enqueue
  <2>5. InFlight' = InFlight /\ Refresh \in InFlight
    BY <2>1 DEF InFlight, Users
  <2> QED
    BY <1>0, <2>4, <2>5 DEF LockUsers
<1>6. CASE SendExtended
  BY <1>0, <1>6, SameUsers DEF SendExtended
<1>7. CASE ExtendedCompletes
  BY <1>7, RefreshLeaves DEF ExtendedCompletes, Accept, EndRefresh, ReadOnWire
<1>8. CASE RefreshFails
  BY <1>8, RefreshLeaves DEF RefreshFails, EndRefresh, ReadOnWire
<1>9. ASSUME NEW c \in Callers, NEW s \in Commands, StartCommand(c, s)
      PROVE  LockUsers'
  <2>1. /\ write[c] = "idle" /\ write' = [write EXCEPT ![c] = "queued"]
        /\ refresh' = refresh /\ lockQ' = Append(lockQ, c)
    BY <1>9 DEF StartCommand
  <2>2. c \notin ToSet(lockQ) /\ c \in Users
    BY <1>0, <2>1 DEF LockUsers, InFlight, Users
  <2>3. IsInjective(lockQ') /\ ToSet(lockQ') = ToSet(lockQ) \cup {c}
    BY <1>0, <2>1, <2>2, Enqueue DEF LockUsers, TaskTypes
  <2>4. InFlight' = InFlight \cup {c}
    BY <1>0, <2>1 DEF InFlight, Users, TaskTypes
  <2> QED
    BY <1>0, <2>3, <2>4 DEF LockUsers
<1>10. ASSUME NEW c \in Callers, NEW x \in BOOLEAN, SendWrite(c, x)
      PROVE  LockUsers'
  <2>1. /\ write[c] = "queued" /\ UNCHANGED <<refresh, lockQ>>
        /\ write' = [write EXCEPT ![c] = IF x THEN "sent" ELSE "lost"]
    BY <1>10 DEF SendWrite
  <2>2. \A d \in Callers : write'[d] = "idle" <=> write[d] = "idle"
    BY <1>0, <2>1 DEF TaskTypes
  <2> QED
    BY <1>0, <2>1, <2>2, SameUsers
<1>11. ASSUME NEW c \in Callers, CommandCompletes(c)
      PROVE  LockUsers'
  <2>1. /\ write[c] \in {"sent", "lost"} /\ write' = [write EXCEPT ![c] = "idle"]
        /\ refresh' = refresh /\ lockQ' = Tail(lockQ)
    BY <1>11 DEF CommandCompletes
  <2>2. lockQ # <<>> /\ Head(lockQ) = c
    BY <2>1 DEF IInv, LockDiscipline, HoldsLock
  <2>3. IsInjective(lockQ') /\ ToSet(lockQ') = ToSet(lockQ) \ {c}
    BY <1>0, <2>1, <2>2, ReleaseHead DEF TaskTypes, LockUsers
  <2> QED
    BY <2>1, <2>3, CallerLeaves
<1>12. ASSUME NEW c \in Callers, CommandFails(c)
      PROVE  LockUsers'
  <2>1. write' = [write EXCEPT ![c] = "idle"] /\ refresh' = refresh
    BY <1>12 DEF CommandFails
  <2>2. IsInjective(lockQ') /\ ToSet(lockQ') = ToSet(lockQ) \ {c}
    BY <1>12, FailedLeaves DEF IInv
  <2> QED
    BY <2>1, <2>2, CallerLeaves
<1>13. CASE SettingStep \/ Tick \/ UNCHANGED vars
  BY <1>0, <1>13, SameUsers DEF SettingStep, SetAssist, SetIdle, Tick
<1>14. ASSUME NEW s \in PumpStates, PumpChanges(s)
      PROVE  LockUsers'
  BY <1>0, <1>14, SameUsers DEF PumpChanges
<1> QED
  BY <1>1, <1>2, <1>3, <1>4, <1>5, <1>6, <1>7, <1>8, <1>9, <1>10, <1>11, <1>12, <1>13,
     <1>14 DEF Next, RefreshStep, CommandStep

(***************************************************************************)
(* Windows, and the refreshes that were waiting when they opened.          *)
(***************************************************************************)
LEMMA WindowStep ==
  ASSUME IInv, [Next]_vars
  PROVE  WindowFacts'
<1>1. CASE SkipQuietRefresh
  BY <1>1
     DEF SkipQuietRefresh, InQuietWindow, QuietInterval, IInv, TypeOK,
         CoordinatorTypes, TaskTypes, WindowFacts
<1>2. CASE StartRefresh
  BY <1>2
     DEF StartRefresh, InQuietWindow, IInv, TypeOK, CoordinatorTypes, TaskTypes,
         WindowFacts
<1>3. CASE SendRead
  BY <1>3 DEF SendRead, PumpSeesRead, IInv, TypeOK, CoordinatorTypes, TaskTypes, WindowFacts
<1>4. CASE StatusCompletes
  BY <1>4 DEF StatusCompletes, Accept, Recovered, EndRefresh, IInv, TypeOK, PumpTypes,
           Reported, WindowFacts
<1>5. CASE StatusThenExtended
  BY <1>5 DEF StatusThenExtended, IInv, TypeOK, CoordinatorTypes, TaskTypes, WindowFacts
<1>6. CASE SendExtended
  BY <1>6
     DEF SendExtended, PumpSeesRead, IInv, TypeOK, CoordinatorTypes, TaskTypes,
         WindowFacts
<1>7. CASE ExtendedCompletes
  BY <1>7 DEF ExtendedCompletes, Accept, Recovered, EndRefresh, IInv, TypeOK, TaskTypes,
           Reported, WindowFacts
<1>8. CASE RefreshFails
  BY <1>8
     DEF RefreshFails, EndRefresh, IInv, TypeOK, CoordinatorTypes, TaskTypes,
         WindowFacts
<1>9. ASSUME NEW c \in Callers, NEW s \in Commands, StartCommand(c, s)
      PROVE  WindowFacts'
  BY <1>9 DEF StartCommand, IInv, TypeOK, CoordinatorTypes, TaskTypes, WindowFacts
<1>10. ASSUME NEW c \in Callers, NEW x \in BOOLEAN, SendWrite(c, x)
      PROVE  WindowFacts'
  BY <1>10 DEF SendWrite, IInv, TypeOK, CoordinatorTypes, TaskTypes, WindowFacts
<1>11. ASSUME NEW c \in Callers, CommandCompletes(c)
      PROVE  WindowFacts'
  <2>1. target[c] # None /\ data' = target[c]
    BY <1>11 DEF CommandCompletes, IInv, TypeOK, TaskTypes, Commands
  <2>2. refresh # "idle" => overtaken' # "no"
    BY <1>11 DEF CommandCompletes
  <2>3. quietLeft' > 0 => assist'
    BY <1>11 DEF CommandCompletes, WindowAfterCommand
  <2> QED
    BY <1>11, <2>1, <2>2, <2>3 DEF CommandCompletes, IInv, WindowFacts
<1>12. ASSUME NEW c \in Callers, CommandFails(c)
      PROVE  WindowFacts'
  BY <1>12 DEF CommandFails, IInv, TypeOK, CoordinatorTypes, TaskTypes, WindowFacts
<1>13. ASSUME NEW b \in BOOLEAN, SetAssist(b)
      PROVE  WindowFacts'
  BY <1>13
     DEF SetAssist, Reschedule, Arm, IInv, TypeOK, CoordinatorTypes, TaskTypes,
         WindowFacts
<1>14. ASSUME NEW i \in IdleChoices, SetIdle(i)
      PROVE  WindowFacts'
  BY <1>14
     DEF SetIdle, Reschedule, Arm, QuietInterval, IInv, TypeOK, CoordinatorTypes,
         TaskTypes, WindowFacts
<1>15. ASSUME NEW s \in PumpStates, PumpChanges(s)
      PROVE  WindowFacts'
  BY <1>15 DEF PumpChanges, IInv, TypeOK, CoordinatorTypes, TaskTypes, WindowFacts
<1>16. CASE Tick
  BY <1>16 DEF Tick, Down, IInv, TypeOK, CoordinatorTypes, TaskTypes, WindowFacts
<1>17. CASE UNCHANGED vars
  BY <1>17 DEF IInv, TypeOK, CoordinatorTypes, TaskTypes, WindowFacts
<1> QED
  BY <1>1, <1>2, <1>3, <1>4, <1>5, <1>6, <1>7, <1>8, <1>9, <1>10, <1>11, <1>12, <1>13,
     <1>14, <1>15, <1>16, <1>17
     DEF Next, RefreshStep, CommandStep, SettingStep

(***************************************************************************)
(* The pump's override never outlasts the window, unless a read in between *)
(* prolonged it.                                                           *)
(***************************************************************************)
LEMMA HandoverFactsStep ==
  ASSUME IInv, [Next]_vars
  PROVE  HandoverFacts'
<1>1. CASE SkipQuietRefresh
  BY <1>1
     DEF SkipQuietRefresh, InQuietWindow, QuietInterval, IInv, TypeOK, PumpTypes,
         CoordinatorTypes, WindowFacts, HandoverFacts, HandoverStands, ReadOnWire
<1>2. CASE StartRefresh
  BY <1>2
     DEF StartRefresh, InQuietWindow, IInv, TypeOK, PumpTypes, CoordinatorTypes,
         WindowFacts, HandoverFacts, HandoverStands, ReadOnWire
<1>3. CASE SendRead
  <2>1. handover' => handover /\ overtaken = "no"
    BY <1>3, Zenon DEF SendRead, PumpSeesRead
  <2>2. handover' => remoteLeft = 0
    BY <1>3, <2>1
       DEF SendRead, IInv, TypeOK, PumpTypes, CoordinatorTypes, WindowFacts,
           HandoverStands
  <2>3. remoteLeft' = IF remoteLeft > 0 THEN Override ELSE 0
    BY <1>3 DEF SendRead, PumpSeesRead
  <2>4. UNCHANGED <<overtaken, idle, cmdAge, assist, quietLeft>>
    BY <1>3 DEF SendRead
  <2> QED
    BY <2>1, <2>2, <2>3, <2>4
       DEF IInv, TypeOK, PumpTypes, CoordinatorTypes, HandoverFacts, HandoverStands
<1>4. CASE StatusCompletes
  BY <1>4
     DEF StatusCompletes, Accept, Recovered, TrackChangeSource, Track, RunningSpeed,
         EndRefresh, IInv, TypeOK, PumpTypes, CoordinatorTypes, WindowFacts,
         HandoverFacts, HandoverStands, ReadOnWire
<1>5. CASE StatusThenExtended
  BY <1>5
     DEF StatusThenExtended, IInv, TypeOK, PumpTypes, CoordinatorTypes, WindowFacts,
         HandoverFacts, HandoverStands, ReadOnWire
<1>6. CASE SendExtended
  <2>1. handover' => handover /\ overtaken = "no"
    BY <1>6, Zenon DEF SendExtended, PumpSeesRead
  <2>2. handover' => remoteLeft = 0
    BY <1>6, <2>1
       DEF SendExtended, IInv, TypeOK, PumpTypes, CoordinatorTypes, WindowFacts,
           HandoverStands
  <2>3. remoteLeft' = IF remoteLeft > 0 THEN Override ELSE 0
    BY <1>6 DEF SendExtended, PumpSeesRead
  <2>4. UNCHANGED <<overtaken, idle, cmdAge, assist, quietLeft>>
    BY <1>6 DEF SendExtended
  <2> QED
    BY <2>1, <2>2, <2>3, <2>4
       DEF IInv, TypeOK, PumpTypes, CoordinatorTypes, HandoverFacts, HandoverStands
<1>7. CASE ExtendedCompletes
  BY <1>7
     DEF ExtendedCompletes, Accept, Recovered, TrackChangeSource, Track, RunningSpeed,
         EndRefresh, IInv, TypeOK, PumpTypes, CoordinatorTypes, WindowFacts,
         HandoverFacts, HandoverStands, ReadOnWire
<1>8. CASE RefreshFails
  BY <1>8
     DEF RefreshFails, EndRefresh, IInv, TypeOK, PumpTypes, CoordinatorTypes,
         WindowFacts, HandoverFacts, HandoverStands, ReadOnWire
<1>9. ASSUME NEW c \in Callers, NEW s \in Commands, StartCommand(c, s)
      PROVE  HandoverFacts'
  BY <1>9
     DEF StartCommand, IInv, TypeOK, PumpTypes, CoordinatorTypes, WindowFacts,
         HandoverFacts, HandoverStands, ReadOnWire
<1>10. ASSUME NEW c \in Callers, NEW x \in BOOLEAN, SendWrite(c, x)
      PROVE  HandoverFacts'
  <2>1. handover' => handover /\ ~x
    BY <1>10, Zenon DEF SendWrite
  <2>2. remoteLeft' = IF x THEN Override ELSE remoteLeft
    BY <1>10 DEF SendWrite
  <2>3. UNCHANGED <<overtaken, idle, cmdAge, refresh>>
    BY <1>10 DEF SendWrite
  <2> QED
    BY <2>1, <2>2, <2>3 DEF IInv, HandoverFacts, ReadOnWire
<1>11. ASSUME NEW c \in Callers, CommandCompletes(c)
      PROVE  HandoverFacts'
  <2>1. ~ReadOnWire /\ refresh' = refresh
    BY <1>11 DEF CommandCompletes, IInv, LockDiscipline, HoldsLock
  <2>2. handover' => idle >= Override
    BY <1>11, Zenon DEF CommandCompletes
  <2>3. cmdAge' = 0 /\ UNCHANGED <<remoteLeft, idle>>
    BY <1>11 DEF CommandCompletes
  <2> QED
    BY <2>1, <2>2, <2>3
       DEF IInv, TypeOK, PumpTypes, CoordinatorTypes, HandoverFacts, ReadOnWire
<1>12. ASSUME NEW c \in Callers, CommandFails(c)
      PROVE  HandoverFacts'
  BY <1>12
     DEF CommandFails, IInv, TypeOK, PumpTypes, CoordinatorTypes, WindowFacts,
         HandoverFacts, HandoverStands, ReadOnWire
<1>13. ASSUME NEW b \in BOOLEAN, SetAssist(b)
      PROVE  HandoverFacts'
  BY <1>13
     DEF SetAssist, Reschedule, Arm, IInv, TypeOK, PumpTypes, CoordinatorTypes,
         WindowFacts, HandoverFacts, HandoverStands, ReadOnWire
<1>14. ASSUME NEW i \in IdleChoices, SetIdle(i)
      PROVE  HandoverFacts'
  BY <1>14
     DEF SetIdle, Reschedule, Arm, QuietInterval, IInv, TypeOK, PumpTypes,
         CoordinatorTypes, WindowFacts, HandoverFacts, HandoverStands, ReadOnWire
<1>15. ASSUME NEW s \in PumpStates, PumpChanges(s)
      PROVE  HandoverFacts'
  BY <1>15
     DEF PumpChanges, IInv, TypeOK, PumpTypes, CoordinatorTypes, WindowFacts,
         HandoverFacts, HandoverStands, ReadOnWire
<1>16. CASE Tick
  BY <1>16
     DEF Tick, Down, IInv, TypeOK, PumpTypes, CoordinatorTypes, WindowFacts,
         HandoverFacts, HandoverStands, ReadOnWire
<1>17. CASE UNCHANGED vars
  BY <1>17
     DEF IInv, TypeOK, PumpTypes, CoordinatorTypes, WindowFacts, HandoverFacts,
         HandoverStands, ReadOnWire
<1> QED
  BY <1>1, <1>2, <1>3, <1>4, <1>5, <1>6, <1>7, <1>8, <1>9, <1>10, <1>11, <1>12, <1>13,
     <1>14, <1>15, <1>16, <1>17
     DEF Next, RefreshStep, CommandStep, SettingStep

\* The promise of a handover at the end of the window is kept by every step.
LEMMA HandoverStep ==
  ASSUME IInv, [Next]_vars
  PROVE  HandoverStands'
<1>1. CASE SkipQuietRefresh
  BY <1>1
     DEF SkipQuietRefresh, InQuietWindow, QuietInterval, IInv, TypeOK, PumpTypes,
         CoordinatorTypes, WindowFacts, HandoverFacts, HandoverStands, ReadOnWire
<1>2. CASE StartRefresh
  BY <1>2
     DEF StartRefresh, InQuietWindow, IInv, TypeOK, PumpTypes, CoordinatorTypes,
         WindowFacts, HandoverFacts, HandoverStands, ReadOnWire
<1>3. CASE SendRead
  <2>1. handover' => handover /\ overtaken = "no"
    BY <1>3, Zenon DEF SendRead, PumpSeesRead
  <2>2. handover' => remoteLeft = 0
    BY <1>3, <2>1
       DEF SendRead, IInv, TypeOK, PumpTypes, CoordinatorTypes, WindowFacts,
           HandoverStands
  <2>3. remoteLeft' = IF remoteLeft > 0 THEN Override ELSE 0
    BY <1>3 DEF SendRead, PumpSeesRead
  <2>4. UNCHANGED <<overtaken, idle, cmdAge, assist, quietLeft>>
    BY <1>3 DEF SendRead
  <2> QED
    BY <2>1, <2>2, <2>3, <2>4
       DEF IInv, TypeOK, PumpTypes, CoordinatorTypes, HandoverFacts, HandoverStands
<1>4. CASE StatusCompletes
  BY <1>4
     DEF StatusCompletes, Accept, Recovered, TrackChangeSource, Track, RunningSpeed,
         EndRefresh, IInv, TypeOK, PumpTypes, CoordinatorTypes, WindowFacts,
         HandoverFacts, HandoverStands, ReadOnWire
<1>5. CASE StatusThenExtended
  BY <1>5
     DEF StatusThenExtended, IInv, TypeOK, PumpTypes, CoordinatorTypes, WindowFacts,
         HandoverFacts, HandoverStands, ReadOnWire
<1>6. CASE SendExtended
  <2>1. handover' => handover /\ overtaken = "no"
    BY <1>6, Zenon DEF SendExtended, PumpSeesRead
  <2>2. handover' => remoteLeft = 0
    BY <1>6, <2>1
       DEF SendExtended, IInv, TypeOK, PumpTypes, CoordinatorTypes, WindowFacts,
           HandoverStands
  <2>3. remoteLeft' = IF remoteLeft > 0 THEN Override ELSE 0
    BY <1>6 DEF SendExtended, PumpSeesRead
  <2>4. UNCHANGED <<overtaken, idle, cmdAge, assist, quietLeft>>
    BY <1>6 DEF SendExtended
  <2> QED
    BY <2>1, <2>2, <2>3, <2>4
       DEF IInv, TypeOK, PumpTypes, CoordinatorTypes, HandoverFacts, HandoverStands
<1>7. CASE ExtendedCompletes
  BY <1>7
     DEF ExtendedCompletes, Accept, Recovered, TrackChangeSource, Track, RunningSpeed,
         EndRefresh, IInv, TypeOK, PumpTypes, CoordinatorTypes, WindowFacts,
         HandoverFacts, HandoverStands, ReadOnWire
<1>8. CASE RefreshFails
  BY <1>8
     DEF RefreshFails, EndRefresh, IInv, TypeOK, PumpTypes, CoordinatorTypes,
         WindowFacts, HandoverFacts, HandoverStands, ReadOnWire
<1>9. ASSUME NEW c \in Callers, NEW s \in Commands, StartCommand(c, s)
      PROVE  HandoverStands'
  BY <1>9
     DEF StartCommand, IInv, TypeOK, PumpTypes, CoordinatorTypes, WindowFacts,
         HandoverFacts, HandoverStands, ReadOnWire
<1>10. ASSUME NEW c \in Callers, NEW x \in BOOLEAN, SendWrite(c, x)
      PROVE  HandoverStands'
  BY <1>10
     DEF SendWrite, IInv, TypeOK, PumpTypes, CoordinatorTypes, WindowFacts,
         HandoverFacts, HandoverStands, ReadOnWire
<1>11. ASSUME NEW c \in Callers, CommandCompletes(c)
      PROVE  HandoverStands'
  BY <1>11
     DEF CommandCompletes, Arm, WindowAfterCommand, QuietInterval, Track, IInv,
         TypeOK, PumpTypes, CoordinatorTypes, WindowFacts, HandoverFacts,
         HandoverStands, ReadOnWire
<1>12. ASSUME NEW c \in Callers, CommandFails(c)
      PROVE  HandoverStands'
  BY <1>12
     DEF CommandFails, IInv, TypeOK, PumpTypes, CoordinatorTypes, WindowFacts,
         HandoverFacts, HandoverStands, ReadOnWire
<1>13. ASSUME NEW b \in BOOLEAN, SetAssist(b)
      PROVE  HandoverStands'
  BY <1>13
     DEF SetAssist, Reschedule, Arm, IInv, TypeOK, PumpTypes, CoordinatorTypes,
         WindowFacts, HandoverFacts, HandoverStands, ReadOnWire
<1>14. ASSUME NEW i \in IdleChoices, SetIdle(i)
      PROVE  HandoverStands'
  <2>1. handover' => handover /\ i >= Override
    BY <1>14, Zenon DEF SetIdle
  <2>2. quietLeft' = IF assist /\ quietLeft > 0 THEN (IF i > cmdAge THEN i - cmdAge ELSE 0)
                     ELSE quietLeft
    BY <1>14 DEF SetIdle
  <2>3. UNCHANGED <<assist, remoteLeft, cmdAge>>
    BY <1>14 DEF SetIdle
  <2>4. i \in Nat /\ cmdAge \in Nat /\ remoteLeft \in Nat /\ quietLeft \in Nat
    BY DEF IInv, TypeOK, CoordinatorTypes, PumpTypes
  <2> QED
    BY <2>1, <2>2, <2>3, <2>4 DEF IInv, HandoverFacts, HandoverStands
<1>15. ASSUME NEW s \in PumpStates, PumpChanges(s)
      PROVE  HandoverStands'
  BY <1>15
     DEF PumpChanges, IInv, TypeOK, PumpTypes, CoordinatorTypes, WindowFacts,
         HandoverFacts, HandoverStands, ReadOnWire
<1>16. CASE Tick
  BY <1>16
     DEF Tick, Down, IInv, TypeOK, PumpTypes, CoordinatorTypes, WindowFacts,
         HandoverFacts, HandoverStands, ReadOnWire
<1>17. CASE UNCHANGED vars
  BY <1>17
     DEF IInv, TypeOK, PumpTypes, CoordinatorTypes, WindowFacts, HandoverFacts,
         HandoverStands, ReadOnWire
<1> QED
  BY <1>1, <1>2, <1>3, <1>4, <1>5, <1>6, <1>7, <1>8, <1>9, <1>10, <1>11, <1>12, <1>13,
     <1>14, <1>15, <1>16, <1>17
     DEF Next, RefreshStep, CommandStep, SettingStep

(***************************************************************************)
(* The timer.                                                              *)
(***************************************************************************)
LEMMA PollStep ==
  ASSUME IInv, [Next]_vars
  PROVE  PollIsScheduled'
<1>1. CASE SkipQuietRefresh
  BY <1>1
     DEF SkipQuietRefresh, InQuietWindow, QuietInterval, IInv, TypeOK,
         CoordinatorTypes, WindowFacts, PollIsScheduled, Larger
<1>2. CASE StartRefresh
  BY <1>2
     DEF StartRefresh, InQuietWindow, IInv, TypeOK, CoordinatorTypes, WindowFacts,
         PollIsScheduled, Larger
<1>3. CASE SendRead
  BY <1>3
     DEF SendRead, PumpSeesRead, IInv, TypeOK, CoordinatorTypes, WindowFacts,
         PollIsScheduled, Larger
<1>4. CASE StatusCompletes
  BY <1>4
     DEF StatusCompletes, Accept, Recovered, TrackChangeSource, Track, RunningSpeed,
         EndRefresh, IInv, TypeOK, CoordinatorTypes, WindowFacts, PollIsScheduled,
         Larger
<1>5. CASE StatusThenExtended
  BY <1>5
     DEF StatusThenExtended, IInv, TypeOK, CoordinatorTypes, WindowFacts,
         PollIsScheduled, Larger
<1>6. CASE SendExtended
  BY <1>6
     DEF SendExtended, PumpSeesRead, IInv, TypeOK, CoordinatorTypes, WindowFacts,
         PollIsScheduled, Larger
<1>7. CASE ExtendedCompletes
  BY <1>7
     DEF ExtendedCompletes, Accept, Recovered, TrackChangeSource, Track, RunningSpeed,
         EndRefresh, IInv, TypeOK, CoordinatorTypes, WindowFacts, PollIsScheduled,
         Larger
<1>8. CASE RefreshFails
  BY <1>8
     DEF RefreshFails, EndRefresh, IInv, TypeOK, CoordinatorTypes, WindowFacts,
         PollIsScheduled, Larger
<1>9. ASSUME NEW c \in Callers, NEW s \in Commands, StartCommand(c, s)
      PROVE  PollIsScheduled'
  BY <1>9
     DEF StartCommand, IInv, TypeOK, CoordinatorTypes, WindowFacts, PollIsScheduled,
         Larger
<1>10. ASSUME NEW c \in Callers, NEW x \in BOOLEAN, SendWrite(c, x)
      PROVE  PollIsScheduled'
  BY <1>10
     DEF SendWrite, IInv, TypeOK, CoordinatorTypes, WindowFacts, PollIsScheduled,
         Larger
<1>11. ASSUME NEW c \in Callers, CommandCompletes(c)
      PROVE  PollIsScheduled'
  BY <1>11
     DEF CommandCompletes, Arm, WindowAfterCommand, QuietInterval, Track, IInv,
         TypeOK, CoordinatorTypes, WindowFacts, PollIsScheduled, Larger
<1>12. ASSUME NEW c \in Callers, CommandFails(c)
      PROVE  PollIsScheduled'
  BY <1>12
     DEF CommandFails, IInv, TypeOK, CoordinatorTypes, WindowFacts, PollIsScheduled,
         Larger
<1>13. ASSUME NEW b \in BOOLEAN, SetAssist(b)
      PROVE  PollIsScheduled'
  BY <1>13
     DEF SetAssist, Reschedule, Arm, IInv, TypeOK, CoordinatorTypes, WindowFacts,
         PollIsScheduled, Larger
<1>14. ASSUME NEW i \in IdleChoices, SetIdle(i)
      PROVE  PollIsScheduled'
  BY <1>14
     DEF SetIdle, Reschedule, Arm, QuietInterval, IInv, TypeOK, CoordinatorTypes,
         WindowFacts, PollIsScheduled, Larger
<1>15. ASSUME NEW s \in PumpStates, PumpChanges(s)
      PROVE  PollIsScheduled'
  BY <1>15
     DEF PumpChanges, IInv, TypeOK, CoordinatorTypes, WindowFacts, PollIsScheduled,
         Larger
<1>16. CASE Tick
  BY <1>16
     DEF Tick, Down, IInv, TypeOK, CoordinatorTypes, WindowFacts, PollIsScheduled,
         Larger
<1>17. CASE UNCHANGED vars
  BY <1>17 DEF IInv, TypeOK, CoordinatorTypes, WindowFacts, PollIsScheduled, Larger
<1> QED
  BY <1>1, <1>2, <1>3, <1>4, <1>5, <1>6, <1>7, <1>8, <1>9, <1>10, <1>11, <1>12, <1>13,
     <1>14, <1>15, <1>16, <1>17
     DEF Next, RefreshStep, CommandStep, SettingStep

(***************************************************************************)
(* The failure counter, availability and the runtime tracker.              *)
(***************************************************************************)
LEMMA AvailabilityStep ==
  ASSUME IInv, [Next]_vars
  PROVE  AvailabilityDebounced'
<1>1. CASE SkipQuietRefresh
  BY <1>1
     DEF SkipQuietRefresh, InQuietWindow, QuietInterval, IInv, TypeOK,
         CoordinatorTypes, WindowFacts, AvailabilityDebounced
<1>2. CASE StartRefresh
  BY <1>2
     DEF StartRefresh, InQuietWindow, IInv, TypeOK, CoordinatorTypes, WindowFacts,
         AvailabilityDebounced
<1>3. CASE SendRead
  BY <1>3
     DEF SendRead, PumpSeesRead, IInv, TypeOK, CoordinatorTypes, WindowFacts,
         AvailabilityDebounced
<1>4. CASE StatusCompletes
  BY <1>4
     DEF StatusCompletes, Accept, Recovered, TrackChangeSource, Track, RunningSpeed,
         EndRefresh, IInv, TypeOK, CoordinatorTypes, WindowFacts,
         AvailabilityDebounced
<1>5. CASE StatusThenExtended
  BY <1>5
     DEF StatusThenExtended, IInv, TypeOK, CoordinatorTypes, WindowFacts,
         AvailabilityDebounced
<1>6. CASE SendExtended
  BY <1>6
     DEF SendExtended, PumpSeesRead, IInv, TypeOK, CoordinatorTypes, WindowFacts,
         AvailabilityDebounced
<1>7. CASE ExtendedCompletes
  BY <1>7
     DEF ExtendedCompletes, Accept, Recovered, TrackChangeSource, Track, RunningSpeed,
         EndRefresh, IInv, TypeOK, CoordinatorTypes, WindowFacts,
         AvailabilityDebounced
<1>8. CASE RefreshFails
  BY <1>8
     DEF RefreshFails, EndRefresh, IInv, TypeOK, CoordinatorTypes, WindowFacts,
         AvailabilityDebounced
<1>9. ASSUME NEW c \in Callers, NEW s \in Commands, StartCommand(c, s)
      PROVE  AvailabilityDebounced'
  BY <1>9
     DEF StartCommand, IInv, TypeOK, CoordinatorTypes, WindowFacts,
         AvailabilityDebounced
<1>10. ASSUME NEW c \in Callers, NEW x \in BOOLEAN, SendWrite(c, x)
      PROVE  AvailabilityDebounced'
  BY <1>10 DEF SendWrite, IInv, TypeOK, CoordinatorTypes, WindowFacts, AvailabilityDebounced
<1>11. ASSUME NEW c \in Callers, CommandCompletes(c)
      PROVE  AvailabilityDebounced'
  BY <1>11
     DEF CommandCompletes, Arm, WindowAfterCommand, QuietInterval, Track, IInv,
         TypeOK, CoordinatorTypes, WindowFacts, AvailabilityDebounced
<1>12. ASSUME NEW c \in Callers, CommandFails(c)
      PROVE  AvailabilityDebounced'
  BY <1>12
     DEF CommandFails, IInv, TypeOK, CoordinatorTypes, WindowFacts,
         AvailabilityDebounced
<1>13. ASSUME NEW b \in BOOLEAN, SetAssist(b)
      PROVE  AvailabilityDebounced'
  BY <1>13
     DEF SetAssist, Reschedule, Arm, IInv, TypeOK, CoordinatorTypes, WindowFacts,
         AvailabilityDebounced
<1>14. ASSUME NEW i \in IdleChoices, SetIdle(i)
      PROVE  AvailabilityDebounced'
  BY <1>14
     DEF SetIdle, Reschedule, Arm, QuietInterval, IInv, TypeOK, CoordinatorTypes,
         WindowFacts, AvailabilityDebounced
<1>15. ASSUME NEW s \in PumpStates, PumpChanges(s)
      PROVE  AvailabilityDebounced'
  BY <1>15
     DEF PumpChanges, IInv, TypeOK, CoordinatorTypes, WindowFacts,
         AvailabilityDebounced
<1>16. CASE Tick
  BY <1>16
     DEF Tick, Down, IInv, TypeOK, CoordinatorTypes, WindowFacts,
         AvailabilityDebounced
<1>17. CASE UNCHANGED vars
  BY <1>17 DEF IInv, TypeOK, CoordinatorTypes, WindowFacts, AvailabilityDebounced
<1> QED
  BY <1>1, <1>2, <1>3, <1>4, <1>5, <1>6, <1>7, <1>8, <1>9, <1>10, <1>11, <1>12, <1>13,
     <1>14, <1>15, <1>16, <1>17
     DEF Next, RefreshStep, CommandStep, SettingStep

\* Every step that publishes a state tells the runtime counter.
LEMMA TrackerStep ==
  ASSUME IInv, [Next]_vars
  PROVE  TrackerFollowsData'
<1>1. CASE SkipQuietRefresh
  BY <1>1
     DEF SkipQuietRefresh, InQuietWindow, QuietInterval, IInv, TypeOK,
         CoordinatorTypes, WindowFacts, AvailabilityDebounced, TrackerFollowsData
<1>2. CASE StartRefresh
  BY <1>2
     DEF StartRefresh, InQuietWindow, IInv, TypeOK, CoordinatorTypes, WindowFacts,
         AvailabilityDebounced, TrackerFollowsData
<1>3. CASE SendRead
  BY <1>3
     DEF SendRead, PumpSeesRead, IInv, TypeOK, CoordinatorTypes, WindowFacts,
         AvailabilityDebounced, TrackerFollowsData
<1>4. CASE StatusCompletes
  BY <1>4
     DEF StatusCompletes, Accept, Recovered, TrackChangeSource, Track, RunningSpeed,
         EndRefresh, IInv, TypeOK, CoordinatorTypes, WindowFacts,
         AvailabilityDebounced, TrackerFollowsData
<1>5. CASE StatusThenExtended
  BY <1>5
     DEF StatusThenExtended, IInv, TypeOK, CoordinatorTypes, WindowFacts,
         AvailabilityDebounced, TrackerFollowsData
<1>6. CASE SendExtended
  BY <1>6
     DEF SendExtended, PumpSeesRead, IInv, TypeOK, CoordinatorTypes, WindowFacts,
         AvailabilityDebounced, TrackerFollowsData
<1>7. CASE ExtendedCompletes
  BY <1>7
     DEF ExtendedCompletes, Accept, Recovered, TrackChangeSource, Track, RunningSpeed,
         EndRefresh, IInv, TypeOK, CoordinatorTypes, WindowFacts,
         AvailabilityDebounced, TrackerFollowsData
<1>8. CASE RefreshFails
  BY <1>8
     DEF RefreshFails, EndRefresh, IInv, TypeOK, CoordinatorTypes, WindowFacts,
         AvailabilityDebounced, TrackerFollowsData
<1>9. ASSUME NEW c \in Callers, NEW s \in Commands, StartCommand(c, s)
      PROVE  TrackerFollowsData'
  BY <1>9
     DEF StartCommand, IInv, TypeOK, CoordinatorTypes, WindowFacts,
         AvailabilityDebounced, TrackerFollowsData
<1>10. ASSUME NEW c \in Callers, NEW x \in BOOLEAN, SendWrite(c, x)
      PROVE  TrackerFollowsData'
  BY <1>10
     DEF SendWrite, IInv, TypeOK, CoordinatorTypes, WindowFacts,
         AvailabilityDebounced, TrackerFollowsData
<1>11. ASSUME NEW c \in Callers, CommandCompletes(c)
      PROVE  TrackerFollowsData'
  BY <1>11
     DEF CommandCompletes, Arm, WindowAfterCommand, QuietInterval, Track, IInv,
         TypeOK, CoordinatorTypes, WindowFacts, AvailabilityDebounced,
         TrackerFollowsData
<1>12. ASSUME NEW c \in Callers, CommandFails(c)
      PROVE  TrackerFollowsData'
  BY <1>12
     DEF CommandFails, IInv, TypeOK, CoordinatorTypes, WindowFacts,
         AvailabilityDebounced, TrackerFollowsData
<1>13. ASSUME NEW b \in BOOLEAN, SetAssist(b)
      PROVE  TrackerFollowsData'
  BY <1>13
     DEF SetAssist, Reschedule, Arm, IInv, TypeOK, CoordinatorTypes, WindowFacts,
         AvailabilityDebounced, TrackerFollowsData
<1>14. ASSUME NEW i \in IdleChoices, SetIdle(i)
      PROVE  TrackerFollowsData'
  BY <1>14
     DEF SetIdle, Reschedule, Arm, QuietInterval, IInv, TypeOK, CoordinatorTypes,
         WindowFacts, AvailabilityDebounced, TrackerFollowsData
<1>15. ASSUME NEW s \in PumpStates, PumpChanges(s)
      PROVE  TrackerFollowsData'
  BY <1>15
     DEF PumpChanges, IInv, TypeOK, CoordinatorTypes, WindowFacts,
         AvailabilityDebounced, TrackerFollowsData
<1>16. CASE Tick
  BY <1>16
     DEF Tick, Down, IInv, TypeOK, CoordinatorTypes, WindowFacts,
         AvailabilityDebounced, TrackerFollowsData
<1>17. CASE UNCHANGED vars
  BY <1>17
     DEF IInv, TypeOK, CoordinatorTypes, WindowFacts, AvailabilityDebounced,
         TrackerFollowsData
<1> QED
  BY <1>1, <1>2, <1>3, <1>4, <1>5, <1>6, <1>7, <1>8, <1>9, <1>10, <1>11, <1>12, <1>13,
     <1>14, <1>15, <1>16, <1>17
     DEF Next, RefreshStep, CommandStep, SettingStep

\* A client whose refresh is on the wire executes no command.
LEMMA WireExcludesCommands ==
  ASSUME LockDiscipline, ReadOnWire
  PROVE  NoneExecuting
BY DEF LockDiscipline, HoldsLock, NoneExecuting

\* A status that is the pump's, or older than a command that overtook it, keeps
\* what is remembered true.
LEMMA AcceptKeepsOrigin ==
  ASSUME IInv, ReadOnWire, NEW s, Accept(s),
         s = pump \/ (refresh = "extWire" /\ s = sample)
  PROVE  OriginInv'
<1>1. NoneExecuting /\ OriginFacts /\ OptimisticStateIsTrue /\ (Modbus \/ ExternalMeansExternal)
  BY WireExcludesCommands DEF IInv, OriginInv
<1>2. /\ write' = write /\ pump' = pump /\ drift' = drift
      /\ refresh' = "idle" /\ data' = s
      /\ staled' = (overtaken = "afterSample")
      /\ TrackChangeSource(previous, s)
  BY DEF Accept, EndRefresh
<1>3. ~drift /\ overtaken # "afterSample" => s = pump
  BY <1>1 DEF OriginFacts
<1>4. ~Modbus => s = pump
  BY <1>1 DEF OriginFacts
<1>5. ~drift /\ pending # None => pump = pending
  BY <1>1 DEF OptimisticStateIsTrue, NoneExecuting
<1>6. pending' = pending \/ pending' = None
  BY <1>2 DEF TrackChangeSource
<1>7. OriginFacts'
  BY <1>1, <1>2, <1>4 DEF OriginFacts, NoneExecuting
<1>8. OptimisticStateIsTrue'
  BY <1>2, <1>3, <1>4, <1>5, <1>6 DEF OptimisticStateIsTrue
<1>9. ASSUME ~Modbus, source' = "external", ~drift
      PROVE  FALSE
  <2>1. s = pump /\ source # "external"
    BY <1>1, <1>4, <1>9 DEF ExternalMeansExternal
  <2>2. pending = None => previous \in {None, pump}
    BY <1>1, <1>9 DEF OriginFacts, ReadOnWire
  <2> QED
    BY <1>2, <1>5, <1>9, <2>1, <2>2 DEF TrackChangeSource
<1>10. Modbus \/ ExternalMeansExternal'
  BY <1>2, <1>9 DEF ExternalMeansExternal
<1> QED
  BY <1>7, <1>8, <1>10 DEF OriginInv

LEMMA OriginStep == IInv /\ [Next]_vars => OriginInv'
<1> SUFFICES ASSUME IInv, [Next]_vars
             PROVE  OriginInv'
  OBVIOUS
<1>1. /\ OriginFacts /\ OptimisticStateIsTrue /\ (Modbus \/ ExternalMeansExternal)
      /\ LockDiscipline /\ TaskTypes
  BY DEF IInv, OriginInv, TypeOK
<1>2. ASSUME UNCHANGED <<write, target, pump, sample, overtaken, pending, source, data,
                         previous, drift, staled>>,
             refresh' = refresh \/ (refresh = "queued" /\ refresh' = "wire")
                \/ (refresh = "extQueued" /\ refresh' = "extWire")
      PROVE  OriginInv'
  <2>1. NoneExecuting' = NoneExecuting
    BY <1>2 DEF NoneExecuting
  <2>2. OriginFacts'
    BY <1>1, <1>2, <2>1 DEF OriginFacts
  <2>3. OptimisticStateIsTrue' /\ (Modbus \/ ExternalMeansExternal')
    BY <1>1, <1>2 DEF OptimisticStateIsTrue, ExternalMeansExternal
  <2> QED
    BY <2>2, <2>3 DEF OriginInv
<1>3. CASE SkipQuietRefresh \/ SettingStep \/ Tick \/ UNCHANGED vars
  BY <1>2, <1>3 DEF SkipQuietRefresh, SettingStep, SetAssist, SetIdle, Tick
<1>4. CASE SendRead \/ SendExtended
  BY <1>2, <1>4 DEF SendRead, SendExtended
<1>5. CASE StartRefresh
  <2>1. /\ UNCHANGED <<write, target, pump, sample, overtaken, pending, source, data, drift, staled>>
        /\ refresh' = "queued" /\ previous' = data
    BY <1>5 DEF StartRefresh
  <2>2. OriginFacts'
    BY <1>1, <2>1 DEF OriginFacts, NoneExecuting
  <2>3. OptimisticStateIsTrue' /\ (Modbus \/ ExternalMeansExternal')
    BY <1>1, <2>1 DEF OptimisticStateIsTrue, ExternalMeansExternal
  <2> QED
    BY <2>2, <2>3 DEF OriginInv
<1>6. CASE StatusCompletes
  BY <1>6, AcceptKeepsOrigin DEF StatusCompletes, ReadOnWire
<1>7. CASE ExtendedCompletes
  BY <1>7, AcceptKeepsOrigin DEF ExtendedCompletes, ReadOnWire
<1>8. CASE StatusThenExtended
  <2>1. /\ UNCHANGED <<write, target, pump, overtaken, pending, source, data, previous,
                       drift, staled>>
        /\ Modbus /\ refresh' = "extQueued" /\ sample' = pump
    BY <1>8 DEF StatusThenExtended
  <2>2. OriginFacts'
    BY <1>1, <2>1 DEF OriginFacts
  <2>3. OptimisticStateIsTrue'
    BY <1>1, <2>1 DEF OptimisticStateIsTrue
  <2> QED
    BY <2>1, <2>2, <2>3 DEF OriginInv
<1>9. CASE RefreshFails
  <2>1. /\ UNCHANGED <<write, target, pump, pending, source, drift, staled>>
        /\ refresh' = "idle" /\ data' = data
    BY <1>9 DEF RefreshFails, EndRefresh
  <2>2. OriginFacts'
    BY <1>1, <2>1 DEF OriginFacts, NoneExecuting
  <2>3. OptimisticStateIsTrue' /\ (Modbus \/ ExternalMeansExternal')
    BY <1>1, <2>1 DEF OptimisticStateIsTrue, ExternalMeansExternal
  <2> QED
    BY <2>2, <2>3 DEF OriginInv
<1>10. CASE \E c \in Callers : CommandStep(c)
  <2> SUFFICES ASSUME NEW c \in Callers, CommandStep(c)
               PROVE  OriginInv'
    BY <1>10
  <2>1. CASE \E s \in Commands : StartCommand(c, s)
    <3>1. /\ UNCHANGED <<pump, refresh, sample, overtaken, pending, source, data, previous,
                         drift, staled>>
          /\ write[c] = "idle" /\ write' = [write EXCEPT ![c] = "queued"]
          /\ \A d \in Callers \ {c} : target'[d] = target[d]
      BY <1>1, <2>1 DEF StartCommand, TaskTypes
    <3>2. \A d \in Callers : write'[d] = "sent" <=> write[d] = "sent"
      BY <1>1, <3>1 DEF TaskTypes
    <3>3. OriginFacts'
      BY <1>1, <3>1, <3>2 DEF OriginFacts, NoneExecuting
    <3>4. OptimisticStateIsTrue' /\ (Modbus \/ ExternalMeansExternal')
      BY <1>1, <3>1, <3>2 DEF OptimisticStateIsTrue, ExternalMeansExternal
    <3> QED
      BY <3>3, <3>4 DEF OriginInv
  <2>2. CASE \E executed \in BOOLEAN : SendWrite(c, executed)
    <3>1. PICK executed \in BOOLEAN : SendWrite(c, executed)
      BY <2>2
    <3>2. /\ UNCHANGED <<target, refresh, sample, overtaken, pending, source, data, previous,
                         drift, staled>>
          /\ write[c] = "queued" /\ HoldsLock(c)
          /\ write' = [write EXCEPT ![c] = IF executed THEN "sent" ELSE "lost"]
          /\ pump' = IF executed THEN target[c] ELSE pump
      BY <3>1 DEF SendWrite
    <3>3. \A d \in Callers : write[d] # "sent"
      BY <1>1, <3>2 DEF LockDiscipline, HoldsLock
    <3>4. CASE executed
      <4>1. write'[c] = "sent" /\ pump' = target'[c]
            /\ \A d \in Callers \ {c} : write'[d] # "sent"
        BY <1>1, <3>2, <3>3, <3>4 DEF TaskTypes
      <4>2. OriginFacts'
        BY <1>1, <3>2, <4>1 DEF OriginFacts, NoneExecuting
      <4>3. OptimisticStateIsTrue' /\ (Modbus \/ ExternalMeansExternal')
        BY <1>1, <3>2, <4>1 DEF OptimisticStateIsTrue, ExternalMeansExternal
      <4> QED
        BY <4>2, <4>3 DEF OriginInv
    <3>5. CASE ~executed
      <4>1. pump' = pump /\ \A d \in Callers : write'[d] # "sent"
        BY <1>1, <3>2, <3>3, <3>5 DEF TaskTypes
      <4>2. OriginFacts'
        BY <1>1, <3>2, <3>3, <4>1 DEF OriginFacts, NoneExecuting
      <4>3. OptimisticStateIsTrue' /\ (Modbus \/ ExternalMeansExternal')
        BY <1>1, <3>2, <3>3, <4>1 DEF OptimisticStateIsTrue, ExternalMeansExternal
      <4> QED
        BY <4>2, <4>3 DEF OriginInv
    <3> QED
      BY <3>4, <3>5
  <2>3. CASE CommandCompletes(c)
    <3>1. /\ UNCHANGED <<pump, refresh, sample, previous>>
          /\ write[c] = "sent" \/ (write[c] = "lost" /\ ~Modbus)
          /\ source' = "homeassistant" /\ pending' = target[c] /\ data' = target[c]
          /\ write' = [write EXCEPT ![c] = "idle"]
          /\ overtaken' = CASE refresh = "idle" -> "no"
                            [] refresh = "extQueued" -> "afterSample"
                            [] OTHER -> "beforeSample"
          /\ drift' = (write[c] = "lost")
      BY <2>3 DEF CommandCompletes
    <3>2. HoldsLock(c)
      BY <1>1, <3>1 DEF LockDiscipline
    <3>3. \A d \in Callers : write'[d] # "sent"
      BY <1>1, <3>1, <3>2 DEF LockDiscipline, HoldsLock, TaskTypes
    <3>4. ~ReadOnWire
      BY <1>1, <3>2 DEF LockDiscipline, HoldsLock
    <3>5. ~drift' => pump' = target[c]
      BY <1>1, <3>1 DEF OriginFacts
    <3>6. target[c] # None
      BY <1>1 DEF TaskTypes, Commands
    <3>7. refresh' \in {"extQueued", "extWire"} => overtaken' = "afterSample" /\ Modbus
      BY <1>1, <3>1, <3>4 DEF ReadOnWire, OriginFacts
    <3>8. OriginFacts'
      BY <3>1, <3>3, <3>6, <3>7 DEF OriginFacts
    <3>9. OptimisticStateIsTrue' /\ (Modbus \/ ExternalMeansExternal')
      BY <3>1, <3>5 DEF OptimisticStateIsTrue, ExternalMeansExternal
    <3> QED
      BY <3>8, <3>9 DEF OriginInv
  <2>4. CASE CommandFails(c)
    <3>1. /\ UNCHANGED <<pump, refresh, sample, overtaken, pending, source, data, previous, staled>>
          /\ write' = [write EXCEPT ![c] = "idle"]
          /\ \A d \in Callers \ {c} : target'[d] = target[d]
          /\ drift' = (drift \/ write[c] = "sent")
      BY <1>1, <2>4 DEF CommandFails, TaskTypes
    <3>2. \A d \in Callers \ {c} : write'[d] = write[d]
      BY <1>1, <3>1 DEF TaskTypes
    <3>3. write'[c] = "idle"
      BY <1>1, <3>1 DEF TaskTypes
    <3>4. ~drift' => write[c] # "sent" /\ ~drift
      BY <3>1
    <3>5. OriginFacts'
      BY <1>1, <3>1, <3>2, <3>3, <3>4 DEF OriginFacts, NoneExecuting
    <3>6. OptimisticStateIsTrue' /\ (Modbus \/ ExternalMeansExternal')
      BY <1>1, <3>1, <3>2, <3>3, <3>4 DEF OptimisticStateIsTrue, ExternalMeansExternal
    <3> QED
      BY <3>5, <3>6 DEF OriginInv
  <2> QED
    BY <2>1, <2>2, <2>3, <2>4 DEF CommandStep
<1>11. CASE \E s \in PumpStates : PumpChanges(s)
  <2>1. /\ drift' = TRUE /\ UNCHANGED <<write, refresh>>
        /\ \A c \in Callers : write[c] # "sent"
    BY <1>11 DEF PumpChanges
  <2>2. OriginFacts'
    BY <1>1, <2>1 DEF OriginFacts
  <2>3. OptimisticStateIsTrue' /\ ExternalMeansExternal'
    BY <2>1 DEF OptimisticStateIsTrue, ExternalMeansExternal
  <2> QED
    BY <2>2, <2>3 DEF OriginInv
<1> QED
  BY <1>3, <1>4, <1>5, <1>6, <1>7, <1>8, <1>9, <1>10, <1>11 DEF Next, RefreshStep


\* The coordinator starts in its invariant.
LEMMA InitIInv == Init => IInv
<1> SUFFICES ASSUME Init
             PROVE  IInv
  OBVIOUS
<1>1. TypeOK
  <2>1. CoordinatorTypes
    <3>1. failures \in 0..FailureThreshold /\ cmdAge \in 0..Horizon
      BY DEF Init
    <3>2. /\ quietLeft \in Nat /\ interval \in Nat /\ timer \in Nat
          /\ lastRunning \in Nat /\ idle \in IdleChoices
      BY DEF Init
    <3>3. /\ data \in Reported \cup {None} /\ pending \in Commands \cup {None}
          /\ data = None /\ assist \in BOOLEAN /\ running \in BOOLEAN
          /\ online = "unknown" /\ source = "unknown"
      BY Zenon DEF Init
    <3> QED
      BY <3>1, <3>2, <3>3 DEF CoordinatorTypes
  <2>2. TaskTypes
    <3>1. lockQ \in Seq(Users)
      BY DEF Init
    <3>2. write \in [Callers -> {"idle", "queued", "sent", "lost"}]
      BY DEF Init
    <3>3. target \in [Callers -> Commands]
      BY DEF Init, Commands
    <3> QED
      BY <3>1, <3>2, <3>3 DEF Init, TaskTypes
  <2>3. PumpTypes
    BY DEF Init, PumpTypes, Reported
  <2> QED
    BY <2>1, <2>2, <2>3 DEF TypeOK
<1>2. LockDiscipline /\ WindowFacts /\ HandoverFacts
  BY DEF Init, LockDiscipline, WindowFacts, HandoverFacts, ReadOnWire
<1>3. AvailabilityDebounced /\ TrackerFollowsData /\ PollIsScheduled
  BY DEF Init, AvailabilityDebounced, TrackerFollowsData, PollIsScheduled
<1>4. HandoverStands /\ OnlyOvertakenReadsEscape
  BY DEF Init, HandoverStands, OnlyOvertakenReadsEscape, ReadOnWire
<1>5. LockUsers
  BY EmptySeq DEF Init, LockUsers, InFlight, Users, IsInjective, ToSet
<1>6. OriginInv
  BY DEF Init, OriginInv, OriginFacts, OptimisticStateIsTrue, ExternalMeansExternal
<1> QED
  BY <1>1, <1>2, <1>3, <1>4, <1>5, <1>6 DEF IInv

\* Every step of refreshes, commands, settings, pump and time keeps it.
LEMMA NextKeepsIInv == IInv /\ [Next]_vars => IInv'
<1> SUFFICES ASSUME IInv, [Next]_vars
             PROVE  IInv'
  OBVIOUS
<1>1. TypeOK'
  BY CoordinatorTypesStep, TaskTypesStep, PumpTypesStep DEF TypeOK
<1>2. LockDiscipline' /\ LockUsers'
  BY LockStep, LockUsersStep
<1>3. WindowFacts'
  BY WindowStep
<1>4. HandoverFacts' /\ HandoverStands'
  BY HandoverFactsStep, HandoverStep
<1>5. AvailabilityDebounced' /\ TrackerFollowsData' /\ PollIsScheduled'
  BY AvailabilityStep, TrackerStep, PollStep
<1>6. OnlyOvertakenReadsEscape'
  BY <1>3 DEF WindowFacts, OnlyOvertakenReadsEscape, ReadOnWire
<1>7. OriginInv'
  BY OriginStep
<1> QED
  BY <1>1, <1>2, <1>3, <1>4, <1>5, <1>6, <1>7 DEF IInv

-----------------------------------------------------------------------------
(***************************************************************************)
(* The invariant holds in every reachable state, for all constants.        *)
(***************************************************************************)
THEOREM InductiveInvariant == Spec => []IInv
  BY InitIInv, NextKeepsIInv, PTL DEF Spec

(***************************************************************************)
(* The client's lock is never leaked: with no refresh and no command in    *)
(* flight it is free, and nobody waits for it; and no removal from the     *)
(* queue, by a cancelled call or a failed one, takes somebody else out.    *)
(***************************************************************************)
THEOREM LockNeverLeaked == Spec => []LockUsers
<1>1. IInv => LockUsers
  BY DEF IInv
<1> QED
  BY <1>1, InductiveInvariant, PTL

(***************************************************************************)
(* Nobody waits for a lock that nobody holds: while anything is in flight, *)
(* the lock's holder is, and it is about to use the wire or is on it.      *)
(***************************************************************************)
NobodyWaitsInVain ==
    InFlight # {} =>
        \E u \in InFlight :
            /\ HoldsLock(u)
            /\ u = Refresh => refresh \in {"queued", "extQueued"} \/ ReadOnWire
            /\ u # Refresh => u \in Callers /\ write[u] \in {"queued", "sent", "lost"}

THEOREM HolderGoesOn == Spec => []NobodyWaitsInVain
<1>1. ASSUME IInv, InFlight # {}
      PROVE  \E u \in InFlight :
               /\ HoldsLock(u)
               /\ u = Refresh => refresh \in {"queued", "extQueued"} \/ ReadOnWire
               /\ u # Refresh => u \in Callers /\ write[u] \in {"queued", "sent", "lost"}
  <2>1. lockQ \in Seq(Users) /\ lockQ # <<>>
    BY <1>1, EmptySeq DEF IInv, TypeOK, TaskTypes, LockUsers, ToSet
  <2>2. Head(lockQ) \in InFlight
    <3>1. 1 \in DOMAIN lockQ /\ Head(lockQ) = lockQ[1]
      BY <2>1, LenProperties, EmptySeq
    <3> QED
      BY <1>1, <3>1 DEF IInv, LockUsers, ToSet
  <2>3. Head(lockQ) = Refresh => refresh \in {"queued", "extQueued"} \/ ReadOnWire
    BY <1>1, <2>2 DEF InFlight, ReadOnWire, IInv, TypeOK, TaskTypes
  <2>4. Head(lockQ) # Refresh =>
          Head(lockQ) \in Callers /\ write[Head(lockQ)] \in {"queued", "sent", "lost"}
    BY <1>1, <2>2 DEF InFlight, Users, IInv, TypeOK, TaskTypes
  <2> QED
    BY <2>1, <2>2, <2>3, <2>4 DEF HoldsLock
<1>2. IInv => NobodyWaitsInVain
  BY <1>1 DEF NobodyWaitsInVain
<1> QED
  BY <1>2, InductiveInvariant, PTL

(***************************************************************************)
(* Availability is debounced: a known pump is offline exactly after        *)
(* FailureThreshold failed reads in a row (_async_update_data), with any   *)
(* commands, settings and early refreshes in between.                      *)
(***************************************************************************)
THEOREM Debounced == Spec => []AvailabilityDebounced
<1>1. IInv => AvailabilityDebounced
  BY DEF IInv
<1> QED
  BY <1>1, InductiveInvariant, PTL

(***************************************************************************)
(* The runtime counter of an available pump runs exactly when the          *)
(* published state is ON.                                                  *)
(***************************************************************************)
THEOREM TrackerFollows == Spec => []TrackerFollowsData
<1>1. IInv => TrackerFollowsData
  BY DEF IInv
<1> QED
  BY <1>1, InductiveInvariant, PTL

(***************************************************************************)
(* The only reads on the bus inside a quiet window belong to a refresh     *)
(* that was waiting when the command completed: the early return of        *)
(* _async_update_data stops every other one.                               *)
(***************************************************************************)
THEOREM OnlyOvertakenEscape == Spec => []OnlyOvertakenReadsEscape
<1>1. IInv => OnlyOvertakenReadsEscape
  BY DEF IInv
<1> QED
  BY <1>1, InductiveInvariant, PTL

(***************************************************************************)
(* An undisturbed window of at least the pump's override hands control to  *)
(* the panel when it ends.                                                 *)
(***************************************************************************)
THEOREM Handover == Spec => []HandoverStands
<1>1. IInv => HandoverStands
  BY DEF IInv
<1> QED
  BY <1>1, InductiveInvariant, PTL

(***************************************************************************)
(* No setting, command or failure leaves an available pump without a poll  *)
(* within one interval or the rest of the window.                          *)
(***************************************************************************)
THEOREM PollScheduled == Spec => []PollIsScheduled
<1>1. IInv => PollIsScheduled
  BY DEF IInv
<1> QED
  BY <1>1, InductiveInvariant, PTL

(***************************************************************************)
(* What async_set_speed publishes before any poll is what the pump does,   *)
(* until it is confirmed or something else moves the pump; a Modbus status *)
(* older than the command is the one way to publish over it.               *)
(***************************************************************************)
THEOREM OptimismIsTrue == Spec => []OptimisticStateIsTrue
<1>1. IInv => OptimisticStateIsTrue
  BY DEF IInv, OriginInv
<1> QED
  BY <1>1, InductiveInvariant, PTL

(***************************************************************************)
(* _track_change_source blames nobody else for what Home Assistant did, on *)
(* the iSaver profile, whose status is one exchange.                       *)
(***************************************************************************)
THEOREM ExternalIsExternal ==
  ASSUME ~Modbus
  PROVE  Spec => []ExternalMeansExternal
<1>1. IInv => ExternalMeansExternal
  BY DEF IInv, OriginInv
<1> QED
  BY <1>1, InductiveInvariant, PTL
=============================================================================
