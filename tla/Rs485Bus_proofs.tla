-------------------------- MODULE Rs485Bus_proofs --------------------------
(***************************************************************************)
(* Proofs about the FIFO bus manager, for any set of tasks: the inductive  *)
(* invariant, mutual exclusion, the absence of lost wakeups, and that it   *)
(* implements FifoLock.                                                    *)
(***************************************************************************)
EXTENDS Rs485Bus, SequenceTheorems, FiniteSetTheorems, WellFoundedInduction, TLAPS

(***************************************************************************)
(* Every nonempty set of natural numbers has a least element: strict       *)
(* inclusion is well founded on the finite intervals 0..n.                 *)
(***************************************************************************)
LEMMA LeastElement ==
  ASSUME NEW S \in SUBSET Nat, S # {}
  PROVE  \E n \in S : \A m \in S : n <= m
<1> DEFINE T == {0..n : n \in S}
           R == StrictSubsetOrdering(Nat)
<1>1. IsWellFoundedOn(R, FiniteSubsetsOf(Nat))
  BY FS_StrictSubsetOrderingWellFounded
<1>2. T \subseteq FiniteSubsetsOf(Nat)
  <2>1. ASSUME NEW n \in S
        PROVE  0..n \in SUBSET Nat /\ IsFiniteSet(0..n)
    <3>1. 0 \in Int /\ n \in Int
      OBVIOUS
    <3> QED
      BY <3>1, FS_Interval
  <2> QED
    BY <2>1 DEF FiniteSubsetsOf
<1>3. T # {}
  OBVIOUS
<1>4. PICK x \in T : \A y \in T : <<y, x>> \notin R
  <2> HIDE DEF T, R
  <2> QED
    BY <1>1, <1>2, <1>3, WFMin
<1>5. PICK n \in S : x = 0..n
  OBVIOUS
<1>6. ASSUME NEW m \in S, m < n
      PROVE  FALSE
  <2>1. 0..m \in T /\ 0..m \subseteq 0..n /\ n \in 0..n /\ n \notin 0..m
    BY <1>6
  <2>2. <<0..m, x>> \in R
    BY <1>5, <2>1 DEF StrictSubsetOrdering
  <2> QED
    BY <1>4, <2>1, <2>2
<1> QED
  BY <1>6

(***************************************************************************)
(* deque.remove: the first occurrence goes, the rest keeps its order.      *)
(***************************************************************************)
LEMMA RemoveFirstShape ==
  ASSUME NEW S, NEW q \in Seq(S), NEW e, \E i \in 1..Len(q) : q[i] = e
  PROVE  LET r == RemoveFirst(q, e) IN
         \E k \in 1..Len(q) :
           /\ q[k] = e
           /\ r \in Seq(S)
           /\ Len(r) = Len(q) - 1
           /\ \A i \in 1..Len(q) - 1 : r[i] = IF i < k THEN q[i] ELSE q[i + 1]
<1> DEFINE I == {i \in 1..Len(q) : q[i] = e}
           k == Min(I)
           a == SubSeq(q, 1, k - 1)
           b == SubSeq(q, k + 1, Len(q))
<1>1. Len(q) \in Nat /\ \A i \in 1..Len(q) : q[i] \in S
  BY LenProperties, ElementOfSeq
<1>2. k \in I
  <2>1. I \in SUBSET Nat /\ I # {}
    BY <1>1
  <2> HIDE DEF I
  <2>2. \E n \in I : \A m \in I : n <= m
    BY <2>1, LeastElement
  <2> QED
    BY <2>2 DEF Min
<1>3. k \in 1..Len(q) /\ q[k] = e
  BY <1>2
<1>4. SelectInSeq(q, LAMBDA v : v = e) = k
  BY <1>2 DEF SelectInSeq
<1>5. RemoveFirst(q, e) = a \o b
  BY <1>4 DEF RemoveFirst, RemoveAt
<1> HIDE DEF k
<1>6. /\ a \in Seq(S) /\ Len(a) = k - 1
      /\ \A i \in 1..k - 1 : a[i] = q[i]
  <2>1. 1 \in Int /\ k - 1 \in Int /\ \A i \in 1..k - 1 : q[i] \in S
    BY <1>1, <1>3
  <2> QED
    BY <1>1, <1>3, <2>1, SubSeqProperties
<1>7. /\ b \in Seq(S) /\ Len(b) = Len(q) - k
      /\ \A i \in 1..Len(q) - k : b[i] = q[k + i]
  <2>1. k + 1 \in Int /\ Len(q) \in Int /\ \A i \in k + 1..Len(q) : q[i] \in S
    BY <1>1, <1>3
  <2>2. /\ b \in Seq(S)
        /\ Len(b) = IF k + 1 <= Len(q) THEN Len(q) - (k + 1) + 1 ELSE 0
        /\ \A i \in 1..Len(q) - (k + 1) + 1 : b[i] = q[(k + 1) + i - 1]
    BY <2>1, SubSeqProperties
  <2> QED
    BY <1>1, <1>3, <2>2
<1> HIDE DEF a, b
<1>8. /\ a \o b \in Seq(S)
      /\ Len(a \o b) = Len(a) + Len(b)
      /\ \A i \in 1..Len(a) + Len(b) :
           (a \o b)[i] = IF i <= Len(a) THEN a[i] ELSE b[i - Len(a)]
  <2>1. a \in Seq(S) /\ b \in Seq(S)
    BY <1>6, <1>7
  <2> QED
    BY <2>1, ConcatProperties
<1>9. ASSUME NEW i \in 1..Len(q) - 1
      PROVE  (a \o b)[i] = IF i < k THEN q[i] ELSE q[i + 1]
  <2>1. CASE i < k
    BY <1>1, <1>3, <1>6, <1>7, <1>8, <2>1
  <2>2. CASE i >= k
    <3>1. /\ i - Len(a) \in 1..Len(q) - k /\ k + (i - Len(a)) = i + 1
          /\ ~(i < k) /\ ~(i <= Len(a)) /\ i \in 1..Len(a) + Len(b)
      BY <1>1, <1>3, <1>6, <1>7, <2>2
    <3>2. b[i - Len(a)] = q[i + 1]
      BY <1>7, <3>1
    <3> QED
      BY <1>8, <3>1, <3>2
  <2>3. i < k \/ i >= k
    BY <1>1, <1>3
  <2> QED
    BY <2>1, <2>2, <2>3
<1> DEFINE r == RemoveFirst(q, e)
<1>10. r \in Seq(S) /\ Len(r) = Len(q) - 1
  BY <1>1, <1>3, <1>5, <1>6, <1>7, <1>8
<1>11. \A i \in 1..Len(q) - 1 : r[i] = IF i < k THEN q[i] ELSE q[i + 1]
  BY <1>5, <1>9
<1> HIDE DEF r
<1>12. \E m \in 1..Len(q) :
         /\ q[m] = e
         /\ r \in Seq(S)
         /\ Len(r) = Len(q) - 1
         /\ \A i \in 1..Len(q) - 1 : r[i] = IF i < m THEN q[i] ELSE q[i + 1]
  BY <1>3, <1>10, <1>11
<1> QED
  BY <1>12 DEF r

(***************************************************************************)
(* The loop of _wake_next stops at the first future that is not cancelled, *)
(* or past the end of the deque.                                           *)
(***************************************************************************)
LEMMA FirstLiveIsFirst ==
  ASSUME NEW q, Len(q) \in Nat
  PROVE  /\ FirstLive(q) \in 1..Len(q) + 1
         /\ \A j \in 1..FirstLive(q) - 1 : fut[q[j]] = "cancelled"
         /\ FirstLive(q) <= Len(q) => fut[q[FirstLive(q)]] # "cancelled"
<1> DEFINE Stops(i) == i <= Len(q) => fut[q[i]] # "cancelled"
           S == {i \in Nat : i >= 1 /\ i <= Len(q) + 1 /\ Stops(i)}
<1>1. Len(q) + 1 \in S
  OBVIOUS
<1>2. S \in SUBSET Nat /\ S # {}
  BY <1>1
<1> HIDE DEF S
<1>3. PICK n \in S : \A m \in S : n <= m
  BY <1>2, LeastElement
<1>4. n \in 1..Len(q) + 1 /\ Stops(n)
  BY <1>3 DEF S
<1>5. ASSUME NEW j \in 1..n - 1
      PROVE  fut[q[j]] = "cancelled"
  <2>1. j \notin S
    BY <1>3, <1>4
  <2>2. j \in Nat /\ j >= 1 /\ j <= Len(q)
    BY <1>4
  <2> QED
    BY <2>1, <2>2 DEF S
<1>6. \E i \in 1..Len(q) + 1 :
         /\ \A j \in 1..i - 1 : fut[q[j]] = "cancelled"
         /\ i <= Len(q) => fut[q[i]] # "cancelled"
  BY <1>4, <1>5
<1> QED
  BY <1>6 DEF FirstLive

-----------------------------------------------------------------------------
(***************************************************************************)
(* The deque after _wake_next is the rest of q from its first live future. *)
(***************************************************************************)
LEMMA DropCancelledShape ==
  ASSUME NEW q \in Seq(Tasks)
  PROVE  \E n \in 1..Len(q) + 1 :
           /\ \A j \in 1..n - 1 : fut[q[j]] = "cancelled"
           /\ n <= Len(q) => fut[q[n]] # "cancelled"
           /\ DropCancelled(q) \in Seq(Tasks)
           /\ Len(DropCancelled(q)) = Len(q) - n + 1
           /\ \A i \in 1..Len(q) - n + 1 : DropCancelled(q)[i] = q[n + i - 1]
<1> DEFINE n == FirstLive(q)
<1>1. Len(q) \in Nat /\ \A i \in 1..Len(q) : q[i] \in Tasks
  BY LenProperties, ElementOfSeq
<1>2. /\ n \in 1..Len(q) + 1
      /\ \A j \in 1..n - 1 : fut[q[j]] = "cancelled"
      /\ n <= Len(q) => fut[q[n]] # "cancelled"
  BY <1>1, FirstLiveIsFirst
<1> HIDE DEF n
<1>3. \A i \in n..Len(q) : q[i] \in Tasks
  BY <1>1, <1>2
<1>4. n \in Int /\ Len(q) \in Int
  BY <1>1, <1>2
<1>5. /\ SubSeq(q, n, Len(q)) \in Seq(Tasks)
      /\ Len(SubSeq(q, n, Len(q))) = IF n <= Len(q) THEN Len(q) - n + 1 ELSE 0
      /\ \A i \in 1..Len(q) - n + 1 : SubSeq(q, n, Len(q))[i] = q[n + i - 1]
  BY <1>3, <1>4, SubSeqProperties
<1>6. DropCancelled(q) = SubSeq(q, n, Len(q))
  BY DEF DropCancelled, n
<1> QED
  BY <1>1, <1>2, <1>5, <1>6

-----------------------------------------------------------------------------
(***************************************************************************)
(* The step both exits share: the head t leaves the deque, q is what       *)
(* remains, and _wake_next runs on it.                                     *)
(***************************************************************************)
LEMMA HandOver ==
  ASSUME IInv, NEW t \in Tasks, WasHead(t),
         NEW q \in Seq(Tasks), Len(q) = Len(waiters) - 1,
         \A i \in 1..Len(q) : q[i] = waiters[i + 1],
         WakeNext(q, t),
         pc' = [pc EXCEPT ![t] = "idle"],
         mustCancel' = [mustCancel EXCEPT ![t] = FALSE]
  PROVE  IInv'
<1>1. /\ Len(waiters) \in Nat /\ Len(waiters) >= 1
      /\ \A i \in 1..Len(waiters) : waiters[i] \in Tasks
      /\ waiters[1] = t
  BY LenProperties, ElementOfSeq, EmptySeq DEF IInv, TypeOK, WasHead
<1>2. PICK n \in 1..Len(q) + 1 :
         /\ \A j \in 1..n - 1 : fut[q[j]] = "cancelled"
         /\ n <= Len(q) => fut[q[n]] # "cancelled"
         /\ waiters' \in Seq(Tasks)
         /\ Len(waiters') = Len(q) - n + 1
         /\ \A i \in 1..Len(q) - n + 1 : waiters'[i] = q[n + i - 1]
  BY DropCancelledShape DEF WakeNext
<1>3. /\ n \in Nat /\ n >= 1
      /\ Len(waiters') = Len(waiters) - n
      /\ \A i \in 1..Len(waiters') : waiters'[i] = waiters[n + i] /\ n + i \in 1..Len(waiters)
  <2>1. n \in Nat /\ n >= 1 /\ Len(waiters') = Len(waiters) - n
    BY <1>1, <1>2
  <2>2. ASSUME NEW i \in 1..Len(waiters')
        PROVE  waiters'[i] = waiters[n + i] /\ n + i \in 1..Len(waiters)
    <3>1. i \in 1..Len(q) - n + 1 /\ n + i - 1 \in 1..Len(q) /\ (n + i - 1) + 1 = n + i
      BY <1>1, <1>2
    <3>2. waiters'[i] = q[n + i - 1] /\ q[n + i - 1] = waiters[(n + i - 1) + 1]
      BY <1>2, <3>1
    <3> QED
      BY <1>1, <3>1, <3>2
  <2> QED
    BY <2>1, <2>2
<1>4. ASSUME NEW u \in Tasks, u \in Queue, u # t, fut[u] # "cancelled"
      PROVE  u \in Queue'
  <2>1. PICK j \in 1..Len(waiters) : waiters[j] = u
    BY <1>4 DEF Queue
  <2>2. j # 1 /\ j \in Nat
    BY <1>1, <1>4, <2>1
  <2>3. j - 1 \in 1..Len(q) /\ q[j - 1] = u
    BY <1>1, <2>1, <2>2
  <2>4. j > n
    BY <1>2, <1>3, <1>4, <2>2, <2>3
  <2>5. j - n \in 1..Len(waiters') /\ waiters'[j - n] = u
    BY <1>3, <2>1, <2>2, <2>4
  <2> QED
    BY <2>5 DEF Queue
<1>5. Queue' \subseteq Queue /\ t \notin Queue'
  <2>1. ASSUME NEW i \in 1..Len(waiters')
        PROVE  waiters'[i] \in Queue /\ waiters'[i] # t
    <3>1. waiters'[i] = waiters[n + i] /\ n + i \in 1..Len(waiters) /\ n + i # 1
      BY <1>3
    <3>2. 1 \in 1..Len(waiters)
      BY <1>1
    <3> QED
      BY <1>1, <3>1, <3>2 DEF Queue, IInv, Distinct
  <2> QED
    BY <2>1 DEF Queue
<1>6. ASSUME NEW u \in Tasks, fut[u] = "done"
      PROVE  u = t
  BY <1>6 DEF IInv, OnlyHeadWoken, WasHead
<1>7. waiters' # <<>> =>
         /\ Head(waiters') \in Tasks /\ Head(waiters') \in Queue' /\ Head(waiters') # t
         /\ pc[Head(waiters')] = "waiting" /\ fut[Head(waiters')] = "pending"
  <2> SUFFICES ASSUME waiters' # <<>>
               PROVE  /\ Head(waiters') \in Tasks /\ Head(waiters') \in Queue'
                      /\ Head(waiters') # t
                      /\ pc[Head(waiters')] = "waiting"
                      /\ fut[Head(waiters')] = "pending"
    OBVIOUS
  <2> DEFINE h == waiters'[1]
  <2>1. Head(waiters') = h
    BY <1>2
  <2>2. 1 \in 1..Len(waiters') /\ n <= Len(q) /\ 1 \in 1..Len(q) - n + 1
    <3>1. Len(waiters') \in Nat \ {0}
      BY <1>2, EmptySeq
    <3> QED
      BY <1>1, <1>2, <3>1
  <2>3. h = q[n] /\ fut[h] # "cancelled"
    BY <1>2, <2>2
  <2>4. h \in Queue' /\ h \in Queue /\ h # t
    BY <1>5, <2>2 DEF Queue
  <2>5. h \in Tasks
    BY <1>2, <2>2, ElementOfSeq
  <2>6. fut[h] # "done" /\ fut[h] # "none"
    BY <1>6, <2>4, <2>5 DEF IInv, QueueMatchesTasks, OnlyHeadWoken, TypeOK
  <2>7. fut[h] = "pending"
    BY <2>3, <2>5, <2>6 DEF IInv, TypeOK
  <2>8. pc[h] = "waiting"
    BY <2>4, <2>5, <2>7 DEF IInv, TypeOK, QueueMatchesTasks, OnlyHeadWoken
  <2> QED
    BY <2>1, <2>4, <2>5, <2>7, <2>8
<1>8. fut' = [u \in Tasks |->
                IF u = t THEN "none"
                ELSE IF waiters' # <<>> /\ u = Head(waiters') THEN "done"
                ELSE fut[u]]
  BY DEF WakeNext
<1>9. TypeOK'
  BY <1>2, <1>8 DEF IInv, TypeOK
<1>10. Distinct'
  <2> SUFFICES ASSUME NEW i \in 1..Len(waiters'), NEW j \in 1..Len(waiters'),
                      waiters'[i] = waiters'[j]
               PROVE  i = j
    BY DEF Distinct
  <2>1. waiters[n + i] = waiters[n + j]
    BY <1>3
  <2>2. n + i = n + j
    BY <1>3, <2>1 DEF IInv, Distinct
  <2> QED
    BY <1>3, <2>2
<1>11. QueueMatchesTasks'
  <2> SUFFICES ASSUME NEW u \in Tasks
               PROVE  /\ u \in Queue' => pc'[u] # "idle"
                      /\ pc'[u] = "idle" => fut'[u] = "none"
                      /\ pc'[u] = "waiting" => fut'[u] # "none"
                      /\ pc'[u] = "waiting" /\ fut'[u] # "cancelled" => u \in Queue'
                      /\ mustCancel'[u] => pc'[u] = "waiting" /\ fut'[u] = "done"
    BY DEF QueueMatchesTasks
  <2>1. CASE u = t
    BY <1>5, <1>8, <2>1 DEF IInv, TypeOK
  <2>2. CASE u # t
    <3>1. pc'[u] = pc[u] /\ mustCancel'[u] = mustCancel[u]
      BY <2>2 DEF IInv, TypeOK
    <3>2. ~mustCancel[u]
      BY <1>6, <2>2 DEF IInv, QueueMatchesTasks
    <3>3. CASE waiters' # <<>> /\ u = Head(waiters')
      BY <1>7, <1>8, <2>2, <3>1, <3>2, <3>3
    <3>4. CASE ~(waiters' # <<>> /\ u = Head(waiters'))
      <4>1. fut'[u] = fut[u]
        BY <1>8, <2>2, <3>4
      <4> QED
        BY <1>4, <1>5, <2>2, <3>1, <3>2, <4>1 DEF IInv, QueueMatchesTasks
    <3> QED
      BY <3>3, <3>4
  <2> QED
    BY <2>1, <2>2
<1>12. OnlyHeadWoken'
  <2> SUFFICES ASSUME NEW u \in Tasks
               PROVE  /\ pc'[u] = "holding" => fut'[u] = "done"
                      /\ fut'[u] = "done" => waiters' # <<>> /\ Head(waiters') = u
    BY DEF OnlyHeadWoken, WasHead
  <2>1. CASE u = t
    BY <1>8, <2>1 DEF IInv, TypeOK
  <2>2. CASE u # t
    <3>1. pc'[u] = pc[u] /\ fut[u] # "done" /\ pc[u] # "holding"
      BY <1>6, <2>2 DEF IInv, TypeOK, OnlyHeadWoken
    <3> QED
      BY <1>8, <2>2, <3>1
  <2> QED
    BY <2>1, <2>2
<1>13. NoLostWakeup'
  BY <1>7, <1>8 DEF NoLostWakeup
<1> QED
  BY <1>9, <1>10, <1>11, <1>12, <1>13 DEF IInv

-----------------------------------------------------------------------------
(***************************************************************************)
(* Inductiveness, one lemma per action that changes the deque.             *)
(***************************************************************************)
LEMMA InitIInv == Init => IInv
  BY EmptySeq DEF Init, IInv, TypeOK, Distinct, QueueMatchesTasks, OnlyHeadWoken,
                  NoLostWakeup, Queue

\* Acquiring a free bus keeps the invariant.
LEMMA AcquireFreeKeeps ==
  ASSUME IInv, NEW t \in Tasks, AcquireFree(t)
  PROVE  IInv'
<1>1. waiters' = <<t>> /\ Len(waiters') = 1 /\ waiters'[1] = t /\ Head(waiters') = t
  BY DEF AcquireFree
<1>2. Queue = {} /\ Queue' = {t}
  BY <1>1 DEF AcquireFree, Queue
<1>3. TypeOK' /\ Distinct' /\ NoLostWakeup'
  BY <1>1 DEF IInv, TypeOK, Distinct, NoLostWakeup, AcquireFree
<1>4. QueueMatchesTasks'
  BY <1>2 DEF IInv, TypeOK, QueueMatchesTasks, AcquireFree
<1>5. OnlyHeadWoken'
  BY <1>1 DEF IInv, TypeOK, OnlyHeadWoken, WasHead, AcquireFree
<1> QED
  BY <1>3, <1>4, <1>5 DEF IInv

\* Queueing behind others keeps it.
LEMMA AcquireQueuedKeeps ==
  ASSUME IInv, NEW t \in Tasks, AcquireQueued(t)
  PROVE  IInv'
<1>1. /\ waiters' \in Seq(Tasks) /\ waiters' # <<>>
      /\ Len(waiters) \in Nat /\ Len(waiters') = Len(waiters) + 1
      /\ \A i \in 1..Len(waiters) : waiters'[i] = waiters[i]
      /\ waiters'[Len(waiters) + 1] = t
  BY AppendProperties, LenProperties DEF IInv, TypeOK, AcquireQueued
<1>2. Head(waiters') = Head(waiters)
  BY HeadTailAppend DEF IInv, TypeOK, AcquireQueued
<1>3. Queue' = Queue \cup {t} /\ t \notin Queue
  <2>1. Queue' \subseteq Queue \cup {t}
    BY <1>1 DEF Queue
  <2>2. Queue \subseteq Queue'
    BY <1>1 DEF Queue
  <2>3. t \in Queue'
    <3>1. Len(waiters) + 1 \in 1..Len(waiters')
      BY <1>1
    <3> QED
      BY <1>1, <3>1 DEF Queue
  <2>4. t \notin Queue
    BY DEF IInv, QueueMatchesTasks, AcquireQueued
  <2> QED
    BY <2>1, <2>2, <2>3, <2>4
<1>4. TypeOK'
  BY <1>1 DEF IInv, TypeOK, AcquireQueued
<1>5. Distinct'
  <2>1. \A i \in 1..Len(waiters) : waiters[i] # t
    BY <1>3 DEF Queue
  <2> QED
    BY <1>1, <2>1 DEF IInv, Distinct
<1>6. QueueMatchesTasks'
  BY <1>3 DEF IInv, TypeOK, QueueMatchesTasks, AcquireQueued
<1>7. OnlyHeadWoken' /\ NoLostWakeup'
  <2>1. Head(waiters) \in Tasks /\ waiters # <<>>
    BY HeadTailProperties DEF IInv, TypeOK, AcquireQueued
  <2>2. Head(waiters) # t
    BY <2>1 DEF IInv, NoLostWakeup, QueueMatchesTasks, AcquireQueued
  <2> QED
    BY <1>1, <1>2, <2>1, <2>2
       DEF IInv, TypeOK, OnlyHeadWoken, NoLostWakeup, WasHead, AcquireQueued
<1> QED
  BY <1>4, <1>5, <1>6, <1>7 DEF IInv

\* Leaving the deque from a position behind the head disturbs nobody else.
LEMMA AbandonBehindKeeps ==
  ASSUME IInv, NEW t \in Tasks, Abandon(t), ~WasHead(t)
  PROVE  IInv'
<1>1. /\ fut' = [fut EXCEPT ![t] = "none"] /\ pc' = [pc EXCEPT ![t] = "idle"]
      /\ mustCancel' = [mustCancel EXCEPT ![t] = FALSE]
      /\ waiters' = RemoveFirst(waiters, t)
      /\ waiters \in Seq(Tasks) /\ Len(waiters) \in Nat
  BY LenProperties DEF Abandon, IInv, TypeOK
<1>2. CASE t \notin Queue
  <2>1. waiters' = waiters
    BY <1>1, <1>2 DEF RemoveFirst, Queue
  <2>2. Queue' = Queue
    BY <2>1 DEF Queue
  <2>3. fut[t] # "done"
    BY DEF IInv, OnlyHeadWoken
  <2>4. waiters # <<>> => Head(waiters) # t
    BY DEF WasHead
  <2> QED
    BY <1>1, <1>2, <2>1, <2>2, <2>3, <2>4
       DEF IInv, TypeOK, Distinct, QueueMatchesTasks, OnlyHeadWoken, NoLostWakeup, WasHead
<1>3. CASE t \in Queue
  <2>1. PICK k \in 1..Len(waiters) : waiters[k] = t
    BY <1>3 DEF Queue
  <2>2. /\ waiters' \in Seq(Tasks)
        /\ Len(waiters') = Len(waiters) - 1
        /\ \A i \in 1..Len(waiters) - 1 :
             waiters'[i] = IF i < k THEN waiters[i] ELSE waiters[i + 1]
    <3>1. PICK m \in 1..Len(waiters) :
            /\ waiters[m] = t
            /\ waiters' \in Seq(Tasks)
            /\ Len(waiters') = Len(waiters) - 1
            /\ \A i \in 1..Len(waiters) - 1 :
                 waiters'[i] = IF i < m THEN waiters[i] ELSE waiters[i + 1]
      <4>1. \E i \in 1..Len(waiters) : waiters[i] = t
        BY <2>1
      <4> QED
        BY <1>1, <4>1, RemoveFirstShape
    <3>2. m = k
      BY <2>1, <3>1 DEF IInv, Distinct
    <3> QED
      BY <3>1, <3>2
  <2>3. k # 1 /\ k \in Nat /\ waiters # <<>> /\ Head(waiters) = waiters[1]
    <3>1. waiters # <<>>
      BY <1>1, <2>1
    <3> QED
      BY <1>1, <2>1, <3>1 DEF WasHead
  <2>4. waiters' # <<>> /\ Head(waiters') = Head(waiters)
    <3>1. Len(waiters') >= 1 /\ 1 \in 1..Len(waiters) - 1 /\ 1 < k
      BY <1>1, <2>1, <2>2, <2>3
    <3>2. waiters'[1] = waiters[1] /\ waiters' # <<>>
      BY <2>2, <3>1
    <3> QED
      BY <2>2, <2>3, <3>2
  <2>5. Queue' = Queue \ {t}
    <3>1. ASSUME NEW i \in 1..Len(waiters')
          PROVE  waiters'[i] \in Queue \ {t}
      <4> DEFINE m == IF i < k THEN i ELSE i + 1
      <4>1. waiters'[i] = waiters[m] /\ m \in 1..Len(waiters) /\ m # k
        BY <1>1, <2>2, <2>3
      <4> QED
        BY <2>1, <4>1 DEF IInv, Distinct, Queue
    <3>2. ASSUME NEW j \in 1..Len(waiters), waiters[j] # t
          PROVE  waiters[j] \in Queue'
      <4> DEFINE m == IF j < k THEN j ELSE j - 1
      <4>1. m \in 1..Len(waiters') /\ waiters'[m] = waiters[j]
        <5>1. j # k /\ j \in Nat
          BY <1>1, <2>1, <3>2
        <5>2. CASE j < k
          BY <1>1, <2>1, <2>2, <2>3, <5>1, <5>2
        <5>3. CASE j > k
          <6>1. j - 1 \in 1..Len(waiters) - 1 /\ ~(j - 1 < k) /\ (j - 1) + 1 = j
            BY <1>1, <2>3, <5>1, <5>3
          <6>2. waiters'[j - 1] = waiters[j]
            BY <2>2, <6>1
          <6> QED
            BY <2>2, <2>3, <5>1, <5>3, <6>1, <6>2
        <5> QED
          BY <2>3, <5>1, <5>2, <5>3
      <4> HIDE DEF m
      <4> QED
        BY <4>1 DEF Queue
    <3> QED
      BY <3>1, <3>2 DEF Queue
  <2>6. Distinct'
    <3> SUFFICES ASSUME NEW i \in 1..Len(waiters'), NEW j \in 1..Len(waiters'),
                        waiters'[i] = waiters'[j]
                 PROVE  i = j
      BY DEF Distinct
    <3> DEFINE m(x) == IF x < k THEN x ELSE x + 1
    <3>1. waiters'[i] = waiters[m(i)] /\ m(i) \in 1..Len(waiters)
      BY <1>1, <2>2, <2>3
    <3>2. waiters'[j] = waiters[m(j)] /\ m(j) \in 1..Len(waiters)
      BY <1>1, <2>2, <2>3
    <3>3. m(i) = m(j)
      <4> HIDE DEF m
      <4> QED
        BY <3>1, <3>2 DEF IInv, Distinct
    <3> QED
      BY <1>1, <2>2, <2>3, <3>3
  <2>7. TypeOK'
    BY <1>1, <2>2 DEF IInv, TypeOK
  <2>8. QueueMatchesTasks'
    BY <1>1, <2>5 DEF IInv, TypeOK, QueueMatchesTasks
  <2>9. OnlyHeadWoken' /\ NoLostWakeup'
    <3>1. Head(waiters) # t /\ Head(waiters) \in Tasks
      BY <1>1, <2>3, HeadTailProperties DEF WasHead
    <3> QED
      BY <1>1, <2>3, <2>4, <3>1
         DEF IInv, TypeOK, OnlyHeadWoken, NoLostWakeup, WasHead
  <2> QED
    BY <2>6, <2>7, <2>8, <2>9 DEF IInv
<1> QED
  BY <1>2, <1>3

\* Leaving from the head, whether a transaction ended or never began.
LEMMA LeaveHeadKeeps ==
  ASSUME IInv, NEW t \in Tasks, Release(t) \/ (Abandon(t) /\ WasHead(t))
  PROVE  IInv'
<1>1. WasHead(t) /\ waiters \in Seq(Tasks) /\ waiters # <<>>
  BY DEF IInv, TypeOK, OnlyHeadWoken, WasHead, Release
<1>2. Len(waiters) \in Nat /\ Len(waiters) >= 1 /\ waiters[1] = t
  BY <1>1, LenProperties, EmptySeq DEF WasHead
<1>3. /\ pc' = [pc EXCEPT ![t] = "idle"]
      /\ mustCancel' = [mustCancel EXCEPT ![t] = FALSE]
  BY DEF Release, Abandon, IInv, TypeOK, QueueMatchesTasks
<1>4. CASE Release(t)
  BY <1>1, <1>2, <1>3, <1>4, HeadTailProperties, HandOver DEF Release
<1>5. CASE Abandon(t) /\ WasHead(t)
  <2> DEFINE q == RemoveFirst(waiters, t)
  <2>1. WakeNext(q, t)
    BY <1>5 DEF Abandon
  <2>2. 1 \in 1..Len(waiters) /\ \A i, j \in 1..Len(waiters) : waiters[i] = waiters[j] => i = j
    BY <1>2 DEF IInv, Distinct
  <2>3. /\ q \in Seq(Tasks)
        /\ Len(q) = Len(waiters) - 1
        /\ \A i \in 1..Len(waiters) - 1 : q[i] = IF i < 1 THEN waiters[i] ELSE waiters[i + 1]
    <3>1. PICK m \in 1..Len(waiters) :
            /\ waiters[m] = t
            /\ q \in Seq(Tasks)
            /\ Len(q) = Len(waiters) - 1
            /\ \A i \in 1..Len(waiters) - 1 :
                 q[i] = IF i < m THEN waiters[i] ELSE waiters[i + 1]
      <4>1. \E i \in 1..Len(waiters) : waiters[i] = t
        BY <1>2, <2>2
      <4> QED
        BY <1>1, <4>1, RemoveFirstShape
    <3>2. m = 1
      BY <1>2, <2>2, <3>1
    <3> QED
      BY <3>1, <3>2
  <2>4. \A i \in 1..Len(q) : q[i] = waiters[i + 1]
    BY <1>2, <2>3
  <2> HIDE DEF q
  <2> QED
    BY <1>1, <1>3, <2>1, <2>3, <2>4, HandOver
<1> QED
  BY <1>4, <1>5

\* Resuming and cancelling leave the deque alone.
LEMMA InPlaceKeeps ==
  ASSUME IInv, NEW t \in Tasks, Resume(t) \/ Cancel(t)
  PROVE  IInv'
<1>1. waiters' = waiters /\ Queue' = Queue
  BY DEF Resume, Cancel, CancelPending, CancelWoken, Queue
<1>2. CASE Resume(t)
  BY <1>1, <1>2 DEF Resume, IInv, TypeOK, Distinct, QueueMatchesTasks, OnlyHeadWoken,
                    NoLostWakeup, WasHead
<1>3. CASE CancelPending(t)
  <2>1. waiters # <<>> => Head(waiters) # t /\ Head(waiters) \in Tasks
    BY <1>3, HeadTailProperties DEF CancelPending, IInv, TypeOK, NoLostWakeup
  <2> QED
    BY <1>1, <1>3, <2>1 DEF CancelPending, IInv, TypeOK, Distinct, QueueMatchesTasks,
                            OnlyHeadWoken, NoLostWakeup, WasHead
<1>4. CASE CancelWoken(t)
  BY <1>1, <1>4 DEF CancelWoken, IInv, TypeOK, Distinct, QueueMatchesTasks,
                    OnlyHeadWoken, NoLostWakeup, WasHead
<1> QED
  BY <1>2, <1>3, <1>4 DEF Cancel

\* Every step of every task keeps it.
LEMMA NextKeepsIInv == IInv /\ [Next]_vars => IInv'
<1> SUFFICES ASSUME IInv, [Next]_vars
             PROVE  IInv'
  OBVIOUS
<1>1. CASE Next
  <2>1. PICK t \in Tasks : Acquire(t) \/ Resume(t) \/ Cancel(t) \/ Abandon(t) \/ Release(t)
    BY <1>1 DEF Next
  <2>2. CASE Acquire(t)
    BY <2>2, AcquireFreeKeeps, AcquireQueuedKeeps DEF Acquire
  <2>3. CASE Resume(t)
    BY <2>3, InPlaceKeeps
  <2>6. CASE Cancel(t)
    BY <2>6, InPlaceKeeps
  <2>4. CASE Abandon(t)
    <3>1. CASE WasHead(t)
      BY <2>4, <3>1, LeaveHeadKeeps
    <3>2. CASE ~WasHead(t)
      BY <2>4, <3>2, AbandonBehindKeeps
    <3> QED
      BY <3>1, <3>2
  <2>5. CASE Release(t)
    <3>1. Release(t) \/ (Abandon(t) /\ WasHead(t))
      BY <2>5
    <3> QED
      BY <3>1, LeaveHeadKeeps
  <2> QED
    BY <2>1, <2>2, <2>3, <2>4, <2>5, <2>6
<1>2. CASE UNCHANGED vars
  BY <1>2 DEF vars, IInv, TypeOK, Distinct, QueueMatchesTasks, OnlyHeadWoken,
              NoLostWakeup, WasHead, Queue
<1> QED
  BY <1>1, <1>2

(***************************************************************************)
(* What the futures say about the deque holds in every reachable state of  *)
(* the bus manager, for any number of tasks.                               *)
(***************************************************************************)
THEOREM InductiveInvariant == Spec => []IInv
  BY InitIInv, NextKeepsIInv, PTL DEF Spec

(***************************************************************************)
(* Two transactions never overlap: "Hold exclusive bus ownership for one   *)
(* complete transaction" (transaction()).  Both would be the head.         *)
(***************************************************************************)
THEOREM Exclusive == Spec => []MutualExclusion
<1>1. IInv => MutualExclusion
  BY DEF IInv, OnlyHeadWoken, WasHead, MutualExclusion
<1> QED
  BY <1>1, InductiveInvariant, PTL

(***************************************************************************)
(* The head of the deque is always woken: "A cancelled waiter must never   *)
(* block the queue" (acquire()).                                           *)
(***************************************************************************)
THEOREM HeadIsAlwaysWoken == Spec => []NoLostWakeup
<1>1. IInv => NoLostWakeup
  BY DEF IInv
<1> QED
  BY <1>1, InductiveInvariant, PTL

-----------------------------------------------------------------------------
(***************************************************************************)
(* The refinement.  Every step of the manager is a step of the fair lock   *)
(* or leaves owner, queue and order as they are.                           *)
(***************************************************************************)
\* The owner of the abstract lock is the task that holds the bus, if any.
LEMMA OwnerIsHolder ==
  ASSUME IInv
  PROVE  /\ \A t \in Tasks : pc[t] = "holding" => Owner = t
         /\ (\A t \in Tasks : pc[t] # "holding") => Owner = Nobody
         /\ Owner \in Tasks => pc[Owner] = "holding"
<1>1. \A s, t \in Tasks : pc[s] = "holding" /\ pc[t] = "holding" => s = t
  BY DEF IInv, OnlyHeadWoken, WasHead
<1>2. ASSUME NEW t \in Tasks, pc[t] = "holding"
      PROVE  Owner = t
  <2> DEFINE h == CHOOSE u \in Tasks : pc[u] = "holding"
  <2>1. h \in Tasks /\ pc[h] = "holding"
    BY <1>2
  <2>2. Owner = h
    BY <1>2 DEF Owner
  <2> HIDE DEF h
  <2> QED
    BY <1>1, <1>2, <2>1, <2>2
<1>3. (\A t \in Tasks : pc[t] # "holding") => Owner = Nobody
  BY DEF Owner
<1>4. Owner \in Tasks => pc[Owner] = "holding"
  BY <1>2, <1>3, NobodyIsNoTask
<1> QED
  BY <1>2, <1>3, <1>4

\* The same after a step.
LEMMA OwnerIsHolderAfter ==
  ASSUME IInv'
  PROVE  /\ \A t \in Tasks : pc'[t] = "holding" => Owner' = t
         /\ (\A t \in Tasks : pc'[t] # "holding") => Owner' = Nobody
         /\ Owner' \in Tasks => pc'[Owner'] = "holding"
<1>1. \A s, t \in Tasks : pc'[s] = "holding" /\ pc'[t] = "holding" => s = t
  BY DEF IInv, OnlyHeadWoken, WasHead
<1>2. ASSUME NEW t \in Tasks, pc'[t] = "holding"
      PROVE  Owner' = t
  <2> DEFINE h == CHOOSE u \in Tasks : pc'[u] = "holding"
  <2>1. h \in Tasks /\ pc'[h] = "holding"
    BY <1>2
  <2>2. Owner' = h
    BY <1>2 DEF Owner
  <2> HIDE DEF h
  <2> QED
    BY <1>1, <1>2, <2>1, <2>2
<1>3. (\A t \in Tasks : pc'[t] # "holding") => Owner' = Nobody
  BY DEF Owner
<1>4. Owner' \in Tasks => pc'[Owner'] = "holding"
  BY <1>2, <1>3, NobodyIsNoTask
<1> QED
  BY <1>2, <1>3, <1>4

\* A step that moves nobody into or out of a transaction keeps the owner.
LEMMA OwnerKept ==
  ASSUME IInv, IInv', \A u \in Tasks : pc'[u] = "holding" <=> pc[u] = "holding"
  PROVE  Owner' = Owner
<1>1. CASE \E u \in Tasks : pc[u] = "holding"
  BY <1>1, OwnerIsHolder, OwnerIsHolderAfter
<1>2. CASE \A u \in Tasks : pc[u] # "holding"
  BY <1>2, OwnerIsHolder, OwnerIsHolderAfter
<1> QED
  BY <1>1, <1>2

\* What is live is queued; without a queue there is no owner.
LEMMA LiveIsQueued ==
  ASSUME IInv
  PROVE  /\ LiveTasks \subseteq Queue
         /\ waiters = <<>> => LiveTasks = {} /\ \A u \in Tasks : pc[u] # "holding"
<1>1. LiveTasks \subseteq Queue
  BY DEF IInv, QueueMatchesTasks, LiveTasks, Live
<1>2. waiters = <<>> => Queue = {}
  BY DEF Queue
<1>3. waiters = <<>> => \A u \in Tasks : pc[u] # "holding"
  BY DEF IInv, OnlyHeadWoken, WasHead
<1> QED
  BY <1>1, <1>2, <1>3

\* The order of the live tasks survives when the deque after the step is part
\* of the deque before it, in the same order, and lost no live task.
LEMMA OrderKept ==
  ASSUME IInv, IInv', LiveTasks' = LiveTasks,
         NEW f \in [1..Len(waiters') -> 1..Len(waiters)],
         \A i, j \in 1..Len(waiters') : i < j => f[i] < f[j],
         \A i \in 1..Len(waiters') : waiters'[i] = waiters[f[i]],
         \A i \in 1..Len(waiters) :
            waiters[i] \in LiveTasks => \E k \in 1..Len(waiters') : f[k] = i
  PROVE  Before' = Before
<1>1. Len(waiters) \in Nat /\ Len(waiters') \in Nat
  BY LenProperties DEF IInv, TypeOK
<1>2. ASSUME NEW p \in LiveTasks \X LiveTasks,
             NEW i \in 1..Len(waiters'), NEW j \in 1..Len(waiters'),
             i < j, waiters'[i] = p[1], waiters'[j] = p[2]
      PROVE  p \in Before
  <2>1. f[i] \in 1..Len(waiters) /\ f[j] \in 1..Len(waiters) /\ f[i] < f[j]
    BY <1>2
  <2>2. waiters[f[i]] = p[1] /\ waiters[f[j]] = p[2]
    BY <1>2
  <2> QED
    BY <2>1, <2>2 DEF Before
<1>3. ASSUME NEW p \in LiveTasks \X LiveTasks,
             NEW i \in 1..Len(waiters), NEW j \in 1..Len(waiters),
             i < j, waiters[i] = p[1], waiters[j] = p[2]
      PROVE  p \in Before'
  <2>1. PICK k \in 1..Len(waiters') : f[k] = i
    BY <1>3
  <2>2. PICK m \in 1..Len(waiters') : f[m] = j
    BY <1>3
  <2>3. k < m
    <3>1. k \in Int /\ m \in Int /\ i \in Int /\ j \in Int
      OBVIOUS
    <3>2. ~(m < k) /\ m # k
      BY <1>3, <2>1, <2>2, <3>1
    <3> QED
      BY <3>1, <3>2
  <2>4. waiters'[k] = p[1] /\ waiters'[m] = p[2]
    BY <1>3, <2>1, <2>2
  <2> QED
    BY <2>3, <2>4 DEF Before
<1>4. Before' \subseteq Before
  BY <1>2 DEF Before
<1>5. Before \subseteq Before'
  BY <1>3 DEF Before
<1> QED
  BY <1>4, <1>5

\* An empty deque: the caller has the bus at once.
LEMMA AcquireFreeAsks ==
  ASSUME IInv, IInv', NEW t \in Tasks, AcquireFree(t)
  PROVE  Lock!AskFree(t)
<1>1. Owner = Nobody /\ LiveTasks = {}
  BY OwnerIsHolder, LiveIsQueued DEF AcquireFree
<1>2. Owner' = t
  BY OwnerIsHolderAfter DEF AcquireFree, IInv, TypeOK
<1>3. LiveTasks' = {}
  BY <1>1 DEF AcquireFree, IInv, TypeOK, LiveTasks, Live
<1>4. Before = {} /\ Before' = {}
  BY <1>1, <1>3 DEF Before
<1> QED
  BY <1>1, <1>2, <1>3, <1>4 DEF Lock!AskFree

\* Behind others: the caller is queued behind every live task.
LEMMA AcquireQueuedAsks ==
  ASSUME IInv, IInv', NEW t \in Tasks, AcquireQueued(t)
  PROVE  Lock!Ask(t)
<1>1. /\ Len(waiters) \in Nat /\ Len(waiters') = Len(waiters) + 1
      /\ \A i \in 1..Len(waiters) : waiters'[i] = waiters[i]
      /\ waiters'[Len(waiters) + 1] = t
  BY AppendProperties, LenProperties DEF IInv, TypeOK, AcquireQueued
<1>2. Owner # t /\ t \notin LiveTasks
  BY OwnerIsHolder DEF AcquireQueued, LiveTasks, Live
<1>3. Owner' = Owner
  BY OwnerKept DEF AcquireQueued, IInv, TypeOK
<1>4. LiveTasks' = LiveTasks \cup {t}
  <2>1. ~mustCancel[t]
    BY DEF AcquireQueued, IInv, QueueMatchesTasks
  <2>2. \A u \in Tasks : Live(u)' <=> Live(u) \/ u = t
    BY <2>1 DEF AcquireQueued, IInv, TypeOK, Live
  <2> QED
    BY <2>2 DEF LiveTasks
<1>5. Before' = Before \cup {<<s, t>> : s \in LiveTasks}
  <2>1. ASSUME NEW p \in LiveTasks' \X LiveTasks',
               NEW i \in 1..Len(waiters'), NEW j \in 1..Len(waiters'),
               i < j, waiters'[i] = p[1], waiters'[j] = p[2]
        PROVE  p \in Before \cup {<<s, t>> : s \in LiveTasks}
    <3>1. i \in 1..Len(waiters) /\ waiters[i] = p[1] /\ i # Len(waiters) + 1
      BY <1>1, <2>1
    <3>2. p[1] # t
      <4>1. t \notin Queue
        BY DEF AcquireQueued, IInv, QueueMatchesTasks
      <4> QED
        BY <3>1, <4>1 DEF Queue
    <3>3. p[1] \in LiveTasks
      BY <1>4, <3>2
    <3>4. CASE p[2] = t
      <4>1. p = <<p[1], t>>
        BY <3>4
      <4> QED
        BY <3>3, <4>1
    <3>5. CASE p[2] # t
      <4>1. j \in 1..Len(waiters) /\ waiters[j] = p[2]
        BY <1>1, <2>1, <3>5
      <4>2. p \in LiveTasks \X LiveTasks
        BY <1>4, <3>3, <3>5
      <4> QED
        BY <2>1, <3>1, <4>1, <4>2 DEF Before
    <3> QED
      BY <3>4, <3>5
  <2>2. Before \subseteq Before'
    <3>1. 1..Len(waiters) \subseteq 1..Len(waiters')
      BY <1>1
    <3> QED
      BY <1>1, <1>4, <3>1 DEF Before
  <2>3. ASSUME NEW s \in LiveTasks
        PROVE  <<s, t>> \in Before'
    <3>1. PICK i \in 1..Len(waiters) : waiters[i] = s
      BY LiveIsQueued DEF Queue
    <3>2. /\ i \in 1..Len(waiters') /\ Len(waiters) + 1 \in 1..Len(waiters')
          /\ i < Len(waiters) + 1
      BY <1>1
    <3>3. <<s, t>> \in LiveTasks' \X LiveTasks'
      BY <1>4
    <3> QED
      BY <1>1, <3>1, <3>2, <3>3 DEF Before
  <2>4. Before' \subseteq Before \cup {<<s, t>> : s \in LiveTasks}
    BY <2>1 DEF Before
  <2> QED
    BY <2>2, <2>3, <2>4
<1> QED
  BY <1>2, <1>3, <1>4, <1>5 DEF Lock!Ask

\* A deque that stays keeps the order of the tasks that stay live.
LEMMA OrderWithout ==
  ASSUME waiters' = waiters, NEW t, LiveTasks' = LiveTasks \ {t}
  PROVE  Before' = Lock!Without(t)
BY DEF Before, Lock!Without

\* Resuming is the grant: nobody live is ahead of the head.
LEMMA ResumeGrants ==
  ASSUME IInv, IInv', NEW t \in Tasks, Resume(t)
  PROVE  Lock!Grant(t)
<1>1. WasHead(t) /\ Len(waiters) \in Nat /\ Len(waiters) >= 1 /\ waiters[1] = t
  <2>1. WasHead(t)
    BY DEF Resume, IInv, OnlyHeadWoken
  <2> QED
    BY <2>1, LenProperties, EmptySeq DEF WasHead, IInv, TypeOK
<1>2. \A u \in Tasks : pc[u] # "holding"
  BY <1>1 DEF Resume, IInv, OnlyHeadWoken, WasHead
<1>3. Owner = Nobody
  BY <1>2, OwnerIsHolder
<1>4. Owner' = t
  BY OwnerIsHolderAfter DEF Resume, IInv, TypeOK
<1>5. t \in LiveTasks
  BY DEF Resume, LiveTasks, Live
<1>6. ASSUME NEW s \in LiveTasks, <<s, t>> \in Before
      PROVE  FALSE
  <2>1. PICK i, j \in 1..Len(waiters) : i < j /\ waiters[i] = s /\ waiters[j] = t
    BY <1>6 DEF Before
  <2>2. j = 1
    BY <1>1, <2>1 DEF IInv, Distinct
  <2> QED
    BY <2>1, <2>2
<1>7. LiveTasks' = LiveTasks \ {t}
  BY DEF Resume, IInv, TypeOK, LiveTasks, Live
<1>8. Before' = Lock!Without(t)
  BY <1>7, OrderWithout DEF Resume
<1> QED
  BY <1>3, <1>4, <1>5, <1>6, <1>7, <1>8 DEF Lock!Grant

\* Cancelling a waiter is its withdrawal, before or after its wakeup.
LEMMA CancelWithdraws ==
  ASSUME IInv, IInv', NEW t \in Tasks, Cancel(t)
  PROVE  Lock!Withdraw(t)
<1>1. waiters' = waiters /\ pc' = pc
  BY DEF Cancel, CancelPending, CancelWoken
<1>2. t \in LiveTasks
  BY DEF Cancel, CancelPending, CancelWoken, IInv, QueueMatchesTasks, LiveTasks, Live
<1>3. LiveTasks' = LiveTasks \ {t}
  <2>1. \A u \in Tasks : Live(u)' <=> Live(u) /\ u # t
    BY DEF Cancel, CancelPending, CancelWoken, IInv, TypeOK, Live
  <2> QED
    BY <2>1 DEF LiveTasks
<1>4. Owner' = Owner
  BY <1>1 DEF Owner
<1>5. Before' = Lock!Without(t)
  BY <1>1, <1>3, OrderWithout
<1> QED
  BY <1>2, <1>3, <1>4, <1>5 DEF Lock!Withdraw

\* Leaving the deque with _wake_next: what went was cancelled or is t.
LEMMA LeaveHeadOrder ==
  ASSUME IInv, IInv', NEW t \in Tasks, WasHead(t), ~Live(t),
         NEW q \in Seq(Tasks), Len(q) = Len(waiters) - 1,
         \A i \in 1..Len(q) : q[i] = waiters[i + 1],
         WakeNext(q, t),
         pc' = [pc EXCEPT ![t] = "idle"],
         mustCancel' = [mustCancel EXCEPT ![t] = FALSE]
  PROVE  LiveTasks' = LiveTasks /\ Before' = Before
<1>1. Len(waiters) \in Nat /\ Len(waiters) >= 1 /\ waiters[1] = t
  BY LenProperties, EmptySeq DEF IInv, TypeOK, WasHead
<1>2. PICK n \in 1..Len(q) + 1 :
         /\ \A j \in 1..n - 1 : fut[q[j]] = "cancelled"
         /\ n <= Len(q) => fut[q[n]] # "cancelled"
         /\ waiters' \in Seq(Tasks)
         /\ Len(waiters') = Len(q) - n + 1
         /\ \A i \in 1..Len(q) - n + 1 : waiters'[i] = q[n + i - 1]
  BY DropCancelledShape DEF WakeNext
<1>3. n \in Nat /\ n >= 1 /\ n <= Len(waiters) /\ Len(waiters') = Len(waiters) - n
  BY <1>1, <1>2
<1>4. ASSUME NEW i \in 1..Len(waiters')
      PROVE  waiters'[i] = waiters[n + i] /\ n + i \in 1..Len(waiters)
  <2>1. i \in 1..Len(q) - n + 1 /\ n + i - 1 \in 1..Len(q) /\ (n + i - 1) + 1 = n + i
    BY <1>1, <1>3
  <2>2. waiters'[i] = q[n + i - 1] /\ q[n + i - 1] = waiters[(n + i - 1) + 1]
    BY <1>2, <2>1
  <2> QED
    BY <1>1, <1>3, <2>1, <2>2
<1>5. ASSUME NEW j \in 1..Len(waiters), waiters[j] \in LiveTasks
      PROVE  j > n
  <2>1. j # 1
    BY <1>1, <1>5 DEF LiveTasks
  <2>2. ASSUME j <= n
        PROVE  FALSE
    <3>1. j - 1 \in 1..n - 1 /\ j - 1 \in 1..Len(q) /\ (j - 1) + 1 = j
      BY <1>1, <1>3, <2>1, <2>2
    <3>2. fut[q[j - 1]] = "cancelled" /\ q[j - 1] = waiters[j]
      BY <1>2, <3>1
    <3> QED
      BY <1>5, <3>2 DEF LiveTasks, Live
  <2> QED
    BY <1>3, <2>2
<1>6. LiveTasks' = LiveTasks
  <2>1. fut' = [u \in Tasks |->
                  IF u = t THEN "none"
                  ELSE IF waiters' # <<>> /\ u = Head(waiters') THEN "done"
                  ELSE fut[u]]
    BY DEF WakeNext
  <2>2. waiters' # <<>> => fut[Head(waiters')] # "cancelled"
    <3>1. waiters' # <<>> => /\ Len(waiters') \in Nat \ {0} /\ Head(waiters') = waiters'[1]
      BY <1>2, EmptySeq
    <3>2. waiters' # <<>> => n <= Len(q) /\ 1 \in 1..Len(q) - n + 1
      BY <1>1, <1>2, <3>1
    <3> QED
      BY <1>2, <1>3, <3>1, <3>2
  <2>3. ASSUME NEW u \in Tasks
        PROVE  Live(u)' <=> Live(u)
    <3>1. CASE u = t
      BY <3>1 DEF Live, IInv, TypeOK
    <3>2. CASE u # t
      <4>1. pc'[u] = pc[u] /\ mustCancel'[u] = mustCancel[u]
        BY <3>2 DEF IInv, TypeOK
      <4>2. fut'[u] = "cancelled" <=> fut[u] = "cancelled"
        BY <2>1, <2>2, <3>2
      <4> QED
        BY <4>1, <4>2 DEF Live
    <3> QED
      BY <3>1, <3>2
  <2> QED
    BY <2>3 DEF LiveTasks
<1>7. Before' = Before
  <2> DEFINE f == [i \in 1..Len(waiters') |-> n + i]
  <2>1. f \in [1..Len(waiters') -> 1..Len(waiters)]
    BY <1>4
  <2>2. \A i, j \in 1..Len(waiters') : i < j => f[i] < f[j]
    BY <1>3
  <2>3. \A i \in 1..Len(waiters') : waiters'[i] = waiters[f[i]]
    BY <1>4
  <2>4. ASSUME NEW j \in 1..Len(waiters), waiters[j] \in LiveTasks
        PROVE  \E k \in 1..Len(waiters') : f[k] = j
    <3>1. j - n \in 1..Len(waiters') /\ n + (j - n) = j
      BY <1>1, <1>3, <1>5, <2>4
    <3>2. f[j - n] = j
      BY <3>1
    <3> QED
      BY <3>1, <3>2
  <2> HIDE DEF f
  <2> QED
    BY <1>6, <2>1, <2>2, <2>3, <2>4, OrderKept
<1> QED
  BY <1>6, <1>7

\* The end of a transaction frees the bus and changes no one's place.
LEMMA ReleaseIsDone ==
  ASSUME IInv, IInv', NEW t \in Tasks, Release(t)
  PROVE  Lock!Done
<1>1. WasHead(t) /\ ~Live(t) /\ waiters \in Seq(Tasks) /\ waiters # <<>>
  BY DEF Release, IInv, TypeOK, OnlyHeadWoken, WasHead, Live
<1>2. /\ pc' = [pc EXCEPT ![t] = "idle"]
      /\ mustCancel' = [mustCancel EXCEPT ![t] = FALSE]
  BY DEF Release, IInv, TypeOK, QueueMatchesTasks
<1>3. LiveTasks' = LiveTasks /\ Before' = Before
  BY <1>1, <1>2, HeadTailProperties, LeaveHeadOrder DEF Release
<1>4. Owner = t /\ t # Nobody
  BY OwnerIsHolder, NobodyIsNoTask DEF Release
<1>5. Owner' = Nobody
  <2>1. \A u \in Tasks : pc[u] = "holding" => u = t
    BY <1>4, OwnerIsHolder
  <2>2. \A u \in Tasks : pc'[u] # "holding"
    BY <1>2, <2>1 DEF IInv, TypeOK
  <2> QED
    BY <2>2, OwnerIsHolderAfter
<1> QED
  BY <1>3, <1>4, <1>5 DEF Lock!Done

\* Leaving after a cancellation is invisible: the task had withdrawn already.
LEMMA AbandonIsInvisible ==
  ASSUME IInv, IInv', NEW t \in Tasks, Abandon(t)
  PROVE  Owner' = Owner /\ LiveTasks' = LiveTasks /\ Before' = Before
<1>1. /\ pc' = [pc EXCEPT ![t] = "idle"] /\ mustCancel' = [mustCancel EXCEPT ![t] = FALSE]
      /\ pc[t] = "waiting" /\ ~Live(t)
      /\ waiters \in Seq(Tasks) /\ Len(waiters) \in Nat
  BY LenProperties DEF Abandon, IInv, TypeOK, Live
<1>2. Owner' = Owner
  BY <1>1, OwnerKept DEF IInv, TypeOK
<1>3. CASE WasHead(t)
  <2> DEFINE q == RemoveFirst(waiters, t)
  <2>1. WakeNext(q, t)
    BY <1>3 DEF Abandon
  <2>2. 1 \in 1..Len(waiters) /\ waiters[1] = t
    BY <1>1, <1>3, EmptySeq DEF WasHead
  <2>3. PICK m \in 1..Len(waiters) :
          /\ waiters[m] = t
          /\ q \in Seq(Tasks)
          /\ Len(q) = Len(waiters) - 1
          /\ \A i \in 1..Len(waiters) - 1 :
               q[i] = IF i < m THEN waiters[i] ELSE waiters[i + 1]
    <3>1. \E i \in 1..Len(waiters) : waiters[i] = t
      BY <2>2
    <3> QED
      BY <1>1, <3>1, RemoveFirstShape
  <2>4. m = 1
    BY <2>2, <2>3 DEF IInv, Distinct
  <2>5. \A i \in 1..Len(q) : q[i] = waiters[i + 1]
    BY <1>1, <2>3, <2>4
  <2> HIDE DEF q
  <2>6. LiveTasks' = LiveTasks /\ Before' = Before
    BY <1>1, <1>3, <2>1, <2>3, <2>5, LeaveHeadOrder
  <2> QED
    BY <1>2, <2>6
<1>4. CASE ~WasHead(t)
  <2>1. waiters' = RemoveFirst(waiters, t) /\ fut' = [fut EXCEPT ![t] = "none"]
    BY <1>4 DEF Abandon
  <2>2. LiveTasks' = LiveTasks
    <3>1. \A u \in Tasks : Live(u)' <=> Live(u)
      BY <1>1, <2>1 DEF Live, IInv, TypeOK
    <3> QED
      BY <3>1 DEF LiveTasks
  <2>3. CASE ~\E i \in 1..Len(waiters) : waiters[i] = t
    <3>1. waiters' = waiters
      BY <2>1, <2>3 DEF RemoveFirst
    <3> QED
      BY <1>2, <2>2, <3>1 DEF Before
  <2>4. CASE \E i \in 1..Len(waiters) : waiters[i] = t
    <3>1. PICK m \in 1..Len(waiters) :
            /\ waiters[m] = t
            /\ waiters' \in Seq(Tasks)
            /\ Len(waiters') = Len(waiters) - 1
            /\ \A i \in 1..Len(waiters) - 1 :
                 waiters'[i] = IF i < m THEN waiters[i] ELSE waiters[i + 1]
      <4>1. waiters \in Seq(Tasks) /\ \E i \in 1..Len(waiters) : waiters[i] = t
        BY <1>1, <2>4
      <4>2. waiters' = RemoveFirst(waiters, t)
        BY <2>1
      <4> DEFINE r == RemoveFirst(waiters, t)
      <4>3. \E m \in 1..Len(waiters) :
              /\ waiters[m] = t
              /\ r \in Seq(Tasks)
              /\ Len(r) = Len(waiters) - 1
              /\ \A i \in 1..Len(waiters) - 1 :
                   r[i] = IF i < m THEN waiters[i] ELSE waiters[i + 1]
        BY <4>1, RemoveFirstShape
      <4> HIDE DEF r
      <4>4. waiters' = r
        BY <4>2 DEF r
      <4> QED
        BY <4>3, <4>4
    <3> DEFINE f == [i \in 1..Len(waiters') |-> IF i < m THEN i ELSE i + 1]
    <3>2. f \in [1..Len(waiters') -> 1..Len(waiters)]
      BY <1>1, <3>1
    <3>3. \A i, j \in 1..Len(waiters') : i < j => f[i] < f[j]
      BY <1>1, <3>1
    <3>4. \A i \in 1..Len(waiters') : waiters'[i] = waiters[f[i]]
      BY <1>1, <3>1
    <3>5. ASSUME NEW j \in 1..Len(waiters), waiters[j] \in LiveTasks
          PROVE  \E k \in 1..Len(waiters') : f[k] = j
      <4>1. j # m
        BY <1>1, <3>1, <3>5 DEF LiveTasks
      <4>2. CASE j < m
        <5>1. j \in 1..Len(waiters') /\ f[j] = j
          BY <1>1, <3>1, <4>2
        <5> QED
          BY <5>1
      <4>3. CASE j > m
        <5>1. j - 1 \in 1..Len(waiters') /\ ~(j - 1 < m) /\ (j - 1) + 1 = j
          BY <1>1, <3>1, <4>3
        <5>2. f[j - 1] = j
          BY <5>1
        <5> QED
          BY <5>1, <5>2
      <4> QED
        BY <4>1, <4>2, <4>3
    <3> HIDE DEF f
    <3>6. Before' = Before
      BY <2>2, <3>2, <3>3, <3>4, <3>5, OrderKept
    <3> QED
      BY <1>2, <2>2, <3>6
  <2> QED
    BY <2>3, <2>4
<1> QED
  BY <1>3, <1>4

\* One step of the manager, one step of the lock or none.
LEMMA StepImplementsLock ==
  ASSUME IInv, IInv', [Next]_vars
  PROVE  [Lock!Next]_Lock!vars
<1>1. CASE Next
  <2>1. PICK t \in Tasks : Acquire(t) \/ Resume(t) \/ Cancel(t) \/ Abandon(t) \/ Release(t)
    BY <1>1 DEF Next
  <2>2. CASE Acquire(t)
    BY <2>2, AcquireFreeAsks, AcquireQueuedAsks DEF Acquire, Lock!Next
  <2>3. CASE Resume(t)
    BY <2>3, ResumeGrants DEF Lock!Next
  <2>4. CASE Cancel(t)
    BY <2>4, CancelWithdraws DEF Lock!Next
  <2>5. CASE Abandon(t)
    BY <2>5, AbandonIsInvisible DEF Lock!vars
  <2>6. CASE Release(t)
    BY <2>6, ReleaseIsDone DEF Lock!Next
  <2> QED
    BY <2>1, <2>2, <2>3, <2>4, <2>5, <2>6
<1>2. CASE UNCHANGED vars
  BY <1>2 DEF vars, Lock!vars, Owner, LiveTasks, Live, Before
<1> QED
  BY <1>1, <1>2

(***************************************************************************)
(* The manager implements the fair lock: the bus is handed over "strictly  *)
(* in arrival order" (transaction()), and a cancelled waiter changes       *)
(* nobody else's place, for any set of tasks.                              *)
(***************************************************************************)
THEOREM IsFifoLock == Spec => ImplementsFifoLock
<1>1. Init => Lock!Init
  <2> SUFFICES ASSUME Init PROVE Lock!Init
    OBVIOUS
  <2>1. IInv
    BY InitIInv
  <2>2. Owner = Nobody /\ LiveTasks = {}
    BY <2>1, OwnerIsHolder, LiveIsQueued DEF Init
  <2> QED
    BY <2>2 DEF Lock!Init, Before
<1>2. IInv /\ IInv' /\ [Next]_vars => [Lock!Next]_Lock!vars
  BY StepImplementsLock
<1> QED
  BY <1>1, <1>2, InductiveInvariant, PTL DEF Spec, ImplementsFifoLock, Lock!Spec

(***************************************************************************)
(* Nobody overtakes: while a task waits, the tasks ahead of it only become *)
(* fewer, and the bus goes to a task with nobody ahead, or to a new one    *)
(* only if nobody waits.  This is what makes NoStarvation true: every      *)
(* transaction and every withdrawal brings a waiting task nearer.          *)
(***************************************************************************)
Ahead(t) == {s \in LiveTasks : <<s, t>> \in Before}

NobodyOvertakes ==
    /\ \A t \in LiveTasks : Live(t)' => Ahead(t)' \subseteq Ahead(t)
    /\ Owner' # Owner /\ Owner' # Nobody =>
          IF Owner' \in LiveTasks THEN Ahead(Owner') = {} ELSE LiveTasks = {}

LEMMA LockStepKeepsOrder ==
  ASSUME [Lock!Next]_Lock!vars
  PROVE  NobodyOvertakes
<1>1. /\ LiveTasks \subseteq Tasks /\ \A t \in LiveTasks : Live(t)' => t \in LiveTasks'
      /\ Before \subseteq LiveTasks \X LiveTasks
  BY DEF LiveTasks, Before
<1> DEFINE shorter == \A t \in LiveTasks : \A s : <<s, t>> \in Before' => <<s, t>> \in Before
<1>2. ASSUME shorter
      PROVE  \A t \in LiveTasks : Live(t)' => Ahead(t)' \subseteq Ahead(t)
  BY <1>1, <1>2 DEF Ahead
<1>3. CASE Lock!Done \/ UNCHANGED Lock!vars
  BY <1>2, <1>3 DEF Lock!Done, Lock!vars, NobodyOvertakes
<1>4. ASSUME NEW t \in Tasks, Lock!AskFree(t)
      PROVE  NobodyOvertakes
  BY <1>2, <1>4 DEF Lock!AskFree, NobodyOvertakes
<1>5. ASSUME NEW t \in Tasks, Lock!Ask(t)
      PROVE  NobodyOvertakes
  <2>1. shorter
    BY <1>5 DEF Lock!Ask
  <2> QED
    BY <1>2, <1>5, <2>1 DEF Lock!Ask, NobodyOvertakes
<1>6. ASSUME NEW t \in Tasks, Lock!Withdraw(t)
      PROVE  NobodyOvertakes
  <2>1. shorter
    BY <1>6 DEF Lock!Withdraw, Lock!Without
  <2> QED
    BY <1>2, <1>6, <2>1 DEF Lock!Withdraw, NobodyOvertakes
<1>7. ASSUME NEW t \in Tasks, Lock!Grant(t)
      PROVE  NobodyOvertakes
  <2>1. shorter
    BY <1>7 DEF Lock!Grant, Lock!Without
  <2>2. Ahead(t) = {}
    BY <1>7 DEF Lock!Grant, Ahead
  <2> QED
    BY <1>2, <1>7, <2>1, <2>2 DEF Lock!Grant, NobodyOvertakes
<1> QED
  BY <1>3, <1>4, <1>5, <1>6, <1>7 DEF Lock!Next

THEOREM OrderOfArrival == Spec => [][NobodyOvertakes]_vars
<1>1. IInv /\ IInv' /\ [Next]_vars => [NobodyOvertakes]_vars
  BY StepImplementsLock, LockStepKeepsOrder
<1> QED
  BY <1>1, InductiveInvariant, PTL DEF Spec
=============================================================================
