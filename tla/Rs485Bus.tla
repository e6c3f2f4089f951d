------------------------------ MODULE Rs485Bus ------------------------------
(***************************************************************************)
(* Rs485BusManager of transport.py: the explicit FIFO of futures through   *)
(* which every client of one RS485 bus gets its transaction.               *)
(*                                                                         *)
(* asyncio runs one callback at a time, so a step here is what runs        *)
(* between two suspension points.  The only suspension inside acquire() is *)
(* "await waiter"; between the completion of a future and the resumption   *)
(* of its task other callbacks run, and a cancellation may arrive there.   *)
(***************************************************************************)
EXTENDS Naturals, Sequences, SequencesExt

CONSTANTS Tasks,    \* the coroutines that use this bus
          Nobody    \* not a task

ASSUME NobodyIsNoTask == Nobody \notin Tasks

VARIABLES
    waiters,     \* the deque; a future is named by the task that created it
    pc,          \* "idle", "waiting" at await waiter, "holding" the bus
    fut,         \* the task's future: "none", "pending", "done", "cancelled"
    mustCancel   \* cancelled after its future was already done

vars == <<waiters, pc, fut, mustCancel>>

Init ==
    /\ waiters = <<>>
    /\ pc = [t \in Tasks |-> "idle"]
    /\ fut = [t \in Tasks |-> "none"]
    /\ mustCancel = [t \in Tasks |-> FALSE]

(***************************************************************************)
(* _wake_next on the deque q: drop the cancelled futures at its head, then *)
(* complete the first of the rest.                                         *)
(***************************************************************************)
FirstLive(q) ==
    CHOOSE i \in 1..Len(q) + 1 :
        /\ \A j \in 1..i - 1 : fut[q[j]] = "cancelled"
        /\ i <= Len(q) => fut[q[i]] # "cancelled"

DropCancelled(q) == SubSeq(q, FirstLive(q), Len(q))

\* Mutant: every waiter is woken, as a condition variable's notify_all would.
WakeAll(q, leaving) ==
    /\ waiters' = q
    /\ fut' = [t \in Tasks |->
                 IF t = leaving THEN "none"
                 ELSE IF fut[t] = "pending" THEN "done" ELSE fut[t]]

\* Mutant: only the very next waiter is looked at, cancelled or not.
WakeHeadOnly(q, leaving) ==
    /\ waiters' = q
    /\ fut' = [t \in Tasks |->
                 IF t = leaving THEN "none"
                 ELSE IF q # <<>> /\ t = Head(q) /\ fut[t] = "pending" THEN "done"
                 ELSE fut[t]]

WakeNext(q, leaving) ==
    LET rest == DropCancelled(q) IN
    /\ waiters' = rest
    /\ fut' = [t \in Tasks |->
                 IF t = leaving THEN "none"
                 ELSE IF rest # <<>> /\ t = Head(rest) THEN "done"
                 ELSE fut[t]]

\* acquire() on an empty deque: the future is done at once, no suspension.
AcquireFree(t) ==
    /\ pc[t] = "idle" /\ waiters = <<>>
    /\ waiters' = <<t>>
    /\ pc' = [pc EXCEPT ![t] = "holding"]
    /\ fut' = [fut EXCEPT ![t] = "done"]
    /\ UNCHANGED mustCancel

\* Mutant: a new waiter is put right behind the owner.
AcquireInFront(t) ==
    /\ pc[t] = "idle" /\ waiters # <<>>
    /\ waiters' = <<Head(waiters), t>> \o Tail(waiters)
    /\ pc' = [pc EXCEPT ![t] = "waiting"]
    /\ fut' = [fut EXCEPT ![t] = "pending"]
    /\ UNCHANGED mustCancel

\* acquire() behind others: suspended at await waiter.
AcquireQueued(t) ==
    /\ pc[t] = "idle" /\ waiters # <<>>
    /\ waiters' = Append(waiters, t)
    /\ pc' = [pc EXCEPT ![t] = "waiting"]
    /\ fut' = [fut EXCEPT ![t] = "pending"]
    /\ UNCHANGED mustCancel

\* The loop resumes a task whose future was completed: it has the bus.
Resume(t) ==
    /\ pc[t] = "waiting" /\ fut[t] = "done" /\ ~mustCancel[t]
    /\ pc' = [pc EXCEPT ![t] = "holding"]
    /\ UNCHANGED <<waiters, fut, mustCancel>>

\* Task.cancel() while the future is pending: the future is cancelled.
CancelPending(t) ==
    /\ pc[t] = "waiting" /\ fut[t] = "pending"
    /\ fut' = [fut EXCEPT ![t] = "cancelled"]
    /\ UNCHANGED <<waiters, pc, mustCancel>>

\* Task.cancel() after _wake_next completed the future, before it resumed.
CancelWoken(t) ==
    /\ pc[t] = "waiting" /\ fut[t] = "done" /\ ~mustCancel[t]
    /\ mustCancel' = [mustCancel EXCEPT ![t] = TRUE]
    /\ UNCHANGED <<waiters, pc, fut>>

\* Mutant: a cancelled head does not pass ownership on.
NeverHead(t) == FALSE

WasHead(t) == waiters # <<>> /\ Head(waiters) = t

\* Mutant: a cancelled waiter leaves its future behind in the deque.
AbandonInPlace(t) ==
    /\ pc[t] = "waiting" /\ (fut[t] = "cancelled" \/ mustCancel[t])
    /\ pc' = [pc EXCEPT ![t] = "idle"]
    /\ mustCancel' = [mustCancel EXCEPT ![t] = FALSE]
    /\ IF WasHead(t)
         THEN WakeNext(RemoveFirst(waiters, t), t)
         ELSE UNCHANGED <<waiters, fut>>

\* The except branch of acquire(): leave the deque, pass ownership on if head.
Abandon(t) ==
    /\ pc[t] = "waiting" /\ (fut[t] = "cancelled" \/ mustCancel[t])
    /\ pc' = [pc EXCEPT ![t] = "idle"]
    /\ mustCancel' = [mustCancel EXCEPT ![t] = FALSE]
    /\ IF WasHead(t)
         THEN WakeNext(RemoveFirst(waiters, t), t)
         ELSE /\ waiters' = RemoveFirst(waiters, t)
              /\ fut' = [fut EXCEPT ![t] = "none"]

\* The end of transaction(), normal or exceptional: release().
Release(t) ==
    /\ pc[t] = "holding"
    /\ pc' = [pc EXCEPT ![t] = "idle"]
    /\ WakeNext(Tail(waiters), t)
    /\ UNCHANGED mustCancel

Acquire(t) == AcquireFree(t) \/ AcquireQueued(t)
Cancel(t)  == CancelPending(t) \/ CancelWoken(t)

Next == \E t \in Tasks :
    Acquire(t) \/ Resume(t) \/ Cancel(t) \/ Abandon(t) \/ Release(t)

(***************************************************************************)
(* Fairness: the event loop runs every ready callback, and a transaction   *)
(* ends because each of its awaits is under asyncio.timeout.  Nothing      *)
(* obliges a task to ask for the bus or anyone to cancel it.               *)
(***************************************************************************)
Fairness == \A t \in Tasks :
    WF_vars(Resume(t)) /\ WF_vars(Abandon(t)) /\ WF_vars(Release(t))

Spec == Init /\ [][Next]_vars
FairSpec == Spec /\ Fairness

-----------------------------------------------------------------------------
\* A task that waits and has not been told to stop.
Live(t) == pc[t] = "waiting" /\ fut[t] # "cancelled" /\ ~mustCancel[t]

Queue == {waiters[i] : i \in 1..Len(waiters)}

TypeOK ==
    /\ waiters \in Seq(Tasks)
    /\ pc \in [Tasks -> {"idle", "waiting", "holding"}]
    /\ fut \in [Tasks -> {"none", "pending", "done", "cancelled"}]
    /\ mustCancel \in [Tasks -> BOOLEAN]

\* Two transactions never overlap on the bus ("Hold exclusive bus ownership
\* for one complete transaction").
MutualExclusion ==
    \A s, t \in Tasks : pc[s] = "holding" /\ pc[t] = "holding" => s = t

\* Whenever someone is queued, the head of the deque has been woken: the bus
\* is never idle with a task asleep behind a departed or cancelled one ("A
\* cancelled waiter must never block the queue").
NoLostWakeup == waiters # <<>> => fut[Head(waiters)] = "done"

(***************************************************************************)
(* The inductive invariant: what the futures say about the deque.          *)
(***************************************************************************)
Distinct == \A i, j \in 1..Len(waiters) : waiters[i] = waiters[j] => i = j

\* Only a suspended or owning task has a future in the deque, and a future
\* leaves it only when cancelled or through its own task.
QueueMatchesTasks == \A t \in Tasks :
    /\ t \in Queue => pc[t] # "idle"
    /\ pc[t] = "idle" => fut[t] = "none"
    /\ pc[t] = "waiting" => fut[t] # "none"
    /\ pc[t] = "waiting" /\ fut[t] # "cancelled" => t \in Queue
    /\ mustCancel[t] => pc[t] = "waiting" /\ fut[t] = "done"

\* Only the head has been woken, and only a woken task owns the bus.
OnlyHeadWoken == \A t \in Tasks :
    /\ pc[t] = "holding" => fut[t] = "done"
    /\ fut[t] = "done" => WasHead(t)

IInv == TypeOK /\ Distinct /\ QueueMatchesTasks /\ OnlyHeadWoken /\ NoLostWakeup

(***************************************************************************)
(* The bus as a fair lock: the owner is the task inside its transaction,   *)
(* the queued tasks are the live waiters, in the order of the deque.       *)
(***************************************************************************)
Owner == IF \E t \in Tasks : pc[t] = "holding"
           THEN CHOOSE t \in Tasks : pc[t] = "holding"
           ELSE Nobody

LiveTasks == {t \in Tasks : Live(t)}

Before == {p \in LiveTasks \X LiveTasks :
             \E i, j \in 1..Len(waiters) :
                i < j /\ waiters[i] = p[1] /\ waiters[j] = p[2]}

Lock == INSTANCE FifoLock WITH owner <- Owner, queued <- LiveTasks, before <- Before

\* Every behaviour of the manager is one of the fair lock: ownership goes in
\* arrival order, and a withdrawal disturbs nobody else's place ("acquire it
\* strictly in arrival order").
ImplementsFifoLock == Lock!Spec

\* A waiting task does not wait for ever: it gets the bus or is cancelled,
\* however often others ask, leave and are cancelled around it.
NoStarvation == \A t \in Tasks : Live(t) ~> ~Live(t)
=============================================================================
