------------------------------ MODULE FifoLock ------------------------------
(***************************************************************************)
(* What the bus manager promises its users, with no futures and no event   *)
(* loop: one owner at a time, and ownership handed over in arrival order   *)
(* among the tasks that still want it.  Rs485Bus implements this module.   *)
(***************************************************************************)
EXTENDS Naturals

CONSTANTS Tasks, Nobody

VARIABLES
    owner,    \* the task inside its transaction, or Nobody
    queued,   \* the tasks still waiting for the bus
    before    \* <<s, t>>: both are queued and s asked before t

vars == <<owner, queued, before>>

Without(t) == before \ {p \in before : p[1] = t \/ p[2] = t}

Init == owner = Nobody /\ queued = {} /\ before = {}

\* The bus is free and nobody wants it: the caller has it at once.
AskFree(t) ==
    /\ owner = Nobody /\ queued = {}
    /\ owner' = t
    /\ UNCHANGED <<queued, before>>

\* The caller goes behind everyone who is already waiting.
Ask(t) ==
    /\ owner # t /\ t \notin queued
    /\ queued' = queued \cup {t}
    /\ before' = before \cup {<<s, t>> : s \in queued}
    /\ UNCHANGED owner

\* A waiting task is cancelled: it leaves the order of the others as it was.
Withdraw(t) ==
    /\ t \in queued
    /\ queued' = queued \ {t}
    /\ before' = Without(t)
    /\ UNCHANGED owner

\* The free bus goes to a task that nobody still waiting preceded.
Grant(t) ==
    /\ owner = Nobody /\ t \in queued
    /\ \A s \in queued : <<s, t>> \notin before
    /\ owner' = t
    /\ queued' = queued \ {t}
    /\ before' = Without(t)

Done == owner # Nobody /\ owner' = Nobody /\ UNCHANGED <<queued, before>>

Next == Done \/ \E t \in Tasks : AskFree(t) \/ Ask(t) \/ Withdraw(t) \/ Grant(t)

Spec == Init /\ [][Next]_vars
=============================================================================
