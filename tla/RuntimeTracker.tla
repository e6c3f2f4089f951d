--------------------------- MODULE RuntimeTracker ---------------------------
(***************************************************************************)
(* AquagemRuntimeTracker of runtime.py, the operating-hours counter: how   *)
(* it accrues, when it is saved, how the options flow sets it, and what    *)
(* becomes of it when its config entry is set up, unloaded or lost with    *)
(* the process (__init__.py).                                              *)
(*                                                                         *)
(* Time is discrete.  Times of the code (_last_tick, _next_save_due) are   *)
(* kept relative to now.                                                   *)
(***************************************************************************)
EXTENDS Naturals

CONSTANTS
    Initial,       \* the entry's initial operating hours
    SetValues,     \* what a user may set the counter to, 0 for a reset
    SaveInterval,  \* _SAVE_INTERVAL_SECONDS
    Gap,           \* the longest time between two updates by the coordinator
    MaxHours,      \* bound: the counter is not followed beyond this
    None

ASSUME RuntimeAssumption ==
    /\ Initial \in Nat /\ SetValues \subseteq Nat
    /\ SaveInterval \in Nat \ {0} /\ Gap \in Nat \ {0} /\ MaxHours \in Nat
    /\ None \notin Nat

VARIABLES
    entry,     \* "unloaded", "setup" (loaded by async_setup_entry, not yet in
               \* hass.data), "loaded", "unloading" (shut down, still there)
    total,     \* _total_seconds
    running,   \* _running
    unticked,  \* now - _last_tick
    saveIn,    \* _next_save_due - now, 0 when past
    armed,     \* async_delay_save was called and has not written
    store,     \* the counter on disk, or None
    quiet,     \* time since the coordinator's last update
    truth,     \* the value set last plus the confirmed running time since
    raced      \* "no", "set" (set during a setup), "late" (started after shutdown)

vars == <<entry, total, running, unticked, saveIn, armed, store, quiet, truth, raced>>

InHassData == entry \in {"loaded", "unloading"}

\* hours, and what _data_to_save computes
Hours == total + IF running THEN unticked ELSE 0

\* async_get_runtime_hours
Shown == IF InHassData THEN Hours ELSE IF store # None THEN store ELSE Initial

Init ==
    /\ entry = "unloaded"
    /\ total = 0 /\ running = FALSE /\ unticked = 0 /\ saveIn = 0 /\ armed = FALSE
    /\ store = None /\ quiet = 0
    /\ truth = Initial /\ raced = "no"

-----------------------------------------------------------------------------
\* async_setup_entry creates a tracker and async_load fills it.
Setup ==
    /\ entry = "unloaded" /\ ~armed
    /\ entry' = "setup"
    /\ total' = IF store # None THEN store ELSE Initial
    /\ store' = total'
    /\ running' = FALSE /\ unticked' = 0 /\ saveIn' = SaveInterval
    /\ quiet' = 0
    /\ truth' = IF raced = "no" THEN truth ELSE total'
    /\ raced' = "no"
    /\ UNCHANGED armed

\* The coordinator, and with it the tracker, becomes visible to others.
Publish ==
    /\ entry = "setup"
    /\ entry' = "loaded"
    /\ UNCHANGED <<total, running, unticked, saveIn, armed, store, quiet, truth, raced>>

\* _accrue_to
Accrue == total' = Hours /\ unticked' = 0

\* Mutant: the next save becomes due without this one being made.
SkipPeriodicSave ==
    /\ saveIn' = IF saveIn = 0 THEN SaveInterval ELSE saveIn
    /\ UNCHANGED armed

\* _schedule_periodic_save
SchedulePeriodicSave ==
    /\ saveIn' = IF saveIn = 0 THEN SaveInterval ELSE saveIn
    /\ armed' = (armed \/ saveIn = 0)

\* Mutant: the new running state is recorded before the time is accrued.
AccrueAfterwards(on) ==
    /\ entry # "unloaded"
    /\ total' = total + (IF on THEN unticked ELSE 0) /\ unticked' = 0
    /\ running' = on
    /\ SchedulePeriodicSave
    /\ quiet' = 0
    /\ raced' = IF entry = "unloading" /\ on THEN "late" ELSE raced
    /\ UNCHANGED <<entry, store, truth>>

\* update_running, pause: every refresh and every command.  One that was in
\* flight when the entry was unloaded still reports to the old tracker.
UpdateRunning(on) ==
    /\ entry # "unloaded"
    /\ Accrue
    /\ running' = on
    /\ SchedulePeriodicSave
    /\ quiet' = 0
    /\ raced' = IF entry = "unloading" /\ on THEN "late" ELSE raced
    /\ UNCHANGED <<entry, store, truth>>

\* The delayed save writes what _data_to_save returns then.
DelayedWrite ==
    /\ armed
    /\ armed' = FALSE
    /\ store' = Hours
    /\ UNCHANGED <<entry, total, running, unticked, saveIn, quiet, truth, raced>>

\* Mutant: the elapsed time is not forgotten when the counter is set.
SetKeepingTick(h) == total' = h /\ UNCHANGED unticked

\* The part of async_set_hours that restarts the count.
SetTotal(h) == total' = h /\ unticked' = 0

\* async_set_runtime_hours with a tracker in hass.data: async_set_hours.
SetInMemory(h) ==
    /\ InHassData
    /\ SetTotal(h)
    /\ saveIn' = SaveInterval
    /\ armed' = FALSE
    /\ store' = h
    /\ truth' = h
    /\ raced' = IF entry = "unloading" THEN raced ELSE "no"
    /\ UNCHANGED <<entry, running, quiet>>

\* async_set_runtime_hours without one: straight to the disk.  A save that is
\* due (its delay is 0) is written before.
SetOnDisk(h) ==
    /\ ~InHassData /\ (entry = "unloaded" => ~armed)
    /\ store' = h
    /\ truth' = h
    /\ raced' = IF entry = "setup" THEN "set" ELSE "no"
    /\ UNCHANGED <<entry, total, running, unticked, saveIn, armed, quiet>>

\* Mutant: the counter is saved without what accrued since the last update.
SaveWithoutAccruing ==
    /\ UNCHANGED total
    /\ unticked' = 0 /\ running' = FALSE
    /\ armed' = FALSE /\ store' = total

\* async_shutdown
Shutdown ==
    /\ total' = Hours
    /\ unticked' = 0 /\ running' = FALSE
    /\ armed' = FALSE /\ store' = Hours

\* async_unload_entry: shut down, close the client (which may have to wait
\* for the bus), leave hass.data.
BeginUnload ==
    /\ entry = "loaded"
    /\ entry' = "unloading"
    /\ Shutdown
    /\ UNCHANGED <<saveIn, quiet, truth, raced>>

FinishUnload ==
    /\ entry = "unloading"
    /\ entry' = "unloaded"
    /\ UNCHANGED <<total, running, unticked, saveIn, armed, store, quiet, truth, raced>>

\* The process ends; no unload and no save precedes it.
Restart ==
    /\ entry # "unloaded"
    /\ entry' = "unloaded"
    /\ running' = FALSE /\ unticked' = 0 /\ armed' = FALSE
    /\ truth' = IF store # None THEN store ELSE Initial
    /\ raced' = "no"
    /\ UNCHANGED <<total, saveIn, store, quiet>>

\* A due save is written before time passes, and the coordinator of a running
\* pump updates its tracker at least every Gap.
Tick ==
    /\ ~armed /\ truth < MaxHours /\ Hours < MaxHours
    /\ running /\ entry \in {"setup", "loaded"} => quiet < Gap
    /\ unticked' = IF running \/ unticked < Gap THEN unticked + 1 ELSE unticked
    /\ saveIn' = IF saveIn > 0 THEN saveIn - 1 ELSE 0
    /\ quiet' = IF quiet < Gap THEN quiet + 1 ELSE Gap
    /\ truth' = truth + IF entry # "unloaded" /\ running THEN 1 ELSE 0
    /\ UNCHANGED <<entry, total, running, armed, store, raced>>

Next ==
    \/ Setup \/ Publish \/ BeginUnload \/ FinishUnload \/ Restart
    \/ \E on \in BOOLEAN : UpdateRunning(on)
    \/ DelayedWrite
    \/ \E h \in SetValues : SetInMemory(h) \/ SetOnDisk(h)
    \/ Tick

Spec == Init /\ [][Next]_vars

-----------------------------------------------------------------------------
TypeOK ==
    /\ entry \in {"unloaded", "setup", "loaded", "unloading"}
    /\ total \in Nat /\ running \in BOOLEAN /\ unticked \in Nat
    /\ saveIn \in 0..SaveInterval /\ armed \in BOOLEAN
    /\ store \in Nat \cup {None} /\ quiet \in 0..Gap
    /\ truth \in Nat /\ raced \in {"no", "set", "late"}

\* While nothing raced, the counter is the value set last plus exactly the
\* confirmed running time since, through updates, saves, sets and reloads.
CountsConfirmedTime ==
    raced = "no" => truth = IF entry = "unloaded" THEN Shown ELSE Hours

\* A restart loses at most one save interval and one gap between updates.
LossBounded ==
    raced = "no" /\ store # None =>
        store <= truth /\ truth <= store + SaveInterval + Gap

(***************************************************************************)
(* What makes these inductive: how much is unsaved at each moment.         *)
(***************************************************************************)
Unsaved ==
    /\ entry # "unloaded" => store # None
    /\ entry = "unloaded" /\ armed /\ raced = "no" => ~running /\ total = truth
    /\ running /\ entry = "unloading" => raced = "late"
    /\ entry = "unloading" /\ raced = "no" => store = total
    /\ raced = "late" => entry \in {"unloading", "unloaded"}
    /\ entry = "setup" /\ raced # "no" => raced = "set"
    /\ raced = "no" /\ store # None =>
         truth <= IF armed THEN store + SaveInterval + Gap
                  ELSE IF saveIn > 0 THEN store + SaveInterval - saveIn
                  ELSE store + SaveInterval + quiet

IInv == TypeOK /\ CountsConfirmedTime /\ LossBounded /\ Unsaved
=============================================================================
