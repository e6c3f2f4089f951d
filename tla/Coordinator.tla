---------------------------- MODULE Coordinator ----------------------------
(***************************************************************************)
(* AquagemCoordinator of coordinator.py: polling, commands, the protected  *)
(* quiet window after a command, the availability debounce, the origin of  *)
(* a change, the runtime tracker's running flag, on top of the client's    *)
(* FIFO lock and of Home Assistant's refresh timer.                        *)
(*                                                                         *)
(* A step is what the event loop runs between two suspension points: the   *)
(* wait for the client lock and the wait for the wire.  A control state    *)
(* (pump_on, speed if on else 0) is a number: 0 is OFF, everything else is *)
(* a speed the pump runs at, commandable or not (a ramp).                  *)
(*                                                                         *)
(* Time is discrete and advances by Tick.  Deadlines are kept as the time  *)
(* left (_quiet_until - now), so the state space is finite.  How long an   *)
(* exchange takes is left open.                                            *)
(***************************************************************************)
EXTENDS Naturals, FiniteSets, Sequences, SequencesExt

CONSTANTS
    Callers,            \* the service calls that may run concurrently
    Refresh,            \* the name of the refresh among the lock's users
    Modbus,             \* the profile: Modbus reads twice and acks its writes
    MinSpeed, MaxSpeed, \* the client's limits
    UnprobedSpeed,      \* minimum_speed when the coordinator was created
    PumpStates,         \* what the pump may report on its own account
    NormalInterval, OfflineInterval,
    IdleChoices, DefaultIdle,   \* idle_scan_interval_seconds
    Settle,             \* LOCAL_CONTROL_COMMAND_SETTLE_SECONDS
    FailureThreshold,   \* DEFAULT_FAILURE_THRESHOLD
    Override,           \* ISAVER_REMOTE_OVERRIDE_SECONDS
    Horizon,            \* the age of a command is not counted beyond this
    None

ASSUME ConstantTypes ==
    /\ Refresh \notin Callers
    /\ Modbus \in BOOLEAN
    /\ MinSpeed \in Nat \ {0} /\ MaxSpeed \in Nat /\ MinSpeed <= MaxSpeed
    /\ UnprobedSpeed \in Nat
    /\ PumpStates \subseteq 0..MaxSpeed
    /\ NormalInterval \in Nat \ {0} /\ OfflineInterval \in Nat
    /\ NormalInterval <= OfflineInterval
    /\ IdleChoices \subseteq Nat \ {0} /\ DefaultIdle \in IdleChoices
    /\ Settle \in Nat /\ FailureThreshold \in Nat \ {0} /\ Override \in Nat
    /\ Horizon \in Nat /\ Settle <= Horizon /\ \A i \in IdleChoices : i <= Horizon
    /\ None \notin Nat

VARIABLES
    \* AquagemCoordinator
    data,         \* self.data, the published state, or None
    online,       \* communication_online: "unknown", "online", "offline"
    failures,     \* consecutive_failures, not counted past the threshold
    lastRunning,  \* last_running_speed
    assist,       \* local_control_assist
    idle,         \* _idle_scan_interval_seconds
    quietLeft,    \* _quiet_until - now, 0 when past
    cmdAge,       \* now - _last_ha_command_at, up to Horizon
    pending,      \* _pending_ha_target, or None
    source,       \* last_change_source
    interval,     \* update_interval
    timer,        \* time to the next scheduled refresh, between refreshes
    running,      \* AquagemRuntimeTracker._running
    \* coroutines in flight
    refresh,      \* the refresh: "idle", "queued", "wire", "extQueued", "extWire"
    previous,     \* its local variable previous
    sample,       \* Modbus: the status read before the extended registers
    write,        \* [Callers -> "idle", "queued", "sent" (executed), "lost"]
    target,       \* [Callers -> the commanded state]
    lockQ,        \* the client's asyncio.Lock: holder first, then waiters
    \* the pump
    pump,         \* its control state
    remoteLeft,   \* time until its panel may take control from the remote
    \* history
    overtaken,    \* a command completed during this refresh: "no",
                  \* "beforeSample", "afterSample"
    staled,       \* the published state is older than the last command
    drift,        \* the pump may have left the last command's state since
    handover      \* the current quiet window still promises a handover

coordVars == <<data, online, failures, lastRunning, assist, idle, quietLeft,
               cmdAge, pending, source, interval, timer, running>>
taskVars  == <<refresh, previous, sample, write, target, lockQ>>
pumpVars  == <<pump, remoteLeft>>
history   == <<overtaken, staled, drift, handover>>
vars      == <<coordVars, taskVars, pumpVars, history>>

On(s) == s # 0
Commands == {0} \cup MinSpeed..MaxSpeed
Larger(a, b) == IF a >= b THEN a ELSE b
Users == Callers \cup {Refresh}

Init ==
    /\ data = None /\ online = "unknown" /\ failures = 0
    /\ lastRunning = UnprobedSpeed
    /\ assist = TRUE /\ idle = DefaultIdle
    /\ quietLeft = 0 /\ cmdAge = Horizon
    /\ pending = None /\ source = "unknown"
    /\ interval = NormalInterval /\ timer = 0
    /\ running = FALSE
    /\ refresh = "idle" /\ previous = None /\ sample = None
    /\ write = [c \in Callers |-> "idle"]
    /\ target = [c \in Callers |-> 0]
    /\ lockQ = <<>>
    /\ pump \in PumpStates /\ remoteLeft = 0
    /\ overtaken = "no" /\ staled = FALSE /\ drift = FALSE /\ handover = FALSE

-----------------------------------------------------------------------------
(***************************************************************************)
(* Parts of the handlers.                                                  *)
(***************************************************************************)
\* Mutant: the lock is not taken around an exchange.
NoLock(u) == TRUE

HoldsLock(u) == lockQ # <<>> /\ Head(lockQ) = u

\* The timer runs between refreshes only: a refresh cancels it when it starts
\* and arms it from update_interval when it ends, whatever happened between.
Arm(left) == timer' = IF refresh = "idle" THEN left ELSE 0

\* Mutant: a settings change leaves the old timer running.
NoReschedule(left) == UNCHANGED timer

\* _reschedule_current_data: re-publishing the data arms the timer.
Reschedule(left) ==
    IF data # None /\ online # "offline" THEN Arm(left) ELSE UNCHANGED timer

QuietInterval(left) == Larger(NormalInterval, left)

\* The early return at the top of _async_update_data.
\* Mutant: it is missing.
NeverQuiet == FALSE

InQuietWindow == assist /\ data # None /\ quietLeft > 0

\* A read during the pump's remote override prolongs it.
PumpSeesRead ==
    /\ remoteLeft' = IF remoteLeft > 0 THEN Override ELSE 0
    /\ handover' = (handover /\ overtaken = "no")

\* Mutant: every difference from the previous data is an external change.
TrackByPrevious(prev, s) ==
    /\ source' = IF prev # None /\ prev # s THEN "external" ELSE source
    /\ pending' = IF pending = s THEN None ELSE pending

\* _track_change_source
TrackChangeSource(prev, s) ==
    IF pending # None THEN
        IF s = pending THEN source' = "homeassistant" /\ pending' = None
        ELSE IF cmdAge >= Settle THEN source' = "external" /\ pending' = None
        ELSE UNCHANGED <<source, pending>>
    ELSE
        /\ source' = IF prev # None /\ prev # s THEN "external" ELSE source
        /\ UNCHANGED pending

\* Mutant: a ramp below the minimum is remembered as the running speed.
RememberAnySpeed(s) == IF On(s) THEN s ELSE lastRunning

\* last_running_speed after a status: first back into the limits, then the
\* running speed if it is one.
RunningSpeed(s) ==
    IF s >= MinSpeed THEN s
    ELSE IF lastRunning \in MinSpeed..MaxSpeed THEN lastRunning
    ELSE MinSpeed

\* Mutant: the tracker is only ever started.
TrackOnly(s) == running' = (running \/ On(s))

\* runtime_tracker.update_running
Track(s) == running' = On(s)

\* Mutant: a success does not clear the failure counter.
RecoveredKeepingCount ==
    /\ quietLeft' = 0 /\ online' = "online" /\ UNCHANGED failures

\* Mutant: a success does not bring the entities back.
RecoveredOffline ==
    /\ quietLeft' = 0 /\ failures' = 0
    /\ online' = IF online = "offline" THEN "offline" ELSE "online"

Recovered == quietLeft' = 0 /\ online' = "online" /\ failures' = 0

\* The end of a refresh that returns d: Home Assistant publishes it and arms
\* the timer with the interval the handler selected.
EndRefresh(d, next) ==
    /\ data' = d
    /\ interval' = next
    /\ timer' = next
    /\ refresh' = "idle"
    /\ previous' = None /\ sample' = None
    /\ overtaken' = "no"
    /\ lockQ' = Tail(lockQ)

\* The success branch of _async_update_data with status s.
Accept(s) ==
    /\ Recovered
    /\ TrackChangeSource(previous, s)
    /\ Track(s)
    /\ lastRunning' = RunningSpeed(s)
    /\ EndRefresh(s, NormalInterval)
    /\ staled' = (overtaken = "afterSample")
    /\ UNCHANGED <<assist, idle, cmdAge, write, target, pumpVars, drift, handover>>

-----------------------------------------------------------------------------
(***************************************************************************)
(* Refreshes.  One starts when the timer expires or when Home Assistant is *)
(* asked for an early one (homeassistant.update_entity); the debouncer's   *)
(* lock lets one run at a time.                                            *)
(***************************************************************************)
SkipQuietRefresh ==
    /\ refresh = "idle" /\ InQuietWindow
    /\ interval' = QuietInterval(quietLeft)
    /\ timer' = QuietInterval(quietLeft)
    /\ UNCHANGED <<data, online, failures, lastRunning, assist, idle, quietLeft, cmdAge,
                   pending, source, running, taskVars, pumpVars, history>>

StartRefresh ==
    /\ refresh = "idle" /\ ~InQuietWindow
    /\ refresh' = "queued"
    /\ previous' = data
    /\ lockQ' = Append(lockQ, Refresh)
    /\ timer' = 0
    /\ UNCHANGED <<data, online, failures, lastRunning, assist, idle, quietLeft, cmdAge,
                   pending, source, interval, running, sample, write, target, pumpVars, history>>

SendRead ==
    /\ refresh = "queued" /\ HoldsLock(Refresh)
    /\ refresh' = "wire"
    /\ PumpSeesRead
    /\ UNCHANGED <<coordVars, previous, sample, write, target, lockQ, pump,
                   overtaken, staled, drift>>

\* The status arrives and is all this refresh asks for.
StatusCompletes ==
    /\ refresh = "wire"
    /\ Accept(pump)

\* The status arrives, the client releases its lock and queues again for the
\* extended registers.
StatusThenExtended ==
    /\ Modbus /\ refresh = "wire"
    /\ refresh' = "extQueued"
    /\ sample' = pump
    /\ lockQ' = Append(Tail(lockQ), Refresh)
    /\ UNCHANGED <<coordVars, previous, write, target, pumpVars, history>>

SendExtended ==
    /\ refresh = "extQueued" /\ HoldsLock(Refresh)
    /\ refresh' = "extWire"
    /\ PumpSeesRead
    /\ UNCHANGED <<coordVars, previous, sample, write, target, lockQ, pump,
                   overtaken, staled, drift>>

\* The extended registers arrive or fail: the refresh succeeds either way.
ExtendedCompletes ==
    /\ refresh = "extWire"
    /\ Accept(sample)

\* The status exchange fails.
RefreshFails ==
    /\ refresh = "wire"
    /\ failures' = IF failures < FailureThreshold THEN failures + 1 ELSE failures
    /\ IF data = None THEN
           /\ online' = "offline" /\ running' = FALSE
           /\ EndRefresh(None, interval)
       ELSE IF failures' >= FailureThreshold THEN
           /\ online' = "offline" /\ running' = FALSE
           /\ EndRefresh(data, OfflineInterval)
       ELSE
           /\ online' = "online" /\ UNCHANGED running
           /\ EndRefresh(data, NormalInterval)
    /\ UNCHANGED <<lastRunning, assist, idle, quietLeft, cmdAge, pending, source,
                   write, target, pumpVars, staled, drift, handover>>

-----------------------------------------------------------------------------
(***************************************************************************)
(* Commands: async_set_speed.  Home Assistant does not call services on    *)
(* unavailable entities, so a command starts only while the pump is        *)
(* available; it may become unavailable while the command waits.           *)
(***************************************************************************)
StartCommand(c, s) ==
    /\ write[c] = "idle" /\ data # None /\ online # "offline"
    /\ write' = [write EXCEPT ![c] = "queued"]
    /\ target' = [target EXCEPT ![c] = s]
    /\ lockQ' = Append(lockQ, c)
    /\ UNCHANGED <<coordVars, refresh, previous, sample, pumpVars, history>>

\* The frame goes out and the pump executes it or never sees it.
SendWrite(c, executed) ==
    /\ write[c] = "queued" /\ HoldsLock(c)
    /\ write' = [write EXCEPT ![c] = IF executed THEN "sent" ELSE "lost"]
    /\ pump' = IF executed THEN target[c] ELSE pump
    /\ remoteLeft' = IF executed THEN Override ELSE remoteLeft
    /\ handover' = (handover /\ ~executed)
    /\ UNCHANGED <<coordVars, refresh, previous, sample, target, lockQ,
                   overtaken, staled, drift>>

\* Mutant: a command during the window does not restart it.
KeepOldWindow == IF assist THEN (IF quietLeft > 0 THEN quietLeft ELSE idle) ELSE 0

WindowAfterCommand == IF assist THEN idle ELSE 0

(***************************************************************************)
(* write_speed returns: a Modbus write was acknowledged, an iSaver write   *)
(* left the socket.  The rest of async_set_speed runs without a pause.     *)
(***************************************************************************)
CommandCompletes(c) ==
    /\ write[c] = "sent" \/ (write[c] = "lost" /\ ~Modbus)
    /\ source' = "homeassistant"
    /\ cmdAge' = 0
    /\ pending' = target[c]
    /\ quietLeft' = WindowAfterCommand
    /\ interval' = IF assist THEN QuietInterval(idle) ELSE NormalInterval
    /\ Track(target[c])
    /\ lastRunning' = IF On(target[c]) THEN target[c] ELSE lastRunning
    /\ data' = target[c]
    /\ Arm(interval')
    /\ write' = [write EXCEPT ![c] = "idle"]
    /\ target' = [target EXCEPT ![c] = 0]
    /\ lockQ' = Tail(lockQ)
    /\ overtaken' = CASE refresh = "idle" -> "no"
                      [] refresh = "extQueued" -> "afterSample"
                      [] OTHER -> "beforeSample"
    /\ staled' = FALSE
    /\ drift' = (write[c] = "lost")
    /\ handover' = (assist /\ idle >= Override)
    /\ UNCHANGED <<online, failures, assist, idle, refresh, previous, sample, pumpVars>>

\* write_speed raises: the call is cancelled in the queue, the transport
\* fails, or the acknowledgement does not come.  Nothing is recorded.
CommandFails(c) ==
    /\ write[c] # "idle"
    /\ write' = [write EXCEPT ![c] = "idle"]
    /\ target' = [target EXCEPT ![c] = 0]
    /\ lockQ' = RemoveFirst(lockQ, c)
    /\ drift' = (drift \/ write[c] = "sent")
    /\ UNCHANGED <<coordVars, refresh, previous, sample, pumpVars,
                   overtaken, staled, handover>>

-----------------------------------------------------------------------------
(***************************************************************************)
(* Settings, the pump on its own, and time.                                *)
(***************************************************************************)
SetAssist(enabled) ==
    /\ assist' = enabled
    /\ quietLeft' = IF enabled THEN quietLeft ELSE 0
    /\ interval' = IF online # "offline" THEN NormalInterval ELSE interval
    /\ Reschedule(interval')
    /\ handover' = (handover /\ enabled)
    /\ UNCHANGED <<data, online, failures, lastRunning, idle, cmdAge, pending, source,
                   running, taskVars, pumpVars, overtaken, staled, drift>>

\* set_idle_scan_interval: in a window, the new duration counts from the last
\* command; if it is over already, so is the window.
SetIdle(i) ==
    /\ idle' = i
    /\ IF assist /\ quietLeft > 0
         THEN /\ quietLeft' = IF i > cmdAge THEN i - cmdAge ELSE 0
              /\ interval' = QuietInterval(quietLeft')
         ELSE /\ interval' = IF online # "offline" THEN NormalInterval ELSE interval
              /\ UNCHANGED quietLeft
    /\ Reschedule(interval')
    /\ handover' = (handover /\ i >= Override)
    /\ UNCHANGED <<data, online, failures, lastRunning, assist, cmdAge, pending, source,
                   running, taskVars, pumpVars, overtaken, staled, drift>>

\* The panel, a fault or the supply changes the pump.  It does not do so in
\* the moment between the execution of a command and its acknowledgement.
PumpChanges(s) ==
    /\ s # pump /\ \A c \in Callers : write[c] # "sent"
    /\ pump' = s
    /\ drift' = TRUE
    /\ UNCHANGED <<coordVars, taskVars, remoteLeft, overtaken, staled, handover>>

Down(n) == IF n > 0 THEN n - 1 ELSE 0

\* An expired timer is served before more time passes.
Tick ==
    /\ refresh # "idle" \/ timer > 0
    /\ timer' = Down(timer)
    /\ quietLeft' = Down(quietLeft)
    /\ remoteLeft' = Down(remoteLeft)
    /\ cmdAge' = IF cmdAge < Horizon THEN cmdAge + 1 ELSE Horizon
    /\ UNCHANGED <<data, online, failures, lastRunning, assist, idle, pending, source,
                   interval, running, taskVars, pump, history>>

RefreshStep ==
    \/ SkipQuietRefresh \/ StartRefresh
    \/ SendRead \/ StatusCompletes \/ StatusThenExtended
    \/ SendExtended \/ ExtendedCompletes \/ RefreshFails

CommandStep(c) ==
    \/ \E s \in Commands : StartCommand(c, s)
    \/ \E executed \in BOOLEAN : SendWrite(c, executed)
    \/ CommandCompletes(c) \/ CommandFails(c)

SettingStep ==
    \/ \E b \in BOOLEAN : SetAssist(b)
    \/ \E i \in IdleChoices : SetIdle(i)

Next ==
    \/ RefreshStep
    \/ \E c \in Callers : CommandStep(c)
    \/ SettingStep
    \/ \E s \in PumpStates : PumpChanges(s)
    \/ Tick

Spec == Init /\ [][Next]_vars

(***************************************************************************)
(* Fairness: time passes, an expired timer is served (a refresh starts or  *)
(* is skipped), every task that holds the lock goes on, and an exchange    *)
(* ends one way or the other because it is under asyncio.timeout.  Nothing *)
(* is assumed of users or of the pump.                                     *)
(***************************************************************************)
ExchangeEnds ==
    StatusCompletes \/ StatusThenExtended \/ ExtendedCompletes \/ RefreshFails

CommandAdvances(c) ==
    (\E executed \in BOOLEAN : SendWrite(c, executed)) \/ CommandCompletes(c)
    \/ (write[c] \in {"sent", "lost"} /\ CommandFails(c))

Fairness ==
    /\ WF_vars(Tick)
    /\ WF_vars(timer = 0 /\ (SkipQuietRefresh \/ StartRefresh))
    /\ WF_vars(SendRead \/ SendExtended)
    /\ WF_vars(ExchangeEnds)
    /\ \A c \in Callers : WF_vars(CommandAdvances(c))

FairSpec == Spec /\ Fairness

-----------------------------------------------------------------------------
Reported == 0..MaxSpeed

CoordinatorTypes ==
    /\ data \in Reported \cup {None} /\ online \in {"unknown", "online", "offline"}
    /\ failures \in 0..FailureThreshold /\ lastRunning \in Nat
    /\ data # None => lastRunning \in MinSpeed..MaxSpeed
    /\ assist \in BOOLEAN /\ idle \in IdleChoices
    /\ quietLeft \in Nat /\ cmdAge \in 0..Horizon
    /\ pending \in Commands \cup {None}
    /\ source \in {"unknown", "homeassistant", "external"}
    /\ interval \in Nat /\ timer \in Nat /\ running \in BOOLEAN

TaskTypes ==
    /\ refresh \in {"idle", "queued", "wire", "extQueued", "extWire"}
    /\ previous \in Reported \cup {None} /\ sample \in Reported \cup {None}
    /\ refresh \in {"extQueued", "extWire"} => sample # None
    /\ write \in [Callers -> {"idle", "queued", "sent", "lost"}]
    /\ target \in [Callers -> Commands]
    /\ lockQ \in Seq(Users)

PumpTypes ==
    /\ pump \in Reported /\ remoteLeft \in Nat
    /\ overtaken \in {"no", "beforeSample", "afterSample"}
    /\ staled \in BOOLEAN /\ drift \in BOOLEAN /\ handover \in BOOLEAN

TypeOK == CoordinatorTypes /\ TaskTypes /\ PumpTypes

\* Once a state is known, the pump is offline only after FailureThreshold
\* failed reads in a row, and available as long as there were fewer, whatever
\* commands and settings do in between.
AvailabilityDebounced ==
    data # None => (online = "offline" <=> failures >= FailureThreshold)

\* While the pump is available, the runtime counter runs exactly when the
\* published state is ON, through optimistic updates and short failures.
TrackerFollowsData ==
    data # None /\ online # "offline" => (running <=> On(data))

\* Between refreshes the next poll of an available pump is scheduled no later
\* than the end of the quiet window or one normal interval, whatever settings
\* were changed in a window or outside one.
PollIsScheduled ==
    refresh = "idle" /\ online = "online" => timer <= Larger(NormalInterval, quietLeft)

\* The unconfirmed command is what is published and what the pump does, unless
\* the pump changed by itself, a write was lost or failed, or a Modbus status
\* older than the command was published over it.
OptimisticStateIsTrue ==
    /\ pending # None /\ ~drift /\ (\A c \in Callers : write[c] # "sent")
    => pump = pending /\ (data = pending \/ (Modbus /\ staled))

\* A change is reported as external only if something other than Home
\* Assistant may have changed the pump since the last command.
ExternalMeansExternal == source = "external" => drift

\* While a quiet window stands, the pump's remote override ends no later than
\* the window, so the panel really has control when it is shown as available.
HandoverStands == handover => assist /\ remoteLeft <= quietLeft

ReadOnWire == refresh \in {"wire", "extWire"}

\* A read is on the bus inside a quiet window only for a refresh that was
\* already waiting when the command completed.
OnlyOvertakenReadsEscape ==
    ReadOnWire /\ assist /\ quietLeft > 0 => overtaken # "no"

\* No status request is on the bus inside a quiet window: "No C3/Modbus status
\* request may escape during this period" (_async_update_data).
NoReadInQuietWindow == ~(ReadOnWire /\ assist /\ quietLeft > 0)

(***************************************************************************)
(* What makes these properties inductive.                                  *)
(***************************************************************************)
\* Whoever is on the wire holds the client's lock.
LockDiscipline ==
    /\ ReadOnWire => HoldsLock(Refresh)
    /\ \A c \in Callers : write[c] \in {"sent", "lost"} => HoldsLock(c)

InFlight ==
    {u \in Users : IF u = Refresh THEN refresh # "idle" ELSE write[u] # "idle"}

\* The client's lock has no user that is not in flight, and none twice: whoever
\* ends, fails or is cancelled leaves the queue, and takes nobody else with it.
LockUsers == IsInjective(lockQ) /\ ToSet(lockQ) = InFlight

\* A window exists only with the feature on and a state to show, and a refresh
\* inside it was overtaken by the command that opened it.
WindowFacts ==
    /\ quietLeft > 0 => assist /\ data # None
    /\ refresh # "idle" /\ quietLeft > 0 => overtaken # "no"
    /\ refresh = "idle" => overtaken = "no"
    /\ \A c \in Callers : write[c] # "idle" => data # None
    /\ online = "online" => data # None

\* The pump's override started no later than the window, and no read that
\* could have prolonged it is on the wire.
HandoverFacts ==
    /\ remoteLeft <= Override
    /\ ReadOnWire /\ handover => overtaken = "no"
    /\ handover => idle >= Override
    /\ handover => remoteLeft = 0 \/ remoteLeft + cmdAge <= Override

NoneExecuting == \A c \in Callers : write[c] # "sent"

\* While nothing else can have moved the pump, what is remembered of it is what
\* it does: the command on the wire, a status read before the extended
\* registers and, with no command to confirm, the published states.
OriginFacts ==
    /\ \A c \in Callers : write[c] = "sent" => pump = target[c]
    /\ refresh \in {"extQueued", "extWire"} => Modbus
    /\ ~drift /\ NoneExecuting =>
          /\ refresh \in {"extQueued", "extWire"} /\ overtaken # "afterSample" => sample = pump
          /\ ~Modbus /\ pending = None =>
                /\ data \in {None, pump}
                /\ refresh # "idle" => previous \in {None, pump}

OriginInv == OriginFacts /\ OptimisticStateIsTrue /\ (Modbus \/ ExternalMeansExternal)

IInv ==
    /\ TypeOK /\ LockDiscipline /\ LockUsers /\ WindowFacts /\ HandoverFacts
    /\ AvailabilityDebounced /\ TrackerFollowsData /\ PollIsScheduled
    /\ HandoverStands /\ OnlyOvertakenReadsEscape
    /\ OriginInv

Disturbance ==
    \/ RefreshFails \/ SettingStep
    \/ \E c \in Callers : \E s \in Commands : StartCommand(c, s)
    \/ \E s \in PumpStates : PumpChanges(s)

\* When users, failures and the panel leave the system alone, the published
\* state becomes that of the pump and stays so, and the pump is available.
Converges == <>[][~Disturbance]_vars => <>[](data = pump /\ online = "online")
=============================================================================
