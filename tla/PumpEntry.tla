----------------------------- MODULE PumpEntry -----------------------------
(***************************************************************************)
(* One config entry over its setups, as its user sees it: the options, the *)
(* fan and the speed number with the limits they were created with, the    *)
(* panel-available sensor, and the pump with its remote override.          *)
(*                                                                         *)
(* A refresh looks for the quiet window, waits for the client and reads;   *)
(* commands come in between.  Writing, publishing and opening the window   *)
(* are one step, as nothing else runs between the end of a write and that. *)
(* Coordinator has the queue of the client and the counting of failures.   *)
(* Here a quiet window is at least as long as the override, as by default. *)
(* A control state is 0 for OFF, otherwise the speed.                      *)
(***************************************************************************)
EXTENDS Speeds

CONSTANTS
    Forms,         \* the settings a user submits, valid or not
    Percentages,   \* fan percentages a user sets
    NumberValues,  \* values of the speed number a user sets
    PanelStates,   \* [protocol -> states the pump's own panel brings about]
    None

Protocols == {"isaver", "modbus"}

Settings == [interval : {"short", "long"}, min : Nat, max : Nat,
             night : Nat, eco : Nat, day : Nat, full : Nat]

ASSUME PumpEntryAssumption ==
    /\ Percentages \subseteq 0..100 /\ NumberValues \subseteq Nat
    /\ PanelStates \in [Protocols -> SUBSET Nat]
    /\ Forms \subseteq Settings
    /\ None \notin Nat \cup Protocols

VARIABLES
    kind,     \* the pump's protocol
    pump,     \* its control state
    remote,   \* its remote override is active
    \* the config entry
    stored,   \* the protocol in its data, or None
    options,
    assist,   \* local_control_assist, restored by its switch in each setup
    phase,    \* "off", "setup" (its first refresh), "loaded"
    reload,   \* a reload was asked for and has not begun
    \* client, coordinator and entities of this setup
    protocol, \* client.protocol
    interval, \* the polling interval: shorter than the override or not
    data,     \* coordinator.data, or None
    last,     \* last_running_speed
    quiet,    \* within the quiet window
    poll,     \* the refresh: "idle", "waiting" for the client, "sampled" the status
    sample,   \* the control state of that status, or None
    built,    \* the protocol the entities were created for
    limits,   \* the speed number's native limits
    \* history
    cut,      \* why an active override has no window of its own, or "no"
    overtaken, \* a command was given since the refresh in flight began
    missed,   \* the options changed before this setup listened to changes
    refused   \* write_speed raised ValueError in this setup

pumpVars  == <<kind, pump, remote>>
entryVars == <<stored, options, assist, phase, reload>>
setupVars == <<protocol, interval, data, last, built, limits>>
pollVars  == <<poll, sample, overtaken>>
history   == <<cut, missed, refused>>
vars      == <<pumpVars, entryVars, setupVars, quiet, pollVars, history>>

DefaultOptions == [interval |-> "short", min |-> 1200, max |-> 2900,
                   night |-> 1200, eco |-> 2000, day |-> 2400, full |-> 2900]

\* _minimum_speed and _maximum_speed of the fan, which are read at each use.
Operating ==
    IF protocol = "modbus" THEN Physical("modbus")
    ELSE [min |-> options.min, max |-> options.max]

\* An entry whose protocol may have been stored by an earlier version or not.
Init ==
    /\ kind \in Protocols /\ pump \in PanelStates[kind] /\ remote = FALSE
    /\ stored \in {None, kind} /\ options = DefaultOptions /\ assist = TRUE
    /\ phase = "off" /\ reload = FALSE
    /\ protocol = None /\ interval = "short" /\ data = None /\ last = 1200
    /\ quiet = FALSE /\ built = None /\ limits = Physical(None)
    /\ poll = "idle" /\ sample = None /\ overtaken = FALSE
    /\ cut = "no" /\ missed = FALSE /\ refused = FALSE

-----------------------------------------------------------------------------
(***************************************************************************)
(* Setups.                                                                 *)
(***************************************************************************)
\* _build_client and the coordinator's constructor.
Build ==
    /\ phase = "off"
    /\ phase' = "setup"
    /\ protocol' = stored
    /\ interval' = options.interval
    /\ last' = ProfileOf(stored).min
    /\ data' = None /\ quiet' = FALSE /\ built' = None /\ limits' = Physical(None)
    /\ missed' = FALSE /\ refused' = FALSE
    /\ UNCHANGED <<pumpVars, stored, options, assist, reload, pollVars, cut>>

\* A status is read: the protocol is known from now on, last_running_speed is
\* brought into its limits and follows a speed that is not a ramp below them.
Read(s) ==
    LET own == Physical(kind) IN
    /\ data' = s
    /\ protocol' = kind
    /\ last' = IF s >= own.min THEN s
               ELSE IF own.min <= last /\ last <= own.max THEN last ELSE own.min

\* The limits AquagemSpeedNumber.__init__ takes over.
NumberLimits(p) ==
    IF p = "modbus" THEN Physical("modbus") ELSE [min |-> options.min, max |-> options.max]

\* The first refresh ends, heard or not; then the entities are created.
FinishSetup(heard) ==
    /\ phase = "setup"
    /\ phase' = "loaded"
    /\ IF heard THEN Read(pump) /\ stored' = kind
       ELSE UNCHANGED <<data, protocol, last, stored>>
    /\ built' = protocol'
    /\ limits' = NumberLimits(built')
    /\ UNCHANGED <<pumpVars, options, assist, reload, interval, quiet, pollVars, history>>

\* What keeps a window from outlasting the override is remembered with it.
CutBy(why) == cut' = IF remote /\ cut = "no" THEN why ELSE cut

PollOver == poll' = "idle" /\ sample' = None /\ overtaken' = FALSE

\* What ends a setup takes window and refresh with it, not the pump's override.
EndsSetup ==
    /\ phase' = "off" /\ reload' = FALSE
    /\ quiet' = FALSE
    /\ PollOver
    /\ CutBy("reload")
    /\ UNCHANGED <<pumpVars, stored, options, assist, setupVars, missed, refused>>

Reload == phase = "loaded" /\ reload /\ EndsSetup

UserReload ==
    /\ phase # "off" /\ reload' = TRUE
    /\ UNCHANGED <<pumpVars, stored, options, assist, phase, setupVars, quiet, pollVars, history>>

\* Home Assistant ends at any moment and starts again.
Restart == phase # "off" /\ EndsSetup

\* The fault map of a Modbus pump becomes known after its setup (FaultMap).
FaultMapKnown ==
    /\ phase = "loaded" /\ protocol = "modbus" /\ data # None
    /\ reload' = TRUE
    /\ UNCHANGED <<pumpVars, stored, options, assist, phase, setupVars, quiet, pollVars, history>>

-----------------------------------------------------------------------------
(***************************************************************************)
(* The settings form.  A Modbus entry stores its interval alone.           *)
(***************************************************************************)
Submitted(form) ==
    IF stored = "modbus" THEN [DefaultOptions EXCEPT !.interval = form.interval] ELSE form

\* Mutant: the form is stored unchecked.
AnyForm(form) == TRUE

Accepted(form) == stored = "modbus" \/ ValidForm(form)

\* Mutant: nobody listens to changes of the options.
NoListener == UNCHANGED <<reload, missed>>

\* The entry listens to changes once its first refresh is over, and reloads.
OptionsChanged ==
    /\ reload' = (reload \/ phase = "loaded")
    /\ missed' = (missed \/ phase = "setup")

SubmitOptions(form) ==
    /\ Accepted(form)
    /\ options' = Submitted(form)
    /\ options' # options
    /\ OptionsChanged
    /\ UNCHANGED <<pumpVars, stored, assist, phase, setupVars, quiet, pollVars, cut, refused>>

-----------------------------------------------------------------------------
(***************************************************************************)
(* Commands, on an entry that is loaded and available.                     *)
(***************************************************************************)
Available == phase = "loaded" /\ data # None

StateOf(value) == IF value = ProfileOf(protocol).off THEN 0 ELSE value

\* async_set_speed: the command is written and the new state published, with a
\* quiet window if the assist is on.  The pump executes it, but for an iSaver a
\* command that was lost on its way is no failure.
Command(value) ==
    LET s == StateOf(value) IN
    /\ Available /\ Writable(protocol, value)
    /\ \/ pump' = s /\ remote' = TRUE
       \/ protocol = "isaver" /\ UNCHANGED <<pump, remote>>
    /\ data' = s /\ last' = IF s # 0 THEN s ELSE last
    /\ quiet' = assist
    /\ overtaken' = (poll # "idle")
    /\ cut' = IF remote' /\ ~assist THEN "user" ELSE "no"
    /\ UNCHANGED <<kind, entryVars, protocol, interval, built, limits, poll, sample,
                   missed, refused>>

\* The pump executes the command, but the transaction fails after that, as when an
\* acknowledgement is lost: write_speed raises, and nothing is published.
CommandFails(value) ==
    /\ Available /\ Writable(protocol, value)
    /\ pump' = StateOf(value) /\ remote' = TRUE
    /\ cut' = "lost"
    /\ UNCHANGED <<kind, entryVars, setupVars, quiet, pollVars, missed, refused>>

\* write_speed raises ValueError before anything is sent.
Refuse(value) ==
    /\ Available /\ ~Writable(protocol, value)
    /\ refused' = TRUE
    /\ UNCHANGED <<pumpVars, entryVars, setupVars, quiet, pollVars, cut, missed>>

SetSpeed(value) == Command(value) \/ CommandFails(value) \/ Refuse(value)

SetPercentage(p) == SetSpeed(SliderSpeed(protocol, Operating, p))

SetPreset == protocol # "modbus" /\ \E s \in Profiles(options) : SetSpeed(s)

TurnOn == SetSpeed(Normalize(protocol, Operating, 100 * last))

TurnOff == SetSpeed(ProfileOf(protocol).off)

FanStep ==
    \/ \E p \in Percentages : SetPercentage(p)
    \/ SetPreset \/ TurnOn \/ TurnOff

\* The number rounds with the client's grid of now and its limits of then.
NumberSpeed(v) == Clamp(OnGrid(protocol, 100 * v), limits)

\* Home Assistant refuses values outside a number's limits.
SetNumber(v) ==
    /\ limits.min <= v /\ v <= limits.max
    /\ SetSpeed(NumberSpeed(v))

SetAssist(b) ==
    /\ phase = "loaded" /\ b # assist
    /\ assist' = b
    /\ quiet' = (quiet /\ b)
    /\ IF quiet /\ ~b THEN CutBy("user") ELSE UNCHANGED cut
    /\ UNCHANGED <<pumpVars, stored, options, phase, reload, setupVars, pollVars,
                   missed, refused>>

-----------------------------------------------------------------------------
(***************************************************************************)
(* Polling, time and the pump.                                             *)
(***************************************************************************)
\* Mutant: a refresh does not look for the window.
AlwaysPolling == phase = "loaded"

MayPoll == phase = "loaded" /\ ~quiet

\* _async_update_data finds no window, and waits for the client.
PollStarts ==
    /\ MayPoll /\ poll = "idle"
    /\ poll' = "waiting"
    /\ UNCHANGED <<pumpVars, entryVars, setupVars, quiet, sample, overtaken, history>>

\* A read renews the override: a window that was opened while the refresh waited
\* may now end before it.
ReadsInWindow == IF quiet /\ overtaken THEN CutBy("overtaken") ELSE UNCHANGED cut

\* The status of a Modbus pump is read, its extended registers are not yet; in
\* between other callers have the client.
PollSamples ==
    /\ poll = "waiting" /\ kind = "modbus"
    /\ poll' = "sampled" /\ sample' = pump
    /\ ReadsInWindow
    /\ UNCHANGED <<pumpVars, entryVars, setupVars, quiet, overtaken, missed, refused>>

\* The refresh succeeds, and whatever window there is ends.
PollAccepts ==
    /\ \/ poll = "waiting" /\ Read(pump)
       \/ poll = "sampled" /\ Read(sample)
    /\ quiet' = FALSE
    /\ PollOver
    /\ ReadsInWindow
    /\ UNCHANGED <<pumpVars, entryVars, interval, built, limits, missed, refused>>

\* The refresh fails, whether or not its request was heard.
PollFails ==
    /\ poll # "idle"
    /\ PollOver
    /\ ReadsInWindow \/ UNCHANGED cut
    /\ UNCHANGED <<pumpVars, entryVars, setupVars, quiet, missed, refused>>

\* The window is over; it is at least as long as the override, unless the
\* override has begun without it or was renewed in it.
WindowEnds ==
    /\ quiet /\ (~remote \/ cut # "no")
    /\ quiet' = FALSE
    /\ UNCHANGED <<pumpVars, entryVars, setupVars, pollVars, history>>

\* The override ends after a silence.
RemoteEnds ==
    /\ remote
    /\ remote' = FALSE /\ cut' = "no"
    /\ UNCHANGED <<kind, pump, entryVars, setupVars, quiet, pollVars, missed, refused>>

\* Nothing polls the pump more often than its override lasts.
Silent == quiet \/ phase # "loaded" \/ interval = "long"

\* The panel has control while no override is active.
PanelSets(s) ==
    /\ ~remote /\ s # pump
    /\ pump' = s
    /\ UNCHANGED <<kind, remote, entryVars, setupVars, quiet, pollVars, history>>

UserStep ==
    \/ UserReload
    \/ \E f \in Forms : SubmitOptions(f)
    \/ FanStep
    \/ \E v \in NumberValues : SetNumber(v)
    \/ \E b \in BOOLEAN : SetAssist(b)

Disturbance == UserStep \/ Restart \/ FaultMapKnown

\* What goes on when the entry is left alone.
OwnStep ==
    \/ Build \/ Reload
    \/ \E heard \in BOOLEAN : FinishSetup(heard)
    \/ PollStarts \/ PollSamples \/ PollAccepts \/ PollFails
    \/ WindowEnds \/ RemoteEnds
    \/ \E s \in PanelStates[kind] : PanelSets(s)

Next == Disturbance \/ OwnStep

Spec == Init /\ [][Next]_vars

(***************************************************************************)
(* Fairness: Home Assistant carries setups and reloads through (a first    *)
(* refresh ends by its timeouts), windows end, and the pump's override does*)
(* in a silence.  Nothing is assumed of users, of the panel or of polls.   *)
(***************************************************************************)
Fairness ==
    /\ WF_vars(Build) /\ WF_vars(\E heard \in BOOLEAN : FinishSetup(heard))
    /\ WF_vars(Reload) /\ WF_vars(Silent /\ RemoteEnds) /\ WF_vars(WindowEnds)

FairSpec == Spec /\ Fairness

-----------------------------------------------------------------------------
Speed == Nat

TypeOK ==
    /\ kind \in Protocols /\ pump \in Speed /\ remote \in BOOLEAN
    /\ stored \in {None, kind} /\ protocol \in {None, kind} /\ built \in {None, kind}
    /\ options \in Settings
    /\ assist \in BOOLEAN /\ reload \in BOOLEAN /\ phase \in {"off", "setup", "loaded"}
    /\ interval \in {"short", "long"} /\ data \in Speed \cup {None} /\ last \in Speed
    /\ quiet \in BOOLEAN /\ limits \in [min : Speed, max : Speed]
    /\ poll \in {"idle", "waiting", "sampled"} /\ sample \in Speed \cup {None}
    /\ cut \in {"no", "user", "reload", "overtaken", "lost"} /\ overtaken \in BOOLEAN
    /\ missed \in BOOLEAN /\ refused \in BOOLEAN

\* Whoever set the options last, in whatever order with setups and reloads,
\* the loaded entry polls and limits its number by them, or a reload is on its
\* way; the interval alone escapes if they changed before the entry listened.
OptionsInForce ==
    phase = "loaded" /\ ~reload =>
        /\ interval = options.interval \/ missed
        /\ built # "modbus" => limits.min = options.min /\ limits.max = options.max

\* A command is refused only to the number of a Modbus pump that had not
\* answered when its entities were created: it has the limits of an iSaver.
RefusedOnlyUnknown == refused => kind = "modbus" /\ built = None

\* The speed a turn-on resumes is one the pump can run at.
ResumesPossibleSpeed ==
    data # None => Physical(kind).min <= last

\* The number's limits are those of a protocol or ones the form let pass.
ValidLimits ==
    IF built = "modbus" THEN limits = Physical("modbus")
    ELSE /\ \A v \in {limits.min, limits.max} :
               v = Clamp(v, Physical("isaver")) /\ v % ProfileOf("isaver").step = 0
         /\ limits.min < limits.max

\* What the entities rest on: a known protocol is the pump's, states are shown
\* only with it, options in force passed the form, also those the number has its
\* limits from, and a setup knows if its interval is out of date.
EntryFacts ==
    /\ data # None => protocol = kind
    /\ phase = "loaded" /\ built # None => protocol = kind
    /\ stored # "modbus" => ValidForm(options)
    /\ phase = "loaded" => ValidLimits
    /\ phase = "setup" =>
           protocol = stored /\ ~refused /\ (interval = options.interval \/ missed)

\* A window is of a loaded entry with the assist on, an override outside a window
\* is one that cut accounts for, and a refresh within a window was overtaken by
\* the command that opened it.
WindowFacts ==
    /\ quiet => phase = "loaded" /\ assist
    /\ remote => quiet \/ cut # "no"
    /\ poll = "idle" => sample = None /\ ~overtaken
    /\ poll # "idle" => phase = "loaded" /\ (quiet => overtaken)
    /\ poll = "sampled" <=> sample # None

IInv ==
    /\ TypeOK /\ OptionsInForce /\ RefusedOnlyUnknown /\ ResumesPossibleSpeed
    /\ EntryFacts /\ WindowFacts

\* Every command that reaches the pump is OFF or a speed on the protocol's
\* grid within the limits in force when it is given; the number alone may
\* exceed these, while a change of the options waits for its reload.
CommandsInLimits ==
    [][pump' # pump /\ remote' =>
          \/ pump' = 0
          \/ /\ pump' % ProfileOf(kind).step = 0
             /\ \/ pump' = Clamp(pump', Operating)
                \/ reload /\ pump' = Clamp(pump', limits)]_vars

\* For every speed the operating range allows, giving the percentage that is
\* shown for it commands that speed again; but the lowest speed of an iSaver
\* shows as 0 %, and 0 % is OFF.
SliderRepeats ==
    data # None =>
        \A s \in Operating.min..Operating.max :
            s % ProfileOf(protocol).step = 0 =>
                LET p == ShownPercentage(protocol, Operating, s) IN
                /\ SliderSpeed(protocol, Operating, p) =
                      IF p = 0 THEN ProfileOf(protocol).off ELSE s
                /\ p = 0 <=> protocol = "isaver" /\ s = Operating.min

PanelShown == phase = "loaded" /\ assist /\ ~quiet

\* The panel is shown as available during a remote override only if
\*   - a reload or a restart forgot the window, or the user gave the command
\*     without one or ended it with the assist ("reload", "user"),
\*   - a refresh that had begun before the command read or ended the window it
\*     did not look for ("overtaken"),
\*   - or the command failed although the pump executed it ("lost").
\* Polls, panel, commands that are lost and other orders of refreshes do not do it.
PanelShownTruly == PanelShown /\ remote => cut # "no"

\* Once the user and restarts leave the entry alone, it comes to be loaded with
\* the options in force, and the panel gets control back; but an override that
\* was cut off from its window may last as long as short polls renew it.
EntrySettles ==
    <>[][OwnStep]_vars =>
        <>[](/\ phase = "loaded" /\ ~reload /\ OptionsInForce
             /\ ~remote \/ (cut # "no" /\ ~Silent))
=============================================================================
