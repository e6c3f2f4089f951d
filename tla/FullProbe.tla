----------------------------- MODULE FullProbe -----------------------------
(***************************************************************************)
(* tools/dm15_full_probe.py: the interactive validation of a DM15 pump.    *)
(* It reads the registers, has the operator set speeds by hand, and only   *)
(* then, if the operator unlocks it, commands speeds and OFF.              *)
(*                                                                         *)
(* The program counter names what the tool does next.  Each transaction is *)
(* a TCP connection of its own, whose reply is valid or ends the run; the  *)
(* pump executes a write whether or not its acknowledgement arrives.       *)
(***************************************************************************)
EXTENDS Naturals, Sequences, SequencesExt

CONSTANTS
    Speeds,     \* MANUAL_TEST_SPEEDS and WRITE_TEST_SPEEDS, which are equal
    Registers   \* the registers read one by one, the fault register first

ASSUME FullProbeAssumption ==
    /\ Speeds \in Seq(Nat \ {0}) /\ Speeds # <<>>
    /\ Registers \in Nat \ {0}

VARIABLES
    pc,        \* what the tool does next
    at,        \* the register or speed its loop has reached
    readOnly,  \* --read-only
    faulty,    \* register 2001 read alone was not zero
    exit,      \* the exit status: "running", "passed" (0), "failed" (2),
               \* "aborted" (130), "traceback" (1)
    pump,      \* the pump: [on, capacity, fault]
    \* history
    shown,     \* speeds the pump was seen to run at by hand, without a fault
    unlocked,  \* the phrases typed: "writes", "stop"
    frames,    \* the write frames sent, in order
    proved,    \* commanded speeds acknowledged, read back and confirmed
    lastFault, \* the last status or fault register read showed a fault
    stopped    \* the OFF command was acknowledged and read back

tool    == <<pc, at, readOnly, faulty, exit>>
history == <<shown, unlocked, frames, proved, lastFault, stopped>>
vars    == <<tool, pump, history>>

SpeedSet == ToSet(Speeds)
Pumps == [on : BOOLEAN, capacity : SpeedSet \cup {0}, fault : BOOLEAN]
Verdicts == {"running", "passed", "failed", "aborted", "traceback"}

Init ==
    /\ pc = "block" /\ at = 1 /\ readOnly \in BOOLEAN /\ faulty = FALSE
    /\ exit = "running"
    /\ pump \in Pumps
    /\ shown = {} /\ unlocked = {} /\ frames = <<>> /\ proved = {}
    /\ lastFault = FALSE /\ stopped = FALSE

-----------------------------------------------------------------------------
Goto(step, index) == pc' = step /\ at' = index /\ UNCHANGED exit

End(verdict) == pc' = "done" /\ exit' = verdict /\ UNCHANGED at

\* Where a loop goes on: to its next element, or past its last one.
Loop(length, again, after) ==
    IF at < length THEN Goto(again, at + 1) ELSE Goto(after, 1)

Asking == pc \in {"askManual", "phrase", "ready", "confirm", "askOff", "stopPhrase"}
OnWire == pc \in {"block", "register", "readManual", "before", "write", "written", "after",
                  "stopWrite", "stopWritten", "stopAfter"}

\* ProbeError: the connection fails, no reply, a bad CRC, an exception reply or
\* the wrong registers.
TransactionFails ==
    /\ OnWire
    /\ End("failed")
    /\ UNCHANGED <<readOnly, faulty, pump, history>>

\* Ctrl-C at any moment, or q at a prompt that offers it.
OperatorAborts ==
    /\ pc # "done"
    /\ End("aborted")
    /\ UNCHANGED <<readOnly, faulty, pump, history>>

\* The input of a prompt ends: EOFError is not caught.
InputEnds ==
    /\ Asking
    /\ End("traceback")
    /\ UNCHANGED <<readOnly, faulty, pump, history>>

-----------------------------------------------------------------------------
(***************************************************************************)
(* Phases 1 and 2, which only read.                                        *)
(***************************************************************************)
\* The block of 2001..2004; its fault bits are printed, not checked.
ReadBlock ==
    /\ pc = "block"
    /\ Goto("register", 1)
    /\ lastFault' = pump.fault
    /\ UNCHANGED <<readOnly, faulty, pump, shown, unlocked, frames, proved, stopped>>

\* Each register alone, then a look at the fault register's value.
ReadRegister ==
    /\ pc = "register"
    /\ faulty' = IF at = 1 THEN pump.fault ELSE faulty
    /\ lastFault' = faulty'
    /\ IF at = Registers /\ faulty' THEN End("failed")
       ELSE Loop(Registers, "register", "askManual")
    /\ UNCHANGED <<readOnly, pump, shown, unlocked, frames, proved, stopped>>

ManualReady ==
    /\ pc = "askManual"
    /\ Goto("readManual", at)
    /\ UNCHANGED <<readOnly, faulty, pump, history>>

\* A status read shows the pump on, at the speed and without a fault.
RunsAt(s) == ~pump.fault /\ pump.on /\ pump.capacity = s

ReadManual ==
    LET s == Speeds[at] IN
    /\ pc = "readManual"
    /\ lastFault' = pump.fault
    /\ IF ~RunsAt(s) THEN End("failed") /\ UNCHANGED shown
       ELSE /\ shown' = shown \cup {s}
            /\ Loop(Len(Speeds), "askManual", "manualDone")
    /\ UNCHANGED <<readOnly, faulty, pump, unlocked, frames, proved, stopped>>

\* With --read-only the run is over.
ManualDone ==
    /\ pc = "manualDone"
    /\ IF readOnly THEN End("passed") ELSE Goto("phrase", 1)
    /\ UNCHANGED <<readOnly, faulty, pump, history>>

-----------------------------------------------------------------------------
(***************************************************************************)
(* Phases 3 and 4, which write.                                            *)
(***************************************************************************)
Unlock(typed) ==
    /\ pc = "phrase"
    /\ IF typed THEN Goto("ready", 1) /\ unlocked' = unlocked \cup {"writes"}
       ELSE End("passed") /\ UNCHANGED unlocked
    /\ UNCHANGED <<readOnly, faulty, pump, shown, frames, proved, lastFault, stopped>>

CommandReady ==
    /\ pc = "ready"
    /\ Goto("before", at)
    /\ UNCHANGED <<readOnly, faulty, pump, history>>

\* Mutant: the status before a command is printed, not checked.
NeverFaulty == FALSE

FaultBefore == pump.fault

ReadBefore ==
    /\ pc = "before"
    /\ lastFault' = pump.fault
    /\ IF FaultBefore THEN End("failed") ELSE Goto("write", at)
    /\ UNCHANGED <<readOnly, faulty, pump, shown, unlocked, frames, proved, stopped>>

\* The write frame goes out; the pump executes it or not.
SendWrite(value, next, executed) ==
    /\ Goto(next, at)
    /\ frames' = Append(frames, value)
    /\ pump' = IF executed THEN [pump EXCEPT !.on = value # 0, !.capacity = value] ELSE pump
    /\ UNCHANGED <<readOnly, faulty, shown, unlocked, proved, lastFault, stopped>>

WriteSpeed(executed) == pc = "write" /\ SendWrite(Speeds[at], "written", executed)

\* The acknowledgement and the time to settle.
Acknowledged ==
    /\ pc \in {"written", "stopWritten"}
    /\ Goto(IF pc = "written" THEN "after" ELSE "stopAfter", at)
    /\ UNCHANGED <<readOnly, faulty, pump, history>>

ReadAfter ==
    /\ pc = "after"
    /\ lastFault' = pump.fault
    /\ IF RunsAt(Speeds[at]) THEN Goto("confirm", at) ELSE End("failed")
    /\ UNCHANGED <<readOnly, faulty, pump, shown, unlocked, frames, proved, stopped>>

\* The operator says whether the pump behaves normally.
Confirm(yes) ==
    /\ pc = "confirm"
    /\ IF yes THEN Loop(Len(Speeds), "ready", "askOff") ELSE End("failed")
    /\ proved' = IF yes THEN proved \cup {Speeds[at]} ELSE proved
    /\ UNCHANGED <<readOnly, faulty, pump, shown, unlocked, frames, lastFault, stopped>>

\* The OFF test is asked for, then unlocked by a phrase of its own; without
\* either the run ends as a success.
AskOff(yes) ==
    /\ pc = "askOff"
    /\ IF yes THEN Goto("stopPhrase", 1) ELSE End("passed")
    /\ UNCHANGED <<readOnly, faulty, pump, history>>

UnlockStop(typed) ==
    /\ pc = "stopPhrase"
    /\ IF typed THEN Goto("stopWrite", 1) /\ unlocked' = unlocked \cup {"stop"}
       ELSE End("passed") /\ UNCHANGED unlocked
    /\ UNCHANGED <<readOnly, faulty, pump, shown, frames, proved, lastFault, stopped>>

WriteStop(executed) == pc = "stopWrite" /\ SendWrite(0, "stopWritten", executed)

\* Mutant: OFF with the old capacity passes.
OffByState == ~pump.fault /\ ~pump.on

CleanOff == ~pump.fault /\ ~pump.on /\ pump.capacity = 0

ReadStopped ==
    /\ pc = "stopAfter"
    /\ lastFault' = pump.fault
    /\ IF CleanOff THEN End("passed") ELSE End("failed")
    /\ stopped' = (~pump.on /\ pump.capacity = 0)
    /\ UNCHANGED <<readOnly, faulty, pump, shown, unlocked, frames, proved>>

\* The operator's hand on the controller, a fault, the ramp of the pump.
PumpChanges(p) ==
    /\ p # pump
    /\ pump' = p
    /\ UNCHANGED <<tool, history>>

Next ==
    \/ TransactionFails \/ OperatorAborts \/ InputEnds
    \/ ReadBlock \/ ReadRegister \/ ManualReady \/ ReadManual \/ ManualDone
    \/ CommandReady \/ ReadBefore \/ Acknowledged \/ ReadAfter \/ ReadStopped
    \/ \E b \in BOOLEAN :
          \/ Unlock(b) \/ WriteSpeed(b) \/ Confirm(b)
          \/ AskOff(b) \/ UnlockStop(b) \/ WriteStop(b)
    \/ \E p \in Pumps : PumpChanges(p)

Spec == Init /\ [][Next]_vars

-----------------------------------------------------------------------------
Steps == {"block", "register", "askManual", "readManual", "manualDone", "phrase", "ready",
          "before", "write", "written", "after", "confirm", "askOff", "stopPhrase", "stopWrite",
          "stopWritten", "stopAfter", "done"}

TypeOK ==
    /\ pc \in Steps /\ at \in 1..Len(Speeds) \cup 1..Registers
    /\ readOnly \in BOOLEAN /\ faulty \in BOOLEAN /\ exit \in Verdicts
    /\ pump \in Pumps
    /\ shown \subseteq SpeedSet /\ unlocked \subseteq {"writes", "stop"}
    /\ frames \in Seq(SpeedSet \cup {0}) /\ proved \subseteq SpeedSet
    /\ lastFault \in BOOLEAN /\ stopped \in BOOLEAN

\* The tool says that all tests passed only if the pump was seen to run at every
\* speed by hand and, of what was commanded, everything was acknowledged, read
\* back and confirmed: no speed or all of them, then OFF, which the pump was seen
\* to obey without a fault.
VerdictIsEarned ==
    exit = "passed" =>
        /\ shown = SpeedSet
        /\ frames = <<>> \/ SpeedSet \subseteq ToSet(frames)
        /\ ToSet(frames) = proved \cup (IF stopped THEN {0} ELSE {})
        /\ frames # <<>> => ~lastFault

(***************************************************************************)
(* Which frames are out, which speeds are shown and proved and what is     *)
(* unlocked, at each point of the program.                                 *)
(***************************************************************************)
\* The speeds before the n-th and it.
Through(n) == SubSeq(Speeds, 1, n)

Writing == pc \in {"ready", "before", "write", "written", "after", "confirm", "askOff",
                   "stopPhrase", "stopWrite", "stopWritten", "stopAfter"}

FramesSent ==
    /\ ~Writing /\ pc # "done" => frames = <<>>
    /\ pc \in {"ready", "before", "write"} => frames = Through(at - 1)
    /\ pc \in {"written", "after", "confirm"} => frames = Through(at)
    /\ pc \in {"askOff", "stopPhrase", "stopWrite"} => frames = Speeds
    /\ pc \in {"stopWritten", "stopAfter"} => frames = Append(Speeds, 0)

SpeedsShown ==
    /\ pc \in {"block", "register"} => shown = {}
    /\ pc \in {"askManual", "readManual"} => shown = ToSet(Through(at - 1))
    /\ Writing \/ pc \in {"manualDone", "phrase"} => shown = SpeedSet

SpeedsProved ==
    /\ pc \in {"ready", "before", "write"} => proved = ToSet(frames)
    /\ pc \in {"written", "after", "confirm"} => proved = ToSet(Through(at - 1))
    /\ pc \in {"askOff", "stopPhrase", "stopWrite", "stopWritten", "stopAfter"} => proved = SpeedSet
    /\ ~Writing /\ pc # "done" => proved = {}

Permitted ==
    /\ Writing \/ pc = "phrase" => ~readOnly
    /\ Writing => "writes" \in unlocked
    /\ pc \in {"stopWrite", "stopWritten", "stopAfter"} => "stop" \in unlocked
    /\ pc \in {"write", "written", "confirm", "askOff", "stopPhrase", "stopWrite"} => ~lastFault
    /\ pc # "done" => ~stopped
    /\ pc = "done" <=> exit # "running"

Evidence == FramesSent /\ SpeedsShown /\ SpeedsProved /\ Permitted

\* Where the loops may stand.
AtInLoop ==
    /\ pc = "register" => at \in 1..Registers
    /\ pc \in {"askManual", "readManual", "ready", "before", "write", "written", "after",
               "confirm"} => at \in 1..Len(Speeds)

IInv == TypeOK /\ AtInLoop /\ Evidence /\ VerdictIsEarned

\* No write leaves the tool before every speed was shown by hand and the phrase
\* was typed, nor with --read-only, nor after a status that showed a fault; a
\* write goes out only when all before it were acknowledged, read back and
\* confirmed, the speeds in order and OFF last, unlocked by its own phrase.
WritesAreEarned ==
    [][frames' # frames =>
          /\ ~readOnly /\ "writes" \in unlocked
          /\ shown = SpeedSet
          /\ ~lastFault
          /\ proved = ToSet(frames)
          /\ \/ Len(frames) < Len(Speeds) /\ frames' = Append(frames, Speeds[Len(frames) + 1])
             \/ frames' = Append(Speeds, 0) /\ "stop" \in unlocked]_vars
=============================================================================
