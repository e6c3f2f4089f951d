------------------------------- MODULE Speeds -------------------------------
(***************************************************************************)
(* The speed arithmetic of const.py, protocol.py, fan.py, number.py and of *)
(* the options form in config_flow.py.  A speed is in rpm (iSaver) or in   *)
(* percent of capacity (Modbus); a range is a record [min, max].  Home     *)
(* Assistant's percentages come back as floats, which are kept in          *)
(* hundredths here, exact for every range.                                 *)
(***************************************************************************)
EXTENDS Integers

\* What a protocol allows; a client that has not detected one has the
\* iSaver's limits.
ProfileOf(protocol) ==
    IF protocol = "modbus" THEN [min |-> 30, max |-> 100, step |-> 5, off |-> 0]
    ELSE [min |-> 1200, max |-> 2900, step |-> 100, off |-> 1]

Physical(protocol) == [min |-> ProfileOf(protocol).min, max |-> ProfileOf(protocol).max]

\* min(high, max(low, v))
Clamp(v, range) ==
    IF range.max < range.min \/ v > range.max THEN range.max
    ELSE IF v < range.min THEN range.min ELSE v

\* Python's round(n / d): to the nearest, a tie to the even one.
RoundHalfEven(n, d) ==
    LET q == n \div d
        r == 2 * (n % d)
    IN IF r < d THEN q ELSE IF r > d THEN q + 1 ELSE q + (q % 2)

\* Onto the protocol's grid: a Modbus pump rounds down, the iSaver to the
\* nearest step.  The speed is given in hundredths.
OnGrid(protocol, hundredths) ==
    LET step == ProfileOf(protocol).step
    IN IF protocol = "modbus" THEN ((hundredths \div 100) \div step) * step
       ELSE RoundHalfEven(hundredths, 100 * step) * step

\* Mutant: the grid is applied last, unclamped.
NormalizeUnclamped(protocol, range, hundredths) == OnGrid(protocol, hundredths)

\* _normalize_speed
Normalize(protocol, range, hundredths) == Clamp(OnGrid(protocol, hundredths), range)

States(range) == range.max - range.min + 1

\* ranged_value_to_percentage
ToPercentage(range, v) == ((v - range.min + 1) * 100) \div States(range)

\* percentage_to_ranged_value, in hundredths
FromPercentage(range, p) == p * States(range) + 100 * (range.min - 1)

\* The percentage the fan shows for a control state, 0 for OFF.
ShownPercentage(protocol, range, s) ==
    IF s = 0 THEN 0
    ELSE IF protocol = "modbus" THEN Clamp(s, [min |-> 0, max |-> 100])
    ELSE ToPercentage(range, Clamp(s, range))

\* Mutant: the speed of a percentage is cut down to the grid.
SliderSpeedDown(protocol, range, p) ==
    IF p <= 0 THEN ProfileOf(protocol).off
    ELSE IF protocol = "modbus" THEN Normalize(protocol, range, 100 * p)
    ELSE Clamp((FromPercentage(range, p) \div 10000) * 100, range)

\* What async_set_percentage writes.
SliderSpeed(protocol, range, p) ==
    IF p <= 0 THEN ProfileOf(protocol).off
    ELSE Normalize(protocol, range,
                   IF protocol = "modbus" THEN 100 * p ELSE FromPercentage(range, p))

\* write_speed sends this; everything else raises ValueError.
Writable(protocol, speed) ==
    \/ speed = ProfileOf(protocol).off
    \/ Physical(protocol).min <= speed /\ speed <= Physical(protocol).max

\* What the settings form takes for an iSaver: every speed physical and on the
\* grid, the limits in order, the profiles within them.
Profiles(form) == {form.night, form.eco, form.day, form.full}

ValidForm(form) ==
    /\ \A v \in Profiles(form) \cup {form.min, form.max} :
          v = Clamp(v, Physical("isaver")) /\ v % ProfileOf("isaver").step = 0
    /\ form.min < form.max
    /\ \A v \in Profiles(form) : form.min <= v /\ v <= form.max
=============================================================================
