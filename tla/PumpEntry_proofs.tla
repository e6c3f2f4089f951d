-------------------------- MODULE PumpEntry_proofs --------------------------
(***************************************************************************)
(* Proofs about one entry and its commands, for any settings, percentages, *)
(* values and panel states: the inductive invariant, the limits of every   *)
(* command, the panel announced truly, and the round trip of a percentage  *)
(* for every range the settings form lets pass.                            *)
(***************************************************************************)
EXTENDS PumpEntry, TLAPS

(***************************************************************************)
(* The speed arithmetic.                                                   *)
(***************************************************************************)
\* A range within the protocol's physical one, with its ends on the grid.
GoodRange(p, range) ==
    /\ range.min \in Nat /\ range.max \in Nat /\ range.min < range.max
    /\ Physical(p).min <= range.min /\ range.max <= Physical(p).max
    /\ range.min % ProfileOf(p).step = 0 /\ range.max % ProfileOf(p).step = 0

\* A value that write_speed takes: OFF, or on the grid and within the range.
Fits(p, range, v) ==
    /\ v \in Nat /\ Writable(p, v)
    /\ \/ v = ProfileOf(p).off
       \/ v % ProfileOf(p).step = 0 /\ v = Clamp(v, range)

\* Rounding gives one of the two neighbours, the nearer one.
LEMMA RoundIsNear ==
  ASSUME NEW n \in Int, NEW d \in Nat \ {0}
  PROVE  /\ RoundHalfEven(n, d) \in {n \div d, (n \div d) + 1}
         /\ 2 * (n % d) < d => RoundHalfEven(n, d) = n \div d
         /\ 2 * (n % d) > d => RoundHalfEven(n, d) = (n \div d) + 1
<1> DEFINE q == n \div d
           r == 2 * (n % d)
<1>1. q \in Int /\ n % d \in Int /\ r \in Int
  OBVIOUS
<1>2. q % 2 \in {0, 1}
  BY <1>1
<1>3. RoundHalfEven(n, d) = IF r < d THEN q ELSE IF r > d THEN q + 1 ELSE q + (q % 2)
  BY DEF RoundHalfEven
<1> HIDE DEF q, r
<1>4. /\ RoundHalfEven(n, d) \in {q, q + 1}
      /\ r < d => RoundHalfEven(n, d) = q
      /\ r > d => RoundHalfEven(n, d) = q + 1
  BY <1>1, <1>2, <1>3
<1> QED
  BY <1>4 DEF q, r

\* What OnGrid returns is on the grid.
LEMMA OnGridIsOnGrid ==
  ASSUME NEW p \in Protocols, NEW h \in Int
  PROVE  OnGrid(p, h) \in Int /\ OnGrid(p, h) % ProfileOf(p).step = 0
<1>1. CASE p = "modbus"
  <2>1. OnGrid(p, h) = ((h \div 100) \div 5) * 5
    BY <1>1 DEF OnGrid, ProfileOf
  <2>2. (h \div 100) \div 5 \in Int
    OBVIOUS
  <2>3. \A k \in Int : (k * 5) % 5 = 0 /\ k * 5 \in Int
    OBVIOUS
  <2> QED
    BY <1>1, <2>1, <2>2, <2>3 DEF ProfileOf
<1>2. CASE p = "isaver"
  <2>1. OnGrid(p, h) = RoundHalfEven(h, 10000) * 100
    BY <1>2 DEF OnGrid, ProfileOf
  <2>2. RoundHalfEven(h, 10000) \in Int
    BY RoundIsNear
  <2>3. \A k \in Int : (k * 100) % 100 = 0 /\ k * 100 \in Int
    OBVIOUS
  <2> QED
    BY <1>2, <2>1, <2>2, <2>3 DEF ProfileOf
<1> QED
  BY <1>1, <1>2 DEF Protocols

\* Clamping brings a value of the grid into the range and keeps it on the grid.
LEMMA ClampFits ==
  ASSUME NEW p \in Protocols, NEW range, GoodRange(p, range),
         NEW v \in Int, v % ProfileOf(p).step = 0
  PROVE  /\ Fits(p, range, Clamp(v, range))
         /\ range.min <= Clamp(v, range) /\ Clamp(v, range) <= range.max
<1>1. Clamp(v, range) \in {v, range.min, range.max}
  BY DEF Clamp
<1>2. range.min <= Clamp(v, range) /\ Clamp(v, range) <= range.max
  BY DEF Clamp, GoodRange
<1>3. Clamp(v, range) \in Nat /\ Clamp(v, range) % ProfileOf(p).step = 0
  BY <1>1, <1>2 DEF GoodRange
<1>4. Clamp(Clamp(v, range), range) = Clamp(v, range)
  BY <1>2, <1>3 DEF Clamp, GoodRange
<1>5. Writable(p, Clamp(v, range))
  <2>1. Physical(p).min \in Nat /\ Physical(p).max \in Nat
    BY DEF Physical, ProfileOf
  <2> QED
    BY <1>2, <1>3, <2>1 DEF Writable, GoodRange
<1> QED
  BY <1>2, <1>3, <1>4, <1>5 DEF Fits

\* A normalised speed fits.
LEMMA NormalizeFits ==
  ASSUME NEW p \in Protocols, NEW range, GoodRange(p, range), NEW h \in Int
  PROVE  Fits(p, range, Normalize(p, range, h))
BY OnGridIsOnGrid, ClampFits DEF Normalize

\* OFF fits.
LEMMA OffFits ==
  ASSUME NEW p \in Protocols, NEW range
  PROVE  Fits(p, range, ProfileOf(p).off)
BY DEF Fits, Writable, ProfileOf

\* Every percentage of the slider gives a speed that fits.
LEMMA SliderFits ==
  ASSUME NEW p \in Protocols, NEW range, GoodRange(p, range), NEW c \in Nat
  PROVE  Fits(p, range, SliderSpeed(p, range, c))
<1>1. range.min \in Int /\ range.max \in Int
  BY DEF GoodRange
<1>2. 100 * c \in Int
  OBVIOUS
<1>3. FromPercentage(range, c) \in Int
  <2>1. range.max - range.min + 1 \in Int
    BY <1>1
  <2>2. \A a, b \in Int : a * b \in Int /\ a + b \in Int /\ a - 1 \in Int
    OBVIOUS
  <2> QED
    BY <1>1, <2>1, <2>2 DEF FromPercentage, States
<1>4. CASE c <= 0
  BY <1>4, OffFits DEF SliderSpeed
<1>5. CASE ~(c <= 0)
  BY <1>2, <1>3, <1>5, NormalizeFits DEF SliderSpeed
<1> QED
  BY <1>4, <1>5

\* What the form lets pass is a range for the iSaver, with its profiles inside.
LEMMA FormIsGood ==
  ASSUME NEW form \in Settings, ValidForm(form)
  PROVE  /\ GoodRange("isaver", [min |-> form.min, max |-> form.max])
         /\ \A v \in Profiles(form) : Fits("isaver", [min |-> form.min, max |-> form.max], v)
<1>1. \A v \in Profiles(form) \cup {form.min, form.max} :
         v \in Nat /\ 1200 <= v /\ v <= 2900 /\ v % 100 = 0
  <2>1. \A v \in Profiles(form) \cup {form.min, form.max} :
           v \in Nat /\ v = Clamp(v, [min |-> 1200, max |-> 2900]) /\ v % 100 = 0
    BY DEF ValidForm, Physical, ProfileOf, Settings, Profiles
  <2> QED
    BY <2>1 DEF Clamp
<1>2. GoodRange("isaver", [min |-> form.min, max |-> form.max])
  BY <1>1 DEF GoodRange, ValidForm, Physical, ProfileOf
<1>3. ASSUME NEW v \in Profiles(form)
      PROVE  Fits("isaver", [min |-> form.min, max |-> form.max], v)
  <2>1. form.min <= v /\ v <= form.max
    BY <1>3 DEF ValidForm
  <2>2. form.min \in Nat /\ form.max \in Nat /\ v \in Nat /\ v % 100 = 0 /\ 1200 <= v /\ v <= 2900
    BY <1>1, <1>3
  <2> QED
    BY <2>1, <2>2 DEF Fits, Writable, Clamp, Physical, ProfileOf
<1> QED
  BY <1>2, <1>3

\* Division and remainder, for the divisors that are not literals.
LEMMA Division ==
  ASSUME NEW a \in Nat, NEW d \in Nat \ {0}
  PROVE  /\ a \div d \in Nat /\ d * (a \div d) \in Nat
         /\ d * (a \div d) <= a /\ a < d * (a \div d) + d
OBVIOUS

\* The iSaver's percentage of a speed gives that speed again; 0 % is the
\* percentage of the lowest speed alone.
LEMMA ISaverRoundTrip ==
  ASSUME NEW range, GoodRange("isaver", range),
         NEW s \in Nat, range.min <= s, s <= range.max, s % 100 = 0
  PROVE  LET p == ShownPercentage("isaver", range, s) IN
         /\ p \in Nat /\ (p = 0 <=> s = range.min)
         /\ p # 0 => SliderSpeed("isaver", range, p) = s
<1> DEFINE lo == range.min
           hi == range.max
           S == hi - lo + 1
           k == s - lo + 1
           p == (100 * k) \div S
           x == p * S
<1>1. /\ lo \in Nat /\ hi \in Nat /\ lo < hi /\ 1200 <= lo /\ hi <= 2900
      /\ lo % 100 = 0 /\ hi % 100 = 0
  BY DEF GoodRange, Physical, ProfileOf
<1>2. PICK a, b, m \in Nat : lo = 100 * a /\ hi = 100 * b /\ s = 100 * m
  <2>1. \A n \in Nat : n % 100 = 0 => n \div 100 \in Nat /\ n = 100 * (n \div 100)
    OBVIOUS
  <2> QED
    BY <1>1, <2>1
<1>3. S \in Nat /\ 101 <= S /\ S <= 1701 /\ k \in Nat /\ 1 <= k /\ k <= S
  BY <1>1, <1>2
<1>4. ShownPercentage("isaver", range, s) = p
  <2>1. Clamp(s, range) = s /\ s # 0
    BY <1>1 DEF Clamp
  <2>2. ShownPercentage("isaver", range, s) = (k * 100) \div S
    BY <2>1 DEF ShownPercentage, ToPercentage, States
  <2>3. k * 100 = 100 * k
    BY <1>3
  <2> QED
    BY <2>2, <2>3
<1>5. p \in Nat /\ x \in Nat /\ x <= 100 * k /\ 100 * k < x + S
  <2>1. 100 * k \in Nat /\ S \in Nat \ {0}
    BY <1>3
  <2> HIDE DEF k, S
  <2>2. p \in Nat /\ S * p \in Nat /\ S * p <= 100 * k /\ 100 * k < S * p + S
    BY <2>1, Division
  <2>3. S * p = p * S
    BY <2>1, <2>2
  <2> QED
    BY <2>2, <2>3
<1>6. p = 0 <=> s = lo
  <2>1. ASSUME p = 0
        PROVE  s = lo
    <3>1. x = 0
      BY <1>3, <2>1
    <3>2. 100 * k < 1701
      <4> HIDE DEF x, S, k
      <4> QED
        BY <1>3, <1>5, <3>1
    <3> HIDE DEF x, p
    <3> QED
      BY <1>1, <1>2, <3>2
  <2>2. ASSUME s = lo, p # 0
        PROVE  FALSE
    <3>1. k = 1
      BY <1>1, <2>2
    <3>2. S <= x
      <4> HIDE DEF S, p
      <4>1. \A c, d \in Nat : c # 0 => d <= c * d
        OBVIOUS
      <4> QED
        BY <1>3, <1>5, <2>2, <4>1
    <3> QED
      BY <1>3, <1>5, <3>1, <3>2
  <2> QED
    BY <2>1, <2>2
<1>7. ASSUME p # 0
      PROVE  SliderSpeed("isaver", range, p) = s
  <2> DEFINE h == x + 100 * (lo - 1)
  <2>1. FromPercentage(range, p) = h
    BY DEF FromPercentage, States
  <2>2. h \in Int /\ 10000 * m - 1701 < h /\ h <= 10000 * m
    <3> HIDE DEF x
    <3> QED
      BY <1>1, <1>2, <1>3, <1>5
  <2>3. RoundHalfEven(h, 10000) = m
    <3> HIDE DEF h
    <3>1. CASE h = 10000 * m
      <4>1. h \div 10000 = m /\ h % 10000 = 0
        BY <1>2, <3>1
      <4> QED
        BY <2>2, <4>1, RoundIsNear
    <3>2. CASE h # 10000 * m
      <4>1. h \div 10000 = m - 1 /\ h % 10000 = h - 10000 * (m - 1)
        BY <1>2, <2>2, <3>2
      <4>2. 2 * (h % 10000) > 10000
        BY <1>2, <2>2, <4>1
      <4>3. RoundHalfEven(h, 10000) = (h \div 10000) + 1
        BY <2>2, <4>2, RoundIsNear
      <4> QED
        BY <1>2, <4>1, <4>3
    <3> QED
      BY <3>1, <3>2
  <2>4. OnGrid("isaver", h) = s
    BY <1>2, <2>3 DEF OnGrid, ProfileOf
  <2>5. Normalize("isaver", range, h) = s
    BY <1>1, <2>4 DEF Normalize, Clamp
  <2>6. ~(p <= 0)
    BY <1>5, <1>7
  <2> HIDE DEF p, h
  <2> QED
    BY <2>1, <2>5, <2>6 DEF SliderSpeed
<1> HIDE DEF p
<1> QED
  BY <1>4, <1>5, <1>6, <1>7

\* The Modbus percentage is the capacity itself, which is never shown as zero.
LEMMA ModbusRoundTrip ==
  ASSUME NEW s \in 30..100, s % 5 = 0
  PROVE  /\ ShownPercentage("modbus", Physical("modbus"), s) = s
         /\ SliderSpeed("modbus", Physical("modbus"), s) = s
<1>1. ShownPercentage("modbus", Physical("modbus"), s) = s
  BY DEF ShownPercentage, Clamp
<1>2. OnGrid("modbus", 100 * s) = s
  BY DEF OnGrid, ProfileOf
<1>3. Clamp(s, Physical("modbus")) = s
  BY DEF Clamp, Physical, ProfileOf
<1> QED
  BY <1>1, <1>2, <1>3 DEF SliderSpeed, Normalize

-----------------------------------------------------------------------------
(***************************************************************************)
(* The values the entities command.                                        *)
(***************************************************************************)
\* An available entry knows its protocol, and its operating range is good.
LEMMA OperatingIsGood ==
  ASSUME IInv, Available \/ data # None
  PROVE  protocol = kind /\ kind \in Protocols /\ GoodRange(kind, Operating)
<1>1. protocol = kind /\ kind \in Protocols /\ options \in Settings
  BY DEF IInv, EntryFacts, TypeOK, Available
<1>2. CASE kind = "modbus"
  BY <1>1, <1>2 DEF Operating, GoodRange, Physical, ProfileOf
<1>3. CASE kind = "isaver"
  <2>1. ValidForm(options)
    BY <1>3, PumpEntryAssumption DEF IInv, EntryFacts, TypeOK, Protocols
  <2>2. Operating = [min |-> options.min, max |-> options.max]
    BY <1>1, <1>3 DEF Operating
  <2> QED
    BY <1>1, <1>3, <2>1, <2>2, FormIsGood
<1> QED
  BY <1>1, <1>2, <1>3 DEF Protocols

\* Whatever the fan commands fits the operating range.
LEMMA FanFits ==
  ASSUME IInv, FanStep
  PROVE  \E v \in Nat : SetSpeed(v) /\ Available /\ Fits(kind, Operating, v)
<1>1. Available
  BY DEF FanStep, SetPercentage, SetPreset, TurnOn, TurnOff, SetSpeed, Command, CommandFails,
         Refuse
<1>2. protocol = kind /\ kind \in Protocols /\ GoodRange(kind, Operating)
  BY <1>1, OperatingIsGood
<1>3. CASE \E c \in Percentages : SetPercentage(c)
  <2>1. PICK c \in Percentages : SetPercentage(c)
    BY <1>3
  <2>2. c \in Nat
    BY PumpEntryAssumption
  <2>3. Fits(kind, Operating, SliderSpeed(protocol, Operating, c))
    BY <1>2, <2>2, SliderFits
  <2>4. SliderSpeed(protocol, Operating, c) \in Nat
    BY <2>3 DEF Fits
  <2> QED
    BY <1>1, <2>1, <2>3, <2>4 DEF SetPercentage
<1>4. CASE SetPreset
  <2>1. PICK v \in Profiles(options) : SetSpeed(v)
    BY <1>4 DEF SetPreset
  <2>2. kind = "isaver" /\ options \in Settings
    BY <1>2, <1>4 DEF SetPreset, Protocols, IInv, TypeOK
  <2>3. ValidForm(options)
    BY <2>2, PumpEntryAssumption DEF IInv, EntryFacts, TypeOK, Protocols
  <2>4. Operating = [min |-> options.min, max |-> options.max]
    BY <1>2, <2>2 DEF Operating
  <2>5. Fits(kind, Operating, v)
    BY <2>2, <2>3, <2>4, FormIsGood
  <2>6. v \in Nat
    BY <2>5 DEF Fits
  <2> QED
    BY <1>1, <2>1, <2>5, <2>6
<1>5. CASE TurnOn
  <2>1. 100 * last \in Int
    BY DEF IInv, TypeOK, Speed
  <2>2. Fits(kind, Operating, Normalize(protocol, Operating, 100 * last))
    BY <1>2, <2>1, NormalizeFits
  <2>3. Normalize(protocol, Operating, 100 * last) \in Nat
    BY <2>2 DEF Fits
  <2> QED
    BY <1>1, <1>5, <2>2, <2>3 DEF TurnOn
<1>6. CASE TurnOff
  <2>1. Fits(kind, Operating, ProfileOf(protocol).off) /\ ProfileOf(protocol).off \in Nat
    BY <1>2, OffFits DEF Fits
  <2> QED
    BY <1>1, <1>6, <2>1 DEF TurnOff
<1> QED
  BY <1>3, <1>4, <1>5, <1>6 DEF FanStep

\* The number's limits are a good range of the pump, or the pump's protocol was
\* not known when they were taken and they are an iSaver's.
LEMMA LimitsAreGood ==
  ASSUME IInv, Available
  PROVE  /\ built # None \/ kind = "isaver" => GoodRange(kind, limits)
         /\ built = None => GoodRange("isaver", limits)
         /\ ~reload => limits = Operating \/ (kind = "modbus" /\ built = None)
<1>1. /\ protocol = kind /\ kind \in Protocols /\ built \in {None, kind}
      /\ limits \in [min : Nat, max : Nat] /\ options \in Settings
      /\ ValidLimits /\ None \notin Protocols
  BY PumpEntryAssumption DEF IInv, EntryFacts, TypeOK, Available, Speed
<1>2. built # "modbus" => GoodRange("isaver", limits)
  BY <1>1 DEF ValidLimits, GoodRange, Physical, ProfileOf, Clamp
<1>3. built = "modbus" => GoodRange("modbus", limits) /\ limits = Physical("modbus")
  BY <1>1 DEF ValidLimits, GoodRange, Physical, ProfileOf
<1>4. ASSUME ~reload
      PROVE  limits = Operating \/ (kind = "modbus" /\ built = None)
  <2>1. CASE kind = "modbus"
    BY <1>1, <1>3, <2>1 DEF Operating
  <2>2. CASE kind = "isaver"
    <3>1. limits.min = options.min /\ limits.max = options.max
      BY <1>1, <1>4, <2>2 DEF IInv, OptionsInForce, Available, Protocols
    <3> QED
      BY <1>1, <2>2, <3>1 DEF Operating
  <2> QED
    BY <1>1, <2>1, <2>2 DEF Protocols
<1> QED
  BY <1>1, <1>2, <1>3, <1>4 DEF Protocols

\* What the number commands fits its limits, or is refused because they are an
\* iSaver's on a Modbus pump.
LEMMA NumberFits ==
  ASSUME IInv, NEW w \in NumberValues, SetNumber(w)
  PROVE  \E v \in Nat :
           /\ SetSpeed(v) /\ Available
           /\ \/ Fits(kind, limits, v) /\ (reload \/ limits = Operating)
              \/ ~Writable(protocol, v) /\ kind = "modbus" /\ built = None
<1> DEFINE v == NumberSpeed(w)
<1>1. SetSpeed(v) /\ Available
  BY DEF SetNumber, SetSpeed, Command, CommandFails, Refuse
<1>2. protocol = kind /\ kind \in Protocols
  BY <1>1, OperatingIsGood
<1>3. 100 * w \in Int
  BY PumpEntryAssumption
<1>4. OnGrid(protocol, 100 * w) \in Int /\ OnGrid(protocol, 100 * w) % ProfileOf(kind).step = 0
  BY <1>2, <1>3, OnGridIsOnGrid
<1>5. CASE kind = "modbus" /\ built = None
  <2>1. GoodRange("isaver", limits)
    BY <1>1, <1>5, LimitsAreGood
  <2>2. limits.min <= v /\ v <= limits.max /\ v \in Int
    BY <1>4, <2>1 DEF NumberSpeed, Clamp, GoodRange
  <2>3. v \in Nat /\ v > 100
    BY <2>1, <2>2 DEF GoodRange, Physical, ProfileOf
  <2>4. ~Writable(protocol, v)
    BY <1>2, <1>5, <2>3 DEF Writable, Physical, ProfileOf
  <2> QED
    BY <1>1, <1>5, <2>3, <2>4
<1>6. CASE ~(kind = "modbus" /\ built = None)
  <2>1. GoodRange(kind, limits) /\ (reload \/ limits = Operating)
    BY <1>1, <1>2, <1>6, LimitsAreGood DEF Protocols
  <2>2. Fits(kind, limits, v)
    BY <1>2, <1>4, <2>1, ClampFits DEF NumberSpeed
  <2>3. v \in Nat
    BY <2>2 DEF Fits
  <2> HIDE DEF v
  <2> QED
    BY <1>1, <2>1, <2>2, <2>3
<1> QED
  BY <1>5, <1>6

-----------------------------------------------------------------------------
(***************************************************************************)
(* Inductiveness.                                                          *)
(***************************************************************************)
LEMMA DefaultsAreValid == DefaultOptions \in Settings /\ ValidForm(DefaultOptions)
  BY DEF DefaultOptions, Settings, ValidForm, Profiles, Physical, ProfileOf, Clamp

LEMMA InitIInv == Init => IInv
<1> SUFFICES ASSUME Init PROVE IInv
  OBVIOUS
<1>1. TypeOK
  <2>1. pump \in Nat
    BY PumpEntryAssumption DEF Init
  <2>2. Physical(None) \in [min : Nat, max : Nat]
    BY DEF Physical, ProfileOf
  <2>3. options \in Settings
    BY DefaultsAreValid DEF Init
  <2>4. /\ remote \in BOOLEAN /\ assist \in BOOLEAN /\ reload \in BOOLEAN
        /\ quiet \in BOOLEAN /\ missed \in BOOLEAN /\ refused \in BOOLEAN
        /\ overtaken \in BOOLEAN
    BY Zenon DEF Init
  <2>5. /\ kind \in Protocols /\ stored \in {None, kind}
        /\ protocol \in {None, kind} /\ built \in {None, kind}
    BY Zenon DEF Init
  <2>6. /\ phase \in {"off", "setup", "loaded"} /\ interval \in {"short", "long"}
        /\ data \in Nat \cup {None} /\ last \in Nat /\ limits \in [min : Nat, max : Nat]
        /\ cut \in {"no", "user", "reload", "overtaken", "lost"}
        /\ poll \in {"idle", "waiting", "sampled"} /\ sample \in Nat \cup {None}
    BY <2>2 DEF Init
  <2> QED
    BY <2>1, <2>3, <2>4, <2>5, <2>6 DEF TypeOK, Speed
<1>2. /\ OptionsInForce /\ RefusedOnlyUnknown /\ ResumesPossibleSpeed
      /\ EntryFacts /\ WindowFacts
  BY DefaultsAreValid
     DEF Init, OptionsInForce, RefusedOnlyUnknown, ResumesPossibleSpeed, EntryFacts, WindowFacts
<1> QED
  BY <1>1, <1>2 DEF IInv

\* The end of a setup takes the window and the pending reload with it.
LEMMA EndKeeps ==
  ASSUME IInv, Reload \/ Restart
  PROVE  IInv'
<1>1. /\ phase' = "off" /\ reload' = FALSE /\ quiet' = FALSE
      /\ PollOver /\ CutBy("reload")
      /\ UNCHANGED <<pumpVars, stored, options, assist, setupVars, missed, refused>>
  BY DEF Reload, Restart, EndsSetup
<1>2. TypeOK'
  BY <1>1 DEF IInv, TypeOK, PollOver, CutBy, pumpVars, setupVars
<1>3. OptionsInForce' /\ RefusedOnlyUnknown' /\ ResumesPossibleSpeed'
  BY <1>1 DEF IInv, OptionsInForce, RefusedOnlyUnknown, ResumesPossibleSpeed, pumpVars, setupVars
<1>4. EntryFacts' /\ WindowFacts'
  BY <1>1 DEF IInv, EntryFacts, WindowFacts, PollOver, CutBy, pumpVars, setupVars
<1> QED
  BY <1>2, <1>3, <1>4 DEF IInv

\* A new setup starts with the options in force.
LEMMA BuildKeeps ==
  ASSUME IInv, Build
  PROVE  IInv'
<1>1. TypeOK'
  <2>1. ProfileOf(stored).min \in Nat /\ Physical(None) \in [min : Nat, max : Nat]
    BY DEF Physical, ProfileOf
  <2>2. options.interval \in {"short", "long"}
    BY DEF IInv, TypeOK, Settings
  <2> QED
    BY <2>1, <2>2 DEF IInv, TypeOK, Build, pumpVars, pollVars, Speed
<1>2. OptionsInForce' /\ RefusedOnlyUnknown' /\ ResumesPossibleSpeed'
  BY DEF Build, OptionsInForce, RefusedOnlyUnknown, ResumesPossibleSpeed
<1>3. EntryFacts' /\ WindowFacts'
  BY DEF IInv, EntryFacts, WindowFacts, Build, pumpVars, pollVars
<1> QED
  BY <1>1, <1>2, <1>3 DEF IInv

\* A read makes the protocol known and the speed to resume possible.
LEMMA ReadIsGood ==
  ASSUME IInv, NEW s \in Nat, Read(s)
  PROVE  /\ data' = s /\ protocol' = kind /\ last' \in Nat
         /\ Physical(kind).min <= last'
<1>1. kind \in Protocols /\ last \in Nat
  BY DEF IInv, TypeOK, Speed
<1>2. Physical(kind).min \in Nat
  BY DEF Physical, ProfileOf
<1> QED
  BY <1>1, <1>2 DEF Read

LEMMA FinishSetupKeeps ==
  ASSUME IInv, NEW heard \in BOOLEAN, FinishSetup(heard)
  PROVE  IInv'
<1>1. /\ kind \in Protocols /\ None \notin Protocols /\ options \in Settings
      /\ stored \in {None, kind} /\ protocol \in {None, kind}
  BY PumpEntryAssumption DEF IInv, TypeOK
<1>2. /\ UNCHANGED <<kind, pump, remote, options, assist, reload, interval, quiet,
                     poll, sample, overtaken, cut, missed, refused>>
      /\ phase = "setup" /\ phase' = "loaded"
      /\ built' = protocol' /\ limits' = NumberLimits(built')
  BY DEF FinishSetup, pumpVars, pollVars, history
<1>3. /\ data' \in Nat \cup {None} /\ last' \in Nat
      /\ stored' \in {None, kind} /\ protocol' \in {None, kind}
      /\ stored = "modbus" => stored' = "modbus"
      /\ data' # None => protocol' = kind /\ Physical(kind).min <= last'
  <2>1. CASE heard
    <3>1. Read(pump) /\ stored' = kind
      BY <2>1 DEF FinishSetup
    <3>2. pump \in Nat
      BY DEF IInv, TypeOK, Speed
    <3>3. /\ data' = pump /\ protocol' = kind /\ last' \in Nat
          /\ Physical(kind).min <= last'
      BY <3>1, <3>2, ReadIsGood
    <3>4. stored = "modbus" => kind = "modbus"
      BY <1>1 DEF Protocols
    <3> QED
      BY <1>1, <3>1, <3>2, <3>3, <3>4
  <2>2. CASE ~heard
    <3>1. UNCHANGED <<data, protocol, last, stored>>
      BY <2>2 DEF FinishSetup
    <3>2. data \in Nat \cup {None} /\ last \in Nat
      BY DEF IInv, TypeOK, Speed
    <3>3. data # None => protocol = kind /\ Physical(kind).min <= last
      BY DEF IInv, EntryFacts, ResumesPossibleSpeed
    <3> QED
      BY <1>1, <3>1, <3>2, <3>3
  <2> QED
    BY <2>1, <2>2
<1>4. stored' # "modbus" => ValidForm(options)
  BY <1>3 DEF IInv, EntryFacts
<1>5. built' # "modbus" => ValidForm(options)
  \* a protocol that is not Modbus's or not known was not stored as Modbus
  <2>1. ASSUME built' # "modbus", stored = "modbus"
        PROVE  FALSE
    <3>1. kind = "modbus"
      BY <1>1, <2>1 DEF Protocols
    <3>2. CASE heard
      BY <1>2, <2>1, <3>1, <3>2 DEF FinishSetup, Read
    <3>3. CASE ~heard
      BY <1>2, <2>1, <3>3 DEF FinishSetup, IInv, EntryFacts
    <3> QED
      BY <3>2, <3>3
  <2> QED
    BY <2>1 DEF IInv, EntryFacts
<1>6. /\ limits' \in [min : Nat, max : Nat]
      /\ built' # "modbus" => limits'.min = options.min /\ limits'.max = options.max
      /\ built' = "modbus" => limits' = Physical("modbus")
  BY <1>1, <1>2 DEF NumberLimits, Settings, Physical, ProfileOf
<1>7. TypeOK'
  BY <1>2, <1>3, <1>6 DEF IInv, TypeOK, Speed
<1>8. OptionsInForce'
  BY <1>2, <1>6 DEF IInv, OptionsInForce, EntryFacts
<1>9. RefusedOnlyUnknown' /\ ResumesPossibleSpeed'
  BY <1>2, <1>3 DEF IInv, EntryFacts, RefusedOnlyUnknown, ResumesPossibleSpeed
<1>10. ValidLimits'
  BY <1>5, <1>6 DEF ValidLimits, ValidForm
<1>11. EntryFacts'
  BY <1>1, <1>2, <1>3, <1>4, <1>10 DEF IInv, EntryFacts
<1>12. WindowFacts'
  BY <1>2 DEF IInv, WindowFacts
<1> QED
  BY <1>7, <1>8, <1>9, <1>11, <1>12 DEF IInv

\* A command leaves a state the pump can have and a speed it can resume.
LEMMA CommandKeeps ==
  ASSUME IInv, NEW v \in Nat, Command(v)
  PROVE  IInv'
<1> DEFINE s == IF v = ProfileOf(protocol).off THEN 0 ELSE v
<1>1. /\ UNCHANGED <<kind, stored, options, assist, phase, reload, protocol, interval, built,
                     limits, poll, sample, missed, refused>>
      /\ Available /\ Writable(protocol, v)
      /\ pump' \in {s, pump} /\ data' = s /\ remote' \in BOOLEAN
      /\ last' = IF s # 0 THEN s ELSE last
      /\ quiet' = assist /\ overtaken' = (poll # "idle")
      /\ cut' = IF remote' /\ ~assist THEN "user" ELSE "no"
  BY DEF Command, StateOf, entryVars, IInv, TypeOK
<1>2. protocol = kind /\ kind \in Protocols
  BY <1>1, OperatingIsGood
<1>3. s \in Nat
  OBVIOUS
<1>4. last' \in Nat /\ Physical(kind).min <= last'
  <2>1. CASE s = 0
    BY <1>1, <2>1 DEF IInv, TypeOK, ResumesPossibleSpeed, Available, Speed
  <2>2. CASE s # 0
    <3>1. v # ProfileOf(protocol).off
      BY <2>2
    <3> QED
      BY <1>1, <1>2, <1>3, <2>2, <3>1 DEF Writable
  <2> QED
    BY <2>1, <2>2
<1> HIDE DEF s
<1>5. TypeOK'
  BY <1>1, <1>3, <1>4 DEF IInv, TypeOK, Speed
<1>6. OptionsInForce' /\ RefusedOnlyUnknown' /\ ResumesPossibleSpeed'
  BY <1>1, <1>4 DEF IInv, OptionsInForce, RefusedOnlyUnknown, ResumesPossibleSpeed
<1>7. EntryFacts'
  <2>1. ValidLimits' = ValidLimits /\ ValidForm(options') = ValidForm(options)
    BY <1>1 DEF ValidLimits
  <2> QED
    BY <1>1, <1>2, <2>1 DEF IInv, EntryFacts, Available
<1>8. WindowFacts'
  BY <1>1 DEF IInv, TypeOK, WindowFacts, Available
<1> QED
  BY <1>5, <1>6, <1>7, <1>8 DEF IInv

\* A command that fails changes the pump alone.
LEMMA CommandFailsKeeps ==
  ASSUME IInv, NEW v \in Nat, CommandFails(v)
  PROVE  IInv'
<1>1. /\ UNCHANGED <<kind, stored, options, assist, phase, reload, protocol, interval, data,
                     last, quiet, built, limits, poll, sample, overtaken, missed, refused>>
      /\ pump' \in Nat /\ remote' = TRUE /\ cut' = "lost"
  BY DEF CommandFails, StateOf, entryVars, setupVars, pollVars
<1>2. TypeOK'
  BY <1>1 DEF IInv, TypeOK, Speed
<1>3. OptionsInForce' /\ RefusedOnlyUnknown' /\ ResumesPossibleSpeed'
  BY <1>1 DEF IInv, OptionsInForce, RefusedOnlyUnknown, ResumesPossibleSpeed
<1>4. EntryFacts'
  <2>1. ValidLimits' = ValidLimits /\ ValidForm(options') = ValidForm(options)
    BY <1>1 DEF ValidLimits
  <2> QED
    BY <1>1, <2>1 DEF IInv, EntryFacts
<1>5. WindowFacts'
  BY <1>1 DEF IInv, WindowFacts
<1> QED
  BY <1>2, <1>3, <1>4, <1>5 DEF IInv

\* A command is refused to an unknown Modbus pump's number alone.
LEMMA RefuseKeeps ==
  ASSUME IInv, NEW v, Refuse(v), kind = "modbus", built = None
  PROVE  IInv'
<1>1. /\ UNCHANGED <<kind, pump, remote, stored, options, assist, phase, reload, protocol,
                     interval, data, last, quiet, poll, sample, overtaken, built, limits,
                     cut, missed>>
      /\ phase = "loaded" /\ refused' = TRUE
  BY DEF Refuse, pumpVars, entryVars, setupVars, pollVars, Available
<1>2. TypeOK'
  BY <1>1 DEF IInv, TypeOK
<1>3. OptionsInForce' /\ RefusedOnlyUnknown' /\ ResumesPossibleSpeed'
  BY <1>1 DEF IInv, OptionsInForce, RefusedOnlyUnknown, ResumesPossibleSpeed
<1>4. EntryFacts'
  <2>1. ValidLimits' = ValidLimits /\ ValidForm(options') = ValidForm(options)
    BY <1>1 DEF ValidLimits
  <2> QED
    BY <1>1, <2>1 DEF IInv, EntryFacts
<1>5. WindowFacts'
  BY <1>1 DEF IInv, WindowFacts
<1> QED
  BY <1>2, <1>3, <1>4, <1>5 DEF IInv

LEMMA FanKeeps ==
  ASSUME IInv, FanStep
  PROVE  IInv'
<1>1. PICK v \in Nat : SetSpeed(v) /\ Available /\ Fits(kind, Operating, v)
  BY FanFits
<1>2. Command(v) \/ CommandFails(v)
  BY <1>1, OperatingIsGood DEF SetSpeed, Refuse, Fits
<1> QED
  BY <1>2, CommandKeeps, CommandFailsKeeps

LEMMA NumberKeeps ==
  ASSUME IInv, NEW w \in NumberValues, SetNumber(w)
  PROVE  IInv'
<1>1. PICK v \in Nat :
         /\ SetSpeed(v) /\ Available
         /\ \/ Fits(kind, limits, v)
            \/ ~Writable(protocol, v) /\ kind = "modbus" /\ built = None
  BY NumberFits
<1>2. CASE Fits(kind, limits, v)
  <2>1. Command(v) \/ CommandFails(v)
    BY <1>1, <1>2, OperatingIsGood DEF SetSpeed, Refuse, Fits
  <2> QED
    BY <2>1, CommandKeeps, CommandFailsKeeps
<1>3. CASE ~Writable(protocol, v) /\ kind = "modbus" /\ built = None
  <2>1. Refuse(v)
    BY <1>1, <1>3 DEF SetSpeed, Command, CommandFails
  <2> QED
    BY <1>3, <2>1, RefuseKeeps
<1> QED
  BY <1>1, <1>2, <1>3

\* Turning the assist off ends the window, and the history says whose doing
\* that was.
LEMMA SetAssistKeeps ==
  ASSUME IInv, NEW b \in BOOLEAN, SetAssist(b)
  PROVE  IInv'
<1>1. /\ UNCHANGED <<kind, pump, remote, stored, options, phase, reload, protocol, interval,
                     data, last, built, limits, poll, sample, overtaken, missed, refused>>
      /\ b # assist /\ assist' = b /\ quiet' = (quiet /\ b)
      /\ cut' = IF quiet /\ ~b /\ remote /\ cut = "no" THEN "user" ELSE cut
  BY DEF SetAssist, CutBy, pumpVars, setupVars, pollVars
<1>2. TypeOK'
  BY <1>1 DEF IInv, TypeOK
<1>3. OptionsInForce' /\ RefusedOnlyUnknown' /\ ResumesPossibleSpeed'
  BY <1>1 DEF IInv, OptionsInForce, RefusedOnlyUnknown, ResumesPossibleSpeed
<1>4. EntryFacts'
  <2>1. ValidLimits' = ValidLimits /\ ValidForm(options') = ValidForm(options)
    BY <1>1 DEF ValidLimits
  <2> QED
    BY <1>1, <2>1 DEF IInv, EntryFacts, TypeOK
<1>5. WindowFacts'
  BY <1>1 DEF IInv, TypeOK, WindowFacts
<1> QED
  BY <1>2, <1>3, <1>4, <1>5 DEF IInv

\* New options passed the form; a loaded entry reloads, a setup notes that its
\* interval may be out of date.
LEMMA SubmitOptionsKeeps ==
  ASSUME IInv, NEW form \in Forms, SubmitOptions(form)
  PROVE  IInv'
<1>1. /\ UNCHANGED <<kind, pump, remote, stored, assist, phase, protocol, interval, data, last,
                     quiet, built, limits, poll, sample, overtaken, cut, refused>>
      /\ options' = Submitted(form) /\ Accepted(form)
      /\ reload' = (reload \/ phase = "loaded") /\ missed' = (missed \/ phase = "setup")
  BY DEF SubmitOptions, OptionsChanged, pumpVars, setupVars, pollVars
<1>2. form \in Settings
  BY PumpEntryAssumption
<1>3. options' \in Settings
  <2>1. [DefaultOptions EXCEPT !.interval = form.interval] \in Settings
    BY <1>2, DefaultsAreValid DEF Settings
  <2> QED
    BY <1>1, <1>2, <2>1 DEF Submitted
<1>4. stored' # "modbus" => ValidForm(options')
  BY <1>1 DEF Submitted, Accepted
<1>5. TypeOK'
  <2>1. reload' \in BOOLEAN /\ missed' \in BOOLEAN
    BY <1>1 DEF IInv, TypeOK
  <2> QED
    BY <1>1, <1>3, <2>1 DEF IInv, TypeOK
<1>6. OptionsInForce' /\ RefusedOnlyUnknown' /\ ResumesPossibleSpeed'
  BY <1>1 DEF IInv, OptionsInForce, RefusedOnlyUnknown, ResumesPossibleSpeed
<1>7. EntryFacts'
  <2>1. ValidLimits' = ValidLimits
    BY <1>1 DEF ValidLimits
  <2> QED
    BY <1>1, <1>4, <2>1 DEF IInv, EntryFacts
<1>8. WindowFacts'
  BY <1>1 DEF IInv, WindowFacts
<1> QED
  BY <1>5, <1>6, <1>7, <1>8 DEF IInv

\* What asks for a reload and changes nothing else.
LEMMA AskKeeps ==
  ASSUME IInv, UserReload \/ FaultMapKnown
  PROVE  IInv'
<1>1. /\ UNCHANGED <<kind, pump, remote, stored, options, assist, phase, protocol, interval,
                     data, last, quiet, built, limits, poll, sample, overtaken, cut,
                     missed, refused>>
      /\ reload' = TRUE
  BY DEF UserReload, FaultMapKnown, pumpVars, setupVars, pollVars, history
<1>2. TypeOK'
  BY <1>1 DEF IInv, TypeOK
<1>3. OptionsInForce' /\ RefusedOnlyUnknown' /\ ResumesPossibleSpeed'
  BY <1>1 DEF IInv, OptionsInForce, RefusedOnlyUnknown, ResumesPossibleSpeed
<1>4. EntryFacts'
  <2>1. ValidLimits' = ValidLimits /\ ValidForm(options') = ValidForm(options)
    BY <1>1 DEF ValidLimits
  <2> QED
    BY <1>1, <2>1 DEF IInv, EntryFacts
<1>5. WindowFacts'
  BY <1>1 DEF IInv, WindowFacts
<1> QED
  BY <1>2, <1>3, <1>4, <1>5 DEF IInv

\* A refresh in flight leaves the entry as it was, but for a renewed override.
LEMMA PollGoesOn ==
  ASSUME IInv, PollStarts \/ PollSamples \/ PollFails
  PROVE  IInv'
<1>1. UNCHANGED <<kind, pump, remote, stored, options, assist, phase, reload, protocol, interval,
                  data, last, quiet, built, limits, missed, refused>>
  BY DEF PollStarts, PollSamples, PollFails, pumpVars, entryVars, setupVars, history
<1>2. /\ cut' \in {"no", "user", "reload", "overtaken", "lost"}
      /\ cut # "no" => cut' # "no"
      /\ poll' \in {"idle", "waiting", "sampled"} /\ sample' \in Nat \cup {None}
      /\ overtaken' \in BOOLEAN
  BY DEF PollStarts, PollSamples, PollFails, PollOver, ReadsInWindow, CutBy, history,
         IInv, TypeOK, Speed
<1>3. TypeOK'
  BY <1>1, <1>2 DEF IInv, TypeOK, Speed
<1>4. OptionsInForce' /\ RefusedOnlyUnknown' /\ ResumesPossibleSpeed'
  BY <1>1 DEF IInv, OptionsInForce, RefusedOnlyUnknown, ResumesPossibleSpeed
<1>5. EntryFacts'
  BY <1>1 DEF IInv, EntryFacts, ValidLimits
<1>6. WindowFacts'
  <2>1. CASE PollStarts
    BY <1>1, <1>2, <2>1 DEF PollStarts, MayPoll, IInv, WindowFacts
  <2>2. CASE PollSamples
    <3>1. pump # None
      BY PumpEntryAssumption DEF IInv, TypeOK, Speed
    <3> QED
      BY <1>1, <1>2, <2>2, <3>1 DEF PollSamples, IInv, WindowFacts
  <2>3. CASE PollFails
    BY <1>1, <1>2, <2>3 DEF PollFails, PollOver, IInv, WindowFacts
  <2> QED
    BY <2>1, <2>2, <2>3
<1> QED
  BY <1>3, <1>4, <1>5, <1>6 DEF IInv

\* The refresh that ends a window was overtaken by the command that opened it.
LEMMA PollAcceptsKeeps ==
  ASSUME IInv, PollAccepts
  PROVE  IInv'
<1>1. /\ UNCHANGED <<kind, pump, remote, stored, options, assist, phase, reload, interval,
                     built, limits, missed, refused>>
      /\ poll # "idle" /\ phase = "loaded" /\ quiet' = FALSE
      /\ poll' = "idle" /\ sample' = None /\ overtaken' = FALSE
      /\ cut' = IF quiet /\ overtaken /\ remote /\ cut = "no" THEN "overtaken" ELSE cut
  BY DEF PollAccepts, PollOver, ReadsInWindow, CutBy, pumpVars, entryVars, IInv, WindowFacts
<1>2. PICK s \in Nat : Read(s)
  <2>1. pump \in Nat /\ (poll = "sampled" => sample \in Nat)
    BY DEF IInv, TypeOK, WindowFacts, Speed
  <2> QED
    BY <2>1 DEF PollAccepts
<1>3. /\ data' = s /\ protocol' = kind /\ last' \in Nat
      /\ Physical(kind).min <= last'
  BY <1>2, ReadIsGood
<1>4. TypeOK'
  BY <1>1, <1>3 DEF IInv, TypeOK, Speed
<1>5. OptionsInForce' /\ RefusedOnlyUnknown' /\ ResumesPossibleSpeed'
  BY <1>1, <1>3 DEF IInv, OptionsInForce, RefusedOnlyUnknown, ResumesPossibleSpeed
<1>6. EntryFacts'
  <2>1. ValidLimits' = ValidLimits /\ ValidForm(options') = ValidForm(options)
    BY <1>1 DEF ValidLimits
  <2> QED
    BY <1>1, <1>3, <2>1 DEF IInv, EntryFacts
<1>7. WindowFacts'
  BY <1>1 DEF IInv, WindowFacts
<1> QED
  BY <1>4, <1>5, <1>6, <1>7 DEF IInv

\* The ends of the window and of the override, and what the panel sets.
LEMMA PumpKeeps ==
  ASSUME IInv, \/ WindowEnds \/ RemoteEnds
               \/ \E s \in PanelStates[kind] : PanelSets(s)
  PROVE  IInv'
<1>1. UNCHANGED <<kind, stored, options, assist, phase, reload, protocol, interval, data, last,
                  built, limits, poll, sample, overtaken, missed, refused>>
  BY DEF WindowEnds, RemoteEnds, PanelSets, entryVars, setupVars, pollVars, history, pumpVars
<1>2. /\ pump' \in Nat /\ remote' \in BOOLEAN /\ quiet' \in BOOLEAN
      /\ cut' \in {"no", "user", "reload", "overtaken", "lost"}
      /\ quiet' => quiet
      /\ remote' => remote /\ cut' = cut /\ (quiet' = quiet \/ cut # "no")
  <2>1. CASE WindowEnds
    BY <2>1 DEF WindowEnds, pumpVars, history, IInv, TypeOK, Speed
  <2>2. CASE RemoteEnds
    BY <2>2 DEF RemoteEnds, setupVars, IInv, TypeOK, Speed
  <2>3. CASE \E s \in PanelStates[kind] : PanelSets(s)
    <3>1. pump' \in Nat
      BY <2>3, PumpEntryAssumption DEF PanelSets, IInv, TypeOK
    <3> QED
      BY <2>3, <3>1 DEF PanelSets, setupVars, history, IInv, TypeOK
  <2> QED
    BY <2>1, <2>2, <2>3
<1>3. TypeOK'
  BY <1>1, <1>2 DEF IInv, TypeOK, Speed
<1>4. OptionsInForce' /\ RefusedOnlyUnknown' /\ ResumesPossibleSpeed'
  BY <1>1 DEF IInv, OptionsInForce, RefusedOnlyUnknown, ResumesPossibleSpeed
<1>5. EntryFacts'
  <2>1. ValidLimits' = ValidLimits /\ ValidForm(options') = ValidForm(options)
    BY <1>1 DEF ValidLimits
  <2> QED
    BY <1>1, <1>2, <2>1 DEF IInv, EntryFacts
<1>6. WindowFacts'
  BY <1>1, <1>2 DEF IInv, WindowFacts
<1> QED
  BY <1>3, <1>4, <1>5, <1>6 DEF IInv

\* Every step keeps the invariant.
LEMMA NextKeepsIInv ==
  ASSUME IInv, [Next]_vars
  PROVE  IInv'
<1>1. CASE Build
  BY <1>1, BuildKeeps
<1>2. CASE Reload \/ Restart
  BY <1>2, EndKeeps
<1>3. CASE \E heard \in BOOLEAN : FinishSetup(heard)
  BY <1>3, FinishSetupKeeps
<1>4. CASE UserReload \/ FaultMapKnown
  BY <1>4, AskKeeps
<1>5. CASE \E form \in Forms : SubmitOptions(form)
  BY <1>5, SubmitOptionsKeeps
<1>6. CASE FanStep
  BY <1>6, FanKeeps
<1>7. CASE \E w \in NumberValues : SetNumber(w)
  BY <1>7, NumberKeeps
<1>8. CASE \E b \in BOOLEAN : SetAssist(b)
  BY <1>8, SetAssistKeeps
<1>9. CASE PollStarts \/ PollSamples \/ PollFails
  BY <1>9, PollGoesOn
<1>10. CASE WindowEnds \/ RemoteEnds \/ \E s \in PanelStates[kind] : PanelSets(s)
  BY <1>10, PumpKeeps
<1>11. CASE PollAccepts
  BY <1>11, PollAcceptsKeeps
<1>12. CASE UNCHANGED vars
  <2>1. UNCHANGED <<kind, pump, remote, stored, options, assist, phase, reload, protocol,
                    interval, data, last, quiet, built, limits, poll, sample, overtaken,
                    cut, missed, refused>>
    BY <1>12 DEF vars, pumpVars, entryVars, setupVars, pollVars, history
  <2>2. TypeOK'
    BY <2>1 DEF IInv, TypeOK
  <2>3. OptionsInForce' /\ RefusedOnlyUnknown' /\ ResumesPossibleSpeed'
    BY <2>1 DEF IInv, OptionsInForce, RefusedOnlyUnknown, ResumesPossibleSpeed
  <2>4. EntryFacts' /\ WindowFacts'
    BY <2>1 DEF IInv, EntryFacts, ValidLimits, WindowFacts
  <2> QED
    BY <2>2, <2>3, <2>4 DEF IInv
<1> QED
  BY <1>1, <1>2, <1>3, <1>4, <1>5, <1>6, <1>7, <1>8, <1>9, <1>10, <1>11, <1>12
     DEF Next, Disturbance, OwnStep, UserStep

-----------------------------------------------------------------------------
(***************************************************************************)
(* Theorems.                                                               *)
(***************************************************************************)
\* The facts about options, limits, protocol and window hold in every order of
\* setups, reloads, restarts, changes of the options, commands and polls; among
\* them that the number keeps the options in force and that a command is refused
\* only to the number of a Modbus pump its setup did not hear.
THEOREM InductiveInvariant == Spec => []IInv
<1>1. Init => IInv
  BY InitIInv
<1>2. IInv /\ [Next]_vars => IInv'
  BY NextKeepsIInv
<1> QED
  BY <1>1, <1>2, PTL DEF Spec

\* The panel-available sensor does not announce the panel during an override but
\* for the causes PanelShownTruly names, in any order of commands, lost or not, of
\* refreshes with other steps between their parts, reloads and restarts.
THEOREM PanelIsShownTruly == Spec => []PanelShownTruly
<1>1. IInv => PanelShownTruly
  BY DEF IInv, WindowFacts, PanelShownTruly, PanelShown
<1> QED
  BY <1>1, InductiveInvariant, PTL

\* fan.percentage and async_set_percentage are inverse on every speed of every
\* range the form lets pass, except that an iSaver's lowest speed shows as OFF.
THEOREM PercentagesRepeat == Spec => []SliderRepeats
<1>1. IInv => SliderRepeats
  <2> DEFINE P(s) == ShownPercentage(protocol, Operating, s)
  <2> SUFFICES ASSUME IInv, data # None,
                      NEW s \in Operating.min..Operating.max,
                      s % ProfileOf(protocol).step = 0
               PROVE  /\ SliderSpeed(protocol, Operating, P(s)) =
                            IF P(s) = 0 THEN ProfileOf(protocol).off ELSE s
                      /\ P(s) = 0 <=> protocol = "isaver" /\ s = Operating.min
    BY DEF SliderRepeats
  <2>1. protocol = kind /\ kind \in Protocols /\ GoodRange(kind, Operating)
    BY OperatingIsGood DEF IInv, EntryFacts
  <2>2. CASE kind = "modbus"
    <3>1. Operating = Physical("modbus") /\ s \in 30..100 /\ s % 5 = 0
      BY <2>1, <2>2 DEF Operating, Physical, ProfileOf
    <3>2. P(s) = s /\ SliderSpeed(protocol, Operating, s) = s
      BY <2>1, <2>2, <3>1, ModbusRoundTrip
    <3> HIDE DEF P
    <3> QED
      BY <2>1, <2>2, <3>1, <3>2
  <2>3. CASE kind = "isaver"
    <3>1. /\ s \in Nat /\ Operating.min <= s /\ s <= Operating.max /\ s % 100 = 0
      BY <2>1, <2>3 DEF GoodRange, ProfileOf
    <3>2. /\ P(s) = 0 <=> s = Operating.min
          /\ P(s) # 0 => SliderSpeed(protocol, Operating, P(s)) = s
      BY <2>1, <2>3, <3>1, ISaverRoundTrip
    <3>3. P(s) = 0 => SliderSpeed(protocol, Operating, P(s)) = ProfileOf(protocol).off
      BY DEF SliderSpeed
    <3> HIDE DEF P
    <3> QED
      BY <2>1, <2>3, <3>2, <3>3
  <2> QED
    BY <2>1, <2>2, <2>3 DEF Protocols
<1> QED
  BY <1>1, InductiveInvariant, PTL

\* Whatever the fan or the number asks for, write_speed sends OFF or a speed on
\* the pump's grid, within the limits in force or those the number still has.
THEOREM CommandsStayInLimits == Spec => CommandsInLimits
<1> DEFINE Kept == pump' # pump /\ remote' =>
                     \/ pump' = 0
                     \/ /\ pump' % ProfileOf(kind).step = 0
                        /\ \/ pump' = Clamp(pump', Operating)
                           \/ reload /\ pump' = Clamp(pump', limits)
<1>1. ASSUME IInv, NEW v \in Nat, Command(v) \/ CommandFails(v), pump' # pump,
             NEW range, Fits(kind, range, v)
      PROVE  pump' = 0 \/ (pump' % ProfileOf(kind).step = 0 /\ pump' = Clamp(pump', range))
  <2>1. protocol = kind
    BY <1>1, OperatingIsGood DEF Command, CommandFails
  <2> QED
    BY <1>1, <2>1 DEF Command, CommandFails, StateOf, Fits
<1>2. IInv /\ [Next]_vars => Kept
  <2> SUFFICES ASSUME IInv, [Next]_vars, pump' # pump, remote'
               PROVE  \/ pump' = 0
                      \/ /\ pump' % ProfileOf(kind).step = 0
                         /\ \/ pump' = Clamp(pump', Operating)
                            \/ reload /\ pump' = Clamp(pump', limits)
    OBVIOUS
  <2>1. FanStep \/ \E w \in NumberValues : SetNumber(w)
    BY DEF Next, Disturbance, OwnStep, UserStep, Build, Reload, FinishSetup, Restart, UserReload, FaultMapKnown,
           EndsSetup, SubmitOptions, SetAssist, PollStarts, PollSamples, PollAccepts, PollFails,
           WindowEnds, RemoteEnds, PanelSets, vars, pumpVars
  <2>2. CASE FanStep
    <3>1. PICK v \in Nat : SetSpeed(v) /\ Available /\ Fits(kind, Operating, v)
      BY <2>2, FanFits
    <3>2. Command(v) \/ CommandFails(v)
      BY <3>1, OperatingIsGood DEF SetSpeed, Refuse, Fits
    <3> QED
      BY <1>1, <3>1, <3>2
  <2>3. CASE \E w \in NumberValues : SetNumber(w)
    <3>1. PICK v \in Nat :
             /\ SetSpeed(v) /\ Available
             /\ \/ Fits(kind, limits, v) /\ (reload \/ limits = Operating)
                \/ ~Writable(protocol, v)
      BY <2>3, NumberFits
    <3>2. Command(v) \/ CommandFails(v)
      BY <3>1 DEF SetSpeed, Refuse, pumpVars
    <3>3. Fits(kind, limits, v) /\ (reload \/ limits = Operating)
      BY <3>1, <3>2 DEF Command, CommandFails
    <3> QED
      BY <1>1, <3>2, <3>3
  <2> QED
    BY <2>1, <2>2, <2>3
<1>3. IInv /\ [Next]_vars => [Kept]_vars
  BY <1>2
<1> QED
  BY <1>3, InductiveInvariant, PTL DEF Spec, CommandsInLimits
=============================================================================
