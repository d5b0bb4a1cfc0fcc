------------------------------ MODULE Pressure ------------------------------
(***************************************************************************)
(* How strongly a context asks to be compacted: context degradation,       *)
(* expected cost, their combination and the probability of a fire.         *)
(* Fractions are integers out of Unit; the exponents are the defaults, 2.  *)
(* o is the record of the tunables as a user set them, out of range or     *)
(* not.  X_Y is a wrong variant of X; nothing here uses it.                *)
(***************************************************************************)
EXTENDS Integers, FiniteSetsExt

CONSTANT Unit       \* 1.0

ASSUME UnitAssumption == Unit \in Nat \ {0}

Unknown == -1

Least(a, b) == Min({a, b})
Most(a, b) == Max({a, b})
Clamp(x) == Most(0, Least(Unit, x))
Times(a, b) == (a * b) \div Unit
Either(a, b) == Unit - Times(Unit - a, Unit - b)

-------------------------------------------------------------------------------
(* ContextDegradation                                                       *)

\* The constructor: what the instance keeps of the tunables.
Degradation(o) ==
    LET start == Clamp(o.degradeStart)
    IN  [start |-> start, full |-> Most(start, Clamp(o.degradeFull)),
         floorStart |-> o.floorStart, floorFull |-> Most(o.floorStart + 1, o.floorFull),
         floor |-> Clamp(o.floor), halfLife |-> o.halfLife]

\* A window pi does not know is 0.
Known(window) == window > 0
Unlimited(d, window) == Known(window) => window * d.start >= d.floorFull * Unit

TimeCounts(d, window) == d.halfLife > 0 /\ Unlimited(d, window)
LengthCounts(d, window) == d.floorStart > 0 /\ (d.floor > 0 \/ TimeCounts(d, window))

LengthEvidence(d, tokens) ==
    IF d.floorStart <= 0 THEN 0
    ELSE Clamp(((tokens - d.floorStart) * Unit) \div (d.floorFull - d.floorStart))

\* Squared; a ramp without a span is a step.
OccupancyRamp(d, tokens, window) ==
    LET from == window * d.start
        span == window * d.full - from
        above == tokens * Unit - from
        ramp == IF span = 0 THEN Unit ELSE Clamp((above * Unit) \div span)
    IN  IF ~Known(window) \/ above <= 0 THEN 0 ELSE Times(ramp, ramp)

\* 1 - 2^-(a/T), at whole half-lives
TimeRamp(d, window, age) ==
    IF ~TimeCounts(d, window) \/ age = Unknown THEN 0
    ELSE Unit - Unit \div (2 ^ (age \div d.halfLife))

DegradationPressure(o, tokens, window, age) ==
    LET d == Degradation(o)
        length == LengthEvidence(d, tokens)
    IN  Either(Times(d.floor, length),
               Either(OccupancyRamp(d, tokens, window), Times(length, TimeRamp(d, window, age))))

\* onset, out of Unit; Unknown when nothing ever starts
Onset(o, window) ==
    LET d == Degradation(o)
        starts == (IF LengthCounts(d, window) THEN {d.floorStart * Unit} ELSE {})
                    \cup (IF Known(window) THEN {window * d.start} ELSE {})
    IN  IF starts = {} THEN Unknown ELSE Min(starts)

-------------------------------------------------------------------------------
(* CacheEconomics                                                           *)

Horizon(o) ==
    LET p == Most(0, Least((99 * Unit) \div 100, o.continuation))
    IN  Most(Unit, Least(Most(Unit, o.maxRequests * Unit), (Unit * Unit) \div (Unit - p)))

\* Unknown when the pair of lifetime and touch is not usable
WarmRemaining(ttl, touch) ==
    IF ttl <= 0 \/ touch = Unknown THEN Unit ELSE Clamp(Unit - (touch * Unit) \div ttl)

\* Out of Unit squared, so that nothing is rounded
EffectiveHorizon(o, ttl, touch) == Unit * Unit + (Horizon(o) - Unit) * WarmRemaining(ttl, touch)

ReadRate(rates, coldness) ==
    Clamp(coldness) * rates.input + (Unit - Clamp(coldness)) * rates.cacheRead
WriteRate(rates) == IF rates.cacheWrite > 0 THEN rates.cacheWrite ELSE rates.input

\* The share of the cost of going on that compacting saves
EconomicsPressure(o, rates, tokens, coldness, summaryCost, ttl, touch) ==
    LET read == ReadRate(rates, coldness) * EffectiveHorizon(o, ttl, touch)
        keep == Clamp(o.keepFraction)
        continueCost == read * tokens * Unit
        compactCost ==
            (WriteRate(rates) * Unit * Unit * Unit + read) * keep * tokens
                + Most(0, summaryCost) * Unit * Unit * Unit * Unit
    IN  IF continueCost <= 0 THEN 0
        ELSE Clamp(Unit - (compactCost * Unit + continueCost - 1) \div continueCost)

-------------------------------------------------------------------------------
(* CompactionPressure                                                       *)

\* A sample: tokens, window, coldness, rates or none, summaryCost, ttl, touch, age
EconomicsOf(o, s) ==
    IF ~s.rates.known THEN 0
    ELSE EconomicsPressure(o, s.rates, s.tokens, s.coldness, s.summaryCost, s.ttl, s.touch)

Combined(o, s) == Either(DegradationPressure(o, s.tokens, s.window, s.age), EconomicsOf(o, s))

\* Squared between start and full
Probability(o, pressure) ==
    LET span == o.full - o.start
        ramp == IF span <= 0 THEN (IF pressure > o.start THEN Unit ELSE 0)
                ELSE Clamp(((pressure - o.start) * Unit) \div span)
    IN  Times(ramp, ramp)
=============================================================================
