--------------------------- MODULE IdleWarm_proofs ---------------------------
(***************************************************************************)
(* Theorems about IdleWarm, for every lifetime, grace, round trip and set  *)
(* of margins.  What must be kept is how much time is left on the timer,   *)
(* compared with the ages: of the touch the observer knows, of a refresh   *)
(* in flight, and of one that has landed unseen.                           *)
(***************************************************************************)
EXTENDS IdleWarm, TLAPS

-------------------------------------------------------------------------------
(* Ages and margins *)

\* The refresh margin lies in the second half of the lifetime.
LEMMA MarginTyped ==
    /\ RefreshMargin \in Nat /\ RefreshMargin >= MinDelay /\ RefreshMargin <= Ttl
    /\ 2 * RefreshMargin > Ttl
BY IdleWarmAssumption DEF RefreshMargin, Larger, MinDelay

LEMMA SumAtLeast ==
    ASSUME NEW a \in Int, NEW b \in Int, NEW c \in Int, NEW least \in Int,
           a + b >= least, b <= c
    PROVE  a + c >= least
OBVIOUS

LEMMA NoneIsNoTime == \A n \in Int : n # None
BY IdleWarmAssumption

LEMMA OlderTyped ==
    ASSUME NEW a \in Ages
    PROVE  /\ Older(a) \in Ages
           /\ a < Cap => Older(a) = a + 1
           /\ a >= Cap => Older(a) = a
BY IdleWarmAssumption DEF Ages, Older, Never, Cap

LEMMA TouchTyped ==
    ASSUME NEW a \in Ages, NEW b \in Ages
    PROVE  /\ Touch(a, b) \in Ages
           /\ Touch(a, b) <= a /\ Touch(a, b) <= b
           /\ Touch(a, b) = a \/ Touch(a, b) = b
BY DEF Touch, Smaller, Ages, Never, Cap

LEMMA DeferralTyped ==
    ASSUME margin \in Margins, NEW d \in Ages
    PROVE  /\ WarmDeferral(d) \in 0..Cap
           /\ margin = None => WarmDeferral(d) = 0
BY IdleWarmAssumption DEF WarmDeferral, Ages, Never, Cap

\* What arm() sets is at least what is left of the lifetime.
LEMMA ArmedTyped ==
    ASSUME margin \in Margins, NEW t \in Ages, NEW d \in Ages
    PROVE  /\ Armed(t, d) \in 0..Cap \cup {None}
           /\ t = Never => Armed(t, d) = None
           /\ t # Never => /\ Armed(t, d) \in 0..Cap
                           /\ Armed(t, d) >= Ttl - t
           /\ t # Never /\ margin = None => Armed(t, d) = Larger(MinDelay, Ttl - t)
<1>1. WarmDeferral(d) \in 0..Cap /\ (margin = None => WarmDeferral(d) = 0)
  BY DeferralTyped
<1>2. Cap \in Nat /\ Ttl <= Cap /\ MinDelay <= Cap
  BY IdleWarmAssumption DEF Cap, MinDelay
<1>3. QED
  BY <1>1, <1>2, IdleWarmAssumption DEF Armed, Disarmed, Larger, MinDelay, Ages, Never

-------------------------------------------------------------------------------
(* Type correctness *)

LEMMA InitTyped == Init => TypeOK
<1>1. Never \in Ages
  BY IdleWarmAssumption DEF Ages, Never, Cap
<1>2. QED BY <1>1 DEF Init, TypeOK, Disarmed

LEMMA ReconciledTyped == TypeOK => Reconciled \in Ages
BY DEF TypeOK, Reconciled

LEMMA TypeStep == TypeOK /\ [Next]_vars => TypeOK'
<1> SUFFICES ASSUME TypeOK, [Next]_vars PROVE TypeOK'
  OBVIOUS
<1> USE DEF TypeOK
<1>a. 0 \in Ages /\ Cap \in Ages /\ Never \in Ages
  BY IdleWarmAssumption DEF Ages, Never, Cap
<1>b. Touch(turnAge, seenAge) \in Ages /\ RealTouch \in Ages
  BY TouchTyped DEF RealTouch
<1>1. CASE Fire
  <2>1. WarmDeferral(decidedAge) \in 0..Cap
    BY DeferralTyped
  <2>2. offer' \in [observed : Ages, real : Ages] \cup {None}
    BY <1>1, <1>b DEF Fire
  <2>3. timer' \in 0..Cap \cup {None}
    BY <1>1, <2>1 DEF Fire, Disarmed
  <2>4. QED BY <1>1, <2>2, <2>3 DEF Fire, piVars, config
<1>2. CASE SessionStart
  <2>1. turnAge' \in Ages /\ landedAge' \in Ages /\ due' \in BOOLEAN
    BY <1>2, <1>a DEF SessionStart
  <2>2. seenAge' \in Ages
    BY <1>2, <2>1 DEF SessionStart
  <2>3. timer' \in 0..Cap \cup {None}
    BY <1>2, <2>1, <2>2, TouchTyped, ArmedTyped DEF SessionStart
  <2>4. QED BY <1>2, <2>1, <2>2, <2>3 DEF SessionStart, config
<1>3. CASE SessionShutdown
  BY <1>3 DEF SessionShutdown, Disarmed, piVars, config
<1>4. CASE Input
  BY <1>4, ReconciledTyped DEF Input, Disarmed, piVars, config
<1>5. CASE AgentStart
  BY <1>5 DEF AgentStart, Disarmed, config
<1>6. CASE MessageEnd
  BY <1>6, <1>a DEF MessageEnd, config
<1>7. CASE TurnEnd
  BY <1>7, ReconciledTyped DEF TurnEnd, piVars, config
<1>8. CASE AgentSettled
  <2>1. seenAge' \in Ages
    BY <1>8, ReconciledTyped DEF AgentSettled
  <2>2. timer' \in 0..Cap \cup {None}
    BY <1>8, <2>1, TouchTyped, ArmedTyped DEF AgentSettled
  <2>3. QED BY <1>8, <2>1, <2>2 DEF AgentSettled, config
<1>9. CASE WarmingDecision
  <2>1. seenAge' \in Ages
    BY <1>9, ReconciledTyped DEF WarmingDecision
  <2>2. decidedAge' \in Ages /\ refresh' \in 0..RoundTrip \cup {None}
    BY <1>9, <1>a, IdleWarmAssumption DEF WarmingDecision
  <2>3. timer' \in 0..Cap \cup {None}
    BY <1>9, <2>1, <2>2, TouchTyped, ArmedTyped DEF WarmingDecision
  <2>4. QED BY <1>9, <2>1, <2>2, <2>3 DEF WarmingDecision, config
<1>10. CASE RefreshLands
  BY <1>10, <1>a DEF RefreshLands, config
<1>11. CASE RefreshFails
  BY <1>11 DEF RefreshFails, config
<1>12. CASE Tick
  <2>1. /\ turnAge' \in Ages /\ landedAge' \in Ages
        /\ seenAge' \in Ages /\ decidedAge' \in Ages
    BY <1>12, OlderTyped DEF Tick
  <2>2. refresh' \in 0..RoundTrip \cup {None}
    BY <1>12, IdleWarmAssumption DEF Tick
  <2>3. timer' \in 0..Cap \cup {None}
    BY <1>12, IdleWarmAssumption DEF Tick, Cap
  <2>4. QED BY <1>12, <2>1, <2>2, <2>3 DEF Tick, config
<1>13. CASE UNCHANGED vars
  BY <1>13 DEF vars, piVars, config
<1>14. QED
  BY <1>1, <1>2, <1>3, <1>4, <1>5, <1>6, <1>7, <1>8, <1>9, <1>10, <1>11, <1>12, <1>13 DEF Next

\* Every variable keeps its type: no arming or deferral, however the hooks,
\* pi's warmer and the clock interleave, leaves the timer's range.
THEOREM TypeCorrect == Spec => []TypeOK
<1>1. QED BY InitTyped, TypeStep, PTL DEF Spec

-------------------------------------------------------------------------------
(* OffersAreCold *)

\* The longest delay an arming by a decision can choose where no guard defers:
\* less than the refresh margin, so the timer is off again before pi decides anew.
Short == Larger(MinDelay, Ttl - RefreshMargin)

\* No timer runs in a run.
Quiet == running => timer = None

\* What is left on the timer makes up for what the observed touch is short of.
TimerCovers == timer # None => timer + Touch(turnAge, seenAge) >= Coldest

\* pi has a decision to make only after a turn of this session, and what the
\* observer has left from another session is older than that.
StrangeTouchOlder == due /\ landedAge = Never => turnAge <= seenAge

\* A refresh in flight was decided on when the cache was that old, or a turn has
\* ended since.
FlightJustified ==
    refresh # None =>
        \/ turnAge <= refresh
        \/ /\ turnAge >= RefreshMargin /\ landedAge >= RefreshMargin
           /\ landedAge = Never => turnAge <= seenAge

\* Without the guard: a timer that runs beside a refresh in flight was armed for a
\* touch that is not older than the flight, or goes off soon.
FlightCovered ==
    margin = None /\ timer # None /\ refresh # None =>
        timer + refresh >= Ttl \/ timer <= Short

\* So it is for a refresh that has landed and was not seen; in the second case the
\* timer is off before pi's next decision shows the refresh.
UnseenCovered ==
    margin = None /\ timer # None /\ landedAge < seenAge =>
        timer + landedAge >= Ttl - RoundTrip \/ timer + landedAge <= Short

ColdInv ==
    /\ OffersAreCold
    /\ Quiet
    /\ TimerCovers
    /\ StrangeTouchOlder
    /\ FlightJustified
    /\ FlightCovered
    /\ UnseenCovered

LEMMA ShortTyped == Short \in Nat /\ Short < RefreshMargin
BY MarginTyped, IdleWarmAssumption DEF Short, Larger, MinDelay

LEMMA ColdestTyped ==
    /\ Coldest \in Int /\ Coldest <= Ttl
    /\ margin = None => Coldest = Ttl - RoundTrip
    /\ margin # None => Coldest = RefreshMargin
BY MarginTyped, IdleWarmAssumption DEF Coldest

\* An arming covers what the touch is short of.
LEMMA ArmedCovers ==
    ASSUME TypeOK, NEW turn \in Ages, NEW seen \in Ages, NEW d \in Ages,
           Armed(Touch(turn, seen), d) # None
    PROVE  /\ Armed(Touch(turn, seen), d) + Touch(turn, seen) >= Ttl
           /\ Touch(turn, seen) # Never
<1>1. Touch(turn, seen) \in Ages /\ margin \in Margins
  BY TouchTyped DEF TypeOK
<1>2. Touch(turn, seen) # Never
  BY <1>1, ArmedTyped
<1>3. Armed(Touch(turn, seen), d) >= Ttl - Touch(turn, seen)
      /\ Armed(Touch(turn, seen), d) \in 0..Cap
  BY <1>1, <1>2, ArmedTyped
<1>4. QED BY <1>1, <1>2, <1>3, IdleWarmAssumption DEF Ages, Cap, Never

LEMMA ColdInit == Init => ColdInv
BY IdleWarmAssumption
   DEF Init, ColdInv, OffersAreCold, Quiet, TimerCovers, StrangeTouchOlder,
       FlightJustified, FlightCovered, UnseenCovered, Disarmed

\* A hook that reconciles shows the newest refresh: none is left unseen.
LEMMA ReconciledSees ==
    ASSUME TypeOK
    PROVE  /\ Reconciled <= landedAge
           /\ landedAge = Never => Reconciled = seenAge
           /\ landedAge # Never => Reconciled = landedAge
BY IdleWarmAssumption DEF TypeOK, Reconciled, Ages, Never, Cap

LEMMA ColdFire == TypeOK /\ ColdInv /\ Fire => ColdInv'
<1> SUFFICES ASSUME TypeOK, ColdInv, Fire PROVE ColdInv'
  OBVIOUS
<1> USE DEF ColdInv
<1>1. UNCHANGED <<margin, running, turnAge, landedAge, refresh, due, seenAge>>
  BY DEF Fire, piVars, config
<1>2. timer = 0 /\ timer # None
  BY IdleWarmAssumption DEF Fire
<1>3. Touch(turnAge, seenAge) >= Coldest
  BY <1>2, ColdestTyped, TouchTyped, IdleWarmAssumption DEF TimerCovers, TypeOK, Ages, Cap, Never
<1>4. timer' # None => margin # None
  BY DeferralTyped DEF Fire, TypeOK, Disarmed
<1>5. OffersAreCold'
  BY <1>1, <1>3 DEF Fire, OffersAreCold, Coldest, RefreshMargin
<1>6. Quiet'
  BY <1>1 DEF Fire, Quiet, Disarmed
<1>7. TimerCovers'
  <2>1. timer' # None => timer' \in 0..Cap
    BY DeferralTyped DEF Fire, TypeOK, Disarmed
  <2>2. Touch(turnAge, seenAge) \in Int
    BY TouchTyped DEF TypeOK, Ages
  <2>3. QED
    BY <1>1, <1>3, <2>1, <2>2, ColdestTyped, IdleWarmAssumption
       DEF TimerCovers, Coldest, RefreshMargin, Touch, Cap
<1>8. StrangeTouchOlder' /\ FlightJustified'
  BY <1>1 DEF StrangeTouchOlder, FlightJustified, RefreshMargin, Never, Cap
<1>9. FlightCovered' /\ UnseenCovered'
  BY <1>1, <1>4 DEF FlightCovered, UnseenCovered
<1>10. QED BY <1>5, <1>6, <1>7, <1>8, <1>9

LEMMA ColdStart == TypeOK /\ TypeOK' /\ ColdInv /\ SessionStart => ColdInv'
<1> SUFFICES ASSUME TypeOK, TypeOK', ColdInv, SessionStart PROVE ColdInv'
  OBVIOUS
<1> USE DEF ColdInv
<1>1. UNCHANGED <<margin, offer>> /\ refresh' = None /\ running' = FALSE
  BY DEF SessionStart, config
<1>2. seenAge' <= landedAge'
  BY IdleWarmAssumption DEF SessionStart, TypeOK, Ages, Never, Cap
<1>3. OffersAreCold'
  BY <1>1 DEF OffersAreCold, Coldest, RefreshMargin
<1>4. Quiet' /\ FlightJustified' /\ FlightCovered'
  BY <1>1 DEF Quiet, FlightJustified, FlightCovered
<1>5. TimerCovers'
  <2>1. CASE timer' = None
    BY <2>1 DEF TimerCovers
  <2>2. CASE timer' # None
    <3>1. timer' + Touch(turnAge', seenAge') >= Ttl
      BY <2>2, ArmedCovers DEF SessionStart, TypeOK
    <3>2. timer' \in Int /\ Touch(turnAge', seenAge') \in Int
      BY <2>2, TouchTyped, IdleWarmAssumption DEF TypeOK, Ages, Cap
    <3>3. Coldest' = Coldest /\ Touch(turnAge, seenAge)' = Touch(turnAge', seenAge')
      BY <1>1 DEF Coldest, RefreshMargin, Touch, Smaller
    <3>4. QED BY <3>1, <3>2, <3>3, ColdestTyped, IdleWarmAssumption DEF TimerCovers
  <2>3. QED BY <2>1, <2>2
<1>6. StrangeTouchOlder'
  BY DEF SessionStart, StrangeTouchOlder, Never, Cap
<1>7. UnseenCovered'
  BY <1>2, IdleWarmAssumption DEF UnseenCovered, TypeOK, Ages, Never, Cap
<1>8. QED BY <1>3, <1>4, <1>5, <1>6, <1>7

\* The hooks that disarm.
LEMMA ColdDisarmed ==
    TypeOK /\ ColdInv /\ (SessionShutdown \/ Input \/ AgentStart) => ColdInv'
<1> SUFFICES ASSUME TypeOK, ColdInv, SessionShutdown \/ Input \/ AgentStart PROVE ColdInv'
  OBVIOUS
<1>1. UNCHANGED <<margin, offer, turnAge, landedAge, refresh, due>> /\ timer' = None
  BY DEF SessionShutdown, Input, AgentStart, piVars, config, Disarmed
<1>2. landedAge = Never => seenAge' = seenAge
  BY ReconciledSees DEF SessionShutdown, Input, AgentStart
<1>3. QED
  BY <1>1, <1>2
     DEF ColdInv, OffersAreCold, Quiet, TimerCovers, StrangeTouchOlder, FlightJustified,
         FlightCovered, UnseenCovered, Coldest, RefreshMargin, Never, Cap

\* The steps of a run, while no timer runs.
LEMMA ColdRun ==
    TypeOK /\ ColdInv /\ (MessageEnd \/ TurnEnd) => ColdInv'
<1> SUFFICES ASSUME TypeOK, ColdInv, MessageEnd \/ TurnEnd PROVE ColdInv'
  OBVIOUS
<1>1. UNCHANGED <<margin, offer, landedAge, refresh, timer>> /\ timer = None
  BY DEF MessageEnd, TurnEnd, piVars, config, ColdInv, Quiet
<1>2. OffersAreCold' /\ Quiet' /\ TimerCovers' /\ FlightCovered' /\ UnseenCovered'
  BY <1>1
     DEF ColdInv, OffersAreCold, Quiet, TimerCovers, FlightCovered, UnseenCovered, Coldest,
         RefreshMargin
<1>3. StrangeTouchOlder' /\ FlightJustified'
  <2>1. CASE MessageEnd
    <3>1. turnAge' = 0 /\ seenAge' = seenAge
      BY <2>1 DEF MessageEnd
    <3>2. refresh' # None => turnAge' <= refresh'
      BY <3>1, <1>1, IdleWarmAssumption DEF TypeOK
    <3>3. turnAge' <= seenAge'
      BY <3>1 DEF TypeOK, Ages
    <3>4. QED BY <3>2, <3>3 DEF StrangeTouchOlder, FlightJustified
  <2>2. CASE TurnEnd
    <3>1. UNCHANGED <<turnAge, due>> /\ (landedAge = Never => seenAge' = seenAge)
      BY <2>2, ReconciledSees DEF TurnEnd, piVars
    <3>2. QED
      BY <1>1, <3>1 DEF ColdInv, StrangeTouchOlder, FlightJustified, RefreshMargin, Never, Cap
  <2>3. QED BY <2>1, <2>2
<1>4. QED BY <1>2, <1>3 DEF ColdInv

\* What an arming that reconciles sets, where no guard defers and the cache is old.
LEMMA ArmedShort ==
    ASSUME TypeOK, margin = None, NEW t \in Ages, NEW d \in Ages,
           Armed(t, d) # None, t >= RefreshMargin
    PROVE  Armed(t, d) <= Short
<1>1. margin \in Margins
  BY DEF TypeOK
<1>2. t # Never /\ Armed(t, d) = Larger(MinDelay, Ttl - t)
  BY <1>1, ArmedTyped
<1>3. QED BY <1>2, MarginTyped, IdleWarmAssumption DEF Short, Larger, MinDelay, Ages

LEMMA ColdSettled == TypeOK /\ TypeOK' /\ ColdInv /\ AgentSettled => ColdInv'
<1> SUFFICES ASSUME TypeOK, TypeOK', ColdInv, AgentSettled PROVE ColdInv'
  OBVIOUS
<1> USE DEF ColdInv
<1>1. UNCHANGED <<margin, offer, turnAge, landedAge, refresh, due>> /\ running' = FALSE
  BY DEF AgentSettled, config
<1>2. /\ seenAge' <= landedAge
      /\ landedAge = Never => seenAge' = seenAge
      /\ landedAge # Never => seenAge' = landedAge
  BY ReconciledSees DEF AgentSettled
<1>3. timer' = Armed(Touch(turnAge, seenAge'), decidedAge)
  BY DEF AgentSettled
<1>t. /\ turnAge \in Ages /\ landedAge \in Ages /\ seenAge' \in Ages /\ decidedAge \in Ages
      /\ Touch(turnAge, seenAge') \in Ages
      /\ timer' \in 0..Cap \cup {None} /\ refresh \in 0..RoundTrip \cup {None}
  BY TouchTyped DEF TypeOK
<1>4. OffersAreCold' /\ Quiet'
  BY <1>1 DEF OffersAreCold, Quiet, Coldest, RefreshMargin
<1>5. TimerCovers'
  <2> SUFFICES ASSUME timer' # None PROVE timer' + Touch(turnAge, seenAge)' >= Coldest'
    BY DEF TimerCovers
  <2>1. timer' + Touch(turnAge, seenAge') >= Ttl
    BY <1>3, <1>t, ArmedCovers
  <2>2. timer' \in Int /\ Touch(turnAge, seenAge') \in Int
    BY <1>t, IdleWarmAssumption DEF Ages, Cap
  <2>3. Coldest' = Coldest /\ Touch(turnAge, seenAge)' = Touch(turnAge, seenAge')
    BY <1>1 DEF Coldest, RefreshMargin, Touch, Smaller
  <2>4. QED BY <2>1, <2>2, <2>3, ColdestTyped, IdleWarmAssumption
<1>6. StrangeTouchOlder' /\ FlightJustified'
  BY <1>1, <1>2 DEF StrangeTouchOlder, FlightJustified, RefreshMargin, Never, Cap
<1>7. FlightCovered'
  <2> SUFFICES ASSUME margin = None, timer' # None, refresh # None
               PROVE  timer' + refresh >= Ttl \/ timer' <= Short
    BY <1>1 DEF FlightCovered, Short, RefreshMargin
  <2>1. /\ timer' + Touch(turnAge, seenAge') >= Ttl
        /\ timer' \in Int /\ refresh \in Int /\ turnAge \in Int
    BY <1>3, <1>t, ArmedCovers, IdleWarmAssumption DEF Ages, Cap
  <2>2. CASE turnAge <= refresh
    <3>1. Touch(turnAge, seenAge') <= turnAge
      BY <1>t, TouchTyped
    <3>2. Touch(turnAge, seenAge') \in Int
      BY <1>t DEF Ages
    <3>3. Ttl \in Int /\ Touch(turnAge, seenAge') <= refresh
      BY <2>1, <2>2, <3>1, <3>2, IdleWarmAssumption
    <3>4. QED BY <2>1, <3>2, <3>3, SumAtLeast
  <2>3. CASE turnAge >= RefreshMargin /\ landedAge >= RefreshMargin
             /\ (landedAge = Never => turnAge <= seenAge)
    <3>1. turnAge >= RefreshMargin /\ seenAge' >= RefreshMargin
      BY <1>2, <1>t, <2>3, MarginTyped DEF TypeOK, Ages
    <3>a. Touch(turnAge, seenAge') >= RefreshMargin
      BY <1>t, <3>1, TouchTyped
    <3>2. QED BY <1>3, <1>t, <3>a, ArmedShort
  <2>4. QED BY <2>2, <2>3 DEF FlightJustified
<1>8. UnseenCovered'
  BY <1>1, <1>2, <1>t DEF UnseenCovered, Ages
<1>9. QED BY <1>4, <1>5, <1>6, <1>7, <1>8

\* pi decides when every touch it knows is as old as the refresh margin; so is then
\* what the observer sees.
LEMMA DecisionIsLate ==
    ASSUME TypeOK, StrangeTouchOlder, WarmingDecision
    PROVE  /\ turnAge >= RefreshMargin /\ landedAge >= RefreshMargin
           /\ seenAge' >= RefreshMargin /\ seenAge' <= landedAge
           /\ landedAge = Never => seenAge' = seenAge /\ turnAge <= seenAge'
           /\ landedAge # Never => seenAge' = landedAge
<1>1. turnAge \in Ages /\ landedAge \in Ages /\ seenAge \in Ages
  BY DEF TypeOK
<1>2. turnAge >= RefreshMargin /\ landedAge >= RefreshMargin
  <2>1. Touch(turnAge, landedAge) >= RefreshMargin
    BY DEF WarmingDecision, RealTouch
  <2>2. /\ Touch(turnAge, landedAge) \in Ages
        /\ Touch(turnAge, landedAge) <= turnAge /\ Touch(turnAge, landedAge) <= landedAge
    BY <1>1, TouchTyped
  <2>3. QED BY <1>1, <2>1, <2>2, MarginTyped DEF Ages
<1>3. seenAge' = Reconciled /\ due
  BY DEF WarmingDecision
<1>4. QED BY <1>1, <1>2, <1>3, ReconciledSees, MarginTyped DEF StrangeTouchOlder, Ages

LEMMA ColdDecision == TypeOK /\ TypeOK' /\ ColdInv /\ WarmingDecision => ColdInv'
<1> SUFFICES ASSUME TypeOK, TypeOK', ColdInv, WarmingDecision PROVE ColdInv'
  OBVIOUS
<1> USE DEF ColdInv
<1>1. UNCHANGED <<margin, running, offer, turnAge, landedAge>> /\ due' = FALSE
  BY DEF WarmingDecision, config
<1>2. /\ turnAge >= RefreshMargin /\ landedAge >= RefreshMargin
      /\ seenAge' >= RefreshMargin /\ seenAge' <= landedAge
      /\ landedAge = Never => seenAge' = seenAge /\ turnAge <= seenAge'
      /\ landedAge # Never => seenAge' = landedAge
  BY DecisionIsLate
<1>3. \/ timer' = timer /\ (timer # None => refresh' = None)
      \/ timer' = Armed(Touch(turnAge, seenAge'), decidedAge') /\ ~running
  BY DEF WarmingDecision, Quiet
<1>t. /\ turnAge \in Ages /\ landedAge \in Ages /\ seenAge \in Ages
      /\ seenAge' \in Ages /\ decidedAge' \in Ages
      /\ Touch(turnAge, seenAge') \in Ages /\ Touch(turnAge, seenAge) \in Ages
      /\ timer \in 0..Cap \cup {None} /\ timer' \in 0..Cap \cup {None}
      /\ refresh' \in 0..RoundTrip \cup {None}
  BY TouchTyped DEF TypeOK
<1>m. Touch(turnAge, seenAge') >= RefreshMargin
  BY <1>2, <1>t, MarginTyped, TouchTyped DEF Ages
<1>n. Touch(turnAge, seenAge)' = Touch(turnAge, seenAge') /\ Coldest' = Coldest
      /\ RefreshMargin' = RefreshMargin /\ Short' = Short
  BY <1>1 DEF Coldest, RefreshMargin, Touch, Smaller, Short
<1>4. OffersAreCold' /\ Quiet'
  <2>1. running => timer' = None
    BY <1>3 DEF Quiet
  <2>2. QED BY <1>1, <1>n, <2>1 DEF OffersAreCold, Quiet
<1>5. TimerCovers'
  <2> SUFFICES ASSUME timer' # None PROVE timer' + Touch(turnAge, seenAge') >= Coldest
    BY <1>n DEF TimerCovers
  <2>1. timer' \in Nat /\ Touch(turnAge, seenAge') \in Int
    BY <1>t, IdleWarmAssumption DEF Ages, Cap
  <2>2. CASE margin # None
    BY <1>m, <2>1, <2>2, ColdestTyped, MarginTyped
  <2>3. CASE timer' = Armed(Touch(turnAge, seenAge'), decidedAge')
    <3>1. timer' + Touch(turnAge, seenAge') >= Ttl
      BY <1>t, <2>3, ArmedCovers
    <3>2. QED BY <2>1, <3>1, ColdestTyped, IdleWarmAssumption
  <2>4. CASE margin = None /\ timer' = timer
    <3>1. timer + Touch(turnAge, seenAge) >= Ttl - RoundTrip
      BY <2>4, ColdestTyped DEF TimerCovers
    <3>a. Touch(turnAge, seenAge) <= turnAge /\ Touch(turnAge, seenAge) <= seenAge
      BY <1>t, TouchTyped
    <3>2. timer + turnAge >= Ttl - RoundTrip /\ timer + seenAge >= Ttl - RoundTrip
      BY <1>t, <2>1, <2>4, <3>1, <3>a, IdleWarmAssumption DEF Ages
    <3>3. timer + seenAge' >= Ttl - RoundTrip
      <4>1. CASE landedAge < seenAge
        <5>1. \/ timer + landedAge >= Ttl - RoundTrip
              \/ timer + landedAge <= Short
          BY <2>4, <4>1 DEF UnseenCovered
        <5>2. ~(timer + landedAge <= Short)
          BY <1>2, <1>t, <2>1, <2>4, ShortTyped, MarginTyped DEF Ages
        <5>3. CASE landedAge = Never
          BY <1>2, <3>2, <5>3
        <5>4. CASE landedAge # Never
          BY <1>2, <5>1, <5>2, <5>4
        <5>5. QED BY <5>3, <5>4
      <4>2. CASE ~(landedAge < seenAge)
        <5>1. seenAge' >= seenAge
          BY <1>2, <1>t, <4>2 DEF Ages
        <5>2. seenAge' \in Int /\ seenAge \in Int /\ timer \in Int
          BY <1>t, <2>1, <2>4 DEF Ages
        <5>3. Ttl - RoundTrip \in Int /\ seenAge <= seenAge'
          BY <5>1, <5>2, IdleWarmAssumption
        <5>4. QED BY <3>2, <5>2, <5>3, SumAtLeast
      <4>3. QED BY <4>1, <4>2
    <3>4. QED BY <1>t, <2>1, <2>4, <3>2, <3>3, TouchTyped, ColdestTyped
  <2>5. QED BY <1>3, <2>2, <2>3, <2>4
<1>6. StrangeTouchOlder' /\ FlightJustified'
  BY <1>1, <1>2, <1>n DEF StrangeTouchOlder, FlightJustified, Never, Cap
<1>7. FlightCovered'
  <2> SUFFICES ASSUME margin = None, timer' # None, refresh' # None
               PROVE  timer' + refresh' >= Ttl \/ timer' <= Short
    BY <1>1, <1>n DEF FlightCovered
  <2>1. timer' = Armed(Touch(turnAge, seenAge'), decidedAge')
    BY <1>3
  <2>2. QED BY <1>m, <1>t, <2>1, ArmedShort
<1>8. UnseenCovered'
  BY <1>1, <1>2, <1>t DEF UnseenCovered, Ages
<1>9. QED BY <1>4, <1>5, <1>6, <1>7, <1>8

LEMMA ColdLands == TypeOK /\ ColdInv /\ RefreshLands => ColdInv'
<1> SUFFICES ASSUME TypeOK, ColdInv, RefreshLands PROVE ColdInv'
  OBVIOUS
<1> USE DEF ColdInv
<1>1. /\ UNCHANGED <<margin, running, offer, turnAge, seenAge, timer>>
      /\ refresh # None /\ refresh' = None /\ landedAge' = 0
  BY DEF RefreshLands, config
<1>2. OffersAreCold' /\ Quiet' /\ TimerCovers' /\ FlightJustified' /\ FlightCovered'
  BY <1>1
     DEF OffersAreCold, Quiet, TimerCovers, FlightJustified, FlightCovered, Coldest,
         RefreshMargin, Touch, Smaller
<1>3. StrangeTouchOlder'
  BY <1>1, IdleWarmAssumption DEF StrangeTouchOlder, Never, Cap
<1>4. UnseenCovered'
  <2> SUFFICES ASSUME margin = None, timer # None
               PROVE  timer + 0 >= Ttl - RoundTrip \/ timer + 0 <= Short
    BY <1>1 DEF UnseenCovered, Short, RefreshMargin
  <2>1. timer + refresh >= Ttl \/ timer <= Short
    BY <1>1 DEF FlightCovered
  <2>2. timer \in Int /\ refresh \in 0..RoundTrip
    BY <1>1, IdleWarmAssumption DEF TypeOK, Cap
  <2>3. QED BY <2>1, <2>2, IdleWarmAssumption
<1>5. QED BY <1>2, <1>3, <1>4

LEMMA ColdFails == TypeOK /\ ColdInv /\ RefreshFails => ColdInv'
BY DEF RefreshFails, config, ColdInv, OffersAreCold, Quiet, TimerCovers, StrangeTouchOlder,
       FlightJustified, FlightCovered, UnseenCovered, Coldest, RefreshMargin, Touch, Smaller,
       Short, Never, Cap

\* A tick takes from the timer what it gives to the ages.
LEMMA ColdTick == TypeOK /\ TypeOK' /\ ColdInv /\ Tick => ColdInv'
<1> SUFFICES ASSUME TypeOK, TypeOK', ColdInv, Tick PROVE ColdInv'
  OBVIOUS
<1> USE DEF ColdInv
<1>1. UNCHANGED <<margin, running, due>> /\ offer' = None
  BY DEF Tick, config
<1>2. /\ turnAge' = Older(turnAge) /\ landedAge' = Older(landedAge)
      /\ seenAge' = Older(seenAge)
      /\ refresh' = (IF refresh = None THEN None ELSE refresh + 1)
      /\ timer' = (IF timer = None THEN None ELSE timer - 1)
  BY DEF Tick
<1>t. /\ turnAge \in Ages /\ landedAge \in Ages /\ seenAge \in Ages
      /\ turnAge' \in Ages /\ landedAge' \in Ages /\ seenAge' \in Ages
      /\ timer # None => timer \in 0..Cap /\ timer' = timer - 1 /\ timer' \in 0..Cap
      /\ timer' # None => timer # None
      /\ refresh # None => refresh \in 0..RoundTrip /\ refresh' = refresh + 1
      /\ refresh' # None => refresh # None
  <2>1. timer # None => timer' = timer - 1 /\ timer \in 0..Cap
    BY <1>2 DEF TypeOK
  <2>2. timer # None => timer' \in 0..Cap
    BY <2>1, NoneIsNoTime, IdleWarmAssumption DEF TypeOK, Cap
  <2>3. QED BY <1>2, <2>1, <2>2 DEF TypeOK
<1>c. Cap \in Nat /\ Never = Cap + 1 /\ Cap = 2 * Ttl /\ Ttl \in Nat /\ RoundTrip \in Nat
  BY IdleWarmAssumption DEF Cap, Never
<1>o. \A a \in Ages : Older(a) = IF a < Cap THEN a + 1 ELSE a
  BY DEF Older
<1>r. RefreshMargin \in Nat /\ RefreshMargin <= Ttl /\ Short \in Nat /\ Short < RefreshMargin
  BY MarginTyped, ShortTyped
<1>n. Coldest' = Coldest /\ RefreshMargin' = RefreshMargin /\ Short' = Short
  BY <1>1 DEF Coldest, RefreshMargin, Short
<1>3. OffersAreCold' /\ Quiet'
  BY <1>1, <1>2 DEF OffersAreCold, Quiet
<1>4. TimerCovers'
  <2> SUFFICES ASSUME timer' # None PROVE timer' + Touch(turnAge, seenAge)' >= Coldest
    BY <1>n DEF TimerCovers
  <2>1. timer + Touch(turnAge, seenAge) >= Coldest
    BY <1>t DEF TimerCovers
  <2>2. /\ Touch(turnAge, seenAge) \in Ages
        /\ Touch(turnAge, seenAge)' \in Ages
        /\ Touch(turnAge, seenAge)' = Older(Touch(turnAge, seenAge))
    BY <1>2, <1>t, <1>c, <1>o DEF Touch, Smaller, Ages
  <2>3. \/ Touch(turnAge, seenAge)' = Touch(turnAge, seenAge) + 1
        \/ Touch(turnAge, seenAge)' >= Cap
    BY <2>2, <1>c, <1>o DEF Ages
  <2>4. QED BY <2>1, <2>2, <2>3, <1>t, <1>c, ColdestTyped DEF Ages
<1>5. StrangeTouchOlder'
  <2>1. landedAge' = Never => landedAge = Never
    <3>1. \/ landedAge < Cap /\ landedAge' = landedAge + 1
          \/ landedAge' = landedAge
      BY <1>2, <1>t, <1>o
    <3>2. landedAge \in Int
      BY <1>t DEF Ages
    <3>3. QED BY <3>1, <3>2, <1>c
  <2>2. turnAge <= seenAge => turnAge' <= seenAge'
    BY <1>2, <1>t, <1>c, <1>o DEF Ages
  <2>3. QED BY <1>1, <2>1, <2>2, <1>c DEF StrangeTouchOlder, Never, Cap
<1>6. FlightJustified'
  <2> SUFFICES ASSUME refresh # None
               PROVE  \/ turnAge' <= refresh'
                      \/ /\ turnAge' >= RefreshMargin /\ landedAge' >= RefreshMargin
                         /\ landedAge' = Never => turnAge' <= seenAge'
    BY <1>1, <1>t, <1>n, <1>c DEF FlightJustified, Never, Cap
  <2>1. CASE turnAge <= refresh
    BY <2>1, <1>2, <1>t, <1>c, <1>o DEF Ages
  <2>2. CASE turnAge >= RefreshMargin /\ landedAge >= RefreshMargin
             /\ (landedAge = Never => turnAge <= seenAge)
    BY <2>2, <1>2, <1>t, <1>c, <1>o, <1>r DEF Ages
  <2>3. QED BY <2>1, <2>2 DEF FlightJustified
<1>7. FlightCovered'
  BY <1>1, <1>t, <1>c, <1>n, <1>r DEF FlightCovered
<1>8. UnseenCovered'
  <2> SUFFICES ASSUME margin = None, timer' # None, landedAge' < seenAge'
               PROVE  \/ timer' + landedAge' >= Ttl - RoundTrip
                      \/ timer' + landedAge' <= Short
    BY <1>1, <1>n DEF UnseenCovered
  <2>1. landedAge < seenAge
    BY <1>2, <1>t, <1>c, <1>o DEF Ages
  <2>2. timer + landedAge >= Ttl - RoundTrip \/ timer + landedAge <= Short
    BY <2>1, <1>t DEF UnseenCovered
  <2>3. landedAge' = landedAge + 1 \/ (landedAge' = landedAge /\ landedAge >= Cap)
    BY <1>2, <1>t, <1>c, <1>o DEF Ages
  <2>4. QED BY <2>2, <2>3, <1>t, <1>c, <1>r DEF Ages
<1>9. QED BY <1>3, <1>4, <1>5, <1>6, <1>7, <1>8

LEMMA ColdStep == TypeOK /\ TypeOK' /\ ColdInv /\ [Next]_vars => ColdInv'
<1>1. TypeOK /\ ColdInv /\ UNCHANGED vars => ColdInv'
  BY DEF vars, piVars, config, ColdInv, OffersAreCold, Quiet, TimerCovers, StrangeTouchOlder,
         FlightJustified, FlightCovered, UnseenCovered, Coldest, RefreshMargin, Touch, Smaller,
         Short, Never, Cap
<1>2. QED
  BY <1>1, ColdFire, ColdStart, ColdDisarmed, ColdRun, ColdSettled, ColdDecision, ColdLands,
     ColdFails, ColdTick DEF Next

\* When the idle timer asks for a compaction, the newest touch of the cache it was told of
\* is at least a lifetime less one round trip old where the guard has no margin, and at
\* least the refresh margin where it has one, for every lifetime, margin and grace.
THEOREM Cold == Spec => []OffersAreCold
<1>1. ColdInv => OffersAreCold
  BY DEF ColdInv
<1>2. QED BY <1>1, ColdInit, ColdStep, TypeCorrect, PTL DEF Spec

-------------------------------------------------------------------------------
(* GuardedOfferSeesRefresh *)

\* The grace outlasts a refresh, as idle-trigger.ts:41 means it to: "pi's refresh
\* may still be in flight when the margin elapses".
GraceCoversRoundTrip ==
    \A m \in Margins \ {None} : m + Grace > RefreshMargin + RoundTrip

\* Where the guard is given its margin and only pi decides.
Guarded == margin # None /\ ~forceWarm

\* A refresh in flight is as old as the decision that began it.
DecisionStarts == Guarded /\ refresh # None => decidedAge <= refresh

\* While the newest touch is a refresh that was not seen, pi has still to decide
\* about it, and the decision that began it is young.
UnseenIsYoung ==
    Guarded /\ landedAge < seenAge /\ landedAge < turnAge =>
        /\ due /\ refresh = None
        /\ landedAge <= RefreshMargin
        /\ decidedAge <= landedAge + RoundTrip

GuardInv ==
    /\ GuardedOfferSeesRefresh
    /\ Quiet
    /\ DecisionStarts
    /\ UnseenIsYoung

LEMMA GuardInit == Init => GuardInv
BY IdleWarmAssumption
   DEF Init, GuardInv, GuardedOfferSeesRefresh, OfferSeesRefresh, Quiet, DecisionStarts,
       UnseenIsYoung, Guarded, Disarmed, Never, Cap

\* A hook that reconciles leaves nothing unseen.
LEMMA ReconciledGuard ==
    ASSUME TypeOK, GuardInv,
           UNCHANGED <<margin, forceWarm, offer, landedAge>>,
           seenAge' = Reconciled, Quiet', DecisionStarts'
    PROVE  GuardInv'
<1>1. seenAge' <= landedAge' /\ landedAge' \in Ages /\ seenAge' \in Ages
  BY ReconciledSees, ReconciledTyped DEF TypeOK
<1>2. UnseenIsYoung'
  BY <1>1 DEF UnseenIsYoung, Ages
<1>3. QED
  BY <1>2 DEF GuardInv, GuardedOfferSeesRefresh, OfferSeesRefresh

\* When the timer goes off and nothing defers it, no refresh has landed unseen: a
\* refresh that has is young enough for its decision to defer the fire.
LEMMA OfferIsInformed ==
    ASSUME GraceCoversRoundTrip, TypeOK, GuardInv, Guarded,
           WarmDeferral(decidedAge) = 0
    PROVE  Touch(turnAge, seenAge) <= RealTouch
<1>t. /\ turnAge \in Ages /\ seenAge \in Ages /\ landedAge \in Ages /\ decidedAge \in Ages
      /\ margin \in Margins \ {None} /\ margin \in 0..(Cap - Grace)
  BY IdleWarmAssumption DEF TypeOK, Guarded
<1>1. CASE landedAge < seenAge /\ landedAge < turnAge
  <2>1. landedAge <= RefreshMargin /\ decidedAge <= landedAge + RoundTrip
    BY <1>1 DEF GuardInv, UnseenIsYoung
  <2>2. margin + Grace > RefreshMargin + RoundTrip
    BY <1>t DEF GraceCoversRoundTrip
  <2>3. ~(decidedAge >= margin + Grace)
    BY <2>1, <2>2, <1>t, MarginTyped, IdleWarmAssumption DEF Ages, Cap, Never
  <2>4. WarmDeferral(decidedAge) = margin + Grace - decidedAge
    BY <2>3, <1>t DEF WarmDeferral
  <2>5. margin + Grace - decidedAge > 0
    BY <2>3, <1>t, IdleWarmAssumption DEF Ages, Cap, Never
  <2>6. QED BY <2>4, <2>5
<1>2. CASE ~(landedAge < seenAge /\ landedAge < turnAge)
  BY <1>2, <1>t DEF RealTouch, Touch, Smaller, Ages
<1>3. QED BY <1>1, <1>2

LEMMA GuardStep ==
    ASSUME GraceCoversRoundTrip
    PROVE  TypeOK /\ TypeOK' /\ GuardInv /\ [Next]_vars => GuardInv'
<1> SUFFICES ASSUME TypeOK, TypeOK', GuardInv, [Next]_vars PROVE GuardInv'
  OBVIOUS
<1> USE DEF GuardInv
<1>1. CASE Fire
  <2>1. UNCHANGED <<piVars, seenAge, decidedAge>>
    BY <1>1 DEF Fire
  <2>2. DecisionStarts' /\ UnseenIsYoung'
    BY <2>1 DEF DecisionStarts, UnseenIsYoung, Guarded, piVars, config, RefreshMargin
  <2>3. Quiet'
    BY <1>1, <2>1 DEF Fire, Quiet, Disarmed, piVars
  <2>4. GuardedOfferSeesRefresh'
    <3> SUFFICES ASSUME Guarded, offer' # None PROVE offer'.observed <= offer'.real
      BY <2>1 DEF GuardedOfferSeesRefresh, OfferSeesRefresh, Guarded, piVars, config
    <3>1. CASE ~running /\ WarmDeferral(decidedAge) = 0
      BY <1>1, <3>1, OfferIsInformed DEF Fire
    <3>2. CASE ~(~running /\ WarmDeferral(decidedAge) = 0)
      BY <1>1, <3>2 DEF Fire, GuardedOfferSeesRefresh, OfferSeesRefresh, Guarded
    <3>3. QED BY <3>1, <3>2
  <2>5. QED BY <2>2, <2>3, <2>4
<1>2. CASE SessionStart
  <2>1. /\ UNCHANGED <<margin, forceWarm, offer>> /\ refresh' = None /\ running' = FALSE
        /\ seenAge' = IF landedAge' = Never THEN seenAge ELSE landedAge'
    BY <1>2 DEF SessionStart, config
  <2>2. ~(landedAge' < seenAge')
    BY <2>1, IdleWarmAssumption DEF TypeOK, Ages, Never, Cap
  <2>3. QED
    BY <2>1, <2>2
       DEF GuardedOfferSeesRefresh, OfferSeesRefresh, Quiet, DecisionStarts, UnseenIsYoung
<1>3. CASE SessionShutdown
  BY <1>3
     DEF SessionShutdown, piVars, config, Disarmed, GuardedOfferSeesRefresh, OfferSeesRefresh,
         Quiet, DecisionStarts, UnseenIsYoung, Guarded, RefreshMargin
<1>4. CASE Input
  <2>1. Quiet' /\ DecisionStarts'
    BY <1>4 DEF Input, Disarmed, Quiet, DecisionStarts, Guarded, piVars, config
  <2>2. QED BY <1>4, <2>1, ReconciledGuard DEF Input, piVars, config
<1>5. CASE AgentStart
  BY <1>5
     DEF AgentStart, config, Disarmed, GuardedOfferSeesRefresh, OfferSeesRefresh,
         Quiet, DecisionStarts, UnseenIsYoung, Guarded, RefreshMargin
<1>6. CASE MessageEnd
  <2>1. turnAge' = 0 /\ ~(landedAge' < turnAge')
    BY <1>6 DEF MessageEnd, TypeOK, Ages
  <2>2. QED
    BY <1>6, <2>1
       DEF MessageEnd, config, GuardedOfferSeesRefresh, OfferSeesRefresh,
           Quiet, DecisionStarts, UnseenIsYoung, Guarded
<1>7. CASE TurnEnd
  <2>1. Quiet' /\ DecisionStarts'
    BY <1>7 DEF TurnEnd, Quiet, DecisionStarts, Guarded, piVars, config
  <2>2. QED BY <1>7, <2>1, ReconciledGuard DEF TurnEnd, piVars, config
<1>8. CASE AgentSettled
  <2>1. Quiet' /\ DecisionStarts'
    BY <1>8 DEF AgentSettled, Quiet, DecisionStarts, Guarded, config
  <2>2. QED BY <1>8, <2>1, ReconciledGuard DEF AgentSettled, config
<1>9. CASE WarmingDecision
  <2>1. Quiet'
    BY <1>9 DEF WarmingDecision, Quiet
  <2>2. DecisionStarts'
    <3> SUFFICES ASSUME ~forceWarm, refresh' # None PROVE decidedAge' <= refresh'
      BY <1>9 DEF WarmingDecision, config, DecisionStarts, Guarded
    <3>1. PICK warm, forced \in BOOLEAN :
              /\ forced => forceWarm
              /\ decidedAge' = IF warm THEN 0 ELSE decidedAge
              /\ refresh' = IF warm \/ forced THEN 0 ELSE None
      BY <1>9 DEF WarmingDecision
    <3>2. warm
      BY <3>1
    <3>3. QED BY <3>1, <3>2
  <2>3. QED BY <1>9, <2>1, <2>2, ReconciledGuard DEF WarmingDecision, config
<1>10. CASE RefreshLands
  <2>1. Guarded => decidedAge <= refresh /\ refresh \in 0..RoundTrip
    BY <1>10 DEF RefreshLands, DecisionStarts, TypeOK
  <2>2. UnseenIsYoung'
    BY <1>10, <2>1, MarginTyped, IdleWarmAssumption
       DEF RefreshLands, UnseenIsYoung, Guarded, config, TypeOK, Ages, RefreshMargin
  <2>3. QED
    BY <1>10, <2>2
       DEF RefreshLands, GuardedOfferSeesRefresh, OfferSeesRefresh, Quiet, DecisionStarts, config
<1>11. CASE RefreshFails
  BY <1>11
     DEF RefreshFails, config, GuardedOfferSeesRefresh, OfferSeesRefresh,
         Quiet, DecisionStarts, UnseenIsYoung, Guarded, RefreshMargin
<1>12. CASE Tick
  <2>1. /\ UNCHANGED <<margin, forceWarm, running, due>> /\ offer' = None
        /\ timer = None => timer' = None
    BY <1>12 DEF Tick, config
  <2>2. GuardedOfferSeesRefresh' /\ Quiet'
    BY <2>1 DEF GuardedOfferSeesRefresh, OfferSeesRefresh, Quiet
  <2>3. /\ turnAge \in Ages /\ landedAge \in Ages /\ seenAge \in Ages /\ decidedAge \in Ages
        /\ turnAge' = Older(turnAge) /\ landedAge' = Older(landedAge)
        /\ seenAge' = Older(seenAge) /\ decidedAge' = Older(decidedAge)
    BY <1>12 DEF Tick, TypeOK
  <2>c. Cap \in Nat /\ Never = Cap + 1 /\ Ttl <= Cap
    BY IdleWarmAssumption DEF Cap, Never
  <2>o. \A a \in Ages : Older(a) = IF a < Cap THEN a + 1 ELSE a
    BY DEF Older
  <2>4. DecisionStarts'
    <3> SUFFICES ASSUME Guarded, refresh' # None PROVE decidedAge' <= refresh'
      BY <2>1 DEF DecisionStarts, Guarded
    <3>1. refresh # None /\ refresh' = refresh + 1 /\ refresh \in Int
      BY <1>12, IdleWarmAssumption DEF Tick, TypeOK
    <3>2. decidedAge <= refresh
      BY <3>1 DEF DecisionStarts
    <3>3. decidedAge' <= decidedAge + 1 /\ decidedAge \in Int /\ decidedAge' \in Int
      BY <2>3, <2>c, <2>o DEF Ages
    <3>4. QED BY <3>1, <3>2, <3>3
  <2>5. UnseenIsYoung'
    <3> SUFFICES ASSUME Guarded, landedAge' < seenAge', landedAge' < turnAge'
                 PROVE  /\ due /\ refresh' = None
                        /\ landedAge' <= RefreshMargin
                        /\ decidedAge' <= landedAge' + RoundTrip
      BY <2>1 DEF UnseenIsYoung, Guarded, RefreshMargin
    <3>1. landedAge < seenAge /\ landedAge < turnAge
      BY <2>3, <2>c, <2>o DEF Ages
    <3>2. /\ due /\ refresh = None
          /\ landedAge <= RefreshMargin
          /\ decidedAge <= landedAge + RoundTrip
      BY <3>1 DEF UnseenIsYoung
    <3>3. RealTouch = landedAge
      BY <2>3, <3>1 DEF RealTouch, Touch, Smaller, Ages
    <3>4. ~(landedAge >= RefreshMargin)
      BY <1>12, <3>2, <3>3 DEF Tick
    <3>5. landedAge < Cap
      BY <3>4, <2>3, <2>c, MarginTyped, IdleWarmAssumption DEF Ages
    <3>6. landedAge' = landedAge + 1
      BY <2>3, <2>o, <3>5
    <3>7. decidedAge' <= decidedAge + 1 /\ decidedAge' \in Int /\ decidedAge \in Int
      BY <2>3, <2>c, <2>o DEF Ages
    <3>8. landedAge \in Int /\ RefreshMargin \in Int /\ RoundTrip \in Int
      BY <2>3, MarginTyped, IdleWarmAssumption DEF Ages
    <3>9. refresh' = None
      BY <1>12, <3>2 DEF Tick
    <3>10. QED BY <3>2, <3>4, <3>6, <3>7, <3>8, <3>9
  <2>6. QED BY <2>2, <2>4, <2>5
<1>13. CASE UNCHANGED vars
  BY <1>13
     DEF vars, piVars, config, GuardedOfferSeesRefresh, OfferSeesRefresh,
         Quiet, DecisionStarts, UnseenIsYoung, Guarded, RefreshMargin
<1>14. QED
  BY <1>1, <1>2, <1>3, <1>4, <1>5, <1>6, <1>7, <1>8, <1>9, <1>10, <1>11, <1>12, <1>13 DEF Next

\* Where the guard is given its margin, pi's decisions are carried out as they are
\* and the grace outlasts a refresh, the timer never asks for the compaction of a
\* cache that a refresh has renewed unseen.
THEOREM GuardSees ==
    ASSUME GraceCoversRoundTrip PROVE Spec => []GuardedOfferSeesRefresh
<1>1. GuardInv => GuardedOfferSeesRefresh
  BY DEF GuardInv
<1>2. TypeOK /\ TypeOK' /\ GuardInv /\ [Next]_vars => GuardInv'
  BY GuardStep
<1>3. QED BY <1>1, <1>2, GuardInit, TypeCorrect, PTL DEF Spec

===============================================================================
