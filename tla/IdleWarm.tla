------------------------------- MODULE IdleWarm -------------------------------
(***************************************************************************)
(* The idle timer against pi's own cache warming: IdleTrigger, the         *)
(* WarmingObserver it reads through SessionSignals, and the hooks of       *)
(* index.ts that arm, disarm and reconcile them.                           *)
(*                                                                         *)
(* pi's warmer refreshes an idle prompt cache shortly before it expires and*)
(* writes a cache_warm entry when the refresh has landed.  The extension   *)
(* sees the decision at once but the entry only when a hook reconciles, so *)
(* the timer can act on a cache age that is no longer true.                *)
(*                                                                         *)
(* A tick is ten seconds (the one-second floors round up to a tick).       *)
(***************************************************************************)
EXTENDS Integers

CONSTANTS
    Ttl,            \* piTtlMs, in ticks: the provider's cache lifetime
    Margins,        \* what warmMarginMs() may give to the guard: a number of
                    \* ticks, or None
    Grace,          \* warmGraceMs
    RoundTrip,      \* ticks a refresh may take to land
    None

MinDelay == 1       \* minDelayMs, and the floor of refreshMarginMs
Cap == 2 * Ttl      \* bound: an age of Cap ticks stands for any older one
Never == Cap + 1    \* the age of what has not happened

ASSUME IdleWarmAssumption ==
    /\ Ttl \in Nat /\ Ttl >= 5      \* pi's tiers are 30 and 360 ticks
    /\ Grace \in Nat /\ RoundTrip \in Nat
    /\ None \notin Int
    /\ Margins \subseteq 0..(Cap - Grace) \cup {None}

VARIABLES
    margin,     \* the margin this process wires; None in index.ts
    forceWarm,  \* PI_CACHE_FORCE_WARM
    running,    \* pi: is a run going on?
    turnAge,    \* age of the session's last turn row
    landedAge,  \* age of the session's newest cache_warm entry
    seenAge,    \* WarmingObserver.confirmedAt, as an age
    decidedAge, \* WarmingObserver.decisionAt, as an age
    refresh,    \* pi: age of the refresh in flight, or None
    due,        \* pi: has it still to decide about the current expiry?
    timer,      \* ticks until the idle timer fires, or None
    offer       \* history: what was true when the timer just asked for a
                \* compaction, or None; forgotten at the next tick

config == <<margin, forceWarm>>
piVars == <<config, running, turnAge, landedAge, refresh, due>>
vars == <<piVars, seenAge, decidedAge, timer, offer>>

-------------------------------------------------------------------------------
(* Ages.  As in Compaction, X_Y is a wrong variant of X that a property      *)
(* notices; nothing here uses it.                                           *)

Ages == 0..Never
Older(a) == IF a < Cap THEN a + 1 ELSE a

Smaller(a, b) == IF a <= b THEN a ELSE b
Larger(a, b) == IF a >= b THEN a ELSE b

\* msSinceCacheTouch, from the ages of a turn and of a warm refresh
Touch(turn, warm) == Smaller(turn, warm)
RealTouch == Touch(turnAge, landedAge)

\* refreshMarginMs for a context whose model declares a tier
RefreshMargin == Larger(MinDelay, (9 * Ttl) \div 10 - 1)

\* WarmingObserver.reconcile: adopt the newest entry of the live session; a
\* session without one keeps what was seen before
Reconciled == IF landedAge = Never THEN seenAge ELSE landedAge

-------------------------------------------------------------------------------
(* IdleTrigger *)

\* warmDeferralMs, for a decision of age d
WarmDeferral_NeverEnds(d) ==
    IF margin = None \/ d = Never THEN 0
    ELSE Larger(MinDelay, margin + Grace - d)
WarmDeferral_NoGrace(d) ==
    IF margin = None \/ d >= margin THEN 0 ELSE margin - d
WarmDeferral(d) ==
    IF margin = None \/ d >= margin + Grace THEN 0
    ELSE margin + Grace - d

Disarmed == None

\* arm(), for a cache last touched t ticks ago and a decision of age d
Armed_FromLastTurn(t, d) ==
    IF t = Never THEN Disarmed ELSE Larger(MinDelay, Ttl - turnAge)
Armed_NoFloor(t, d) ==
    IF t = Never THEN Disarmed ELSE Ttl - t
Armed(t, d) ==
    IF t = Never
      THEN Disarmed
      ELSE Larger(Larger(MinDelay, Ttl - t), WarmDeferral(d))

\* The timer goes off.  A fire during a run is dropped; a young warm decision
\* puts it off; otherwise compaction is asked for, once.
Fire ==
    /\ timer = 0
    /\ timer' = IF ~running /\ WarmDeferral(decidedAge) > 0
                  THEN WarmDeferral(decidedAge) ELSE Disarmed
    /\ offer' = IF ~running /\ WarmDeferral(decidedAge) = 0
                  THEN [observed |-> Touch(turnAge, seenAge), real |-> RealTouch]
                  ELSE offer
    /\ UNCHANGED <<piVars, seenAge, decidedAge>>

-------------------------------------------------------------------------------
(* Hooks *)

Init ==
    /\ margin \in Margins /\ forceWarm \in BOOLEAN
    /\ running = FALSE
    /\ turnAge = Never /\ landedAge = Never
    /\ seenAge = Never /\ decidedAge = Never
    /\ refresh = None /\ due = FALSE
    /\ timer = Disarmed /\ offer = None

\* session_start: a reload keeps the session; otherwise it is a new session,
\* or one whose last turn and last refresh are long past.  The observer is
\* the process's, not the session's.
SessionStart ==
    /\ running' = FALSE
    /\ refresh' = None
    /\ \/ UNCHANGED <<turnAge, landedAge, due>>
       \/ turnAge' \in {Cap, Never} /\ landedAge' \in {Cap, Never} /\ due' = FALSE
    /\ seenAge' = IF landedAge' = Never THEN seenAge ELSE landedAge'
    /\ timer' = Armed(Touch(turnAge', seenAge'), decidedAge)
    /\ UNCHANGED <<config, decidedAge, offer>>

\* session_shutdown
SessionShutdown ==
    /\ timer' = Disarmed
    /\ UNCHANGED <<piVars, seenAge, decidedAge, offer>>

\* input: a prompt of the user, or a steering message during a run
Input ==
    /\ seenAge' = Reconciled
    /\ timer' = Disarmed
    /\ UNCHANGED <<piVars, decidedAge, offer>>

\* agent_start: of a prompt, or of a run another extension starts
AgentStart ==
    /\ ~running
    /\ running' = TRUE
    /\ timer' = Disarmed
    /\ UNCHANGED <<config, turnAge, landedAge, refresh, due, seenAge, decidedAge, offer>>

\* message_end, with telemetry on: a turn row; pi plans the refresh of the prefix just used
MessageEnd ==
    /\ running
    /\ turnAge' = 0
    /\ due' = TRUE
    /\ UNCHANGED <<config, running, landedAge, refresh, seenAge, decidedAge, timer, offer>>

\* turn_end
TurnEnd ==
    /\ running
    /\ seenAge' = Reconciled
    /\ UNCHANGED <<piVars, decidedAge, timer, offer>>

\* agent_settled
AgentSettled ==
    /\ running
    /\ running' = FALSE
    /\ seenAge' = Reconciled
    /\ timer' = Armed(Touch(turnAge, seenAge'), decidedAge)
    /\ UNCHANGED <<config, turnAge, landedAge, refresh, due, decidedAge, offer>>

\* cache_warming_decision: pi decides to warm or to stop; the policy may warm
\* all the same, which the observer is not told
WarmingDecision ==
    /\ due /\ refresh = None
    /\ RealTouch >= RefreshMargin
    /\ due' = FALSE
    /\ seenAge' = Reconciled
    /\ \E warm, forced \in BOOLEAN :
          /\ forced => forceWarm
          /\ decidedAge' = IF warm THEN 0 ELSE decidedAge
          /\ refresh' = IF warm \/ forced THEN 0 ELSE None
          /\ timer' = IF (warm \/ forced) /\ ~running
                        THEN Armed(Touch(turnAge, seenAge'), decidedAge')
                        ELSE timer
    /\ UNCHANGED <<config, running, turnAge, landedAge, offer>>

-------------------------------------------------------------------------------
(* pi's warmer and the clock *)

RefreshLands ==
    /\ refresh # None
    /\ refresh' = None
    /\ landedAge' = 0
    /\ due' = TRUE
    /\ UNCHANGED <<config, running, turnAge, seenAge, decidedAge, timer, offer>>

RefreshFails ==
    /\ refresh # None
    /\ refresh' = None
    /\ UNCHANGED <<config, running, turnAge, landedAge, due, seenAge, decidedAge, timer, offer>>

\* Time passes when nothing is due now.
Tick ==
    /\ timer # 0
    /\ ~(due /\ refresh = None /\ RealTouch >= RefreshMargin)
    /\ refresh # None => refresh < RoundTrip
    /\ turnAge' = Older(turnAge)
    /\ landedAge' = Older(landedAge)
    /\ seenAge' = Older(seenAge)
    /\ decidedAge' = Older(decidedAge)
    /\ refresh' = IF refresh = None THEN None ELSE refresh + 1
    /\ timer' = IF timer = None THEN None ELSE timer - 1
    /\ offer' = None
    /\ UNCHANGED <<config, running, due>>

Next ==
    \/ Fire
    \/ SessionStart
    \/ SessionShutdown
    \/ Input
    \/ AgentStart
    \/ MessageEnd
    \/ TurnEnd
    \/ AgentSettled
    \/ WarmingDecision
    \/ RefreshLands
    \/ RefreshFails
    \/ Tick

Spec == Init /\ [][Next]_vars

\* Time passes, timers fire, and pi's warmer does what it planned.
Fairness ==
    /\ WF_vars(Tick) /\ WF_vars(Fire)
    /\ WF_vars(WarmingDecision)
    /\ WF_vars(RefreshLands \/ RefreshFails)

FairSpec == Spec /\ Fairness

-------------------------------------------------------------------------------
(* Properties *)

TypeOK ==
    /\ margin \in Margins /\ forceWarm \in BOOLEAN
    /\ running \in BOOLEAN
    /\ turnAge \in Ages /\ landedAge \in Ages
    /\ seenAge \in Ages /\ decidedAge \in Ages
    /\ refresh \in 0..RoundTrip \cup {None}
    /\ due \in BOOLEAN
    /\ timer \in 0..Cap \cup {None}
    /\ offer \in [observed : Ages, real : Ages] \cup {None}

\* idle-trigger.ts:4: the timer "fires once when the provider cache TTL
\* elapses while pi is idle".  By what the extension has been told, the cache
\* is no younger than Coldest when the timer asks for a compaction, through
\* every re-arming on runs, warm decisions, reloads and session changes.  That
\* is its lifetime, but for a refresh that lands after the timer was armed and
\* is seen through a decision to stop, which does not re-arm: it makes the
\* timer early by at most a round trip.  A deferral counts from the decision
\* and not from the lifetime, and never asks before the refresh margin, at
\* which pi itself takes the cache for expiring.
Coldest == IF margin = None THEN Ttl - RoundTrip ELSE RefreshMargin
OffersAreCold == offer # None => offer.observed >= Coldest

\* signals.ts:203, msSinceCacheTouch: the age is measured from the newest
\* touch, "otherwise the idle trigger could compact a cache pi just kept
\* alive", and index.ts:296: "defer a fire while a warm decision is younger
\* than its refresh margin, so the refresh lands and resets the clock".  No
\* refresh has landed unseen when a compaction is asked for.
OfferSeesRefresh == offer # None => offer.observed <= offer.real

\* So it is where the guard is given its margin, and pi's own decision is the
\* one that is carried out.
GuardedOfferSeesRefresh == margin # None /\ ~forceWarm => OfferSeesRefresh

\* The deferral re-arms the timer from inside its own callback: it cannot do
\* so for ever.  Once pi has stopped warming, and sessions are not replaced
\* again and again (a fire that re-arms has the effect of a reload), an armed
\* timer goes off.
Stopped == ~due /\ refresh = None /\ ~running
DeferralEnds ==
    <>[][SessionStart => Fire]_vars =>
        ((timer # None /\ Stopped) ~> (timer = None \/ ~Stopped))
===============================================================================
