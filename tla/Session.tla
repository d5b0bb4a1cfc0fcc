------------------------------ MODULE Session ------------------------------
(***************************************************************************)
(* What the extension believes about a session's cache, and what it        *)
(* decides on it: the ledger's rows of the session, the warming observer,  *)
(* the miss classifier, the active age of the live context and the         *)
(* compaction decision.  pi appends turns, cache refreshes and compactions *)
(* to its session files; the extension sees a refresh only at its next     *)
(* hook.  The process restarts, and sessions are switched and resumed.     *)
(* X_Y is a wrong variant of X; nothing here uses it.                      *)
(***************************************************************************)
EXTENDS Pressure, SequencesExt, TLC

CONSTANTS
    Sessions, NoSession,
    Tunables,       \* records of tunables a user may have set
    Requests,       \* what a turn may report: input, read, its tier, its head's churn
    Refreshes,      \* what a refresh may report: input, read
    ShortTtl, LongTtl,  \* SessionSignals.cacheTtlMs by tier
    GapCap,         \* ageGapCapMs
    ColdRatio, WarmShare,       \* of AutocompactController, out of Unit
    MinMissInput, FlapTolerance, PartialDrop,   \* of MissClassifier, out of Unit
    MaxRows,        \* the retained window of ledger and classifier
    MaxTime,        \* bound: the clock
    MaxEntries,     \* bound: entries of all session files
    MaxStarts       \* bound: restarts and switches

ASSUME SessionAssumption ==
    /\ {ShortTtl, LongTtl, GapCap} \subseteq Nat \ {0} /\ WarmShare > ColdRatio
    /\ MaxRows >= 2 /\ NoSession \notin Sessions
    /\ {MaxTime, MaxEntries, MaxStarts} \subseteq Nat

VARIABLES
    now,        \* the clock
    current,    \* pi's session
    file,       \* pi's session files: entries in the order written
    proc,       \* the process: rows, mine and session of CacheLedger, lastWarm and
                \* confirmedAt of WarmingObserver, cls the MissClassifier,
                \* long RetentionRewriter.lastEffectiveLong, noted a head was noted and
                \* churned a churn() above 0, in any session of the process
    fed,        \* history: the rows fed since the session was adopted
    starts

vars == <<now, current, file, proc, fed, starts>>

-------------------------------------------------------------------------------
(* The ledger's view of the session                                         *)

Window(seq) == SubSeq(seq, Most(1, Len(seq) - MaxRows + 1), Len(seq))

\* useSession
OfSession_All(rows, s) == rows
OfSession(rows, s) == SelectSeq(rows, LAMBDA r : r.session = s)

\* append, with noteSessionRow and trim
Put(p, row) ==
    [p EXCEPT !.rows = Window(Append(@, row)),
              !.mine = Window(IF p.session \in {NoSession, row.session} THEN Append(@, row) ELSE @)]

LastTurnIndex(mine) == SelectLastInSeq(mine, LAMBDA r : r.kind # "warm")

LastRequest(p) == Last(p.mine)

-------------------------------------------------------------------------------
(* Signals                                                                  *)

CacheTtl(p) == IF p.long THEN LongTtl ELSE ShortTtl

\* Unknown stands for an infinite age.
SinceTurn(p) ==
    IF LastTurnIndex(p.mine) = 0 THEN Unknown ELSE now - p.mine[LastTurnIndex(p.mine)].at
SinceWarm(p) == IF p.confirmedAt = Unknown THEN Unknown ELSE Most(0, now - p.confirmedAt)
SinceTouch_TurnOnly(p) == SinceTurn(p)
SinceTouch(p) ==
    IF Unknown \in {SinceTurn(p), SinceWarm(p)} THEN Most(SinceTurn(p), SinceWarm(p))
    ELSE Least(SinceTurn(p), SinceWarm(p))

\* RowExtrasBuilder: what a row is stamped with
Stamp(p) ==
    [ttl |-> CacheTtl(p), touch |-> SinceTouch(p),
     warm |-> SinceTouch(p) # Unknown /\ SinceTouch(p) < CacheTtl(p)]

\* ContextAge.startIndex
StartIndex(branch) ==
    LET boundary == SelectLastInSeq(branch, LAMBDA e : e.type = "compaction")
    IN  IF boundary = 0 THEN 1
        ELSE IF branch[boundary].kept \in 1..(boundary - 1) THEN branch[boundary].kept
        ELSE boundary

\* ContextAge.activeMs
Gap(branch, i) == Most(0, Least(branch[i].at - branch[i - 1].at, GapCap))
ActiveAge(branch) ==
    MapThenSumSet(LAMBDA i : Gap(branch, i), (StartIndex(branch) + 1)..Len(branch))

-------------------------------------------------------------------------------
(* MissClassifier.  A row is fed once, when it is recorded.                 *)

Categories == {"cold-start", "idle-expiry", "replica-flap", "partial-miss", "other"}
NoMisses == [rows |-> <<>>, pending |-> FALSE, counts |-> [c \in Categories |-> 0]]

FullMiss(row) == row.read = 0 /\ row.input >= MinMissInput
Near(next, row) ==
    Most(next.read - row.input, row.input - next.read) * Unit <= FlapTolerance * Most(row.input, 1)
Dropped(prev, row) == prev.read > 0 /\ row.read * Unit < prev.read * (Unit - PartialDrop)

Count(c, category) == [c EXCEPT !.counts[category] = @ + 1]

\* finalizePending: the pending miss is the newest row, its predecessor the one before
Finalize(c, next) ==
    LET n == Len(c.rows)
        flap == n > 1 /\ c.rows[n - 1].read > 0 /\ next.read > 0 /\ Near(next, c.rows[n])
    IN  IF ~c.pending THEN c
        ELSE Count([c EXCEPT !.pending = FALSE], IF flap THEN "replica-flap" ELSE "other")

ClassifyNow(c, row) ==
    LET n == Len(c.rows)
        undecided == n > 0 /\ row.at - c.rows[n].at <= row.ttl
    IN  IF row.read > 0
        THEN IF n > 0 /\ Dropped(c.rows[n], row) THEN Count(c, "partial-miss") ELSE c
        ELSE IF ~FullMiss(row) THEN c
        ELSE IF undecided THEN [c EXCEPT !.pending = TRUE]
        ELSE Count(c, IF n = 0 THEN "cold-start" ELSE "idle-expiry")

Feed_NowFirst(c, row) ==
    LET d == Finalize(ClassifyNow(c, row), row) IN [d EXCEPT !.rows = Window(Append(@, row))]
Feed(c, row) ==
    LET d == ClassifyNow(Finalize(c, row), row) IN [d EXCEPT !.rows = Window(Append(@, row))]

-------------------------------------------------------------------------------
(* WarmingObserver.reconcile: the newest refresh of the file, unless it was *)
(* the last one confirmed, is confirmed and recorded as a row of the        *)
(* ledger's session.                                                        *)

WarmIn(entries) == SelectLastInSeq(entries, LAMBDA e : e.type = "warm")

Reconcile(p, s, entries) ==
    LET w == WarmIn(entries)
        row == [session |-> p.session, kind |-> "warm", at |-> now, input |-> entries[w].input,
                read |-> entries[w].read, ttl |-> 0, touch |-> Unknown, warm |-> TRUE]
    IN  IF w = 0 \/ p.lastWarm = <<s, w>> THEN p
        ELSE Put([p EXCEPT !.lastWarm = <<s, w>>, !.confirmedAt = entries[w].at], row)

\* session_start: the observer comes before the ledger's useSession.
Adopt(p, s) ==
    LET q == Reconcile(p, s, file[s])
    IN  [q EXCEPT !.session = s, !.mine = OfSession(q.rows, s), !.cls = NoMisses]

\* A new process over the persisted rows
Booted(rows) ==
    [rows |-> rows, mine |-> <<>>, session |-> NoSession, lastWarm |-> <<>>,
     confirmedAt |-> Unknown, cls |-> NoMisses, long |-> FALSE, noted |-> FALSE, churned |-> FALSE]

-------------------------------------------------------------------------------
(* pi and the hooks                                                         *)

Entry(type, u, kept) == [type |-> type, at |-> now, input |-> u.input, read |-> u.read, kept |-> kept]
NoUsage == [input |-> 0, read |-> 0]
Room == MapThenSumSet(LAMBDA s : Len(file[s]), Sessions) < MaxEntries

Init ==
    /\ now = 0 /\ current \in Sessions
    /\ file = [s \in Sessions |-> <<>>]
    /\ proc = [Booted(<<>>) EXCEPT !.session = current]
    /\ fed = <<>> /\ starts = 0

Tick ==
    /\ now < MaxTime /\ now' = now + 1
    /\ UNCHANGED <<current, file, proc, fed, starts>>

\* One request: before_provider_request settles the tier and counts churn,
\* message_end records and feeds the row, turn_end reconciles.
Turn ==
    /\ Room
    /\ \E u \in Requests :
        LET p == [proc EXCEPT !.long = u.long, !.noted = TRUE,
                              !.churned = @ \/ (u.churn /\ proc.noted)]
            row == [session |-> current, kind |-> "turn", at |-> now,
                    input |-> u.input, read |-> u.read] @@ Stamp(p)
            entries == Append(file[current], Entry("message", u, 0))
        IN  /\ file' = [file EXCEPT ![current] = entries]
            /\ fed' = Append(fed, row)
            /\ proc' = Reconcile([Put(p, row) EXCEPT !.cls = Feed(@, row)], current, entries)
    /\ UNCHANGED <<now, current, starts>>

\* pi refreshes the cache; no hook sees it land.
Refresh ==
    /\ Room /\ fed # <<>>
    /\ \E u \in Refreshes : file' = [file EXCEPT ![current] = Append(@, Entry("warm", u, 0))]
    /\ UNCHANGED <<now, current, proc, fed, starts>>

\* input, cache_warming_decision, agent_settled
Hook ==
    /\ proc' = Reconcile(proc, current, file[current])
    /\ UNCHANGED <<now, current, file, fed, starts>>

\* pi appends a compaction; 0 keeps nothing.
Compact ==
    /\ Room
    /\ \E kept \in 0..Len(file[current]) :
        file' = [file EXCEPT ![current] = Append(@, Entry("compaction", NoUsage, kept))]
    /\ UNCHANGED <<now, current, proc, fed, starts>>

SessionStart(p) ==
    /\ starts < MaxStarts /\ starts' = starts + 1
    /\ \E s \in Sessions : current' = s /\ proc' = Adopt(p, s)
    /\ fed' = <<>>
    /\ UNCHANGED <<now, file>>
Switch == SessionStart(proc)
Restart == SessionStart(Booted(proc.rows))

Next == Tick \/ Turn \/ Refresh \/ Hook \/ Compact \/ Switch \/ Restart

Spec == Init /\ [][Next]_vars

-------------------------------------------------------------------------------
(* AutocompactController, up to its cooldown and its draw                   *)

\* getContextUsage: pi knows no tokens between a compaction and the next answer.
ContextTokens ==
    LET newest(type) == SelectLastInSeq(file[current], LAMBDA e : e.type = type)
        last == file[current][newest("message")]
    IN  IF newest("message") <= newest("compaction") THEN Unknown ELSE last.input + last.read

AtLeastPercent(o, tokens, percent) ==
    tokens # Unknown /\ Known(o.window) /\ tokens * 100 >= percent * o.window

ObservedColdness(u) ==
    LET request == u.read + u.input
    IN  IF request <= 0 THEN 0
        ELSE Clamp(((WarmShare * request - u.read * Unit) * Unit) \div ((WarmShare - ColdRatio) * request))

ColdnessAt(p, touch) ==
    IF p.churned THEN Unit
    ELSE Most(ObservedColdness(LastRequest(p)), Clamp((Most(0, touch) * Unit) \div CacheTtl(p)))
Coldness(p) == ColdnessAt(p, SinceTouch(p))

\* costRates: of the tiers a model is priced in, the one the live context falls in
CostRates(o, tokens) ==
    LET reached == {t \in o.tiers : t.min <= Most(0, tokens)}
    IN  (CHOOSE t \in reached : \A r \in reached : r.min <= t.min).rates

\* pressureInput and cacheTiming
SampleAt(o, p, touch) ==
    [tokens |-> ContextTokens, window |-> o.window, coldness |-> ColdnessAt(p, touch),
     rates |-> CostRates(o, ContextTokens), summaryCost |-> IF o.neutral THEN 0 ELSE Most(0, o.summaryCost),
     ttl |-> CacheTtl(p), touch |-> touch, age |-> ActiveAge(file[current])]
Sample(o, p) == SampleAt(o, p, SinceTouch(p))

BelowMinimum(o, tokens) == o.minTokens > 0 /\ tokens < o.minTokens

\* decide: the reason, or that a draw may fire
Verdict(o, p) ==
    IF LastTurnIndex(p.mine) = 0 THEN "no usage yet"
    ELSE IF ~p.churned /\ ~o.neutral /\ Coldness(p) < o.coldFloor THEN "cache warm"
    ELSE IF ContextTokens = Unknown THEN "context below threshold"
    ELSE IF BelowMinimum(o, ContextTokens) THEN "context below minimum"
    ELSE IF Probability(o, Combined(o, Sample(o, p))) = 0 THEN "pressure below draw"
    ELSE "may fire"

PastMidtermOnset(o, tokens) ==
    \/ AtLeastPercent(o, tokens, o.midtermMinPercent)
    \/ Onset(o, o.window) # Unknown /\ tokens * Unit >= Onset(o, o.window)

\* midtermEligible, on a sample
MidtermEligible(o, s) ==
    o.midterm /\ PastMidtermOnset(o, s.tokens) /\ Probability(o, Combined(o, s)) = Unit

-------------------------------------------------------------------------------
(* Properties                                                               *)

\* Types; the windows are bounded, and what a new process knows is its own.
TypeOK ==
    /\ now \in 0..MaxTime /\ current \in Sessions /\ starts \in 0..MaxStarts
    /\ proc.session = current
    /\ Len(proc.rows) <= MaxRows /\ Len(proc.mine) <= MaxRows /\ Len(proc.cls.rows) <= MaxRows
    /\ \A r \in ToSet(proc.mine) : r.session = current
    /\ proc.confirmedAt \in {Unknown} \cup 0..now

\* The taxonomy over everything fed since the session started and not only over the
\* retained window: each full miss but the newest is in exactly one of four classes.
\* A miss of exactly MinMissInput is one, as in classifyNow; the header of the
\* classifier wants it above, and an option's comment ignores it.
Missed(k) == fed[k].read = 0 /\ ~(fed[k].input < MinMissInput)
Undecided(k) == Missed(k) /\ k > 1 /\ fed[k].at - fed[k - 1].at <= fed[k].ttl
Flap(k) == fed[k - 1].read > 0 /\ fed[k + 1].read > 0 /\ Near(fed[k + 1], fed[k])
InCategory(category) ==
    CASE category = "cold-start" -> {k \in DOMAIN fed : k = 1 /\ Missed(k)}
      [] category = "idle-expiry" -> {k \in DOMAIN fed : k > 1 /\ Missed(k) /\ ~Undecided(k)}
      [] category = "replica-flap" -> {k \in 1..(Len(fed) - 1) : Undecided(k) /\ Flap(k)}
      [] category = "other" -> {k \in 1..(Len(fed) - 1) : Undecided(k) /\ ~Flap(k)}
      [] OTHER -> {k \in DOMAIN fed : k > 1 /\ fed[k].read > 0 /\ Dropped(fed[k - 1], fed[k])}
MissesClassified ==
    /\ \A c \in Categories : proc.cls.counts[c] = Cardinality(InCategory(c))
    /\ proc.cls.pending <=> fed # <<>> /\ Undecided(Len(fed))

\* When a hook has just reconciled, a cache that was touched, by a turn or by a
\* refresh, within the cold floor of its lifetime and served half of its last
\* request is not compacted, unless compacting is free or the head churned.
NewestTouch == Max({e.at : e \in {x \in ToSet(file[current]) : x.type # "compaction"}})
WarmCacheSpared(o) ==
    /\ WarmIn(file[current]) # 0 => proc.lastWarm = <<current, WarmIn(file[current])>>
    /\ ~proc.churned /\ ~o.neutral /\ proc.mine # <<>>
    /\ Last(proc.mine).read * Unit >= WarmShare * (Last(proc.mine).read + Last(proc.mine).input)
    /\ (now - NewestTouch) * Unit < o.coldFloor * CacheTtl(proc)
    => Verdict(o, proc) # "may fire"

\* Sitting idle after a well cached request never makes compacting look worse,
\* though the horizon it is compared over shrinks, as long as the provider's
\* discount for cached input is worth the name.
Discounts(o, rates) ==
    rates.known /\ rates.cacheRead * Unit <= (2 * Unit - Horizon(o)) * rates.input
IdleOnlyRaises(o) ==
    /\ LastTurnIndex(proc.mine) # 0 /\ ContextTokens # Unknown /\ SinceTouch(proc) # Unknown
    /\ Discounts(o, CostRates(o, ContextTokens))
    /\ ~proc.churned /\ ObservedColdness(LastRequest(proc)) = 0
    => \A d \in 1..LongTtl :
        EconomicsOf(o, Sample(o, proc)) <= EconomicsOf(o, SampleAt(o, proc, SinceTouch(proc) + d))

\* Degradation is within bounds and monotone in both arguments, and nothing presses
\* up to the onset the mid-run gate asks for, whatever the tunables are.
OnsetHonest(o) ==
    LET age == ActiveAge(file[current])
        press(t, a) == DegradationPressure(o, t, o.window, a)
    IN  ContextTokens # Unknown =>
            /\ press(ContextTokens, age) \in 0..Unit
            /\ press(ContextTokens, age) <= press(ContextTokens + 1, age)
            /\ press(ContextTokens, age) <= press(ContextTokens, age + o.halfLife)
            /\ \A t \in 0..ContextTokens : t * Unit <= Onset(o, o.window) => press(t, age) = 0

\* A context that may be compacted in a run still may when it has grown, unless it has
\* grown into another price tier.
GrownStaysEligible(o) ==
    LET s == Sample(o, proc)
    IN  /\ LastTurnIndex(proc.mine) # 0 /\ ContextTokens # Unknown /\ MidtermEligible(o, s)
        /\ CostRates(o, s.tokens + 1) = s.rates
        => MidtermEligible(o, [s EXCEPT !.tokens = @ + 1])

\* The active age is the time since the first live entry that lies within the gap
\* cap after some entry: idle stretches, and what a compaction dropped, are not in it.
AgeIsActive ==
    LET branch == file[current]
        live == {branch[i].at : i \in StartIndex(branch)..Len(branch)}
        firstLive == {c \in DOMAIN branch : branch[c].type = "compaction"}
    IN  branch # <<>> =>
        /\ ActiveAge(branch) =
            Cardinality({t \in 0..(Last(branch).at - 1) : \E at \in live : at <= t /\ t < at + GapCap})
        /\ firstLive # {} /\ branch[Max(firstLive)].kept = 0 =>
            ActiveAge(branch) <= Last(branch).at - branch[Max(firstLive)].at

\* The decision rests on the cache and the context as they are, whatever the tunables.
DecisionsGrounded ==
    /\ AgeIsActive
    /\ \A o \in Tunables :
        WarmCacheSpared(o) /\ IdleOnlyRaises(o) /\ OnsetHonest(o) /\ GrownStaysEligible(o)
=============================================================================
