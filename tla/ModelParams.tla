----------------------------- MODULE ModelParams -----------------------------
(***************************************************************************)
(* Fetched model parameters: OpenRouterModelParams pulls a price list in   *)
(* the background, ParamsStore keeps the last good one on disk for the     *)
(* next process, SessionSignals asks for the rates and the cache lifetime  *)
(* of the model in use.  Ages count ticks and saturate, so no behaviour is *)
(* cut off.  The endpoint, the user's questions and pi's own rates are     *)
(* external.  X_Y is a wrong variant of X; nothing here uses it.           *)
(***************************************************************************)
EXTENDS Integers, FiniteSetsExt, SequencesExt

CONSTANTS
    Models,         \* model ids
    Urls,           \* endpoints a user may configure; NoUrl disables fetching
    NoUrl,
    OriginOf(_),    \* the origin of an endpoint
    ServedFrom(_),  \* the origin a model is served from
    Lists(_),       \* the price lists an endpoint may publish: id -> raw entry
    PiRates,        \* the rates pi declares
    Tokens,         \* prompt sizes asked about
    EnvMaxAge, EnvRetry, EnvTimeout, EnvMaxModels,  \* <<>>: unset or unparsable
    LongestDelay,   \* Node's longest timer delay
    Latency,        \* ticks a healthy endpoint takes to answer
    TtlTables,      \* serialized PI_CACHE_TTL_PROFILES
    RestartLimit    \* bound: restarts

\* A raw price is <<>> when toPerMillion finds it unusable.
RawPrice == Seq(Nat)
RawTier == [min : Int, prompt : RawPrice, read : RawPrice, write : RawPrice]
RawEntry ==
    [prompt : RawPrice, read : RawPrice, write : RawPrice, overrides : Seq(RawTier)]

ASSUME ModelParamsAssumption ==
    /\ NoUrl \notin Urls /\ {Latency, RestartLimit} \cup Tokens \subseteq Nat
    /\ \A u \in Urls : \A l \in Lists(u) : \A m \in DOMAIN l : l[m] \in RawEntry
    /\ \A table \in TtlTables :
        table.entries \in Seq([matches : SUBSET STRING, lifetimes : Seq(Int)])

-------------------------------------------------------------------------------
(* Options                                                                  *)

\* envInt: unset, unparsable or outside its bounds, the default holds
EnvInt(raw, fallback, bounds) ==
    IF raw # <<>> /\ raw[1] \in bounds THEN raw[1] ELSE fallback

MaxAge == EnvInt(EnvMaxAge, 3, Nat)
Retry == EnvInt(EnvRetry, 1, Nat)
Timeout == EnvInt(EnvTimeout, 2, 1..LongestDelay)
MaxModels == EnvInt(EnvMaxModels, 2, Nat \ {0})

\* One entry of a table: who it is for and its lifetimes.
WellFormed(entry) ==
    /\ "" \notin entry.matches
    /\ Len(entry.lifetimes) \in 1..2
    /\ \A i \in DOMAIN entry.lifetimes : entry.lifetimes[i] > 0

Profile(entry) ==
    [matches |-> entry.matches, short |-> Head(entry.lifetimes), long |-> Last(entry.lifetimes)]

DefaultProfiles == <<[matches |-> Models, short |-> 1, long |-> 2]>>

\* ttlProfiles: a malformed entry keeps the default table, an empty one has none.
TtlProfiles(table) ==
    IF table.unset \/ \E i \in DOMAIN table.entries : ~WellFormed(table.entries[i])
    THEN DefaultProfiles
    ELSE [i \in DOMAIN table.entries |-> Profile(table.entries[i])]

\* ModelTtl: the first profile that matches, 0 when there is none.
SecondsFor(profiles, model, long) ==
    LET i == SelectInSeq(profiles, LAMBDA p : model \in p.matches)
    IN  IF i = 0 THEN 0 ELSE IF long THEN profiles[i].long ELSE profiles[i].short

\* cacheTtlMs: pi's tier, else the profile, else the static fallback.
CacheTtl(profiles, tier, model, long, fallback) ==
    IF tier > 0 THEN tier
    ELSE IF SecondsFor(profiles, model, long) # 0 THEN SecondsFor(profiles, model, long)
    ELSE fallback

-------------------------------------------------------------------------------
(* Price lists                                                              *)

Or(raw, fallback) == IF raw = <<>> THEN fallback ELSE raw[1]

ClampRead(read, input) == Max({0, Min({input, read})})

Rates(raw, input) ==
    [input |-> input, cacheRead |-> ClampRead(Or(raw.read, input), input),
     cacheWrite |-> Or(raw.write, 0)]

\* Tiers without a threshold or with a free prompt are dropped.
ParseOverrides(raw, input) ==
    FoldLeft(LAMBDA out, t :
                IF t.min > 0 /\ Or(t.prompt, input) > 0
                THEN Append(out, [min |-> t.min, rates |-> Rates(t, Or(t.prompt, input))]) ELSE out,
             <<>>, raw)

\* A model without a positive prompt price has no entry.
Priced(list) == {m \in DOMAIN list : Or(list[m].prompt, 0) > 0}
ParseSnapshot(list) ==
    [m \in Priced(list) |->
        [base |-> Rates(list[m], list[m].prompt[1]),
         overrides |-> ParseOverrides(list[m].overrides, list[m].prompt[1])]]

\* tierFor, in the order of the list
TierFor_LastFit(entry, tokens) ==
    FoldLeft(LAMBDA best, t : IF tokens >= t.min THEN t ELSE best,
             [min |-> 0, rates |-> entry.base], entry.overrides).rates
TierFor(entry, tokens) ==
    FoldLeft(LAMBDA best, t : IF tokens >= t.min /\ t.min > best.min THEN t ELSE best,
             [min |-> 0, rates |-> entry.base], entry.overrides).rates

-------------------------------------------------------------------------------

VARIABLES
    url,        \* the endpoint the process is configured with
    snapshot,   \* prices in memory
    disk,       \* the last-good file
    flight,     \* refresh requests without an outcome, by age
    inFlight,   \* is there one a second caller would join?
    attempt,    \* ticks since lastAttemptAt
    list,       \* what each endpoint publishes
    healthy,    \* does the endpoint answer well and in time?
    ttl,        \* the parsed table of cache lifetimes
    answered,   \* history: models whose rates were known to a caller in this process
    restarts

vars == <<url, snapshot, disk, flight, inFlight, attempt, list, healthy, ttl, answered, restarts>>

\* bad: what of the file is damaged, the base rates (0) or a tier of a model.
\* current: history, is it all of what a list still published says of its models?
Nothing == [ok |-> FALSE, age |-> 0, source |-> NoUrl, models |-> <<>>, bad |-> {}, current |-> FALSE]
Known(s, m) == s.ok /\ m \in DOMAIN s.models
IsFresh(s) == s.ok /\ s.age < MaxAge

\* ParamsStore.load: at most MaxModels of the models with well formed base rates,
\* each with those of its tiers that are.
Whole(d, m) == \A b \in d.bad : b[1] # m
Salvaged(d, m) ==
    IF Whole(d, m) THEN d.models[m]
    ELSE LET tier == (CHOOSE b \in d.bad : b[1] = m)[2]
         IN  [d.models[m] EXCEPT !.overrides = RemoveAt(@, tier)]
Loads(d) ==
    LET valid == {m \in DOMAIN d.models : <<m, 0>> \notin d.bad}
    IN  {[d EXCEPT !.models = [m \in ms |-> Salvaged(d, m)], !.bad = {},
                   !.current = @ /\ \A m \in ms : Whole(d, m)] :
            ms \in kSubset(Min({MaxModels, Cardinality(valid)}), valid)}

\* The constructor: a snapshot of another endpoint is discarded.
Adopt_AnySource(loaded, u) == IF u # NoUrl THEN loaded ELSE Nothing
Adopt(loaded, u) == IF u # NoUrl /\ loaded.source = u THEN loaded ELSE Nothing

Boot(u, loaded, table) ==
    /\ url' = u
    /\ snapshot' = Adopt(loaded, u)
    /\ flight' = {} /\ inFlight' = FALSE
    /\ attempt' = Retry
    /\ ttl' = TtlProfiles(table)
    /\ answered' = {}

Init ==
    /\ url = NoUrl /\ snapshot = Nothing /\ disk = Nothing
    /\ flight = {} /\ inFlight = FALSE /\ attempt = Retry
    /\ list \in {l \in [Urls -> UNION {Lists(u) : u \in Urls}] : \A u \in Urls : l[u] \in Lists(u)}
    /\ healthy \in BOOLEAN
    /\ ttl = DefaultProfiles
    /\ answered = {}
    /\ restarts = 0

\* A process starts over, perhaps with another environment.
Restart ==
    /\ restarts < RestartLimit
    /\ restarts' = restarts + 1
    /\ \E u \in Urls \cup {NoUrl}, loaded \in Loads(disk), table \in TtlTables : Boot(u, loaded, table)
    /\ UNCHANGED <<disk, list, healthy>>

\* refresh(): a second caller joins the request that is out.
Refresh_Again == flight' = flight \cup {0} /\ inFlight' = TRUE
Refresh ==
    IF inFlight THEN UNCHANGED <<flight, inFlight>>
    ELSE flight' = flight \cup {0} /\ inFlight' = TRUE

\* ensure(): nothing for a model known and fresh, nor soon after an attempt.
Ensure_OnlyUnknown(m) ==
    IF url = NoUrl \/ Known(snapshot, m) \/ attempt < Retry
    THEN UNCHANGED <<attempt, flight, inFlight>>
    ELSE attempt' = 0 /\ Refresh
Ensure(m) ==
    IF url = NoUrl \/ (Known(snapshot, m) /\ IsFresh(snapshot)) \/ attempt < Retry
    THEN UNCHANGED <<attempt, flight, inFlight>>
    ELSE attempt' = 0 /\ Refresh

AppliesTo(m) == url # NoUrl /\ OriginOf(url) = ServedFrom(m)

\* session_start in a session with a model of the endpoint's origin.
SessionStart ==
    /\ \E m \in Models : AppliesTo(m)
    /\ Refresh
    /\ UNCHANGED <<url, snapshot, disk, attempt, list, healthy, ttl, answered, restarts>>

\* What signals.costRates returns.
CostRates(m, tokens) ==
    IF AppliesTo(m) /\ Known(snapshot, m) THEN TierFor(snapshot.models[m], tokens) ELSE PiRates

\* ratesFor: asked for a model of its origin, it pulls what is missing or stale.
RatesFor(m) ==
    /\ AppliesTo(m)
    /\ Ensure(m)
    /\ answered' = IF Known(snapshot, m) THEN answered \cup {m} ELSE answered
    /\ UNCHANGED <<url, snapshot, disk, list, healthy, ttl, restarts>>

Settle(f) == flight' = flight \ {f} /\ inFlight' = FALSE

\* performRefresh when the list has arrived; saving is best-effort, an empty
\* list is a failure.
Answer(f) ==
    LET new == [ok |-> TRUE, age |-> 0, source |-> url,
                models |-> ParseSnapshot(list[url]), bad |-> {}, current |-> TRUE]
    IN  /\ f \in flight
        /\ Settle(f)
        /\ IF Priced(list[url]) = {} THEN UNCHANGED <<snapshot, disk>>
           ELSE snapshot' = new /\ disk' \in {new, disk}
        /\ UNCHANGED <<url, attempt, list, healthy, ttl, answered, restarts>>

\* Aborted by the timer, or refused: the last good snapshot stays.
Fail_Forgets(f) ==
    /\ f \in flight /\ (f >= Timeout \/ ~healthy)
    /\ Settle(f)
    /\ snapshot' = Nothing
    /\ UNCHANGED <<url, disk, attempt, list, healthy, ttl, answered, restarts>>
Fail(f) ==
    /\ f \in flight /\ (f >= Timeout \/ ~healthy)
    /\ Settle(f)
    /\ UNCHANGED <<url, snapshot, disk, attempt, list, healthy, ttl, answered, restarts>>

Older(s) == [s EXCEPT !.age = IF s.ok THEN Min({s.age + 1, MaxAge}) ELSE 0]

\* Time passes; the abort timer and a healthy endpoint are punctual.
Tick ==
    /\ \A f \in flight : f < Timeout /\ (healthy => f < Latency)
    /\ attempt' = Min({attempt + 1, Retry})
    /\ snapshot' = Older(snapshot) /\ disk' = Older(disk)
    /\ flight' = {f + 1 : f \in flight}
    /\ UNCHANGED <<url, inFlight, list, healthy, ttl, answered, restarts>>

\* The endpoint publishes another list, breaks or recovers.
Publish ==
    /\ \E u \in Urls : \E l \in Lists(u) \ {list[u]} :
        /\ list' = [list EXCEPT ![u] = l]
        /\ snapshot' = [snapshot EXCEPT !.current = @ /\ snapshot.source # u]
        /\ disk' = [disk EXCEPT !.current = @ /\ disk.source # u]
    /\ UNCHANGED <<url, flight, inFlight, attempt, healthy, ttl, answered, restarts>>

Health ==
    /\ healthy' = ~healthy
    /\ UNCHANGED <<url, snapshot, disk, flight, inFlight, attempt, list, ttl, answered, restarts>>

\* The file is deleted, or base rates or a tier damaged, from outside.
LoseDisk ==
    /\ disk.ok
    /\ \/ disk' = Nothing
       \/ \E m \in DOMAIN disk.models : \E k \in 0..Len(disk.models[m].overrides) :
            disk' = [disk EXCEPT !.bad = {<<m, k>>}]
    /\ UNCHANGED <<url, snapshot, flight, inFlight, attempt, list, healthy, ttl, answered, restarts>>

Outcome == \E f \in flight : Answer(f) \/ Fail(f)

Next ==
    \/ Restart \/ SessionStart \/ Tick \/ Publish \/ Health \/ LoseDisk
    \/ \E m \in Models : RatesFor(m)
    \/ Outcome

\* A request has an outcome, time passes, and the session goes on asking.
Fairness ==
    /\ WF_vars(Outcome) /\ WF_vars(Tick)
    /\ \A m \in Models : WF_vars(RatesFor(m))

Spec == Init /\ [][Next]_vars
FairSpec == Spec /\ Fairness

-------------------------------------------------------------------------------
(* Properties                                                               *)

\* Every cache lifetime is positive, whatever the serialized table says.
LifetimesPositive ==
    \A m \in Models, long \in BOOLEAN, tier \in {0, 3} :
        CacheTtl(ttl, tier, m, long, 1) > 0

\* Types; memory never holds another endpoint's prices.
TypeOK ==
    /\ url \in Urls \cup {NoUrl}
    /\ snapshot.age \in 0..MaxAge /\ disk.age \in 0..MaxAge
    /\ snapshot.ok => snapshot.source = url
    /\ disk.ok => disk.source \in Urls
    /\ flight \subseteq 0..Max({Timeout, Latency}) /\ inFlight \in BOOLEAN
    /\ attempt \in 0..Retry
    /\ answered \subseteq Models
    /\ restarts \in 0..RestartLimit
    /\ LifetimesPositive

\* However session starts, questions and outcomes interleave, one request is
\* out at a time, and a second caller can always tell.
SingleFlight == Cardinality(flight) <= 1 /\ (inFlight <=> flight # {})

\* The tiers a published entry really asks for at a prompt size.
Applicable(raw, tokens) ==
    {t \in ToSet(raw.overrides) : t.min > 0 /\ t.min <= tokens /\ Or(t.prompt, raw.prompt[1]) > 0}
Charged(raw, tokens) ==
    LET best == {t \in Applicable(raw, tokens) : \A o \in Applicable(raw, tokens) : o.min <= t.min}
    IN  IF best = {} THEN {raw.prompt[1]} ELSE {Or(t.prompt, raw.prompt[1]) : t \in best}

\* While the endpoint publishes the list a snapshot was parsed from, be it in
\* this process or in the one that saved it, and no tier was damaged in the file it
\* was read back from, the rates given for a model are those of the tier the prompt
\* falls in, and a cache read is never dearer than the prompt.
RatesAreThePublished ==
    snapshot.ok /\ snapshot.current =>
        \A m \in {x \in Models : AppliesTo(x) /\ Known(snapshot, x)}, tokens \in Tokens :
            LET rates == CostRates(m, tokens)
            IN  /\ m \in Priced(list[url])
                /\ rates.input \in Charged(list[url][m], tokens)
                /\ rates.cacheRead \in 0..rates.input

\* Rates once given to a caller stay available to the process if every list of
\* the endpoint that has a price prices the model: no failure, timeout or empty
\* list takes them away.
LastGoodKept ==
    \A m \in answered :
        (\A l \in Lists(url) : Priced(l) = {} \/ m \in Priced(l)) => Known(snapshot, m)

\* While the endpoint stays well and publishes some price, and a model of its
\* origin is in use, its prices become fresh again and again.
StaysFresh ==
    <>[](/\ healthy /\ \E m \in Models : AppliesTo(m)
         /\ Priced(list[url]) # {}) => []<>IsFresh(snapshot)
=============================================================================
