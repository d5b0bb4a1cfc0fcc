# A TLA+ verification of pi-cache

pi-cache is an extension of the coding agent pi that keeps the provider's prompt
cache warm and cheap: it records what each request cost, compacts the context
when the cache is cold, defers to pi's own cache warmer, and keeps the request
prefix byte-stable. This directory holds TLA+ modules for its parts with
history and concurrency, TLC runs over small instances, and TLAPS proofs.

- [The system](#the-system): the inventory
- [Modules](#modules): state and actions against the code
- [Runs](#runs): what each one shows, and its bounds
- [Fairness](#fairness), [Proofs](#proofs), [What the runs found](#what-the-runs-found)
- [Not modelled](#not-modelled) and [Plan](#plan)

## The system

All code runs in pi's process. Within a process everything is one JavaScript
thread: a handler is atomic up to its first `await`. Three things interleave with
it: pi's callbacks and hooks (in an order pi chooses), timers, and sibling pi
processes that share files under `~/.pi/agent/.pi-cache`.

| Component | State | Operations | What makes it hard, and correct |
|---|---|---|---|
| Compaction gate (`compaction-gate.ts`) | window in flight, window compacted last | `tryBegin`, `settle`, `abort`, `reset` | asked by four hooks around an `await`: one request at a time, a window once, never claimed by nobody |
| Trigger and request (`compaction-trigger.ts`, `compaction-request.ts`) | the promise of `ctx.compact()` | `tryCompact`, `request` | callbacks may be late, fail, throw or be missing |
| Before-turn trigger (`before-turn-trigger.ts`) | the prompt it holds | `handle` | the prompt must go on in every case |
| cache_compact tool (`cache-compact.ts`) | one pending request | `execute`, `takeForSettlement`, `finish`, `reset` | taken at a settled boundary, resolved there |
| Auto-compaction policy (`autocompact.ts`) | switch, turns seen, last compaction | `decide`, `midtermEligible`, `noteTurn`, `markCompacted` | the cooldown is checked at the request and restarted at its effect |
| Idle timer (`idle-trigger.ts`) | one timer | `arm`, `disarm`, `fire`, re-deferral | races pi's warmer and the user |
| Warming (`warming-observer.ts`, `-schedule`, `-policy`) | newest confirmed refresh, newest decision | `noteDecision`, `reconcile`, `decide` | a decision is not a refresh; a refresh is seen only at the next hook |
| Session signals (`signals.ts`) | none of its own | cache age, lifetime, session id | an age must count the newest touch |
| Usage ledger (`ledger.ts`) | rows, baseline of evicted rows, session rows | `record`, `recordWarm`, `useSession`, `compact`, `close` | totals = baseline + rows at every committed state, across processes |
| Ledger sink (`sink.ts`) | ledger file, lock file, last good snapshot | `append`, `transform`, `load` | siblings, crashes, stale locks, torn writes |
| Backups (`backup-store.ts`, `temp-sweep.ts`, `atomic-file.ts`) | files of a directory | `capture`, `prune`, `sweep` | siblings list and remove in one directory |
| Settings (`user-settings.ts`, `settings-switch.ts`, `constants.ts`) | stored overrides, pins, live switches | `set`, `restoreDefaults`, `load`, `save` | live, stored and pinned values must agree after a restart |
| Model parameters (`model-params.ts`, `params-store.ts`, `model-ttl.ts`) | last good snapshot, request in flight, last attempt | `ensure`, `refresh` | single flight, debounce, failure leaves last good |
| Request pipeline (`normalizer.ts`, `breakpoint-anchor.ts`, `retention.ts`, `canonicalizer.ts`, `cache-key.ts`, `markers.ts`, `prefix-head.ts`) | counters, the tier of the last request | one `apply` per stage, in order | marker budget, a stable anchor, one tier |
| Fast compaction (`fastcompact.ts`, `kept-window.ts`, `midterm.ts`, `midterm-cut.ts`, `digest.ts`) | switches, counters | `propose`, `limit`, `plan`, `draft` | never cut between a tool call and its result |
| Miss classifier (`miss-classifier.ts`) | window of rows, the pending miss | `feed`, `useSession` | a verdict that waits for the next row |
| Economics and pressure (`economics.ts`, `pressure.ts`, `context-degradation.ts`, `context-age.ts`) | none | curves over tokens and time | monotone and bounded |
| Agent tools and views (`pre-cache.ts`, `cache-state.ts`, `stats.ts`, `settings*.ts`) | a per-session budget | tool calls, rendering | |

How they interact. `index.ts` wires everything: `session_start` resets gate, timer
and tool and rebuilds the session view of the ledger; `message_end` appends a row,
which gives the current *idle window* its identity (session id and last row);
`turn_end`, `agent_settled`, `input` and the idle timer ask the trigger; the trigger
claims the window at the gate and hands pi a request; pi emits `session_compact` and
then the callback. pi's warmer emits `cache_warming_decision` and later persists a
`cache_warm` entry, which hooks reconcile. Every process appends its rows to one file.

`PROJECT.json` lists the hazards of this code at the line where each bites, with the
property that covers it or the reason none does.

## Modules

A definition named `X_Y` is a wrong variant of `X`, the kind of mistake a maintainer
could make there; `PROJECT.json` ("mutants") pairs it with the property that must
notice it. The specifications never use one.

**`Compaction`** is the coordination of compaction: gate, trigger, tool, policy
state and every hook that reaches them. A row id stands for an idle window, a slot of
`reqs` for a promise of `CompactionRequest` whose callback has not run. `Claim` is the
part of `tryCompact` before its await; `Settle` and `Refuse` are the part after it, with
what the awaiting handler then does (`Resume`): the input handler lets the prompt go on,
the settled handler finishes the explicit request and arms the timer. `Apply` is pi's
`session_compact` for such a request, which comes before its callback;
`ForeignCompact` is one pi made by itself. Each hook is one action and includes all it
calls. Occupancy, coldness, pressure and the random draw are abstracted to a free choice
(`TryCompact` may always decline); what depends on history is kept: switch, usage,
turn cooldown, window, gate. A process that replaces its session keeps the policy's
counters, as the code does, and `SessionStart` marks older requests as not its own. Nothing
cancels these: up to `MaxLate` of them are answered while a later session lives, and since the
gate compares no session, the answer may undo what the live one holds. `Intrudes` says when it
does, and `intruded` remembers it until the next session.

**`CompactionOnce`** is the abstract promise of the gate: one active window, and not
the one retired last. `GateRefined` states that `Compaction` implements it, with the
windows of the live session's requests as the active ones; a session's first intrusion
counts as its end.

**`IdleWarm`** is the idle timer in discrete time (a tick is ten seconds, the 1 s floors
round up to one) against pi's warmer. Ages replace timestamps: the last turn, the newest
refresh that really landed, the newest the observer has seen, the newest decision.
`Armed` is `arm`, `WarmDeferral` is `warmDeferralMs`, `Fire` the callback. `margin` is
what `warmMarginMs` answers to the guard: `None` in this code (see below), a number where
a caller such as the unit tests provides one. pi's warmer is external: it decides once
when the refresh margin is reached, and its refresh lands or fails within `RoundTrip`.
The decay of an age stops at `Cap` (twice the lifetime), beyond which nothing differs.

**`Ledger`** is `CacheLedger` over `FileRecordSink` with several processes. A row is a
number, the order of building; a baseline is the number of times each row is counted in
it, so a row lost or counted twice shows. Every file operation another process could come
between is a step: create the lock, examine it, remove it when stale, append, load,
rewrite (an atomic rename in the code), release. The file is rewritten only when that
changes it (`InOrder`): a row is to be evicted, or, as rows get their numbers before they
wait for the lock, two of them stand in the wrong order (`ordered`). `pc` says where a process is in
`underLock`; `Return` is what the ledger does with the result: push and trim after an
append that went through, adopt the committed or last good snapshot after a transform.
`shared` tells that the ledger's row list is the sink's own array, which `push` then
changes too. A behaviour starts with a set of faults it may meet: `race` (a sibling runs
between the two moves of clearing a stale lock), `stall` (a live holder outlives
LOCK_STALE_MS), `torn` (an append stops half way). Crashes happen always.

**`KeptWindow`** is a session that grows and is compacted again and again by
`MidtermCutPlanner` (`Plan`), `KeptWindowLimiter` (`Limit`), `FastCompactionController`
(`BoundKeptWindow`, `Summarise`) and the block folding of `SpanDigest` (`Surplus`). An
entry has a kind and a size; a result names the message that called the tool; a hidden
entry has no messages. pi's projection and `findCutPoint` are external: the cut is any
place before a message that is not a tool result, hidden entries in front of it included,
so every size of budget is covered at once. A digest block is its turn lines,
and a line is the messages of its turn (`TurnLines`, `Build`): `Shown` is the block's cap,
`Surplus` the cap on the region. What a line says (snippets, commands, errors, tool names),
file lists and `!` executions are left out; all lines have one length, so a cap in
characters is a number of lines, and a turn that holds nothing but results without an error
has no line. What only a count stands for is kept as the messages it counts: `elided` those cut
off at each block's cap, which stay with the block, `shed` those of the blocks dropped in the last
`Compose`, `forgotten` those an earlier summary counted so, for `extract` reads the blocks back and not that
count. A hidden entry may come anywhere, between a call and its result too; `exposed` remembers the
results such an entry separates from their call. Switches are a free
choice at each compaction (`NoDigest`, `PiCompact`), and a budget of 0 also stands for a
session without a projection. When the compaction is asked for belongs to `Compaction`;
the two share no state but the boundary draft, so they are checked apart.

**`Settings`** is the way of a choice from the environment, the stored file or the default
to the part of the extension that owns the switch, and back. `Options` and `Wire` are a
start; `Set` and `Restore` are the switch board's; `Toggle`, `OpenView` and the rest are
the /cache-settings command. `live` is what the owners hold, which need not be what the
file says: `fastCompaction` has two owners (`neutral` is the policy's copy), and two rows
(`NotWired`) are never given their option. A save loads, merges, and renames later
(`write`), so that siblings and a crash come between; it may fail. `overlap` remembers
whether two saves did.

**`ModelParams`** is `OpenRouterModelParams`, `ParamsStore`, `ModelTtl` and the signals
that read them. `snapshot` is the memory, `disk` the last-good file, `flight` the ages of the
requests really out, `inFlight` what the code believes of them, `attempt` the debounce.
The endpoint publishes lists and may be ill; a process restarts with another endpoint, other
options or a damaged file, from which `Loads` keeps what is valid: a model
without its damaged tier (`Salvaged`), and of a model with a damaged base nothing. Ages saturate where
only comparisons matter, and the clock never runs backwards.

**`Pipeline`** sends a growing history through the five stages of
`before_provider_request`, composed in `Transform` as in the handler. A payload has a
system prompt (of Anthropic's shape, or as a message), tools and messages of several
blocks; a mark is the tier of a `cache_control`. Entries of the listing have a key and a
body, so an order shows; a hash is what it hashes. `before` keeps the anchor of the request
sent before, `firstHead` what first left.

**`Pressure`** has no state: it is the arithmetic of `ContextDegradation`, `CacheEconomics` and
`CompactionPressure` over a record of tunables, in fixed point. **`Session`** extends it with
what the formulas are applied to: the session's rows in the ledger (`Put`), the observer's
reconcile (`Reconcile`), the miss classifier (`Feed`, `ClassifyNow`, `Finalize`), the active
age, and the verdict (`Verdict`, `MidtermEligible`). pi appends turns, refreshes and
compactions to session files; the process sees a refresh at its next hook, restarts, and
adopts or resumes a session. Rates are those of the price tier the live context falls in
(`CostRates`); churn is the process's, counted from its second head on, whatever session that is in.
`Compaction` leaves the verdict free and `Session` leaves the
coordination out: between them every path through `decide` is checked, but not at once.

**`Backups`** is the directory the siblings share. `Copy` and `Rename` are a capture, `Sweep`,
`ReadDir`, `Stat` and `Visit` a prune; `Crash` may come after each. The ledger's lock is not
assumed to exclude, because a stale lock may be taken over; a starting process prunes without
it anyway. `quiet` marks a prune that nothing disturbed, the only one that can promise a bound.

An `MC` module gives TLC the instance of the module it is named for. A `_proofs` module
holds the theorems about the module it is named for, after the lemmas it needs of
finite sets, sequences and the folds of the community modules.

## Runs

| Run | Instance | Shows |
|---|---|---|
| `compaction` | 2 sessions, 2 slots, 1 request left behind, 2 rows, cooldown of 2 turns | type; until an intrusion at most one request and no window compacted twice; no claim nobody will release; automatic compactions spaced by the cooldown; the gate's abstract promise; a held prompt goes on; an explicit request ends |
| `idle` | lifetime 10, margin 8 or none, grace 3, round trip 2 ticks | type; what the timer asks to compact was touched, by what it was told, a lifetime ago less a round trip at most, or a refresh margin ago where the guard has one; with a margin no refresh landed unseen; the deferral ends |
| `idle_unguarded` | the same without a margin | violation: a refresh landed unseen |
| `ledger` | 2 processes, window of 2, 3 rows, no fault or all faults | type; the file counts each row once; the lock excludes; nobody counts a row too often |
| `ledger_stale_lock` | only the race | violation: a committed row is lost in a rewrite that evicts or reorders |
| `kept_window` | 5 messages of 1 or 4 tokens, caps of 2 and 4, 1 foreign hidden entry anywhere, 3 compactions, digest caps of 2 | type and digest caps; no orphaned tool result and no message lost, exposed results excepted; nothing recorded twice or out of order; the context is bounded |
| `settings` | 2 processes, 2 rows, 3 starts, 3 edits, 1 hand edit, failing saves | type; pins and the two owners of one row agree; an open view shows what is live where no pin is, up to its restore row; a restart has pin, else last saved choice, else default |
| `settings_env` | 1 process, the rows anchor and fast compaction | violation: an environment value is not applied at a start |
| `params` | 2 endpoints, 2 models, 4 tiers, 2 restarts, lifetime 2, debounce 1, latency 1 | type; one request at a time; rates are those of the published tier, damaged tiers excepted; a price once given is not lost within a process; prices become fresh again |
| `pipeline` | 5 providers, 4 messages of 0, 1 or 3 blocks, 3 tool lists, 2 listings, 2 requests, 1 compaction | type; marker budget, pi's breakpoints and one tier; a steady anchor; canonical wire head and key; no uncounted churn |
| `session` | 2 sessions, window of 2 rows, 3 entries, 4 moments, 1 restart or switch, 3 tunings, two of them with a second price tier | type; the verdicts of the whole sequence; a grounded decision |
| `backups` | 2 processes, 3 captures, ring of 2, sizes 1, 3, 6 under a cap of 5, lifetime 1 | type and budgets; the newest copy survives and an undisturbed prune bounds the directory |

Why the bounds are enough. *Compaction*: two sessions are what replacing and coming back
takes; two rows give a session a window and the one after it, or each session one (an older window
comes back when its session does); a second slot is there so
that two requests at once are possible and their absence means something, and so that one
session's late answer meets the claim of the next; a cooldown of
two turns separates "just compacted", "one turn later" and "elapsed" (the count
saturates at the cooldown, and only comparisons with it matter). *IdleWarm*: 10, 8 and 3
keep the order of 300 s, 260 s and 30 s (the margin is before the expiry, margin plus grace
after it), and the round trip is shorter than the grace, as the code's comment assumes.
*Ledger*: with a window of two the third row makes one process evict what its sibling
still has in memory, and every process reaches the periodic compaction; two processes
suffice for both ends of each race, and a third lock clearer adds none that two and a
crash do not show.
*KeptWindow*: a prompt, a call with two results and one message more is the smallest session
in which the limiter can stop before, between and after the results; a message of 4 exceeds
the cap of 2 alone, fills that of 4 and makes it too small for anything besides, and two of 1 are under
both; a session without a projection (budget 0) is left to the theorems, which hold for every budget; the second compaction meets the first's summary and
may drop its block, and the third forgets the count of it; with caps of two, three turns overflow a
block and two blocks a region. *Settings*: one row with two owners, one that defaults to off, and three
starts are a process, its sibling and a restart; three edits are a save, an
overlapping one and one that builds on either. *ModelParams*: two endpoints so that a file of
one meets the other; tiers out of order, one free and one at zero, prompts on, under and over each
boundary; two restarts bring an endpoint back. *Pipeline*: a quantum of 3 and a margin of 2 stand for 24
and 20, so four messages of up to three blocks reach the third anchor position; an anchor
can move, or stay, between two requests, and a compaction between them starts over.
*Session*: a window of two evicts the first of three rows; four moments are within a
lifetime, on it and past it at both tiers; inputs are on the floor of 2 and above it, and contexts
on both sides of the price boundary at 7; the three tunings are the defaults on a small window,
values out of range with an unknown window, and a window too large for occupancy.
Unit is twenty, so that percentages in the defaults are whole. *Backups*: three files are one
above the ring, the sizes one that blocks a smaller one, one that does not, and one above
the cap; lifetime 1 under a clock of 2 expires the first and not the last.

`Compaction`, `IdleWarm` and `Ledger` check deadlock: none of their instances stops. The others
end when their bounds are used up (`ModelParams` when nobody asks), so their runs do not.

## Fairness

Safety runs assume none. `Compaction!FairSpec` assumes that pi answers each request it
was handed by one of its callbacks, also after its session is gone (`compact()` always ends
in `onComplete` or `onError`; a missing or throwing `compact` is answered by `CompactionRequest`
itself). No hook is fair: users may never type, runs may last, a prompt need not start one.
`IdleWarm!FairSpec` assumes that time passes, that a timer that is due fires, and that pi's warmer decides when its timer is due and its refresh
ends. `DeferralEnds` also assumes that sessions are not replaced for ever, which the
property says itself. `ModelParams!FairSpec` assumes that a request has an outcome (the
fetch is aborted after its timeout), that time passes, and that each model goes on being
asked for: an agent that is never used again does not refresh, since only `ensure` does.
That the endpoint is well from some time on is the premise of `StaysFresh`.

## Proofs

TLC checks the instances above; the theorems hold for all sets of sessions, slots,
processes, rows and models, every size, lifetime, budget and cap, and every bound. Each
module's named `ASSUME` is all that is asked of its constants; where a theorem asks for
more, it says so in its own `ASSUME` and below.

| Module | Theorems | Asked besides |
|---|---|---|
| `Compaction_proofs` | `TypeCorrect`, `ClaimsOwned`, `Inductive`, `Serialized`, `CompactedOnce`, `AutomaticSpaced`, `Refines` | |
| `Ledger_proofs` | `TypeCorrect`, `LockExcludes`, `Honesty`, `Conservation` | |
| `IdleWarm_proofs` | `TypeCorrect`, `Cold` | |
| | `GuardSees` | `GraceCoversRoundTrip` |
| `Settings_proofs` | `TypeCorrect`, `LiveAgrees`, `ViewLive`, `RestartKeeps` | |
| `ModelParams_proofs` | `TypeCorrect`, `OneRequest`, `LastGood`, `RatesPublished` | |
| `Backups_proofs` | `TypeCorrect`, `Retained` | |
| `Pipeline_proofs` | `TypeCorrect`, `MarkersAreKept`, `HeadIsCanonical`, `AnchorIsSteady`, `UnchurnedHeadStays` | |
| `KeptWindow_proofs` | `TypeCorrect`, `ResultsHaveCalls`, `KeptIsBounded`, `NothingIsLost`, `ToldInOrder` | |

**Compaction.** A claim is written together with its request, `settle` clears every claim and
`abort` only its own, so types and `ClaimsOwned` hold through every late answer. The other
theorems hold for a session until the answer to an earlier session's request has undone what its
gate held (`~intruded`); without that premise TLC violates `AtMostOneInFlight` (see below), so it is
needed, and it is reset with the gate. `AtMostOneInFlight`
is not inductive, since nothing in it says that the outstanding request is the claimed one.
`IInv` adds, until then: a request of the live session is for the window in flight (`Exclusive`),
the window the gate remembers is older than the one being compacted and no older than any
compacted before (`Monotone`), and a request made automatically was made with the gap open
(`Spaced`). At any time, no request, of whatever session, is for a row yet to come (`RowsGrow`): a
late answer can retire a window of an earlier session, and also, when that session has come back, an old
one of the live session. And at any time the controller's count of turns is at most the true gap
(`Counted`), so a boundary draft is spaced even after an intrusion. From it
follow `Serialized`, `CompactedOnce`, `AutomaticSpaced` and `Refines`, which maps
each action to a step of `CompactionOnce` or a stutter, and an intrusion to the end of a session.

**Ledger.** Lemmas on snapshots first: folding moves rows into the baseline and changes no count,
adding a row that was not counted counts it once. `LockExcludes` rests on `MutexInv`:
while somebody is inside the lock file exists and is fresh, so nobody finds it stale.
`Honesty` holds under every fault; it needs `Fresh` (a row under way is new and
nobody else's) and, for the file, the memory and the last good snapshot of each process
alike, that no row counts more than it was written (`HonestInv`): counting in the file
alone is not inductive, because the file is rewritten from snapshots. `Conservation`
adds `Synced`: without faults, who has loaded the file holds what it still says, which
`MutexInv` keeps true.

**IdleWarm.** `OffersAreCold` speaks of the moment a timer goes off; `ColdInv` of the whole way
there. What is left on the timer makes up for what the observed touch is short of (`TimerCovers`),
and the ages can fall behind the timer's back in one way only: a refresh lands. So `ColdInv`
follows a refresh from its decision (`FlightJustified`) over its flight (`FlightCovered`) to where it has
landed and was not seen (`UnseenCovered`): either the timer was set for a later touch, or it goes off
before pi's next decision shows the refresh. `GuardSees` needs that the grace outlasts a refresh,
which the code's comment states as its purpose (`idle-trigger.ts:41`): then the decision that began an
unseen refresh is still young (`UnseenIsYoung`) whenever the guard is asked.

**Settings.** `TypeInv` keeps every document within the keys of the settings and what is in an open view
within its rows. `LiveAgrees` and `ViewLive` go together: a toggle reads the view and writes the owners.
`RestartKeeps` is an action property. It rests on `ChoicesInv`: while no save landed over one
it had not read, the file says what was chosen (`FileAgrees`), and a document about to be renamed says it
too, together with the edit it makes, unless a sibling renamed since it was read (`WritesAgree`).

**ModelParams.** `ParamsInv` says that the belief and the truth about requests agree (`OneFlight`), that memory
holds only lists of the endpoint in use (`InUse`), and that a snapshot, in memory or on disk, is what
parsing its endpoint's list gives while that list is published (`Published`). `LastGood` adds that an
answered question is still answered after each step. `RatesPublished` goes down to the two loops of the
code: the lemmas `TierForScans` and `ParseOverridesCollects` say what a scan has found after each tier, in
whatever order the tiers come.

**Backups.** `BackupsInv`: names are unique among all files anybody has in view (`Unique`), the newest stored
copy within the cap is newer than all others and still to be visited or kept wherever a walk is
(`NewestIs`), and a prune that nothing has disturbed so far knows exactly what it kept and has removed the rest
(`Progress`). The sum of sizes is a fold over a set; `BytesAdd` shows that one more file adds its size.

**KeptWindow.** `Orderly` describes the context: ids are distinct, a summary comes first or not at all, and, unless
it is exposed, a result stands behind its call or another result of
it, and an open call is the last message (`CallOpen`). Cuts, the limiter's boundary and what pi keeps are then
tails of the context that begin with no result but an exposed one, which gives `ResultsHaveCalls`; the sum of the sizes of a tail gives `KeptIsBounded`.
For what the summary tells, the ids in the context rise (`Ascends`), so do those of the digest's blocks, line by
line (`Filed`), the digest's are below the context's, none of them is or was counted as omitted, and with
these and the exposed results they are all there are (`Filing`); together this is `Accounted`. A compaction moves the ids
in front of what is kept: `PlanSpan` and `LimitSpan` show that the planner's history and prefix and the
limiter's dropped entries tell exactly that part of the context, once and in order, `BuildTells` that its turn
lines do, and `SummariseFiles` that each of them ends up in a block or in the count. `NothingIsLost`,
`ToldInOrder` and, with the caps of `Capped`, `TypeCorrect` follow. An exposed result can begin the
context, and a turn of exposed results alone has no line: what the lines tell is then part of the span, all of it
but these (`Divided`), so the order and the caps hold without exception, and the other two need theirs.

**Pipeline.** What is sent is a function of what pi built, so most of the proof is about one payload.
`Carries` says where marks may be: pi's places, at most one message more, and the last block of each. `BuildIs`
and `BuildMessages` show it of pi's payload, and one lemma for each stage (`NormalizeIs`, `AnchorIs`,
`RetainIs`, `CanonicalizeIs`, `ShareKeyIs`) what that stage does to it; `TransformIs` puts them together as `Wired`.
`MarkersAreKept` and `HeadIsCanonical` compare the two payloads: counting marks is comparing two sets of places
(`CountGrows`), and that the canonicalizer's sort orders a listing and keeps its entries is
`CanonicalTextSorts`. The other two properties relate requests and need an invariant each. `AnchorBase`: the
last payload has the blocks of the history up to where it was sent, its anchor is on the first message that
reaches the position of the rule (`Settled`), and the anchor before it was so in messages that this payload
continues (`Earlier`); depths agree on the common part and quanta grow, so the anchor cannot go back (`SteadyIs`). The
property alone is not inductive, for it does not say of which history the older anchor was. `HeadBase`: what left
last is determined by the head last noted, and the first head that left by the same one as long as
churn is zero; a head of that form leaves as one message and the tools (`WireOfHead`).

**Folds.** A fold of the community modules is a recursion over the subsets of a finite set. The
induction these proofs need goes by a minimal counterexample, which is a set and not a
predicate: a nonempty set of subsets has a minimal one, so two functions that follow the recursion
agree (`RecursionIsUnique`) and there is one that does (`Recursion`). What a fold over a sequence
does is then shown index by index (`IndexRecursion`). Each module that needs these lemmas has its own
copy of them.

Only model-checked:

- liveness (`DeferredPromptGoesOn`, `ExplicitRequestResolved`, `DeferralEnds`, `StaysFresh`): the prover
  does not treat fairness and ENABLED;
- `Session`: `DecisionsGrounded` compares quotients of products, which the arithmetic of the
  solver does not decide; `TypeOK` and `MissesClassified` await their proof;
- `Pressure`, of which nothing is claimed but through `Session`.

## What the runs found

Three runs show a disagreement of the code with its own words:

1. The warm guard never defers in the extension (`idle_unguarded`): the trigger calls
   `warmMarginMs()` without the context its wiring needs.
2. Two processes can both clear a stale lock (`ledger_stale_lock`), and a committed row is
   overwritten by a rewrite that began before it, one that had a row to evict or to put in order.
3. The breakpoint anchor is built without its option (`settings_env`): `PI_CACHE_ANCHOR=off`
   and a stored `anchor: false` do nothing at a start.

Further ones appear by changing one constant of a passing run or by dropping the premise named here
from a property, or are plain in a definition:

- *A late answer undoes someone else's claim.* A session start resets the gate (`index.ts:316`) and cancels no
  request. When the old one is answered, `settle` (`compaction-gate.ts:30`) compares nothing, and
  `abort` (`:40`) only the key, which is the same when the session has come back without a new turn. The live
  claim is gone with its request still out, a second `ctx.compact()` follows and would abort the first, and a window
  may be compacted twice; `AtMostOneInFlight` and `WindowsCompactOnce` without `~intruded`.
- *A row after a torn write is lost though its append succeeded.* `appendBytes` does not look
  for a final newline (`sink.ts:159`); `FileCountsAppended` with `FaultSets = {{"torn"}}`.
- *Shown totals fall for a while* after a compaction that cannot get the lock: the fallback
  (`sink.ts:83`) is older than what was counted since. The next transform repairs it.
- *The limiter takes an entry without messages for a safe start* even before a tool
  result (`canStartAt`, `kept-window.ts:98-100`), where its header promises "never an orphan tool result" (`:17`);
  `index.ts:276` appends such entries whenever a request fails, also while tools run. `NoOrphanResult`
  and `NothingLost` without `exposed`: the result can also be a turn of the span that has no line.
- *What a summary counts as omitted, the next one forgets.* `compose` (`digest.ts:157-173`) counts the blocks it
  shifts out itself, and `extract` (`:133-150`) does not read the count before: one more compaction, and nothing
  tells that there was anything earlier. No comment promises a running count; `NothingLost` without `forgotten`.
- *The classifier contradicts itself at the input floor.* Its header counts a full miss "with input above a floor"
  (`miss-classifier.ts:5-6`, `:31`), an option's comment says those "at or below this size are ignored" (`:39`), and the
  code counts a miss at the floor (`:108`). `MissesClassified` says what the code does, and a run's input is
  on the floor.
- *Growth over a price boundary can end mid-run eligibility.* Rates are those of the tier the live context is
  in (`autocompact.ts:322`, `model-params.ts:246`); where the dearer tier discounts cached input more, the larger
  context is less worth compacting. `GrownStaysEligible` without the premise of equal rates.
- *A damaged tier is dropped and its model kept* (`params-store.ts:97-103`): sizes of that tier get the rates of a lower
  one until a refresh. `RatesAreThePublished` excludes such a snapshot.
- *A boundary draft asks pi to continue with no tail* when the last result alone exceeds the
  cap, where `index.ts:425` promises a tail that ends on a tool result.
- *missDiagnosis does not survive.* It is saved, but is not among the keys the loader keeps
  (`user-settings.ts:75`), and its owner is never given its option.
- *The view keeps the old values* of its rows after its own restore row was used.
- *The head whose churn is counted leaves out Anthropic's `system`*, though `normalizer.ts:111` says
  "tools + leading system"; and it is taken before the listing is ordered, so a new order
  counts as churn although the wire head is the same. The count is never reset and, once above
  zero, the policy takes the cache for cold.
- *Where the system prompt is a message and pi marks it, no anchor is ever placed*: that mark, at
  position 1, passes for an explicit earlier breakpoint.
- *A resumed session counts a refresh twice*: reconcile runs before the session is adopted
  (`warming-observer.ts:63-66` says otherwise). Of several unseen refreshes only the newest gets a row.
  A resumed session's first miss counts as a cold start. Idle expiry looks at fed rows only.
- *After churn the economic pressure falls with idle time*; `IdleOnlyRaises` holds without churn.
- *The draft at a turn's boundary has no minimum of tokens*, which the other triggers have.
- *What a prune keeps is not a prefix of the newest files* under the size cap, as
  `backup-store.ts:75` says it is: a smaller, older one may stay. A capture larger than the cap is
  pruned at once, and a file that vanishes between listing and stat empties the listing,
  so that this prune removes nothing.
- *A model without a price is never known*, so each question about it starts a request once
  the debounce has passed; a session start does not wait for the debounce.

## Not modelled

Texts: statistics (`stats.ts`), what digest lines, receipts and tools say. The savings threshold of
forced warming and the seconds of the cooldown (free choices), the value of the random draw (the
probability is computed, any outcome may follow), exponents other than two, fractions finer than
a twentieth and partial half-lives. The pre-cache tool's budget is one counter reset with its
session. Durability of a rename (fsync) is assumed. Removing a backup is assumed to succeed.
Rows of one millisecond: a row is a number, so that building later is being later.
Of the options in `constants.ts`, those that only set a number elsewhere modelled as a constant.
Installation scripts and the calibration bench are not part of the running extension. pi itself is
external: its session, payloads, warmer and the order of its hooks are modelled from how
`src/` uses them.

## Plan

All components with history or concurrency have a module, and all but `Session` have theorems; each invariant
and action property of the other modules that a passing run checks is one. What is left is proof about
`Session`:

1. `MissesClassified`; the invariant is that the classifier's rows are the newest of those fed, so
   that what a verdict looks back on is what the whole sequence has there.
2. The type, with the windows of ledger and classifier bounded.

The number of runs is kept at a dozen, one for each question; a known defect has a run of its own where
it bears on what a user was promised, and else a line above.
