------------------------------ MODULE Compaction ------------------------------
(***************************************************************************)
(* When and how often pi-cache compacts: the gate, the trigger that claims *)
(* it around an asynchronous ctx.compact(), and every hook of index.ts     *)
(* that reaches them: idle timer, before-turn input, settled run, agent-   *)
(* requested (cache_compact) and midterm boundary draft.                   *)
(*                                                                         *)
(* One JS thread: a handler is atomic up to its await.  What lies after an *)
(* await is the continuation of the request it waits for, run by Settle or *)
(* Refuse.  Economics, occupancy and the random draw are a free choice; the*)
(* guards that depend on history (switch, usage, cooldown) are exact.      *)
(***************************************************************************)
EXTENDS Integers, FiniteSets

CONSTANTS
    Sessions,       \* session ids pi may present
    Slots,          \* bound: requests that can be outstanding at once
    MaxLate,        \* bound: requests a session may leave behind
    MaxRows,        \* bound: turn rows the ledger records
    CooldownTurns,  \* COOLDOWN_TURNS
    None

Key == Sessions \X (0..MaxRows)

ASSUME CompactionAssumption ==
    /\ MaxRows \in Nat
    /\ MaxLate \in Nat
    /\ CooldownTurns \in Nat
    /\ None \notin Key

VARIABLES
    session,    \* the session id of the live session
    lastRow,    \* per session, its last turn row; 0 when it has none
    rows,       \* turn rows recorded so far (row ids are 1..rows)
    gate,       \* CompactionGate: inFlight and lastKey
    reqs,       \* requests handed to pi, by slot, until their callback ran
    timer,      \* is the idle timer armed?
    phase,      \* pi: where it is between a prompt and the settled run
    pending,    \* CacheCompactTool.pending: is a request queued?
    enabled,    \* the auto-compaction switch
    cooldown,   \* AutocompactController: hasCompacted and turns since
    applied,    \* history: windows compacted through the gate, this session
    autoGap,    \* history: turns since the last automatic compaction asked
                \* for and carried out within one session
    intruded    \* history: has a callback of an earlier session's request
                \* changed what the gate held for this one?

cacheVars == <<lastRow, rows>>
history == <<applied, autoGap, intruded>>
vars == <<session, lastRow, rows, gate, reqs, timer, phase, pending, enabled,
          cooldown, applied, autoGap, intruded>>

-------------------------------------------------------------------------------
(* Types.  A definition whose name is X_Y is a wrong variant of X, kept to   *)
(* show that a property notices it; nothing here uses it.                   *)

Sources == {"auto", "input", "explicit"}
Free == [st |-> "free", key |-> None, src |-> "auto", own |-> FALSE]
Request == [st : {"running", "applied"}, key : Key, src : Sources, own : BOOLEAN]

Busy == {s \in Slots : reqs[s].st # "free"}
Running == {s \in Slots : reqs[s].st = "running"}
Own == {s \in Busy : reqs[s].own}      \* issued by the live session

-------------------------------------------------------------------------------
(* CompactionGate *)

NoClaim == [inFlight |-> None, lastKey |-> None]

\* tryBegin may claim k
Admits_IgnoresInFlight(k) == gate.lastKey # k
Admits(k) == gate.inFlight = None /\ gate.lastKey # k

SettleGate_SessionOnly(k) == [inFlight |-> None, lastKey |-> k[1]]
SettleGate_Forgets(k) == [inFlight |-> None, lastKey |-> gate.lastKey]
SettleGate(k) == [inFlight |-> None, lastKey |-> k]

AbortGate_WrongField(k) ==
    IF gate.lastKey = k THEN [gate EXCEPT !.inFlight = None] ELSE gate
AbortGate(k) ==
    IF gate.inFlight = k THEN [gate EXCEPT !.inFlight = None] ELSE gate

-------------------------------------------------------------------------------
(* AutocompactController *)

\* turns stop mattering at the cooldown: the count saturates there
Later(t) == IF t < CooldownTurns THEN t + 1 ELSE t

NoteTurn == [cooldown EXCEPT !.turns = Later(@)]

MarkCompacted_KeepsTurns == [cooldown EXCEPT !.hasCompacted = TRUE]
MarkCompacted == [hasCompacted |-> TRUE, turns |-> 0]

\* The exact part of decide() and of midtermEligible(), on cooldown state c
\* (the seconds of the cooldown are part of the free choice).
MayCompact(c) ==
    /\ enabled
    /\ lastRow[session] # 0
    /\ c.hasCompacted => c.turns >= CooldownTurns

-------------------------------------------------------------------------------
(* CompactionTrigger *)

WindowKey == <<session, lastRow[session]>>

\* Claim the window and hand ctx.compact() to pi.
Claim(src) ==
    /\ Admits(WindowKey)
    /\ gate' = [gate EXCEPT !.inFlight = WindowKey]
    /\ \E s \in Slots \ Busy :
          reqs' = [reqs EXCEPT ![s] =
                      [st |-> "running", key |-> WindowKey, src |-> src,
                       own |-> TRUE]]

Declined == UNCHANGED <<gate, reqs>>

\* void tryCompact(ctx): compacts, or declines for any reason of decide()
TryCompact(c) == (MayCompact(c) /\ Claim("auto")) \/ Declined

-------------------------------------------------------------------------------
(* IdleTrigger *)

\* arm(): no timer without a finite cache age, which a turn row gives and a
\* confirmed warm refresh may give
Arm ==
    IF enabled
      THEN \E touched \in BOOLEAN : /\ lastRow[session] # 0 => touched
                                    /\ timer' = touched
      ELSE UNCHANGED timer

Disarm == timer' = FALSE

-------------------------------------------------------------------------------
(* Hooks *)

Init ==
    /\ session \in Sessions
    /\ lastRow = [s \in Sessions |-> 0]
    /\ rows = 0
    /\ gate = NoClaim
    /\ reqs = [s \in Slots |-> Free]
    /\ timer = FALSE
    /\ phase = "idle"
    /\ pending = FALSE
    /\ enabled \in BOOLEAN
    /\ cooldown = [hasCompacted |-> FALSE, turns |-> 0]
    /\ applied = {}
    /\ autoGap = CooldownTurns
    /\ intruded = FALSE

\* A prompt that waited in the replaced session is gone with it.
Orphaned(r) == [r EXCEPT !.own = FALSE,
                         !.src = IF @ = "input" THEN "auto" ELSE @]

\* session_start: start, reload, new, resume or fork.  Nothing cancels what
\* pi still has to answer: a request of the replaced session stays out.
SessionStart(id) ==
    /\ Cardinality(Busy) <= MaxLate
    /\ session' = id
    /\ gate' = NoClaim
    /\ reqs' = [s \in Slots |-> Orphaned(reqs[s])]
    /\ pending' = FALSE
    /\ phase' = "idle"
    /\ IF enabled
         THEN \E touched \in BOOLEAN : /\ lastRow[id] # 0 => touched
                                       /\ timer' = touched
         ELSE Disarm
    /\ applied' = {}
    /\ intruded' = FALSE
    /\ UNCHANGED <<cacheVars, enabled, cooldown, autoGap>>

\* session_shutdown
SessionShutdown ==
    /\ Disarm
    /\ UNCHANGED <<session, cacheVars, gate, reqs, phase, pending, enabled,
                   cooldown, history>>

\* input while pi is idle: the prompt is deferred behind a compaction or
\* goes straight on
Input ==
    /\ phase = "idle"
    /\ Disarm
    /\ \/ MayCompact(cooldown) /\ Claim("input") /\ phase' = "deferred"
       \/ Declined /\ phase' = "prompted"
    /\ UNCHANGED <<session, cacheVars, pending, enabled, cooldown, history>>

\* input while pi streams (steering): never deferred
Steer ==
    /\ phase \in {"running", "answered"}
    /\ Disarm
    /\ UNCHANGED <<session, cacheVars, gate, reqs, phase, pending, enabled,
                   cooldown, history>>

\* agent_start
AgentStart ==
    /\ phase = "prompted"
    /\ phase' = "running"
    /\ Disarm
    /\ UNCHANGED <<session, cacheVars, gate, reqs, pending, enabled, cooldown,
                   history>>

\* message_end of an assistant message: a row, unless telemetry is off, the
\* message has no usage or the append does not commit
MessageEnd ==
    /\ phase = "running"
    /\ phase' = "answered"
    /\ \/ /\ rows < MaxRows
          /\ rows' = rows + 1
          /\ lastRow' = [lastRow EXCEPT ![session] = rows + 1]
       \/ UNCHANGED cacheVars
    /\ UNCHANGED <<session, gate, reqs, timer, pending, enabled, cooldown,
                   history>>

\* cache_compact: a tool call of the answer just received
RequestCompaction ==
    /\ phase = "answered"
    /\ pending' = TRUE
    /\ UNCHANGED <<session, cacheVars, gate, reqs, timer, phase, enabled,
                   cooldown, history>>

\* turn_end: nothing to do at the boundary, or (eligible, without a draft)
\* the trigger is asked, which decides again
TurnEnd ==
    /\ phase = "answered"
    /\ phase' = "running"
    /\ cooldown' = NoteTurn
    /\ autoGap' = Later(autoGap)
    /\ TryCompact(cooldown')
    /\ UNCHANGED <<session, cacheVars, timer, pending, enabled, applied,
                   intruded>>

\* turn_end with a boundary draft: the window is claimed, retired and counted
\* in one step, and pi applies the draft
TurnEndDraft_Unclaimed ==
    /\ phase = "answered" /\ phase' = "running"
    /\ MayCompact(NoteTurn)
    /\ gate' = SettleGate(WindowKey)
    /\ cooldown' = MarkCompacted
    /\ applied' = applied \cup {WindowKey}
    /\ autoGap' = 0
    /\ UNCHANGED <<session, cacheVars, reqs, timer, pending, enabled, intruded>>
TurnEndDraft ==
    /\ phase = "answered"
    /\ phase' = "running"
    /\ MayCompact(NoteTurn)
    /\ Admits(WindowKey)
    /\ gate' = SettleGate(WindowKey)
    /\ cooldown' = MarkCompacted
    /\ applied' = applied \cup {WindowKey}
    /\ autoGap' = 0
    /\ UNCHANGED <<session, cacheVars, reqs, timer, pending, enabled, intruded>>

\* agent_settled: the agent's own request first, else the automatic policy
AgentSettled ==
    /\ phase = "running"
    /\ phase' = "idle"
    /\ \/ /\ pending
          /\ IF Admits(WindowKey)
               THEN Claim("explicit") /\ UNCHANGED <<pending, timer>>
               ELSE Declined /\ pending' = FALSE /\ Arm
       \/ /\ ~pending
          /\ IF enabled THEN TryCompact(cooldown) /\ Arm
                        ELSE Declined /\ UNCHANGED timer
          /\ UNCHANGED pending
    /\ UNCHANGED <<session, cacheVars, enabled, cooldown, history>>

\* The idle timer fires; a fire that does not find pi idle is dropped.
IdleFire ==
    /\ timer
    /\ Disarm
    /\ IF phase \in {"running", "answered"} THEN Declined
                                            ELSE TryCompact(cooldown)
    /\ UNCHANGED <<session, cacheVars, phase, pending, enabled, cooldown,
                   history>>

\* session_compact of a request made here: pi has replaced the context
Apply(s) ==
    /\ reqs[s].st = "running"
    /\ reqs' = [reqs EXCEPT ![s].st = "applied"]
    /\ cooldown' = MarkCompacted
    /\ applied' = IF reqs[s].own THEN applied \cup {reqs[s].key} ELSE applied
    /\ autoGap' = IF reqs[s].own /\ reqs[s].src # "explicit" THEN 0 ELSE autoGap
    /\ UNCHANGED <<session, cacheVars, gate, timer, phase, pending, enabled,
                   intruded>>

\* session_compact of a compaction pi made itself (threshold, overflow, /compact)
ForeignCompact ==
    /\ cooldown' = MarkCompacted
    /\ UNCHANGED <<session, cacheVars, gate, reqs, timer, phase, pending,
                   enabled, history>>

\* What the awaiting handler does once its request is answered.
Resume_HoldsPrompt(src) ==
    IF src = "explicit" THEN pending' = FALSE /\ Arm /\ UNCHANGED phase
                        ELSE UNCHANGED <<phase, pending, timer>>
Resume_KeepsRequest(src) ==
    CASE src = "input"    -> phase' = "prompted" /\ UNCHANGED <<pending, timer>>
      [] src = "explicit" -> Arm /\ UNCHANGED <<phase, pending>>
      [] OTHER            -> UNCHANGED <<phase, pending, timer>>
Resume(src) ==
    CASE src = "input"    -> phase' = "prompted" /\ UNCHANGED <<pending, timer>>
      [] src = "explicit" -> pending' = FALSE /\ Arm /\ UNCHANGED phase
      [] OTHER            -> UNCHANGED <<phase, pending, timer>>

\* The gate compares no session: the continuation of a request an earlier
\* session made settles or aborts the gate of the live one.
Intrudes(s) == ~reqs[s].own /\ gate # NoClaim /\ gate' # gate

\* onComplete
Settle(s) ==
    /\ reqs[s].st = "applied"
    /\ gate' = SettleGate(reqs[s].key)
    /\ reqs' = [reqs EXCEPT ![s] = Free]
    /\ Resume(reqs[s].src)
    /\ intruded' = (intruded \/ Intrudes(s))
    /\ UNCHANGED <<session, cacheVars, enabled, cooldown, applied, autoGap>>

\* onError, a throwing or a missing ctx.compact
Refuse(s) ==
    /\ reqs[s].st = "running"
    /\ gate' = AbortGate(reqs[s].key)
    /\ reqs' = [reqs EXCEPT ![s] = Free]
    /\ Resume(reqs[s].src)
    /\ intruded' = (intruded \/ Intrudes(s))
    /\ UNCHANGED <<session, cacheVars, enabled, cooldown, applied, autoGap>>

\* the auto-compaction row of /cache-settings
Toggle ==
    /\ enabled' = ~enabled
    /\ UNCHANGED <<session, cacheVars, gate, reqs, timer, phase, pending,
                   cooldown, history>>

Next ==
    \/ \E id \in Sessions : SessionStart(id)
    \/ SessionShutdown
    \/ Input
    \/ Steer
    \/ AgentStart
    \/ MessageEnd
    \/ RequestCompaction
    \/ TurnEnd
    \/ TurnEndDraft
    \/ AgentSettled
    \/ IdleFire
    \/ \E s \in Slots : Apply(s) \/ Settle(s) \/ Refuse(s)
    \/ ForeignCompact
    \/ Toggle

Spec == Init /\ [][Next]_vars

\* pi answers every request it was handed, by one callback or the other.
Fairness == \A s \in Slots : WF_vars(Apply(s) \/ Settle(s) \/ Refuse(s))

FairSpec == Spec /\ Fairness

-------------------------------------------------------------------------------
(* Properties *)

TypeOK ==
    /\ session \in Sessions
    /\ lastRow \in [Sessions -> 0..MaxRows]
    /\ rows \in 0..MaxRows
    /\ gate \in [inFlight : Key \cup {None}, lastKey : Key \cup {None}]
    /\ reqs \in [Slots -> Request \cup {Free}]
    /\ timer \in BOOLEAN
    /\ phase \in {"idle", "deferred", "prompted", "running", "answered"}
    /\ pending \in BOOLEAN
    /\ enabled \in BOOLEAN
    /\ cooldown \in [hasCompacted : BOOLEAN, turns : 0..CooldownTurns]
    /\ applied \subseteq Key
    /\ autoGap \in 0..CooldownTurns
    /\ intruded \in BOOLEAN

\* compaction-gate.ts:4: "serialize compaction requests so at most one is in
\* flight".  Whatever hooks asked, and whatever requests earlier sessions left
\* behind, a session never holds two unanswered requests (a second
\* ctx.compact() would abort the first), until the answer to an earlier
\* session's request has undone what its gate held.
AtMostOneInFlight == ~intruded => \A s, t \in Own : s = t

\* compaction-gate.ts:5: "the same idle window is never compacted twice".  A
\* window compacted in this session is never handed to pi again, although the
\* gate remembers only the last one; the exception is the same.
WindowsCompactOnce ==
    ~intruded => \A s \in Running \cap Own : reqs[s].key \notin applied

\* A claim always belongs to a request pi still has to answer: no order of
\* callbacks, failures and session replacements leaves the gate claimed by
\* nobody, which would end compaction for the session.
NoOrphanClaim ==
    gate.inFlight # None => \E s \in Busy : reqs[s].key = gate.inFlight

\* The two ways a compaction nobody asked for explicitly takes effect.
RequestApplied == \E s \in Own : /\ reqs[s].st = "running"
                                /\ reqs'[s].st = "applied"
                                /\ reqs[s].src # "explicit"
DraftApplied == reqs' = reqs /\ gate'.lastKey \notin {gate.lastKey, None}

\* autocompact.ts:144, "Minimum turns between automatic compactions": when an
\* automatic compaction takes effect, the previous automatic one is at least
\* CooldownTurns turns old, however long the request was outstanding (a draft
\* counts the turn it ends, and is safe even after an intrusion).
AutomaticSpacing ==
    [][/\ ~intruded /\ RequestApplied => autoGap >= CooldownTurns
       /\ DraftApplied => Later(autoGap) >= CooldownTurns]_vars

\* The requests of each session follow the abstract gate up to its first
\* intrusion, which counts as the end of the session.
Once == INSTANCE CompactionOnce WITH
            Windows <- Key,
            active  <- IF intruded THEN {} ELSE {reqs[s].key : s \in Own},
            retired <- IF intruded THEN None ELSE gate.lastKey
GateRefined == Once!Spec

\* before-turn-trigger.ts: "a deferred prompt can never be lost": a prompt
\* held behind a compaction goes on, whether the compaction worked or not
\* (unless its session is replaced first).
DeferredPromptGoesOn == phase = "deferred" ~> phase # "deferred"

\* cache_compact: a request taken at a settled boundary is answered there, so
\* a later call in a later run is not mistaken for a duplicate.
ExplicitRequestResolved ==
    (\E s \in Slots : reqs[s].src = "explicit") ~> ~pending
===============================================================================
