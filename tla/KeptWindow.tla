------------------------------- MODULE KeptWindow -------------------------------
(***************************************************************************)
(* What a fast compaction keeps verbatim and what its summary records:     *)
(* MidtermCutPlanner, KeptWindowLimiter, FastCompactionController and the  *)
(* blocks SpanDigest folds, over a session that grows and is compacted     *)
(* again and again.  An entry is a message of some size, a hidden entry    *)
(* without messages (telemetry, an advisory) or a compaction's summary.    *)
(* pi's projection of the session and its cut point are external.          *)
(***************************************************************************)
EXTENDS Integers, FiniteSetsExt, SequencesExt

CONSTANTS
    Sizes,          \* estimated tokens of a message
    Budgets,        \* keepRecentTokens in pi's settings; 0 when it is unusable or
                    \* the session has no projection
    DefaultBudget,  \* DEFAULT_KEEP_RECENT_TOKENS
    Ratio,          \* KeptWindowLimiter.ratio
    MaxTurns,       \* SpanDigest: turn lines of a block; every line has one length, so
                    \* its maxBlockChars is a number of lines as well
    MaxBlocks,      \* SpanDigest.maxBlocks
    MaxRegion,      \* SpanDigest.maxRegionChars, in lines
    MessageLimit,   \* bound: messages said
    HiddenLimit,    \* bound: hidden entries of others
    CompactionLimit \* bound: compactions

ASSUME KeptWindowAssumption ==
    /\ Sizes \subseteq Nat \ {0}
    /\ Budgets \subseteq Nat
    /\ {DefaultBudget, Ratio, MaxTurns, MaxBlocks, MaxRegion} \subseteq Nat \ {0}
    /\ {MessageLimit, HiddenLimit, CompactionLimit} \subseteq Nat

VARIABLES
    entries,    \* pi's projection: the entries of the live context
    calls,      \* tool calls of the last assistant message without a result
    blocks,     \* digest blocks in the current summary, oldest first; a block is its
                \* turn lines, a line the messages of its turn
    elided,     \* for every block the messages of the turns it only counts ("more omitted")
    shed,       \* messages of the blocks the last compose shifted and the summary only
                \* counts ("earlier digest block(s) omitted")
    forgotten,  \* history: messages an earlier summary counted, and none since
    lossy,      \* history: was there a compaction without a digest?
    exposed,    \* history: results behind a hidden entry that came after their call
    bound,      \* history: what a compaction just bounded the context to, else 0
    said,       \* history: messages so far, the newest id among them
    hidden,     \* hidden entries of others
    compactions

digest == <<blocks, elided, shed>>
vars == <<entries, calls, digest, forgotten, lossy, exposed, bound, said, hidden, compactions>>

-------------------------------------------------------------------------------
(* Entries.  Ids of messages count up from 1, other entries count down.  As in *)
(* Compaction, X_Y is a wrong variant of X; nothing here uses it.            *)

KeepNone == 0
Message(id, kind, of, size) == [id |-> id, kind |-> kind, of |-> of, size |-> size]
Hidden(n) == [id |-> -n - 1, kind |-> "hidden", of |-> 0, size |-> 0]
Summary == [id |-> -1, kind |-> "summary", of |-> 0, size |-> 0]

IsMessage(e) == e.kind \in {"user", "assistant", "result"}
Visible(e) == e.kind # "hidden"
Ids(es) == [i \in DOMAIN es |-> es[i].id]
IndexOf(es, id) == SelectInSeq(es, LAMBDA e : e.id = id)

\* the elements of s that are in S, in their order
Those(s, S) == FoldLeft(LAMBDA out, x : IF x \in S THEN Append(out, x) ELSE out, <<>>, s)
MessagesOf(es) == Those(es, {e \in ToSet(es) : IsMessage(e)})

-------------------------------------------------------------------------------
(* The planner and the limiter                                              *)

\* the span starts after the visible summary
Boundary(es) == SelectInSeq(es, LAMBDA e : e.kind = "summary") + 1

Messages(es, start, end) == MessagesOf(SubSeq(es, start, end - 1))

\* pi's findCutPoint: before a message that is not a tool result, and before the
\* hidden entries in front of it; a cut inside a turn knows where the turn starts.
Safe(es, c) ==
    LET v == SelectInSubSeq(es, c, Len(es), Visible)
    IN v # 0 /\ es[v].kind # "result"
Cut(es, start, c) ==
    LET turn == IF es[c].kind = "user" THEN 0
                ELSE SelectLastInSubSeq(es, start, c, LAMBDA e : e.kind = "user")
    IN [first |-> c, turn |-> turn, split |-> turn # 0]
Cuts(es) ==
    LET start == Boundary(es)
        safe == {c \in start..Len(es) : Safe(es, c)}
    IN {Cut(es, start, c) : c \in IF safe # {} \/ start > Len(es) THEN safe ELSE {start}}

Plan_PrefixTwice(es, cut) ==
    [first |-> es[cut.first].id,
     history |-> Messages(es, Boundary(es), cut.first),
     prefix |-> IF cut.split THEN Messages(es, cut.turn, cut.first) ELSE <<>>,
     split |-> cut.split]
Plan(es, cut) ==
    [first |-> es[cut.first].id,
     history |-> Messages(es, Boundary(es), IF cut.split THEN cut.turn ELSE cut.first),
     prefix |-> IF cut.split THEN Messages(es, cut.turn, cut.first) ELSE <<>>,
     split |-> cut.split]

\* what pi's prepareCompaction and the planner can come up with
Plans(es) == {p \in {Plan(es, cut) : cut \in Cuts(es)} : p.history \o p.prefix # <<>>}

Retained(es, start) ==
    FoldLeft(LAMBDA sum, e : sum + e.size, 0, SubSeq(es, start, Len(es)))

CanStartAt_Anywhere(e) == TRUE
CanStartAt(e) == e.kind # "result"

Between(es, start, end) ==
    LET gone == SubSeq(es, start, end - 1) IN Those(gone, {e \in ToSet(gone) : Visible(e)})

\* no boundary fits: the summary alone
Shed_KeepsCut(es, start) == [first |-> es[start].id, dropped |-> <<>>]
Shed(es, start) == [first |-> KeepNone, dropped |-> Between(es, start, Len(es) + 1)]

Limit(es, first, budget) ==
    LET start == IndexOf(es, first)
        cap == budget * Ratio
        fits == {i \in start + 1..Len(es) : CanStartAt(es[i]) /\ Retained(es, i) <= cap}
    IN  IF start = 0 \/ cap = 0 \/ Retained(es, start) <= cap
        THEN [first |-> first, dropped |-> <<>>]
        ELSE IF fits = {} THEN Shed(es, start)
        ELSE [first |-> es[Min(fits)].id, dropped |-> Between(es, start, Min(fits))]

-------------------------------------------------------------------------------
(* The proposal                                                             *)

BoundKeptWindow_DropsPrefix(p, limit) ==
    IF limit.first = p.first /\ limit.dropped = <<>> THEN p
    ELSE [first |-> limit.first, history |-> p.history \o limit.dropped,
          prefix |-> <<>>, split |-> FALSE]
BoundKeptWindow(p, limit) ==
    IF limit.first = p.first /\ limit.dropped = <<>> THEN p
    ELSE [first |-> limit.first, history |-> p.history \o p.prefix \o limit.dropped,
          prefix |-> <<>>, split |-> FALSE]

Proposals(es, plans, budget) ==
    {BoundKeptWindow(p, Limit(es, p.first, budget)) : p \in plans}

\* turnLines: a prompt begins a turn, and so does the span; tool results alone say
\* nothing
Turn(turns, e) ==
    IF turns = <<>> \/ e.kind = "user" THEN Append(turns, <<e>>)
    ELSE [turns EXCEPT ![Len(turns)] = Append(@, e)]
TurnLines(ms, split) ==
    LET turns == FoldLeft(Turn, <<>>, ms)
        told == Those(turns, {turn \in ToSet(turns) : \E e \in ToSet(turn) : e.kind # "result"})
    IN  [k \in DOMAIN told |-> [split |-> split, of |-> Ids(told[k])]]

Told(lines) == FlattenSeq([k \in DOMAIN lines |-> lines[k].of])
ToldBy(bs) == FlattenSeq([k \in DOMAIN bs |-> Told(bs[k])])

\* build: the lines of the span
Build(p) == TurnLines(p.history, FALSE) \o TurnLines(IF p.split THEN p.prefix ELSE <<>>, TRUE)

\* build and capBlock: the first of them
Shown(lines) == SubSeq(lines, 1, Min({MaxTurns, Len(lines)}))

\* regionChars
LineCount(bs) == FoldLeft(LAMBDA n, b : n + Len(b), 0, bs)

\* compose: how many of the oldest blocks go; one block stays whatever its size
Surplus_None(bs) == 0
Surplus(bs) ==
    Min({n \in 0..Len(bs) :
        \/ n + 1 >= Len(bs)
        \/ Len(bs) - n <= MaxBlocks /\ LineCount(SubSeq(bs, n + 1, Len(bs))) <= MaxRegion})

Counted == shed \cup UNION ToSet(elided)

\* fastSummary.  A block is taken from the previous summary with the count in it, the
\* count of shifted blocks is not: extract reads the bodies of the blocks alone.
Compose(lines) ==
    LET new == IF lines = <<>> THEN <<>> ELSE <<Shown(lines)>>
        rest == ToSet(Told(SubSeq(lines, Len(Shown(lines)) + 1, Len(lines))))
        bs == blocks \o new
        ms == elided \o [k \in DOMAIN new |-> rest]
        n == Surplus(bs)
    IN  /\ blocks' = SubSeq(bs, n + 1, Len(bs))
        /\ elided' = SubSeq(ms, n + 1, Len(ms))
        /\ shed' = ToSet(ToldBy(SubSeq(bs, 1, n))) \cup UNION ToSet(SubSeq(ms, 1, n))
        /\ forgotten' = forgotten \cup shed
        /\ UNCHANGED lossy

\* The digest switched off, or it threw: the stub alone.
NoDigest ==
    /\ blocks' = <<>> /\ elided' = <<>> /\ shed' = {}
    /\ forgotten' = forgotten \cup Counted
    /\ lossy' = TRUE

Summarise(p) == Compose(Build(p)) \/ NoDigest

\* what pi keeps of es behind the new summary; an old one is before every cut
Kept(es, first) ==
    LET i == IndexOf(es, first)
    IN  IF i = 0 THEN <<>> ELSE SubSeq(es, i, Len(es))

-------------------------------------------------------------------------------
(* The session                                                              *)

Init ==
    /\ entries = <<>> /\ calls = 0
    /\ blocks = <<>> /\ elided = <<>> /\ shed = {} /\ forgotten = {} /\ lossy = FALSE
    /\ exposed = {} /\ bound = 0 /\ said = 0 /\ hidden = 0 /\ compactions = 0

LastVisible == SelectLastInSeq(entries, Visible)
LastKind == IF LastVisible = 0 THEN "none" ELSE entries[LastVisible].kind

Say(kind, of) ==
    /\ said < MessageLimit
    /\ said' = said + 1
    /\ \E size \in Sizes : entries' = Append(entries, Message(said', kind, of, size))
    /\ bound' = 0
    /\ UNCHANGED <<digest, forgotten, lossy, hidden, compactions>>

\* A prompt, an answer with some tool calls, the result of one of them.
User == calls = 0 /\ Say("user", 0) /\ UNCHANGED <<calls, exposed>>
Assistant ==
    /\ calls = 0 /\ LastKind \in {"user", "result", "summary"}
    /\ Say("assistant", 0)
    /\ calls' \in 0..2
    /\ UNCHANGED exposed
Result ==
    /\ calls > 0
    /\ Say("result", Max({e.id : e \in {x \in ToSet(entries) : x.kind = "assistant"}}))
    /\ calls' = calls - 1
    /\ LET last == entries[Len(entries)]
       IN  exposed' = IF last.kind = "hidden" \/ last.id \in exposed
                      THEN exposed \cup {said'} ELSE exposed

\* An advisory of a request that failed, which no hook orders, or an entry of
\* another extension; tools may be running.
Advisory ==
    /\ hidden < HiddenLimit
    /\ hidden' = hidden + 1
    /\ entries' = Append(entries, Hidden(hidden'))
    /\ bound' = 0
    /\ UNCHANGED <<calls, digest, forgotten, lossy, exposed, said, compactions>>

Tip == Hidden(HiddenLimit + 2 * compactions + 1)
Telemetry == Hidden(HiddenLimit + 2 * compactions + 2)

\* session_before_compact and, when pi has written the compaction,
\* session_compact.  The tip is appended before the projection is read.
SessionBeforeCompact ==
    /\ calls = 0 /\ compactions < CompactionLimit
    /\ \E budget \in Budgets, es \in {entries, Append(entries, Tip)} :
        \E q \in Proposals(es, Plans(entries), budget) :
            /\ Summarise(q)
            /\ entries' = <<Summary>> \o Kept(es, q.first) \o <<Telemetry>>
            /\ bound' = budget * Ratio
    /\ compactions' = compactions + 1
    /\ UNCHANGED <<calls, exposed, said, hidden>>

\* Fast compaction is off, or the proposal threw: pi's own summary at pi's cut.
PiCompact ==
    /\ calls = 0 /\ compactions < CompactionLimit
    /\ \E p \in Plans(entries) : entries' = <<Summary>> \o Kept(entries, p.first) \o <<Telemetry>>
    /\ NoDigest /\ bound' = 0
    /\ compactions' = compactions + 1
    /\ UNCHANGED <<calls, exposed, said, hidden>>

\* turn_end's boundary draft: the telemetry entry is appended before pi commits.
Midterm ==
    /\ calls = 0 /\ compactions < CompactionLimit
    /\ LastKind \in {"assistant", "result"}
    /\ \E q \in Proposals(entries, Plans(entries), DefaultBudget) :
        /\ Summarise(q)
        /\ entries' = <<Summary>> \o Kept(Append(entries, Telemetry), q.first)
    /\ bound' = DefaultBudget * Ratio
    /\ compactions' = compactions + 1
    /\ UNCHANGED <<calls, exposed, said, hidden>>

Next ==
    \/ User \/ Assistant \/ Result \/ Advisory
    \/ SessionBeforeCompact \/ PiCompact \/ Midterm

Spec == Init /\ [][Next]_vars

-------------------------------------------------------------------------------
(* Properties                                                               *)

Recorded == ToldBy(blocks)
Verbatim == Ids(MessagesOf(entries))
Omitted == Counted \cup forgotten

\* Types; the summary never carries more blocks or lines than SpanDigest's caps.
TypeOK ==
    /\ \A e \in ToSet(entries) :
        /\ e.kind \in {"user", "assistant", "result", "hidden", "summary"}
        /\ e.size \in Sizes \cup {0}
    /\ calls \in 0..2 /\ lossy \in BOOLEAN
    /\ said \in 0..MessageLimit /\ hidden \in 0..HiddenLimit
    /\ Len(blocks) <= MaxBlocks /\ Len(elided) = Len(blocks)
    /\ Len(blocks) > 1 => LineCount(blocks) <= MaxRegion
    /\ \A b \in ToSet(blocks) : Len(b) \in 1..MaxTurns
    /\ Omitted \subseteq 1..said /\ exposed \subseteq 1..said

\* However often the session was compacted, and wherever the planner and the
\* limiter cut, a tool result in the context still has the message that called
\* the tool before it; a provider rejects a request with an orphaned result.  The one
\* exception is a result with a hidden entry between it and its call: canStartAt takes
\* that entry for a safe start.
NoOrphanResult ==
    \A i \in DOMAIN entries :
        entries[i].kind = "result" /\ entries[i].id \notin exposed =>
            \E j \in 1..i - 1 : entries[j].id = entries[i].of

\* A message that leaves the context, or whose line leaves the digest, is counted by the
\* summary it leaves with, unless some compaction was made without the digest: every
\* message is in the live context, has a turn with a line, is counted, or was counted by
\* an earlier summary.  The one exception is the result of NoOrphanResult: with its call
\* on the other side of a cut it can be a turn that says nothing.
NothingLost ==
    ~lossy => 1..said \subseteq
                  ToSet(Verbatim) \cup ToSet(Recorded) \cup Omitted \cup exposed

\* Digest lines followed by the live context are the conversation in order, and no
\* message is recorded twice: not by two lines, not by a line while it is still in the
\* context.  Nor is or was it counted as omitted while it is there.
Chronological ==
    LET order == Recorded \o Verbatim
    IN  /\ \A i, j \in DOMAIN order : i < j => order[i] < order[j]
        /\ ToSet(order) \cap Omitted = {}

\* A fast compaction that sees the projection and a usable budget leaves at most
\* Ratio budgets of tokens verbatim, so an overflow retry cannot keep the same
\* oversized entry for ever.
ShedsToCap == bound > 0 => Retained(entries, 1) <= bound
===============================================================================
