------------------------------ MODULE Pipeline ------------------------------
(***************************************************************************)
(* before_provider_request: every request passes the tool normalizer, the  *)
(* breakpoint anchor, the retention rewrite, the listing canonicalizer and *)
(* the shared cache key, in this order and in place.  A session's history  *)
(* grows by messages of some blocks, is compacted, and is sent again and   *)
(* again; what pi puts into a payload, its own cache markers included, is  *)
(* external.  A hash stands for what it hashes.  X_Y is a wrong variant of *)
(* X; nothing here uses it.                                                *)
(***************************************************************************)
EXTENDS Integers, FiniteSetsExt, SequencesExt, TLC

CONSTANTS
    Quantum, Margin, MinDepth,  \* BreakpointAnchorOptions
    MaxMarkers,     \* MAX_MARKERS
    Profiles,       \* what pi's providers do: shape, own markers, own tier
    Tools,          \* the tool lists pi may send
    Listings,       \* the entries a system prompt may list, in some order
    BlockCounts,    \* blocks of a message; 0 is string content
    Switches,       \* settings of the four switches that may hold
    HistoryLimit,   \* bound: messages
    RequestLimit,   \* bound: requests
    CompactLimit    \* bound: compactions

ASSUME PipelineAssumption ==
    /\ {Quantum, MinDepth, MaxMarkers} \subseteq Nat \ {0} /\ Margin \in Nat
    /\ BlockCounts \subseteq Nat
    /\ {HistoryLimit, RequestLimit, CompactLimit} \subseteq Nat
    /\ Profiles \subseteq [shape : {"anthropic", "completions"}, markers : BOOLEAN,
                           explicit : {"no", "first", "late"}, keyed : BOOLEAN, long : BOOLEAN]
    /\ Tools \subseteq Seq(STRING) /\ Listings \subseteq Seq([key : Int, body : STRING])
    /\ Switches \subseteq [dedup : BOOLEAN, anchor : BOOLEAN, retention : BOOLEAN,
                           canonicalize : BOOLEAN, sharedKey : BOOLEAN]

VARIABLES
    profile,    \* the provider in use
    switch,     \* the live switches
    history,    \* the conversation, as messages without markers
    raw,        \* the last payload as pi built it
    sent,       \* the last payload as it left
    before,     \* history: the anchor of the payload sent before, if the history only grew
    churn,      \* PrefixNormalizer.churnCount
    lastHead,   \* PrefixNormalizer.lastHeadHash
    firstHead,  \* history: the wire head of the first request
    long,       \* RetentionRewriter.lastEffectiveLong
    requests, compacts

vars == <<profile, switch, history, raw, sent, before, churn, lastHead, firstHead,
          long, requests, compacts>>

-------------------------------------------------------------------------------
(* Payloads.  A mark is the tier of a cache_control, "none" without one.    *)

None == [on |-> FALSE]
Marked(mark) == mark # "none"
Tier(isLong) == IF isLong THEN "1h" ELSE "5m"

\* Blocks of a message; string content counts as one.
Blocks(m) == IF m.string THEN 1 ELSE Len(m.marks)
Depth(ms, i) == FoldLeft(LAMBDA n, m : n + Blocks(m), 0, SubSeq(ms, 1, i))

MarkedBlocks(ms) ==
    {b \in UNION {{<<i, j>> : j \in 1..Len(ms[i].marks)} : i \in DOMAIN ms} :
        ~ms[b[1]].string /\ Marked(ms[b[1]].marks[b[2]])}

MarkedIn(seq) == {i \in DOMAIN seq : Marked(seq[i].mark)}

\* Markers.collect: how many markers a payload has
MarkerCount(p) ==
    Cardinality(MarkedIn(p.system)) + Cardinality(MarkedIn(p.tools)) + Cardinality(MarkedBlocks(p.messages))

\* PrefixHead.hash: the system messages (pi sends one at most) and the tools; the
\* model is one.
SystemMessages(p) ==
    FoldLeft(LAMBDA out, m : IF m.system THEN Append(out, m) ELSE out, <<>>, p.messages)
HeadOf_NoTools(p) == [sys |-> SystemMessages(p), tools |-> <<>>]
HeadOf(p) == [sys |-> SystemMessages(p), tools |-> p.tools]

-------------------------------------------------------------------------------
(* The stages                                                               *)

\* dedup: exact duplicates, the mark included
Dedup(tools) ==
    FoldLeft(LAMBDA kept, t : IF t \in ToSet(kept) THEN kept ELSE Append(kept, t), <<>>, tools)

Repin(tools, mark) ==
    [i \in DOMAIN tools |-> [tools[i] EXCEPT !.mark = IF i = Len(tools) THEN mark ELSE "none"]]

\* transformTools: a mark before the last tool is somebody's explicit breakpoint
TransformTools(tools) ==
    LET at == SelectInSeq(tools, LAMBDA t : Marked(t.mark))
        deduped == Dedup(tools)
    IN  IF (at # 0 /\ at # Len(tools)) \/ ~switch.dedup \/ deduped = tools THEN tools
        ELSE IF at = 0 THEN deduped ELSE Repin(deduped, tools[at].mark)

Normalize(p) == IF p.hasTools THEN [p EXCEPT !.tools = TransformTools(p.tools)] ELSE p

\* anchorPosition; 0 is none
AnchorPosition_NoQuantum(p) ==
    LET ms == p.messages
        trailing == Depth(ms, Max({b[1] : b \in MarkedBlocks(ms)}))
        ceiling == trailing - Margin
    IN  IF ceiling < MinDepth THEN 0 ELSE ceiling
AnchorPosition(p) ==
    LET ms == p.messages
        trailing == Depth(ms, Max({b[1] : b \in MarkedBlocks(ms)}))
        ceiling == trailing - Margin
        position == (ceiling \div Quantum) * Quantum
        explicit == \E b \in MarkedBlocks(ms) :
            Depth(ms, b[1]) < trailing /\ Depth(ms, b[1]) <= position
    IN  IF ceiling < MinDepth \/ position < MinDepth \/ explicit THEN 0 ELSE position

HolderAt(ms, position) == Min({i \in DOMAIN ms : Depth(ms, i) >= position})

TrailingMark(ms) ==
    LET i == Max({b[1] : b \in MarkedBlocks(ms)})
        j == Max({b[2] : b \in {x \in MarkedBlocks(ms) : x[1] = i}})
    IN ms[i].marks[j]

\* The wrapper of string content is not in the payload: its mark is lost.
Place(p, i) ==
    LET m == p.messages[i]
    IN  IF m.string \/ Marked(Last(m.marks)) THEN p
        ELSE [p EXCEPT !.messages[i].marks[Len(m.marks)] = TrailingMark(p.messages)]

Anchor_NoBudget(p) ==
    IF ~switch.anchor \/ MarkedBlocks(p.messages) = {} \/ AnchorPosition(p) = 0 THEN p
    ELSE Place(p, HolderAt(p.messages, AnchorPosition(p)))
Anchor(p) ==
    IF \/ ~switch.anchor \/ MarkedBlocks(p.messages) = {}
       \/ MarkerCount(p) >= MaxMarkers \/ AnchorPosition(p) = 0
    THEN p ELSE Place(p, HolderAt(p.messages, AnchorPosition(p)))

\* RetentionRewriter.apply: every marker, and the retention of a keyed payload
Upgrade(mark) == IF Marked(mark) THEN "1h" ELSE mark
UpgradePart(part) == [i \in DOMAIN part |-> [part[i] EXCEPT !.mark = Upgrade(part[i].mark)]]
UpgradeMessage(m) == [m EXCEPT !.marks = [j \in DOMAIN m.marks |-> Upgrade(m.marks[j])]]
Retain(p) ==
    IF ~switch.retention THEN p
    ELSE [p EXCEPT
        !.system = UpgradePart(p.system),
        !.tools = UpgradePart(p.tools),
        !.messages = [i \in DOMAIN p.messages |-> UpgradeMessage(p.messages[i])],
        !.retention = IF p.key # None THEN "24h" ELSE p.retention]

\* lastEffectiveLong: TRUE or unknown
EffectiveLong(p) ==
    /\ switch.retention
    /\ MarkerCount(p) > 0 \/ p.key # None

\* canonicalizeSpan: a stable sort by key; sorted entries stay untouched
Insert(sorted, e) ==
    InsertAt(sorted, Cardinality({i \in DOMAIN sorted : sorted[i].key <= e.key}) + 1, e)
CanonicalText(text) == FoldLeft(Insert, <<>>, text)

\* Of the messages, only a system message has a text with entries.
CanonicalPart(part) == [i \in DOMAIN part |-> [part[i] EXCEPT !.text = CanonicalText(part[i].text)]]
Canonicalize(p) ==
    IF ~switch.canonicalize THEN p
    ELSE [p EXCEPT !.system = CanonicalPart(p.system), !.messages = CanonicalPart(p.messages)]

\* CacheKeySharer.apply; pi's own key is the session's
ShareKey(p) ==
    IF ~switch.sharedKey \/ p.key = None THEN p
    ELSE [p EXCEPT !.key = [on |-> TRUE, shared |-> TRUE, head |-> HeadOf(p)]]

\* The order of index.ts.
Transform_KeyFirst(p) == Canonicalize(Retain(Anchor(ShareKey(Normalize(p)))))
Transform(p) == ShareKey(Canonicalize(Retain(Anchor(Normalize(p)))))

-------------------------------------------------------------------------------
(* Requests                                                                 *)

SessionKey == [on |-> TRUE, shared |-> FALSE, head |-> [sys |-> <<>>, tools |-> <<>>]]

\* A message; its marks are put in when it is sent.
Message(n) ==
    [system |-> FALSE, string |-> n = 0, marks |-> [j \in 1..n |-> "none"], text |-> <<>>]
SystemMessage(listing) == [Message(0) EXCEPT !.system = TRUE, !.text = listing]

\* pi's payload: markers on the system prompt, the last tool, the last message
\* and the message where someone breaks explicitly, the first or the one before.
Explicit(n) ==
    CASE profile.explicit = "first" -> {1}
      [] profile.explicit = "late" -> {n - 1}
      [] OTHER -> {}
MarkLast(m, mark) ==
    IF mark = "none" THEN m
    ELSE IF m.string THEN [m EXCEPT !.string = FALSE, !.marks = <<mark>>]
    ELSE [m EXCEPT !.marks[Len(m.marks)] = mark]
Build(tools, listing) ==
    LET mark == IF profile.markers THEN Tier(profile.long) ELSE "none"
        native == profile.shape = "anthropic"
        lead == IF native THEN <<>> ELSE <<MarkLast(SystemMessage(listing), mark)>>
        mine(i) == i = Len(history) \/ i \in Explicit(Len(history))
    IN  [system |-> IF native THEN <<[text |-> listing, mark |-> mark]>> ELSE <<>>,
         hasTools |-> tools # <<>>,
         tools |-> [i \in DOMAIN tools |->
            [name |-> tools[i], mark |-> IF i = Len(tools) THEN mark ELSE "none"]],
         messages |-> lead \o [i \in DOMAIN history |->
            IF mine(i) THEN MarkLast(history[i], mark) ELSE history[i]],
         key |-> IF profile.keyed THEN SessionKey ELSE None,
         retention |-> IF profile.keyed /\ profile.long THEN "24h" ELSE "none"]

\* The message a payload carries the anchor on, 0 when none does, and the quantum
\* its trailing breakpoint is in.
NoAnchor == [at |-> 0, slot |-> 0]
AnchorOf(p) ==
    LET ms == p.messages
        lead == Cardinality({i \in DOMAIN ms : ms[i].system})
        pis(i) == i = Len(ms) \/ i <= lead \/ i - lead \in Explicit(Len(ms) - lead)
        added == {b[1] : b \in {x \in MarkedBlocks(ms) : ~pis(x[1])}}
    IN  [at |-> IF added = {} THEN 0 ELSE Max(added),
         slot |-> (Depth(ms, Len(ms)) - Margin) \div Quantum]

NoPayload == [messages |-> <<>>]

Init ==
    /\ profile \in Profiles /\ switch \in Switches
    /\ history = <<>> /\ raw = NoPayload /\ sent = NoPayload /\ before = NoAnchor
    /\ churn = 0 /\ lastHead = None /\ firstHead = None /\ long = FALSE
    /\ requests = 0 /\ compacts = 0

Say ==
    /\ Len(history) < HistoryLimit
    /\ \E n \in BlockCounts : history' = Append(history, Message(n))
    /\ UNCHANGED <<profile, switch, raw, sent, before, churn, lastHead, firstHead, long, requests, compacts>>

\* noteHead, on what the tool transforms left
NoteHead_CountsFirst(p) ==
    LET head == [on |-> TRUE, head |-> HeadOf(p)]
    IN  IF p.hasTools
        THEN churn' = churn + (IF lastHead # head THEN 1 ELSE 0) /\ lastHead' = head
        ELSE UNCHANGED <<churn, lastHead>>
NoteHead(p) ==
    LET head == [on |-> TRUE, head |-> HeadOf(p)]
    IN  IF p.hasTools
        THEN /\ churn' = churn + (IF lastHead # None /\ lastHead # head THEN 1 ELSE 0)
             /\ lastHead' = head
        ELSE UNCHANGED <<churn, lastHead>>

WireHead(p) ==
    [on |-> TRUE, block |-> p.system, message |-> SystemMessages(p), tools |-> p.tools]

Request ==
    /\ requests < RequestLimit /\ history # <<>>
    /\ requests' = requests + 1
    /\ \E tools \in Tools, listing \in Listings :
        LET p == Build(tools, listing)
        IN  /\ raw' = p
            /\ sent' = Transform(p)
            /\ NoteHead(Normalize(p))
            /\ long' = EffectiveLong(Anchor(Normalize(p)))
    /\ before' = IF sent = NoPayload THEN NoAnchor ELSE AnchorOf(sent)
    /\ firstHead' = IF firstHead = None /\ raw'.hasTools THEN WireHead(sent') ELSE firstHead
    /\ UNCHANGED <<profile, switch, history, compacts>>

\* The history is replaced by a summary and what was kept.
Compact ==
    /\ compacts < CompactLimit /\ Len(history) > 1
    /\ compacts' = compacts + 1
    /\ \E n \in 1..Len(history) : history' = <<Message(1)>> \o SubSeq(history, n + 1, Len(history))
    /\ before' = NoAnchor /\ sent' = NoPayload /\ raw' = NoPayload
    /\ UNCHANGED <<profile, switch, churn, lastHead, firstHead, long, requests>>

Next == Say \/ Request \/ Compact

Spec == Init /\ [][Next]_vars

-------------------------------------------------------------------------------
(* Properties                                                               *)

Sent == sent # NoPayload

\* Types.
TypeOK ==
    /\ profile \in Profiles /\ switch \in Switches
    /\ Len(history) <= HistoryLimit + 1
    /\ churn \in 0..Max({0, requests - 1}) /\ long \in BOOLEAN
    /\ requests \in 0..RequestLimit /\ compacts \in 0..CompactLimit
    /\ Sent => Len(sent.messages) = Len(raw.messages)

Marks(p) ==
    {p.system[i].mark : i \in MarkedIn(p.system)} \cup {p.tools[i].mark : i \in MarkedIn(p.tools)}
        \cup {p.messages[b[1]].marks[b[2]] : b \in MarkedBlocks(p.messages)}

\* The stages never spend more than the provider's marker budget, leave each of
\* pi's breakpoints where it was, the trailing tool's on the last tool, and never
\* mix tiers; the tier reported to the TTL signals is the one on the wire.
MarkersKept ==
    Sent =>
        /\ MarkerCount(sent) <= Max({MaxMarkers, MarkerCount(raw)})
        /\ MarkedBlocks(raw.messages) \subseteq MarkedBlocks(sent.messages)
        /\ MarkedIn(raw.system) = MarkedIn(sent.system)
        /\ MarkedIn(raw.tools) # {} => MarkedIn(sent.tools) = {Len(sent.tools)}
        /\ Cardinality(Marks(sent)) <= 1
        /\ Marks(sent) # {} \/ sent.key # None =>
            ((long \/ profile.long) <=> (Marks(sent) = {"1h"} \/ sent.retention = "24h"))

\* While the history only grows, the anchor never moves back, and it stays on its
\* block while the trailing breakpoint is in the same quantum: else every request
\* would write the cache anew.
AnchorSteady ==
    LET now == AnchorOf(sent)
    IN  Sent /\ before.at # 0 /\ now.at # 0 =>
            /\ before.at <= now.at
            /\ before.slot = now.slot => before.at = now.at

Sorted(text) == \A i, j \in DOMAIN text : i < j => text[i].key <= text[j].key

\* What leaves lists the same entries in one order, however pi listed them, and a
\* shared key names exactly the head it leaves with: two sessions share a bucket
\* if and only if their prefixes agree on the wire.
WireHeadCanonical ==
    Sent =>
        /\ \A part \in {<<raw.system, sent.system>>, <<SystemMessages(raw), SystemMessages(sent)>>} :
            \A i \in DOMAIN part[1] :
                /\ switch.canonicalize => Sorted(part[2][i].text)
                /\ ToSet(part[1][i].text) = ToSet(part[2][i].text)
                /\ Len(part[1][i].text) = Len(part[2][i].text)
        /\ switch.sharedKey /\ sent.key # None => sent.key.head = HeadOf(sent)

\* As long as no churn was counted, the head of a provider that takes its system
\* prompt as a message has not changed on the wire since the first request.
UnchurnedHeadIsStable ==
    Sent /\ profile.shape = "completions" /\ raw.hasTools /\ churn = 0 => WireHead(sent) = firstHead
=============================================================================
