--------------------------- MODULE KeptWindow_proofs ---------------------------
(***************************************************************************)
(* Theorems about KeptWindow: what a fast compaction keeps, for every size *)
(* of message, budget, cap and bound, however often and wherever the       *)
(* session was cut before.                                                 *)
(***************************************************************************)
EXTENDS KeptWindow, FiniteSetTheorems, SequenceTheorems, WellFoundedInduction, TLAPS

-------------------------------------------------------------------------------
(* Finite sets, and the recursion over the subsets of a finite set that     *)
(* the folds of the community modules are.  Induction goes by a minimal     *)
(* counterexample, a set, so no operator is a parameter.                    *)

\* A set of subsets of a finite set has a minimal element.
LEMMA MinimalSubset ==
    ASSUME NEW S, IsFiniteSet(S), NEW T \in SUBSET SUBSET S, T # {}
    PROVE  \E x \in T : \A y \in T : y \subseteq x => y = x
<1>1. FiniteSubsetsOf(S) = SUBSET S
  BY FS_FiniteSubsetsOfFinite
<1>2. IsWellFoundedOn(StrictSubsetOrdering(S), SUBSET S)
  BY <1>1, FS_StrictSubsetOrderingWellFounded
<1>3. PICK x \in T : \A y \in T : ~(<<y, x>> \in StrictSubsetOrdering(S))
  BY <1>2, WFMin
<1>4. QED BY <1>3 DEF StrictSubsetOrdering

\* A set of naturals has a least element.
LEMMA LeastNatural ==
    ASSUME NEW S \in SUBSET Nat, S # {}
    PROVE  \E x \in S : \A y \in S : x <= y
<1>1. PICK n \in S : TRUE
  OBVIOUS
<1> DEFINE upTo == 1..n
           T == {1..x : x \in {y \in S : y <= n}}
<1>2. T \in SUBSET SUBSET upTo /\ T # {}
  BY <1>1
<1>3. IsFiniteSet(upTo)
  BY <1>1, FS_Interval
<1>4. PICK t \in T : \A u \in T : u \subseteq t => u = t
  <2> HIDE DEF T, upTo
  <2>1. QED BY <1>2, <1>3, MinimalSubset
<1>5. PICK x \in S : x <= n /\ t = 1..x
  BY <1>4
<1>6. ASSUME NEW y \in S, ~(x <= y) PROVE FALSE
  <2>1. y < x /\ y <= n /\ y \in Nat /\ x \in Nat
    BY <1>1, <1>5, <1>6
  <2>2. 1..y \in T /\ 1..y \subseteq t
    BY <1>5, <2>1
  <2>3. x \in 1..x /\ x \notin 1..y
    BY <2>1
  <2>4. QED BY <1>4, <1>5, <2>2, <2>3
<1>7. QED BY <1>6

\* pick chooses from every nonempty subset, and g recurs by it.
Picks(S, pick) == \A s \in SUBSET S : s # {} => pick[s] \in s

Follows(S, base, pick, step, g) ==
    \A s \in SUBSET S : g[s] = IF s = {} THEN base ELSE step[<<pick[s], g[s \ {pick[s]}]>>]

\* Two functions that follow the same recursion agree.
LEMMA RecursionIsUnique ==
    ASSUME NEW S, IsFiniteSet(S), NEW base, NEW pick, NEW step, Picks(S, pick),
           NEW g, Follows(S, base, pick, step, g), NEW h, Follows(S, base, pick, step, h)
    PROVE  \A s \in SUBSET S : g[s] = h[s]
<1> DEFINE T == {s \in SUBSET S : g[s] # h[s]}
<1>1. SUFFICES ASSUME T # {} PROVE FALSE
  OBVIOUS
<1>2. T \in SUBSET SUBSET S
  OBVIOUS
<1>3. PICK s \in T : \A r \in T : r \subseteq s => r = s
  <2> HIDE DEF T
  <2>1. QED BY <1>1, <1>2, MinimalSubset
<1>4. s \in SUBSET S /\ g[s] # h[s]
  BY <1>3
<1>5. s # {} /\ pick[s] \in s
  BY <1>4 DEF Picks, Follows
<1>6. s \ {pick[s]} \notin T /\ s \ {pick[s]} \in SUBSET S
  BY <1>3, <1>4, <1>5
<1>7. g[s \ {pick[s]}] = h[s \ {pick[s]}]
  BY <1>6
<1>8. QED BY <1>4, <1>5, <1>7 DEF Follows

\* There is one that does.
LEMMA Recursion ==
    ASSUME NEW S, IsFiniteSet(S), NEW V, NEW base \in V, NEW pick, NEW step \in [S \X V -> V],
           Picks(S, pick)
    PROVE  \E g \in [SUBSET S -> V] : Follows(S, base, pick, step, g)
<1> DEFINE Solves(t, h) == Follows(t, base, pick, step, h)
           T == {t \in SUBSET S : ~\E h \in [SUBSET t -> V] : Solves(t, h)}
<1>1. SUFFICES ASSUME T # {} PROVE FALSE
  OBVIOUS
<1>2. T \in SUBSET SUBSET S
  OBVIOUS
<1>3. PICK t \in T : \A r \in T : r \subseteq t => r = t
  <2> HIDE DEF T
  <2>1. QED BY <1>1, <1>2, MinimalSubset
<1>4. t \in SUBSET S /\ ~\E h \in [SUBSET t -> V] : Solves(t, h)
  BY <1>3
<1> DEFINE Sol(r) == CHOOSE h \in [SUBSET r -> V] : Solves(r, h)
<1>5. ASSUME NEW r \in SUBSET t, r # t
      PROVE  Sol(r) \in [SUBSET r -> V] /\ Solves(r, Sol(r))
  <2>1. \E h \in [SUBSET r -> V] : Solves(r, h)
    BY <1>3, <1>4, <1>5
  <2> HIDE DEF Solves
  <2>2. QED BY <2>1
<1> HIDE DEF T
\* Below t the solutions of the subsets make one.
<1>6. ASSUME NEW r \in SUBSET t, r # t, r # {}
      PROVE  Sol(r)[r] = step[<<pick[r], Sol(r \ {pick[r]})[r \ {pick[r]}]>>]
  <2> DEFINE q == r \ {pick[r]}
  <2>1. pick[r] \in r /\ q \in SUBSET t /\ q # t /\ q \in SUBSET r /\ IsFiniteSet(q)
    <3>1. pick[r] \in r /\ q \in SUBSET t /\ q # t /\ q \in SUBSET r /\ q \in SUBSET S
      BY <1>4, <1>6 DEF Picks
    <3>2. QED BY <3>1, FS_Subset
  <2>2. Solves(r, Sol(r)) /\ Solves(q, Sol(q))
    BY <1>5, <1>6, <2>1
  <2> HIDE DEF q, Sol
  <2>3. Solves(q, Sol(r))
    BY <2>1, <2>2 DEF Follows
  <2>4. Picks(q, pick)
    BY <1>4, <2>1 DEF Picks
  <2>5. Sol(r)[q] = Sol(q)[q]
    <3>1. q \in SUBSET q
      OBVIOUS
    <3>2. QED BY <2>1, <2>2, <2>3, <2>4, <3>1, RecursionIsUnique
  <2>6. Sol(r)[r] = step[<<pick[r], Sol(r)[q]>>]
    BY <1>6, <2>2 DEF q, Follows
  <2>7. QED BY <2>5, <2>6 DEF q
<1>7. ASSUME NEW r \in SUBSET t, r # t
      PROVE  Sol(r)[r] \in V /\ (r = {} => Sol(r)[r] = base)
  <2>1. Sol(r) \in [SUBSET r -> V] /\ Solves(r, Sol(r)) /\ r \in SUBSET r
    BY <1>5, <1>7
  <2> HIDE DEF Sol
  <2>2. QED BY <2>1 DEF Follows
<1> HIDE DEF Sol
<1> DEFINE top == IF t = {} THEN base ELSE step[<<pick[t], Sol(t \ {pick[t]})[t \ {pick[t]}]>>]
           H == [s \in SUBSET t |-> IF s = t THEN top ELSE Sol(s)[s]]
<1>8. top \in V
  <2>1. CASE t = {}
    BY <2>1
  <2>2. CASE t # {}
    <3>1. pick[t] \in t /\ pick[t] \in S
      BY <1>4, <2>2 DEF Picks
    <3>2. t \ {pick[t]} \in SUBSET t /\ t \ {pick[t]} # t
      BY <3>1
    <3>3. Sol(t \ {pick[t]})[t \ {pick[t]}] \in V
      BY <1>7, <3>2
    <3>4. QED BY <2>2, <3>1, <3>3
  <2>3. QED BY <2>1, <2>2
<1>9. H \in [SUBSET t -> V]
  <2> HIDE DEF top
  <2>1. QED BY <1>7, <1>8
<1>10. Solves(t, H)
  <2> SUFFICES ASSUME NEW s \in SUBSET t
               PROVE  H[s] = IF s = {} THEN base ELSE step[<<pick[s], H[s \ {pick[s]}]>>]
    BY DEF Follows
  <2>1. CASE s = {}
    BY <1>7, <2>1
  <2>2. CASE s # {}
    <3>1. pick[s] \in s
      BY <1>4, <2>2 DEF Picks
    <3>2. s \ {pick[s]} \in SUBSET t /\ s \ {pick[s]} # t
      BY <3>1
    <3>3. H[s \ {pick[s]}] = Sol(s \ {pick[s]})[s \ {pick[s]}]
      BY <3>2
    <3>4. CASE s = t
      BY <2>2, <3>3, <3>4
    <3>5. CASE s # t
      BY <1>6, <2>2, <3>3, <3>5
    <3>6. QED BY <3>4, <3>5
  <2>3. QED BY <2>1, <2>2
<1>11. QED
  <2> HIDE DEF H, Solves
  <2>1. QED BY <1>4, <1>9, <1>10

LEMMA MaxOfIndices ==
    ASSUME NEW n \in Nat, NEW s \in SUBSET (1..n), s # {}
    PROVE  Max(s) \in s /\ \A x \in s : x <= Max(s)
<1> DEFINE T == {n - x : x \in s}
<1>1. T \in SUBSET Nat /\ T # {}
  <2>1. \A x \in s : n - x \in Nat
    OBVIOUS
  <2>2. PICK x \in s : TRUE
    OBVIOUS
  <2>3. n - x \in T
    OBVIOUS
  <2>4. QED BY <2>1, <2>3
<1>2. PICK t \in T : \A u \in T : t <= u
  <2> HIDE DEF T
  <2>1. QED BY <1>1, LeastNatural
<1>3. PICK m \in s : t = n - m
  BY <1>2
<1>4. \A x \in s : m >= x
  <2> SUFFICES ASSUME NEW x \in s PROVE m >= x
    OBVIOUS
  <2>1. n - x \in T
    OBVIOUS
  <2>2. n - m <= n - x
    BY <1>2, <1>3, <2>1
  <2>3. QED BY <2>2
<1>5. \E x \in s : \A y \in s : x >= y
  BY <1>4
<1>6. Max(s) \in s /\ \A y \in s : Max(s) >= y
  BY <1>5 DEF Max
<1>7. QED BY <1>6

LEMMA MaxOfInterval ==
    ASSUME NEW n \in Nat \ {0} PROVE Max(1..n) = n /\ (1..n) \ {n} = 1..(n - 1)
<1>1. 1..n \in SUBSET (1..n) /\ n \in 1..n
  OBVIOUS
<1>2. Max(1..n) \in 1..n /\ \A x \in 1..n : x <= Max(1..n)
  BY <1>1, MaxOfIndices
<1>3. QED
  <2> HIDE DEF Max
  <2>1. Max(1..n) = n
    BY <1>1, <1>2
  <2>2. (1..n) \ {n} = 1..(n - 1)
    OBVIOUS
  <2>3. QED BY <2>1, <2>2

\* A loop over n indices: base before the first, step at each.
Loops(n, base, step, g) ==
    \A s \in SUBSET (1..n) :
        g[s] = IF s = {} THEN base ELSE step[<<Max(s), g[s \ {Max(s)}]>>]

LEMMA IndexRecursion ==
    ASSUME NEW n \in Nat, NEW V, NEW base \in V, NEW step \in [(1..n) \X V -> V]
    PROVE  \E g \in [SUBSET (1..n) -> V] : Loops(n, base, step, g)
<1> DEFINE S == 1..n
           pick == [s \in SUBSET S |-> Max(s)]
<1>1. Picks(S, pick)
  BY MaxOfIndices DEF Picks
<1>2. IsFiniteSet(S)
  BY FS_Interval
<1>3. PICK g \in [SUBSET S -> V] : Follows(S, base, pick, step, g)
  <2> HIDE DEF S, pick
  <2>1. step \in [S \X V -> V]
    BY DEF S
  <2>2. QED BY <1>1, <1>2, <2>1, Recursion
<1>4. Loops(n, base, step, g)
  BY <1>3 DEF Follows, Loops
<1>5. QED
  <2> HIDE DEF pick
  <2>1. QED BY <1>3, <1>4

-------------------------------------------------------------------------------
(* Sequences of entries                                                     *)

Kinds == {"user", "assistant", "result", "hidden", "summary"}
Entry == [id : Int, kind : Kinds, of : Int, size : Nat]

\* What ids there are after n messages, h hidden entries of others and k compactions.
EntryFor(e, n, h, k) ==
    /\ IsMessage(e) => e.id \in 1..n /\ e.size \in Sizes
    /\ ~IsMessage(e) => e.size = 0
    /\ e.kind = "summary" => e.id = -1
    /\ e.kind = "hidden" =>
        \/ -1 - h <= e.id /\ e.id <= -2
        \/ -1 - HiddenLimit - 2 * k <= e.id /\ e.id <= -2 - HiddenLimit

Distinct(es) == \A i, j \in 1..Len(es) : es[i].id = es[j].id => i = j

\* A result follows the message that called the tool, or another of its results; one of
\* those in X, a hidden entry or another of them.
PairOf(prev, e, X) ==
    \/ prev.kind = "assistant" /\ prev.id = e.of
    \/ prev.kind = "result" /\ prev.of = e.of /\ (prev.id \in X => e.id \in X)
    \/ prev.kind = "hidden" /\ e.id \in X
Paired(es, X) ==
    \A i \in 1..Len(es) : es[i].kind = "result" => i > 1 /\ PairOf(es[i - 1], es[i], X)

\* An entry the context may begin with, behind the summary.
Opens(e) == e.kind \notin {"summary", "result"}

SummaryFirst(es) == \A i \in 1..Len(es) : es[i].kind = "summary" => i = 1

Formed(es, n, h, k, X) ==
    /\ es \in Seq(Entry) /\ \A i \in 1..Len(es) : EntryFor(es[i], n, h, k)
    /\ Distinct(es) /\ SummaryFirst(es) /\ Paired(es, X)

LEMMA AppendedEntries ==
    ASSUME NEW es \in Seq(Entry), NEW e \in Entry
    PROVE  /\ Append(es, e) \in Seq(Entry) /\ Len(Append(es, e)) = Len(es) + 1 /\ Len(es) \in Nat
           /\ \A i \in 1..Len(es) : Append(es, e)[i] = es[i] /\ es[i] \in Entry
           /\ Append(es, e)[Len(es) + 1] = e
BY AppendProperties, LenProperties, ElementOfSeq

\* An entry with a new id may follow.
MayFollow(es, e) ==
    /\ \A i \in 1..Len(es) : es[i].id # e.id
    /\ e.kind # "summary"

LEMMA FormedAppend ==
    ASSUME NEW n \in Nat, NEW h \in Nat, NEW k \in Nat, NEW X, NEW es, Formed(es, n, h, k, X),
           NEW n1 \in Nat, NEW h1 \in Nat, NEW k1 \in Nat, n <= n1, h <= h1, k <= k1,
           NEW e \in Entry, EntryFor(e, n1, h1, k1), MayFollow(es, e),
           NEW X1, X \subseteq X1, X1 \subseteq X \cup {e.id},
           e.kind = "result" => Len(es) > 0 /\ PairOf(es[Len(es)], e, X1)
    PROVE  Formed(Append(es, e), n1, h1, k1, X1)
<1> DEFINE longer == Append(es, e)
<1>1. es \in Seq(Entry)
  BY DEF Formed
<1>2. /\ longer \in Seq(Entry) /\ Len(longer) = Len(es) + 1 /\ Len(es) \in Nat
      /\ \A i \in 1..Len(es) : longer[i] = es[i] /\ es[i] \in Entry
      /\ longer[Len(es) + 1] = e
  BY <1>1, AppendedEntries
<1> HIDE DEF longer
<1>3. \A i \in 1..Len(longer) : i = Len(es) + 1 \/ i \in 1..Len(es)
  BY <1>2
<1>4. ASSUME NEW i \in 1..Len(longer) PROVE EntryFor(longer[i], n1, h1, k1)
  <2>1. CASE i = Len(es) + 1
    BY <1>2, <2>1
  <2>2. CASE i \in 1..Len(es)
    <3>1. EntryFor(es[i], n, h, k) /\ longer[i] = es[i] /\ es[i].id \in Int
      BY <1>2, <2>2 DEF Formed, Entry
    <3>2. EntryFor(es[i], n1, h1, k1)
      <4> HIDE DEF IsMessage
      <4>1. HiddenLimit \in Nat
        BY KeptWindowAssumption
      <4>2. QED BY <3>1, <4>1 DEF EntryFor
    <3>3. QED BY <3>1, <3>2
  <2>3. QED BY <1>3, <2>1, <2>2
<1>5. Distinct(longer)
  <2>1. Distinct(es) /\ \A i \in 1..Len(es) : es[i].id # e.id
    BY DEF Formed, MayFollow
  <2>2. QED BY <1>2, <1>3, <2>1 DEF Distinct
<1>6. Paired(longer, X1)
  <2>1. ASSUME NEW i \in 1..Len(longer), longer[i].kind = "result"
        PROVE  i > 1 /\ PairOf(longer[i - 1], longer[i], X1)
    <3>1. CASE i = Len(es) + 1
      <4>1. Len(es) > 0 /\ PairOf(es[Len(es)], e, X1)
        BY <1>2, <2>1, <3>1
      <4>2. Len(es) \in 1..Len(es) /\ i - 1 = Len(es)
        BY <1>2, <3>1, <4>1
      <4>3. QED BY <1>2, <3>1, <4>1, <4>2
    <3>2. CASE i \in 1..Len(es)
      <4>1. i > 1 /\ PairOf(es[i - 1], es[i], X)
        BY <1>2, <2>1, <3>2 DEF Formed, Paired
      <4>2. i - 1 \in 1..Len(es)
        BY <1>2, <3>2, <4>1
      <4>3. es[i - 1].id # e.id
        BY <4>2 DEF MayFollow
      <4>4. PairOf(es[i - 1], es[i], X1)
        BY <4>1, <4>3 DEF PairOf
      <4>5. QED BY <1>2, <3>2, <4>1, <4>2, <4>4
    <3>3. QED BY <1>3, <3>1, <3>2
  <2>2. QED BY <2>1 DEF Paired
<1>7. SummaryFirst(longer)
  BY <1>2, <1>3 DEF SummaryFirst, Formed, MayFollow
<1>8. QED BY <1>2, <1>4, <1>5, <1>6, <1>7 DEF Formed, longer

LEMMA FormedHidden ==
    ASSUME NEW n \in Nat, NEW h \in Nat, NEW k \in Nat, NEW X, NEW es, Formed(es, n, h, k, X),
           NEW h1 \in Nat, NEW k1 \in Nat, h <= h1, k <= k1,
           NEW e \in Entry, EntryFor(e, n, h1, k1), MayFollow(es, e), e.kind = "hidden"
    PROVE  Formed(Append(es, e), n, h1, k1, X)
<1>1. X \subseteq X /\ X \subseteq X \cup {e.id} /\ n <= n /\ e.kind # "result"
  OBVIOUS
<1>2. QED BY <1>1, FormedAppend

LEMMA TailEntries ==
    ASSUME NEW es \in Seq(Entry), NEW i \in 1..(Len(es) + 1)
    PROVE  /\ SubSeq(es, i, Len(es)) \in Seq(Entry) /\ Len(es) \in Nat
           /\ Len(SubSeq(es, i, Len(es))) = Len(es) - i + 1
           /\ \A j \in 1..(Len(es) - i + 1) : SubSeq(es, i, Len(es))[j] = es[i + j - 1]
<1> DEFINE tail == SubSeq(es, i, Len(es))
<1>1. Len(es) \in Nat /\ es \in [1..Len(es) -> Entry]
  BY LenProperties
<1>2. Len(es) \in Int /\ i \in Int /\ i \in 1..(Len(es) + 1) /\ Len(es) \in (i - 1)..Len(es)
  BY <1>1
<1>3. tail \in Seq(Entry) /\ Len(tail) = IF i <= Len(es) THEN Len(es) - i + 1 ELSE 0
  BY <1>1, SubSeqProperties
<1>4. Len(tail) = Len(es) - i + 1
  BY <1>2, <1>3
<1>5. \A j \in 1..(Len(es) - i + 1) : tail[j] = es[i + j - 1]
  BY <1>1, SubSeqProperties
<1>6. QED BY <1>1, <1>3, <1>4, <1>5

\* The tail of the entries from i on, behind a summary.
Behind(es, i) == <<Summary>> \o SubSeq(es, i, Len(es))

LEMMA SummaryEntry == Summary \in Entry
BY DEF Summary, Entry, Kinds

LEMMA BehindEntries ==
    ASSUME NEW es \in Seq(Entry), NEW i \in 1..(Len(es) + 1)
    PROVE  /\ Behind(es, i) \in Seq(Entry) /\ Len(es) \in Nat
           /\ Len(Behind(es, i)) = Len(es) - i + 2 /\ Behind(es, i)[1] = Summary
           /\ \A j \in 2..Len(Behind(es, i)) : Behind(es, i)[j] = es[i + j - 2]
<1> DEFINE tail == SubSeq(es, i, Len(es))
           one == <<Summary>>
<1>1. Len(es) \in Nat /\ es \in [1..Len(es) -> Entry]
  BY LenProperties
<1>2. /\ tail \in Seq(Entry) /\ Len(tail) = Len(es) - i + 1
      /\ \A j \in 1..Len(tail) : tail[j] = es[i + j - 1]
  BY TailEntries
<1>3. one \in Seq(Entry) /\ Len(one) = 1 /\ one[1] = Summary
  BY SummaryEntry
<1> HIDE DEF tail, one
<1>4. /\ one \o tail \in Seq(Entry) /\ Len(one \o tail) = 1 + Len(tail)
      /\ \A j \in 1..(1 + Len(tail)) :
            (one \o tail)[j] = IF j <= 1 THEN one[j] ELSE tail[j - 1]
  <2>1. /\ one \o tail \in Seq(Entry) /\ Len(one \o tail) = Len(one) + Len(tail)
        /\ \A j \in 1..(Len(one) + Len(tail)) :
              (one \o tail)[j] = IF j <= Len(one) THEN one[j] ELSE tail[j - Len(one)]
    BY <1>2, <1>3, ConcatProperties
  <2>2. QED BY <1>3, <2>1
<1>5. QED BY <1>1, <1>2, <1>3, <1>4 DEF Behind, tail, one

\* A cut that does not separate a result from its call leaves the entries well formed.
LEMMA BehindFormed ==
    ASSUME NEW n \in Nat, NEW h \in Nat, NEW k \in Nat, NEW X, NEW es, Formed(es, n, h, k, X),
           NEW i \in 1..(Len(es) + 1),
           i \in 1..Len(es) => Opens(es[i])
    PROVE  Formed(Behind(es, i), n, h, k, X)
<1> DEFINE new == Behind(es, i)
<1>1. es \in Seq(Entry)
  BY DEF Formed
<1>2. /\ new \in Seq(Entry) /\ Len(es) \in Nat
      /\ Len(new) = Len(es) - i + 2 /\ new[1] = Summary
      /\ \A j \in 2..Len(new) : new[j] = es[i + j - 2]
  BY <1>1, BehindEntries
<1> HIDE DEF new
<1>3. \A j \in 1..Len(new) : j = 1 \/ (j \in 2..Len(new) /\ i + j - 2 \in 1..Len(es))
  BY <1>2
<1>4. \A j \in 2..Len(new) : es[i + j - 2].kind # "summary"
  <2>1. SUFFICES ASSUME NEW j \in 2..Len(new), es[i + j - 2].kind = "summary" PROVE FALSE
    OBVIOUS
  <2>2. i + j - 2 \in 1..Len(es)
    BY <1>2
  <2>3. i + j - 2 = 1
    BY <2>1, <2>2 DEF Formed, SummaryFirst
  <2>4. i = 1 /\ i \in 1..Len(es)
    BY <1>2, <2>2, <2>3
  <2>5. QED BY <2>1, <2>3, <2>4 DEF Opens
<1>5. Summary.kind = "summary" /\ Summary.id = -1 /\ Summary.size = 0
  BY DEF Summary
<1>6. EntryFor(Summary, n, h, k)
  BY <1>5 DEF EntryFor, IsMessage
<1>7. ASSUME NEW j \in 1..Len(new) PROVE EntryFor(new[j], n, h, k)
  BY <1>2, <1>3, <1>6 DEF Formed
<1>8. \A j \in 2..Len(new) : new[j].id # -1
  <2>1. SUFFICES ASSUME NEW j \in 2..Len(new), new[j].id = -1 PROVE FALSE
    OBVIOUS
  <2>2. i + j - 2 \in 1..Len(es) /\ new[j] = es[i + j - 2]
    BY <1>2
  <2>3. EntryFor(new[j], n, h, k) /\ new[j].kind # "summary" /\ new[j] \in Entry
    BY <1>1, <1>4, <2>2, ElementOfSeq DEF Formed
  <2>4. HiddenLimit \in Nat
    BY KeptWindowAssumption
  <2>5. QED BY <2>1, <2>3, <2>4 DEF EntryFor, IsMessage, Entry, Kinds
<1>9. Distinct(new)
  <2>1. ASSUME NEW a \in 1..Len(new), NEW b \in 1..Len(new), new[a].id = new[b].id
        PROVE  a = b
    <3>1. CASE a = 1 \/ b = 1
      BY <1>2, <1>3, <1>5, <1>8, <2>1, <3>1
    <3>2. CASE a # 1 /\ b # 1
      <4>1. /\ a \in 2..Len(new) /\ i + a - 2 \in 1..Len(es) /\ new[a] = es[i + a - 2]
            /\ b \in 2..Len(new) /\ i + b - 2 \in 1..Len(es) /\ new[b] = es[i + b - 2]
        BY <1>2, <1>3, <3>2
      <4>2. i + a - 2 = i + b - 2
        BY <2>1, <4>1 DEF Formed, Distinct
      <4>3. QED BY <4>2
    <3>3. QED BY <3>1, <3>2
  <2>2. QED BY <2>1 DEF Distinct
<1>10. Paired(new, X)
  <2>1. ASSUME NEW j \in 1..Len(new), new[j].kind = "result"
        PROVE  j > 1 /\ PairOf(new[j - 1], new[j], X)
    <3>1. j \in 2..Len(new) /\ i + j - 2 \in 1..Len(es) /\ new[j] = es[i + j - 2]
      BY <1>2, <1>3, <1>5, <2>1
    <3>2. i + j - 2 > 1 /\ PairOf(es[i + j - 2 - 1], es[i + j - 2], X)
      BY <2>1, <3>1 DEF Formed, Paired
    <3>3. j # 2
      <4>1. SUFFICES ASSUME j = 2 PROVE FALSE
        OBVIOUS
      <4>2. i \in 1..Len(es) /\ es[i].kind = "result"
        BY <2>1, <3>1, <4>1
      <4>3. QED BY <4>2 DEF Opens
    <3>4. j - 1 \in 2..Len(new) /\ i + (j - 1) - 2 = i + j - 2 - 1
      <4>1. Len(new) \in Int /\ i \in Int /\ j \in 2..Len(new)
        BY <1>2, <3>1
      <4>2. QED BY <3>3, <4>1
    <3>5. new[j - 1] = es[i + j - 2 - 1]
      BY <1>2, <3>4
    <3>6. QED BY <3>1, <3>2, <3>5
  <2>2. QED BY <2>1 DEF Paired
<1>11. SummaryFirst(new)
  BY <1>2, <1>3, <1>4 DEF SummaryFirst
<1>12. QED BY <1>2, <1>7, <1>9, <1>10, <1>11 DEF Formed, new

-------------------------------------------------------------------------------
(* The planner and the limiter                                              *)

\* What may be kept from.
Target(es, first) ==
    \/ first = KeepNone
    \/ \E j \in 1..Len(es) : first = es[j].id /\ Opens(es[j])

LEMMA LeastIndex ==
    ASSUME NEW S \in SUBSET Nat, S # {}
    PROVE  Min(S) \in S /\ \A x \in S : Min(S) <= x
BY LeastNatural DEF Min

LEMMA IndexOfEntry ==
    ASSUME NEW es \in Seq(Entry), Distinct(es), NEW j \in 1..Len(es)
    PROVE  IndexOf(es, es[j].id) = j
<1> DEFINE I == {i \in 1..Len(es) : es[i].id = es[j].id}
<1>1. IndexOf(es, es[j].id) = IF I # {} THEN Min(I) ELSE 0
  BY DEF IndexOf, SelectInSeq
<1>2. I = {j}
  BY DEF Distinct
<1>3. I # {} /\ I \in SUBSET Nat
  BY <1>2
<1> HIDE DEF I
<1>4. Min(I) \in I
  BY <1>3, LeastIndex
<1>5. QED BY <1>1, <1>2, <1>3, <1>4

LEMMA NoEntryIsNone ==
    ASSUME NEW n \in Nat, NEW h \in Nat, NEW k \in Nat, NEW X, NEW es, Formed(es, n, h, k, X)
    PROVE  IndexOf(es, KeepNone) = 0 /\ \A i \in 1..Len(es) : es[i].id # KeepNone
<1>1. ASSUME NEW i \in 1..Len(es) PROVE es[i].id # 0
  <2>1. EntryFor(es[i], n, h, k) /\ es[i] \in Entry /\ HiddenLimit \in Nat
    BY ElementOfSeq, KeptWindowAssumption DEF Formed
  <2>2. QED BY <2>1 DEF EntryFor, IsMessage, Entry, Kinds
<1>2. QED BY <1>1 DEF IndexOf, SelectInSeq, KeepNone

\* What pi keeps is the tail from i on: from the entry the cut names, or nothing.
KeptFrom(es, first, i) ==
    /\ <<Summary>> \o Kept(es, first) = Behind(es, i)
    /\ i \in 1..Len(es) => es[i].id = first /\ Opens(es[i])
    /\ first = KeepNone <=> i = Len(es) + 1

LEMMA KeptBehind ==
    ASSUME NEW n \in Nat, NEW h \in Nat, NEW k \in Nat, NEW X, NEW es, Formed(es, n, h, k, X),
           NEW first, Target(es, first)
    PROVE  \E i \in 1..(Len(es) + 1) : KeptFrom(es, first, i)
<1>1. es \in Seq(Entry) /\ Len(es) \in Nat
  BY LenProperties DEF Formed
<1>2. CASE first = KeepNone
  <2>1. Kept(es, first) = <<>>
    BY <1>2, NoEntryIsNone DEF Kept
  <2>2. SubSeq(es, Len(es) + 1, Len(es)) = <<>>
    <3>1. Len(es) + 1 \in Int /\ Len(es) \in Int /\ Len(es) < Len(es) + 1
      BY <1>1
    <3>2. QED BY <3>1, SubSeqEmpty
  <2>3. <<Summary>> \o Kept(es, first) = Behind(es, Len(es) + 1) /\ Len(es) + 1 \in 1..(Len(es) + 1)
    BY <1>1, <2>1, <2>2 DEF Behind
  <2>4. ~(Len(es) + 1 \in 1..Len(es))
    BY <1>1
  <2>5. QED BY <1>2, <2>3, <2>4 DEF KeptFrom
<1>3. CASE first # KeepNone
  <2>1. PICK j \in 1..Len(es) : first = es[j].id /\ Opens(es[j])
    BY <1>3 DEF Target
  <2>2. IndexOf(es, first) = j
    BY <1>1, <2>1, IndexOfEntry DEF Formed
  <2>3. <<Summary>> \o Kept(es, first) = Behind(es, j)
    BY <1>1, <2>2 DEF Kept, Behind
  <2>4. j \in 1..(Len(es) + 1) /\ j # Len(es) + 1
    BY <1>1
  <2>5. QED BY <1>3, <2>1, <2>3, <2>4 DEF KeptFrom
<1>4. QED BY <1>2, <1>3

\* The span begins behind the summary, which can only be the first entry.
LEMMA BoundaryOf ==
    ASSUME NEW es \in Seq(Entry), SummaryFirst(es)
    PROVE  /\ Boundary(es) \in 1..(Len(es) + 1) /\ Boundary(es) \in {1, 2}
           /\ \A i \in Boundary(es)..Len(es) : es[i].kind # "summary"
           /\ Boundary(es) > 1 => es[Boundary(es) - 1].kind = "summary"
<1> DEFINE old == {i \in 1..Len(es) : es[i].kind = "summary"}
<1>1. Len(es) \in Nat
  BY LenProperties
<1>2. Boundary(es) = (IF old # {} THEN Min(old) ELSE 0) + 1
  BY DEF Boundary, SelectInSeq
<1>3. old \in SUBSET {1}
  BY <1>1 DEF SummaryFirst
<1>4. CASE old = {}
  <2>1. Boundary(es) = 1
    BY <1>2, <1>4
  <2>2. \A i \in 1..Len(es) : es[i].kind # "summary"
    BY <1>4
  <2>3. QED BY <1>1, <2>1, <2>2
<1>5. CASE old # {}
  <2>1. old = {1}
    BY <1>3, <1>5
  <2>2. Min({1}) = 1
    <3>1. {1} \in SUBSET Nat /\ {1} # {}
      OBVIOUS
    <3>2. Min({1}) \in {1}
      BY <3>1, LeastIndex
    <3>3. QED BY <3>2
  <2>3. Boundary(es) = 2
    <3> HIDE DEF old
    <3>1. Boundary(es) = Min({1}) + 1
      BY <1>2, <1>5, <2>1
    <3>2. QED BY <2>2, <3>1
  <2>4. 1 \in 1..Len(es) /\ es[1].kind = "summary"
    BY <2>1
  <2>5. \A i \in 2..Len(es) : es[i].kind # "summary"
    BY <1>1 DEF SummaryFirst
  <2>6. QED BY <1>1, <2>3, <2>4, <2>5
<1>6. QED BY <1>4, <1>5

\* pi cuts before a message that is no result, or behind the old summary.
LEMMA CutFirst ==
    ASSUME NEW n \in Nat, NEW h \in Nat, NEW k \in Nat, NEW X, NEW es, Formed(es, n, h, k, X),
           NEW cut \in Cuts(es)
    PROVE  cut.first \in 1..Len(es) /\ Opens(es[cut.first])
<1> DEFINE start == Boundary(es)
           safe == {c \in start..Len(es) : Safe(es, c)}
<1>1. es \in Seq(Entry) /\ Len(es) \in Nat
  BY LenProperties DEF Formed
<1>2. PICK c \in IF safe # {} \/ start > Len(es) THEN safe ELSE {start} : cut = Cut(es, start, c)
  BY DEF Cuts
<1>3. cut.first = c
  BY <1>2 DEF Cut
<1>4. /\ start \in 1..(Len(es) + 1) /\ \A i \in start..Len(es) : es[i].kind # "summary"
      /\ start > 1 => es[start - 1].kind = "summary"
  BY <1>1, BoundaryOf DEF Formed
<1> HIDE DEF start
<1>5. c \in start..Len(es)
  BY <1>1, <1>2, <1>4
<1>6. es[c].kind # "summary"
  BY <1>4, <1>5
<1>7. es[c].kind # "result"
  <2>1. CASE c \in safe
    <3> DEFINE I == {i \in c..Len(es) : Visible(es[i])}
               v == SelectInSubSeq(es, c, Len(es), Visible)
    <3>1. v = (IF I # {} THEN Min(I) ELSE 0) /\ v # 0 /\ es[v].kind # "result"
      BY <2>1 DEF SelectInSubSeq, Safe
    <3>2. I \in SUBSET Nat
      BY <1>4, <1>5
    <3>3. SUFFICES ASSUME es[c].kind = "result" PROVE FALSE
      OBVIOUS
    <3>4. c \in I
      BY <1>1, <1>4, <1>5, <3>3 DEF Visible
    <3>5. v \in I /\ v <= c
      <4> HIDE DEF I, v
      <4>1. QED BY <3>1, <3>2, <3>4, LeastIndex
    <3>6. v = c
      BY <1>4, <1>5, <3>5
    <3>7. QED BY <3>1, <3>3, <3>6
  <2>2. CASE c = start
    <3>1. SUFFICES ASSUME es[start].kind = "result" PROVE FALSE
      BY <2>2
    <3>2. start > 1 /\ PairOf(es[start - 1], es[start], X)
      BY <1>4, <1>5, <2>2, <3>1 DEF Formed, Paired
    <3>3. QED BY <1>4, <3>2 DEF PairOf
  <2>3. QED BY <1>2, <2>1, <2>2
<1>8. QED BY <1>1, <1>3, <1>4, <1>5, <1>6, <1>7 DEF Opens

LEMMA PlanTarget ==
    ASSUME NEW n \in Nat, NEW h \in Nat, NEW k \in Nat, NEW X, NEW es, Formed(es, n, h, k, X),
           NEW p \in Plans(es)
    PROVE  Target(es, p.first) /\ p.first # KeepNone
<1>1. PICK cut \in Cuts(es) : p = Plan(es, cut)
  BY DEF Plans
<1>2. p.first = es[cut.first].id
  BY <1>1 DEF Plan
<1>3. cut.first \in 1..Len(es) /\ Opens(es[cut.first])
  BY CutFirst
<1>4. QED BY <1>2, <1>3, NoEntryIsNone DEF Target

\* What is kept from there, if anything, is within the cap.
WithinCap(es, first, cap) ==
    cap > 0 /\ first # KeepNone =>
        \E j \in 1..Len(es) : first = es[j].id /\ Retained(es, j) <= cap

\* The limiter moves the cut only to where a request can start, and only as far as the
\* cap demands.
LEMMA LimitTarget ==
    ASSUME NEW n \in Nat, NEW h \in Nat, NEW k \in Nat, NEW X, NEW es, Formed(es, n, h, k, X),
           NEW first, Target(es, first), first # KeepNone, NEW budget \in Nat
    PROVE  /\ Target(es, Limit(es, first, budget).first)
           /\ WithinCap(es, Limit(es, first, budget).first, budget * Ratio)
<1> DEFINE cap == budget * Ratio
           start == IndexOf(es, first)
           fits == {i \in start + 1..Len(es) : CanStartAt(es[i]) /\ Retained(es, i) <= cap}
           to == Limit(es, first, budget).first
<1>1. es \in Seq(Entry) /\ Len(es) \in Nat
  BY LenProperties DEF Formed
<1>2. PICK j \in 1..Len(es) : first = es[j].id /\ Opens(es[j])
  BY DEF Target
<1>3. start = j
  BY <1>1, <1>2, IndexOfEntry DEF Formed
<1>4. CASE cap = 0 \/ Retained(es, start) <= cap
  <2>1. to = first
    BY <1>4 DEF Limit
  <2>2. cap > 0 => Retained(es, j) <= cap
    BY <1>3, <1>4
  <2>3. QED BY <1>2, <2>1, <2>2 DEF Target, WithinCap
<1>5. CASE ~(cap = 0 \/ Retained(es, start) <= cap) /\ fits = {}
  <2>1. to = KeepNone
    BY <1>2, <1>3, <1>5 DEF Limit, Shed
  <2>2. QED BY <2>1 DEF Target, WithinCap
<1>6. CASE ~(cap = 0 \/ Retained(es, start) <= cap) /\ fits # {}
  <2>1. to = es[Min(fits)].id
    BY <1>2, <1>3, <1>6 DEF Limit
  <2>2. Min(fits) \in fits
    <3>1. fits \in SUBSET Nat
      BY <1>2, <1>3
    <3> HIDE DEF fits
    <3>2. QED BY <1>6, <3>1, LeastIndex
  <2>3. Min(fits) \in 1..Len(es) /\ Min(fits) > 1 /\ es[Min(fits)].kind # "result"
        /\ Retained(es, Min(fits)) <= cap
    BY <1>1, <1>2, <1>3, <2>2 DEF CanStartAt
  <2> HIDE DEF fits
  <2>4. es[Min(fits)].kind # "summary"
    BY <2>3 DEF Formed, SummaryFirst
  <2>5. QED BY <2>1, <2>3, <2>4 DEF Target, WithinCap, Opens
<1>7. QED BY <1>4, <1>5, <1>6

\* Plans that the limiter can bound, and what it makes of them.
Cuttable(es, plans) == \A p \in plans : Target(es, p.first) /\ p.first # KeepNone

LEMMA ProposalTarget ==
    ASSUME NEW n \in Nat, NEW h \in Nat, NEW k \in Nat, NEW X, NEW es, Formed(es, n, h, k, X),
           NEW plans, Cuttable(es, plans),
           NEW budget \in Nat, NEW q \in Proposals(es, plans, budget)
    PROVE  Target(es, q.first) /\ WithinCap(es, q.first, budget * Ratio)
<1>1. PICK p \in plans : q = BoundKeptWindow(p, Limit(es, p.first, budget))
  BY DEF Proposals
<1>2. q.first = Limit(es, p.first, budget).first
  BY <1>1 DEF BoundKeptWindow
<1>3. PICK first : first = p.first
  OBVIOUS
<1>4. Target(es, first) /\ first # KeepNone
  BY <1>1, <1>3 DEF Cuttable
<1>5. /\ Target(es, Limit(es, first, budget).first)
      /\ WithinCap(es, Limit(es, first, budget).first, budget * Ratio)
  BY <1>4, LimitTarget
<1>6. QED BY <1>2, <1>3, <1>5

-------------------------------------------------------------------------------
(* The session                                                              *)

\* Calls wait for their results behind the newest assistant message: at the end is that
\* message, one of its results or a hidden entry.
Newest(es, a) ==
    /\ \E i \in 1..Len(es) : es[i].kind = "assistant" /\ es[i].id = a
    /\ \A i \in 1..Len(es) : es[i].kind = "assistant" => es[i].id <= a
Awaits(e, a) == \/ e.kind = "assistant" /\ e.id = a
                \/ e.kind = "result" /\ e.of = a
                \/ e.kind = "hidden"
CallOpen(es) ==
    \E a \in Nat : Newest(es, a) /\ Len(es) > 0 /\ Awaits(es[Len(es)], a)

Orderly ==
    /\ calls \in Nat /\ said \in Nat /\ compactions \in Nat
    /\ hidden \in Nat /\ hidden <= HiddenLimit /\ exposed \in SUBSET (1..said)
    /\ Formed(entries, said, hidden, compactions, exposed)
    /\ calls > 0 => CallOpen(entries)

LEMMA NewestIsMax ==
    ASSUME NEW es \in Seq(Entry), NEW a \in Nat, Newest(es, a)
    PROVE  Max({e.id : e \in {x \in ToSet(es) : x.kind = "assistant"}}) = a
<1> DEFINE I == {e.id : e \in {x \in ToSet(es) : x.kind = "assistant"}}
<1>1. a \in I /\ \A x \in I : x <= a /\ x \in Int
  <2>1. \A i \in 1..Len(es) : es[i] \in Entry
    BY ElementOfSeq
  <2>2. ToSet(es) = {es[i] : i \in 1..Len(es)}
    BY DEF ToSet
  <2>3. QED BY <2>1, <2>2 DEF Newest, Entry
<1> HIDE DEF I
<1>2. Max(I) = CHOOSE x \in I : \A y \in I : x >= y
  BY DEF Max
<1>3. a \in I /\ \A y \in I : a >= y
  BY <1>1
<1>4. Max(I) \in I /\ \A y \in I : Max(I) >= y
  BY <1>2, <1>3
<1>5. Max(I) <= a /\ a <= Max(I) /\ Max(I) \in Int
  BY <1>1, <1>4
<1>6. QED BY <1>5 DEF I

\* A message with the next id is new, and an entry below every other is.
LEMMA NewMessage ==
    ASSUME NEW n \in Nat, NEW h \in Nat, NEW k \in Nat, NEW X, NEW es, Formed(es, n, h, k, X)
    PROVE  \A i \in 1..Len(es) : es[i].id # n + 1 /\ es[i].id <= n
<1>1. ASSUME NEW i \in 1..Len(es) PROVE es[i].id <= n /\ es[i].id \in Int
  <2>1. EntryFor(es[i], n, h, k) /\ es[i] \in Entry /\ HiddenLimit \in Nat
    BY ElementOfSeq, KeptWindowAssumption DEF Formed
  <2>2. CASE IsMessage(es[i])
    BY <2>1, <2>2 DEF EntryFor, Entry
  <2>3. CASE ~IsMessage(es[i])
    BY <2>1, <2>3 DEF EntryFor, Entry, IsMessage, Kinds
  <2>4. QED BY <2>2, <2>3
<1>2. QED BY <1>1

LEMMA NewHidden ==
    ASSUME NEW n \in Nat, NEW h \in Nat, NEW k \in Nat, NEW X, NEW es, Formed(es, n, h, k, X)
    PROVE  /\ h < HiddenLimit => \A i \in 1..Len(es) : es[i].id # -(h + 1) - 1
           /\ \A x \in Int : x < -1 - HiddenLimit - 2 * k /\ h <= HiddenLimit =>
                \A i \in 1..Len(es) : es[i].id # x
<1>1. ASSUME NEW i \in 1..Len(es)
      PROVE  /\ h < HiddenLimit => es[i].id # -(h + 1) - 1
             /\ h <= HiddenLimit => es[i].id >= -1 - HiddenLimit - 2 * k /\ es[i].id \in Int
  <2>1. EntryFor(es[i], n, h, k) /\ es[i] \in Entry /\ HiddenLimit \in Nat
    BY ElementOfSeq, KeptWindowAssumption DEF Formed
  <2>2. CASE IsMessage(es[i])
    BY <2>1, <2>2 DEF EntryFor, Entry
  <2>3. CASE ~IsMessage(es[i])
    BY <2>1, <2>3 DEF EntryFor, Entry, IsMessage, Kinds
  <2>4. QED BY <2>2, <2>3
<1>2. HiddenLimit \in Nat
  BY KeptWindowAssumption
<1>3. h < HiddenLimit => \A i \in 1..Len(es) : es[i].id # -(h + 1) - 1
  BY <1>1
<1>4. ASSUME NEW x \in Int, x < -1 - HiddenLimit - 2 * k, h <= HiddenLimit,
             NEW i \in 1..Len(es)
      PROVE  es[i].id # x
  <2>1. PICK low \in Int : low = -1 - HiddenLimit - 2 * k
    BY <1>2
  <2>2. es[i].id >= low /\ es[i].id \in Int /\ x < low
    BY <1>1, <1>4, <2>1
  <2>3. QED BY <2>2
<1>5. QED BY <1>3, <1>4

\* What a hidden entry says of itself.
LEMMA HiddenEntry ==
    ASSUME NEW m \in Nat
    PROVE  /\ Hidden(m) \in Entry /\ Hidden(m).id = -m - 1 /\ Hidden(m).kind = "hidden"
           /\ Hidden(m).size = 0
BY DEF Hidden, Entry, Kinds

LEMMA TargetAppend ==
    ASSUME NEW es \in Seq(Entry), NEW e \in Entry, NEW first, Target(es, first)
    PROVE  Target(Append(es, e), first)
<1>1. /\ Len(Append(es, e)) = Len(es) + 1 /\ Len(es) \in Nat
      /\ \A i \in 1..Len(es) : Append(es, e)[i] = es[i]
  BY AppendedEntries
<1>2. QED BY <1>1 DEF Target

\* What is new to the entries is new to any tail behind a summary.
LEMMA FollowBehind ==
    ASSUME NEW es \in Seq(Entry), NEW i \in 1..(Len(es) + 1),
           NEW e \in Entry, MayFollow(es, e), e.kind = "hidden", e.id # -1
    PROVE  MayFollow(Behind(es, i), e)
<1>1. /\ Len(Behind(es, i)) = Len(es) - i + 2 /\ Behind(es, i)[1] = Summary
      /\ \A j \in 2..Len(Behind(es, i)) : Behind(es, i)[j] = es[i + j - 2]
      /\ Len(es) \in Nat
  BY BehindEntries
<1>2. ASSUME NEW j \in 1..Len(Behind(es, i)) PROVE Behind(es, i)[j].id # e.id
  <2>1. CASE j = 1
    BY <1>1, <2>1 DEF Summary
  <2>2. CASE j \in 2..Len(Behind(es, i))
    <3>1. i + j - 2 \in 1..Len(es)
      BY <1>1, <2>2
    <3>2. QED BY <1>1, <2>2, <3>1 DEF MayFollow
  <2>3. QED BY <1>1, <2>1, <2>2
<1>3. QED BY <1>2 DEF MayFollow

\* pi's telemetry entry and our tip, each under an id of its own.
LEMMA OwnEntries ==
    ASSUME Orderly
    PROVE  /\ MayFollow(entries, Tip) /\ Tip \in Entry /\ Telemetry \in Entry
           /\ Telemetry.kind = "hidden" /\ Telemetry.id # -1
           /\ EntryFor(Tip, said, hidden, compactions + 1)
           /\ EntryFor(Telemetry, said, hidden, compactions + 1)
           /\ MayFollow(entries, Telemetry) /\ MayFollow(Append(entries, Tip), Telemetry)
           /\ Formed(Append(entries, Tip), said, hidden, compactions + 1, exposed)
<1> DEFINE m == HiddenLimit + 2 * compactions
<1>1. m \in Nat /\ m + 1 \in Nat /\ m + 2 \in Nat /\ HiddenLimit \in Nat
      /\ hidden \in Nat /\ hidden <= HiddenLimit /\ compactions \in Nat /\ said \in Nat
  BY KeptWindowAssumption DEF Orderly
<1>2. /\ Tip \in Entry /\ Tip.id = -(m + 1) - 1 /\ Tip.kind = "hidden" /\ Tip.size = 0
      /\ Telemetry \in Entry /\ Telemetry.id = -(m + 2) - 1 /\ Telemetry.kind = "hidden"
      /\ Telemetry.size = 0
  BY <1>1, HiddenEntry DEF Tip, Telemetry
<1>3. /\ EntryFor(Tip, said, hidden, compactions + 1)
      /\ EntryFor(Telemetry, said, hidden, compactions + 1)
  BY <1>1, <1>2 DEF EntryFor, IsMessage
<1>4. Formed(entries, said, hidden, compactions, exposed)
  BY DEF Orderly
<1>5. /\ \A i \in 1..Len(entries) : entries[i].id # Tip.id
      /\ \A i \in 1..Len(entries) : entries[i].id # Telemetry.id
  <2>1. PICK a, b : a = Tip.id /\ b = Telemetry.id
    OBVIOUS
  <2>2. a \in Int /\ b \in Int
        /\ a < -1 - HiddenLimit - 2 * compactions /\ b < -1 - HiddenLimit - 2 * compactions
    BY <1>1, <1>2, <2>1
  <2>3. \A x \in Int : x < -1 - HiddenLimit - 2 * compactions /\ hidden <= HiddenLimit =>
            \A i \in 1..Len(entries) : entries[i].id # x
    BY <1>1, <1>4, NewHidden
  <2>4. QED BY <1>1, <2>1, <2>2, <2>3
<1>6. MayFollow(entries, Tip) /\ MayFollow(entries, Telemetry)
  BY <1>2, <1>5 DEF MayFollow
<1>7. MayFollow(Append(entries, Tip), Telemetry)
  <2>1. entries \in Seq(Entry)
    BY <1>4 DEF Formed
  <2>2. /\ Len(Append(entries, Tip)) = Len(entries) + 1 /\ Len(entries) \in Nat
        /\ \A i \in 1..Len(entries) : Append(entries, Tip)[i] = entries[i]
        /\ Append(entries, Tip)[Len(entries) + 1] = Tip
    BY <1>2, <2>1, AppendedEntries
  <2>3. ASSUME NEW i \in 1..(Len(entries) + 1)
        PROVE  Append(entries, Tip)[i].id # Telemetry.id
    <3>1. i = Len(entries) + 1 \/ i \in 1..Len(entries)
      BY <2>2
    <3>2. Tip.id # Telemetry.id
      BY <1>1, <1>2
    <3>3. QED BY <1>5, <2>2, <3>1, <3>2
  <2>4. QED BY <1>2, <2>2, <2>3 DEF MayFollow
<1>8. Formed(Append(entries, Tip), said, hidden, compactions + 1, exposed)
  <2>1. PICK k1 : k1 = compactions + 1
    OBVIOUS
  <2>2. k1 \in Nat /\ compactions <= k1 /\ hidden <= hidden /\ said <= said
    BY <1>1, <2>1
  <2>3. EntryFor(Tip, said, hidden, k1)
    BY <1>3, <2>1
  <2>4. Formed(Append(entries, Tip), said, hidden, k1, exposed)
    BY <1>1, <1>2, <1>4, <1>6, <2>2, <2>3, FormedHidden
  <2>5. QED BY <2>1, <2>4
<1>9. QED BY <1>1, <1>2, <1>3, <1>6, <1>7, <1>8

\* A compaction by an entry that closes it: the summary, what is kept and the entry.
LEMMA CompactedForm ==
    ASSUME NEW n \in Nat, NEW h \in Nat, NEW k \in Nat, NEW X, NEW es, Formed(es, n, h, k, X),
           NEW first, Target(es, first), NEW k1 \in Nat, k <= k1,
           NEW e \in Entry, EntryFor(e, n, h, k1), MayFollow(es, e), e.kind = "hidden",
           e.id # -1
    PROVE  Formed(<<Summary>> \o Kept(es, first) \o <<e>>, n, h, k1, X)
<1>1. PICK i \in 1..(Len(es) + 1) : KeptFrom(es, first, i)
  BY KeptBehind
<1>2. es \in Seq(Entry)
  BY DEF Formed
<1>3. Formed(Behind(es, i), n, h, k, X)
  BY <1>1, BehindFormed DEF KeptFrom
<1>4. MayFollow(Behind(es, i), e)
  BY <1>2, FollowBehind
<1>5. Formed(Append(Behind(es, i), e), n, h, k1, X)
  <2> HIDE DEF Behind
  <2>1. PICK new : new = Behind(es, i)
    OBVIOUS
  <2>2. Formed(new, n, h, k, X) /\ MayFollow(new, e) /\ n <= n /\ h <= h
    BY <1>3, <1>4, <2>1
  <2>3. Formed(Append(new, e), n, h, k1, X)
    BY <2>2, FormedHidden
  <2>4. QED BY <2>1, <2>3
<1>6. Behind(es, i) \o <<e>> = Append(Behind(es, i), e)
  <2>1. Behind(es, i) \in Seq(Entry)
    BY <1>2, BehindEntries
  <2>2. QED BY <2>1, AppendIsConcat
<1>7. QED BY <1>1, <1>5, <1>6 DEF KeptFrom

LEMMA KeptForm ==
    ASSUME NEW n \in Nat, NEW h \in Nat, NEW k \in Nat, NEW X, NEW es, Formed(es, n, h, k, X),
           NEW first, Target(es, first)
    PROVE  Formed(<<Summary>> \o Kept(es, first), n, h, k, X)
<1>1. PICK i \in 1..(Len(es) + 1) : KeptFrom(es, first, i)
  BY KeptBehind
<1>2. Formed(Behind(es, i), n, h, k, X)
  BY <1>1, BehindFormed DEF KeptFrom
<1>3. QED BY <1>1, <1>2 DEF KeptFrom

\* Every session begins orderly, and every step leaves it so.
LEMMA OrderlyFirst == Init => Orderly
<1>1. SUFFICES ASSUME Init PROVE Orderly
  OBVIOUS
<1>2. HiddenLimit \in Nat
  BY KeptWindowAssumption
<1>3. Len(<<>>) = 0 /\ <<>> \in Seq(Entry)
  OBVIOUS
<1>4. Formed(<<>>, 0, 0, 0, {})
  BY <1>3 DEF Formed, Distinct, Paired, SummaryFirst
<1>5. {} \in SUBSET (1..0)
  OBVIOUS
<1>6. QED BY <1>1, <1>2, <1>4, <1>5 DEF Init, Orderly

LEMMA SaidForm ==
    ASSUME Orderly, NEW kind \in {"user", "assistant", "result"}, NEW of \in Int,
           Say(kind, of),
           exposed \subseteq exposed', exposed' \subseteq exposed \cup {said + 1},
           kind = "result" =>
               Len(entries) > 0
               /\ \A e \in Entry : e.id = said + 1 /\ e.kind = kind /\ e.of = of =>
                    PairOf(entries[Len(entries)], e, exposed')
    PROVE  \E e \in Entry :
              /\ e.id = said + 1 /\ e.kind = kind /\ e.of = of
              /\ entries' = Append(entries, e)
              /\ Formed(entries', said', hidden', compactions', exposed')
              /\ exposed' \in SUBSET (1..said')
              /\ said' \in Nat /\ compactions' \in Nat /\ hidden' \in Nat /\ hidden' <= HiddenLimit
<1>1. PICK size \in Sizes : entries' = Append(entries, Message(said', kind, of, size))
  BY DEF Say
<1>2. said' = said + 1 /\ hidden' = hidden /\ compactions' = compactions
  BY DEF Say
<1>3. /\ said \in Nat /\ said + 1 \in Nat /\ compactions \in Nat /\ hidden \in Nat
      /\ hidden <= HiddenLimit /\ Formed(entries, said, hidden, compactions, exposed)
  BY DEF Orderly
<1>4. PICK e : e = Message(said + 1, kind, of, size)
  OBVIOUS
<1>5. size \in Nat
  BY KeptWindowAssumption
<1>6. e \in Entry /\ e.id = said + 1 /\ e.kind = kind /\ e.of = of /\ e.size = size
  BY <1>3, <1>4, <1>5 DEF Message, Entry, Kinds
<1>7. EntryFor(e, said + 1, hidden, compactions)
  BY <1>3, <1>6 DEF EntryFor, IsMessage
<1>8. MayFollow(entries, e)
  <2>1. \A i \in 1..Len(entries) : entries[i].id # said + 1 /\ entries[i].id <= said
    BY <1>3, NewMessage
  <2>2. QED BY <1>6, <2>1 DEF MayFollow
<1>9. Formed(Append(entries, e), said + 1, hidden, compactions, exposed')
  <2>1. PICK n1 : n1 = said + 1
    OBVIOUS
  <2>2. n1 \in Nat /\ said <= n1 /\ hidden <= hidden /\ compactions <= compactions
        /\ EntryFor(e, n1, hidden, compactions)
    BY <1>3, <1>7, <2>1
  <2>3. PICK X, X1 : X = exposed /\ X1 = exposed'
    OBVIOUS
  <2>4. /\ X \subseteq X1 /\ X1 \subseteq X \cup {e.id}
        /\ e.kind = "result" => Len(entries) > 0 /\ PairOf(entries[Len(entries)], e, X1)
    BY <1>6, <2>3
  <2>5. Formed(entries, said, hidden, compactions, X)
    BY <1>3, <2>3
  <2>6. Formed(Append(entries, e), n1, hidden, compactions, X1)
    BY <1>3, <1>6, <1>8, <2>2, <2>4, <2>5, FormedAppend
  <2>7. QED BY <2>1, <2>3, <2>6
<1>10. exposed' \in SUBSET (1..said')
  <2>1. exposed \in SUBSET (1..said)
    BY DEF Orderly
  <2>2. QED BY <1>2, <1>3, <2>1
<1>11. QED BY <1>1, <1>2, <1>3, <1>4, <1>6, <1>9, <1>10

LEMMA UserOrderly == Orderly /\ User => Orderly'
<1>1. SUFFICES ASSUME Orderly, User PROVE Orderly'
  OBVIOUS
<1>2. Say("user", 0) /\ calls = 0 /\ calls' = calls /\ exposed' = exposed
  BY <1>1 DEF User
<1>3. /\ Formed(entries', said', hidden', compactions', exposed')
      /\ exposed' \in SUBSET (1..said')
      /\ said' \in Nat /\ compactions' \in Nat /\ hidden' \in Nat /\ hidden' <= HiddenLimit
  BY <1>1, <1>2, SaidForm
<1>4. QED BY <1>2, <1>3 DEF Orderly

LEMMA AssistantOrderly == Orderly /\ Assistant => Orderly'
<1>1. SUFFICES ASSUME Orderly, Assistant PROVE Orderly'
  OBVIOUS
<1>2. Say("assistant", 0) /\ calls' \in 0..2 /\ exposed' = exposed
  BY <1>1 DEF Assistant
<1>3. PICK e \in Entry :
        /\ e.id = said + 1 /\ e.kind = "assistant" /\ e.of = 0
        /\ entries' = Append(entries, e)
        /\ Formed(entries', said', hidden', compactions', exposed')
        /\ exposed' \in SUBSET (1..said')
        /\ said' \in Nat /\ compactions' \in Nat /\ hidden' \in Nat /\ hidden' <= HiddenLimit
  BY <1>1, <1>2, SaidForm
<1>4. entries \in Seq(Entry) /\ said \in Nat /\ Formed(entries, said, hidden, compactions, exposed)
      /\ hidden \in Nat /\ compactions \in Nat
  BY <1>1 DEF Orderly, Formed
<1>5. /\ Len(entries') = Len(entries) + 1 /\ Len(entries) \in Nat
      /\ \A i \in 1..Len(entries) : entries'[i] = entries[i]
      /\ entries'[Len(entries) + 1] = e
  BY <1>3, <1>4, AppendedEntries
<1>6. \A i \in 1..Len(entries) : entries[i].id # said + 1 /\ entries[i].id <= said
  BY <1>4, NewMessage
<1>7. \A i \in 1..Len(entries) : entries[i].id \in Int
  <2>1. \A i \in 1..Len(entries) : entries[i] \in Entry
    BY <1>4, ElementOfSeq
  <2>2. QED BY <2>1 DEF Entry
<1>8. \A i \in 1..Len(entries') : i = Len(entries) + 1 \/ i \in 1..Len(entries)
  BY <1>5
<1>9. Newest(entries', said + 1)
  <2>1. Len(entries) + 1 \in 1..Len(entries')
    BY <1>5
  <2>2. ASSUME NEW i \in 1..Len(entries') PROVE entries'[i].id <= said + 1
    <3>1. CASE i = Len(entries) + 1
      BY <1>3, <1>4, <1>5, <3>1
    <3>2. CASE i \in 1..Len(entries)
      <4>1. entries'[i] = entries[i] /\ entries[i].id <= said /\ entries[i].id \in Int
        BY <1>5, <1>6, <1>7, <3>2
      <4>2. QED BY <1>4, <4>1
    <3>3. QED BY <1>8, <3>1, <3>2
  <2>3. QED BY <1>3, <1>5, <2>1, <2>2 DEF Newest
<1>10. CallOpen(entries')
  <2>1. said + 1 \in Nat /\ Len(entries') > 0
    BY <1>4, <1>5
  <2>2. QED BY <1>3, <1>5, <1>9, <2>1 DEF CallOpen, Awaits
<1>11. QED BY <1>2, <1>3, <1>10 DEF Orderly

LEMMA ResultOrderly == Orderly /\ Result => Orderly'
<1>1. SUFFICES ASSUME Orderly, Result PROVE Orderly'
  OBVIOUS
<1>2. PICK of : of = Max({e.id : e \in {x \in ToSet(entries) : x.kind = "assistant"}})
  OBVIOUS
<1>3. Say("result", of) /\ calls > 0 /\ calls' = calls - 1
  BY <1>1, <1>2 DEF Result
<1>4. CallOpen(entries) /\ calls \in Nat /\ entries \in Seq(Entry)
  BY <1>1, <1>3 DEF Orderly, Formed
<1>5. PICK a \in Nat :
        Newest(entries, a) /\ Len(entries) > 0 /\ Awaits(entries[Len(entries)], a)
  BY <1>4 DEF CallOpen
<1>6. of = a
  BY <1>2, <1>4, <1>5, NewestIsMax
<1> DEFINE last == entries[Len(entries)]
<1>13. /\ exposed \subseteq exposed' /\ exposed' \subseteq exposed \cup {said + 1}
       /\ last.kind = "hidden" \/ last.id \in exposed => said + 1 \in exposed'
  <2>1. said' = said + 1
    BY <1>3 DEF Say
  <2>2. exposed' = IF last.kind = "hidden" \/ last.id \in exposed
                   THEN exposed \cup {said'} ELSE exposed
    BY <1>1 DEF Result
  <2>3. QED BY <2>1, <2>2
<1>14. last.id # said + 1
  <2>1. Len(entries) \in 1..Len(entries)
    BY <1>4, <1>5, LenProperties
  <2>2. \A i \in 1..Len(entries) : entries[i].id # said + 1
    BY <1>1, NewMessage DEF Orderly
  <2>3. QED BY <2>1, <2>2
<1>15. ASSUME NEW e \in Entry, e.id = said + 1, e.of = of PROVE PairOf(last, e, exposed')
  BY <1>5, <1>6, <1>13, <1>14, <1>15 DEF Awaits, PairOf
<1>7. PICK e \in Entry :
        /\ e.id = said + 1 /\ e.kind = "result" /\ e.of = of
        /\ entries' = Append(entries, e)
        /\ Formed(entries', said', hidden', compactions', exposed')
        /\ exposed' \in SUBSET (1..said')
        /\ said' \in Nat /\ compactions' \in Nat /\ hidden' \in Nat /\ hidden' <= HiddenLimit
  <2>1. of \in Int
    BY <1>6
  <2>2. /\ Len(entries) > 0
        /\ \A e \in Entry : e.id = said + 1 /\ e.kind = "result" /\ e.of = of =>
             PairOf(entries[Len(entries)], e, exposed')
    BY <1>5, <1>15
  <2>3. QED BY <1>1, <1>3, <1>13, <2>1, <2>2, SaidForm
<1>8. /\ Len(entries') = Len(entries) + 1 /\ Len(entries) \in Nat
      /\ \A i \in 1..Len(entries) : entries'[i] = entries[i]
      /\ entries'[Len(entries) + 1] = e
  BY <1>4, <1>7, AppendedEntries
<1>9. Newest(entries', a)
  <2>1. \A i \in 1..Len(entries') : i = Len(entries) + 1 \/ i \in 1..Len(entries)
    BY <1>8
  <2>2. \A i \in 1..Len(entries) : i \in 1..Len(entries')
    BY <1>8
  <2>3. QED BY <1>5, <1>7, <1>8, <2>1, <2>2 DEF Newest
<1>10. CallOpen(entries')
  <2>1. Len(entries') > 0
    BY <1>8
  <2>2. entries'[Len(entries')].kind = "result" /\ entries'[Len(entries')].of = a
    BY <1>6, <1>7, <1>8
  <2>3. QED BY <1>9, <2>1, <2>2 DEF CallOpen, Awaits
<1>11. calls' \in Nat
  BY <1>3, <1>4
<1>12. QED BY <1>7, <1>10, <1>11 DEF Orderly

LEMMA AdvisoryOrderly ==
    ASSUME Orderly, Advisory
    PROVE  Orderly'
<1>1. /\ hidden < HiddenLimit /\ hidden' = hidden + 1 /\ calls' = calls /\ exposed' = exposed
      /\ entries' = Append(entries, Hidden(hidden + 1)) /\ said' = said
      /\ compactions' = compactions
  BY DEF Advisory
<1>2. /\ said \in Nat /\ compactions \in Nat /\ hidden \in Nat /\ hidden + 1 \in Nat
      /\ HiddenLimit \in Nat /\ Formed(entries, said, hidden, compactions, exposed)
  BY KeptWindowAssumption DEF Orderly
<1>3. PICK e, h1 : e = Hidden(hidden + 1) /\ h1 = hidden + 1
  OBVIOUS
<1>4. e \in Entry /\ e.id = -(hidden + 1) - 1 /\ e.kind = "hidden" /\ e.size = 0
  BY <1>2, <1>3, HiddenEntry
<1>5. EntryFor(e, said, h1, compactions)
  BY <1>2, <1>3, <1>4 DEF EntryFor, IsMessage
<1>6. MayFollow(entries, e)
  <2>1. hidden < HiddenLimit => \A i \in 1..Len(entries) : entries[i].id # -(hidden + 1) - 1
    BY <1>2, NewHidden
  <2>2. QED BY <1>1, <1>4, <2>1 DEF MayFollow
<1>7. Formed(Append(entries, e), said, h1, compactions, exposed)
  <2>1. h1 \in Nat /\ hidden <= h1 /\ said <= said /\ compactions <= compactions
    BY <1>2, <1>3
  <2>2. QED BY <1>2, <1>4, <1>5, <1>6, <2>1, FormedHidden
<1>8. hidden' \in Nat /\ hidden' <= HiddenLimit
  BY <1>1, <1>2
<1>9. ASSUME calls > 0 PROVE CallOpen(entries')
  <2>1. entries' = Append(entries, e) /\ entries \in Seq(Entry)
    BY <1>1, <1>2, <1>3, <1>9 DEF Formed
  <2>2. PICK a \in Nat : Newest(entries, a)
    BY <1>9 DEF Orderly, CallOpen
  <2>3. /\ Len(entries') = Len(entries) + 1 /\ Len(entries) \in Nat
        /\ \A i \in 1..Len(entries) : entries'[i] = entries[i]
        /\ entries'[Len(entries) + 1] = e
    BY <1>4, <2>1, AppendedEntries
  <2>4. \A i \in 1..Len(entries') : i = Len(entries) + 1 \/ i \in 1..Len(entries)
    BY <2>3
  <2>5. \A i \in 1..Len(entries) : i \in 1..Len(entries')
    BY <2>3
  <2>6. Newest(entries', a)
    BY <1>4, <2>2, <2>3, <2>4, <2>5 DEF Newest
  <2>7. Len(entries') > 0 /\ Awaits(entries'[Len(entries')], a)
    BY <1>4, <2>3 DEF Awaits
  <2>8. QED BY <2>6, <2>7 DEF CallOpen
<1>10. calls' \in Nat /\ (calls' > 0 => CallOpen(entries'))
  BY <1>1, <1>9 DEF Orderly
<1>11. exposed' \in SUBSET (1..said')
  BY <1>1 DEF Orderly
<1>12. QED BY <1>1, <1>2, <1>3, <1>7, <1>8, <1>10, <1>11 DEF Orderly

\* Where a compaction may cut: what Plans offers, in the projection with or without the tip.
LEMMA PlansCuttable ==
    ASSUME NEW n \in Nat, NEW h \in Nat, NEW k \in Nat, NEW X, NEW es, Formed(es, n, h, k, X)
    PROVE  Cuttable(es, Plans(es))
<1>1. ASSUME NEW p \in Plans(es) PROVE Target(es, p.first) /\ p.first # KeepNone
  BY PlanTarget
<1>2. QED BY <1>1 DEF Cuttable

LEMMA CuttableAppend ==
    ASSUME NEW es \in Seq(Entry), NEW e \in Entry, NEW plans, Cuttable(es, plans)
    PROVE  Cuttable(Append(es, e), plans)
<1>1. ASSUME NEW p \in plans PROVE Target(Append(es, e), p.first) /\ p.first # KeepNone
  <2>1. PICK first : first = p.first
    OBVIOUS
  <2>2. Target(es, first) /\ first # KeepNone
    BY <2>1 DEF Cuttable
  <2>3. Target(Append(es, e), first)
    BY <2>2, TargetAppend
  <2>4. QED BY <2>1, <2>2, <2>3
<1>2. QED BY <1>1 DEF Cuttable

\* The two projections that session_before_compact may read.
LEMMA Projections ==
    ASSUME Orderly, NEW es \in {entries, Append(entries, Tip)}
    PROVE  \E k \in {compactions, compactions + 1} :
              /\ Formed(es, said, hidden, k, exposed) /\ Cuttable(es, Plans(entries))
              /\ MayFollow(es, Telemetry)
<1>1. Formed(entries, said, hidden, compactions, exposed) /\ said \in Nat /\ hidden \in Nat
      /\ compactions \in Nat /\ entries \in Seq(Entry)
  BY DEF Orderly, Formed
<1>2. Cuttable(entries, Plans(entries))
  BY <1>1, PlansCuttable
<1>3. MayFollow(entries, Telemetry) /\ MayFollow(Append(entries, Tip), Telemetry)
      /\ Formed(Append(entries, Tip), said, hidden, compactions + 1, exposed) /\ Tip \in Entry
  BY OwnEntries
<1>4. Cuttable(Append(entries, Tip), Plans(entries))
  BY <1>1, <1>2, <1>3, CuttableAppend
<1>5. QED BY <1>1, <1>2, <1>3, <1>4

LEMMA SessionBeforeCompactOrderly == Orderly /\ SessionBeforeCompact => Orderly'
<1>1. SUFFICES ASSUME Orderly, SessionBeforeCompact PROVE Orderly'
  OBVIOUS
<1>2. PICK budget \in Budgets, es \in {entries, Append(entries, Tip)} :
        \E q \in Proposals(es, Plans(entries), budget) :
            entries' = <<Summary>> \o Kept(es, q.first) \o <<Telemetry>>
  BY <1>1 DEF SessionBeforeCompact
<1>3. PICK q \in Proposals(es, Plans(entries), budget) :
        entries' = <<Summary>> \o Kept(es, q.first) \o <<Telemetry>>
  BY <1>2
<1>4. /\ calls = 0 /\ calls' = calls /\ said' = said /\ hidden' = hidden
      /\ compactions' = compactions + 1 /\ exposed' = exposed
  BY <1>1 DEF SessionBeforeCompact
<1>5. PICK k \in {compactions, compactions + 1} :
        /\ Formed(es, said, hidden, k, exposed) /\ Cuttable(es, Plans(entries))
        /\ MayFollow(es, Telemetry)
  BY <1>1, Projections
<1>6. PICK k1, plans, first : k1 = compactions + 1 /\ plans = Plans(entries) /\ first = q.first
  OBVIOUS
<1>7. k \in Nat /\ k1 \in Nat /\ k <= k1 /\ said \in Nat /\ hidden \in Nat
      /\ hidden <= HiddenLimit /\ budget \in Nat
  BY <1>1, <1>6, KeptWindowAssumption DEF Orderly
<1>8. Target(es, first)
  BY <1>5, <1>6, <1>7, ProposalTarget
<1>9. Telemetry \in Entry /\ EntryFor(Telemetry, said, hidden, k1)
      /\ Telemetry.kind = "hidden" /\ Telemetry.id # -1
  BY <1>1, <1>6, OwnEntries
<1>10. Formed(<<Summary>> \o Kept(es, first) \o <<Telemetry>>, said, hidden, k1, exposed)
  BY <1>5, <1>7, <1>8, <1>9, CompactedForm
<1>11. exposed' \in SUBSET (1..said')
  BY <1>1, <1>4 DEF Orderly
<1>12. QED BY <1>3, <1>4, <1>6, <1>7, <1>10, <1>11 DEF Orderly

LEMMA PiCompactOrderly == Orderly /\ PiCompact => Orderly'
<1>1. SUFFICES ASSUME Orderly, PiCompact PROVE Orderly'
  OBVIOUS
<1>2. PICK p \in Plans(entries) :
        entries' = <<Summary>> \o Kept(entries, p.first) \o <<Telemetry>>
  BY <1>1 DEF PiCompact
<1>3. /\ calls = 0 /\ calls' = calls /\ said' = said /\ hidden' = hidden
      /\ compactions' = compactions + 1 /\ exposed' = exposed
  BY <1>1 DEF PiCompact
<1>4. PICK k1, first : k1 = compactions + 1 /\ first = p.first
  OBVIOUS
<1>5. /\ compactions \in Nat /\ k1 \in Nat /\ compactions <= k1 /\ said \in Nat
      /\ hidden \in Nat /\ hidden <= HiddenLimit
      /\ Formed(entries, said, hidden, compactions, exposed)
  BY <1>1, <1>4 DEF Orderly
<1>6. Target(entries, first)
  BY <1>4, <1>5, PlanTarget
<1>7. Telemetry \in Entry /\ EntryFor(Telemetry, said, hidden, k1) /\ MayFollow(entries, Telemetry)
      /\ Telemetry.kind = "hidden" /\ Telemetry.id # -1
  BY <1>1, <1>4, OwnEntries
<1>8. Formed(<<Summary>> \o Kept(entries, first) \o <<Telemetry>>, said, hidden, k1, exposed)
  BY <1>5, <1>6, <1>7, CompactedForm
<1>9. exposed' \in SUBSET (1..said')
  BY <1>1, <1>3 DEF Orderly
<1>10. QED BY <1>2, <1>3, <1>4, <1>5, <1>8, <1>9 DEF Orderly

LEMMA MidtermOrderly == Orderly /\ Midterm => Orderly'
<1>1. SUFFICES ASSUME Orderly, Midterm PROVE Orderly'
  OBVIOUS
<1>2. PICK q \in Proposals(entries, Plans(entries), DefaultBudget) :
        entries' = <<Summary>> \o Kept(Append(entries, Telemetry), q.first)
  BY <1>1 DEF Midterm
<1>3. /\ calls = 0 /\ calls' = calls /\ said' = said /\ hidden' = hidden
      /\ compactions' = compactions + 1 /\ exposed' = exposed
  BY <1>1 DEF Midterm
<1>4. PICK k1, plans, first : k1 = compactions + 1 /\ plans = Plans(entries) /\ first = q.first
  OBVIOUS
<1>5. /\ compactions \in Nat /\ k1 \in Nat /\ compactions <= k1 /\ said \in Nat
      /\ said <= said /\ hidden <= hidden
      /\ hidden \in Nat /\ hidden <= HiddenLimit /\ DefaultBudget \in Nat
      /\ Formed(entries, said, hidden, compactions, exposed) /\ entries \in Seq(Entry)
  BY <1>1, <1>4, KeptWindowAssumption DEF Orderly, Formed
<1>6. Cuttable(entries, plans)
  BY <1>4, <1>5, PlansCuttable
<1>7. Target(entries, first)
  BY <1>4, <1>5, <1>6, ProposalTarget
<1>8. PICK e : e = Telemetry
  OBVIOUS
<1>9. e \in Entry /\ EntryFor(e, said, hidden, k1) /\ MayFollow(entries, e)
      /\ e.kind = "hidden"
  BY <1>1, <1>4, <1>8, OwnEntries
<1>10. PICK es : es = Append(entries, e)
  OBVIOUS
<1>11. Formed(Append(entries, e), said, hidden, k1, exposed) /\ Target(Append(entries, e), first)
  <2>1. Formed(Append(entries, e), said, hidden, k1, exposed)
    BY <1>5, <1>9, FormedHidden
  <2>2. Target(Append(entries, e), first)
    BY <1>5, <1>7, <1>9, TargetAppend
  <2>3. QED BY <2>1, <2>2
<1>12. Formed(<<Summary>> \o Kept(es, first), said, hidden, k1, exposed)
  BY <1>5, <1>10, <1>11, KeptForm
<1>13. exposed' \in SUBSET (1..said')
  BY <1>1, <1>3 DEF Orderly
<1>14. QED BY <1>2, <1>3, <1>4, <1>5, <1>8, <1>10, <1>12, <1>13 DEF Orderly

LEMMA OrderlyStep == Orderly /\ [Next]_vars => Orderly'
<1>1. CASE UNCHANGED vars
  BY <1>1 DEF vars, Orderly
<1>2. QED
  BY <1>1, UserOrderly, AssistantOrderly, ResultOrderly, AdvisoryOrderly,
     SessionBeforeCompactOrderly, PiCompactOrderly, MidtermOrderly DEF Next

LEMMA AlwaysOrderly == Spec => []Orderly
BY OrderlyFirst, OrderlyStep, PTL DEF Spec

-------------------------------------------------------------------------------
(* No result is orphaned                                                    *)

\* Results not in X follow their call in one run, so none is without the message that
\* made it.
LEMMA PairedIsAnswered ==
    ASSUME NEW X, NEW es \in Seq(Entry), Paired(es, X)
    PROVE  \A i \in DOMAIN es :
              es[i].kind = "result" /\ es[i].id \notin X =>
                  \E j \in 1..i - 1 : es[j].id = es[i].of
<1> DEFINE Answered(i) == \E j \in 1..i - 1 : es[j].id = es[i].of
           T == {i \in 1..Len(es) : es[i].kind = "result" /\ es[i].id \notin X /\ ~Answered(i)}
<1>1. Len(es) \in Nat /\ DOMAIN es = 1..Len(es)
  BY LenProperties
<1>2. SUFFICES ASSUME T # {} PROVE FALSE
  BY <1>1
<1>3. PICK i \in T : \A x \in T : i <= x
  <2>1. T \in SUBSET Nat
    BY <1>1
  <2> HIDE DEF T
  <2>2. QED BY <1>2, <2>1, LeastNatural
<1>4. i \in 1..Len(es) /\ es[i].kind = "result" /\ es[i].id \notin X /\ ~Answered(i)
  BY <1>3
<1>5. i > 1 /\ PairOf(es[i - 1], es[i], X) /\ i - 1 \in 1..Len(es) /\ i - 1 \in 1..i - 1
  BY <1>1, <1>4 DEF Paired
<1>6. es[i - 1].kind = "result" /\ es[i - 1].of = es[i].of /\ es[i - 1].id \notin X
  BY <1>4, <1>5 DEF PairOf
<1>7. i - 1 \notin T
  BY <1>1, <1>3, <1>5
<1>8. PICK j \in 1..(i - 1) - 1 : es[j].id = es[i - 1].of
  BY <1>5, <1>6, <1>7
<1>9. j \in 1..i - 1
  BY <1>5, <1>8
<1>10. QED BY <1>4, <1>6, <1>8, <1>9

\* However often and wherever the session is compacted, every tool result in the context
\* has the message that called the tool before it, whatever hidden entries there are,
\* but for a result that such an entry separates from its call.
THEOREM ResultsHaveCalls == Spec => []NoOrphanResult
<1>1. Orderly => NoOrphanResult
  BY PairedIsAnswered DEF Orderly, Formed, NoOrphanResult
<1>2. Spec => []Orderly
  BY AlwaysOrderly
<1>3. QED BY <1>1, <1>2, PTL

-------------------------------------------------------------------------------
(* What is kept is within the cap                                           *)

\* The size of all entries, and its partial sums.
Total(es) == FoldLeft(LAMBDA sum, e : sum + e.size, 0, es)
Sums(es, P) ==
    /\ P \in [0..Len(es) -> Int] /\ P[0] = 0
    /\ \A i \in 1..Len(es) : P[i] = P[i - 1] + es[i].size

LEMMA TotalScans ==
    ASSUME NEW es \in Seq(Entry)
    PROVE  \E P : Sums(es, P) /\ Total(es) = P[Len(es)]
<1> DEFINE D == DOMAIN es
           n == Len(es)
           Runs(g) == g = [s \in SUBSET D |-> IF s = {} THEN 0
                             ELSE g[s \ {Max(s)}] + es[Max(s)].size]
           G == CHOOSE g : Runs(g)
           step == [xv \in (1..n) \X Int |-> xv[2] + es[xv[1]].size]
           P == [i \in 0..n |-> G[1..i]]
<1>1. Total(es) = G[D]
  BY DEF Total, FoldLeft, MapThenFoldSet
<1>2. n \in Nat /\ D = 1..n /\ \A i \in 1..n : es[i].size \in Int
  <2>1. n \in Nat /\ D = 1..n /\ \A i \in 1..n : es[i] \in Entry
    BY LenProperties, ElementOfSeq
  <2>2. QED BY <2>1 DEF Entry
<1> HIDE DEF n
<1>3. PICK g \in [SUBSET (1..n) -> Int] : Runs(g)
  <2>1. 0 \in Int /\ step \in [(1..n) \X Int -> Int]
    BY <1>2
  <2>2. PICK g \in [SUBSET (1..n) -> Int] : Loops(n, 0, step, g)
    <3> HIDE DEF step
    <3>1. QED BY <1>2, <2>1, IndexRecursion
  <2>3. ASSUME NEW s \in SUBSET (1..n), s # {}
        PROVE  step[<<Max(s), g[s \ {Max(s)}]>>] = g[s \ {Max(s)}] + es[Max(s)].size
    <3>1. Max(s) \in s
      BY <1>2, <2>3, MaxOfIndices
    <3>2. Max(s) \in 1..n /\ s \ {Max(s)} \in SUBSET (1..n)
      BY <3>1
    <3>3. g[s \ {Max(s)}] \in Int
      BY <3>2
    <3>4. QED BY <3>2, <3>3
  <2>4. ASSUME NEW s \in SUBSET (1..n)
        PROVE  g[s] = IF s = {} THEN 0 ELSE g[s \ {Max(s)}] + es[Max(s)].size
    <3> HIDE DEF step
    <3>1. QED BY <2>2, <2>3 DEF Loops
  <2>5. Runs(g)
    <3> HIDE DEF step
    <3>1. QED BY <1>2, <2>4
  <2>6. QED BY <2>5
<1>4. Runs(G)
  <2> HIDE DEF Runs
  <2>1. QED BY <1>3
<1>5. G[1..0] = 0
  <2>1. 1..0 = {} /\ {} \in SUBSET D
    OBVIOUS
  <2> HIDE DEF G, D
  <2>2. QED BY <1>4, <2>1
<1>6. ASSUME NEW i \in 1..n PROVE G[1..i] = G[1..(i - 1)] + es[i].size
  <2>1. 1..i \in SUBSET D /\ 1..i # {} /\ Max(1..i) = i /\ (1..i) \ {i} = 1..(i - 1)
    <3>1. i \in Nat \ {0} /\ 1..i \subseteq D /\ i \in 1..i
      BY <1>2
    <3>2. Max(1..i) = i /\ (1..i) \ {i} = 1..(i - 1)
      BY <3>1, MaxOfInterval
    <3>3. QED BY <3>1, <3>2
  <2> HIDE DEF G, D
  <2>2. QED BY <1>4, <2>1
<1> HIDE DEF G, Runs, step, D
<1> DEFINE Bad == {i \in 0..n : ~(G[1..i] \in Int)}
<1>7. Bad = {}
  <2>1. SUFFICES ASSUME Bad # {} PROVE FALSE
    OBVIOUS
  <2>2. Bad \in SUBSET Nat
    BY <1>2
  <2>3. PICK i \in Bad : \A k \in Bad : i <= k
    <3> HIDE DEF Bad
    <3>1. QED BY <2>1, <2>2, LeastNatural
  <2>4. i # 0
    BY <1>5, <2>3
  <2>5. i \in 1..n /\ i - 1 \in 0..n /\ i - 1 \notin Bad
    BY <1>2, <2>3, <2>4
  <2>6. G[1..(i - 1)] \in Int /\ es[i].size \in Int /\ ~(G[1..i] \in Int)
    BY <1>2, <2>3, <2>5
  <2>7. G[1..i] = G[1..(i - 1)] + es[i].size
    BY <1>6, <2>5
  <2>8. QED BY <2>6, <2>7
<1>8. Sums(es, P)
  <2>1. P \in [0..n -> Int] /\ P[0] = 0
    BY <1>2, <1>5, <1>7
  <2>2. \A i \in 1..n : P[i] = P[i - 1] + es[i].size
    BY <1>2, <1>6
  <2>3. QED BY <2>1, <2>2 DEF Sums, n
<1>9. Total(es) = P[n]
  BY <1>1, <1>2
<1>10. QED BY <1>8, <1>9 DEF n

LEMMA TotalOf ==
    ASSUME NEW es \in Seq(Entry), NEW P, Sums(es, P)
    PROVE  Total(es) = P[Len(es)]
<1>1. PICK Q : Sums(es, Q) /\ Total(es) = Q[Len(es)]
  BY TotalScans
<1> DEFINE Bad == {i \in 0..Len(es) : P[i] # Q[i]}
<1>2. Len(es) \in Nat
  BY LenProperties
<1>3. Bad = {}
  <2>1. SUFFICES ASSUME Bad # {} PROVE FALSE
    OBVIOUS
  <2>2. Bad \in SUBSET Nat
    BY <1>2
  <2>3. PICK i \in Bad : \A k \in Bad : i <= k
    <3> HIDE DEF Bad
    <3>1. QED BY <2>1, <2>2, LeastNatural
  <2>4. i # 0
    BY <1>1, <2>3 DEF Sums
  <2>5. i \in 1..Len(es) /\ i - 1 \in 0..Len(es) /\ i - 1 \notin Bad
    BY <1>2, <2>3, <2>4
  <2>6. QED BY <1>1, <2>3, <2>5 DEF Sums
<1>4. QED BY <1>1, <1>2, <1>3

LEMMA RetainedOf ==
    ASSUME NEW es \in Seq(Entry), NEW P, Sums(es, P), NEW i \in 1..(Len(es) + 1)
    PROVE  Retained(es, i) = P[Len(es)] - P[i - 1]
<1> DEFINE tail == SubSeq(es, i, Len(es))
           Q == [m \in 0..Len(tail) |-> P[i + m - 1] - P[i - 1]]
<1>1. /\ tail \in Seq(Entry) /\ Len(es) \in Nat /\ Len(tail) = Len(es) - i + 1
      /\ \A j \in 1..Len(tail) : tail[j] = es[i + j - 1]
  BY TailEntries
<1>2. Retained(es, i) = Total(tail)
  BY DEF Retained, Total
<1> HIDE DEF tail
<1>3. ASSUME NEW m \in 0..Len(tail) PROVE P[i + m - 1] \in Int /\ P[i - 1] \in Int
  <2>1. i + m - 1 \in 0..Len(es) /\ i - 1 \in 0..Len(es)
    BY <1>1
  <2>2. QED BY <2>1 DEF Sums
<1>4. Q \in [0..Len(tail) -> Int]
  BY <1>3
<1>5. Q[0] = 0
  <2>1. 0 \in 0..Len(tail) /\ i + 0 - 1 = i - 1
    BY <1>1
  <2>2. P[i - 1] \in Int
    BY <1>3, <2>1
  <2>3. QED BY <2>1, <2>2
<1>6. ASSUME NEW m \in 1..Len(tail) PROVE Q[m] = Q[m - 1] + tail[m].size
  <2>1. /\ m \in 0..Len(tail) /\ m - 1 \in 0..Len(tail) /\ i + m - 1 \in 1..Len(es)
        /\ (i + m - 1) - 1 = i + (m - 1) - 1
    BY <1>1
  <2>2. P[i + m - 1] = P[i + (m - 1) - 1] + es[i + m - 1].size
    BY <2>1 DEF Sums
  <2>3. es[i + m - 1].size \in Int /\ tail[m] = es[i + m - 1]
    <3>1. es[i + m - 1] \in Entry
      BY <2>1, ElementOfSeq
    <3>2. es[i + m - 1].size \in Int
      BY <3>1 DEF Entry
    <3>3. tail[m] = es[i + m - 1]
      BY <1>1
    <3>4. QED BY <3>2, <3>3
  <2>4. /\ P[i + m - 1] \in Int /\ P[i + (m - 1) - 1] \in Int /\ P[i - 1] \in Int
    BY <1>3, <2>1
  <2>5. Q[m] = P[i + m - 1] - P[i - 1] /\ Q[m - 1] = P[i + (m - 1) - 1] - P[i - 1]
    BY <2>1
  <2>6. PICK x, y, z, w : x = P[i + m - 1] /\ y = P[i + (m - 1) - 1] /\ z = P[i - 1] /\ w = tail[m].size
    OBVIOUS
  <2>7. x \in Int /\ y \in Int /\ z \in Int /\ w \in Int /\ x = y + w
    BY <2>2, <2>3, <2>4, <2>6
  <2>8. x - z = (y - z) + w
    BY <2>7
  <2>9. QED BY <2>5, <2>6, <2>8
<1>7. Sums(tail, Q)
  BY <1>4, <1>5, <1>6 DEF Sums
<1> HIDE DEF Q
<1>8. Total(tail) = Q[Len(tail)]
  BY <1>1, <1>7, TotalOf
<1>9. Len(tail) \in 0..Len(tail) /\ i + Len(tail) - 1 = Len(es)
  BY <1>1
<1>10. QED BY <1>2, <1>8, <1>9 DEF Q

\* A hidden entry weighs nothing.
LEMMA RetainedAppend ==
    ASSUME NEW es \in Seq(Entry), NEW e \in Entry, e.size = 0, NEW i \in 1..(Len(es) + 1)
    PROVE  Retained(Append(es, e), i) = Retained(es, i)
<1> DEFINE longer == Append(es, e)
<1>1. /\ longer \in Seq(Entry) /\ Len(longer) = Len(es) + 1 /\ Len(es) \in Nat
      /\ \A j \in 1..Len(es) : longer[j] = es[j] /\ es[j] \in Entry
      /\ longer[Len(es) + 1] = e
  BY AppendedEntries
<1>2. PICK P : Sums(es, P)
  BY TotalScans
<1> DEFINE Q == [m \in 0..Len(longer) |-> IF m <= Len(es) THEN P[m] ELSE P[Len(es)]]
<1> HIDE DEF longer
<1>3. \A m \in 0..Len(es) : P[m] \in Int
  BY <1>2 DEF Sums
<1>4. Q \in [0..Len(longer) -> Int]
  <2>1. ASSUME NEW m \in 0..Len(longer)
        PROVE  (IF m <= Len(es) THEN P[m] ELSE P[Len(es)]) \in Int
    <3>1. Len(es) \in 0..Len(es) /\ (m <= Len(es) => m \in 0..Len(es))
      BY <1>1
    <3>2. QED BY <1>3, <3>1
  <2>2. QED BY <2>1
<1>5. Q[0] = 0 /\ Q[Len(longer)] = P[Len(es)] /\ Q[i - 1] = P[i - 1]
  <2>1. /\ 0 \in 0..Len(longer) /\ 0 <= Len(es)
        /\ Len(longer) \in 0..Len(longer) /\ ~(Len(longer) <= Len(es))
        /\ i - 1 \in 0..Len(longer) /\ i - 1 <= Len(es)
    BY <1>1
  <2>2. P[0] = 0
    BY <1>2 DEF Sums
  <2>3. QED BY <2>1, <2>2
<1>6. ASSUME NEW m \in 1..Len(longer) PROVE Q[m] = Q[m - 1] + longer[m].size
  <2>1. m \in 0..Len(longer) /\ m - 1 \in 0..Len(longer) /\ m - 1 <= Len(es)
    BY <1>1
  <2>2. CASE m \in 1..Len(es)
    <3>1. P[m] = P[m - 1] + es[m].size
      BY <1>2, <2>2 DEF Sums
    <3>2. Q[m] = P[m] /\ Q[m - 1] = P[m - 1]
      BY <1>1, <2>1, <2>2
    <3>3. QED BY <1>1, <2>2, <3>1, <3>2
  <2>3. CASE m = Len(es) + 1
    <3>1. Q[m] = P[Len(es)] /\ Q[m - 1] = P[Len(es)] /\ longer[m].size = 0
      BY <1>1, <2>1, <2>3
    <3>2. P[Len(es)] \in Int
      BY <1>1, <1>3
    <3>3. QED BY <3>1, <3>2
  <2>4. m \in 1..Len(es) \/ m = Len(es) + 1
    BY <1>1
  <2>5. QED BY <2>2, <2>3, <2>4
<1>7. Sums(longer, Q)
  BY <1>4, <1>5, <1>6 DEF Sums
<1> HIDE DEF Q
<1>8. i \in 1..(Len(longer) + 1)
  BY <1>1
<1>9. Retained(longer, i) = Q[Len(longer)] - Q[i - 1]
  BY <1>1, <1>7, <1>8, RetainedOf
<1>10. Retained(es, i) = P[Len(es)] - P[i - 1]
  BY <1>2, RetainedOf
<1>11. QED BY <1>5, <1>9, <1>10 DEF longer

LEMMA RetainedAll ==
    ASSUME NEW es \in Seq(Entry) PROVE Retained(es, 1) = Total(es)
<1>1. SubSeq(es, 1, Len(es)) = es
  BY SubSeqFull
<1>2. QED BY <1>1 DEF Retained, Total

\* Neither does a summary.
LEMMA RetainedBehind ==
    ASSUME NEW es \in Seq(Entry), NEW i \in 1..(Len(es) + 1)
    PROVE  Retained(Behind(es, i), 1) = Retained(es, i)
<1> DEFINE new == Behind(es, i)
<1>1. /\ new \in Seq(Entry) /\ Len(es) \in Nat
      /\ Len(new) = Len(es) - i + 2 /\ new[1] = Summary
      /\ \A j \in 2..Len(new) : new[j] = es[i + j - 2]
  BY BehindEntries
<1>2. PICK P : Sums(es, P)
  BY TotalScans
<1> DEFINE Q == [m \in 0..Len(new) |-> IF m = 0 THEN 0 ELSE P[i + m - 2] - P[i - 1]]
<1> HIDE DEF new
<1>3. ASSUME NEW m \in 1..Len(new) PROVE P[i + m - 2] \in Int /\ P[i - 1] \in Int
  <2>1. i + m - 2 \in 0..Len(es) /\ i - 1 \in 0..Len(es)
    BY <1>1
  <2>2. QED BY <1>2, <2>1 DEF Sums
<1>4. Q \in [0..Len(new) -> Int] /\ Q[0] = 0
  <2>1. ASSUME NEW m \in 0..Len(new)
        PROVE  (IF m = 0 THEN 0 ELSE P[i + m - 2] - P[i - 1]) \in Int
    <3>1. CASE m = 0
      BY <3>1
    <3>2. CASE m # 0
      <4>1. m \in 1..Len(new)
        BY <1>1, <3>2
      <4>2. QED BY <1>3, <3>2, <4>1
    <3>3. QED BY <3>1, <3>2
  <2>2. 0 \in 0..Len(new)
    BY <1>1
  <2>3. QED BY <2>1, <2>2
<1>5. ASSUME NEW m \in 1..Len(new) PROVE Q[m] = Q[m - 1] + new[m].size
  <2>1. m \in 0..Len(new) /\ m - 1 \in 0..Len(new) /\ m # 0
    BY <1>1
  <2>2. Q[m] = P[i + m - 2] - P[i - 1]
    BY <2>1
  <2>3. CASE m = 1
    <3>1. new[m].size = 0 /\ i + m - 2 = i - 1 /\ P[i - 1] \in Int /\ Q[m - 1] = 0
      BY <1>1, <1>3, <1>4, <2>3 DEF Summary
    <3>2. QED BY <2>2, <3>1
  <2>4. CASE m # 1
    <3>1. /\ m - 1 \in 1..Len(new) /\ m - 1 # 0 /\ m \in 2..Len(new)
          /\ i + m - 2 \in 1..Len(es) /\ (i + m - 2) - 1 = i + (m - 1) - 2
      BY <1>1, <2>4
    <3>2. Q[m - 1] = P[i + (m - 1) - 2] - P[i - 1]
      BY <2>1, <3>1
    <3>3. P[i + m - 2] = P[i + (m - 1) - 2] + es[i + m - 2].size /\ new[m] = es[i + m - 2]
      BY <1>1, <1>2, <3>1 DEF Sums
    <3>4. es[i + m - 2].size \in Int
      <4>1. es[i + m - 2] \in Entry
        BY <3>1, ElementOfSeq
      <4>2. QED BY <4>1 DEF Entry
    <3>5. P[i + m - 2] \in Int /\ P[i + (m - 1) - 2] \in Int /\ P[i - 1] \in Int
      BY <1>3, <3>1
    <3>6. PICK x, y, z, w : x = P[i + m - 2] /\ y = P[i + (m - 1) - 2] /\ z = P[i - 1]
                             /\ w = new[m].size
      OBVIOUS
    <3>7. x \in Int /\ y \in Int /\ z \in Int /\ w \in Int /\ x = y + w
      BY <3>3, <3>4, <3>5, <3>6
    <3>8. x - z = (y - z) + w
      BY <3>7
    <3>9. QED BY <2>2, <3>2, <3>6, <3>8
  <2>5. QED BY <2>3, <2>4
<1>6. Sums(new, Q)
  BY <1>4, <1>5 DEF Sums
<1> HIDE DEF Q
<1>7. Retained(new, 1) = Q[Len(new)]
  BY <1>1, <1>6, TotalOf, RetainedAll
<1>8. Retained(es, i) = P[Len(es)] - P[i - 1]
  BY <1>2, RetainedOf
<1>9. Len(new) \in 0..Len(new) /\ Len(new) # 0 /\ i + Len(new) - 2 = Len(es)
  BY <1>1
<1>10. QED BY <1>7, <1>8, <1>9 DEF Q, new

\* What a cut within the cap keeps is within it, whatever closes the compaction.
LEMMA KeptWithinCap ==
    ASSUME NEW es \in Seq(Entry), Distinct(es), NEW cap \in Nat, cap > 0,
           NEW first, WithinCap(es, first, cap), NEW i \in 1..(Len(es) + 1),
           KeptFrom(es, first, i)
    PROVE  Retained(es, i) <= cap
<1>1. PICK P : Sums(es, P)
  BY TotalScans
<1>2. Len(es) \in Nat
  BY LenProperties
<1>3. CASE first = KeepNone
  <2>1. i = Len(es) + 1
    BY <1>3 DEF KeptFrom
  <2>2. Retained(es, i) = P[Len(es)] - P[i - 1] /\ i - 1 = Len(es)
    BY <1>1, <1>2, <2>1, RetainedOf
  <2>3. P[Len(es)] \in Int
    BY <1>1, <1>2 DEF Sums
  <2>4. QED BY <2>2, <2>3
<1>4. CASE first # KeepNone
  <2>1. PICK j \in 1..Len(es) : first = es[j].id /\ Retained(es, j) <= cap
    BY <1>4 DEF WithinCap
  <2>2. i \in 1..Len(es) /\ es[i].id = first
    <3>1. i # Len(es) + 1 /\ (i \in 1..Len(es) => es[i].id = first)
      BY <1>4 DEF KeptFrom
    <3>2. i \in 1..Len(es)
      BY <1>2, <3>1
    <3>3. QED BY <3>1, <3>2
  <2>3. i = j
    BY <2>1, <2>2 DEF Distinct
  <2>4. QED BY <2>1, <2>3
<1>5. QED BY <1>3, <1>4

LEMMA SessionBeforeCompactSheds ==
    ASSUME Orderly, SessionBeforeCompact
    PROVE  ShedsToCap'
<1>1. PICK budget \in Budgets, es \in {entries, Append(entries, Tip)} :
        /\ \E q \in Proposals(es, Plans(entries), budget) :
            entries' = <<Summary>> \o Kept(es, q.first) \o <<Telemetry>>
        /\ bound' = budget * Ratio
  BY DEF SessionBeforeCompact
<1>2. PICK q \in Proposals(es, Plans(entries), budget) :
        entries' = <<Summary>> \o Kept(es, q.first) \o <<Telemetry>>
  BY <1>1
<1>3. PICK k \in {compactions, compactions + 1} :
        /\ Formed(es, said, hidden, k, exposed) /\ Cuttable(es, Plans(entries))
        /\ MayFollow(es, Telemetry)
  BY Projections
<1>4. PICK plans, first, cap : plans = Plans(entries) /\ first = q.first /\ cap = budget * Ratio
  OBVIOUS
<1>5. k \in Nat /\ said \in Nat /\ hidden \in Nat /\ budget \in Nat /\ es \in Seq(Entry)
      /\ Distinct(es) /\ Ratio \in Nat
  BY <1>3, KeptWindowAssumption DEF Orderly, Formed
<1>6. cap \in Nat
  BY <1>4, <1>5
<1>7. Target(es, first) /\ WithinCap(es, first, cap)
  BY <1>3, <1>4, <1>5, ProposalTarget
<1>8. PICK i \in 1..(Len(es) + 1) : KeptFrom(es, first, i)
  BY <1>3, <1>5, <1>7, KeptBehind
<1>9. /\ Telemetry \in Entry /\ Telemetry.size = 0
  <2>1. Telemetry \in Entry
    BY OwnEntries
  <2>2. QED BY <2>1 DEF Telemetry, Hidden
<1>10. Behind(es, i) \in Seq(Entry) /\ 1 \in 1..(Len(Behind(es, i)) + 1)
  <2>1. Behind(es, i) \in Seq(Entry) /\ Len(Behind(es, i)) = Len(es) - i + 2 /\ Len(es) \in Nat
    BY <1>5, BehindEntries
  <2>2. QED BY <2>1
<1>11. entries' = Append(Behind(es, i), Telemetry)
  <2>1. entries' = Behind(es, i) \o <<Telemetry>>
    BY <1>2, <1>4, <1>8 DEF KeptFrom
  <2>2. QED BY <1>9, <1>10, <2>1, AppendIsConcat
<1>12. Retained(entries', 1) = Retained(es, i)
  <2>1. PICK new : new = Behind(es, i)
    OBVIOUS
  <2>2. Retained(Append(new, Telemetry), 1) = Retained(new, 1)
    BY <1>9, <1>10, <2>1, RetainedAppend
  <2>3. Retained(Behind(es, i), 1) = Retained(es, i)
    BY <1>5, RetainedBehind
  <2>4. QED BY <1>11, <2>1, <2>2, <2>3
<1>13. cap > 0 => Retained(es, i) <= cap
  BY <1>5, <1>6, <1>7, <1>8, KeptWithinCap
<1>14. bound' = cap
  BY <1>1, <1>4
<1>15. QED BY <1>12, <1>13, <1>14 DEF ShedsToCap

LEMMA MidtermSheds ==
    ASSUME Orderly, Midterm
    PROVE  ShedsToCap'
<1>1. PICK q \in Proposals(entries, Plans(entries), DefaultBudget) :
        entries' = <<Summary>> \o Kept(Append(entries, Telemetry), q.first)
  BY DEF Midterm
<1>2. bound' = DefaultBudget * Ratio
  BY DEF Midterm
<1>3. PICK plans, first, cap, k1 : plans = Plans(entries) /\ first = q.first
        /\ cap = DefaultBudget * Ratio /\ k1 = compactions + 1
  OBVIOUS
<1>4. /\ compactions \in Nat /\ k1 \in Nat /\ compactions <= k1 /\ said \in Nat
      /\ said <= said /\ hidden <= hidden /\ hidden \in Nat
      /\ DefaultBudget \in Nat /\ Ratio \in Nat
      /\ Formed(entries, said, hidden, compactions, exposed) /\ entries \in Seq(Entry)
      /\ Distinct(entries)
  BY <1>3, KeptWindowAssumption DEF Orderly, Formed
<1>5. cap \in Nat
  BY <1>3, <1>4
<1>6. Cuttable(entries, plans)
  BY <1>3, <1>4, PlansCuttable
<1>7. Target(entries, first) /\ WithinCap(entries, first, cap)
  BY <1>3, <1>4, <1>6, ProposalTarget
<1>8. PICK e : e = Telemetry
  OBVIOUS
<1>9. e \in Entry /\ EntryFor(e, said, hidden, k1) /\ MayFollow(entries, e) /\ e.size = 0
  <2>1. e \in Entry /\ EntryFor(e, said, hidden, k1) /\ MayFollow(entries, e)
    BY <1>3, <1>8, OwnEntries
  <2>2. QED BY <1>8, <2>1 DEF Telemetry, Hidden
<1>10. PICK es : es = Append(entries, e)
  OBVIOUS
<1>11. /\ Formed(es, said, hidden, k1, exposed) /\ Target(es, first) /\ es \in Seq(Entry)
       /\ Distinct(es) /\ Len(es) = Len(entries) + 1 /\ Len(entries) \in Nat
       /\ \A j \in 1..Len(entries) : es[j] = entries[j]
  <2>1. Formed(Append(entries, e), said, hidden, k1, exposed)
    <3>1. e.kind = "hidden"
      BY <1>8 DEF Telemetry, Hidden
    <3>2. QED BY <1>4, <1>9, <3>1, FormedHidden
  <2>2. Target(Append(entries, e), first)
    BY <1>4, <1>7, <1>9, TargetAppend
  <2>3. /\ Len(Append(entries, e)) = Len(entries) + 1 /\ Len(entries) \in Nat
        /\ \A j \in 1..Len(entries) : Append(entries, e)[j] = entries[j]
    BY <1>4, <1>9, AppendedEntries
  <2>4. QED BY <1>10, <2>1, <2>2, <2>3 DEF Formed
<1>12. \A j \in 1..(Len(entries) + 1) : Retained(es, j) = Retained(entries, j)
  BY <1>4, <1>9, <1>10, RetainedAppend
<1>13. WithinCap(es, first, cap)
  <2>1. ASSUME NEW j \in 1..Len(entries), first = entries[j].id, Retained(entries, j) <= cap
        PROVE  \E x \in 1..Len(es) : first = es[x].id /\ Retained(es, x) <= cap
    <3>1. j \in 1..Len(es) /\ j \in 1..(Len(entries) + 1)
      BY <1>11
    <3>2. QED BY <1>11, <1>12, <2>1, <3>1
  <2>2. QED BY <1>7, <2>1 DEF WithinCap
<1>14. PICK i \in 1..(Len(es) + 1) : KeptFrom(es, first, i)
  BY <1>4, <1>11, KeptBehind
<1>15. entries' = Behind(es, i)
  BY <1>1, <1>3, <1>8, <1>10, <1>14 DEF KeptFrom
<1>16. Retained(entries', 1) = Retained(es, i)
  BY <1>11, <1>15, RetainedBehind
<1>17. cap > 0 => Retained(es, i) <= cap
  BY <1>5, <1>11, <1>13, <1>14, KeptWithinCap
<1>18. bound' = cap
  BY <1>2, <1>3
<1>19. QED BY <1>16, <1>17, <1>18 DEF ShedsToCap

LEMMA ShedsStep == Orderly /\ ShedsToCap /\ [Next]_vars => ShedsToCap'
<1>1. SUFFICES ASSUME Orderly, ShedsToCap, [Next]_vars PROVE ShedsToCap'
  OBVIOUS
<1>2. CASE UNCHANGED vars
  BY <1>1, <1>2 DEF vars, ShedsToCap
<1>3. CASE User \/ Assistant \/ Result \/ Advisory \/ PiCompact
  <2>1. bound' = 0
    BY <1>3 DEF User, Assistant, Result, Say, Advisory, PiCompact
  <2>2. QED BY <2>1 DEF ShedsToCap
<1>4. QED BY <1>1, <1>2, <1>3, SessionBeforeCompactSheds, MidtermSheds DEF Next

\* A fast compaction that saw the projection and a usable budget has left no more than
\* the cap verbatim, wherever pi had cut and however large the messages are.
THEOREM KeptIsBounded == Spec => []ShedsToCap
<1>1. Init => ShedsToCap
  BY DEF Init, ShedsToCap
<1>2. Spec => []Orderly
  BY AlwaysOrderly
<1>3. QED BY <1>1, <1>2, ShedsStep, PTL DEF Spec

-------------------------------------------------------------------------------
(* Rising sequences of ids, and sequences of them                            *)

Elems(q) == {q[i] : i \in 1..Len(q)}
Below(I, J) == \A x \in I : \A y \in J : x < y
Rising(q) == q \in Seq(Int) /\ \A i, j \in 1..Len(q) : i < j => q[i] < q[j]

\* One after the other, as the lines of a digest and the blocks of a summary are.
Spread(tt) ==
    /\ tt \in Seq(Seq(Int)) /\ \A k \in 1..Len(tt) : Rising(tt[k])
    /\ \A k, l \in 1..Len(tt) : k < l => Below(Elems(tt[k]), Elems(tt[l]))
Covers(tt) == UNION {Elems(tt[k]) : k \in 1..Len(tt)}

LEMMA ConcatElements ==
    ASSUME NEW S, NEW q \in Seq(S), NEW r \in Seq(S)
    PROVE  /\ q \o r \in Seq(S) /\ Len(q \o r) = Len(q) + Len(r) /\ Len(q) \in Nat /\ Len(r) \in Nat
           /\ \A i \in 1..Len(q) : (q \o r)[i] = q[i]
           /\ \A i \in 1..Len(r) : (q \o r)[Len(q) + i] = r[i]
           /\ \A i \in 1..Len(q \o r) :
                 i \in 1..Len(q) \/ (i - Len(q) \in 1..Len(r) /\ (q \o r)[i] = r[i - Len(q)])
<1> DEFINE both == q \o r
<1>1. /\ both \in Seq(S) /\ Len(both) = Len(q) + Len(r)
      /\ \A i \in 1..(Len(q) + Len(r)) : both[i] = IF i <= Len(q) THEN q[i] ELSE r[i - Len(q)]
  BY ConcatProperties
<1>2. Len(q) \in Nat /\ Len(r) \in Nat
  BY LenProperties
<1> HIDE DEF both
<1>3. \A i \in 1..Len(q) : both[i] = q[i]
  BY <1>1, <1>2
<1>4. ASSUME NEW i \in 1..Len(r) PROVE both[Len(q) + i] = r[i]
  <2>1. Len(q) + i \in 1..(Len(q) + Len(r)) /\ ~(Len(q) + i <= Len(q)) /\ (Len(q) + i) - Len(q) = i
    BY <1>2
  <2>2. both[Len(q) + i] = r[(Len(q) + i) - Len(q)]
    BY <1>1, <2>1
  <2>3. QED BY <2>1, <2>2
<1>5. ASSUME NEW i \in 1..Len(both)
      PROVE  i \in 1..Len(q) \/ (i - Len(q) \in 1..Len(r) /\ both[i] = r[i - Len(q)])
  BY <1>1, <1>2
<1>6. QED BY <1>1, <1>2, <1>3, <1>4, <1>5 DEF both

LEMMA AppendElements ==
    ASSUME NEW S, NEW q \in Seq(S), NEW x \in S
    PROVE  /\ Append(q, x) \in Seq(S) /\ Len(Append(q, x)) = Len(q) + 1 /\ Len(q) \in Nat
           /\ \A i \in 1..Len(q) : Append(q, x)[i] = q[i]
           /\ Append(q, x)[Len(q) + 1] = x
           /\ \A i \in 1..Len(Append(q, x)) : i \in 1..Len(q) \/ i = Len(q) + 1
           /\ Elems(Append(q, x)) = Elems(q) \cup {x}
<1> DEFINE longer == Append(q, x)
<1>1. /\ longer \in Seq(S) /\ Len(longer) = Len(q) + 1 /\ Len(q) \in Nat
      /\ \A i \in 1..Len(q) : longer[i] = q[i]
      /\ longer[Len(q) + 1] = x
  BY AppendProperties, LenProperties
<1> HIDE DEF longer
<1>2. \A i \in 1..Len(longer) : i \in 1..Len(q) \/ i = Len(q) + 1
  BY <1>1
<1>3. /\ \A i \in 1..Len(q) : i \in 1..Len(longer)
      /\ Len(q) + 1 \in 1..Len(longer)
  BY <1>1
<1>4. Elems(longer) \subseteq Elems(q) \cup {x}
  BY <1>1, <1>2 DEF Elems
<1>5. Elems(q) \subseteq Elems(longer) /\ x \in Elems(longer)
  BY <1>1, <1>3 DEF Elems
<1>6. QED BY <1>1, <1>2, <1>4, <1>5 DEF longer

LEMMA ConcatElems ==
    ASSUME NEW S, NEW q \in Seq(S), NEW r \in Seq(S)
    PROVE  Elems(q \o r) = Elems(q) \cup Elems(r)
<1> DEFINE both == q \o r
<1>1. /\ Len(both) = Len(q) + Len(r) /\ Len(q) \in Nat /\ Len(r) \in Nat
      /\ \A i \in 1..Len(q) : both[i] = q[i]
      /\ \A i \in 1..Len(r) : both[Len(q) + i] = r[i]
      /\ \A i \in 1..Len(both) :
            i \in 1..Len(q) \/ (i - Len(q) \in 1..Len(r) /\ both[i] = r[i - Len(q)])
  BY ConcatElements
<1> HIDE DEF both
<1>2. Elems(both) \subseteq Elems(q) \cup Elems(r)
  BY <1>1 DEF Elems
<1>3. Elems(q) \subseteq Elems(both)
  <2>1. \A i \in 1..Len(q) : i \in 1..Len(both)
    BY <1>1
  <2>2. QED BY <1>1, <2>1 DEF Elems
<1>4. Elems(r) \subseteq Elems(both)
  <2>1. \A i \in 1..Len(r) : Len(q) + i \in 1..Len(both)
    BY <1>1
  <2>2. QED BY <1>1, <2>1 DEF Elems
<1>5. QED BY <1>2, <1>3, <1>4 DEF both

LEMMA RisingAppend ==
    ASSUME NEW q, Rising(q), NEW x \in Int, Below(Elems(q), {x})
    PROVE  Rising(Append(q, x)) /\ Elems(Append(q, x)) = Elems(q) \cup {x}
<1> DEFINE longer == Append(q, x)
<1>1. q \in Seq(Int)
  BY DEF Rising
<1>2. /\ longer \in Seq(Int) /\ Len(longer) = Len(q) + 1 /\ Len(q) \in Nat
      /\ \A i \in 1..Len(q) : longer[i] = q[i]
      /\ longer[Len(q) + 1] = x
      /\ \A i \in 1..Len(longer) : i \in 1..Len(q) \/ i = Len(q) + 1
      /\ Elems(longer) = Elems(q) \cup {x}
  BY <1>1, AppendElements
<1> HIDE DEF longer
<1>3. \A i \in 1..Len(q) : q[i] < x
  BY DEF Below, Elems
<1>4. ASSUME NEW i \in 1..Len(longer), NEW j \in 1..Len(longer), i < j
      PROVE  longer[i] < longer[j]
  <2>1. i \in 1..Len(q)
    BY <1>2, <1>4
  <2>2. CASE j \in 1..Len(q)
    BY <1>2, <1>4, <2>1, <2>2 DEF Rising
  <2>3. CASE j = Len(q) + 1
    BY <1>2, <1>3, <2>1, <2>3
  <2>4. QED BY <1>2, <2>2, <2>3
<1>5. QED BY <1>2, <1>4 DEF Rising, longer

LEMMA RisingConcat ==
    ASSUME NEW q, Rising(q), NEW r, Rising(r), Below(Elems(q), Elems(r))
    PROVE  Rising(q \o r) /\ Elems(q \o r) = Elems(q) \cup Elems(r)
<1> DEFINE both == q \o r
<1>1. q \in Seq(Int) /\ r \in Seq(Int)
  BY DEF Rising
<1>2. /\ both \in Seq(Int) /\ Len(both) = Len(q) + Len(r) /\ Len(q) \in Nat /\ Len(r) \in Nat
      /\ \A i \in 1..Len(q) : both[i] = q[i]
      /\ \A i \in 1..Len(both) :
            i \in 1..Len(q) \/ (i - Len(q) \in 1..Len(r) /\ both[i] = r[i - Len(q)])
      /\ Elems(both) = Elems(q) \cup Elems(r)
  BY <1>1, ConcatElements, ConcatElems
<1> HIDE DEF both
<1>3. \A i \in 1..Len(q), j \in 1..Len(r) : q[i] < r[j]
  BY DEF Below, Elems
<1>4. ASSUME NEW i \in 1..Len(both), NEW j \in 1..Len(both), i < j
      PROVE  both[i] < both[j]
  <2>1. CASE i \in 1..Len(q) /\ j \in 1..Len(q)
    BY <1>2, <1>4, <2>1 DEF Rising
  <2>2. CASE i \in 1..Len(q) /\ ~(j \in 1..Len(q))
    BY <1>2, <1>3, <2>2
  <2>3. CASE ~(i \in 1..Len(q))
    <3>1. i - Len(q) \in 1..Len(r) /\ j - Len(q) \in 1..Len(r) /\ ~(j \in 1..Len(q))
      BY <1>2, <1>4, <2>3
    <3>2. i - Len(q) < j - Len(q)
      BY <1>2, <1>4
    <3>3. r[i - Len(q)] < r[j - Len(q)]
      BY <3>1, <3>2 DEF Rising
    <3>4. QED BY <1>2, <2>3, <3>1, <3>3
  <2>4. QED BY <2>1, <2>2, <2>3
<1>5. QED BY <1>2, <1>4 DEF Rising, both

LEMMA SpreadEmpty == Spread(<<>>) /\ Covers(<<>>) = {}
<1>1. Len(<<>>) = 0 /\ <<>> \in Seq(Seq(Int))
  OBVIOUS
<1>2. QED BY <1>1 DEF Spread, Covers

LEMMA SpreadOne ==
    ASSUME NEW q, Rising(q)
    PROVE  Spread(<<q>>) /\ Covers(<<q>>) = Elems(q)
<1>1. <<q>> \in Seq(Seq(Int)) /\ Len(<<q>>) = 1 /\ <<q>>[1] = q
  BY DEF Rising
<1>2. \A k \in 1..Len(<<q>>) : <<q>>[k] = q
  BY <1>1
<1>3. QED BY <1>1, <1>2 DEF Spread, Covers

LEMMA SpreadConcat ==
    ASSUME NEW s, Spread(s), NEW t, Spread(t), Below(Covers(s), Covers(t))
    PROVE  Spread(s \o t) /\ Covers(s \o t) = Covers(s) \cup Covers(t)
<1> DEFINE both == s \o t
<1>1. s \in Seq(Seq(Int)) /\ t \in Seq(Seq(Int))
  BY DEF Spread
<1>2. /\ both \in Seq(Seq(Int)) /\ Len(both) = Len(s) + Len(t) /\ Len(s) \in Nat /\ Len(t) \in Nat
      /\ \A i \in 1..Len(s) : both[i] = s[i]
      /\ \A i \in 1..Len(t) : both[Len(s) + i] = t[i]
      /\ \A i \in 1..Len(both) :
            i \in 1..Len(s) \/ (i - Len(s) \in 1..Len(t) /\ both[i] = t[i - Len(s)])
  BY <1>1, ConcatElements
<1> HIDE DEF both
<1>3. \A i \in 1..Len(both) : Rising(both[i])
  BY <1>2 DEF Spread
<1>4. ASSUME NEW i \in 1..Len(both), NEW j \in 1..Len(both), i < j
      PROVE  Below(Elems(both[i]), Elems(both[j]))
  <2>1. CASE i \in 1..Len(s) /\ j \in 1..Len(s)
    BY <1>2, <1>4, <2>1 DEF Spread
  <2>2. CASE i \in 1..Len(s) /\ ~(j \in 1..Len(s))
    <3>1. Elems(both[i]) \subseteq Covers(s)
      BY <1>2, <2>2 DEF Covers
    <3>2. Elems(both[j]) \subseteq Covers(t)
      BY <1>2, <2>2 DEF Covers
    <3>3. QED BY <3>1, <3>2 DEF Below
  <2>3. CASE ~(i \in 1..Len(s))
    <3>1. i - Len(s) \in 1..Len(t) /\ j - Len(s) \in 1..Len(t) /\ ~(j \in 1..Len(s))
      BY <1>2, <1>4, <2>3
    <3>2. i - Len(s) < j - Len(s)
      BY <1>2, <1>4
    <3>3. Below(Elems(t[i - Len(s)]), Elems(t[j - Len(s)]))
      BY <3>1, <3>2 DEF Spread
    <3>4. QED BY <1>2, <2>3, <3>1, <3>3
  <2>4. QED BY <2>1, <2>2, <2>3
<1>5. Spread(both)
  BY <1>2, <1>3, <1>4 DEF Spread
<1>6. Covers(both) \subseteq Covers(s) \cup Covers(t)
  <2>1. ASSUME NEW i \in 1..Len(both) PROVE Elems(both[i]) \subseteq Covers(s) \cup Covers(t)
    BY <1>2 DEF Covers
  <2>2. QED BY <2>1 DEF Covers
<1>7. Covers(s) \subseteq Covers(both)
  <2>1. \A i \in 1..Len(s) : i \in 1..Len(both)
    BY <1>2
  <2>2. QED BY <1>2, <2>1 DEF Covers
<1>8. Covers(t) \subseteq Covers(both)
  <2>1. \A i \in 1..Len(t) : Len(s) + i \in 1..Len(both)
    BY <1>2
  <2>2. QED BY <1>2, <2>1 DEF Covers
<1>9. QED BY <1>5, <1>6, <1>7, <1>8 DEF both

LEMMA SpreadAppend ==
    ASSUME NEW s, Spread(s), NEW q, Rising(q), Below(Covers(s), Elems(q))
    PROVE  Spread(Append(s, q)) /\ Covers(Append(s, q)) = Covers(s) \cup Elems(q)
<1>1. s \in Seq(Seq(Int)) /\ q \in Seq(Int)
  BY DEF Spread, Rising
<1>2. Append(s, q) = s \o <<q>>
  BY <1>1, AppendIsConcat
<1>3. PICK t : t = <<q>>
  OBVIOUS
<1>4. Spread(t) /\ Covers(t) = Elems(q)
  BY <1>3, SpreadOne
<1>5. Spread(s \o t) /\ Covers(s \o t) = Covers(s) \cup Covers(t)
  BY <1>4, SpreadConcat
<1>6. QED BY <1>2, <1>3, <1>4, <1>5

\* The first m of them, and the others.
LEMMA SplitAt ==
    ASSUME NEW S, NEW s \in Seq(S), NEW m \in 0..Len(s)
    PROVE  /\ SubSeq(s, 1, m) \in Seq(S) /\ Len(SubSeq(s, 1, m)) = m
           /\ \A i \in 1..m : SubSeq(s, 1, m)[i] = s[i]
           /\ SubSeq(s, m + 1, Len(s)) \in Seq(S)
           /\ Len(SubSeq(s, m + 1, Len(s))) = Len(s) - m /\ Len(s) \in Nat
           /\ \A i \in 1..(Len(s) - m) : SubSeq(s, m + 1, Len(s))[i] = s[m + i]
<1>1. Len(s) \in Nat /\ s \in [1..Len(s) -> S] /\ m \in Int /\ m + 1 \in Int
  BY LenProperties
<1>2. /\ SubSeq(s, 1, m) \in Seq(S) /\ Len(SubSeq(s, 1, m)) = IF 1 <= m THEN m - 1 + 1 ELSE 0
      /\ \A i \in 1..(m - 1 + 1) : SubSeq(s, 1, m)[i] = s[1 + i - 1]
  <2>1. 1 \in 1..Len(s) + 1 /\ m \in 1 - 1..Len(s) /\ 1 \in Int
    BY <1>1
  <2>2. QED BY <1>1, <2>1, SubSeqProperties
<1>3. /\ SubSeq(s, 1, m) \in Seq(S) /\ Len(SubSeq(s, 1, m)) = m
      /\ \A i \in 1..m : SubSeq(s, 1, m)[i] = s[i]
  BY <1>1, <1>2
<1>4. /\ SubSeq(s, m + 1, Len(s)) \in Seq(S)
      /\ Len(SubSeq(s, m + 1, Len(s))) = IF m + 1 <= Len(s) THEN Len(s) - (m + 1) + 1 ELSE 0
      /\ \A i \in 1..(Len(s) - (m + 1) + 1) : SubSeq(s, m + 1, Len(s))[i] = s[(m + 1) + i - 1]
  <2>1. m + 1 \in 1..Len(s) + 1 /\ Len(s) \in (m + 1) - 1..Len(s) /\ Len(s) \in Int
    BY <1>1
  <2>2. QED BY <1>1, <2>1, SubSeqProperties
<1>5. /\ SubSeq(s, m + 1, Len(s)) \in Seq(S) /\ Len(SubSeq(s, m + 1, Len(s))) = Len(s) - m
      /\ \A i \in 1..(Len(s) - m) : SubSeq(s, m + 1, Len(s))[i] = s[m + i]
  <2>1. Len(SubSeq(s, m + 1, Len(s))) = Len(s) - m
    <3>1. PICK len, n : len = Len(SubSeq(s, m + 1, Len(s))) /\ n = Len(s)
      OBVIOUS
    <3>2. n \in Nat /\ m \in 0..n /\ len = IF m + 1 <= n THEN n - (m + 1) + 1 ELSE 0
      BY <1>1, <1>4, <3>1
    <3>3. len = n - m
      BY <3>2
    <3>4. QED BY <3>1, <3>3
  <2>2. ASSUME NEW i \in 1..(Len(s) - m) PROVE SubSeq(s, m + 1, Len(s))[i] = s[m + i]
    <3>1. i \in 1..(Len(s) - (m + 1) + 1) /\ (m + 1) + i - 1 = m + i
      BY <1>1
    <3>2. QED BY <1>4, <3>1
  <2>3. QED BY <1>4, <2>1, <2>2
<1>6. QED BY <1>1, <1>3, <1>5

LEMMA SpreadParts ==
    ASSUME NEW s, Spread(s), NEW m \in 0..Len(s)
    PROVE  /\ Spread(SubSeq(s, 1, m)) /\ Spread(SubSeq(s, m + 1, Len(s)))
           /\ Covers(s) = Covers(SubSeq(s, 1, m)) \cup Covers(SubSeq(s, m + 1, Len(s)))
           /\ Below(Covers(SubSeq(s, 1, m)), Covers(SubSeq(s, m + 1, Len(s))))
<1> DEFINE a == SubSeq(s, 1, m)
           b == SubSeq(s, m + 1, Len(s))
<1>1. s \in Seq(Seq(Int))
  BY DEF Spread
<1>2. /\ a \in Seq(Seq(Int)) /\ Len(a) = m /\ \A i \in 1..m : a[i] = s[i]
      /\ b \in Seq(Seq(Int)) /\ Len(b) = Len(s) - m /\ Len(s) \in Nat
      /\ \A i \in 1..(Len(s) - m) : b[i] = s[m + i]
  BY <1>1, SplitAt
<1> HIDE DEF a, b
<1>3. \A i \in 1..m : i \in 1..Len(s)
  BY <1>2
<1>4. \A i \in 1..(Len(s) - m) : m + i \in 1..Len(s) /\ m + i > m /\ m + i \in Int
  BY <1>2
<1>5. Spread(a)
  BY <1>2, <1>3 DEF Spread
<1>6. Spread(b)
  <2>1. \A i \in 1..Len(b) : Rising(b[i])
    BY <1>2, <1>4 DEF Spread
  <2>2. ASSUME NEW i \in 1..Len(b), NEW j \in 1..Len(b), i < j
        PROVE  Below(Elems(b[i]), Elems(b[j]))
    <3>1. m + i \in 1..Len(s) /\ m + j \in 1..Len(s) /\ m + i < m + j
      BY <1>2, <1>4, <2>2
    <3>2. Below(Elems(s[m + i]), Elems(s[m + j]))
      BY <3>1 DEF Spread
    <3>3. QED BY <1>2, <3>2
  <2>3. QED BY <1>2, <2>1, <2>2 DEF Spread
<1>7. Covers(a) \subseteq Covers(s)
  BY <1>2, <1>3 DEF Covers
<1>8. Covers(b) \subseteq Covers(s)
  BY <1>2, <1>4 DEF Covers
<1>9. Covers(s) \subseteq Covers(a) \cup Covers(b)
  <2>1. ASSUME NEW k \in 1..Len(s) PROVE Elems(s[k]) \subseteq Covers(a) \cup Covers(b)
    <3>1. CASE k <= m
      <4>1. k \in 1..Len(a) /\ a[k] = s[k]
        BY <1>2, <3>1
      <4>2. QED BY <4>1 DEF Covers
    <3>2. CASE ~(k <= m)
      <4>1. k - m \in 1..Len(b) /\ m + (k - m) = k
        BY <1>2, <3>2
      <4>2. b[k - m] = s[k]
        BY <1>2, <4>1
      <4>3. QED BY <4>1, <4>2 DEF Covers
    <3>3. QED BY <3>1, <3>2
  <2>2. QED BY <2>1 DEF Covers
<1>10. Below(Covers(a), Covers(b))
  <2>1. ASSUME NEW x \in Covers(a), NEW y \in Covers(b) PROVE x < y
    <3>1. PICK i \in 1..Len(a) : x \in Elems(a[i])
      BY DEF Covers
    <3>2. PICK j \in 1..Len(b) : y \in Elems(b[j])
      BY DEF Covers
    <3>3. i \in 1..Len(s) /\ m + j \in 1..Len(s) /\ i < m + j /\ a[i] = s[i] /\ b[j] = s[m + j]
      BY <1>2
    <3>4. Below(Elems(s[i]), Elems(s[m + j]))
      BY <3>3 DEF Spread
    <3>5. QED BY <3>1, <3>2, <3>3, <3>4 DEF Below
  <2>2. QED BY <2>1 DEF Below
<1>11. QED BY <1>5, <1>6, <1>7, <1>8, <1>9, <1>10 DEF a, b

\* What a flattened sequence of rising sequences is.
LEMMA FlattenSpread ==
    ASSUME NEW tt, Spread(tt)
    PROVE  Rising(FlattenSeq(tt)) /\ Elems(FlattenSeq(tt)) = Covers(tt)
<1> DEFINE n == Len(tt)
           Runs(g) == g = [i \in 1..n |-> IF i = 1 THEN tt[i] ELSE g[i - 1] \o tt[i]]
           G == CHOOSE g : Runs(g)
           step == [xv \in (1..n) \X Seq(Int) |-> xv[2] \o tt[xv[1]]]
           First(i) == SubSeq(tt, 1, i)
<1>1. tt \in Seq(Seq(Int)) /\ n \in Nat /\ \A i \in 1..n : tt[i] \in Seq(Int)
  <2>1. tt \in Seq(Seq(Int))
    BY DEF Spread
  <2>2. QED BY <2>1, LenProperties, ElementOfSeq
<1>2. CASE n = 0
  <2>1. tt = <<>>
    BY <1>1, <1>2, EmptySeq
  <2>2. FlattenSeq(tt) = <<>>
    BY <2>1 DEF FlattenSeq
  <2>3. Rising(<<>>) /\ Elems(<<>>) = {}
    BY DEF Rising, Elems
  <2>4. QED BY <2>1, <2>2, <2>3, SpreadEmpty
<1>3. CASE n # 0
  <2>1. FlattenSeq(tt) = G[n]
    BY <1>3 DEF FlattenSeq
  <2> HIDE DEF n
  <2>2. PICK g \in [SUBSET (1..n) -> Seq(Int)] : Loops(n, <<>>, step, g)
    <3>1. <<>> \in Seq(Int) /\ step \in [(1..n) \X Seq(Int) -> Seq(Int)]
      BY <1>1, ConcatProperties
    <3> HIDE DEF step
    <3>2. QED BY <1>1, <3>1, IndexRecursion
  <2>3. ASSUME NEW i \in 1..n PROVE g[1..i] = g[1..(i - 1)] \o tt[i]
    <3>1. i \in Nat \ {0} /\ 1..i \in SUBSET (1..n) /\ 1..i # {} /\ 1..(i - 1) \in SUBSET (1..n)
      <4>1. n \in Nat /\ i \in 1..n
        BY <1>1
      <4>2. i \in Nat \ {0} /\ 1..i \in SUBSET (1..n) /\ i \in 1..i
        BY <4>1
      <4>3. 1..(i - 1) \in SUBSET (1..n)
        BY <4>1
      <4>4. QED BY <4>2, <4>3
    <3>2. Max(1..i) = i /\ (1..i) \ {i} = 1..(i - 1)
      BY <3>1, MaxOfInterval
    <3>3. g[1..i] = step[<<i, g[1..(i - 1)]>>]
      <4> HIDE DEF step
      <4>1. QED BY <2>2, <3>1, <3>2 DEF Loops
    <3>4. g[1..(i - 1)] \in Seq(Int)
      BY <2>2, <3>1
    <3>5. QED BY <3>3, <3>4
  <2>4. g[1..0] = <<>>
    <3>1. 1..0 = {} /\ {} \in SUBSET (1..n)
      OBVIOUS
    <3> HIDE DEF step
    <3>2. QED BY <2>2, <3>1 DEF Loops
  <2>5. Runs([i \in 1..n |-> g[1..i]])
    <3> DEFINE f == [i \in 1..n |-> g[1..i]]
    <3>1. ASSUME NEW i \in 1..n PROVE g[1..i] = IF i = 1 THEN tt[i] ELSE f[i - 1] \o tt[i]
      <4>1. CASE i = 1
        <5>1. g[1..i] = <<>> \o tt[1]
          <6>1. g[1..i] = g[1..(i - 1)] \o tt[i]
            BY <2>3
          <6>2. i - 1 = 0
            BY <4>1
          <6>3. QED BY <2>4, <4>1, <6>1, <6>2
        <5>2. <<>> \o tt[1] = tt[1]
          BY <1>1, <4>1, ConcatEmptySeq
        <5>3. QED BY <4>1, <5>1, <5>2
      <4>2. CASE i # 1
        <5>1. i - 1 \in 1..n
          BY <1>1, <4>2
        <5>2. QED BY <2>3, <4>2, <5>1
      <4>3. QED BY <4>1, <4>2
    <3>2. QED BY <3>1
  <2>6. Runs(G)
    <3> HIDE DEF Runs
    <3>1. QED BY <2>5
  <2> DEFINE Bad == {i \in 1..n : ~(Rising(G[i]) /\ Elems(G[i]) = Covers(First(i)))}
  <2>7. Bad = {}
    <3>1. SUFFICES ASSUME Bad # {} PROVE FALSE
      OBVIOUS
    <3>2. Bad \in SUBSET Nat
      <4>1. Bad \subseteq 1..n
        OBVIOUS
      <4>2. 1..n \subseteq Nat
        BY <1>1
      <4> HIDE DEF Bad
      <4>3. QED BY <4>1, <4>2
    <3>3. PICK i \in Bad : \A k \in Bad : i <= k
      <4> HIDE DEF Bad
      <4>1. QED BY <3>1, <3>2, LeastNatural
    <3> HIDE DEF G, step
    <3>4. i \in 1..n /\ Rising(tt[i])
      BY <3>3 DEF Spread, n
    <3>5. /\ Spread(First(i)) /\ Len(First(i)) = i /\ First(i) \in Seq(Seq(Int))
          /\ \A j \in 1..i : First(i)[j] = tt[j]
      <4>1. i \in 0..Len(tt)
        BY <3>4, <1>1 DEF n
      <4>2. QED BY <1>1, <4>1, SpreadParts, SplitAt
    <3>6. CASE i = 1
      <4>1. G[i] = tt[1]
        BY <2>6, <3>4, <3>6
      <4>2. Covers(First(i)) = Elems(tt[1])
        BY <3>5, <3>6 DEF Covers
      <4>3. QED BY <3>3, <3>4, <3>6, <4>1, <4>2
    <3>7. CASE i # 1
      <4>1. i - 1 \in 1..n /\ i - 1 \in 0..Len(tt)
        BY <1>1, <3>4, <3>7 DEF n
      <4>2. i - 1 \notin Bad
        BY <1>1, <3>3, <4>1
      <4>3. Rising(G[i - 1]) /\ Elems(G[i - 1]) = Covers(First(i - 1))
        BY <4>1, <4>2
      <4>4. G[i] = G[i - 1] \o tt[i]
        BY <2>6, <3>4, <3>7
      <4>5. /\ Len(First(i - 1)) = i - 1 /\ \A j \in 1..(i - 1) : First(i - 1)[j] = tt[j]
        BY <1>1, <4>1, SplitAt
      <4> HIDE DEF First, Bad
      <4>6. Covers(First(i)) = Covers(First(i - 1)) \cup Elems(tt[i])
        <5>1. 1..i = (1..(i - 1)) \cup {i}
          BY <3>4
        <5>2. QED BY <3>5, <4>5, <5>1 DEF Covers
      <4>7. Below(Covers(First(i - 1)), Elems(tt[i]))
        <5>1. ASSUME NEW j \in 1..(i - 1) PROVE Below(Elems(tt[j]), Elems(tt[i]))
          <6>1. j \in 1..Len(tt) /\ i \in 1..Len(tt) /\ j < i
            BY <1>1, <3>4 DEF n
          <6>2. QED BY <6>1 DEF Spread
        <5>2. QED BY <4>5, <5>1 DEF Below, Covers
      <4>8. PICK a, b : a = G[i - 1] /\ b = tt[i]
        OBVIOUS
      <4>9. Rising(a \o b) /\ Elems(a \o b) = Elems(a) \cup Elems(b)
        BY <3>4, <4>3, <4>7, <4>8, RisingConcat
      <4>10. Rising(G[i]) /\ Elems(G[i]) = Covers(First(i))
        BY <4>3, <4>4, <4>6, <4>8, <4>9
      <4>11. QED BY <3>3, <4>10 DEF Bad
    <3>8. QED BY <3>6, <3>7
  <2>8. n \in 1..n
    BY <1>1, <1>3
  <2>9. First(n) = tt
    BY <1>1, SubSeqFull DEF n
  <2>10. QED BY <2>1, <2>7, <2>8, <2>9
<1>4. QED BY <1>2, <1>3

-------------------------------------------------------------------------------
(* Entries by their ids                                                     *)

LEMMA FunctionIsSeq ==
    ASSUME NEW S, NEW n \in Nat, NEW f \in [1..n -> S]
    PROVE  f \in Seq(S) /\ Len(f) = n
OBVIOUS

LEMMA IdsShape ==
    ASSUME NEW ms \in Seq(Entry)
    PROVE  /\ Ids(ms) \in Seq(Int) /\ Len(Ids(ms)) = Len(ms) /\ Len(ms) \in Nat
           /\ \A i \in 1..Len(ms) : Ids(ms)[i] = ms[i].id /\ ms[i] \in Entry
<1>1. Len(ms) \in Nat /\ DOMAIN ms = 1..Len(ms) /\ \A i \in 1..Len(ms) : ms[i] \in Entry
  BY LenProperties, ElementOfSeq
<1>2. Ids(ms) = [i \in 1..Len(ms) |-> ms[i].id]
  BY <1>1 DEF Ids
<1>3. \A i \in 1..Len(ms) : ms[i].id \in Int
  BY <1>1 DEF Entry
<1>4. Ids(ms) \in [1..Len(ms) -> Int]
  BY <1>2, <1>3
<1>5. Ids(ms) \in Seq(Int) /\ Len(Ids(ms)) = Len(ms)
  BY <1>1, <1>4, FunctionIsSeq
<1>6. QED BY <1>1, <1>2, <1>5

LEMMA IdsAppend ==
    ASSUME NEW ms \in Seq(Entry), NEW e \in Entry
    PROVE  Ids(Append(ms, e)) = Append(Ids(ms), e.id)
<1>1. /\ Append(ms, e) \in Seq(Entry) /\ Len(Append(ms, e)) = Len(ms) + 1 /\ Len(ms) \in Nat
      /\ \A i \in 1..Len(ms) : Append(ms, e)[i] = ms[i]
      /\ Append(ms, e)[Len(ms) + 1] = e
      /\ \A i \in 1..Len(Append(ms, e)) : i \in 1..Len(ms) \/ i = Len(ms) + 1
  BY AppendElements
<1>2. PICK a, b : a = Ids(Append(ms, e)) /\ b = Append(Ids(ms), e.id)
  OBVIOUS
<1>3. /\ a \in Seq(Int) /\ Len(a) = Len(ms) + 1
      /\ \A i \in 1..Len(Append(ms, e)) : a[i] = Append(ms, e)[i].id
  BY <1>1, <1>2, IdsShape
<1>4. e.id \in Int /\ Ids(ms) \in Seq(Int) /\ Len(Ids(ms)) = Len(ms)
      /\ \A i \in 1..Len(ms) : Ids(ms)[i] = ms[i].id
  <2>1. e.id \in Int
    BY DEF Entry
  <2>2. QED BY <2>1, IdsShape
<1>5. /\ b \in Seq(Int) /\ Len(b) = Len(ms) + 1
      /\ \A i \in 1..Len(ms) : b[i] = ms[i].id
      /\ b[Len(ms) + 1] = e.id
  BY <1>2, <1>4, AppendElements
<1>6. \A i \in 1..Len(a) : a[i] = b[i]
  BY <1>1, <1>3, <1>5
<1>7. a = b
  BY <1>3, <1>5, <1>6, SeqEqual
<1>8. QED BY <1>2, <1>7

LEMMA IdsConcat ==
    ASSUME NEW ms \in Seq(Entry), NEW ns \in Seq(Entry)
    PROVE  Ids(ms \o ns) = Ids(ms) \o Ids(ns)
<1>1. /\ ms \o ns \in Seq(Entry) /\ Len(ms \o ns) = Len(ms) + Len(ns)
      /\ Len(ms) \in Nat /\ Len(ns) \in Nat
      /\ \A i \in 1..Len(ms) : (ms \o ns)[i] = ms[i]
      /\ \A i \in 1..Len(ms \o ns) :
            i \in 1..Len(ms) \/ (i - Len(ms) \in 1..Len(ns) /\ (ms \o ns)[i] = ns[i - Len(ms)])
  BY ConcatElements
<1>2. PICK a, b, p, q : a = Ids(ms \o ns) /\ p = Ids(ms) /\ q = Ids(ns) /\ b = p \o q
  OBVIOUS
<1>3. /\ a \in Seq(Int) /\ Len(a) = Len(ms) + Len(ns)
      /\ \A i \in 1..Len(ms \o ns) : a[i] = (ms \o ns)[i].id
  BY <1>1, <1>2, IdsShape
<1>4. /\ p \in Seq(Int) /\ Len(p) = Len(ms) /\ \A i \in 1..Len(ms) : p[i] = ms[i].id
      /\ q \in Seq(Int) /\ Len(q) = Len(ns) /\ \A i \in 1..Len(ns) : q[i] = ns[i].id
  BY <1>2, IdsShape
<1>5. /\ b \in Seq(Int) /\ Len(b) = Len(p) + Len(q)
      /\ \A i \in 1..Len(p) : b[i] = p[i]
      /\ \A i \in 1..Len(b) :
            i \in 1..Len(p) \/ (i - Len(p) \in 1..Len(q) /\ b[i] = q[i - Len(p)])
  <2>1. p \in Seq(Int) /\ q \in Seq(Int) /\ b = p \o q
    BY <1>2, <1>4
  <2>2. QED BY <2>1, ConcatElements
<1>6. ASSUME NEW i \in 1..Len(a) PROVE a[i] = b[i]
  <2>1. i \in 1..Len(ms \o ns) /\ i \in 1..Len(b)
    BY <1>1, <1>3, <1>4, <1>5
  <2>2. CASE i \in 1..Len(ms)
    BY <1>1, <1>3, <1>4, <1>5, <2>1, <2>2
  <2>3. CASE ~(i \in 1..Len(ms))
    BY <1>1, <1>3, <1>4, <1>5, <2>1, <2>3
  <2>4. QED BY <2>2, <2>3
<1>7. a = b
  <2>1. Len(a) = Len(b)
    BY <1>3, <1>4, <1>5
  <2>2. QED BY <1>3, <1>5, <1>6, <2>1, SeqEqual
<1>8. QED BY <1>2, <1>7

-------------------------------------------------------------------------------
(* The elements of a sequence that are in a set                             *)

Scans(s, S, V, R) ==
    /\ R \in [0..Len(s) -> Seq(V)] /\ R[0] = <<>>
    /\ \A i \in 1..Len(s) : R[i] = IF s[i] \in S THEN Append(R[i - 1], s[i]) ELSE R[i - 1]

LEMMA ThoseScan ==
    ASSUME NEW V, NEW s \in Seq(V), NEW S
    PROVE  \E R : Scans(s, S, V, R) /\ Those(s, S) = R[Len(s)]
<1> DEFINE D == DOMAIN s
           n == Len(s)
           Op(acc, x) == IF x \in S THEN Append(acc, x) ELSE acc
           Runs(g) == g = [t \in SUBSET D |-> IF t = {} THEN <<>>
                             ELSE Op(g[t \ {Max(t)}], s[Max(t)])]
           G == CHOOSE g : Runs(g)
           step == [xv \in (1..n) \X Seq(V) |-> Op(xv[2], s[xv[1]])]
           R == [i \in 0..n |-> G[1..i]]
<1>1. Those(s, S) = G[D]
  BY DEF Those, FoldLeft, MapThenFoldSet
<1>2. n \in Nat /\ D = 1..n /\ \A i \in 1..n : s[i] \in V
  BY LenProperties, ElementOfSeq
<1> HIDE DEF n
<1>3. Runs(G)
  <2>1. <<>> \in Seq(V)
    BY EmptySeq
  <2>2. step \in [(1..n) \X Seq(V) -> Seq(V)]
    <3>1. ASSUME NEW i \in 1..n, NEW acc \in Seq(V) PROVE Op(acc, s[i]) \in Seq(V)
      <4>1. s[i] \in V
        BY <1>2
      <4>2. Append(acc, s[i]) \in Seq(V)
        BY <4>1, AppendProperties
      <4>3. QED BY <4>2
    <3> HIDE DEF Op
    <3>2. QED BY <3>1
  <2>3. PICK g \in [SUBSET (1..n) -> Seq(V)] : Loops(n, <<>>, step, g)
    <3> HIDE DEF step
    <3>1. QED BY <1>2, <2>1, <2>2, IndexRecursion
  <2>4. ASSUME NEW t \in SUBSET (1..n), t # {}
        PROVE  step[<<Max(t), g[t \ {Max(t)}]>>] = Op(g[t \ {Max(t)}], s[Max(t)])
    <3>1. Max(t) \in t
      BY <1>2, <2>4, MaxOfIndices
    <3>2. Max(t) \in 1..n /\ t \ {Max(t)} \in SUBSET (1..n)
      BY <3>1
    <3>3. g[t \ {Max(t)}] \in Seq(V)
      BY <3>2
    <3> HIDE DEF Op
    <3>4. QED BY <3>2, <3>3
  <2>5. ASSUME NEW t \in SUBSET (1..n)
        PROVE  g[t] = IF t = {} THEN <<>> ELSE Op(g[t \ {Max(t)}], s[Max(t)])
    <3> HIDE DEF step, Op
    <3>1. QED BY <2>3, <2>4 DEF Loops
  <2>6. Runs(g)
    <3> HIDE DEF step, Op
    <3>1. QED BY <1>2, <2>5
  <2> HIDE DEF Runs
  <2>7. QED BY <2>6
<1>4. G[1..0] = <<>>
  <2>1. 1..0 = {} /\ {} \in SUBSET D
    OBVIOUS
  <2> HIDE DEF G, D, Op
  <2>2. QED BY <1>3, <2>1
<1>5. ASSUME NEW i \in 1..n PROVE G[1..i] = Op(G[1..(i - 1)], s[i])
  <2>1. 1..i \in SUBSET D /\ 1..i # {} /\ Max(1..i) = i /\ (1..i) \ {i} = 1..(i - 1)
    <3>1. i \in Nat \ {0} /\ 1..i \subseteq D /\ i \in 1..i
      BY <1>2
    <3>2. Max(1..i) = i /\ (1..i) \ {i} = 1..(i - 1)
      BY <3>1, MaxOfInterval
    <3>3. QED BY <3>1, <3>2
  <2> HIDE DEF G, D, Op
  <2>2. QED BY <1>3, <2>1
<1> HIDE DEF G, Runs, step, D
<1> DEFINE Bad == {i \in 0..n : ~(G[1..i] \in Seq(V))}
<1>6. Bad = {}
  <2>1. SUFFICES ASSUME Bad # {} PROVE FALSE
    OBVIOUS
  <2>2. Bad \in SUBSET Nat
    BY <1>2
  <2>3. PICK i \in Bad : \A k \in Bad : i <= k
    <3> HIDE DEF Bad
    <3>1. QED BY <2>1, <2>2, LeastNatural
  <2>4. i # 0
    <3>1. <<>> \in Seq(V)
      BY EmptySeq
    <3>2. QED BY <1>4, <2>3, <3>1
  <2>5. i \in 1..n /\ i - 1 \in 0..n /\ i - 1 \notin Bad
    BY <1>2, <2>3, <2>4
  <2>6. G[1..(i - 1)] \in Seq(V) /\ s[i] \in V
    BY <1>2, <2>5
  <2>7. Append(G[1..(i - 1)], s[i]) \in Seq(V)
    BY <2>6, AppendProperties
  <2>8. G[1..i] = Op(G[1..(i - 1)], s[i])
    BY <1>5, <2>5
  <2>9. G[1..i] \in Seq(V)
    BY <2>6, <2>7, <2>8
  <2>10. QED BY <2>3, <2>9
<1>7. R \in [0..n -> Seq(V)] /\ R[0] = <<>>
  BY <1>2, <1>4, <1>6
<1>8. ASSUME NEW i \in 1..n PROVE R[i] = Op(R[i - 1], s[i])
  <2>1. i \in 0..n /\ i - 1 \in 0..n
    BY <1>2
  <2> HIDE DEF Op
  <2>2. QED BY <1>5, <2>1
<1>9. Scans(s, S, V, R)
  BY <1>7, <1>8 DEF Scans, n
<1>10. Those(s, S) = R[n]
  BY <1>1, <1>2
<1>11. QED BY <1>9, <1>10 DEF n

\* All of them, when all are in the set.
LEMMA ThoseAll ==
    ASSUME NEW V, NEW s \in Seq(V), NEW S, \A i \in 1..Len(s) : s[i] \in S
    PROVE  Those(s, S) = s
<1>1. PICK R : Scans(s, S, V, R) /\ Those(s, S) = R[Len(s)]
  BY ThoseScan
<1>2. Len(s) \in Nat /\ \A i \in 1..Len(s) : s[i] \in V
  BY LenProperties, ElementOfSeq
<1> DEFINE Whole(i) == Len(R[i]) = i /\ \A j \in 1..i : R[i][j] = s[j]
           Bad == {i \in 0..Len(s) : ~Whole(i)}
<1>3. Bad = {}
  <2>1. SUFFICES ASSUME Bad # {} PROVE FALSE
    OBVIOUS
  <2>2. Bad \in SUBSET Nat
    BY <1>2
  <2>3. PICK i \in Bad : \A k \in Bad : i <= k
    <3> HIDE DEF Bad
    <3>1. QED BY <2>1, <2>2, LeastNatural
  <2>4. CASE i = 0
    <3>1. Len(R[0]) = 0
      BY <1>1 DEF Scans
    <3>2. QED BY <2>3, <2>4, <3>1
  <2>5. CASE i # 0
    <3>1. i \in 1..Len(s) /\ i - 1 \in 0..Len(s) /\ i - 1 \notin Bad
      BY <1>2, <2>3, <2>5
    <3>2. Whole(i - 1) /\ R[i - 1] \in Seq(V) /\ s[i] \in V
      BY <1>1, <1>2, <3>1 DEF Scans
    <3>3. R[i] = Append(R[i - 1], s[i])
      BY <1>1, <3>1 DEF Scans
    <3>4. PICK q, x : q = R[i - 1] /\ x = s[i]
      OBVIOUS
    <3>5. /\ Len(Append(q, x)) = Len(q) + 1 /\ \A j \in 1..Len(q) : Append(q, x)[j] = q[j]
          /\ Append(q, x)[Len(q) + 1] = x
      BY <3>2, <3>4, AppendElements
    <3>6. Len(q) = i - 1 /\ 1..i = (1..(i - 1)) \cup {i}
      BY <1>2, <3>1, <3>2, <3>4
    <3>7. Whole(i)
      BY <1>2, <3>1, <3>2, <3>3, <3>4, <3>5, <3>6
    <3>8. QED BY <2>3, <3>7
  <2>6. QED BY <2>4, <2>5
<1>4. Len(s) \in 0..Len(s)
  BY <1>2
<1>5. Whole(Len(s)) /\ R[Len(s)] \in Seq(V)
  BY <1>1, <1>3, <1>4 DEF Scans
<1>6. QED BY <1>1, <1>5, SeqEqual

\* The ids of the first n entries that are in S, which rise along es.
IdsOf(es, S, n) == {es[i].id : i \in {j \in 1..n : es[j] \in S}}
Climbs(es, S) ==
    \A i, j \in 1..Len(es) : i < j /\ es[i] \in S /\ es[j] \in S => es[i].id < es[j].id

LEMMA ThoseClimb ==
    ASSUME NEW es \in Seq(Entry), NEW S, Climbs(es, S)
    PROVE  /\ Those(es, S) \in Seq(Entry) /\ Rising(Ids(Those(es, S)))
           /\ Elems(Ids(Those(es, S))) = IdsOf(es, S, Len(es))
           /\ \A k \in 1..Len(Those(es, S)) :
                 \E i \in 1..Len(es) : Those(es, S)[k] = es[i] /\ es[i] \in S
<1>1. PICK R : Scans(es, S, Entry, R) /\ Those(es, S) = R[Len(es)]
  BY ThoseScan
<1>2. Len(es) \in Nat /\ \A i \in 1..Len(es) : es[i] \in Entry
  BY LenProperties, ElementOfSeq
<1> DEFINE From(i) == \A k \in 1..Len(R[i]) : \E j \in 1..i : R[i][k] = es[j] /\ es[j] \in S
           Good(i) == Rising(Ids(R[i])) /\ Elems(Ids(R[i])) = IdsOf(es, S, i) /\ From(i)
           Bad == {i \in 0..Len(es) : ~Good(i)}
<1>3. Bad = {}
  <2>1. SUFFICES ASSUME Bad # {} PROVE FALSE
    OBVIOUS
  <2>2. Bad \in SUBSET Nat
    <3>1. Bad \subseteq 0..Len(es)
      OBVIOUS
    <3> HIDE DEF Bad
    <3>2. QED BY <1>2, <3>1
  <2>3. PICK i \in Bad : \A k \in Bad : i <= k
    <3> HIDE DEF Bad
    <3>1. QED BY <2>1, <2>2, LeastNatural
  <2>4. CASE i = 0
    <3>1. R[0] = <<>> /\ Len(<<>>) = 0 /\ Ids(<<>>) = <<>>
      BY <1>1 DEF Scans, Ids
    <3>2. IdsOf(es, S, 0) = {}
      BY DEF IdsOf
    <3>3. Rising(<<>>) /\ Elems(<<>>) = {}
      BY <3>1 DEF Rising, Elems
    <3>4. From(0)
      BY <3>1
    <3>5. Ids(R[0]) = <<>>
      BY <3>1
    <3>6. Rising(Ids(R[0])) /\ Elems(Ids(R[0])) = IdsOf(es, S, 0)
      <4> HIDE DEF Rising, Elems, IdsOf
      <4>1. QED BY <3>2, <3>3, <3>5
    <3>7. Good(0)
      BY <3>4, <3>6
    <3>8. QED BY <2>3, <2>4, <3>7
  <2>5. CASE i # 0
    <3>1. i \in 1..Len(es) /\ i - 1 \in 0..Len(es) /\ i - 1 \notin Bad
          /\ 1..i = (1..(i - 1)) \cup {i}
      BY <1>2, <2>3, <2>5
    <3>2. Good(i - 1) /\ R[i - 1] \in Seq(Entry) /\ es[i] \in Entry
      BY <1>1, <1>2, <3>1 DEF Scans
    <3>3. CASE es[i] \notin S
      <4>1. R[i] = R[i - 1]
        BY <1>1, <3>1, <3>3 DEF Scans
      <4>2. IdsOf(es, S, i) = IdsOf(es, S, i - 1)
        BY <3>1, <3>3 DEF IdsOf
      <4>3. From(i)
        BY <3>1, <3>2, <4>1
      <4>4. QED BY <2>3, <3>2, <4>1, <4>2, <4>3
    <3>4. CASE es[i] \in S
      <4>1. PICK q, e : q = R[i - 1] /\ e = es[i]
        OBVIOUS
      <4>2. R[i] = Append(q, e) /\ q \in Seq(Entry) /\ e \in Entry
        BY <1>1, <3>1, <3>2, <3>4, <4>1 DEF Scans
      <4>3. Ids(R[i]) = Append(Ids(q), e.id) /\ e.id \in Int
        <5>1. e.id \in Int
          BY <4>2 DEF Entry
        <5>2. QED BY <4>2, <5>1, IdsAppend
      <4>4. Below(Elems(Ids(q)), {e.id})
        <5>1. ASSUME NEW j \in 1..(i - 1), es[j] \in S PROVE es[j].id < e.id
          <6>1. j \in 1..Len(es) /\ j < i /\ i \in 1..Len(es)
            BY <1>2, <3>1
          <6>2. QED BY <3>4, <4>1, <5>1, <6>1 DEF Climbs
        <5>2. Elems(Ids(q)) = IdsOf(es, S, i - 1)
          BY <3>2, <4>1
        <5>3. QED BY <5>1, <5>2 DEF Below, IdsOf
      <4>5. PICK ids, x : ids = Ids(q) /\ x = e.id
        OBVIOUS
      <4>6. Rising(Append(ids, x)) /\ Elems(Append(ids, x)) = Elems(ids) \cup {x}
        BY <3>2, <4>1, <4>3, <4>4, <4>5, RisingAppend
      <4>7. IdsOf(es, S, i) = IdsOf(es, S, i - 1) \cup {e.id}
        BY <3>1, <3>4, <4>1 DEF IdsOf
      <4>8. From(i)
        <5>1. /\ Len(R[i]) = Len(q) + 1 /\ \A k \in 1..Len(q) : R[i][k] = q[k]
              /\ R[i][Len(q) + 1] = e
              /\ \A k \in 1..Len(R[i]) : k \in 1..Len(q) \/ k = Len(q) + 1
          BY <4>2, AppendElements
        <5>2. \A k \in 1..Len(q) : \E j \in 1..(i - 1) : q[k] = es[j] /\ es[j] \in S
          BY <3>2, <4>1
        <5>3. QED BY <3>1, <3>4, <4>1, <5>1, <5>2
      <4>9. Good(i)
        BY <3>2, <4>1, <4>3, <4>5, <4>6, <4>7, <4>8
      <4>10. QED BY <2>3, <4>9
    <3>5. QED BY <3>3, <3>4
  <2>6. QED BY <2>4, <2>5
<1>4. Len(es) \in 0..Len(es)
  BY <1>2
<1>5. Good(Len(es)) /\ R[Len(es)] \in Seq(Entry)
  BY <1>1, <1>3, <1>4 DEF Scans
<1>6. QED BY <1>1, <1>5

-------------------------------------------------------------------------------
(* The turns of a span                                                      *)

LEMMA TurnEffect ==
    ASSUME NEW turns \in Seq(Seq(Entry)), NEW e \in Entry
    PROVE  /\ Turn(turns, e) \in Seq(Seq(Entry)) /\ Len(turns) \in Nat
           /\ (turns = <<>> \/ e.kind = "user") =>
                /\ Turn(turns, e) = Append(turns, <<e>>)
           /\ ~(turns = <<>> \/ e.kind = "user") =>
                /\ Len(turns) > 0 /\ Len(Turn(turns, e)) = Len(turns)
                /\ \A k \in 1..Len(turns) : Turn(turns, e)[k] =
                      IF k = Len(turns) THEN Append(turns[k], e) ELSE turns[k]
<1>1. Len(turns) \in Nat /\ (turns # <<>> => Len(turns) > 0)
  BY LenProperties, EmptySeq
<1>2. CASE turns = <<>> \/ e.kind = "user"
  <2>1. Turn(turns, e) = Append(turns, <<e>>)
    BY <1>2 DEF Turn
  <2>2. <<e>> \in Seq(Entry)
    OBVIOUS
  <2>3. Append(turns, <<e>>) \in Seq(Seq(Entry))
    BY <2>2, AppendProperties
  <2>4. QED BY <1>1, <1>2, <2>1, <2>3
<1>3. CASE ~(turns = <<>> \/ e.kind = "user")
  <2>1. PICK n, last : n = Len(turns) /\ last = turns[Len(turns)]
    OBVIOUS
  <2>2. n \in 1..Len(turns) /\ last \in Seq(Entry)
    <3>1. n \in 1..Len(turns)
      BY <1>1, <1>3, <2>1
    <3>2. QED BY <2>1, <3>1, ElementOfSeq
  <2>3. PICK more : more = Append(last, e)
    OBVIOUS
  <2>4. more \in Seq(Entry)
    BY <2>2, <2>3, AppendProperties
  <2>5. Turn(turns, e) = [turns EXCEPT ![n] = more]
    BY <1>3, <2>1, <2>3 DEF Turn
  <2>6. /\ [turns EXCEPT ![n] = more] \in Seq(Seq(Entry))
        /\ Len([turns EXCEPT ![n] = more]) = Len(turns)
        /\ \A j \in 1..Len(turns) : [turns EXCEPT ![n] = more][j] = IF j = n THEN more ELSE turns[j]
    BY <2>2, <2>4, ExceptSeq
  <2>7. QED BY <1>1, <1>3, <2>1, <2>3, <2>5, <2>6
<1>4. QED BY <1>2, <1>3

Turns(ms) == FoldLeft(Turn, <<>>, ms)
Grows(ms, R) ==
    /\ R \in [0..Len(ms) -> Seq(Seq(Entry))] /\ R[0] = <<>>
    /\ \A i \in 1..Len(ms) : R[i] = Turn(R[i - 1], ms[i])

LEMMA TurnScan ==
    ASSUME NEW ms \in Seq(Entry)
    PROVE  \E R : Grows(ms, R) /\ Turns(ms) = R[Len(ms)]
<1> DEFINE D == DOMAIN ms
           n == Len(ms)
           V == Seq(Seq(Entry))
           Runs(g) == g = [t \in SUBSET D |-> IF t = {} THEN <<>>
                             ELSE Turn(g[t \ {Max(t)}], ms[Max(t)])]
           G == CHOOSE g : Runs(g)
           step == [xv \in (1..n) \X V |-> Turn(xv[2], ms[xv[1]])]
           R == [i \in 0..n |-> G[1..i]]
<1>1. Turns(ms) = G[D]
  BY DEF Turns, FoldLeft, MapThenFoldSet
<1>2. n \in Nat /\ D = 1..n /\ \A i \in 1..n : ms[i] \in Entry
  BY LenProperties, ElementOfSeq
<1>3. <<>> \in V
  BY EmptySeq
<1> HIDE DEF n
<1>4. Runs(G)
  <2>1. step \in [(1..n) \X V -> V]
    <3>1. ASSUME NEW i \in 1..n, NEW acc \in V PROVE Turn(acc, ms[i]) \in V
      <4>1. PICK e \in Entry : e = ms[i]
        BY <1>2
      <4>2. Turn(acc, e) \in V
        BY TurnEffect
      <4>3. QED BY <4>1, <4>2
    <3> HIDE DEF V
    <3>2. QED BY <3>1
  <2> HIDE DEF V
  <2>2. PICK g \in [SUBSET (1..n) -> V] : Loops(n, <<>>, step, g)
    <3> HIDE DEF step
    <3>1. QED BY <1>2, <1>3, <2>1, IndexRecursion
  <2>3. ASSUME NEW t \in SUBSET (1..n), t # {}
        PROVE  step[<<Max(t), g[t \ {Max(t)}]>>] = Turn(g[t \ {Max(t)}], ms[Max(t)])
    <3>1. Max(t) \in t
      BY <1>2, <2>3, MaxOfIndices
    <3>2. Max(t) \in 1..n /\ t \ {Max(t)} \in SUBSET (1..n)
      BY <3>1
    <3>3. g[t \ {Max(t)}] \in V
      BY <3>2
    <3>4. QED BY <3>2, <3>3
  <2>4. ASSUME NEW t \in SUBSET (1..n)
        PROVE  g[t] = IF t = {} THEN <<>> ELSE Turn(g[t \ {Max(t)}], ms[Max(t)])
    <3> HIDE DEF step
    <3>1. QED BY <2>2, <2>3 DEF Loops
  <2>5. Runs(g)
    <3> HIDE DEF step
    <3>1. QED BY <1>2, <2>4
  <2> HIDE DEF Runs
  <2>6. QED BY <2>5
<1>5. G[1..0] = <<>>
  <2>1. 1..0 = {} /\ {} \in SUBSET D
    OBVIOUS
  <2> HIDE DEF G, D
  <2>2. QED BY <1>4, <2>1
<1>6. ASSUME NEW i \in 1..n PROVE G[1..i] = Turn(G[1..(i - 1)], ms[i])
  <2>1. 1..i \in SUBSET D /\ 1..i # {} /\ Max(1..i) = i /\ (1..i) \ {i} = 1..(i - 1)
    <3>1. i \in Nat \ {0} /\ 1..i \subseteq D /\ i \in 1..i
      BY <1>2
    <3>2. Max(1..i) = i /\ (1..i) \ {i} = 1..(i - 1)
      BY <3>1, MaxOfInterval
    <3>3. QED BY <3>1, <3>2
  <2> HIDE DEF G, D
  <2>2. QED BY <1>4, <2>1
<1> HIDE DEF G, Runs, step, D
<1> DEFINE Bad == {i \in 0..n : ~(G[1..i] \in V)}
<1>7. Bad = {}
  <2> HIDE DEF V
  <2>1. SUFFICES ASSUME Bad # {} PROVE FALSE
    OBVIOUS
  <2>2. Bad \in SUBSET Nat
    BY <1>2
  <2>3. PICK i \in Bad : \A k \in Bad : i <= k
    <3> HIDE DEF Bad
    <3>1. QED BY <2>1, <2>2, LeastNatural
  <2>4. i # 0
    BY <1>3, <1>5, <2>3
  <2>5. i \in 1..n /\ i - 1 \in 0..n /\ i - 1 \notin Bad
    BY <1>2, <2>3, <2>4
  <2>6. PICK acc, e : acc = G[1..(i - 1)] /\ e = ms[i]
    OBVIOUS
  <2>7. acc \in V /\ e \in Entry
    BY <1>2, <2>5, <2>6
  <2>8. Turn(acc, e) \in V
    BY <2>7, TurnEffect DEF V
  <2>9. QED BY <1>6, <2>3, <2>5, <2>6, <2>8
<1>8. R \in [0..n -> V] /\ R[0] = <<>>
  <2> HIDE DEF V
  <2>1. QED BY <1>2, <1>5, <1>7
<1>9. ASSUME NEW i \in 1..n PROVE R[i] = Turn(R[i - 1], ms[i])
  <2>1. i \in 0..n /\ i - 1 \in 0..n
    BY <1>2
  <2>2. QED BY <1>6, <2>1
<1>10. Grows(ms, R)
  BY <1>8, <1>9 DEF Grows, n
<1>11. Turns(ms) = R[n]
  BY <1>1, <1>2
<1>12. QED BY <1>10, <1>11 DEF n

\* A turn that says something, or has nothing but results of X; a result of X adds
\* nothing to it.
Alone(e, X) == e.kind = "result" /\ e.id \in X
Opened(turn, X) ==
    \/ \E j \in 1..Len(turn) : turn[j].kind # "result"
    \/ \A j \in 1..Len(turn) : Alone(turn[j], X)
Heeds(turn, X) == \E j \in 1..Len(turn) : ~Alone(turn[j], X)

\* A result that is not in X goes with what it follows in its turn.
LEMMA TurnOpened ==
    ASSUME NEW turns \in Seq(Seq(Entry)), NEW e \in Entry, NEW X,
           \A k \in 1..Len(turns) : Opened(turns[k], X),
           e.kind = "result" /\ e.id \notin X =>
               Len(turns) > 0 /\ Heeds(turns[Len(turns)], X)
    PROVE  /\ \A k \in 1..Len(Turn(turns, e)) : Opened(Turn(turns, e)[k], X)
           /\ Len(Turn(turns, e)) > 0
           /\ \E j \in 1..Len(Turn(turns, e)[Len(Turn(turns, e))]) :
                 Turn(turns, e)[Len(Turn(turns, e))][j] = e
<1> DEFINE new == Turn(turns, e)
           n == Len(turns)
<1>1. new \in Seq(Seq(Entry)) /\ n \in Nat
  BY TurnEffect
<1>2. CASE turns = <<>> \/ e.kind = "user"
  <2>1. PICK one : one = <<e>>
    OBVIOUS
  <2>2. one \in Seq(Entry) /\ Len(one) = 1 /\ one[1] = e /\ 1 \in 1..Len(one)
    BY <2>1
  <2>3. new = Append(turns, one)
    BY <1>2, <2>1, TurnEffect
  <2>4. /\ Len(new) = n + 1 /\ \A k \in 1..n : new[k] = turns[k]
        /\ new[n + 1] = one
        /\ \A k \in 1..Len(new) : k \in 1..n \/ k = n + 1
    BY <2>2, <2>3, AppendElements
  <2>5. e.kind = "result" => e.id \in X
    <3>1. turns = <<>> => n = 0
      OBVIOUS
    <3>2. QED BY <1>2, <3>1
  <2>6. Opened(one, X)
    <3>1. \A j \in 1..Len(one) : j = 1
      BY <2>2
    <3>2. one[1].kind # "result" \/ Alone(one[1], X)
      BY <2>2, <2>5 DEF Alone
    <3>3. QED BY <2>2, <3>1, <3>2 DEF Opened
  <2>7. \A k \in 1..Len(new) : Opened(new[k], X)
    <3>1. \A k \in 1..n : Opened(turns[k], X)
      OBVIOUS
    <3> HIDE DEF new, n
    <3>2. QED BY <2>4, <2>6, <3>1
  <2>8. Len(new) > 0 /\ new[Len(new)] = one
    BY <1>1, <2>4
  <2>9. \E j \in 1..Len(new[Len(new)]) : new[Len(new)][j] = e
    <3> HIDE DEF new, n
    <3>1. QED BY <2>2, <2>8
  <2>10. QED BY <2>7, <2>8, <2>9
<1>3. CASE ~(turns = <<>> \/ e.kind = "user")
  <2>1. /\ n > 0 /\ Len(new) = n
        /\ \A k \in 1..n : new[k] = IF k = n THEN Append(turns[k], e) ELSE turns[k]
    BY <1>3, TurnEffect
  <2>2. PICK last, more : last = turns[n] /\ more = Append(last, e)
    OBVIOUS
  <2>3. n \in 1..n /\ last \in Seq(Entry)
    BY <1>1, <2>1, <2>2, ElementOfSeq
  <2>4. /\ Len(more) = Len(last) + 1 /\ Len(last) \in Nat
        /\ \A j \in 1..Len(last) : more[j] = last[j]
        /\ more[Len(last) + 1] = e
        /\ \A j \in 1..Len(more) : j \in 1..Len(last) \/ j = Len(last) + 1
    BY <2>2, <2>3, AppendElements
  <2>5. Len(last) + 1 \in 1..Len(more) /\ \A j \in 1..Len(last) : j \in 1..Len(more)
    BY <2>4
  <2>6. Opened(last, X)
    BY <2>2, <2>3
  <2>7. Opened(more, X)
    <3>1. CASE \E j \in 1..Len(last) : last[j].kind # "result"
      BY <2>4, <2>5, <3>1 DEF Opened
    <3>2. CASE \A j \in 1..Len(last) : Alone(last[j], X)
      <4>1. e.kind = "result" => e.id \in X
        BY <2>2, <3>2 DEF Heeds
      <4>2. QED BY <2>4, <2>5, <3>2, <4>1 DEF Opened, Alone
    <3>3. QED BY <2>6, <3>1, <3>2 DEF Opened
  <2>8. new[n] = more /\ \A k \in 1..n : k # n => new[k] = turns[k]
    BY <2>1, <2>2, <2>3
  <2>9. QED BY <2>1, <2>3, <2>4, <2>5, <2>7, <2>8
<1>4. QED BY <1>2, <1>3

\* Turns of the first messages: rising, one after the other.
Lined(turns) == [k \in DOMAIN turns |-> Ids(turns[k])]

LEMMA LinedShape ==
    ASSUME NEW turns \in Seq(Seq(Entry))
    PROVE  /\ Lined(turns) \in Seq(Seq(Int)) /\ Len(Lined(turns)) = Len(turns)
           /\ Len(turns) \in Nat
           /\ \A k \in 1..Len(turns) :
                 Lined(turns)[k] = Ids(turns[k]) /\ turns[k] \in Seq(Entry)
<1>1. Len(turns) \in Nat /\ DOMAIN turns = 1..Len(turns)
      /\ \A k \in 1..Len(turns) : turns[k] \in Seq(Entry)
  BY LenProperties, ElementOfSeq
<1>2. Lined(turns) = [k \in 1..Len(turns) |-> Ids(turns[k])]
  BY <1>1 DEF Lined
<1>3. ASSUME NEW k \in 1..Len(turns) PROVE Ids(turns[k]) \in Seq(Int)
  <2>1. PICK turn \in Seq(Entry) : turn = turns[k]
    BY <1>1
  <2>2. Ids(turn) \in Seq(Int)
    BY IdsShape
  <2>3. QED BY <2>1, <2>2
<1>4. Lined(turns) \in [1..Len(turns) -> Seq(Int)]
  BY <1>2, <1>3
<1>5. Lined(turns) \in Seq(Seq(Int)) /\ Len(Lined(turns)) = Len(turns)
  <2>1. PICK S, f, n : S = Seq(Int) /\ f = Lined(turns) /\ n = Len(turns)
    OBVIOUS
  <2>2. n \in Nat /\ f \in [1..n -> S]
    BY <1>1, <1>4, <2>1
  <2>3. f \in Seq(S) /\ Len(f) = n
    BY <2>2, FunctionIsSeq
  <2>4. QED BY <2>1, <2>3
<1>6. QED BY <1>1, <1>2, <1>5

LEMMA LinedAppend ==
    ASSUME NEW turns \in Seq(Seq(Entry)), NEW one \in Seq(Entry)
    PROVE  Lined(Append(turns, one)) = Append(Lined(turns), Ids(one))
<1>1. PICK new, n : new = Append(turns, one) /\ n = Len(turns)
  OBVIOUS
<1>2. /\ new \in Seq(Seq(Entry)) /\ Len(new) = n + 1 /\ \A k \in 1..n : new[k] = turns[k]
      /\ new[n + 1] = one
      /\ \A k \in 1..Len(new) : k \in 1..n \/ k = n + 1
  BY <1>1, AppendElements
<1>3. /\ Lined(turns) \in Seq(Seq(Int)) /\ Len(Lined(turns)) = n
      /\ \A k \in 1..n : Lined(turns)[k] = Ids(turns[k])
  BY <1>1, LinedShape
<1>4. /\ Lined(new) \in Seq(Seq(Int)) /\ Len(Lined(new)) = Len(new)
      /\ \A k \in 1..Len(new) : Lined(new)[k] = Ids(new[k])
  BY <1>2, LinedShape
<1>5. PICK a, b, q : a = Lined(turns) /\ q = Ids(one) /\ b = Append(a, q)
  OBVIOUS
<1>6. q \in Seq(Int)
  BY <1>5, IdsShape
<1>7. /\ b \in Seq(Seq(Int)) /\ Len(b) = n + 1 /\ \A k \in 1..n : b[k] = a[k]
      /\ b[n + 1] = q
  BY <1>3, <1>5, <1>6, AppendElements
<1>8. \A k \in 1..Len(new) : Lined(new)[k] = b[k]
  BY <1>2, <1>3, <1>4, <1>5, <1>7
<1>9. Lined(new) = b
  <2>1. Len(Lined(new)) = Len(b)
    BY <1>2, <1>4, <1>7
  <2>2. QED BY <1>4, <1>7, <1>8, <2>1, SeqEqual
<1>10. QED BY <1>1, <1>5, <1>9

LEMMA TurnSpread ==
    ASSUME NEW turns \in Seq(Seq(Entry)), Spread(Lined(turns)),
           NEW e \in Entry, Below(Covers(Lined(turns)), {e.id})
    PROVE  /\ Spread(Lined(Turn(turns, e)))
           /\ Covers(Lined(Turn(turns, e))) = Covers(Lined(turns)) \cup {e.id}
<1> DEFINE new == Turn(turns, e)
           n == Len(turns)
<1>1. new \in Seq(Seq(Entry)) /\ n \in Nat
  BY TurnEffect
<1>2. /\ Lined(turns) \in Seq(Seq(Int)) /\ Len(Lined(turns)) = n
      /\ \A k \in 1..n : Lined(turns)[k] = Ids(turns[k]) /\ turns[k] \in Seq(Entry)
  BY LinedShape
<1>3. e.id \in Int
  BY DEF Entry
<1>4. CASE turns = <<>> \/ e.kind = "user"
  <2>1. PICK one : one = <<e>>
    OBVIOUS
  <2>2. one \in Seq(Entry) /\ Len(one) = 1 /\ one[1] = e
    BY <2>1
  <2>3. new = Append(turns, one)
    BY <1>4, <2>1, TurnEffect
  <2>4. /\ Len(new) = n + 1 /\ \A k \in 1..n : new[k] = turns[k]
        /\ new[n + 1] = one
        /\ \A k \in 1..Len(new) : k \in 1..n \/ k = n + 1
    BY <2>2, <2>3, AppendElements
  <2>7. Rising(Ids(one)) /\ Elems(Ids(one)) = {e.id}
    <3>1. /\ Ids(one) \in Seq(Int) /\ Len(Ids(one)) = 1
          /\ \A i \in 1..1 : Ids(one)[i] = one[i].id
      BY <2>2, IdsShape
    <3>2. \A i \in 1..1 : i = 1
      OBVIOUS
    <3>3. 1 \in 1..1
      OBVIOUS
    <3>4. Ids(one)[1] = e.id
      BY <2>2, <3>1, <3>3
    <3>5. QED BY <1>3, <3>1, <3>2, <3>3, <3>4 DEF Rising, Elems
  <2>8. Lined(new) = Append(Lined(turns), Ids(one))
    BY <2>2, <2>3, LinedAppend
  <2>9. /\ Spread(Append(Lined(turns), Ids(one)))
        /\ Covers(Append(Lined(turns), Ids(one))) = Covers(Lined(turns)) \cup Elems(Ids(one))
    <3>1. PICK a, q : a = Lined(turns) /\ q = Ids(one)
      OBVIOUS
    <3>2. Spread(a) /\ Rising(q) /\ Below(Covers(a), Elems(q))
      BY <2>7, <3>1
    <3>3. Spread(Append(a, q)) /\ Covers(Append(a, q)) = Covers(a) \cup Elems(q)
      BY <3>2, SpreadAppend
    <3>4. QED BY <3>1, <3>3
  <2>10. QED BY <2>7, <2>8, <2>9
<1>5. CASE ~(turns = <<>> \/ e.kind = "user")
  <2>1. /\ n > 0 /\ Len(new) = n
        /\ \A k \in 1..n : new[k] = IF k = n THEN Append(turns[k], e) ELSE turns[k]
    BY <1>5, TurnEffect
  <2>2. PICK last : last = turns[n]
    OBVIOUS
  <2>3. n \in 1..n /\ last \in Seq(Entry) /\ Rising(Ids(last))
    <3>1. n \in 1..n
      BY <1>1, <2>1
    <3>2. QED BY <1>2, <2>2, <3>1 DEF Spread
  <2>4. Ids(Append(last, e)) = Append(Ids(last), e.id)
    BY <2>3, IdsAppend
  <2>5. Below(Elems(Ids(last)), {e.id})
    <3>1. Elems(Ids(last)) \subseteq Covers(Lined(turns))
      BY <1>2, <2>2, <2>3 DEF Covers
    <3>2. QED BY <3>1 DEF Below
  <2>6. Rising(Ids(Append(last, e))) /\ Elems(Ids(Append(last, e))) = Elems(Ids(last)) \cup {e.id}
    <3>1. PICK q, x : q = Ids(last) /\ x = e.id
      OBVIOUS
    <3>2. Rising(Append(q, x)) /\ Elems(Append(q, x)) = Elems(q) \cup {x}
      BY <1>3, <2>3, <2>5, <3>1, RisingAppend
    <3>3. QED BY <2>4, <3>1, <3>2
  <2>9. /\ Lined(new) \in Seq(Seq(Int)) /\ Len(Lined(new)) = n
        /\ \A k \in 1..n : Lined(new)[k] = Ids(new[k])
    BY <1>1, <2>1, LinedShape
  <2>10. PICK more : more = Ids(Append(last, e))
    OBVIOUS
  <2>11. \A k \in 1..n : Lined(new)[k] = IF k = n THEN more ELSE Ids(turns[k])
    BY <2>1, <2>2, <2>9, <2>10
  <2>12. /\ Rising(more) /\ Elems(more) = Elems(Ids(last)) \cup {e.id}
         /\ Below(Elems(Ids(last)), {e.id})
    BY <2>5, <2>6, <2>10
  <2>13. \A k \in 1..Len(Lined(new)) : Rising(Lined(new)[k])
    BY <1>2, <2>9, <2>11, <2>12 DEF Spread
  <2>14. ASSUME NEW k \in 1..n, NEW l \in 1..n, k < l
         PROVE  Below(Elems(Lined(new)[k]), Elems(Lined(new)[l]))
    <3>1. k # n /\ Lined(new)[k] = Lined(turns)[k]
      BY <1>1, <1>2, <2>11, <2>14
    <3>2. Below(Elems(Lined(turns)[k]), Elems(Lined(turns)[l]))
      BY <1>2, <2>14 DEF Spread
    <3>3. Below(Elems(Lined(turns)[k]), {e.id})
      <4>1. Elems(Lined(turns)[k]) \subseteq Covers(Lined(turns))
        BY <1>2 DEF Covers
      <4>2. QED BY <4>1 DEF Below
    <3>4. CASE l = n
      <4>1. Elems(Lined(new)[l]) = Elems(Lined(turns)[l]) \cup {e.id}
        BY <1>2, <2>2, <2>11, <2>12, <3>4
      <4>2. QED BY <3>1, <3>2, <3>3, <4>1 DEF Below
    <3>5. CASE l # n
      BY <1>2, <2>11, <3>1, <3>2, <3>5
    <3>6. QED BY <3>4, <3>5
  <2>15. Spread(Lined(new))
    BY <2>9, <2>13, <2>14 DEF Spread
  <2>16. Covers(Lined(new)) \subseteq Covers(Lined(turns)) \cup {e.id}
    <3>1. ASSUME NEW k \in 1..n PROVE Elems(Lined(new)[k]) \subseteq Covers(Lined(turns)) \cup {e.id}
      <4>1. Elems(Ids(turns[k])) \subseteq Covers(Lined(turns))
        BY <1>2 DEF Covers
      <4>2. QED BY <2>2, <2>11, <2>12, <4>1
    <3>2. QED BY <2>9, <3>1 DEF Covers
  <2>17. Covers(Lined(turns)) \cup {e.id} \subseteq Covers(Lined(new))
    <3>1. ASSUME NEW k \in 1..n PROVE Elems(Lined(turns)[k]) \subseteq Covers(Lined(new))
      <4>1. Elems(Lined(new)[k]) \subseteq Covers(Lined(new))
        BY <2>9 DEF Covers
      <4>2. QED BY <1>2, <2>2, <2>11, <2>12, <4>1
    <3>2. e.id \in Covers(Lined(new))
      <4>1. Elems(Lined(new)[n]) \subseteq Covers(Lined(new))
        BY <2>3, <2>9 DEF Covers
      <4>2. QED BY <2>3, <2>11, <2>12, <4>1
    <3>3. QED BY <1>2, <3>1, <3>2 DEF Covers
  <2>18. QED BY <2>15, <2>16, <2>17
<1>6. QED BY <1>4, <1>5

-------------------------------------------------------------------------------
(* The lines of a span                                                      *)

\* The turns of a span take up its messages in order, and when every result that is not
\* in X follows something that is no result of X, none of those is in a turn that says
\* nothing.
Headed(ms, X) ==
    \A i \in 1..Len(ms) : ms[i].kind = "result" /\ ms[i].id \notin X =>
        i > 1 /\ ~Alone(ms[i - 1], X)

LEMMA TurnsSpread ==
    ASSUME NEW ms \in Seq(Entry), Rising(Ids(ms)), NEW X
    PROVE  /\ Turns(ms) \in Seq(Seq(Entry)) /\ Spread(Lined(Turns(ms)))
           /\ Covers(Lined(Turns(ms))) = Elems(Ids(ms))
           /\ Headed(ms, X) => \A k \in 1..Len(Turns(ms)) : Opened(Turns(ms)[k], X)
<1>1. PICK R : Grows(ms, R) /\ Turns(ms) = R[Len(ms)]
  BY TurnScan
<1>2. /\ Len(ms) \in Nat /\ \A i \in 1..Len(ms) : ms[i] \in Entry
      /\ Len(Ids(ms)) = Len(ms) /\ \A i \in 1..Len(ms) : Ids(ms)[i] = ms[i].id
  BY IdsShape
<1> DEFINE First(i) == {ms[j].id : j \in 1..i}
           Good(i) == /\ Spread(Lined(R[i])) /\ Covers(Lined(R[i])) = First(i)
                      /\ Headed(ms, X) => \A k \in 1..Len(R[i]) : Opened(R[i][k], X)
                      /\ i > 0 /\ Headed(ms, X) =>
                            /\ Len(R[i]) > 0
                            /\ \E j \in 1..Len(R[i][Len(R[i])]) : R[i][Len(R[i])][j] = ms[i]
           Bad == {i \in 0..Len(ms) : ~Good(i)}
<1>3. Lined(<<>>) = <<>> /\ Spread(<<>>) /\ Covers(<<>>) = {}
  BY SpreadEmpty DEF Lined
<1>4. Bad = {}
  <2>1. SUFFICES ASSUME Bad # {} PROVE FALSE
    OBVIOUS
  <2>2. Bad \in SUBSET Nat
    <3>1. Bad \subseteq 0..Len(ms)
      OBVIOUS
    <3> HIDE DEF Bad
    <3>2. QED BY <1>2, <3>1
  <2>3. PICK i \in Bad : \A k \in Bad : i <= k
    <3> HIDE DEF Bad
    <3>1. QED BY <2>1, <2>2, LeastNatural
  <2>4. CASE i = 0
    <3>1. R[0] = <<>> /\ Len(<<>>) = 0
      BY <1>1 DEF Grows
    <3>2. First(0) = {}
      OBVIOUS
    <3>3. \A k \in 1..Len(R[0]) : Opened(R[0][k], X)
      BY <3>1
    <3>4. Spread(Lined(R[0])) /\ Covers(Lined(R[0])) = {}
      BY <1>3, <3>1
    <3>5. Good(0)
      BY <3>2, <3>3, <3>4
    <3>6. QED BY <2>3, <2>4, <3>5
  <2>5. CASE i # 0
    <3>1. i \in 1..Len(ms) /\ i - 1 \in 0..Len(ms) /\ i - 1 \notin Bad
          /\ 1..i = (1..(i - 1)) \cup {i}
      <4>1. i \in 0..Len(ms)
        BY <2>3
      <4> HIDE DEF Bad
      <4>2. i \in 1..Len(ms) /\ i - 1 \in 0..Len(ms) /\ ~(i <= i - 1)
        BY <1>2, <2>5, <4>1
      <4>3. i - 1 \notin Bad
        BY <2>3, <4>2
      <4>4. 1..i = (1..(i - 1)) \cup {i}
        BY <1>2, <4>2
      <4>5. QED BY <4>2, <4>3, <4>4
    <3>2. PICK turns, e : turns = R[i - 1] /\ e = ms[i]
      OBVIOUS
    <3>3. /\ Spread(Lined(turns)) /\ Covers(Lined(turns)) = First(i - 1)
          /\ Headed(ms, X) => \A k \in 1..Len(turns) : Opened(turns[k], X)
          /\ i - 1 > 0 /\ Headed(ms, X) =>
                /\ Len(turns) > 0
                /\ \E j \in 1..Len(turns[Len(turns)]) : turns[Len(turns)][j] = ms[i - 1]
      BY <3>1, <3>2
    <3>4. turns \in Seq(Seq(Entry)) /\ e \in Entry /\ R[i] = Turn(turns, e)
      BY <1>1, <1>2, <3>1, <3>2 DEF Grows
    <3>5. Below(Covers(Lined(turns)), {e.id})
      <4>1. ASSUME NEW j \in 1..(i - 1) PROVE ms[j].id < ms[i].id
        <5>1. j \in 1..Len(ms) /\ j < i
          BY <1>2, <3>1
        <5>2. Ids(ms)[j] < Ids(ms)[i]
          BY <1>2, <3>1, <5>1 DEF Rising
        <5>3. QED BY <1>2, <3>1, <5>1, <5>2
      <4>2. QED BY <3>2, <3>3, <4>1 DEF Below
    <3>6. ASSUME Headed(ms, X)
          PROVE  /\ \A k \in 1..Len(Turn(turns, e)) : Opened(Turn(turns, e)[k], X)
                 /\ Len(Turn(turns, e)) > 0
                 /\ \E j \in 1..Len(Turn(turns, e)[Len(Turn(turns, e))]) :
                       Turn(turns, e)[Len(Turn(turns, e))][j] = e
      <4>1. ASSUME e.kind = "result", e.id \notin X
            PROVE  Len(turns) > 0 /\ Heeds(turns[Len(turns)], X)
        <5>1. i > 1 /\ ~Alone(ms[i - 1], X)
          BY <3>1, <3>2, <3>6, <4>1 DEF Headed
        <5>2. i - 1 > 0
          BY <1>2, <3>1, <5>1
        <5>3. QED BY <3>3, <3>6, <5>1, <5>2 DEF Heeds
      <4>2. \A k \in 1..Len(turns) : Opened(turns[k], X)
        BY <3>3, <3>6
      <4> HIDE DEF Bad, Good, First, Opened, Heeds
      <4>3. QED BY <3>4, <4>1, <4>2, TurnOpened
    <3>7. /\ Spread(Lined(Turn(turns, e)))
          /\ Covers(Lined(Turn(turns, e))) = Covers(Lined(turns)) \cup {e.id}
      <4> HIDE DEF Bad, Good
      <4>1. QED BY <3>3, <3>4, <3>5, TurnSpread
    <3>8. First(i) = First(i - 1) \cup {e.id}
      BY <3>1, <3>2
    <3>9. Good(i)
      <4> HIDE DEF First
      <4>1. QED BY <3>2, <3>3, <3>4, <3>6, <3>7, <3>8
    <3>10. QED BY <2>3, <3>9
  <2>6. QED BY <2>4, <2>5
<1>5. Len(ms) \in 0..Len(ms)
  BY <1>2
<1>6. Good(Len(ms))
  BY <1>4, <1>5
<1>7. First(Len(ms)) = Elems(Ids(ms))
  BY <1>2 DEF Elems
<1>8. R[Len(ms)] \in Seq(Seq(Entry))
  BY <1>1, <1>5 DEF Grows
<1>9. QED
  <2> HIDE DEF First
  <2>1. QED BY <1>1, <1>6, <1>7, <1>8

-------------------------------------------------------------------------------
(* Lines and blocks                                                         *)

Line == [split : BOOLEAN, of : Seq(Int)]
Of(lines) == [k \in DOMAIN lines |-> lines[k].of]

LEMMA OfShape ==
    ASSUME NEW lines \in Seq(Line)
    PROVE  /\ Of(lines) \in Seq(Seq(Int)) /\ Len(Of(lines)) = Len(lines) /\ Len(lines) \in Nat
           /\ \A k \in 1..Len(lines) : Of(lines)[k] = lines[k].of
<1>1. Len(lines) \in Nat /\ DOMAIN lines = 1..Len(lines)
      /\ \A k \in 1..Len(lines) : lines[k] \in Line
  BY LenProperties, ElementOfSeq
<1>2. Of(lines) = [k \in 1..Len(lines) |-> lines[k].of]
  BY <1>1 DEF Of
<1>3. \A k \in 1..Len(lines) : lines[k].of \in Seq(Int)
  BY <1>1 DEF Line
<1>4. Of(lines) \in [1..Len(lines) -> Seq(Int)]
  BY <1>2, <1>3
<1>5. Of(lines) \in Seq(Seq(Int)) /\ Len(Of(lines)) = Len(lines)
  <2>1. PICK S, f, n : S = Seq(Int) /\ f = Of(lines) /\ n = Len(lines)
    OBVIOUS
  <2>2. n \in Nat /\ f \in [1..n -> S]
    BY <1>1, <1>4, <2>1
  <2>3. f \in Seq(S) /\ Len(f) = n
    BY <2>2, FunctionIsSeq
  <2>4. QED BY <2>1, <2>3
<1>6. QED BY <1>1, <1>2, <1>5

LEMMA OfConcat ==
    ASSUME NEW a \in Seq(Line), NEW b \in Seq(Line)
    PROVE  Of(a \o b) = Of(a) \o Of(b)
<1>1. /\ a \o b \in Seq(Line) /\ Len(a \o b) = Len(a) + Len(b)
      /\ Len(a) \in Nat /\ Len(b) \in Nat
      /\ \A i \in 1..Len(a) : (a \o b)[i] = a[i]
      /\ \A i \in 1..Len(a \o b) :
            i \in 1..Len(a) \/ (i - Len(a) \in 1..Len(b) /\ (a \o b)[i] = b[i - Len(a)])
  BY ConcatElements
<1>2. PICK x, y, p, q : x = Of(a \o b) /\ p = Of(a) /\ q = Of(b) /\ y = p \o q
  OBVIOUS
<1>3. /\ x \in Seq(Seq(Int)) /\ Len(x) = Len(a) + Len(b)
      /\ \A i \in 1..Len(a \o b) : x[i] = (a \o b)[i].of
  BY <1>1, <1>2, OfShape
<1>4. /\ p \in Seq(Seq(Int)) /\ Len(p) = Len(a) /\ \A i \in 1..Len(a) : p[i] = a[i].of
      /\ q \in Seq(Seq(Int)) /\ Len(q) = Len(b) /\ \A i \in 1..Len(b) : q[i] = b[i].of
  BY <1>2, OfShape
<1>5. /\ y \in Seq(Seq(Int)) /\ Len(y) = Len(p) + Len(q)
      /\ \A i \in 1..Len(p) : y[i] = p[i]
      /\ \A i \in 1..Len(y) :
            i \in 1..Len(p) \/ (i - Len(p) \in 1..Len(q) /\ y[i] = q[i - Len(p)])
  <2>1. p \in Seq(Seq(Int)) /\ q \in Seq(Seq(Int)) /\ y = p \o q
    BY <1>2, <1>4
  <2>2. QED BY <2>1, ConcatElements
<1>6. ASSUME NEW i \in 1..Len(x) PROVE x[i] = y[i]
  <2>1. i \in 1..Len(a \o b) /\ i \in 1..Len(y)
    BY <1>1, <1>3, <1>4, <1>5
  <2>2. CASE i \in 1..Len(a)
    BY <1>1, <1>3, <1>4, <1>5, <2>1, <2>2
  <2>3. CASE ~(i \in 1..Len(a))
    BY <1>1, <1>3, <1>4, <1>5, <2>1, <2>3
  <2>4. QED BY <2>2, <2>3
<1>7. x = y
  <2>1. Len(x) = Len(y)
    BY <1>3, <1>4, <1>5
  <2>2. QED BY <1>3, <1>5, <1>6, <2>1, SeqEqual
<1>8. QED BY <1>2, <1>7

LEMMA OfParts ==
    ASSUME NEW lines \in Seq(Line), NEW m \in 0..Len(lines)
    PROVE  /\ Of(SubSeq(lines, 1, m)) = SubSeq(Of(lines), 1, m)
           /\ Of(SubSeq(lines, m + 1, Len(lines))) = SubSeq(Of(lines), m + 1, Len(lines))
<1>1. /\ SubSeq(lines, 1, m) \in Seq(Line) /\ Len(SubSeq(lines, 1, m)) = m
      /\ \A i \in 1..m : SubSeq(lines, 1, m)[i] = lines[i]
      /\ SubSeq(lines, m + 1, Len(lines)) \in Seq(Line)
      /\ Len(SubSeq(lines, m + 1, Len(lines))) = Len(lines) - m
      /\ \A i \in 1..(Len(lines) - m) : SubSeq(lines, m + 1, Len(lines))[i] = lines[m + i]
  BY SplitAt
<1>2. PICK all, a, b : all = Of(lines) /\ a = SubSeq(lines, 1, m)
                       /\ b = SubSeq(lines, m + 1, Len(lines))
  OBVIOUS
<1>3. /\ all \in Seq(Seq(Int)) /\ Len(all) = Len(lines) /\ Len(lines) \in Nat
      /\ \A k \in 1..Len(lines) : all[k] = lines[k].of
  BY <1>2, OfShape
<1>4. PICK x, y : x = SubSeq(all, 1, m) /\ y = SubSeq(all, m + 1, Len(all))
  OBVIOUS
<1>5. /\ x \in Seq(Seq(Int)) /\ Len(x) = m /\ \A i \in 1..m : x[i] = all[i]
      /\ y \in Seq(Seq(Int)) /\ Len(y) = Len(all) - m
      /\ \A i \in 1..(Len(all) - m) : y[i] = all[m + i]
  <2>1. m \in 0..Len(all)
    BY <1>3
  <2>2. QED BY <1>3, <1>4, <2>1, SplitAt
<1>6. /\ a \in Seq(Line) /\ Len(a) = m /\ b \in Seq(Line) /\ Len(b) = Len(lines) - m
      /\ \A i \in 1..m : a[i] = lines[i]
      /\ \A i \in 1..(Len(lines) - m) : b[i] = lines[m + i]
  BY <1>1, <1>2
<1>7. /\ Of(a) \in Seq(Seq(Int)) /\ Len(Of(a)) = m /\ \A i \in 1..m : Of(a)[i] = a[i].of
  BY <1>6, OfShape
<1>8. /\ Of(b) \in Seq(Seq(Int)) /\ Len(Of(b)) = Len(lines) - m
      /\ \A i \in 1..(Len(lines) - m) : Of(b)[i] = b[i].of
  BY <1>6, OfShape
<1>9. Of(a) = x
  <2>1. ASSUME NEW i \in 1..m PROVE Of(a)[i] = x[i]
    <3>1. i \in 1..Len(lines)
      BY <1>3
    <3>2. x[i] = lines[i].of
      BY <1>3, <1>5, <3>1
    <3>3. Of(a)[i] = lines[i].of
      BY <1>6, <1>7
    <3>4. QED BY <3>2, <3>3
  <2>2. QED BY <1>5, <1>7, <2>1, SeqEqual
<1>10. Of(b) = y
  <2>1. ASSUME NEW i \in 1..(Len(lines) - m) PROVE Of(b)[i] = y[i]
    <3>1. m + i \in 1..Len(lines)
      BY <1>3
    <3>2. y[i] = lines[m + i].of
      BY <1>3, <1>5, <3>1
    <3>3. Of(b)[i] = lines[m + i].of
      <4>1. b[i] = lines[m + i]
        BY <1>6
      <4>2. Of(b)[i] = b[i].of
        BY <1>8
      <4>3. QED BY <4>1, <4>2
    <3>4. QED BY <3>2, <3>3
  <2>2. Len(y) = Len(lines) - m
    BY <1>3, <1>5
  <2>3. QED BY <1>5, <1>8, <2>1, <2>2, SeqEqual
<1>11. QED BY <1>2, <1>3, <1>4, <1>9, <1>10

\* What a filter leaves of the turns is spread as they are.
LEMMA ThoseSpread ==
    ASSUME NEW turns \in Seq(Seq(Entry)), Spread(Lined(turns)), NEW S
    PROVE  /\ Those(turns, S) \in Seq(Seq(Entry)) /\ Spread(Lined(Those(turns, S)))
           /\ Covers(Lined(Those(turns, S))) \subseteq Covers(Lined(turns))
           /\ \A k \in 1..Len(turns) : turns[k] \in S =>
                 Elems(Ids(turns[k])) \subseteq Covers(Lined(Those(turns, S)))
<1>1. PICK n, all, V : n = Len(turns) /\ all = Lined(turns) /\ V = Seq(Entry)
  OBVIOUS
<1>2. /\ n \in Nat /\ all \in Seq(Seq(Int)) /\ Len(all) = n /\ Spread(all)
      /\ \A i \in 1..n : all[i] = Ids(turns[i]) /\ turns[i] \in Seq(Entry)
  BY <1>1, LinedShape
<1>3. PICK R : Scans(turns, S, V, R) /\ Those(turns, S) = R[n]
  BY <1>1, ThoseScan
<1>4. /\ \A i \in 0..n : R[i] \in Seq(Seq(Entry))
      /\ R[0] = <<>>
      /\ \A i \in 1..n : R[i] = IF turns[i] \in S THEN Append(R[i - 1], turns[i]) ELSE R[i - 1]
  BY <1>1, <1>3 DEF Scans
<1> DEFINE First(i) == UNION {Elems(all[k]) : k \in 1..i}
           Has(i) == \A k \in 1..i : turns[k] \in S => Elems(all[k]) \subseteq Covers(Lined(R[i]))
           Good(i) == /\ Spread(Lined(R[i])) /\ Covers(Lined(R[i])) \subseteq First(i)
                      /\ Has(i)
           Bad == {i \in 0..n : ~Good(i)}
<1>5. Bad = {}
  <2>1. SUFFICES ASSUME Bad # {} PROVE FALSE
    OBVIOUS
  <2>2. Bad \in SUBSET Nat
    <3>1. Bad \subseteq 0..n
      OBVIOUS
    <3> HIDE DEF Bad
    <3>2. QED BY <1>2, <3>1
  <2>3. PICK i \in Bad : \A k \in Bad : i <= k
    <3> HIDE DEF Bad
    <3>1. QED BY <2>1, <2>2, LeastNatural
  <2>4. CASE i = 0
    <3>1. Lined(<<>>) = <<>>
      BY DEF Lined
    <3>2. Lined(R[0]) = <<>>
      BY <1>4, <3>1
    <3>3. Good(0)
      BY <3>2, SpreadEmpty
    <3>4. QED BY <2>3, <2>4, <3>3
  <2>5. CASE i # 0
    <3>1. i \in 1..n /\ i - 1 \in 0..n /\ i - 1 \notin Bad /\ 1..i = (1..(i - 1)) \cup {i}
      <4>1. i \in 0..n
        BY <2>3
      <4> HIDE DEF Bad
      <4>2. i \in 1..n /\ i - 1 \in 0..n /\ ~(i <= i - 1) /\ 1..i = (1..(i - 1)) \cup {i}
        BY <1>2, <2>5, <4>1
      <4>3. QED BY <2>3, <4>2
    <3>2. PICK told, turn : told = R[i - 1] /\ turn = turns[i]
      OBVIOUS
    <3>3. /\ told \in Seq(Seq(Entry)) /\ turn \in Seq(Entry)
          /\ Spread(Lined(told)) /\ Covers(Lined(told)) \subseteq First(i - 1)
          /\ \A k \in 1..(i - 1) : turns[k] \in S => Elems(all[k]) \subseteq Covers(Lined(told))
      BY <1>2, <1>4, <3>1, <3>2
    <3>4. First(i) = First(i - 1) \cup Elems(all[i])
      BY <3>1
    <3>5. CASE turn \notin S
      <4>1. R[i] = told
        BY <1>4, <3>1, <3>2, <3>5
      <4>2. Has(i)
        BY <3>1, <3>2, <3>3, <3>5, <4>1
      <4>3. Good(i)
        <5> HIDE DEF First, Has
        <5>1. QED BY <3>3, <3>4, <4>1, <4>2
      <4>4. QED BY <2>3, <4>3
    <3>6. CASE turn \in S
      <4>1. R[i] = Append(told, turn)
        BY <1>4, <3>1, <3>2, <3>6
      <4>2. PICK a, q : a = Lined(told) /\ q = Ids(turn)
        OBVIOUS
      <4>3. Lined(R[i]) = Append(a, q)
        BY <3>3, <4>1, <4>2, LinedAppend
      <4>4. q = all[i] /\ Rising(q)
        BY <1>2, <3>1, <3>2, <4>2 DEF Spread
      <4>5. Below(First(i - 1), Elems(q))
        <5>1. ASSUME NEW k \in 1..(i - 1) PROVE Below(Elems(all[k]), Elems(all[i]))
          <6>1. k \in 1..n /\ k < i
            BY <1>2, <3>1
          <6>2. QED BY <1>2, <3>1, <6>1 DEF Spread
        <5>2. QED BY <4>4, <5>1 DEF Below
      <4>6. Below(Covers(a), Elems(q)) /\ Covers(a) \subseteq First(i - 1)
        <5>1. Covers(a) \subseteq First(i - 1)
          BY <3>3, <4>2
        <5> HIDE DEF First
        <5>2. QED BY <4>5, <5>1 DEF Below
      <4>7. Spread(Append(a, q)) /\ Covers(Append(a, q)) = Covers(a) \cup Elems(q)
        BY <3>3, <4>2, <4>4, <4>6, SpreadAppend
      <4>8. Has(i)
        BY <3>1, <3>3, <4>2, <4>3, <4>4, <4>7
      <4>9. Good(i)
        <5> HIDE DEF First, Has
        <5>1. QED BY <3>4, <4>3, <4>4, <4>6, <4>7, <4>8
      <4>10. QED BY <2>3, <4>9
    <3>7. QED BY <3>5, <3>6
  <2>6. QED BY <2>4, <2>5
<1>6. n \in 0..n
  BY <1>2
<1>7. Good(n)
  BY <1>5, <1>6
<1>8. First(n) = Covers(all)
  BY <1>2 DEF Covers
<1>9. QED
  <2> HIDE DEF First
  <2>1. QED BY <1>1, <1>2, <1>3, <1>4, <1>6, <1>7, <1>8

LEMMA TurnLinesSpread ==
    ASSUME NEW ms \in Seq(Entry), Rising(Ids(ms)), NEW X, NEW split \in BOOLEAN
    PROVE  /\ TurnLines(ms, split) \in Seq(Line) /\ Spread(Of(TurnLines(ms, split)))
           /\ Covers(Of(TurnLines(ms, split))) \subseteq Elems(Ids(ms))
           /\ Headed(ms, X) => Elems(Ids(ms)) \subseteq Covers(Of(TurnLines(ms, split))) \cup X
<1> DEFINE turns == Turns(ms)
           tell == {turn \in ToSet(turns) : \E e \in ToSet(turn) : e.kind # "result"}
           told == Those(turns, tell)
           lines == [k \in DOMAIN told |-> [split |-> split, of |-> Ids(told[k])]]
<1>1. TurnLines(ms, split) = lines
  BY DEF TurnLines, Turns
<1>2. /\ turns \in Seq(Seq(Entry)) /\ Spread(Lined(turns))
      /\ Covers(Lined(turns)) = Elems(Ids(ms))
      /\ Headed(ms, X) => \A k \in 1..Len(turns) : Opened(turns[k], X)
  BY TurnsSpread
<1> HIDE DEF turns
<1>3. ASSUME Headed(ms, X), NEW k \in 1..Len(turns)
      PROVE  turns[k] \in tell \/ Elems(Ids(turns[k])) \subseteq X
  <2>1. Len(turns) \in Nat /\ DOMAIN turns = 1..Len(turns)
        /\ \A l \in 1..Len(turns) : turns[l] \in Seq(Entry)
    BY <1>2, LinedShape, LenProperties
  <2>2. turns[k] \in ToSet(turns)
    BY <2>1 DEF ToSet
  <2>3. PICK turn \in Seq(Entry) : turn = turns[k]
    BY <2>1
  <2>4. /\ DOMAIN turn = 1..Len(turn) /\ Opened(turn, X)
        /\ Len(Ids(turn)) = Len(turn)
        /\ \A j \in 1..Len(turn) : Ids(turn)[j] = turn[j].id
    BY <1>2, <1>3, <2>3, LenProperties, IdsShape
  <2>5. CASE \E j \in 1..Len(turn) : turn[j].kind # "result"
    <3>1. \E e \in ToSet(turn) : e.kind # "result"
      BY <2>4, <2>5 DEF ToSet
    <3>2. QED BY <2>2, <2>3, <3>1
  <2>6. CASE \A j \in 1..Len(turn) : Alone(turn[j], X)
    <3>1. Elems(Ids(turn)) \subseteq X
      BY <2>4, <2>6 DEF Elems, Alone
    <3>2. QED BY <2>3, <3>1
  <2>7. QED BY <2>4, <2>5, <2>6 DEF Opened
<1> HIDE DEF tell
<1>4. /\ told \in Seq(Seq(Entry)) /\ Spread(Lined(told))
      /\ Covers(Lined(told)) \subseteq Covers(Lined(turns))
      /\ \A k \in 1..Len(turns) : turns[k] \in tell =>
            Elems(Ids(turns[k])) \subseteq Covers(Lined(told))
  BY <1>2, ThoseSpread
<1> HIDE DEF told
<1>12. ASSUME Headed(ms, X) PROVE Covers(Lined(turns)) \subseteq Covers(Lined(told)) \cup X
  <2>1. /\ Len(Lined(turns)) = Len(turns)
        /\ \A k \in 1..Len(turns) : Lined(turns)[k] = Ids(turns[k])
    BY <1>2, LinedShape
  <2>2. ASSUME NEW k \in 1..Len(turns)
        PROVE  Elems(Lined(turns)[k]) \subseteq Covers(Lined(told)) \cup X
    BY <1>3, <1>4, <1>12, <2>1
  <2>3. ASSUME NEW x \in Covers(Lined(turns)) PROVE x \in Covers(Lined(told)) \cup X
    <3>1. PICK k \in 1..Len(turns) : x \in Elems(Lined(turns)[k])
      BY <2>1, <2>3 DEF Covers
    <3>2. QED BY <2>2, <3>1
  <2>4. QED BY <2>3
<1>5. /\ Lined(told) \in Seq(Seq(Int)) /\ Len(Lined(told)) = Len(told) /\ Len(told) \in Nat
      /\ DOMAIN told = 1..Len(told)
      /\ \A k \in 1..Len(told) : Lined(told)[k] = Ids(told[k])
  BY <1>4, LinedShape, LenProperties
<1>6. lines = [k \in 1..Len(told) |-> [split |-> split, of |-> Lined(told)[k]]]
  BY <1>5
<1>7. \A k \in 1..Len(told) : Lined(told)[k] \in Seq(Int)
  BY <1>5, ElementOfSeq
<1> HIDE DEF lines
<1>8. lines \in [1..Len(told) -> Line]
  BY <1>6, <1>7 DEF Line
<1>9. lines \in Seq(Line) /\ Len(lines) = Len(told)
  <2>1. PICK n : n = Len(told)
    OBVIOUS
  <2>2. QED BY <1>5, <1>8, <2>1, FunctionIsSeq
<1>10. Of(lines) = Lined(told)
  <2>1. /\ Of(lines) \in Seq(Seq(Int)) /\ Len(Of(lines)) = Len(lines)
        /\ \A k \in 1..Len(lines) : Of(lines)[k] = lines[k].of
    BY <1>9, OfShape
  <2>2. \A k \in 1..Len(told) : Of(lines)[k] = Lined(told)[k]
    BY <1>6, <1>9, <2>1
  <2>3. PICK a, b : a = Of(lines) /\ b = Lined(told)
    OBVIOUS
  <2>4. a = b
    BY <1>5, <1>9, <2>1, <2>2, <2>3, SeqEqual
  <2>5. QED BY <2>3, <2>4
<1>11. QED BY <1>1, <1>2, <1>4, <1>9, <1>10, <1>12

-------------------------------------------------------------------------------
(* The blocks of a digest                                                   *)

\* What the blocks of a summary tell, in order, and every id once.
Tolds(bs) == [k \in DOMAIN bs |-> Told(bs[k])]
Filed(bs) ==
    /\ bs \in Seq(Seq(Line)) /\ \A k \in 1..Len(bs) : Spread(Of(bs[k]))
    /\ Spread(Tolds(bs))
Records(bs) == Covers(Tolds(bs))

LEMMA ToldRises ==
    ASSUME NEW b \in Seq(Line), Spread(Of(b))
    PROVE  /\ Rising(Told(b)) /\ Elems(Told(b)) = Covers(Of(b)) /\ Told(b) \in Seq(Int)
<1>1. Told(b) = FlattenSeq(Of(b))
  BY DEF Told, Of
<1>2. Rising(FlattenSeq(Of(b))) /\ Elems(FlattenSeq(Of(b))) = Covers(Of(b))
  BY FlattenSpread
<1>3. QED BY <1>1, <1>2 DEF Rising

LEMMA ToldsShape ==
    ASSUME NEW bs \in Seq(Seq(Line)), \A k \in 1..Len(bs) : Spread(Of(bs[k]))
    PROVE  /\ Tolds(bs) \in Seq(Seq(Int)) /\ Len(Tolds(bs)) = Len(bs) /\ Len(bs) \in Nat
           /\ \A k \in 1..Len(bs) : Tolds(bs)[k] = Told(bs[k])
<1>1. Len(bs) \in Nat /\ DOMAIN bs = 1..Len(bs)
      /\ \A k \in 1..Len(bs) : bs[k] \in Seq(Line)
  BY LenProperties, ElementOfSeq
<1>2. Tolds(bs) = [k \in 1..Len(bs) |-> Told(bs[k])]
  BY <1>1 DEF Tolds
<1>3. \A k \in 1..Len(bs) : Told(bs[k]) \in Seq(Int)
  BY <1>1, ToldRises
<1>4. Tolds(bs) \in [1..Len(bs) -> Seq(Int)]
  BY <1>2, <1>3
<1>5. Tolds(bs) \in Seq(Seq(Int)) /\ Len(Tolds(bs)) = Len(bs)
  <2>1. PICK S, f, n : S = Seq(Int) /\ f = Tolds(bs) /\ n = Len(bs)
    OBVIOUS
  <2>2. n \in Nat /\ f \in [1..n -> S]
    BY <1>1, <1>4, <2>1
  <2>3. f \in Seq(S) /\ Len(f) = n
    BY <2>2, FunctionIsSeq
  <2>4. QED BY <2>1, <2>3
<1>6. QED BY <1>1, <1>2, <1>5

LEMMA FiledEmpty == Filed(<<>>) /\ Records(<<>>) = {}
<1>1. Tolds(<<>>) = <<>> /\ <<>> \in Seq(Seq(Line)) /\ Len(<<>>) = 0
  BY DEF Tolds
<1>2. QED BY <1>1, SpreadEmpty DEF Filed, Records

LEMMA FiledAppend ==
    ASSUME NEW bs, Filed(bs), NEW b \in Seq(Line), Spread(Of(b)),
           Below(Records(bs), Covers(Of(b)))
    PROVE  Filed(Append(bs, b)) /\ Records(Append(bs, b)) = Records(bs) \cup Covers(Of(b))
<1>1. bs \in Seq(Seq(Line)) /\ Spread(Tolds(bs)) /\ \A k \in 1..Len(bs) : Spread(Of(bs[k]))
  BY DEF Filed
<1>2. PICK longer : longer = Append(bs, b)
  OBVIOUS
<1>3. /\ longer \in Seq(Seq(Line)) /\ Len(longer) = Len(bs) + 1 /\ Len(bs) \in Nat
      /\ \A i \in 1..Len(bs) : longer[i] = bs[i]
      /\ longer[Len(bs) + 1] = b
      /\ \A i \in 1..Len(longer) : i \in 1..Len(bs) \/ i = Len(bs) + 1
  BY <1>1, <1>2, AppendElements
<1>4. \A k \in 1..Len(longer) : Spread(Of(longer[k]))
  BY <1>1, <1>3
<1>5. /\ Rising(Told(b)) /\ Elems(Told(b)) = Covers(Of(b)) /\ Told(b) \in Seq(Int)
  BY ToldRises
<1>6. PICK x, y, q, u : x = Tolds(longer) /\ y = Tolds(bs) /\ q = Told(b) /\ u = Append(y, q)
  OBVIOUS
<1>7. /\ x \in Seq(Seq(Int)) /\ Len(x) = Len(bs) + 1
      /\ \A k \in 1..Len(longer) : x[k] = Told(longer[k])
  BY <1>3, <1>4, <1>6, ToldsShape
<1>8. /\ y \in Seq(Seq(Int)) /\ Len(y) = Len(bs) /\ \A k \in 1..Len(bs) : y[k] = Told(bs[k])
  BY <1>1, <1>6, ToldsShape
<1>9. /\ u \in Seq(Seq(Int)) /\ Len(u) = Len(y) + 1
      /\ \A i \in 1..Len(y) : u[i] = y[i]
      /\ u[Len(y) + 1] = q
  <2>1. y \in Seq(Seq(Int)) /\ q \in Seq(Int)
    BY <1>5, <1>6, <1>8
  <2>2. QED BY <1>6, <2>1, AppendElements
<1>10. ASSUME NEW i \in 1..Len(x) PROVE x[i] = u[i]
  <2>1. i \in 1..Len(longer)
    BY <1>3, <1>7
  <2>2. x[i] = Told(longer[i])
    BY <1>7, <2>1
  <2>3. CASE i \in 1..Len(bs)
    <3>1. longer[i] = bs[i] /\ y[i] = Told(bs[i])
      BY <1>3, <1>8, <2>3
    <3>2. u[i] = y[i]
      BY <1>8, <1>9, <2>3
    <3>3. QED BY <2>2, <3>1, <3>2
  <2>4. CASE i = Len(bs) + 1
    BY <1>3, <1>6, <1>8, <1>9, <2>2, <2>4
  <2>5. QED BY <1>3, <2>1, <2>3, <2>4
<1>11. x = u
  <2>1. Len(x) = Len(u)
    BY <1>7, <1>8, <1>9
  <2>2. QED BY <1>7, <1>9, <1>10, <2>1, SeqEqual
<1>12. Spread(y) /\ Rising(q) /\ Below(Covers(y), Elems(q))
  BY <1>1, <1>5, <1>6 DEF Records
<1>13. Spread(u) /\ Covers(u) = Covers(y) \cup Elems(q)
  BY <1>6, <1>12, SpreadAppend
<1>14. QED BY <1>2, <1>3, <1>4, <1>5, <1>6, <1>11, <1>13 DEF Filed, Records

LEMMA FiledParts ==
    ASSUME NEW bs, Filed(bs), NEW m \in 0..Len(bs)
    PROVE  /\ Filed(SubSeq(bs, 1, m)) /\ Filed(SubSeq(bs, m + 1, Len(bs)))
           /\ Records(bs) = Records(SubSeq(bs, 1, m)) \cup Records(SubSeq(bs, m + 1, Len(bs)))
           /\ Below(Records(SubSeq(bs, 1, m)), Records(SubSeq(bs, m + 1, Len(bs))))
<1>1. bs \in Seq(Seq(Line)) /\ Spread(Tolds(bs)) /\ \A k \in 1..Len(bs) : Spread(Of(bs[k]))
  BY DEF Filed
<1>2. PICK a, b : a = SubSeq(bs, 1, m) /\ b = SubSeq(bs, m + 1, Len(bs))
  OBVIOUS
<1>3. /\ a \in Seq(Seq(Line)) /\ Len(a) = m /\ Len(bs) \in Nat
      /\ \A i \in 1..m : a[i] = bs[i]
      /\ b \in Seq(Seq(Line)) /\ Len(b) = Len(bs) - m
      /\ \A i \in 1..(Len(bs) - m) : b[i] = bs[m + i]
  BY <1>1, <1>2, SplitAt
<1>4. \A i \in 1..m : i \in 1..Len(bs)
  BY <1>3
<1>5. \A i \in 1..(Len(bs) - m) : m + i \in 1..Len(bs)
  BY <1>3
<1>6. \A k \in 1..Len(a) : Spread(Of(a[k]))
  BY <1>1, <1>3, <1>4
<1>7. \A k \in 1..Len(b) : Spread(Of(b[k]))
  BY <1>1, <1>3, <1>5
<1>8. PICK t, ta, tb : t = Tolds(bs) /\ ta = Tolds(a) /\ tb = Tolds(b)
  OBVIOUS
<1>9. /\ t \in Seq(Seq(Int)) /\ Len(t) = Len(bs) /\ \A k \in 1..Len(bs) : t[k] = Told(bs[k])
  BY <1>1, <1>8, ToldsShape
<1>10. /\ ta \in Seq(Seq(Int)) /\ Len(ta) = m /\ \A k \in 1..m : ta[k] = Told(a[k])
  BY <1>3, <1>6, <1>8, ToldsShape
<1>11. /\ tb \in Seq(Seq(Int)) /\ Len(tb) = Len(bs) - m
       /\ \A k \in 1..(Len(bs) - m) : tb[k] = Told(b[k])
  BY <1>3, <1>7, <1>8, ToldsShape
<1>12. PICK x, y : x = SubSeq(t, 1, m) /\ y = SubSeq(t, m + 1, Len(t))
  OBVIOUS
<1>13. /\ x \in Seq(Seq(Int)) /\ Len(x) = m /\ \A i \in 1..m : x[i] = t[i]
       /\ y \in Seq(Seq(Int)) /\ Len(y) = Len(t) - m
       /\ \A i \in 1..(Len(t) - m) : y[i] = t[m + i]
  <2>1. m \in 0..Len(t)
    BY <1>9
  <2>2. QED BY <1>9, <1>12, <2>1, SplitAt
<1>14. ta = x
  <2>1. ASSUME NEW i \in 1..m PROVE ta[i] = x[i]
    <3>1. i \in 1..Len(bs)
      BY <1>4
    <3>2. x[i] = Told(bs[i])
      BY <1>9, <1>13, <3>1
    <3>3. ta[i] = Told(a[i]) /\ a[i] = bs[i]
      BY <1>3, <1>10
    <3>4. QED BY <3>2, <3>3
  <2>2. QED BY <1>10, <1>13, <2>1, SeqEqual
<1>15. tb = y
  <2>1. ASSUME NEW i \in 1..(Len(bs) - m) PROVE tb[i] = y[i]
    <3>1. m + i \in 1..Len(bs)
      BY <1>5
    <3>2. y[i] = t[m + i]
      BY <1>9, <1>13
    <3>3. t[m + i] = Told(bs[m + i])
      BY <1>9, <3>1
    <3>4. b[i] = bs[m + i]
      BY <1>3
    <3>5. tb[i] = Told(b[i])
      BY <1>11
    <3>6. QED BY <3>2, <3>3, <3>4, <3>5
  <2>2. Len(y) = Len(bs) - m
    BY <1>9, <1>13
  <2>3. QED BY <1>11, <1>13, <2>1, <2>2, SeqEqual
<1>16. /\ Spread(x) /\ Spread(y) /\ Covers(t) = Covers(x) \cup Covers(y)
       /\ Below(Covers(x), Covers(y))
  <2>1. m \in 0..Len(t) /\ Spread(t)
    BY <1>1, <1>8, <1>9
  <2>2. QED BY <1>12, <2>1, SpreadParts
<1>17. QED BY <1>2, <1>3, <1>6, <1>7, <1>8, <1>14, <1>15, <1>16 DEF Filed, Records

LEMMA ToldByFiled ==
    ASSUME NEW bs, Filed(bs)
    PROVE  Rising(ToldBy(bs)) /\ Elems(ToldBy(bs)) = Records(bs)
<1>1. ToldBy(bs) = FlattenSeq(Tolds(bs))
  BY DEF ToldBy, Tolds
<1>2. Spread(Tolds(bs))
  BY DEF Filed
<1>3. QED BY <1>1, <1>2, FlattenSpread DEF Records

\* The lines of a block that are shown, and those that are not.
LEMMA LinesParts ==
    ASSUME NEW lines \in Seq(Line), Spread(Of(lines)), NEW m \in 0..Len(lines)
    PROVE  /\ SubSeq(lines, 1, m) \in Seq(Line) /\ Spread(Of(SubSeq(lines, 1, m)))
           /\ SubSeq(lines, m + 1, Len(lines)) \in Seq(Line)
           /\ Spread(Of(SubSeq(lines, m + 1, Len(lines))))
           /\ Covers(Of(lines)) = Covers(Of(SubSeq(lines, 1, m)))
                                    \cup Covers(Of(SubSeq(lines, m + 1, Len(lines))))
           /\ Below(Covers(Of(SubSeq(lines, 1, m))), Covers(Of(SubSeq(lines, m + 1, Len(lines)))))
<1>1. /\ SubSeq(lines, 1, m) \in Seq(Line) /\ SubSeq(lines, m + 1, Len(lines)) \in Seq(Line)
  BY SplitAt
<1>2. /\ Of(SubSeq(lines, 1, m)) = SubSeq(Of(lines), 1, m)
      /\ Of(SubSeq(lines, m + 1, Len(lines))) = SubSeq(Of(lines), m + 1, Len(lines))
  BY OfParts
<1>3. Len(Of(lines)) = Len(lines)
  BY OfShape
<1>4. PICK s : s = Of(lines)
  OBVIOUS
<1>5. Spread(s) /\ m \in 0..Len(s) /\ Len(s) = Len(lines)
  BY <1>3, <1>4
<1>6. /\ Spread(SubSeq(s, 1, m)) /\ Spread(SubSeq(s, m + 1, Len(s)))
      /\ Covers(s) = Covers(SubSeq(s, 1, m)) \cup Covers(SubSeq(s, m + 1, Len(s)))
      /\ Below(Covers(SubSeq(s, 1, m)), Covers(SubSeq(s, m + 1, Len(s))))
  BY <1>5, SpreadParts
<1>7. QED BY <1>1, <1>2, <1>3, <1>4, <1>6

-------------------------------------------------------------------------------
(* What Summarise files and what it counts                                  *)

LEMMA BelowDisjoint ==
    ASSUME NEW A \in SUBSET Int, NEW B \in SUBSET Int, Below(A, B)
    PROVE  A \cap B = {}
<1>1. ASSUME NEW x \in A, x \in B PROVE FALSE
  <2>1. x < x /\ x \in Int
    BY <1>1 DEF Below
  <2>2. QED BY <2>1
<1>2. QED BY <1>1

LEMMA CoversIds ==
    ASSUME NEW tt, Spread(tt)
    PROVE  Covers(tt) \in SUBSET Int
<1>1. ASSUME NEW k \in 1..Len(tt) PROVE Elems(tt[k]) \subseteq Int
  <2>1. tt[k] \in Seq(Int)
    BY DEF Spread, Rising
  <2>2. \A i \in 1..Len(tt[k]) : tt[k][i] \in Int
    BY <2>1, ElementOfSeq
  <2>3. QED BY <2>2 DEF Elems
<1>2. QED BY <1>1 DEF Covers

LEMMA SetOfElems ==
    ASSUME NEW S, NEW q \in Seq(S)
    PROVE  ToSet(q) = Elems(q)
<1>1. DOMAIN q = 1..Len(q)
  BY LenProperties
<1>2. QED BY <1>1 DEF ToSet, Elems

\* How many of a block's lines are shown, and of the blocks are dropped.
LEMMA ShownCount ==
    ASSUME NEW lines \in Seq(Line)
    PROVE  \E m \in 0..Len(lines) :
              /\ Shown(lines) = SubSeq(lines, 1, m) /\ Len(Shown(lines)) = m
              /\ m <= MaxTurns /\ (lines # <<>> => m > 0)
<1> DEFINE S == {MaxTurns, Len(lines)}
           m == Min(S)
<1>1. Len(lines) \in Nat /\ MaxTurns \in Nat /\ MaxTurns > 0 /\ (lines # <<>> => Len(lines) > 0)
  BY LenProperties, EmptySeq, KeptWindowAssumption
<1>2. S \in SUBSET Nat /\ S # {}
  BY <1>1
<1>3. Shown(lines) = SubSeq(lines, 1, m)
  BY DEF Shown
<1>4. m \in S /\ \A x \in S : m <= x
  <2> HIDE DEF S
  <2>1. QED BY <1>2, LeastIndex
<1>5. m \in {MaxTurns, Len(lines)} /\ m <= MaxTurns /\ m <= Len(lines)
  BY <1>4
<1> HIDE DEF m
<1>6. m \in 0..Len(lines) /\ (lines # <<>> => m > 0)
  BY <1>1, <1>5
<1>7. Len(SubSeq(lines, 1, m)) = m
  BY <1>6, SplitAt
<1>8. QED BY <1>3, <1>5, <1>6, <1>7

LEMMA SurplusCount ==
    ASSUME NEW S, NEW bs \in Seq(S)
    PROVE  LET n == Surplus(bs) IN
           /\ n \in 0..Len(bs)
           /\ \/ n + 1 >= Len(bs)
              \/ /\ Len(bs) - n <= MaxBlocks
                 /\ LineCount(SubSeq(bs, n + 1, Len(bs))) <= MaxRegion
<1> DEFINE Fits(n) == \/ n + 1 >= Len(bs)
                      \/ /\ Len(bs) - n <= MaxBlocks
                         /\ LineCount(SubSeq(bs, n + 1, Len(bs))) <= MaxRegion
           N == {n \in 0..Len(bs) : Fits(n)}
<1>1. Len(bs) \in Nat
  BY LenProperties
<1>2. Len(bs) \in N
  BY <1>1
<1>3. N \subseteq 0..Len(bs)
  OBVIOUS
<1>4. Surplus(bs) = Min(N)
  BY DEF Surplus
<1>5. Min(N) \in N
  <2> HIDE DEF N
  <2>1. N \in SUBSET Nat /\ N # {}
    BY <1>1, <1>2, <1>3
  <2>2. QED BY <2>1, LeastIndex
<1>6. QED BY <1>4, <1>5

\* A proposal whose lines tell the ids of G, in order; only of those in X some may miss.
Digests(p, G, X) ==
    /\ Build(p) \in Seq(Line) /\ Spread(Of(Build(p)))
    /\ Covers(Of(Build(p))) \subseteq G /\ G \subseteq Covers(Of(Build(p))) \cup X

\* The counts of the blocks, kept or shifted.
LEMMA UnionAppend ==
    ASSUME NEW ms \in Seq(SUBSET Int), NEW m \in SUBSET Int
    PROVE  /\ Append(ms, m) \in Seq(SUBSET Int) /\ Len(Append(ms, m)) = Len(ms) + 1
           /\ UNION ToSet(Append(ms, m)) = (UNION ToSet(ms)) \cup m
<1>1. PICK longer : longer = Append(ms, m)
  OBVIOUS
<1>2. /\ longer \in Seq(SUBSET Int) /\ Len(longer) = Len(ms) + 1 /\ Len(ms) \in Nat
      /\ \A i \in 1..Len(ms) : longer[i] = ms[i]
      /\ longer[Len(ms) + 1] = m
      /\ \A i \in 1..Len(longer) : i \in 1..Len(ms) \/ i = Len(ms) + 1
  BY <1>1, AppendElements
<1>3. Elems(longer) = Elems(ms) \cup {m}
  BY <1>2 DEF Elems
<1>4. ToSet(longer) = Elems(longer) /\ ToSet(ms) = Elems(ms)
  BY <1>2, SetOfElems
<1>5. UNION (Elems(ms) \cup {m}) = (UNION Elems(ms)) \cup m
  <2>1. PICK S : S = Elems(ms)
    OBVIOUS
  <2>2. UNION (S \cup {m}) = (UNION S) \cup m
    OBVIOUS
  <2>3. QED BY <2>1, <2>2
<1>6. QED BY <1>1, <1>2, <1>3, <1>4, <1>5

LEMMA UnionParts ==
    ASSUME NEW ms \in Seq(SUBSET Int), NEW n \in 0..Len(ms)
    PROVE  /\ SubSeq(ms, n + 1, Len(ms)) \in Seq(SUBSET Int)
           /\ Len(SubSeq(ms, n + 1, Len(ms))) = Len(ms) - n
           /\ UNION ToSet(ms) = (UNION ToSet(SubSeq(ms, 1, n)))
                                  \cup (UNION ToSet(SubSeq(ms, n + 1, Len(ms))))
<1>1. PICK a, b : a = SubSeq(ms, 1, n) /\ b = SubSeq(ms, n + 1, Len(ms))
  OBVIOUS
<1>2. /\ a \in Seq(SUBSET Int) /\ Len(a) = n /\ \A i \in 1..n : a[i] = ms[i]
      /\ b \in Seq(SUBSET Int) /\ Len(b) = Len(ms) - n
      /\ \A i \in 1..(Len(ms) - n) : b[i] = ms[n + i]
      /\ Len(ms) \in Nat
  BY <1>1, SplitAt, LenProperties
<1>3. ASSUME NEW x \in Elems(ms) PROVE x \in Elems(a) \cup Elems(b)
  <2>1. PICK i \in 1..Len(ms) : x = ms[i]
    BY <1>3 DEF Elems
  <2>2. CASE i <= n
    <3>1. i \in 1..n
      BY <2>2
    <3>2. QED BY <1>2, <2>1, <3>1 DEF Elems
  <2>3. CASE ~(i <= n)
    <3>1. PICK y : y = i - n
      OBVIOUS
    <3>2. y \in 1..(Len(ms) - n) /\ n + y = i
      BY <1>2, <2>3, <3>1
    <3>3. QED BY <1>2, <2>1, <3>2 DEF Elems
  <2>4. QED BY <2>2, <2>3
<1>4. ASSUME NEW x \in Elems(a) \cup Elems(b) PROVE x \in Elems(ms)
  <2>1. CASE x \in Elems(a)
    <3>1. PICK i \in 1..n : x = ms[i]
      BY <1>2, <2>1 DEF Elems
    <3>2. i \in 1..Len(ms)
      BY <1>2
    <3>3. QED BY <3>1, <3>2 DEF Elems
  <2>2. CASE x \in Elems(b)
    <3>1. PICK i \in 1..Len(b) : x = b[i]
      BY <2>2 DEF Elems
    <3>4. i \in 1..(Len(ms) - n) /\ x = ms[n + i]
      BY <1>2, <3>1
    <3>2. n + i \in 1..Len(ms)
      BY <1>2, <3>4
    <3>3. QED BY <3>2, <3>4 DEF Elems
  <2>3. QED BY <1>4, <2>1, <2>2
<1>5. ToSet(ms) = Elems(ms) /\ ToSet(a) = Elems(a) /\ ToSet(b) = Elems(b)
  BY <1>2, SetOfElems
<1>6. Elems(ms) = Elems(a) \cup Elems(b)
  BY <1>3, <1>4
<1>7. UNION (Elems(a) \cup Elems(b)) = (UNION Elems(a)) \cup (UNION Elems(b))
  <2>1. PICK S, T : S = Elems(a) /\ T = Elems(b)
    OBVIOUS
  <2>2. UNION (S \cup T) = (UNION S) \cup (UNION T)
    OBVIOUS
  <2>3. QED BY <2>1, <2>2
<1>8. QED BY <1>1, <1>2, <1>5, <1>6, <1>7

\* compose as one case: the block and its count are appended, or nothing is.
Composed(lines, rest, bs, ms, n) ==
    /\ bs = IF lines = <<>> THEN blocks ELSE Append(blocks, Shown(lines))
    /\ ms = IF lines = <<>> THEN elided ELSE Append(elided, ToSet(Told(rest)))
    /\ n = Surplus(bs)
    /\ blocks' = SubSeq(bs, n + 1, Len(bs)) /\ elided' = SubSeq(ms, n + 1, Len(ms))
    /\ shed' = ToSet(ToldBy(SubSeq(bs, 1, n))) \cup UNION ToSet(SubSeq(ms, 1, n))
    /\ forgotten' = forgotten \cup shed /\ lossy' = lossy

LEMMA ComposeIsComposed ==
    ASSUME blocks \in Seq(Seq(Line)), elided \in Seq(SUBSET Int),
           NEW lines \in Seq(Line), Compose(lines),
           NEW rest, rest = SubSeq(lines, Len(Shown(lines)) + 1, Len(lines)),
           ToSet(Told(rest)) \in SUBSET Int
    PROVE  \E bs, ms, n : Composed(lines, rest, bs, ms, n)
<1>1. PICK b, m : b = Shown(lines) /\ m = ToSet(Told(rest))
  OBVIOUS
<1>2. b \in Seq(Line) /\ m \in SUBSET Int
  <2>1. PICK l \in 0..Len(lines) : b = SubSeq(lines, 1, l)
    BY <1>1, ShownCount
  <2>2. QED BY <1>1, <2>1, SplitAt
<1>3. PICK new, counts :
        /\ new = (IF lines = <<>> THEN <<>> ELSE <<b>>)
        /\ counts = [k \in DOMAIN new |-> m]
        /\ blocks' = SubSeq(blocks \o new, Surplus(blocks \o new) + 1, Len(blocks \o new))
        /\ elided' = SubSeq(elided \o counts, Surplus(blocks \o new) + 1, Len(elided \o counts))
        /\ shed' = ToSet(ToldBy(SubSeq(blocks \o new, 1, Surplus(blocks \o new))))
                     \cup UNION ToSet(SubSeq(elided \o counts, 1, Surplus(blocks \o new)))
        /\ forgotten' = forgotten \cup shed /\ lossy' = lossy
  BY <1>1 DEF Compose
<1>4. blocks \o new = IF lines = <<>> THEN blocks ELSE Append(blocks, b)
  <2>1. CASE lines = <<>>
    <3>1. new = <<>>
      BY <1>3, <2>1
    <3>2. blocks \o <<>> = blocks
      BY ConcatEmptySeq
    <3>3. QED BY <2>1, <3>1, <3>2
  <2>2. CASE lines # <<>>
    <3>1. new = <<b>>
      BY <1>3, <2>2
    <3>2. blocks \o <<b>> = Append(blocks, b)
      BY AppendIsConcat
    <3>3. QED BY <2>2, <3>1, <3>2
  <2>3. QED BY <2>1, <2>2
<1>5. elided \o counts = IF lines = <<>> THEN elided ELSE Append(elided, m)
  <2>1. CASE lines = <<>>
    <3>1. counts = <<>>
      BY <1>3, <2>1
    <3>2. elided \o <<>> = elided
      BY ConcatEmptySeq
    <3>3. QED BY <2>1, <3>1, <3>2
  <2>2. CASE lines # <<>>
    <3>1. counts = <<m>>
      BY <1>3, <2>2
    <3>2. elided \o <<m>> = Append(elided, m)
      BY <1>2, AppendIsConcat
    <3>3. QED BY <2>2, <3>1, <3>2
  <2>3. QED BY <2>1, <2>2
<1>6. PICK bs, ms, n : bs = blocks \o new /\ ms = elided \o counts /\ n = Surplus(bs)
  OBVIOUS
<1>7. Composed(lines, rest, bs, ms, n)
  BY <1>1, <1>3, <1>4, <1>5, <1>6 DEF Composed
<1>8. QED BY <1>7

\* Of the ids in the digest and in G some are filed and others counted as omitted; only of
\* those in X some may be neither.
Divided(G, X) ==
    /\ Filed(blocks') /\ lossy' = lossy
    /\ elided' \in Seq(SUBSET Int) /\ Len(elided') = Len(blocks')
    /\ \E O : /\ Omitted' = Omitted \cup O /\ O \cap Records(blocks') = {}
              /\ O \cup Records(blocks') \subseteq Records(blocks) \cup G
              /\ Records(blocks) \cup G \subseteq O \cup Records(blocks') \cup X

\* The new block files behind the old ones; what is dropped of it and of them is counted,
\* and what was counted stays so or is forgotten.
LEMMA ComposeFiles ==
    ASSUME Filed(blocks), elided \in Seq(SUBSET Int), Len(elided) = Len(blocks),
           NEW X, NEW p, NEW G, Digests(p, G, X), Below(Records(blocks), G),
           Compose(Build(p))
    PROVE  Divided(G, X)
<1>1. PICK lines, T, rest :
        /\ lines = Build(p) /\ T = Covers(Of(lines))
        /\ rest = SubSeq(lines, Len(Shown(lines)) + 1, Len(lines))
  OBVIOUS
<1>2. /\ lines \in Seq(Line) /\ Spread(Of(lines)) /\ Covers(Of(lines)) = T
      /\ T \subseteq G /\ G \subseteq T \cup X
  BY <1>1 DEF Digests
<1>3. blocks \in Seq(Seq(Line)) /\ Compose(lines)
  BY <1>1 DEF Filed
<1>4. PICK m \in 0..Len(lines) :
          /\ Shown(lines) = SubSeq(lines, 1, m) /\ Len(Shown(lines)) = m
          /\ m <= MaxTurns /\ (lines # <<>> => m > 0)
  BY <1>2, ShownCount
<1> DEFINE shown == SubSeq(lines, 1, m)
           R == Covers(Of(shown))
           Q == Covers(Of(rest))
<1>5. rest = SubSeq(lines, m + 1, Len(lines))
  BY <1>1, <1>4
<1>6. /\ shown \in Seq(Line) /\ Spread(Of(shown)) /\ rest \in Seq(Line) /\ Spread(Of(rest))
      /\ T = R \cup Q /\ Below(R, Q)
  BY <1>2, <1>5, LinesParts
<1>7. Below(Records(blocks), R) /\ Below(Records(blocks), Q)
  <2>1. R \subseteq G /\ Q \subseteq G
    <3> HIDE DEF R, Q
    <3>1. QED BY <1>2, <1>6
  <2> HIDE DEF R, Q
  <2>2. QED BY <2>1 DEF Below
<1> HIDE DEF shown
<1>8. ToSet(Told(rest)) = Q /\ Q \in SUBSET Int
  <2>1. Told(rest) \in Seq(Int) /\ Elems(Told(rest)) = Q
    BY <1>6, ToldRises DEF Q
  <2>2. ToSet(Told(rest)) = Elems(Told(rest))
    BY <2>1, SetOfElems
  <2>3. Q \in SUBSET Int
    BY <1>6, CoversIds DEF Q
  <2>4. QED BY <2>1, <2>2, <2>3
<1>9. PICK bs, ms, n : Composed(lines, rest, bs, ms, n)
  <2> HIDE DEF Q
  <2>1. QED BY <1>1, <1>2, <1>3, <1>8, ComposeIsComposed
<1> DEFINE gone == SubSeq(bs, 1, n)
           kept == SubSeq(bs, n + 1, Len(bs))
           away == UNION ToSet(SubSeq(ms, 1, n))
           still == UNION ToSet(SubSeq(ms, n + 1, Len(ms)))
<1>10. /\ blocks' = kept /\ lossy' = lossy /\ elided' = SubSeq(ms, n + 1, Len(ms))
       /\ shed' = ToSet(ToldBy(gone)) \cup away /\ forgotten' = forgotten \cup shed
       /\ n = Surplus(bs)
  BY <1>9 DEF Composed
<1>11. Filed(bs) /\ Records(bs) = Records(blocks) \cup (IF lines = <<>> THEN {} ELSE R)
  <2>1. CASE lines = <<>>
    BY <1>9, <2>1 DEF Composed
  <2>2. CASE lines # <<>>
    <3>1. bs = Append(blocks, shown)
      BY <1>4, <1>9, <2>2 DEF shown, Composed
    <3>2. Filed(Append(blocks, shown)) /\ Records(Append(blocks, shown)) = Records(blocks) \cup R
      BY <1>6, <1>7, FiledAppend
    <3>3. QED BY <2>2, <3>1, <3>2
  <2>3. QED BY <2>1, <2>2
<1>12. lines = <<>> => R = {} /\ Q = {}
  <2>1. SUFFICES ASSUME lines = <<>> PROVE T = {}
    BY <1>6
  <2>2. Of(<<>>) = <<>>
    BY DEF Of
  <2>3. QED BY <1>2, <2>1, <2>2, SpreadEmpty
<1>13. Records(bs) = Records(blocks) \cup R
  <2> HIDE DEF R
  <2>1. QED BY <1>11, <1>12
<1>14. /\ ms \in Seq(SUBSET Int) /\ Len(ms) = Len(bs)
       /\ UNION ToSet(ms) = (UNION ToSet(elided)) \cup Q
  <2> HIDE DEF Q
  <2>1. CASE lines = <<>>
    BY <1>9, <1>12, <2>1 DEF Composed
  <2>2. CASE lines # <<>>
    <3>1. ms = Append(elided, Q) /\ bs = Append(blocks, shown)
      BY <1>4, <1>8, <1>9, <2>2 DEF Composed, shown
    <3>2. Len(bs) = Len(blocks) + 1
      BY <1>3, <1>6, <3>1, AppendElements
    <3>3. /\ Append(elided, Q) \in Seq(SUBSET Int) /\ Len(Append(elided, Q)) = Len(elided) + 1
          /\ UNION ToSet(Append(elided, Q)) = (UNION ToSet(elided)) \cup Q
      BY <1>8, UnionAppend
    <3>4. QED BY <3>1, <3>2, <3>3
  <2>3. QED BY <2>1, <2>2
<1>15. n \in 0..Len(bs)
  <2>1. bs \in Seq(Seq(Line))
    BY <1>11 DEF Filed
  <2>2. QED BY <1>10, <2>1, SurplusCount
<1>16. /\ Filed(gone) /\ Filed(kept) /\ Records(bs) = Records(gone) \cup Records(kept)
       /\ Below(Records(gone), Records(kept))
  BY <1>11, <1>15, FiledParts
<1>17. /\ elided' \in Seq(SUBSET Int) /\ Len(elided') = Len(ms) - n
       /\ UNION ToSet(ms) = away \cup still
  BY <1>10, <1>14, <1>15, UnionParts
<1>18. Len(kept) = Len(bs) - n
  <2>1. bs \in Seq(Seq(Line))
    BY <1>11 DEF Filed
  <2>2. QED BY <1>15, <2>1, SplitAt
<1>19. ToSet(ToldBy(gone)) = Records(gone)
  <2> HIDE DEF gone
  <2>1. ToldBy(gone) \in Seq(Int) /\ Elems(ToldBy(gone)) = Records(gone)
    BY <1>16, ToldByFiled DEF Rising
  <2>2. QED BY <2>1, SetOfElems
<1> HIDE DEF R, Q, gone, kept, away
<1>20. Omitted' = Omitted \cup (Q \cup Records(gone))
  <2>1. UNION ToSet(elided') = still
    BY <1>10
  <2>5. forgotten' = forgotten \cup shed /\ shed' = ToSet(ToldBy(gone)) \cup away
        /\ (UNION ToSet(elided)) \cup Q = away \cup still
    BY <1>10, <1>14, <1>17
  <2> HIDE DEF still
  <2>2. Omitted' = shed' \cup (UNION ToSet(elided')) \cup forgotten'
    BY DEF Omitted, Counted
  <2>3. Omitted = shed \cup (UNION ToSet(elided)) \cup forgotten
    BY DEF Omitted, Counted
  <2>4. QED BY ONLY <1>19, <2>1, <2>2, <2>3, <2>5
<1>21. (Q \cup Records(gone)) \cap Records(kept) = {}
  <2>1. /\ Q \in SUBSET Int /\ R \in SUBSET Int /\ Records(blocks) \in SUBSET Int
        /\ Records(gone) \in SUBSET Int /\ Records(kept) \in SUBSET Int
    BY <1>6, <1>16, CoversIds DEF Filed, Records, Q, R
  <2>2. Records(gone) \cap Records(kept) = {}
    BY <1>16, <2>1, BelowDisjoint
  <2>3. Records(blocks) \cap Q = {}
    BY <1>7, <2>1, BelowDisjoint
  <2>4. R \cap Q = {}
    BY <1>6, <2>1, BelowDisjoint
  <2>5. Records(kept) \subseteq Records(blocks) \cup R
    BY <1>13, <1>16
  <2>6. QED BY <2>2, <2>3, <2>4, <2>5
<1>22. /\ Q \cup Records(gone) \cup Records(kept) \subseteq Records(blocks) \cup G
       /\ Records(blocks) \cup G \subseteq Q \cup Records(gone) \cup Records(kept) \cup X
  <2>1. Q \cup Records(gone) \cup Records(kept) = Records(blocks) \cup T
    BY <1>6, <1>13, <1>16
  <2>2. QED BY <1>2, <2>1
<1>23. Len(elided') = Len(blocks')
  BY <1>10, <1>14, <1>17, <1>18
<1>24. QED BY <1>10, <1>16, <1>17, <1>20, <1>21, <1>22, <1>23 DEF Divided

\* A summary without a digest forgets every count.
LEMMA NoDigestForgets ==
    ASSUME NoDigest
    PROVE  blocks' = <<>> /\ elided' = <<>> /\ lossy' = TRUE /\ Omitted' = Omitted
<1>1. /\ blocks' = <<>> /\ elided' = <<>> /\ shed' = {} /\ lossy' = TRUE
      /\ forgotten' = forgotten \cup Counted
  BY DEF NoDigest
<1>2. UNION ToSet(<<>>) = {}
  BY DEF ToSet
<1>3. Omitted' = shed' \cup (UNION ToSet(elided')) \cup forgotten'
  BY DEF Omitted, Counted
<1>4. Omitted' = forgotten \cup Counted
  BY <1>1, <1>2, <1>3
<1>5. QED BY <1>1, <1>4 DEF Omitted

-------------------------------------------------------------------------------
(* Messages of a part of the context                                        *)

\* The ids of the messages from entry i up to entry j, and a sequence of these messages.
IdsIn(es, i, j) == {es[x].id : x \in {y \in i..(j - 1) : IsMessage(es[y])}}
Ascends(es) ==
    \A i, j \in 1..Len(es) :
        i < j /\ IsMessage(es[i]) /\ IsMessage(es[j]) => es[i].id < es[j].id
Tells(es, ms, i, j) ==
    /\ ms \in Seq(Entry) /\ Rising(Ids(ms)) /\ Elems(Ids(ms)) = IdsIn(es, i, j)
    /\ \A k \in 1..Len(ms) : \E x \in i..(j - 1) : ms[k] = es[x] /\ IsMessage(es[x])

LEMMA Slice ==
    ASSUME NEW es \in Seq(Entry), NEW i \in 1..(Len(es) + 1), NEW j \in i..(Len(es) + 1)
    PROVE  /\ SubSeq(es, i, j - 1) \in Seq(Entry) /\ Len(es) \in Nat
           /\ Len(SubSeq(es, i, j - 1)) = j - i
           /\ \A x \in 1..(j - i) : SubSeq(es, i, j - 1)[x] = es[i + x - 1]
<1>1. Len(es) \in Nat
  BY LenProperties
<1>2. \A x \in i..(j - 1) : x \in 1..Len(es)
  BY <1>1
<1>3. \A x \in i..(j - 1) : es[x] \in Entry
  BY <1>2, ElementOfSeq
<1>4. PICK m : m = j - 1
  OBVIOUS
<1>5. i \in Nat /\ i > 0 /\ m \in Nat /\ j = m + 1 /\ m <= Len(es) /\ i <= m + 1
  BY <1>1, <1>4
<1>6. /\ SubSeq(es, i, m) \in Seq(Entry)
      /\ Len(SubSeq(es, i, m)) = IF i <= m THEN m - i + 1 ELSE 0
      /\ \A x \in 1..(m - i + 1) : SubSeq(es, i, m)[x] = es[i + x - 1]
  BY <1>1, <1>5, SubSeqProperties
<1>7. m - i + 1 = j - i /\ (IF i <= m THEN m - i + 1 ELSE 0) = j - i
  BY <1>5
<1>8. QED BY <1>1, <1>4, <1>6, <1>7

\* What the filter keeps of a slice, when it keeps the messages and no other entry.
LEMMA ThoseOfSlice ==
    ASSUME NEW es \in Seq(Entry), Ascends(es),
           NEW i \in 1..(Len(es) + 1), NEW j \in i..(Len(es) + 1),
           NEW S, \A x \in i..(j - 1) : es[x] \in S <=> IsMessage(es[x])
    PROVE  Tells(es, Those(SubSeq(es, i, j - 1), S), i, j)
<1>1. PICK part : part = SubSeq(es, i, j - 1)
  OBVIOUS
<1>2. /\ part \in Seq(Entry) /\ Len(part) = j - i /\ Len(es) \in Nat
      /\ \A x \in 1..(j - i) : part[x] = es[i + x - 1]
  BY <1>1, Slice
<1>3. /\ \A x \in 1..(j - i) : i + x - 1 \in i..(j - 1) /\ i + x - 1 \in 1..Len(es)
      /\ \A x, y \in 1..(j - i) : x < y => i + x - 1 < i + y - 1
      /\ \A x \in i..(j - 1) : x - i + 1 \in 1..(j - i) /\ i + (x - i + 1) - 1 = x
  BY <1>2
<1>4. \A x \in 1..(j - i) : part[x] \in S <=> IsMessage(es[i + x - 1])
  BY <1>2, <1>3
<1>5. Climbs(part, S)
  <2>1. ASSUME NEW x \in 1..Len(part), NEW y \in 1..Len(part), x < y, part[x] \in S, part[y] \in S
        PROVE  part[x].id < part[y].id
    <3>1. PICK a, b : a = i + x - 1 /\ b = i + y - 1
      OBVIOUS
    <3>2. a \in 1..Len(es) /\ b \in 1..Len(es) /\ a < b
      BY <1>2, <1>3, <2>1, <3>1
    <3>3. IsMessage(es[a]) /\ IsMessage(es[b]) /\ part[x] = es[a] /\ part[y] = es[b]
      BY <1>2, <1>4, <2>1, <3>1
    <3>4. QED BY <3>2, <3>3 DEF Ascends
  <2>2. QED BY <2>1 DEF Climbs
<1>6. /\ Those(part, S) \in Seq(Entry) /\ Rising(Ids(Those(part, S)))
      /\ Elems(Ids(Those(part, S))) = IdsOf(part, S, Len(part))
      /\ \A k \in 1..Len(Those(part, S)) :
            \E x \in 1..Len(part) : Those(part, S)[k] = part[x] /\ part[x] \in S
  BY <1>2, <1>5, ThoseClimb
<1>7. IdsOf(part, S, Len(part)) = IdsIn(es, i, j)
  <2>1. ASSUME NEW z \in IdsOf(part, S, Len(part)) PROVE z \in IdsIn(es, i, j)
    <3>1. PICK x \in 1..(j - i) : part[x] \in S /\ z = part[x].id
      BY <1>2 DEF IdsOf
    <3>2. PICK a : a = i + x - 1
      OBVIOUS
    <3>3. a \in i..(j - 1) /\ IsMessage(es[a]) /\ z = es[a].id
      BY <1>2, <1>3, <1>4, <3>1, <3>2
    <3>4. QED BY <3>3 DEF IdsIn
  <2>2. ASSUME NEW z \in IdsIn(es, i, j) PROVE z \in IdsOf(part, S, Len(part))
    <3>1. PICK a \in i..(j - 1) : IsMessage(es[a]) /\ z = es[a].id
      BY DEF IdsIn
    <3>2. PICK x : x = a - i + 1
      OBVIOUS
    <3>3. x \in 1..(j - i) /\ i + x - 1 = a
      BY <1>3, <3>2
    <3>4. part[x] \in S /\ z = part[x].id
      BY <1>2, <1>4, <3>1, <3>3
    <3>5. QED BY <1>2, <3>3, <3>4 DEF IdsOf
  <2>3. QED BY <2>1, <2>2
<1>8. ASSUME NEW k \in 1..Len(Those(part, S))
      PROVE  \E x \in i..(j - 1) : Those(part, S)[k] = es[x] /\ IsMessage(es[x])
  <2>1. PICK x \in 1..(j - i) : Those(part, S)[k] = part[x] /\ part[x] \in S
    BY <1>2, <1>6
  <2>2. PICK a : a = i + x - 1
    OBVIOUS
  <2>3. a \in i..(j - 1) /\ IsMessage(es[a]) /\ part[x] = es[a]
    BY <1>2, <1>3, <1>4, <2>1, <2>2
  <2>4. QED BY <2>1, <2>3
<1>9. QED BY <1>1, <1>6, <1>7, <1>8 DEF Tells

LEMMA MessagesTell ==
    ASSUME NEW es \in Seq(Entry), Ascends(es),
           NEW i \in 1..(Len(es) + 1), NEW j \in i..(Len(es) + 1)
    PROVE  Tells(es, Messages(es, i, j), i, j)
<1>1. PICK part : part = SubSeq(es, i, j - 1)
  OBVIOUS
<1>2. PICK S : S = {e \in ToSet(part) : IsMessage(e)}
  OBVIOUS
<1>3. Messages(es, i, j) = Those(part, S)
  BY <1>1, <1>2 DEF Messages, MessagesOf
<1>4. \A x \in i..(j - 1) : es[x] \in S <=> IsMessage(es[x])
  <2>1. /\ part \in Seq(Entry) /\ Len(part) = j - i /\ Len(es) \in Nat
        /\ \A x \in 1..(j - i) : part[x] = es[i + x - 1]
    BY <1>1, Slice
  <2>2. DOMAIN part = 1..Len(part)
    BY <2>1, LenProperties
  <2>3. ASSUME NEW x \in i..(j - 1) PROVE es[x] \in ToSet(part)
    <3>1. PICK y : y = x - i + 1
      OBVIOUS
    <3>2. y \in 1..(j - i) /\ i + y - 1 = x
      BY <2>1, <3>1
    <3>3. part[y] = es[x] /\ y \in DOMAIN part
      BY <2>1, <2>2, <3>2
    <3>4. QED BY <3>3 DEF ToSet
  <2>4. QED BY <1>2, <2>3
<1>5. Tells(es, Those(SubSeq(es, i, j - 1), S), i, j)
  BY <1>4, ThoseOfSlice
<1>6. QED BY <1>1, <1>3, <1>5

LEMMA BetweenTell ==
    ASSUME NEW es \in Seq(Entry), Ascends(es),
           NEW i \in 1..(Len(es) + 1), NEW j \in i..(Len(es) + 1),
           \A x \in i..Len(es) : es[x].kind # "summary"
    PROVE  Tells(es, Between(es, i, j), i, j)
<1>1. PICK part : part = SubSeq(es, i, j - 1)
  OBVIOUS
<1>2. PICK S : S = {e \in ToSet(part) : Visible(e)}
  OBVIOUS
<1>3. Between(es, i, j) = Those(part, S)
  BY <1>1, <1>2 DEF Between
<1>4. \A x \in i..(j - 1) : es[x] \in S <=> IsMessage(es[x])
  <2>1. /\ part \in Seq(Entry) /\ Len(part) = j - i /\ Len(es) \in Nat
        /\ \A x \in 1..(j - i) : part[x] = es[i + x - 1]
    BY <1>1, Slice
  <2>2. DOMAIN part = 1..Len(part)
    BY <2>1, LenProperties
  <2>3. ASSUME NEW x \in i..(j - 1)
        PROVE  es[x] \in ToSet(part) /\ (Visible(es[x]) <=> IsMessage(es[x]))
    <3>1. PICK y : y = x - i + 1
      OBVIOUS
    <3>2. y \in 1..(j - i) /\ i + y - 1 = x
      BY <2>1, <3>1
    <3>3. part[y] = es[x] /\ y \in DOMAIN part
      BY <2>1, <2>2, <3>2
    <3>4. x \in 1..Len(es) /\ x \in i..Len(es)
      BY <2>1
    <3>5. es[x] \in Entry /\ es[x].kind # "summary"
      BY <3>4, ElementOfSeq
    <3>6. Visible(es[x]) <=> IsMessage(es[x])
      BY <3>5 DEF Entry, Kinds, Visible, IsMessage
    <3>7. QED BY <3>3, <3>6 DEF ToSet
  <2>4. QED BY <1>2, <2>3
<1>5. Tells(es, Those(SubSeq(es, i, j - 1), S), i, j)
  BY <1>4, ThoseOfSlice
<1>6. QED BY <1>1, <1>3, <1>5

\* Neighbouring ranges.
LEMMA IdsSplit ==
    ASSUME NEW es, Ascends(es), NEW n \in Nat, n = Len(es),
           NEW i \in 1..(n + 1), NEW j \in i..(n + 1), NEW k \in j..(n + 1)
    PROVE  /\ IdsIn(es, i, k) = IdsIn(es, i, j) \cup IdsIn(es, j, k)
           /\ Below(IdsIn(es, i, j), IdsIn(es, j, k))
<1>1. i..(k - 1) = (i..(j - 1)) \cup (j..(k - 1))
  OBVIOUS
<1>2. IdsIn(es, i, k) = IdsIn(es, i, j) \cup IdsIn(es, j, k)
  BY <1>1 DEF IdsIn
<1>3. ASSUME NEW x \in i..(j - 1), NEW y \in j..(k - 1), IsMessage(es[x]), IsMessage(es[y])
      PROVE  es[x].id < es[y].id
  <2>1. x \in 1..Len(es) /\ y \in 1..Len(es) /\ x < y
    OBVIOUS
  <2>2. QED BY <1>3, <2>1 DEF Ascends
<1>4. Below(IdsIn(es, i, j), IdsIn(es, j, k))
  BY <1>3 DEF Below, IdsIn
<1>5. QED BY <1>2, <1>4

LEMMA TellsConcat ==
    ASSUME NEW es \in Seq(Entry), Ascends(es),
           NEW i \in 1..(Len(es) + 1), NEW j \in i..(Len(es) + 1), NEW k \in j..(Len(es) + 1),
           NEW a, Tells(es, a, i, j), NEW b, Tells(es, b, j, k)
    PROVE  Tells(es, a \o b, i, k)
<1>1. Len(es) \in Nat
  BY LenProperties
<1>2. /\ IdsIn(es, i, k) = IdsIn(es, i, j) \cup IdsIn(es, j, k)
      /\ Below(IdsIn(es, i, j), IdsIn(es, j, k))
  BY <1>1, IdsSplit
<1>3. /\ a \in Seq(Entry) /\ Rising(Ids(a)) /\ Elems(Ids(a)) = IdsIn(es, i, j)
      /\ b \in Seq(Entry) /\ Rising(Ids(b)) /\ Elems(Ids(b)) = IdsIn(es, j, k)
  BY DEF Tells
<1>4. /\ a \o b \in Seq(Entry) /\ Len(a \o b) = Len(a) + Len(b)
      /\ \A x \in 1..Len(a) : (a \o b)[x] = a[x]
      /\ \A x \in 1..Len(a \o b) :
            x \in 1..Len(a) \/ (x - Len(a) \in 1..Len(b) /\ (a \o b)[x] = b[x - Len(a)])
  BY <1>3, ConcatElements
<1>5. Ids(a \o b) = Ids(a) \o Ids(b)
  BY <1>3, IdsConcat
<1>6. PICK p, q : p = Ids(a) /\ q = Ids(b)
  OBVIOUS
<1>7. Rising(p \o q) /\ Elems(p \o q) = Elems(p) \cup Elems(q)
  <2>1. Rising(p) /\ Rising(q) /\ Below(Elems(p), Elems(q))
    BY <1>2, <1>3, <1>6
  <2>2. QED BY <2>1, RisingConcat
<1>8. ASSUME NEW x \in 1..Len(a \o b)
      PROVE  \E y \in i..(k - 1) : (a \o b)[x] = es[y] /\ IsMessage(es[y])
  <2>1. i..(j - 1) \subseteq i..(k - 1) /\ j..(k - 1) \subseteq i..(k - 1)
    BY <1>1
  <2>2. CASE x \in 1..Len(a)
    <3>1. \E y \in i..(j - 1) : a[x] = es[y] /\ IsMessage(es[y])
      BY <2>2 DEF Tells
    <3>2. QED BY <1>4, <2>1, <2>2, <3>1
  <2>3. CASE ~(x \in 1..Len(a))
    <3>1. PICK z : z = x - Len(a)
      OBVIOUS
    <3>2. z \in 1..Len(b) /\ (a \o b)[x] = b[z]
      BY <1>4, <2>3, <3>1
    <3>3. \E y \in j..(k - 1) : b[z] = es[y] /\ IsMessage(es[y])
      BY <3>2 DEF Tells
    <3>4. QED BY <2>1, <3>2, <3>3
  <2>4. QED BY <2>2, <2>3
<1>9. QED BY <1>2, <1>3, <1>4, <1>5, <1>6, <1>7, <1>8 DEF Tells

\* In a range that begins with no result, a result that is not in X directly follows its
\* call or another result that is not in X.
LEMMA TellsHeaded ==
    ASSUME NEW X, NEW es \in Seq(Entry), Ascends(es), Paired(es, X),
           NEW i \in 1..(Len(es) + 1), NEW j \in i..(Len(es) + 1),
           i \in 1..Len(es) => es[i].kind # "result",
           NEW ms, Tells(es, ms, i, j),
           NEW k \in 1..Len(ms), ms[k].kind = "result", ms[k].id \notin X
    PROVE  k > 1 /\ ~Alone(ms[k - 1], X)
<1>1. /\ ms \in Seq(Entry) /\ Rising(Ids(ms)) /\ Elems(Ids(ms)) = IdsIn(es, i, j)
  BY DEF Tells
<1>2. /\ Ids(ms) \in Seq(Int) /\ Len(Ids(ms)) = Len(ms) /\ Len(ms) \in Nat
      /\ \A x \in 1..Len(ms) : Ids(ms)[x] = ms[x].id
      /\ Len(es) \in Nat
  BY <1>1, IdsShape, LenProperties
<1>3. \A x, y \in 1..Len(ms) : x < y => ms[x].id < ms[y].id
  BY <1>1, <1>2 DEF Rising
<1>4. \A x \in 1..Len(es) : es[x].id \in Int
  <2>1. \A x \in 1..Len(es) : es[x] \in Entry
    BY ElementOfSeq
  <2>2. QED BY <2>1 DEF Entry
<1>5. PICK x \in i..(j - 1) : ms[k] = es[x] /\ IsMessage(es[x])
  BY DEF Tells
<1>6. x \in 1..Len(es) /\ x # i
  BY <1>2, <1>5
<1>7. PICK y : y = x - 1
  OBVIOUS
<1>8. y \in i..(j - 1) /\ y \in 1..Len(es) /\ y < x
  BY <1>2, <1>6, <1>7
<1>9. PairOf(es[y], es[x], X) /\ es[x].id \notin X
  BY <1>5, <1>6, <1>7 DEF Paired
<1>10. IsMessage(es[y]) /\ ~Alone(es[y], X)
  BY <1>9 DEF PairOf, IsMessage, Alone
<1>11. es[y].id < es[x].id
  BY <1>5, <1>6, <1>8, <1>10 DEF Ascends
<1>12. es[y].id \in Elems(Ids(ms))
  BY <1>1, <1>8, <1>10 DEF IdsIn
<1>13. PICK l \in 1..Len(ms) : ms[l].id = es[y].id
  BY <1>2, <1>12 DEF Elems
<1>14. ms[l].id < ms[k].id /\ ms[l].id \in Int /\ ms[k].id \in Int
  BY <1>4, <1>5, <1>6, <1>8, <1>11, <1>13
<1>15. l < k
  <2>1. CASE k < l
    <3>1. ms[k].id < ms[l].id
      BY <1>3, <2>1
    <3>2. QED BY <1>14, <3>1
  <2>2. CASE k = l
    BY <1>14, <2>2
  <2>3. QED BY <1>2, <2>1, <2>2
<1>16. k > 1 /\ k - 1 \in 1..Len(ms) /\ k - 1 < k
  BY <1>2, <1>15
<1>17. PICK z \in i..(j - 1) : ms[k - 1] = es[z] /\ IsMessage(es[z])
  BY <1>16 DEF Tells
<1>18. z \in 1..Len(es) /\ es[z].id < es[x].id
  <2>1. ms[k - 1].id < ms[k].id
    BY <1>3, <1>16
  <2>2. QED BY <1>2, <1>5, <1>17, <2>1
<1>19. z <= y
  <2>1. CASE x < z
    <3>1. es[x].id < es[z].id
      BY <1>5, <1>6, <1>17, <1>18, <2>1 DEF Ascends
    <3>2. QED BY <1>4, <1>6, <1>18, <3>1
  <2>2. CASE x = z
    BY <1>4, <1>6, <1>18, <2>2
  <2>3. QED BY <1>7, <1>8, <1>18, <2>1, <2>2
<1>20. es[y].id <= es[z].id
  <2>1. CASE l = k - 1
    BY <1>4, <1>8, <1>13, <1>17, <2>1
  <2>2. CASE l < k - 1
    <3>1. ms[l].id < ms[k - 1].id
      BY <1>3, <1>16, <2>2
    <3>2. QED BY <1>4, <1>8, <1>13, <1>17, <1>18, <3>1
  <2>3. QED BY <1>15, <1>16, <2>1, <2>2
<1>21. z = y
  <2>1. SUFFICES ASSUME z < y PROVE FALSE
    BY <1>8, <1>18, <1>19
  <2>2. es[z].id < es[y].id
    BY <1>8, <1>10, <1>17, <1>18, <2>1 DEF Ascends
  <2>3. QED BY <1>4, <1>8, <1>18, <1>20, <2>2
<1>22. QED BY <1>10, <1>16, <1>17, <1>21

LEMMA LinesTell ==
    ASSUME NEW X, NEW es \in Seq(Entry), Ascends(es), Paired(es, X),
           NEW i \in 1..(Len(es) + 1), NEW j \in i..(Len(es) + 1),
           i \in 1..Len(es) => es[i].kind # "result",
           NEW ms, Tells(es, ms, i, j), NEW split \in BOOLEAN
    PROVE  /\ TurnLines(ms, split) \in Seq(Line) /\ Spread(Of(TurnLines(ms, split)))
           /\ Covers(Of(TurnLines(ms, split))) \subseteq IdsIn(es, i, j)
           /\ IdsIn(es, i, j) \subseteq Covers(Of(TurnLines(ms, split))) \cup X
<1>1. /\ ms \in Seq(Entry) /\ Rising(Ids(ms)) /\ Elems(Ids(ms)) = IdsIn(es, i, j)
  BY DEF Tells
<1>2. Headed(ms, X)
  BY TellsHeaded DEF Headed
<1>3. QED BY <1>1, <1>2, TurnLinesSpread

-------------------------------------------------------------------------------
(* A plan, and what the limiter makes of it, tells a part of the context    *)

LEMMA TellsNothing ==
    ASSUME NEW es, NEW i \in Nat
    PROVE  Tells(es, <<>>, i, i) /\ IdsIn(es, i, i) = {}
<1>1. <<>> \in Seq(Entry) /\ Ids(<<>>) = <<>> /\ Len(<<>>) = 0
  BY DEF Ids
<1>2. Rising(<<>>) /\ Elems(<<>>) = {}
  BY DEF Rising, Elems
<1>3. i..(i - 1) = {}
  OBVIOUS
<1>4. IdsIn(es, i, i) = {}
  BY <1>3 DEF IdsIn
<1>5. QED BY <1>1, <1>2, <1>4 DEF Tells

\* No result is there.
Fresh(es, i) == i \in 1..Len(es) => es[i].kind # "result"

\* The lines of a proposal whose history and prefix are neighbouring ranges.
LEMMA BuildTells ==
    ASSUME NEW X, NEW es \in Seq(Entry), Ascends(es), Paired(es, X),
           NEW b \in 1..(Len(es) + 1), NEW t \in b..(Len(es) + 1), NEW u \in t..(Len(es) + 1),
           Fresh(es, b), Fresh(es, t),
           NEW q, Tells(es, q.history, b, t),
           NEW pre, Tells(es, pre, t, u), pre = IF q.split THEN q.prefix ELSE <<>>
    PROVE  Digests(q, IdsIn(es, b, u), X)
<1>1. Len(es) \in Nat
  BY LenProperties
<1>2. PICK x, y : x = TurnLines(q.history, FALSE) /\ y = TurnLines(pre, TRUE)
  OBVIOUS
<1>3. Build(q) = x \o y
  BY <1>2 DEF Build
<1>4. /\ x \in Seq(Line) /\ Spread(Of(x)) /\ Covers(Of(x)) \subseteq IdsIn(es, b, t)
      /\ IdsIn(es, b, t) \subseteq Covers(Of(x)) \cup X
  BY <1>1, <1>2, LinesTell DEF Fresh
<1>5. /\ y \in Seq(Line) /\ Spread(Of(y)) /\ Covers(Of(y)) \subseteq IdsIn(es, t, u)
      /\ IdsIn(es, t, u) \subseteq Covers(Of(y)) \cup X
  <2>1. t \in 1..(Len(es) + 1)
    BY <1>1
  <2>2. QED BY <1>2, <2>1, LinesTell DEF Fresh
<1>6. /\ IdsIn(es, b, u) = IdsIn(es, b, t) \cup IdsIn(es, t, u)
      /\ Below(IdsIn(es, b, t), IdsIn(es, t, u))
  BY <1>1, IdsSplit
<1>7. x \o y \in Seq(Line) /\ Of(x \o y) = Of(x) \o Of(y)
  BY <1>4, <1>5, OfConcat, ConcatElements
<1>8. PICK ox, oy : ox = Of(x) /\ oy = Of(y)
  OBVIOUS
<1>9. Spread(ox \o oy) /\ Covers(ox \o oy) = Covers(ox) \cup Covers(oy)
  <2>1. Spread(ox) /\ Spread(oy) /\ Below(Covers(ox), Covers(oy))
    BY <1>4, <1>5, <1>6, <1>8 DEF Below
  <2>2. QED BY <2>1, SpreadConcat
<1>10. /\ Covers(ox \o oy) \subseteq IdsIn(es, b, u)
       /\ IdsIn(es, b, u) \subseteq Covers(ox \o oy) \cup X
  BY <1>4, <1>5, <1>6, <1>8, <1>9
<1>11. QED BY <1>3, <1>7, <1>8, <1>9, <1>10 DEF Digests

\* Where a span starts: behind everything that is no message.
Starts(es, b) ==
    /\ b \in 1..(Len(es) + 1)
    /\ \A x \in 1..(b - 1) : ~IsMessage(es[x])
    /\ \A x \in b..Len(es) : es[x].kind # "summary"
    /\ Fresh(es, b)

LEMMA BoundaryStarts ==
    ASSUME NEW X, NEW es \in Seq(Entry), SummaryFirst(es), Paired(es, X)
    PROVE  Starts(es, Boundary(es))
<1>1. PICK b : b = Boundary(es)
  OBVIOUS
<1>2. /\ b \in 1..(Len(es) + 1) /\ b \in {1, 2} /\ Len(es) \in Nat
      /\ \A i \in b..Len(es) : es[i].kind # "summary"
      /\ b > 1 => es[b - 1].kind = "summary"
  BY <1>1, BoundaryOf, LenProperties
<1>3. ASSUME NEW x \in 1..(b - 1) PROVE ~IsMessage(es[x])
  <2>1. x = b - 1 /\ b > 1
    BY <1>2
  <2>2. QED BY <1>2, <2>1 DEF IsMessage
<1>4. ASSUME b \in 1..Len(es), es[b].kind = "result" PROVE FALSE
  <2>1. b > 1 /\ PairOf(es[b - 1], es[b], X)
    BY <1>4 DEF Paired
  <2>2. QED BY <1>2, <2>1 DEF PairOf
<1>5. QED BY <1>1, <1>2, <1>3, <1>4 DEF Starts, Fresh

LEMMA CutPlace ==
    ASSUME NEW es \in Seq(Entry), SummaryFirst(es), NEW cut \in Cuts(es)
    PROVE  /\ cut.first \in Boundary(es)..Len(es)
           /\ cut = Cut(es, Boundary(es), cut.first)
<1> DEFINE start == Boundary(es)
           safe == {c \in start..Len(es) : Safe(es, c)}
<1>1. Len(es) \in Nat
  BY LenProperties
<1>2. PICK c \in IF safe # {} \/ start > Len(es) THEN safe ELSE {start} : cut = Cut(es, start, c)
  BY DEF Cuts
<1>3. cut.first = c
  BY <1>2 DEF Cut
<1>4. start \in 1..(Len(es) + 1)
  BY BoundaryOf
<1> HIDE DEF start
<1>5. c \in start..Len(es)
  BY <1>1, <1>2, <1>4
<1>6. QED BY <1>2, <1>3, <1>5 DEF start

\* A plan for the entries up to c, from b on.
Planned(es, b, p, c) ==
    /\ p.split \in BOOLEAN /\ (~p.split => p.prefix = <<>>)
    /\ \E t \in b..c : /\ Tells(es, p.history, b, t) /\ Tells(es, p.prefix, t, c)
                       /\ es[t].kind # "result"

LEMMA PlanSpan ==
    ASSUME NEW n \in Nat, NEW h \in Nat, NEW k \in Nat, NEW X, NEW es, Formed(es, n, h, k, X),
           Ascends(es), NEW p \in Plans(es)
    PROVE  \E c \in Boundary(es)..Len(es) :
              p.first = es[c].id /\ Opens(es[c]) /\ Planned(es, Boundary(es), p, c)
<1>1. PICK cut \in Cuts(es) : p = Plan(es, cut)
  BY DEF Plans
<1>2. PICK b, c : b = Boundary(es) /\ c = cut.first
  OBVIOUS
<1>3. es \in Seq(Entry) /\ SummaryFirst(es) /\ Len(es) \in Nat
  BY LenProperties DEF Formed
<1>4. c \in b..Len(es) /\ cut = Cut(es, b, c) /\ b \in 1..(Len(es) + 1)
  BY <1>2, <1>3, CutPlace, BoundaryOf
<1>5. Opens(es[c]) /\ es[c].kind # "result"
  BY <1>2, CutFirst DEF Opens
<1> DEFINE I == {i \in b..c : es[i].kind = "user"}
           turn == IF es[c].kind = "user" THEN 0 ELSE IF I # {} THEN Max(I) ELSE 0
<1>6. cut = [first |-> c, turn |-> turn, split |-> turn # 0]
  BY <1>4 DEF Cut, SelectLastInSubSeq
<1>7. turn # 0 => turn \in b..c /\ es[turn].kind = "user"
  <2>1. SUFFICES ASSUME turn # 0 PROVE turn \in I
    OBVIOUS
  <2>2. turn = Max(I) /\ I # {}
    BY <2>1
  <2>3. I \in SUBSET (1..Len(es))
    BY <1>3, <1>4
  <2>4. Max(I) \in I
    <3> HIDE DEF I
    <3>1. QED BY <1>3, <2>2, <2>3, MaxOfIndices
  <2>5. QED BY <2>2, <2>4
<1> HIDE DEF turn
<1>8. /\ p.first = es[c].id
      /\ p.history = Messages(es, b, IF turn # 0 THEN turn ELSE c)
      /\ p.prefix = (IF turn # 0 THEN Messages(es, turn, c) ELSE <<>>)
      /\ p.split = (turn # 0)
  <2>1. cut.first = c /\ cut.turn = turn /\ cut.split = (turn # 0)
    BY <1>6
  <2>2. p = [first |-> es[c].id,
             history |-> Messages(es, b, IF cut.split THEN turn ELSE c),
             prefix |-> IF cut.split THEN Messages(es, turn, c) ELSE <<>>,
             split |-> cut.split]
    BY <1>1, <1>2, <2>1 DEF Plan
  <2>3. QED BY <2>1, <2>2
<1>9. Planned(es, b, p, c)
  <2>1. CASE turn # 0
    <3>1. turn \in b..(Len(es) + 1) /\ c \in turn..(Len(es) + 1) /\ turn \in 1..(Len(es) + 1)
      BY <1>3, <1>4, <1>7, <2>1
    <3>2. Tells(es, Messages(es, b, turn), b, turn)
      BY <1>3, <1>4, <3>1, MessagesTell
    <3>3. Tells(es, Messages(es, turn, c), turn, c)
      BY <1>3, <3>1, MessagesTell
    <3>4. QED BY <1>7, <1>8, <2>1, <3>2, <3>3 DEF Planned
  <2>2. CASE turn = 0
    <3>1. c \in b..(Len(es) + 1) /\ c \in Nat /\ c \in b..c
      BY <1>3, <1>4
    <3>2. Tells(es, Messages(es, b, c), b, c)
      BY <1>3, <1>4, <3>1, MessagesTell
    <3>3. Tells(es, <<>>, c, c)
      BY <3>1, TellsNothing
    <3>4. QED BY <1>5, <1>8, <2>2, <3>1, <3>2, <3>3 DEF Planned
  <2>3. QED BY <2>1, <2>2
<1>10. QED BY <1>2, <1>4, <1>5, <1>8, <1>9

\* From where a cut keeps the entries, and nothing when it is behind all of them.
From(es, first, u) == IF u <= Len(es) THEN first = es[u].id ELSE first = KeepNone

\* What the limiter cuts off is told behind the plan's history and prefix.
LEMMA LimitSpan ==
    ASSUME NEW X, NEW es \in Seq(Entry), Ascends(es), Paired(es, X), Distinct(es),
           NEW b, Starts(es, b), NEW c \in b..Len(es), Opens(es[c]),
           NEW p, p.first = es[c].id, Planned(es, b, p, c),
           NEW budget \in Nat, NEW q, q = BoundKeptWindow(p, Limit(es, p.first, budget))
    PROVE  \E u \in c..(Len(es) + 1) :
              Digests(q, IdsIn(es, b, u), X) /\ From(es, q.first, u)
<1> DEFINE limit == Limit(es, p.first, budget)
           cap == budget * Ratio
           start == IndexOf(es, p.first)
           fits == {i \in start + 1..Len(es) : CanStartAt(es[i]) /\ Retained(es, i) <= cap}
<1>1. Len(es) \in Nat /\ b \in 1..(Len(es) + 1) /\ b \in Nat /\ c \in 1..Len(es)
  BY LenProperties DEF Starts
<1>2. start = c
  BY <1>1, IndexOfEntry
<1>3. \/ limit = [first |-> p.first, dropped |-> <<>>]
      \/ limit = [first |-> KeepNone, dropped |-> Between(es, c, Len(es) + 1)]
      \/ /\ fits # {}
         /\ limit = [first |-> es[Min(fits)].id, dropped |-> Between(es, c, Min(fits))]
  BY <1>2 DEF Limit, Shed
<1>4. PICK t \in b..c : /\ Tells(es, p.history, b, t) /\ Tells(es, p.prefix, t, c)
                        /\ es[t].kind # "result"
  BY DEF Planned
<1>5. p.split \in BOOLEAN /\ (~p.split => p.prefix = <<>>)
  BY DEF Planned
<1>6. t \in b..(Len(es) + 1) /\ c \in t..(Len(es) + 1) /\ t \in 1..(Len(es) + 1)
      /\ c \in b..(Len(es) + 1) /\ c \in c..(Len(es) + 1)
  BY <1>1, <1>4
<1>7. Fresh(es, b) /\ Fresh(es, t) /\ Fresh(es, c)
  BY <1>4 DEF Starts, Fresh, Opens
<1>8. CASE limit.first = p.first /\ limit.dropped = <<>>
  <2>1. q = p
    BY <1>8 DEF BoundKeptWindow
  <2>2. p.prefix = IF p.split THEN p.prefix ELSE <<>>
    BY <1>5
  <2>3. Digests(p, IdsIn(es, b, c), X)
    BY <1>1, <1>4, <1>6, <1>7, <2>2, BuildTells
  <2>4. From(es, p.first, c)
    BY <1>1 DEF From
  <2>5. QED BY <1>6, <2>1, <2>3, <2>4
<1>9. CASE ~(limit.first = p.first /\ limit.dropped = <<>>)
  <2>1. q = [first |-> limit.first, history |-> (p.history \o p.prefix) \o limit.dropped,
             prefix |-> <<>>, split |-> FALSE]
    BY <1>9 DEF BoundKeptWindow
  <2>2. \E u \in c..(Len(es) + 1) :
           /\ limit.dropped = Between(es, c, u) /\ From(es, limit.first, u)
           /\ Fresh(es, u)
    <3>1. CASE limit = [first |-> KeepNone, dropped |-> Between(es, c, Len(es) + 1)]
      <4>1. PICK u : u = Len(es) + 1
        OBVIOUS
      <4>2. u \in c..(Len(es) + 1) /\ ~(u <= Len(es))
        BY <1>1, <4>1
      <4>3. limit.dropped = Between(es, c, u) /\ limit.first = KeepNone
        BY <3>1, <4>1
      <4>4. QED BY <4>2, <4>3 DEF From, Fresh
    <3>2. CASE fits # {}
               /\ limit = [first |-> es[Min(fits)].id, dropped |-> Between(es, c, Min(fits))]
      <4>1. Min(fits) \in fits
        <5>1. fits \in SUBSET Nat
          BY <1>1, <1>2
        <5> HIDE DEF fits
        <5>2. QED BY <3>2, <5>1, LeastIndex
      <4>2. PICK u : u = Min(fits)
        OBVIOUS
      <4>3. u \in c + 1..Len(es) /\ es[u].kind # "result"
        BY <1>2, <4>1, <4>2 DEF CanStartAt
      <4>4. u \in c..(Len(es) + 1) /\ u <= Len(es)
        BY <1>1, <4>3
      <4> HIDE DEF fits, limit
      <4>5. limit.dropped = Between(es, c, u) /\ limit.first = es[u].id
        BY <3>2, <4>2
      <4>6. QED BY <4>3, <4>4, <4>5 DEF From, Fresh
    <3>3. ASSUME limit = [first |-> p.first, dropped |-> <<>>] PROVE FALSE
      <4>1. limit.first = p.first /\ limit.dropped = <<>>
        BY <3>3
      <4>2. QED BY <1>9, <4>1
    <3>4. QED BY <1>3, <3>1, <3>2, <3>3
  <2> HIDE DEF limit
  <2>3. PICK u \in c..(Len(es) + 1) :
           /\ limit.dropped = Between(es, c, u) /\ From(es, limit.first, u)
           /\ Fresh(es, u)
    BY <2>2
  <2>4. \A x \in c..Len(es) : es[x].kind # "summary"
    BY <1>1 DEF Starts
  <2>5. c \in 1..(Len(es) + 1) /\ u \in b..(Len(es) + 1) /\ u \in u..(Len(es) + 1)
        /\ u \in 1..(Len(es) + 1) /\ u \in Nat
    BY <1>1
  <2>6. Tells(es, limit.dropped, c, u)
    BY <2>3, <2>4, <2>5, BetweenTell
  <2>7. Tells(es, p.history \o p.prefix, b, c)
    BY <1>1, <1>4, <1>6, TellsConcat
  <2>8. Tells(es, (p.history \o p.prefix) \o limit.dropped, b, u)
    BY <1>1, <1>6, <2>6, <2>7, TellsConcat
  <2>9. q.first = limit.first /\ q.split = FALSE
        /\ q.history = (p.history \o p.prefix) \o limit.dropped
    <3>1. PICK f, ms : f = limit.first /\ ms = (p.history \o p.prefix) \o limit.dropped
      OBVIOUS
    <3>2. q = [first |-> f, history |-> ms, prefix |-> <<>>, split |-> FALSE]
      BY <2>1, <3>1
    <3>3. q.first = f /\ q.history = ms /\ q.split = FALSE
      BY <3>2
    <3>4. QED BY <3>1, <3>3
  <2>10. Tells(es, q.history, b, u)
    BY <2>8, <2>9
  <2>11. Tells(es, <<>>, u, u)
    BY <2>5, TellsNothing
  <2>12. <<>> = IF q.split THEN q.prefix ELSE <<>>
    BY <2>9
  <2>13. Digests(q, IdsIn(es, b, u), X)
    BY <1>1, <1>7, <2>3, <2>5, <2>10, <2>11, <2>12, BuildTells
  <2>14. QED BY <2>3, <2>9, <2>13
<1>10. QED BY <1>8, <1>9

-------------------------------------------------------------------------------
(* What stays in the context                                                *)

\* The ids of all messages of the entries.
All(es) == IdsIn(es, 1, Len(es) + 1)

LEMMA AppendIds ==
    ASSUME NEW es \in Seq(Entry), Ascends(es), NEW e \in Entry,
           IsMessage(e) => \A i \in 1..Len(es) : es[i].id < e.id
    PROVE  /\ Ascends(Append(es, e)) /\ Append(es, e) \in Seq(Entry)
           /\ All(Append(es, e)) = All(es) \cup (IF IsMessage(e) THEN {e.id} ELSE {})
<1>1. PICK longer, n : longer = Append(es, e) /\ n = Len(es)
  OBVIOUS
<1>2. /\ longer \in Seq(Entry) /\ Len(longer) = n + 1 /\ n \in Nat
      /\ \A i \in 1..n : longer[i] = es[i]
      /\ longer[n + 1] = e
  BY <1>1, AppendedEntries
<1>3. Ascends(longer)
  <2>1. SUFFICES ASSUME NEW i \in 1..Len(longer), NEW j \in 1..Len(longer), i < j,
                        IsMessage(longer[i]), IsMessage(longer[j])
                 PROVE  longer[i].id < longer[j].id
    BY DEF Ascends
  <2>2. i \in 1..n /\ (j \in 1..n \/ j = n + 1)
    BY <1>2, <2>1
  <2>3. CASE j \in 1..n
    BY <1>1, <1>2, <2>1, <2>2, <2>3 DEF Ascends
  <2>4. CASE j = n + 1
    BY <1>1, <1>2, <2>1, <2>2, <2>4
  <2>5. QED BY <2>2, <2>3, <2>4
<1>4. 1..((n + 1) + 1 - 1) = 1..(n + 1 - 1) \cup {n + 1}
  BY <1>2
<1>5. 1..(n + 1 - 1) = 1..n
  BY <1>2
<1>6. All(longer) = All(es) \cup (IF IsMessage(e) THEN {e.id} ELSE {})
  <2>1. All(longer) = {longer[x].id : x \in {y \in (1..n) \cup {n + 1} : IsMessage(longer[y])}}
    BY <1>2, <1>4, <1>5 DEF All, IdsIn
  <2>2. All(es) = {es[x].id : x \in {y \in 1..n : IsMessage(es[y])}}
    BY <1>1, <1>5 DEF All, IdsIn
  <2>3. {longer[x].id : x \in {y \in 1..n : IsMessage(longer[y])}} = All(es)
    BY <1>2, <2>2
  <2>4. QED BY <1>2, <2>1, <2>3
<1>7. QED BY <1>1, <1>2, <1>3, <1>6

LEMMA BehindIds ==
    ASSUME NEW es \in Seq(Entry), Ascends(es), NEW i \in 1..(Len(es) + 1)
    PROVE  Ascends(Behind(es, i)) /\ All(Behind(es, i)) = IdsIn(es, i, Len(es) + 1)
<1>1. PICK new, n : new = Behind(es, i) /\ n = Len(es)
  OBVIOUS
<1>2. /\ new \in Seq(Entry) /\ n \in Nat /\ Len(new) = n - i + 2 /\ new[1] = Summary
      /\ \A j \in 2..Len(new) : new[j] = es[i + j - 2]
  BY <1>1, BehindEntries
<1>3. ~IsMessage(new[1])
  BY <1>2 DEF IsMessage, Summary
<1>4. \A j \in 2..Len(new) : i + j - 2 \in 1..n /\ i + j - 2 \in i..n
  BY <1>1, <1>2
<1>5. Ascends(new)
  <2>1. SUFFICES ASSUME NEW x \in 1..Len(new), NEW y \in 1..Len(new), x < y,
                        IsMessage(new[x]), IsMessage(new[y])
                 PROVE  new[x].id < new[y].id
    BY DEF Ascends
  <2>2. x \in 2..Len(new) /\ y \in 2..Len(new)
    BY <1>2, <1>3, <2>1
  <2>3. PICK a, b : a = i + x - 2 /\ b = i + y - 2
    OBVIOUS
  <2>4. a \in 1..n /\ b \in 1..n /\ a < b /\ new[x] = es[a] /\ new[y] = es[b]
    BY <1>2, <1>4, <2>1, <2>2, <2>3
  <2>5. QED BY <1>1, <2>1, <2>4 DEF Ascends
<1>6. ASSUME NEW z \in All(new) PROVE z \in IdsIn(es, i, n + 1)
  <2>1. PICK x \in 1..((Len(new) + 1) - 1) : IsMessage(new[x]) /\ z = new[x].id
    BY DEF All, IdsIn
  <2>2. x \in 2..Len(new)
    BY <1>2, <1>3, <2>1
  <2>3. PICK a : a = i + x - 2
    OBVIOUS
  <2>4. a \in i..((n + 1) - 1) /\ new[x] = es[a]
    BY <1>2, <1>4, <2>2, <2>3
  <2>5. QED BY <2>1, <2>4 DEF IdsIn
<1>7. ASSUME NEW z \in IdsIn(es, i, n + 1) PROVE z \in All(new)
  <2>1. PICK a \in i..((n + 1) - 1) : IsMessage(es[a]) /\ z = es[a].id
    BY DEF IdsIn
  <2>2. PICK x : x = a - i + 2
    OBVIOUS
  <2>3. x \in 2..Len(new) /\ i + x - 2 = a /\ x \in 1..((Len(new) + 1) - 1)
    <3>1. PICK len : len = Len(new)
      OBVIOUS
    <3>2. n \in Nat /\ i \in 1..(n + 1) /\ a \in i..((n + 1) - 1) /\ len = n - i + 2
      BY <1>1, <1>2, <3>1
    <3>3. x \in 2..len /\ i + x - 2 = a /\ x \in 1..((len + 1) - 1)
      BY <2>2, <3>2
    <3>4. QED BY <3>1, <3>3
  <2>4. new[x] = es[a]
    BY <1>2, <2>3
  <2>5. QED BY <2>1, <2>3, <2>4 DEF All, IdsIn
<1>8. QED BY <1>1, <1>5, <1>6, <1>7

\* What is left of the ids when the entries are kept from u on.
LEMMA KeptIds ==
    ASSUME NEW n \in Nat, NEW h \in Nat, NEW k \in Nat, NEW X, NEW es, Formed(es, n, h, k, X),
           Ascends(es), NEW first, Target(es, first),
           NEW u \in 1..(Len(es) + 1), From(es, first, u)
    PROVE  /\ <<Summary>> \o Kept(es, first) \in Seq(Entry)
           /\ Ascends(<<Summary>> \o Kept(es, first))
           /\ All(<<Summary>> \o Kept(es, first)) = IdsIn(es, u, Len(es) + 1)
<1>1. PICK i \in 1..(Len(es) + 1) : KeptFrom(es, first, i)
  BY KeptBehind
<1>2. es \in Seq(Entry) /\ Len(es) \in Nat /\ Distinct(es)
  BY LenProperties DEF Formed
<1>3. \A j \in 1..Len(es) : es[j].id # KeepNone
  BY NoEntryIsNone
<1>4. i = u
  <2>1. CASE u <= Len(es)
    <3>1. u \in 1..Len(es) /\ first = es[u].id
      BY <1>2, <2>1 DEF From
    <3>2. i \in 1..Len(es) /\ es[i].id = first
      BY <1>1, <1>2, <1>3, <3>1 DEF KeptFrom
    <3>3. QED BY <1>2, <3>1, <3>2 DEF Distinct
  <2>2. CASE ~(u <= Len(es))
    <3>1. u = Len(es) + 1 /\ first = KeepNone
      BY <1>2, <2>2 DEF From
    <3>2. QED BY <1>1, <3>1 DEF KeptFrom
  <2>3. QED BY <2>1, <2>2
<1>5. <<Summary>> \o Kept(es, first) = Behind(es, u)
  BY <1>1, <1>4 DEF KeptFrom
<1>6. QED BY <1>2, <1>5, BehindEntries, BehindIds

\* A plan for the entries is one for the entries and a hidden one behind them.
LEMMA TellsAppend ==
    ASSUME NEW es \in Seq(Entry), NEW e \in Entry,
           NEW i \in 1..(Len(es) + 1), NEW j \in i..(Len(es) + 1)
    PROVE  /\ IdsIn(Append(es, e), i, j) = IdsIn(es, i, j)
           /\ \A ms : Tells(es, ms, i, j) => Tells(Append(es, e), ms, i, j)
<1>1. PICK longer : longer = Append(es, e)
  OBVIOUS
<1>2. Len(es) \in Nat /\ \A x \in 1..Len(es) : longer[x] = es[x]
  BY <1>1, AppendedEntries
<1>3. \A x \in i..(j - 1) : x \in 1..Len(es)
  BY <1>2
<1>4. \A x \in i..(j - 1) : longer[x] = es[x]
  BY <1>2, <1>3
<1>5. IdsIn(longer, i, j) = IdsIn(es, i, j)
  BY <1>4 DEF IdsIn
<1>6. ASSUME NEW ms, Tells(es, ms, i, j) PROVE Tells(longer, ms, i, j)
  BY <1>4, <1>5, <1>6 DEF Tells
<1>7. QED BY <1>1, <1>5, <1>6

LEMMA PlannedAppend ==
    ASSUME NEW es \in Seq(Entry), NEW e \in Entry, e.kind = "hidden",
           NEW b, Starts(es, b), NEW c \in b..Len(es), NEW p, Planned(es, b, p, c)
    PROVE  Starts(Append(es, e), b) /\ Planned(Append(es, e), b, p, c)
<1>1. PICK longer : longer = Append(es, e)
  OBVIOUS
<1>2. /\ Len(longer) = Len(es) + 1 /\ Len(es) \in Nat
      /\ \A i \in 1..Len(es) : longer[i] = es[i]
      /\ longer[Len(es) + 1] = e
  BY <1>1, AppendedEntries
<1>3. b \in 1..Len(es) /\ c \in 1..Len(es)
  BY <1>2 DEF Starts
<1>4. Starts(longer, b)
  <2>1. b \in 1..(Len(longer) + 1) /\ Fresh(longer, b)
    BY <1>2, <1>3 DEF Starts, Fresh
  <2>2. ASSUME NEW x \in 1..(b - 1) PROVE ~IsMessage(longer[x])
    <3>1. x \in 1..Len(es)
      BY <1>2, <1>3
    <3>2. QED BY <1>2, <3>1 DEF Starts
  <2>3. ASSUME NEW x \in b..Len(longer) PROVE longer[x].kind # "summary"
    <3>1. (x \in b..Len(es) /\ x \in 1..Len(es)) \/ x = Len(es) + 1
      BY <1>2, <1>3
    <3>2. QED BY <1>2, <3>1 DEF Starts
  <2>4. QED BY <2>1, <2>2, <2>3 DEF Starts
<1>5. Planned(longer, b, p, c)
  <2>1. PICK t \in b..c : /\ Tells(es, p.history, b, t) /\ Tells(es, p.prefix, t, c)
                          /\ es[t].kind # "result"
    BY DEF Planned
  <2>2. t \in 1..Len(es) /\ t \in b..(Len(es) + 1) /\ t \in 1..(Len(es) + 1)
        /\ c \in t..(Len(es) + 1) /\ b \in 1..(Len(es) + 1)
    BY <1>2, <1>3
  <2>3. Tells(longer, p.history, b, t)
    BY <1>1, <2>1, <2>2, TellsAppend
  <2>4. Tells(longer, p.prefix, t, c)
    BY <1>1, <2>1, <2>2, TellsAppend
  <2>5. longer[t].kind # "result"
    BY <1>2, <2>1, <2>2
  <2>6. QED BY <2>3, <2>4, <2>5 DEF Planned
<1>6. QED BY <1>1, <1>4, <1>5

-------------------------------------------------------------------------------
(* Every message is filed once                                              *)

\* The ids of the digest come before those of the context, neither is counted as omitted,
\* and unless a digest was left out they are, with those in X, all there are.
Filing(A, R, O, n, unsure, X) ==
    /\ R \in SUBSET (1..n) /\ O \in SUBSET (1..n) /\ Below(R, A)
    /\ O \cap (R \cup A) = {}
    /\ ~unsure => 1..n \subseteq R \cup A \cup O \cup X
Accounted ==
    /\ Ascends(entries) /\ Filed(blocks)
    /\ elided \in Seq(SUBSET Int) /\ Len(elided) = Len(blocks)
    /\ Filing(All(entries), Records(blocks), Omitted, said, lossy, exposed)

LEMMA AllBounded ==
    ASSUME NEW n \in Nat, NEW h, NEW k, NEW X, NEW es, Formed(es, n, h, k, X)
    PROVE  All(es) \in SUBSET (1..n)
<1>1. es \in Seq(Entry) /\ Len(es) \in Nat
  BY LenProperties DEF Formed
<1>2. ASSUME NEW x \in 1..((Len(es) + 1) - 1), IsMessage(es[x]) PROVE es[x].id \in 1..n
  <2>1. x \in 1..Len(es)
    BY <1>1
  <2>2. EntryFor(es[x], n, h, k)
    BY <2>1 DEF Formed
  <2>3. QED BY <1>2, <2>2 DEF EntryFor
<1>3. QED BY <1>2 DEF All, IdsIn

\* A compaction takes the ids of G from the context, files some and omits the others.
LEMMA FilingMoves ==
    ASSUME NEW n \in Nat, NEW A \in SUBSET (1..n), NEW R, NEW O, NEW unsure, NEW X,
           Filing(A, R, O, n, unsure, X),
           NEW G, NEW K, A = G \cup K, Below(G, K),
           NEW R2, NEW O2, O2 \cap R2 = {}, O2 \cup R2 \subseteq R \cup G,
           R \cup G \subseteq O2 \cup R2 \cup X
    PROVE  Filing(K, R2, O \cup O2, n, unsure, X)
<1>1. /\ R \in SUBSET (1..n) /\ O \in SUBSET (1..n) /\ Below(R, A)
      /\ O \cap (R \cup A) = {} /\ (~unsure => 1..n \subseteq R \cup A \cup O \cup X)
  BY DEF Filing
<1>2. R2 \in SUBSET (1..n) /\ O \cup O2 \in SUBSET (1..n)
  BY <1>1
<1>3. Below(R \cup G, K)
  BY <1>1 DEF Below
<1>4. Below(R2, K)
  BY <1>3 DEF Below
<1>5. (R \cup G) \cap K = {}
  <2>1. R \cup G \in SUBSET Int /\ K \in SUBSET Int
    <3>1. 1..n \subseteq Int
      OBVIOUS
    <3>2. QED BY <1>1, <3>1
  <2>2. QED BY <1>3, <2>1, BelowDisjoint
<1>6. (O \cup O2) \cap (R2 \cup K) = {}
  BY <1>1, <1>5
<1>7. ~unsure => 1..n \subseteq R2 \cup K \cup (O \cup O2) \cup X
  BY <1>1
<1>8. QED BY <1>2, <1>4, <1>6, <1>7 DEF Filing

\* Without a digest what is there is still in order.
LEMMA FilingForgets ==
    ASSUME NEW n \in Nat, NEW A, NEW R, NEW O, NEW unsure, NEW X,
           Filing(A, R, O, n, unsure, X), NEW K \in SUBSET A
    PROVE  Filing(K, {}, O, n, TRUE, X)
BY DEF Filing, Below

LEMMA FilingSays ==
    ASSUME NEW n \in Nat, NEW A \in SUBSET (1..n), NEW R, NEW O, NEW unsure, NEW X,
           Filing(A, R, O, n, unsure, X), NEW X1, X \subseteq X1
    PROVE  Filing(A \cup {n + 1}, R, O, n + 1, unsure, X1)
<1>1. /\ R \in SUBSET (1..n) /\ O \in SUBSET (1..n) /\ Below(R, A)
      /\ O \cap (R \cup A) = {} /\ (~unsure => 1..n \subseteq R \cup A \cup O \cup X)
  BY DEF Filing
<1>2. 1..(n + 1) = (1..n) \cup {n + 1} /\ n + 1 \notin 1..n /\ \A x \in 1..n : x < n + 1
  OBVIOUS
<1>3. R \in SUBSET (1..(n + 1)) /\ O \in SUBSET (1..(n + 1))
  BY <1>1, <1>2
<1>4. Below(R, A \cup {n + 1})
  BY <1>1, <1>2 DEF Below
<1>5. O \cap (R \cup (A \cup {n + 1})) = {}
  BY <1>1, <1>2
<1>6. ~unsure => 1..(n + 1) \subseteq R \cup (A \cup {n + 1}) \cup O \cup X1
  BY <1>1, <1>2
<1>7. QED BY <1>3, <1>4, <1>5, <1>6 DEF Filing

\* A proposal digests what it does not keep.
LEMMA ProposalSpan ==
    ASSUME NEW n \in Nat, NEW h \in Nat, NEW k \in Nat,
           NEW X, NEW base, Formed(base, n, h, k, X),
           NEW k1 \in Nat, NEW es, Formed(es, n, h, k1, X), NEW e \in Entry, e.kind = "hidden",
           es = base \/ es = Append(base, e),
           Ascends(base), Ascends(es),
           NEW budget \in Nat, NEW q \in Proposals(es, Plans(base), budget)
    PROVE  \E u \in 1..(Len(es) + 1) : From(es, q.first, u) /\ Digests(q, IdsIn(es, 1, u), X)
<1>1. PICK p \in Plans(base) : q = BoundKeptWindow(p, Limit(es, p.first, budget))
  BY DEF Proposals
<1>2. /\ base \in Seq(Entry) /\ Len(base) \in Nat /\ SummaryFirst(base)
      /\ es \in Seq(Entry) /\ Len(es) \in Nat /\ Distinct(es)
      /\ Paired(base, X) /\ Paired(es, X)
  BY LenProperties DEF Formed
<1>3. PICK b : b = Boundary(base)
  OBVIOUS
<1>4. PICK c \in b..Len(base) :
          p.first = base[c].id /\ Opens(base[c]) /\ Planned(base, b, p, c)
  BY <1>3, PlanSpan
<1>5. Starts(base, b) /\ b \in Nat /\ b \in 1..(Len(base) + 1)
  BY <1>2, <1>3, BoundaryStarts DEF Starts
<1>6. /\ Len(base) <= Len(es) /\ \A i \in 1..Len(base) : es[i] = base[i]
      /\ Starts(es, b) /\ Planned(es, b, p, c)
  <2>1. CASE es = base
    BY <1>2, <1>4, <1>5, <2>1
  <2>2. CASE es = Append(base, e)
    <3>1. /\ Len(es) = Len(base) + 1 /\ \A i \in 1..Len(base) : es[i] = base[i]
      BY <1>2, <2>2, AppendedEntries
    <3>2. Starts(Append(base, e), b) /\ Planned(Append(base, e), b, p, c)
      BY <1>2, <1>4, <1>5, PlannedAppend
    <3>3. QED BY <1>2, <2>2, <3>1, <3>2
  <2>3. QED BY <2>1, <2>2
<1>7. c \in b..Len(es) /\ c \in 1..Len(base) /\ p.first = es[c].id /\ Opens(es[c])
  BY <1>2, <1>4, <1>5, <1>6
<1>8. PICK u \in c..(Len(es) + 1) : Digests(q, IdsIn(es, b, u), X) /\ From(es, q.first, u)
  BY <1>1, <1>2, <1>6, <1>7, LimitSpan
<1>9. u \in 1..(Len(es) + 1) /\ b <= u
  BY <1>2, <1>5, <1>7
<1>10. IdsIn(es, 1, u) = IdsIn(es, b, u)
  <2>1. 1..(u - 1) = 1..(b - 1) \cup b..(u - 1)
    BY <1>5, <1>9
  <2>2. \A x \in 1..(b - 1) : ~IsMessage(es[x])
    BY <1>6 DEF Starts
  <2>3. QED BY <2>1, <2>2 DEF IdsIn
<1>11. QED BY <1>8, <1>9, <1>10

\* Without a digest what is there is still in order.
LEMMA ForgetsAccounted ==
    ASSUME Accounted, said \in Nat, said' = said, exposed' = exposed, NoDigest,
           Ascends(entries'), NEW K \in SUBSET All(entries), All(entries') = K
    PROVE  Accounted'
<1>1. blocks' = <<>> /\ elided' = <<>> /\ lossy' = TRUE /\ Omitted' = Omitted
  BY NoDigestForgets
<1>2. PICK A, R, P, X : A = All(entries) /\ R = Records(blocks) /\ P = Omitted /\ X = exposed
  OBVIOUS
<1>3. Filing(A, R, P, said, lossy, X) /\ K \in SUBSET A
  BY <1>2 DEF Accounted
<1>4. Filing(K, {}, P, said, TRUE, X)
  BY <1>3, FilingForgets
<1>5. Filed(<<>>) /\ Records(<<>>) = {} /\ <<>> \in Seq(SUBSET Int)
  BY FiledEmpty
<1>6. Filing(All(entries'), Records(blocks'), Omitted', said', lossy', exposed')
  BY <1>1, <1>2, <1>4, <1>5
<1>7. QED BY <1>1, <1>5, <1>6 DEF Accounted

\* With the entries kept from there, everything is accounted for again.
LEMMA DigestFiles ==
    ASSUME Accounted, said \in Nat, All(entries) \in SUBSET (1..said), said' = said,
           exposed' = exposed,
           NEW G, NEW K, All(entries) = G \cup K, Below(G, K),
           NEW q, Digests(q, G, exposed), Summarise(q),
           Ascends(entries'), All(entries') = K
    PROVE  Accounted'
<1>1. /\ Filed(blocks) /\ elided \in Seq(SUBSET Int) /\ Len(elided) = Len(blocks)
      /\ Filing(All(entries), Records(blocks), Omitted, said, lossy, exposed)
  BY DEF Accounted
<1>2. CASE Compose(Build(q))
  <2>1. Below(Records(blocks), G)
    BY <1>1 DEF Filing, Below
  <2>2. PICK X : X = exposed
    OBVIOUS
  <2>3. Divided(G, X)
    <3>1. Digests(q, G, X)
      BY <2>2
    <3>2. /\ Filed(blocks) /\ elided \in Seq(SUBSET Int) /\ Len(elided) = Len(blocks)
          /\ Below(Records(blocks), G) /\ Compose(Build(q))
      BY <1>1, <1>2, <2>1
    <3>3. QED BY ONLY <3>1, <3>2, ComposeFiles
  <2>4. PICK O : /\ Omitted' = Omitted \cup O /\ O \cap Records(blocks') = {}
                 /\ O \cup Records(blocks') \subseteq Records(blocks) \cup G
                 /\ Records(blocks) \cup G \subseteq O \cup Records(blocks') \cup X
    BY <2>3 DEF Divided
  <2>5. Filing(K, Records(blocks'), Omitted', said, lossy, X)
    <3>1. PICK A, R, R2, P : A = All(entries) /\ R = Records(blocks) /\ R2 = Records(blocks')
                             /\ P = Omitted
      OBVIOUS
    <3>2. /\ A \in SUBSET (1..said) /\ Filing(A, R, P, said, lossy, X) /\ A = G \cup K
          /\ O \cap R2 = {} /\ O \cup R2 \subseteq R \cup G
          /\ R \cup G \subseteq O \cup R2 \cup X
      BY <1>1, <2>2, <2>4, <3>1
    <3>3. Filing(K, R2, P \cup O, said, lossy, X)
      <4>1. /\ said \in Nat /\ A \in SUBSET (1..said) /\ Filing(A, R, P, said, lossy, X)
            /\ A = G \cup K /\ Below(G, K)
            /\ O \cap R2 = {} /\ O \cup R2 \subseteq R \cup G
            /\ R \cup G \subseteq O \cup R2 \cup X
        BY <3>2
      <4>2. QED BY ONLY <4>1, FilingMoves
    <3>4. QED BY <2>4, <3>1, <3>3
  <2>6. QED BY <2>2, <2>3, <2>5 DEF Accounted, Divided
<1>3. CASE NoDigest
  <2>1. K \in SUBSET All(entries)
    OBVIOUS
  <2>2. QED BY <1>3, <2>1, ForgetsAccounted
<1>4. QED BY <1>2, <1>3 DEF Summarise

-------------------------------------------------------------------------------
(* Accounted is inductive                                                   *)

LEMMA AccountedFirst == Init => Accounted
<1>1. SUFFICES ASSUME Init PROVE Accounted
  OBVIOUS
<1>2. /\ entries = <<>> /\ blocks = <<>> /\ elided = <<>> /\ said = 0
      /\ shed = {} /\ forgotten = {}
  BY <1>1 DEF Init
<1>3. Ascends(<<>>) /\ All(<<>>) = {} /\ <<>> \in Seq(SUBSET Int)
  BY DEF Ascends, All, IdsIn
<1>4. Filing({}, {}, {}, 0, lossy, exposed)
  BY DEF Filing, Below
<1>5. Omitted = {}
  <2>1. UNION ToSet(<<>>) = {}
    BY DEF ToSet
  <2>2. QED BY <1>2, <2>1 DEF Omitted, Counted
<1>6. QED BY <1>2, <1>3, <1>4, <1>5, FiledEmpty DEF Accounted

\* What is said is in the context, behind everything.
LEMMA SaidAccounted ==
    ASSUME Orderly, Accounted, NEW kind \in {"user", "assistant", "result"}, NEW of \in Int,
           Say(kind, of), exposed \subseteq exposed'
    PROVE  Accounted'
<1>1. PICK size \in Sizes : entries' = Append(entries, Message(said', kind, of, size))
  BY DEF Say
<1>2. said' = said + 1 /\ blocks' = blocks /\ elided' = elided /\ lossy' = lossy
      /\ Omitted' = Omitted
  BY DEF Say, digest, Omitted, Counted
<1>3. /\ said \in Nat /\ compactions \in Nat /\ hidden \in Nat
      /\ Formed(entries, said, hidden, compactions, exposed) /\ entries \in Seq(Entry)
  BY DEF Orderly, Formed
<1>4. PICK e : e = Message(said + 1, kind, of, size)
  OBVIOUS
<1>5. size \in Nat
  BY KeptWindowAssumption
<1>6. e \in Entry /\ e.id = said + 1 /\ IsMessage(e)
  BY <1>3, <1>4, <1>5 DEF Message, Entry, Kinds, IsMessage
<1>7. \A i \in 1..Len(entries) : entries[i].id < e.id
  <2>1. ASSUME NEW i \in 1..Len(entries) PROVE entries[i].id < e.id
    <3>1. entries[i].id <= said
      BY <1>3, NewMessage
    <3>2. entries[i] \in Entry
      BY <1>3, ElementOfSeq
    <3>3. entries[i].id \in Int
      BY <3>2 DEF Entry
    <3>4. QED BY <1>3, <1>6, <3>1, <3>3
  <2>2. QED BY <2>1
<1>8. Ascends(entries') /\ All(entries') = All(entries) \cup {said + 1}
  <2>1. Ascends(entries) /\ entries' = Append(entries, e)
    BY <1>1, <1>2, <1>4 DEF Accounted
  <2>2. /\ Ascends(Append(entries, e))
        /\ All(Append(entries, e)) = All(entries) \cup (IF IsMessage(e) THEN {e.id} ELSE {})
    BY <1>3, <1>6, <1>7, <2>1, AppendIds
  <2>3. QED BY <1>6, <2>1, <2>2
<1>9. Filing(All(entries) \cup {said + 1}, Records(blocks), Omitted, said + 1, lossy, exposed')
  <2>1. PICK A, R, P, X, X1 : A = All(entries) /\ R = Records(blocks) /\ P = Omitted
                              /\ X = exposed /\ X1 = exposed'
    OBVIOUS
  <2>2. A \in SUBSET (1..said) /\ Filing(A, R, P, said, lossy, X) /\ X \subseteq X1
    BY <1>3, <2>1, AllBounded DEF Accounted
  <2>3. Filing(A \cup {said + 1}, R, P, said + 1, lossy, X1)
    BY <1>3, <2>2, FilingSays
  <2>4. QED BY <2>1, <2>3
<1>10. QED BY <1>2, <1>8, <1>9 DEF Accounted

\* A hidden entry changes nothing.
LEMMA HiddenIds ==
    ASSUME NEW es \in Seq(Entry), Ascends(es), NEW e \in Entry, e.kind = "hidden"
    PROVE  Ascends(Append(es, e)) /\ All(Append(es, e)) = All(es)
<1>1. ~IsMessage(e)
  BY DEF IsMessage
<1>2. QED BY <1>1, AppendIds

LEMMA TalkAccounted ==
    ASSUME Orderly, Accounted, User \/ Assistant \/ Result \/ Advisory
    PROVE  Accounted'
<1>1. CASE User
  <2>1. Say("user", 0) /\ exposed \subseteq exposed'
    BY <1>1 DEF User
  <2>2. QED BY <2>1, SaidAccounted
<1>2. CASE Assistant
  <2>1. Say("assistant", 0) /\ exposed \subseteq exposed'
    BY <1>2 DEF Assistant
  <2>2. QED BY <2>1, SaidAccounted
<1>3. CASE Result
  <2>1. PICK of : of = Max({e.id : e \in {x \in ToSet(entries) : x.kind = "assistant"}})
    OBVIOUS
  <2>2. Say("result", of) /\ calls > 0 /\ exposed \subseteq exposed'
    BY <1>3, <2>1 DEF Result
  <2>3. CallOpen(entries) /\ entries \in Seq(Entry)
    BY <2>2 DEF Orderly, Formed
  <2>4. PICK a \in Nat : Newest(entries, a)
    BY <2>3 DEF CallOpen
  <2>5. of \in Int
    BY <2>1, <2>3, <2>4, NewestIsMax
  <2>6. QED BY <2>2, <2>5, SaidAccounted
<1>4. CASE Advisory
  <2>1. /\ entries' = Append(entries, Hidden(hidden + 1)) /\ said' = said
        /\ blocks' = blocks /\ elided' = elided /\ lossy' = lossy /\ exposed' = exposed
        /\ Omitted' = Omitted
    BY <1>4 DEF Advisory, digest, Omitted, Counted
  <2>2. hidden + 1 \in Nat /\ entries \in Seq(Entry) /\ Ascends(entries)
    BY DEF Orderly, Formed, Accounted
  <2>3. PICK e : e = Hidden(hidden + 1)
    OBVIOUS
  <2>4. e \in Entry /\ e.kind = "hidden"
    BY <2>2, <2>3, HiddenEntry
  <2>5. Ascends(entries') /\ All(entries') = All(entries)
    BY <2>1, <2>2, <2>3, <2>4, HiddenIds
  <2>6. QED BY <2>1, <2>5 DEF Accounted
<1>5. QED BY <1>1, <1>2, <1>3, <1>4

\* Kept from u on, with the telemetry entry behind or with none.
LEMMA KeptAndClosed ==
    ASSUME NEW n \in Nat, NEW h \in Nat, NEW k \in Nat, NEW X, NEW es, Formed(es, n, h, k, X),
           Ascends(es), NEW first, Target(es, first),
           NEW u \in 1..(Len(es) + 1), From(es, first, u), NEW e \in Entry, e.kind = "hidden"
    PROVE  LET closed == <<Summary>> \o Kept(es, first) \o <<e>> IN
           Ascends(closed) /\ All(closed) = IdsIn(es, u, Len(es) + 1)
<1>1. PICK kept : kept = <<Summary>> \o Kept(es, first)
  OBVIOUS
<1>2. kept \in Seq(Entry) /\ Ascends(kept) /\ All(kept) = IdsIn(es, u, Len(es) + 1)
  BY <1>1, KeptIds
<1>3. kept \o <<e>> = Append(kept, e)
  BY <1>2, AppendIsConcat
<1>4. Ascends(Append(kept, e)) /\ All(Append(kept, e)) = All(kept)
  BY <1>2, HiddenIds
<1>5. QED BY <1>1, <1>2, <1>3, <1>4

\* The entries with the tip or the telemetry entry say nothing more.
LEMMA OwnIds ==
    ASSUME Orderly, Accounted, NEW e \in {Tip, Telemetry}
    PROVE  /\ e \in Entry /\ e.kind = "hidden"
           /\ Ascends(Append(entries, e)) /\ All(Append(entries, e)) = All(entries)
<1>1. Tip \in Entry /\ Telemetry \in Entry
  BY OwnEntries
<1>2. Tip.kind = "hidden" /\ Telemetry.kind = "hidden"
  BY DEF Tip, Telemetry, Hidden
<1>3. e \in Entry /\ e.kind = "hidden"
  BY <1>1, <1>2
<1>4. entries \in Seq(Entry) /\ Ascends(entries)
  BY DEF Orderly, Formed, Accounted
<1>5. QED BY <1>3, <1>4, HiddenIds

LEMMA SessionBeforeCompactAccounted ==
    ASSUME Orderly, Accounted, SessionBeforeCompact
    PROVE  Accounted'
<1>1. PICK budget \in Budgets, es \in {entries, Append(entries, Tip)} :
        \E q \in Proposals(es, Plans(entries), budget) :
            /\ Summarise(q)
            /\ entries' = <<Summary>> \o Kept(es, q.first) \o <<Telemetry>>
  BY DEF SessionBeforeCompact
<1>2. PICK q \in Proposals(es, Plans(entries), budget) :
        /\ Summarise(q)
        /\ entries' = <<Summary>> \o Kept(es, q.first) \o <<Telemetry>>
  BY <1>1
<1>3. said' = said /\ exposed' = exposed
  BY DEF SessionBeforeCompact
<1>4. PICK k \in {compactions, compactions + 1} :
        /\ Formed(es, said, hidden, k, exposed) /\ Cuttable(es, Plans(entries))
        /\ MayFollow(es, Telemetry)
  BY Projections
<1>5. PICK plans, first : plans = Plans(entries) /\ first = q.first
  OBVIOUS
<1>6. /\ k \in Nat /\ compactions \in Nat /\ said \in Nat /\ hidden \in Nat /\ budget \in Nat
      /\ Formed(entries, said, hidden, compactions, exposed) /\ Len(es) \in Nat
  BY <1>4, LenProperties, KeptWindowAssumption DEF Orderly, Formed
<1>7. Target(es, first)
  BY <1>4, <1>5, <1>6, ProposalTarget
<1>8. PICK e, c : e = Tip /\ c = Telemetry
  OBVIOUS
<1>9. /\ e \in Entry /\ e.kind = "hidden" /\ c \in Entry /\ c.kind = "hidden"
      /\ Ascends(entries) /\ Ascends(es) /\ All(es) = All(entries)
      /\ es = entries \/ es = Append(entries, e)
  <2>1. /\ e \in Entry /\ e.kind = "hidden" /\ Ascends(Append(entries, e))
        /\ All(Append(entries, e)) = All(entries)
    BY <1>8, OwnIds
  <2>2. c \in Entry /\ c.kind = "hidden"
    BY <1>8, OwnIds
  <2>3. Ascends(entries)
    BY DEF Accounted
  <2>4. es = entries \/ es = Append(entries, e)
    BY <1>8
  <2>5. QED BY <2>1, <2>2, <2>3, <2>4
<1>10. PICK u \in 1..(Len(es) + 1) : From(es, first, u) /\ Digests(q, IdsIn(es, 1, u), exposed)
  <2>1. es = entries \/ es = Append(entries, e)
    BY <1>8
  <2>2. \E u \in 1..(Len(es) + 1) : From(es, q.first, u) /\ Digests(q, IdsIn(es, 1, u), exposed)
    BY <1>4, <1>6, <1>9, <2>1, ProposalSpan
  <2>3. QED BY <1>5, <2>2
<1>11. PICK G, K : G = IdsIn(es, 1, u) /\ K = IdsIn(es, u, Len(es) + 1)
  OBVIOUS
<1>12. All(entries) = G \cup K /\ Below(G, K)
  <2>1. 1 \in 1..(Len(es) + 1) /\ u \in 1..(Len(es) + 1) /\ Len(es) + 1 \in u..(Len(es) + 1)
    BY <1>6
  <2>2. IdsIn(es, 1, Len(es) + 1) = G \cup K /\ Below(G, K)
    BY <1>6, <1>9, <1>11, <2>1, IdsSplit
  <2>3. QED BY <1>9, <2>2 DEF All
<1>13. Ascends(entries') /\ All(entries') = K
  <2>1. /\ Ascends(<<Summary>> \o Kept(es, first) \o <<c>>)
        /\ All(<<Summary>> \o Kept(es, first) \o <<c>>) = IdsIn(es, u, Len(es) + 1)
    BY <1>4, <1>6, <1>7, <1>9, <1>10, KeptAndClosed
  <2>2. QED BY <1>2, <1>5, <1>8, <1>11, <2>1
<1>14. All(entries) \in SUBSET (1..said)
  BY <1>6, AllBounded
<1>15. Digests(q, G, exposed)
  BY <1>10, <1>11
<1>16. QED BY <1>2, <1>3, <1>6, <1>12, <1>13, <1>14, <1>15, DigestFiles

LEMMA MidtermAccounted ==
    ASSUME Orderly, Accounted, Midterm
    PROVE  Accounted'
<1>1. PICK q \in Proposals(entries, Plans(entries), DefaultBudget) :
        /\ Summarise(q)
        /\ entries' = <<Summary>> \o Kept(Append(entries, Telemetry), q.first)
  BY DEF Midterm
<1>2. said' = said /\ exposed' = exposed
  BY DEF Midterm
<1>3. PICK plans, first, k1, e : plans = Plans(entries) /\ first = q.first
        /\ k1 = compactions + 1 /\ e = Telemetry
  OBVIOUS
<1>4. /\ compactions \in Nat /\ k1 \in Nat /\ compactions <= k1 /\ said \in Nat
      /\ said <= said /\ hidden <= hidden /\ hidden \in Nat /\ DefaultBudget \in Nat
      /\ Formed(entries, said, hidden, compactions, exposed) /\ entries \in Seq(Entry)
      /\ Ascends(entries) /\ Len(entries) \in Nat
  BY <1>3, LenProperties, KeptWindowAssumption DEF Orderly, Formed, Accounted
<1>5. Cuttable(entries, plans)
  BY <1>3, <1>4, PlansCuttable
<1>6. Target(entries, first)
  BY <1>3, <1>4, <1>5, ProposalTarget
<1>7. e \in Entry /\ EntryFor(e, said, hidden, k1) /\ MayFollow(entries, e) /\ e.kind = "hidden"
  BY <1>3, OwnEntries
<1>8. PICK es : es = Append(entries, e)
  OBVIOUS
<1>9. /\ Formed(es, said, hidden, k1, exposed) /\ Target(es, first)
      /\ Ascends(es) /\ All(es) = All(entries)
  <2>1. Formed(Append(entries, e), said, hidden, k1, exposed)
    BY <1>4, <1>7, FormedHidden
  <2>2. Target(Append(entries, e), first)
    BY <1>4, <1>6, <1>7, TargetAppend
  <2>3. Ascends(Append(entries, e)) /\ All(Append(entries, e)) = All(entries)
    BY <1>3, OwnIds
  <2>4. QED BY <1>8, <2>1, <2>2, <2>3
<1>10. /\ Len(es) = Len(entries) + 1 /\ \A j \in 1..Len(entries) : es[j] = entries[j]
       /\ es[Len(entries) + 1] = e
  BY <1>4, <1>7, <1>8, AppendedEntries
<1>11. PICK u \in 1..(Len(entries) + 1) :
          From(entries, first, u) /\ Digests(q, IdsIn(entries, 1, u), exposed)
  <2>1. \E u \in 1..(Len(entries) + 1) :
          From(entries, q.first, u) /\ Digests(q, IdsIn(entries, 1, u), exposed)
    BY <1>4, <1>7, ProposalSpan
  <2>2. QED BY <1>3, <2>1
<1>12. PICK G, K : G = IdsIn(entries, 1, u) /\ K = IdsIn(entries, u, Len(entries) + 1)
  OBVIOUS
<1>13. All(entries) = G \cup K /\ Below(G, K)
  <2>1. 1 \in 1..(Len(entries) + 1) /\ u \in 1..(Len(entries) + 1)
        /\ Len(entries) + 1 \in u..(Len(entries) + 1)
    BY <1>4
  <2>2. IdsIn(entries, 1, Len(entries) + 1) = G \cup K /\ Below(G, K)
    BY <1>4, <1>12, <2>1, IdsSplit
  <2>3. QED BY <2>2 DEF All
<1>14. \E v \in 1..(Len(es) + 1) : From(es, first, v) /\ IdsIn(es, v, Len(es) + 1) = K
  <2>1. CASE u <= Len(entries)
    <3>1. u \in 1..(Len(es) + 1) /\ u \in 1..Len(entries) /\ u <= Len(es)
      BY <1>4, <1>10, <2>1
    <3>2. From(es, first, u)
      BY <1>10, <1>11, <2>1, <3>1 DEF From
    <3>3. u..((Len(es) + 1) - 1) = u..((Len(entries) + 1) - 1) \cup {Len(entries) + 1}
      BY <1>4, <1>10, <3>1
    <3>4. \A x \in u..((Len(entries) + 1) - 1) : es[x] = entries[x]
      BY <1>4, <1>10, <3>1
    <3>5. ~IsMessage(es[Len(entries) + 1])
      BY <1>7, <1>10 DEF IsMessage
    <3>6. IdsIn(es, u, Len(es) + 1) = IdsIn(entries, u, Len(entries) + 1)
      BY <3>3, <3>4, <3>5 DEF IdsIn
    <3>7. QED BY <1>12, <3>1, <3>2, <3>6
  <2>2. CASE ~(u <= Len(entries))
    <3>1. u = Len(entries) + 1 /\ first = KeepNone
      BY <1>4, <1>11, <2>2 DEF From
    <3>2. PICK v : v = Len(es) + 1
      OBVIOUS
    <3>3. v \in 1..(Len(es) + 1) /\ ~(v <= Len(es)) /\ v \in Nat /\ u \in Nat
      BY <1>4, <1>10, <3>1, <3>2
    <3>4. IdsIn(es, v, v) = {} /\ IdsIn(entries, u, u) = {}
      BY <3>3, TellsNothing
    <3>5. QED BY <1>12, <3>1, <3>2, <3>3, <3>4 DEF From
  <2>3. QED BY <2>1, <2>2
<1>15. Ascends(entries') /\ All(entries') = K
  <2>1. PICK v \in 1..(Len(es) + 1) : From(es, first, v) /\ IdsIn(es, v, Len(es) + 1) = K
    BY <1>14
  <2>2. /\ Ascends(<<Summary>> \o Kept(es, first))
        /\ All(<<Summary>> \o Kept(es, first)) = IdsIn(es, v, Len(es) + 1)
    BY <1>4, <1>9, <2>1, KeptIds
  <2>3. QED BY <1>1, <1>3, <1>8, <2>1, <2>2
<1>16. All(entries) \in SUBSET (1..said)
  BY <1>4, AllBounded
<1>17. Digests(q, G, exposed)
  BY <1>11, <1>12
<1>18. QED BY <1>1, <1>2, <1>4, <1>13, <1>15, <1>16, <1>17, DigestFiles

LEMMA PiCompactAccounted ==
    ASSUME Orderly, Accounted, PiCompact
    PROVE  Accounted'
<1>1. PICK p \in Plans(entries) :
        entries' = <<Summary>> \o Kept(entries, p.first) \o <<Telemetry>>
  BY DEF PiCompact
<1>2. NoDigest /\ exposed' = exposed /\ said' = said
  BY DEF PiCompact
<1>3. PICK first, e, es, k : first = p.first /\ e = Telemetry /\ es = entries /\ k = compactions
  OBVIOUS
<1>4. /\ k \in Nat /\ said \in Nat /\ hidden \in Nat /\ Formed(es, said, hidden, k, exposed)
      /\ es \in Seq(Entry) /\ Ascends(es) /\ Len(es) \in Nat
  BY <1>3, LenProperties DEF Orderly, Formed, Accounted
<1>5. Target(es, first)
  BY <1>3, <1>4, PlanTarget
<1>6. e \in Entry /\ e.kind = "hidden"
  BY <1>3, OwnIds
<1>7. PICK u \in 1..(Len(es) + 1) : KeptFrom(es, first, u)
  BY <1>4, <1>5, KeptBehind
<1>8. From(es, first, u)
  <2>1. CASE u <= Len(es)
    <3>1. u \in 1..Len(es)
      BY <1>4, <2>1
    <3>2. QED BY <1>7, <2>1, <3>1 DEF KeptFrom, From
  <2>2. CASE ~(u <= Len(es))
    <3>1. u = Len(es) + 1
      BY <1>4, <2>2
    <3>2. QED BY <1>7, <2>2, <3>1 DEF KeptFrom, From
  <2>3. QED BY <2>1, <2>2
<1>9. PICK G, K : G = IdsIn(es, 1, u) /\ K = IdsIn(es, u, Len(es) + 1)
  OBVIOUS
<1>10. K \in SUBSET All(es)
  <2>1. 1 \in 1..(Len(es) + 1) /\ u \in 1..(Len(es) + 1) /\ Len(es) + 1 \in u..(Len(es) + 1)
    BY <1>4
  <2>2. IdsIn(es, 1, Len(es) + 1) = G \cup K
    BY <1>4, <1>9, <2>1, IdsSplit
  <2>3. QED BY <2>2 DEF All
<1>11. Ascends(entries') /\ All(entries') = K
  <2>1. /\ Ascends(<<Summary>> \o Kept(es, first) \o <<e>>)
        /\ All(<<Summary>> \o Kept(es, first) \o <<e>>) = IdsIn(es, u, Len(es) + 1)
    BY <1>4, <1>5, <1>6, <1>8, KeptAndClosed
  <2>2. QED BY <1>1, <1>3, <1>9, <2>1
<1>12. K \in SUBSET All(entries)
  BY <1>3, <1>10
<1>13. QED BY <1>2, <1>4, <1>11, <1>12, ForgetsAccounted

LEMMA AccountedStep == Orderly /\ Accounted /\ [Next]_vars => Accounted'
<1>1. SUFFICES ASSUME Orderly, Accounted, [Next]_vars PROVE Accounted'
  OBVIOUS
<1>2. CASE UNCHANGED vars
  BY <1>1, <1>2 DEF vars, digest, Accounted, Omitted, Counted
<1>3. CASE User \/ Assistant \/ Result \/ Advisory
  BY <1>1, <1>3, TalkAccounted
<1>4. CASE SessionBeforeCompact
  BY <1>1, <1>4, SessionBeforeCompactAccounted
<1>5. CASE PiCompact
  BY <1>1, <1>5, PiCompactAccounted
<1>6. CASE Midterm
  BY <1>1, <1>6, MidtermAccounted
<1>7. QED BY <1>1, <1>2, <1>3, <1>4, <1>5, <1>6 DEF Next

LEMMA AlwaysAccounted == Spec => []Accounted
BY AccountedStep, AccountedFirst, AlwaysOrderly, PTL DEF Spec

-------------------------------------------------------------------------------
(* Nothing is lost and the order is kept                                    *)

\* What the digest and the context say, as sets of ids.
LEMMA WhatIsTold ==
    ASSUME Orderly, Accounted
    PROVE  /\ Rising(Verbatim) /\ Elems(Verbatim) = All(entries)
           /\ Rising(Recorded) /\ Elems(Recorded) = Records(blocks)
<1>1. entries \in Seq(Entry) /\ Ascends(entries) /\ Len(entries) \in Nat /\ Filed(blocks)
  BY LenProperties DEF Orderly, Formed, Accounted
<1>2. PICK ms : ms = MessagesOf(entries)
  OBVIOUS
<1>3. Tells(entries, ms, 1, Len(entries) + 1)
  <2>1. PICK es, n : es = entries /\ n = Len(entries)
    OBVIOUS
  <2>2. 1 \in 1..(n + 1) /\ n + 1 \in 1..(n + 1) /\ (n + 1) - 1 = n
    BY <1>1, <2>1
  <2>3. SubSeq(es, 1, (n + 1) - 1) = es
    BY <1>1, <2>1, <2>2, SubSeqFull
  <2>4. Messages(es, 1, n + 1) = ms
    BY <1>2, <2>1, <2>3 DEF Messages
  <2>5. Tells(es, Messages(es, 1, n + 1), 1, n + 1)
    BY <1>1, <2>1, <2>2, MessagesTell
  <2>6. QED BY <2>1, <2>4, <2>5
<1>4. Rising(Verbatim) /\ Elems(Verbatim) = All(entries)
  BY <1>2, <1>3 DEF Verbatim, Tells, All
<1>5. Rising(ToldBy(blocks)) /\ Elems(ToldBy(blocks)) = Records(blocks)
  BY <1>1, ToldByFiled
<1>6. QED BY <1>4, <1>5 DEF Recorded

LEMMA NothingLostHolds == Orderly /\ Accounted => NothingLost
<1>1. SUFFICES ASSUME Orderly, Accounted PROVE NothingLost
  OBVIOUS
<1>2. /\ Rising(Verbatim) /\ Elems(Verbatim) = All(entries)
      /\ Rising(Recorded) /\ Elems(Recorded) = Records(blocks)
  BY <1>1, WhatIsTold
<1>3. ToSet(Verbatim) = All(entries) /\ ToSet(Recorded) = Records(blocks)
  BY <1>2, SetOfElems DEF Rising
<1>4. ~lossy => 1..said \subseteq Records(blocks) \cup All(entries) \cup Omitted \cup exposed
  BY <1>1 DEF Accounted, Filing
<1>5. QED BY <1>3, <1>4 DEF NothingLost

LEMMA ChronologicalHolds == Orderly /\ Accounted => Chronological
<1>1. SUFFICES ASSUME Orderly, Accounted PROVE Chronological
  OBVIOUS
<1>2. /\ Rising(Verbatim) /\ Elems(Verbatim) = All(entries)
      /\ Rising(Recorded) /\ Elems(Recorded) = Records(blocks)
  BY <1>1, WhatIsTold
<1>3. /\ Below(Records(blocks), All(entries))
      /\ Omitted \cap (Records(blocks) \cup All(entries)) = {}
  BY <1>1 DEF Accounted, Filing
<1>4. PICK order : order = Recorded \o Verbatim
  OBVIOUS
<1>5. Rising(order) /\ Elems(order) = Records(blocks) \cup All(entries)
  <2>1. PICK q, r : q = Recorded /\ r = Verbatim
    OBVIOUS
  <2>2. Rising(q) /\ Rising(r) /\ Below(Elems(q), Elems(r))
    BY <1>2, <1>3, <2>1
  <2>3. Rising(q \o r) /\ Elems(q \o r) = Elems(q) \cup Elems(r)
    BY <2>2, RisingConcat
  <2>4. QED BY <1>2, <1>4, <2>1, <2>3
<1>6. order \in Seq(Int) /\ DOMAIN order = 1..Len(order)
  BY <1>5, LenProperties DEF Rising
<1>7. \A i, j \in DOMAIN order : i < j => order[i] < order[j]
  BY <1>5, <1>6 DEF Rising
<1>8. ToSet(order) = Records(blocks) \cup All(entries)
  BY <1>5, <1>6, SetOfElems
<1>9. ToSet(order) \cap Omitted = {}
  BY <1>3, <1>8
<1>10. QED BY <1>4, <1>7, <1>9 DEF Chronological

\* However often the session was compacted, every message is in the context, has a line
\* in the digest, is counted by the summary or was counted by an earlier one, unless a
\* compaction went without a digest; but for a result that a hidden entry separates from
\* its call, which may begin a span that a line says nothing of.
THEOREM NothingIsLost == Spec => []NothingLost
<1>1. Orderly /\ Accounted => NothingLost
  BY NothingLostHolds
<1>2. QED BY <1>1, AlwaysAccounted, AlwaysOrderly, PTL

\* The digest and the context behind it tell the conversation once and in order, whatever
\* the sizes, the budgets, the caps of the digest and the bounds.
THEOREM ToldInOrder == Spec => []Chronological
BY AlwaysAccounted, AlwaysOrderly, ChronologicalHolds, PTL

-------------------------------------------------------------------------------
(* The caps of the digest                                                   *)

\* The caps of the digest.
Capped(bs) ==
    /\ Len(bs) <= MaxBlocks
    /\ Len(bs) > 1 => LineCount(bs) <= MaxRegion
    /\ \A i \in 1..Len(bs) : Len(bs[i]) \in 1..MaxTurns
Within ==
    /\ calls \in 0..2 /\ lossy \in BOOLEAN
    /\ said \in 0..MessageLimit /\ hidden \in 0..HiddenLimit
    /\ Capped(blocks)

\* compose keeps to the caps, whatever the new block is.
LEMMA SummariseCapped ==
    ASSUME Filed(blocks), elided \in Seq(SUBSET Int), Capped(blocks),
           NEW p, Build(p) \in Seq(Line), Spread(Of(Build(p))), Summarise(p)
    PROVE  Capped(blocks') /\ lossy' \in {lossy, TRUE}
<1>1. MaxBlocks \in Nat /\ MaxBlocks > 0 /\ MaxTurns \in Nat /\ MaxRegion \in Nat
  BY KeptWindowAssumption
<1>2. CASE NoDigest
  <2>1. blocks' = <<>> /\ lossy' = TRUE
    BY <1>2 DEF NoDigest
  <2>2. Len(<<>>) = 0
    OBVIOUS
  <2>3. QED BY <1>1, <2>1, <2>2 DEF Capped
<1>3. CASE Compose(Build(p))
  <2>10. PICK lines, rest :
          /\ lines = Build(p) /\ rest = SubSeq(lines, Len(Shown(lines)) + 1, Len(lines))
    OBVIOUS
  <2>2. blocks \in Seq(Seq(Line)) /\ lines \in Seq(Line) /\ Spread(Of(lines))
    BY <2>10 DEF Filed
  <2>11. ToSet(Told(rest)) \in SUBSET Int
    <3>1. PICK m \in 0..Len(lines) : Shown(lines) = SubSeq(lines, 1, m) /\ Len(Shown(lines)) = m
      BY <2>2, ShownCount
    <3>2. rest \in Seq(Line) /\ Spread(Of(rest))
      BY <2>2, <2>10, <3>1, LinesParts
    <3>3. Told(rest) \in Seq(Int)
      BY <3>2, ToldRises
    <3>4. DOMAIN Told(rest) = 1..Len(Told(rest))
          /\ \A i \in 1..Len(Told(rest)) : Told(rest)[i] \in Int
      BY <3>3, LenProperties, ElementOfSeq
    <3>5. QED BY <3>4 DEF ToSet
  <2>12. PICK bs, ms, n : Composed(lines, rest, bs, ms, n)
    <3>1. Compose(lines)
      BY <1>3, <2>10
    <3>2. QED BY <2>2, <2>10, <2>11, <3>1, ComposeIsComposed
  <2>1. /\ bs = IF lines = <<>> THEN blocks ELSE Append(blocks, Shown(lines))
        /\ n = Surplus(bs) /\ blocks' = SubSeq(bs, n + 1, Len(bs)) /\ lossy' = lossy
    BY <2>12 DEF Composed
  <2>3. bs \in Seq(Seq(Line)) /\ \A i \in 1..Len(bs) : Len(bs[i]) \in 1..MaxTurns
    <3>1. CASE lines = <<>>
      BY <2>1, <2>2, <3>1 DEF Capped
    <3>2. CASE lines # <<>>
      <4>1. PICK m \in 0..Len(lines) :
              /\ Shown(lines) = SubSeq(lines, 1, m) /\ Len(Shown(lines)) = m
              /\ m <= MaxTurns /\ (lines # <<>> => m > 0)
        BY <2>2, ShownCount
      <4>2. PICK b : b = Shown(lines)
        OBVIOUS
      <4>3. b \in Seq(Line) /\ Len(b) = m /\ m \in 1..MaxTurns
        <5>1. SubSeq(lines, 1, m) \in Seq(Line) /\ Len(lines) \in Nat
          BY <2>2, <4>1, SplitAt, LenProperties
        <5>2. m \in 1..MaxTurns
          BY <1>1, <3>2, <4>1, <5>1
        <5>3. QED BY <4>1, <4>2, <5>1, <5>2
      <4>4. bs = Append(blocks, b)
        BY <2>1, <3>2, <4>2
      <4>5. /\ bs \in Seq(Seq(Line)) /\ Len(bs) = Len(blocks) + 1 /\ Len(blocks) \in Nat
            /\ \A i \in 1..Len(blocks) : bs[i] = blocks[i]
            /\ bs[Len(blocks) + 1] = b
        BY <2>2, <4>3, <4>4, AppendElements
      <4>6. ASSUME NEW i \in 1..Len(bs) PROVE Len(bs[i]) \in 1..MaxTurns
        <5>1. CASE i \in 1..Len(blocks)
          BY <4>5, <5>1 DEF Capped
        <5>2. CASE i = Len(blocks) + 1
          BY <4>3, <4>5, <5>2
        <5>3. QED BY <4>5, <5>1, <5>2
      <4>7. QED BY <4>5, <4>6
    <3>3. QED BY <3>1, <3>2
  <2>4. /\ n \in 0..Len(bs)
        /\ \/ n + 1 >= Len(bs)
           \/ /\ Len(bs) - n <= MaxBlocks
              /\ LineCount(SubSeq(bs, n + 1, Len(bs))) <= MaxRegion
    BY <2>1, <2>3, SurplusCount
  <2>5. PICK new : new = SubSeq(bs, n + 1, Len(bs))
    OBVIOUS
  <2>6. /\ Len(new) = Len(bs) - n /\ Len(bs) \in Nat
        /\ \A i \in 1..(Len(bs) - n) : new[i] = bs[n + i]
    BY <2>3, <2>4, <2>5, SplitAt
  <2>7. ASSUME NEW i \in 1..Len(new) PROVE Len(new[i]) \in 1..MaxTurns
    <3>1. new[i] = bs[n + i] /\ n + i \in 1..Len(bs)
      BY <2>4, <2>6
    <3>2. QED BY <2>3, <3>1
  <2>8. Len(new) <= MaxBlocks /\ (Len(new) > 1 => LineCount(new) <= MaxRegion)
    <3>1. PICK len, k, lc : len = Len(bs) /\ k = Len(new) /\ lc = LineCount(new)
      OBVIOUS
    <3>2. k = len - n /\ len \in Nat /\ n \in 0..len
      BY <2>4, <2>6, <3>1
    <3>3. n + 1 >= len \/ (len - n <= MaxBlocks /\ lc <= MaxRegion)
      BY <2>4, <2>5, <3>1
    <3>4. k <= MaxBlocks /\ (k > 1 => lc <= MaxRegion)
      BY <1>1, <3>2, <3>3
    <3>5. QED BY <3>1, <3>4
  <2>9. QED BY <2>1, <2>5, <2>7, <2>8 DEF Capped
<1>4. QED BY <1>2, <1>3 DEF Summarise

LEMMA SessionBeforeCompactWithin ==
    ASSUME Orderly, Accounted, Within, SessionBeforeCompact
    PROVE  Within'
<1>1. PICK budget \in Budgets, es \in {entries, Append(entries, Tip)} :
        \E q \in Proposals(es, Plans(entries), budget) : Summarise(q)
  BY DEF SessionBeforeCompact
<1>2. PICK q \in Proposals(es, Plans(entries), budget) : Summarise(q)
  BY <1>1
<1>3. calls' = calls /\ said' = said /\ hidden' = hidden
  BY DEF SessionBeforeCompact
<1>4. PICK k \in {compactions, compactions + 1} : Formed(es, said, hidden, k, exposed)
  BY Projections
<1>5. PICK e : e = Tip
  OBVIOUS
<1>6. /\ k \in Nat /\ compactions \in Nat /\ said \in Nat /\ hidden \in Nat /\ budget \in Nat
      /\ Formed(entries, said, hidden, compactions, exposed) /\ Filed(blocks)
  BY <1>4, KeptWindowAssumption DEF Orderly, Accounted
<1>7. /\ e \in Entry /\ e.kind = "hidden" /\ Ascends(entries) /\ Ascends(es)
      /\ es = entries \/ es = Append(entries, e)
  <2>1. e \in Entry /\ e.kind = "hidden" /\ Ascends(Append(entries, e))
    BY <1>5, OwnIds
  <2>2. Ascends(entries)
    BY DEF Accounted
  <2>3. es = entries \/ es = Append(entries, e)
    BY <1>5
  <2>4. QED BY <2>1, <2>2, <2>3
<1>8. Build(q) \in Seq(Line) /\ Spread(Of(Build(q)))
  <2>1. es = entries \/ es = Append(entries, e)
    BY <1>7
  <2>2. \E u \in 1..(Len(es) + 1) : From(es, q.first, u) /\ Digests(q, IdsIn(es, 1, u), exposed)
    BY <1>4, <1>6, <1>7, <2>1, ProposalSpan
  <2>3. QED BY <2>2 DEF Digests
<1>9. Capped(blocks') /\ lossy' \in {lossy, TRUE}
  BY <1>2, <1>6, <1>8, SummariseCapped DEF Within, Accounted
<1>10. lossy' \in BOOLEAN
  BY <1>9 DEF Within
<1>11. QED BY <1>3, <1>9, <1>10 DEF Within

LEMMA MidtermWithin ==
    ASSUME Orderly, Accounted, Within, Midterm
    PROVE  Within'
<1>1. PICK q \in Proposals(entries, Plans(entries), DefaultBudget) :
        Summarise(q)
  BY DEF Midterm
<1>2. calls' = calls /\ said' = said /\ hidden' = hidden
  BY DEF Midterm
<1>3. PICK e : e = Telemetry
  OBVIOUS
<1>4. /\ compactions \in Nat /\ said \in Nat /\ hidden \in Nat /\ DefaultBudget \in Nat
      /\ Formed(entries, said, hidden, compactions, exposed) /\ Filed(blocks) /\ Ascends(entries)
      /\ e \in Entry /\ e.kind = "hidden"
  BY <1>3, OwnIds, KeptWindowAssumption DEF Orderly, Accounted
<1>5. Build(q) \in Seq(Line) /\ Spread(Of(Build(q)))
  <2>1. \E u \in 1..(Len(entries) + 1) :
          From(entries, q.first, u) /\ Digests(q, IdsIn(entries, 1, u), exposed)
    BY <1>4, ProposalSpan
  <2>2. QED BY <2>1 DEF Digests
<1>6. Capped(blocks') /\ lossy' \in {lossy, TRUE}
  BY <1>1, <1>4, <1>5, SummariseCapped DEF Within, Accounted
<1>7. lossy' \in BOOLEAN
  BY <1>6 DEF Within
<1>8. QED BY <1>2, <1>6, <1>7 DEF Within

LEMMA WithinFirst == Init => Within
<1>1. SUFFICES ASSUME Init PROVE Within
  OBVIOUS
<1>2. /\ MessageLimit \in Nat /\ HiddenLimit \in Nat /\ MaxBlocks \in Nat /\ Len(<<>>) = 0
  BY KeptWindowAssumption
<1>3. Capped(<<>>)
  BY <1>2 DEF Capped
<1>4. /\ calls = 0 /\ lossy = FALSE /\ said = 0 /\ hidden = 0 /\ blocks = <<>>
  BY <1>1 DEF Init
<1>5. Capped(blocks)
  BY <1>3, <1>4
<1>6. calls \in 0..2 /\ said \in 0..MessageLimit /\ hidden \in 0..HiddenLimit
  BY <1>2, <1>4
<1>7. lossy \in BOOLEAN
  BY <1>4
<1>8. QED BY <1>5, <1>6, <1>7 DEF Within

LEMMA WithinStep == Orderly /\ Accounted /\ Within /\ [Next]_vars => Within'
<1>1. SUFFICES ASSUME Orderly, Accounted, Within, [Next]_vars PROVE Within'
  OBVIOUS
<1>2. /\ MessageLimit \in Nat /\ HiddenLimit \in Nat
      /\ calls \in 0..2 /\ said \in 0..MessageLimit /\ hidden \in 0..HiddenLimit
      /\ lossy \in BOOLEAN /\ Capped(blocks)
  BY <1>1, KeptWindowAssumption DEF Within
<1>3. CASE UNCHANGED vars
  BY <1>1, <1>3 DEF vars, digest, Within
<1>4. CASE User \/ Assistant \/ Result
  <2>1. /\ said < MessageLimit /\ said' = said + 1 /\ blocks' = blocks /\ lossy' = lossy
        /\ hidden' = hidden
    BY <1>4 DEF User, Assistant, Result, Say, digest
  <2>2. said' \in 0..MessageLimit
    BY <1>2, <2>1
  <2>3. calls' \in 0..2
    BY <1>2, <1>4 DEF User, Assistant, Result
  <2>4. QED BY <1>2, <2>1, <2>2, <2>3 DEF Within
<1>5. CASE Advisory
  <2>1. /\ hidden < HiddenLimit /\ hidden' = hidden + 1 /\ blocks' = blocks /\ lossy' = lossy
        /\ calls' = calls /\ said' = said
    BY <1>5 DEF Advisory, digest
  <2>2. hidden' \in 0..HiddenLimit
    BY <1>2, <2>1
  <2>3. QED BY <1>2, <2>1, <2>2 DEF Within
<1>6. CASE PiCompact
  <2>1. blocks' = <<>> /\ lossy' = TRUE /\ calls' = calls /\ said' = said /\ hidden' = hidden
    BY <1>6 DEF PiCompact, NoDigest
  <2>2. Capped(<<>>)
    <3>1. MaxBlocks \in Nat /\ Len(<<>>) = 0
      BY KeptWindowAssumption
    <3>2. QED BY <3>1 DEF Capped
  <2>3. QED BY <1>2, <2>1, <2>2 DEF Within
<1>7. CASE SessionBeforeCompact
  BY <1>1, <1>7, SessionBeforeCompactWithin
<1>8. CASE Midterm
  BY <1>1, <1>8, MidtermWithin
<1>9. QED BY <1>1, <1>3, <1>4, <1>5, <1>6, <1>7, <1>8 DEF Next

LEMMA TypesHold == Orderly /\ Accounted /\ Within => TypeOK
<1>1. SUFFICES ASSUME Orderly, Accounted, Within PROVE TypeOK
  OBVIOUS
<1>2. /\ Formed(entries, said, hidden, compactions, exposed) /\ entries \in Seq(Entry)
      /\ blocks \in Seq(Seq(Line)) /\ Omitted \subseteq 1..said
      /\ Len(elided) = Len(blocks) /\ exposed \subseteq 1..said
  BY <1>1 DEF Orderly, Formed, Accounted, Filed, Filing
<1>3. ToSet(entries) = Elems(entries) /\ ToSet(blocks) = Elems(blocks)
  BY <1>2, SetOfElems
<1>4. ASSUME NEW e \in ToSet(entries)
      PROVE  /\ e.kind \in {"user", "assistant", "result", "hidden", "summary"}
             /\ e.size \in Sizes \cup {0}
  <2>1. PICK i \in 1..Len(entries) : e = entries[i]
    BY <1>3 DEF Elems
  <2>2. e \in Entry /\ EntryFor(e, said, hidden, compactions)
    BY <1>2, <2>1, ElementOfSeq DEF Formed
  <2>3. QED BY <2>2 DEF Entry, Kinds, EntryFor
<1>5. ASSUME NEW b \in ToSet(blocks) PROVE Len(b) \in 1..MaxTurns
  BY <1>1, <1>3 DEF Elems, Within, Capped
<1>6. QED BY <1>1, <1>2, <1>4, <1>5 DEF TypeOK, Within, Capped

\* The summary never holds more blocks or lines than the digest's caps, however many
\* compactions made it.
THEOREM TypeCorrect == Spec => []TypeOK
BY WithinFirst, WithinStep, TypesHold, AlwaysAccounted, AlwaysOrderly, PTL DEF Spec

=============================================================================
