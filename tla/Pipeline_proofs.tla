--------------------------- MODULE Pipeline_proofs ---------------------------
(***************************************************************************)
(* Theorems about Pipeline, for every provider, tool list, listing, set of *)
(* switches, quantum, margin, marker budget and bound, however the history *)
(* grows and is compacted between requests.                                *)
(***************************************************************************)
EXTENDS Pipeline, FiniteSetTheorems, SequenceTheorems, WellFoundedInduction, TLAPS

-------------------------------------------------------------------------------
(* Finite sets, and the recursion over the subsets of a finite set that     *)
(* the folds of the community modules are.  Induction goes by a minimal     *)
(* counterexample, a set, so no operator is a parameter.                    *)

\* The larger of two numbers.
LEMMA MaxOfTwo ==
    ASSUME NEW a \in Int, NEW b \in Int
    PROVE  Max({a, b}) = IF a >= b THEN a ELSE b
<1>1. \E x \in {a, b} : \A y \in {a, b} : x >= y
  OBVIOUS
<1>2. Max({a, b}) \in {a, b} /\ \A y \in {a, b} : Max({a, b}) >= y
  BY <1>1 DEF Max
<1>3. QED BY <1>2

\* A set of subsets of a finite set has a minimal element.
LEMMA MinimalSubset ==
    ASSUME NEW S, IsFiniteSet(S), NEW T \in SUBSET SUBSET S, T # {}
    PROVE  \E x \in T : \A y \in T : y \subseteq x => y = x
<1>1. FiniteSubsetsOf(S) = SUBSET S
  BY FS_FiniteSubsetsOfFinite
<1>2. IsWellFoundedOn(StrictSubsetOrdering(S), SUBSET S)
  BY <1>1, FS_StrictSubsetOrderingWellFounded
<1>3. PICK x \in T : \A y \in T : ~(<<y, x>> \in StrictSubsetOrdering(S))
  BY <1>2, WFMin
<1>4. QED BY <1>3 DEF StrictSubsetOrdering

\* A set of naturals has a least element.
LEMMA LeastNatural ==
    ASSUME NEW S \in SUBSET Nat, S # {}
    PROVE  \E x \in S : \A y \in S : x <= y
<1>1. PICK n \in S : TRUE
  OBVIOUS
<1> DEFINE upTo == 1..n
           T == {1..x : x \in {y \in S : y <= n}}
<1>2. T \in SUBSET SUBSET upTo /\ T # {}
  BY <1>1
<1>3. IsFiniteSet(upTo)
  BY <1>1, FS_Interval
<1>4. PICK t \in T : \A u \in T : u \subseteq t => u = t
  <2> HIDE DEF T, upTo
  <2>1. QED BY <1>2, <1>3, MinimalSubset
<1>5. PICK x \in S : x <= n /\ t = 1..x
  BY <1>4
<1>6. ASSUME NEW y \in S, ~(x <= y) PROVE FALSE
  <2>1. y < x /\ y <= n /\ y \in Nat /\ x \in Nat
    BY <1>1, <1>5, <1>6
  <2>2. 1..y \in T /\ 1..y \subseteq t
    BY <1>5, <2>1
  <2>3. x \in 1..x /\ x \notin 1..y
    BY <2>1
  <2>4. QED BY <1>4, <1>5, <2>2, <2>3
<1>7. QED BY <1>6

\* pick chooses from every nonempty subset, and g recurs by it.
Picks(S, pick) == \A s \in SUBSET S : s # {} => pick[s] \in s

Follows(S, base, pick, step, g) ==
    \A s \in SUBSET S : g[s] = IF s = {} THEN base ELSE step[<<pick[s], g[s \ {pick[s]}]>>]

\* Two functions that follow the same recursion agree.
LEMMA RecursionIsUnique ==
    ASSUME NEW S, IsFiniteSet(S), NEW base, NEW pick, NEW step, Picks(S, pick),
           NEW g, Follows(S, base, pick, step, g), NEW h, Follows(S, base, pick, step, h)
    PROVE  \A s \in SUBSET S : g[s] = h[s]
<1> DEFINE T == {s \in SUBSET S : g[s] # h[s]}
<1>1. SUFFICES ASSUME T # {} PROVE FALSE
  OBVIOUS
<1>2. T \in SUBSET SUBSET S
  OBVIOUS
<1>3. PICK s \in T : \A r \in T : r \subseteq s => r = s
  <2> HIDE DEF T
  <2>1. QED BY <1>1, <1>2, MinimalSubset
<1>4. s \in SUBSET S /\ g[s] # h[s]
  BY <1>3
<1>5. s # {} /\ pick[s] \in s
  BY <1>4 DEF Picks, Follows
<1>6. s \ {pick[s]} \notin T /\ s \ {pick[s]} \in SUBSET S
  BY <1>3, <1>4, <1>5
<1>7. g[s \ {pick[s]}] = h[s \ {pick[s]}]
  BY <1>6
<1>8. QED BY <1>4, <1>5, <1>7 DEF Follows

\* There is one that does.
LEMMA Recursion ==
    ASSUME NEW S, IsFiniteSet(S), NEW V, NEW base \in V, NEW pick, NEW step \in [S \X V -> V],
           Picks(S, pick)
    PROVE  \E g \in [SUBSET S -> V] : Follows(S, base, pick, step, g)
<1> DEFINE Solves(t, h) == Follows(t, base, pick, step, h)
           T == {t \in SUBSET S : ~\E h \in [SUBSET t -> V] : Solves(t, h)}
<1>1. SUFFICES ASSUME T # {} PROVE FALSE
  OBVIOUS
<1>2. T \in SUBSET SUBSET S
  OBVIOUS
<1>3. PICK t \in T : \A r \in T : r \subseteq t => r = t
  <2> HIDE DEF T
  <2>1. QED BY <1>1, <1>2, MinimalSubset
<1>4. t \in SUBSET S /\ ~\E h \in [SUBSET t -> V] : Solves(t, h)
  BY <1>3
<1> DEFINE Sol(r) == CHOOSE h \in [SUBSET r -> V] : Solves(r, h)
<1>5. ASSUME NEW r \in SUBSET t, r # t
      PROVE  Sol(r) \in [SUBSET r -> V] /\ Solves(r, Sol(r))
  <2>1. \E h \in [SUBSET r -> V] : Solves(r, h)
    BY <1>3, <1>4, <1>5
  <2> HIDE DEF Solves
  <2>2. QED BY <2>1
<1> HIDE DEF T
\* Below t the solutions of the subsets make one.
<1>6. ASSUME NEW r \in SUBSET t, r # t, r # {}
      PROVE  Sol(r)[r] = step[<<pick[r], Sol(r \ {pick[r]})[r \ {pick[r]}]>>]
  <2> DEFINE q == r \ {pick[r]}
  <2>1. pick[r] \in r /\ q \in SUBSET t /\ q # t /\ q \in SUBSET r /\ IsFiniteSet(q)
    <3>1. pick[r] \in r /\ q \in SUBSET t /\ q # t /\ q \in SUBSET r /\ q \in SUBSET S
      BY <1>4, <1>6 DEF Picks
    <3>2. QED BY <3>1, FS_Subset
  <2>2. Solves(r, Sol(r)) /\ Solves(q, Sol(q))
    BY <1>5, <1>6, <2>1
  <2> HIDE DEF q, Sol
  <2>3. Solves(q, Sol(r))
    BY <2>1, <2>2 DEF Follows
  <2>4. Picks(q, pick)
    BY <1>4, <2>1 DEF Picks
  <2>5. Sol(r)[q] = Sol(q)[q]
    <3>1. q \in SUBSET q
      OBVIOUS
    <3>2. QED BY <2>1, <2>2, <2>3, <2>4, <3>1, RecursionIsUnique
  <2>6. Sol(r)[r] = step[<<pick[r], Sol(r)[q]>>]
    BY <1>6, <2>2 DEF q, Follows
  <2>7. QED BY <2>5, <2>6 DEF q
<1>7. ASSUME NEW r \in SUBSET t, r # t
      PROVE  Sol(r)[r] \in V /\ (r = {} => Sol(r)[r] = base)
  <2>1. Sol(r) \in [SUBSET r -> V] /\ Solves(r, Sol(r)) /\ r \in SUBSET r
    BY <1>5, <1>7
  <2> HIDE DEF Sol
  <2>2. QED BY <2>1 DEF Follows
<1> HIDE DEF Sol
<1> DEFINE top == IF t = {} THEN base ELSE step[<<pick[t], Sol(t \ {pick[t]})[t \ {pick[t]}]>>]
           H == [s \in SUBSET t |-> IF s = t THEN top ELSE Sol(s)[s]]
<1>8. top \in V
  <2>1. CASE t = {}
    BY <2>1
  <2>2. CASE t # {}
    <3>1. pick[t] \in t /\ pick[t] \in S
      BY <1>4, <2>2 DEF Picks
    <3>2. t \ {pick[t]} \in SUBSET t /\ t \ {pick[t]} # t
      BY <3>1
    <3>3. Sol(t \ {pick[t]})[t \ {pick[t]}] \in V
      BY <1>7, <3>2
    <3>4. QED BY <2>2, <3>1, <3>3
  <2>3. QED BY <2>1, <2>2
<1>9. H \in [SUBSET t -> V]
  <2> HIDE DEF top
  <2>1. QED BY <1>7, <1>8
<1>10. Solves(t, H)
  <2> SUFFICES ASSUME NEW s \in SUBSET t
               PROVE  H[s] = IF s = {} THEN base ELSE step[<<pick[s], H[s \ {pick[s]}]>>]
    BY DEF Follows
  <2>1. CASE s = {}
    BY <1>7, <2>1
  <2>2. CASE s # {}
    <3>1. pick[s] \in s
      BY <1>4, <2>2 DEF Picks
    <3>2. s \ {pick[s]} \in SUBSET t /\ s \ {pick[s]} # t
      BY <3>1
    <3>3. H[s \ {pick[s]}] = Sol(s \ {pick[s]})[s \ {pick[s]}]
      BY <3>2
    <3>4. CASE s = t
      BY <2>2, <3>3, <3>4
    <3>5. CASE s # t
      BY <1>6, <2>2, <3>3, <3>5
    <3>6. QED BY <3>4, <3>5
  <2>3. QED BY <2>1, <2>2
<1>11. QED
  <2> HIDE DEF H, Solves
  <2>1. QED BY <1>4, <1>9, <1>10

\* Indices have a largest one.
LEMMA MaxOfIndices ==
    ASSUME NEW n \in Nat, NEW s \in SUBSET (1..n), s # {}
    PROVE  Max(s) \in s /\ \A x \in s : x <= Max(s)
<1> DEFINE T == {n - x : x \in s}
<1>1. T \in SUBSET Nat /\ T # {}
  <2>1. \A x \in s : n - x \in Nat
    OBVIOUS
  <2>2. PICK x \in s : TRUE
    OBVIOUS
  <2>3. n - x \in T
    OBVIOUS
  <2>4. QED BY <2>1, <2>3
<1>2. PICK t \in T : \A u \in T : t <= u
  <2> HIDE DEF T
  <2>1. QED BY <1>1, LeastNatural
<1>3. PICK m \in s : t = n - m
  BY <1>2
<1>4. \A x \in s : m >= x
  <2> SUFFICES ASSUME NEW x \in s PROVE m >= x
    OBVIOUS
  <2>1. n - x \in T
    OBVIOUS
  <2>2. n - m <= n - x
    BY <1>2, <1>3, <2>1
  <2>3. QED BY <2>2
<1>5. \E x \in s : \A y \in s : x >= y
  BY <1>4
<1>6. Max(s) \in s /\ \A y \in s : Max(s) >= y
  BY <1>5 DEF Max
<1>7. QED BY <1>6

\* The largest of the first n indices, and what is left without it.
LEMMA MaxOfInterval ==
    ASSUME NEW n \in Nat \ {0} PROVE Max(1..n) = n /\ (1..n) \ {n} = 1..(n - 1)
<1>1. 1..n \in SUBSET (1..n) /\ n \in 1..n
  OBVIOUS
<1>2. Max(1..n) \in 1..n /\ \A x \in 1..n : x <= Max(1..n)
  BY <1>1, MaxOfIndices
<1>3. QED
  <2> HIDE DEF Max
  <2>1. Max(1..n) = n
    BY <1>1, <1>2
  <2>2. (1..n) \ {n} = 1..(n - 1)
    OBVIOUS
  <2>3. QED BY <2>1, <2>2

\* A loop over n indices: base before the first, step at each.
Loops(n, base, step, g) ==
    \A s \in SUBSET (1..n) :
        g[s] = IF s = {} THEN base ELSE step[<<Max(s), g[s \ {Max(s)}]>>]

\* What a fold over a sequence computes, as one function of sets of indices.
LEMMA IndexRecursion ==
    ASSUME NEW n \in Nat, NEW V, NEW base \in V, NEW step \in [(1..n) \X V -> V]
    PROVE  \E g \in [SUBSET (1..n) -> V] : Loops(n, base, step, g)
<1> DEFINE S == 1..n
           pick == [s \in SUBSET S |-> Max(s)]
<1>1. Picks(S, pick)
  BY MaxOfIndices DEF Picks
<1>2. IsFiniteSet(S)
  BY FS_Interval
<1>3. PICK g \in [SUBSET S -> V] : Follows(S, base, pick, step, g)
  <2> HIDE DEF S, pick
  <2>1. step \in [S \X V -> V]
    BY DEF S
  <2>2. QED BY <1>1, <1>2, <2>1, Recursion
<1>4. Loops(n, base, step, g)
  BY <1>3 DEF Follows, Loops
<1>5. QED
  <2> HIDE DEF pick
  <2>1. QED BY <1>3, <1>4

-------------------------------------------------------------------------------
(* Sequences                                                                *)

Elems(q) == {q[i] : i \in 1..Len(q)}

\* A set of indices has a least one.
LEMMA LeastIndex ==
    ASSUME NEW S \in SUBSET Nat, S # {}
    PROVE  Min(S) \in S /\ \A x \in S : Min(S) <= x
BY LeastNatural DEF Min

\* A function on the first n indices is a sequence of n elements.
LEMMA FunctionIsSeq ==
    ASSUME NEW S, NEW n \in Nat, NEW f \in [1..n -> S]
    PROVE  f \in Seq(S) /\ Len(f) = n
OBVIOUS

\* The first m of them, and the others.
LEMMA SplitAt ==
    ASSUME NEW S, NEW s \in Seq(S), NEW m \in 0..Len(s)
    PROVE  /\ SubSeq(s, 1, m) \in Seq(S) /\ Len(SubSeq(s, 1, m)) = m
           /\ \A i \in 1..m : SubSeq(s, 1, m)[i] = s[i]
           /\ SubSeq(s, m + 1, Len(s)) \in Seq(S)
           /\ Len(SubSeq(s, m + 1, Len(s))) = Len(s) - m /\ Len(s) \in Nat
           /\ \A i \in 1..(Len(s) - m) : SubSeq(s, m + 1, Len(s))[i] = s[m + i]
<1>1. Len(s) \in Nat /\ s \in [1..Len(s) -> S] /\ m \in Int /\ m + 1 \in Int
  BY LenProperties
<1>2. /\ SubSeq(s, 1, m) \in Seq(S) /\ Len(SubSeq(s, 1, m)) = IF 1 <= m THEN m - 1 + 1 ELSE 0
      /\ \A i \in 1..(m - 1 + 1) : SubSeq(s, 1, m)[i] = s[1 + i - 1]
  <2>1. 1 \in 1..Len(s) + 1 /\ m \in 1 - 1..Len(s) /\ 1 \in Int
    BY <1>1
  <2>2. QED BY <1>1, <2>1, SubSeqProperties
<1>3. /\ SubSeq(s, 1, m) \in Seq(S) /\ Len(SubSeq(s, 1, m)) = m
      /\ \A i \in 1..m : SubSeq(s, 1, m)[i] = s[i]
  BY <1>1, <1>2
<1>4. /\ SubSeq(s, m + 1, Len(s)) \in Seq(S)
      /\ Len(SubSeq(s, m + 1, Len(s))) = IF m + 1 <= Len(s) THEN Len(s) - (m + 1) + 1 ELSE 0
      /\ \A i \in 1..(Len(s) - (m + 1) + 1) : SubSeq(s, m + 1, Len(s))[i] = s[(m + 1) + i - 1]
  <2>1. m + 1 \in 1..Len(s) + 1 /\ Len(s) \in (m + 1) - 1..Len(s) /\ Len(s) \in Int
    BY <1>1
  <2>2. QED BY <1>1, <2>1, SubSeqProperties
<1>5. /\ SubSeq(s, m + 1, Len(s)) \in Seq(S) /\ Len(SubSeq(s, m + 1, Len(s))) = Len(s) - m
      /\ \A i \in 1..(Len(s) - m) : SubSeq(s, m + 1, Len(s))[i] = s[m + i]
  <2>1. Len(SubSeq(s, m + 1, Len(s))) = Len(s) - m
    <3>1. PICK len, n : len = Len(SubSeq(s, m + 1, Len(s))) /\ n = Len(s)
      OBVIOUS
    <3>2. n \in Nat /\ m \in 0..n /\ len = IF m + 1 <= n THEN n - (m + 1) + 1 ELSE 0
      BY <1>1, <1>4, <3>1
    <3>3. len = n - m
      BY <3>2
    <3>4. QED BY <3>1, <3>3
  <2>2. ASSUME NEW i \in 1..(Len(s) - m) PROVE SubSeq(s, m + 1, Len(s))[i] = s[m + i]
    <3>1. i \in 1..(Len(s) - (m + 1) + 1) /\ (m + 1) + i - 1 = m + i
      BY <1>1
    <3>2. QED BY <1>4, <3>1
  <2>3. QED BY <1>4, <2>1, <2>2
<1>6. QED BY <1>1, <1>3, <1>5

\* The elements of a concatenation, by place.
LEMMA ConcatElements ==
    ASSUME NEW S, NEW q \in Seq(S), NEW r \in Seq(S)
    PROVE  /\ q \o r \in Seq(S) /\ Len(q \o r) = Len(q) + Len(r) /\ Len(q) \in Nat /\ Len(r) \in Nat
           /\ \A i \in 1..Len(q) : (q \o r)[i] = q[i]
           /\ \A i \in 1..Len(r) : (q \o r)[Len(q) + i] = r[i]
           /\ \A i \in 1..Len(q \o r) :
                 i \in 1..Len(q) \/ (i - Len(q) \in 1..Len(r) /\ (q \o r)[i] = r[i - Len(q)])
<1> DEFINE both == q \o r
<1>1. /\ both \in Seq(S) /\ Len(both) = Len(q) + Len(r)
      /\ \A i \in 1..(Len(q) + Len(r)) : both[i] = IF i <= Len(q) THEN q[i] ELSE r[i - Len(q)]
  BY ConcatProperties
<1>2. Len(q) \in Nat /\ Len(r) \in Nat
  BY LenProperties
<1> HIDE DEF both
<1>3. \A i \in 1..Len(q) : both[i] = q[i]
  BY <1>1, <1>2
<1>4. ASSUME NEW i \in 1..Len(r) PROVE both[Len(q) + i] = r[i]
  <2>1. Len(q) + i \in 1..(Len(q) + Len(r)) /\ ~(Len(q) + i <= Len(q)) /\ (Len(q) + i) - Len(q) = i
    BY <1>2
  <2>2. both[Len(q) + i] = r[(Len(q) + i) - Len(q)]
    BY <1>1, <2>1
  <2>3. QED BY <2>1, <2>2
<1>5. ASSUME NEW i \in 1..Len(both)
      PROVE  i \in 1..Len(q) \/ (i - Len(q) \in 1..Len(r) /\ both[i] = r[i - Len(q)])
  BY <1>1, <1>2
<1>6. QED BY <1>1, <1>2, <1>3, <1>4, <1>5 DEF both

\* The elements of a sequence and one more, by place.
LEMMA AppendElements ==
    ASSUME NEW S, NEW q \in Seq(S), NEW x \in S
    PROVE  /\ Append(q, x) \in Seq(S) /\ Len(Append(q, x)) = Len(q) + 1 /\ Len(q) \in Nat
           /\ \A i \in 1..Len(q) : Append(q, x)[i] = q[i]
           /\ Append(q, x)[Len(q) + 1] = x
           /\ \A i \in 1..Len(Append(q, x)) : i \in 1..Len(q) \/ i = Len(q) + 1
           /\ Elems(Append(q, x)) = Elems(q) \cup {x}
<1> DEFINE longer == Append(q, x)
<1>1. /\ longer \in Seq(S) /\ Len(longer) = Len(q) + 1 /\ Len(q) \in Nat
      /\ \A i \in 1..Len(q) : longer[i] = q[i]
      /\ longer[Len(q) + 1] = x
  BY AppendProperties, LenProperties
<1> HIDE DEF longer
<1>2. \A i \in 1..Len(longer) : i \in 1..Len(q) \/ i = Len(q) + 1
  BY <1>1
<1>3. /\ \A i \in 1..Len(q) : i \in 1..Len(longer)
      /\ Len(q) + 1 \in 1..Len(longer)
  BY <1>1
<1>4. Elems(longer) \subseteq Elems(q) \cup {x}
  BY <1>1, <1>2 DEF Elems
<1>5. Elems(q) \subseteq Elems(longer) /\ x \in Elems(longer)
  BY <1>1, <1>3 DEF Elems
<1>6. QED BY <1>1, <1>2, <1>4, <1>5 DEF longer

-------------------------------------------------------------------------------
(* Payloads                                                                 *)

Tiers == {"none", "5m", "1h"}
Entries == [key : Int, body : STRING]
Msg == [system : BOOLEAN, string : BOOLEAN, marks : Seq(Tiers), text : Seq(Entries)]
Tool == [name : STRING, mark : Tiers]
Block == [text : Seq(Entries), mark : Tiers]
Keys == {None} \cup [on : {TRUE}, shared : BOOLEAN, head : [sys : Seq(Msg), tools : Seq(Tool)]]
Payload == [system : Seq(Block), hasTools : BOOLEAN, tools : Seq(Tool), messages : Seq(Msg),
            key : Keys, retention : {"none", "24h"}]

-------------------------------------------------------------------------------
(* The folds, as functions over the indices they have passed                *)

AllBlocks(ms) == FoldLeft(LAMBDA n, m : n + Blocks(m), 0, ms)
Leading(ms) == FoldLeft(LAMBDA out, m : IF m.system THEN Append(out, m) ELSE out, <<>>, ms)

\* A message has a natural number of blocks.
LEMMA BlocksCount == \A m \in Msg : Blocks(m) \in Nat
<1>1. \A m \in Msg : Len(m.marks) \in Nat
  BY LenProperties DEF Msg
<1>2. QED BY <1>1 DEF Blocks

\* Counting blocks stays among the naturals.
LEMMA BlocksClosed == 0 \in Nat /\ \A n \in Nat, m \in Msg : n + Blocks(m) \in Nat
BY BlocksCount

\* Collecting system messages stays among sequences of messages.
LEMMA LeadingClosed ==
    /\ <<>> \in Seq(Msg)
    /\ \A out \in Seq(Msg), m \in Msg : (IF m.system THEN Append(out, m) ELSE out) \in Seq(Msg)
<1>1. \A out \in Seq(Msg), m \in Msg : Append(out, m) \in Seq(Msg)
  BY AppendProperties
<1>2. QED BY <1>1, EmptySeq

\* Collecting tools stays among sequences of tools.
LEMMA DedupClosed ==
    /\ <<>> \in Seq(Tool)
    /\ \A kept \in Seq(Tool), t \in Tool : (IF t \in ToSet(kept) THEN kept ELSE Append(kept, t)) \in Seq(Tool)
<1>1. \A kept \in Seq(Tool), t \in Tool : Append(kept, t) \in Seq(Tool)
  BY AppendProperties
<1> HIDE DEF Tool
<1>2. QED BY <1>1, EmptySeq

\* Blocks counted one message after another.
LEMMA BlocksScan ==
    ASSUME NEW s \in Seq(Msg)
    PROVE  \E R \in [0..Len(s) -> Nat] :
              /\ R[0] = 0 /\ AllBlocks(s) = R[Len(s)]
              /\ \A i \in 1..Len(s) : R[i] = R[i - 1] + Blocks(s[i])
<1> DEFINE D == DOMAIN s
           n == Len(s)
           Op(acc, x) == acc + Blocks(x)
           Runs(g) == g = [t \in SUBSET D |-> IF t = {} THEN 0
                             ELSE Op(g[t \ {Max(t)}], s[Max(t)])]
           G == CHOOSE g : Runs(g)
           step == [xv \in (1..n) \X Nat |-> Op(xv[2], s[xv[1]])]
           R == [i \in 0..n |-> G[1..i]]
<1>1. AllBlocks(s) = G[D]
  BY DEF AllBlocks, FoldLeft, MapThenFoldSet
<1>2. n \in Nat /\ D = 1..n /\ \A i \in 1..n : s[i] \in Msg
  BY LenProperties, ElementOfSeq
<1>3. 0 \in Nat /\ \A acc \in Nat, x \in Msg : Op(acc, x) \in Nat
  BY BlocksClosed
<1> HIDE DEF n, Op
<1>4. Runs(G)
  <2>1. step \in [(1..n) \X Nat -> Nat]
    BY <1>2, <1>3
  <2>2. PICK g \in [SUBSET (1..n) -> Nat] : Loops(n, 0, step, g)
    <3> HIDE DEF step
    <3>1. QED BY <1>2, <1>3, <2>1, IndexRecursion
  <2>3. ASSUME NEW t \in SUBSET (1..n), t # {}
        PROVE  step[<<Max(t), g[t \ {Max(t)}]>>] = Op(g[t \ {Max(t)}], s[Max(t)])
    <3>1. Max(t) \in t
      BY <1>2, <2>3, MaxOfIndices
    <3>2. Max(t) \in 1..n /\ t \ {Max(t)} \in SUBSET (1..n)
      BY <3>1
    <3>3. g[t \ {Max(t)}] \in Nat
      BY <3>2
    <3>4. QED BY <3>2, <3>3
  <2>4. ASSUME NEW t \in SUBSET (1..n)
        PROVE  g[t] = IF t = {} THEN 0 ELSE Op(g[t \ {Max(t)}], s[Max(t)])
    <3> HIDE DEF step
    <3>1. QED BY <2>2, <2>3 DEF Loops
  <2>5. Runs(g)
    <3> HIDE DEF step
    <3>1. QED BY <1>2, <2>4
  <2> HIDE DEF Runs
  <2>6. QED BY <2>5
<1>5. G[1..0] = 0
  <2>1. 1..0 = {} /\ {} \in SUBSET D
    OBVIOUS
  <2> HIDE DEF G, D
  <2>2. QED BY <1>4, <2>1
<1>6. ASSUME NEW i \in 1..n PROVE G[1..i] = Op(G[1..(i - 1)], s[i])
  <2>1. 1..i \in SUBSET D /\ 1..i # {} /\ Max(1..i) = i /\ (1..i) \ {i} = 1..(i - 1)
    <3>1. i \in Nat \ {0} /\ 1..i \subseteq D /\ i \in 1..i
      BY <1>2
    <3>2. Max(1..i) = i /\ (1..i) \ {i} = 1..(i - 1)
      BY <3>1, MaxOfInterval
    <3>3. QED BY <3>1, <3>2
  <2> HIDE DEF G, D
  <2>2. QED BY <1>4, <2>1
<1> HIDE DEF G, Runs, step, D
<1> DEFINE Bad == {i \in 0..n : ~(G[1..i] \in Nat)}
<1>7. Bad = {}
  <2>1. SUFFICES ASSUME Bad # {} PROVE FALSE
    OBVIOUS
  <2>2. Bad \in SUBSET Nat
    BY <1>2
  <2>3. PICK i \in Bad : \A k \in Bad : i <= k
    <3> HIDE DEF Bad
    <3>1. QED BY <2>1, <2>2, LeastNatural
  <2>4. i # 0
    BY <1>3, <1>5, <2>3
  <2>5. i \in 1..n /\ i - 1 \in 0..n /\ i - 1 \notin Bad
    BY <1>2, <2>3, <2>4
  <2>6. G[1..(i - 1)] \in Nat /\ s[i] \in Msg
    BY <1>2, <2>5
  <2>7. G[1..i] = Op(G[1..(i - 1)], s[i])
    BY <1>6, <2>5
  <2>8. G[1..i] \in Nat
    BY <1>3, <2>6, <2>7
  <2>9. QED BY <2>3, <2>8
<1>8. R \in [0..n -> Nat] /\ R[0] = 0
  BY <1>2, <1>5, <1>7
<1>9. ASSUME NEW i \in 1..n PROVE R[i] = Op(R[i - 1], s[i])
  <2>1. i \in 0..n /\ i - 1 \in 0..n
    BY <1>2
  <2>2. QED BY <1>6, <2>1
<1>10. AllBlocks(s) = R[n]
  BY <1>1, <1>2
<1> HIDE DEF R, G
<1>11. QED BY <1>8, <1>9, <1>10 DEF n, Op

\* System messages picked one after another.
LEMMA LeadingScan ==
    ASSUME NEW s \in Seq(Msg)
    PROVE  \E R \in [0..Len(s) -> Seq(Msg)] :
              /\ R[0] = <<>> /\ Leading(s) = R[Len(s)]
              /\ \A i \in 1..Len(s) : R[i] = IF s[i].system THEN Append(R[i - 1], s[i]) ELSE R[i - 1]
<1> DEFINE D == DOMAIN s
           n == Len(s)
           Op(acc, x) == IF x.system THEN Append(acc, x) ELSE acc
           Runs(g) == g = [t \in SUBSET D |-> IF t = {} THEN <<>>
                             ELSE Op(g[t \ {Max(t)}], s[Max(t)])]
           G == CHOOSE g : Runs(g)
           step == [xv \in (1..n) \X Seq(Msg) |-> Op(xv[2], s[xv[1]])]
           R == [i \in 0..n |-> G[1..i]]
<1>1. Leading(s) = G[D]
  BY DEF Leading, FoldLeft, MapThenFoldSet
<1>2. n \in Nat /\ D = 1..n /\ \A i \in 1..n : s[i] \in Msg
  BY LenProperties, ElementOfSeq
<1>3. <<>> \in Seq(Msg) /\ \A acc \in Seq(Msg), x \in Msg : Op(acc, x) \in Seq(Msg)
  BY LeadingClosed
<1> HIDE DEF n, Op
<1>4. Runs(G)
  <2>1. step \in [(1..n) \X Seq(Msg) -> Seq(Msg)]
    BY <1>2, <1>3
  <2>2. PICK g \in [SUBSET (1..n) -> Seq(Msg)] : Loops(n, <<>>, step, g)
    <3> HIDE DEF step
    <3>1. QED BY <1>2, <1>3, <2>1, IndexRecursion
  <2>3. ASSUME NEW t \in SUBSET (1..n), t # {}
        PROVE  step[<<Max(t), g[t \ {Max(t)}]>>] = Op(g[t \ {Max(t)}], s[Max(t)])
    <3>1. Max(t) \in t
      BY <1>2, <2>3, MaxOfIndices
    <3>2. Max(t) \in 1..n /\ t \ {Max(t)} \in SUBSET (1..n)
      BY <3>1
    <3>3. g[t \ {Max(t)}] \in Seq(Msg)
      BY <3>2
    <3>4. QED BY <3>2, <3>3
  <2>4. ASSUME NEW t \in SUBSET (1..n)
        PROVE  g[t] = IF t = {} THEN <<>> ELSE Op(g[t \ {Max(t)}], s[Max(t)])
    <3> HIDE DEF step
    <3>1. QED BY <2>2, <2>3 DEF Loops
  <2>5. Runs(g)
    <3> HIDE DEF step
    <3>1. QED BY <1>2, <2>4
  <2> HIDE DEF Runs
  <2>6. QED BY <2>5
<1>5. G[1..0] = <<>>
  <2>1. 1..0 = {} /\ {} \in SUBSET D
    OBVIOUS
  <2> HIDE DEF G, D
  <2>2. QED BY <1>4, <2>1
<1>6. ASSUME NEW i \in 1..n PROVE G[1..i] = Op(G[1..(i - 1)], s[i])
  <2>1. 1..i \in SUBSET D /\ 1..i # {} /\ Max(1..i) = i /\ (1..i) \ {i} = 1..(i - 1)
    <3>1. i \in Nat \ {0} /\ 1..i \subseteq D /\ i \in 1..i
      BY <1>2
    <3>2. Max(1..i) = i /\ (1..i) \ {i} = 1..(i - 1)
      BY <3>1, MaxOfInterval
    <3>3. QED BY <3>1, <3>2
  <2> HIDE DEF G, D
  <2>2. QED BY <1>4, <2>1
<1> HIDE DEF G, Runs, step, D
<1> DEFINE Bad == {i \in 0..n : ~(G[1..i] \in Seq(Msg))}
<1>7. Bad = {}
  <2>1. SUFFICES ASSUME Bad # {} PROVE FALSE
    OBVIOUS
  <2>2. Bad \in SUBSET Nat
    BY <1>2
  <2>3. PICK i \in Bad : \A k \in Bad : i <= k
    <3> HIDE DEF Bad
    <3>1. QED BY <2>1, <2>2, LeastNatural
  <2>4. i # 0
    BY <1>3, <1>5, <2>3
  <2>5. i \in 1..n /\ i - 1 \in 0..n /\ i - 1 \notin Bad
    BY <1>2, <2>3, <2>4
  <2>6. G[1..(i - 1)] \in Seq(Msg) /\ s[i] \in Msg
    BY <1>2, <2>5
  <2>7. G[1..i] = Op(G[1..(i - 1)], s[i])
    BY <1>6, <2>5
  <2>8. G[1..i] \in Seq(Msg)
    BY <1>3, <2>6, <2>7
  <2>9. QED BY <2>3, <2>8
<1>8. R \in [0..n -> Seq(Msg)] /\ R[0] = <<>>
  BY <1>2, <1>5, <1>7
<1>9. ASSUME NEW i \in 1..n PROVE R[i] = Op(R[i - 1], s[i])
  <2>1. i \in 0..n /\ i - 1 \in 0..n
    BY <1>2
  <2>2. QED BY <1>6, <2>1
<1>10. Leading(s) = R[n]
  BY <1>1, <1>2
<1> HIDE DEF R, G
<1>11. QED BY <1>8, <1>9, <1>10 DEF n, Op

\* Tools kept one after another.
LEMMA DedupScan ==
    ASSUME NEW s \in Seq(Tool)
    PROVE  \E R \in [0..Len(s) -> Seq(Tool)] :
              /\ R[0] = <<>> /\ Dedup(s) = R[Len(s)]
              /\ \A i \in 1..Len(s) : R[i] = IF s[i] \in ToSet(R[i - 1]) THEN R[i - 1] ELSE Append(R[i - 1], s[i])
<1> DEFINE D == DOMAIN s
           n == Len(s)
           Op(acc, x) == IF x \in ToSet(acc) THEN acc ELSE Append(acc, x)
           Runs(g) == g = [t \in SUBSET D |-> IF t = {} THEN <<>>
                             ELSE Op(g[t \ {Max(t)}], s[Max(t)])]
           G == CHOOSE g : Runs(g)
           step == [xv \in (1..n) \X Seq(Tool) |-> Op(xv[2], s[xv[1]])]
           R == [i \in 0..n |-> G[1..i]]
<1>1. Dedup(s) = G[D]
  BY DEF Dedup, FoldLeft, MapThenFoldSet
<1>2. n \in Nat /\ D = 1..n /\ \A i \in 1..n : s[i] \in Tool
  BY LenProperties, ElementOfSeq
<1>3. <<>> \in Seq(Tool) /\ \A acc \in Seq(Tool), x \in Tool : Op(acc, x) \in Seq(Tool)
  BY DedupClosed
<1> HIDE DEF n, Op
<1>4. Runs(G)
  <2>1. step \in [(1..n) \X Seq(Tool) -> Seq(Tool)]
    BY <1>2, <1>3
  <2>2. PICK g \in [SUBSET (1..n) -> Seq(Tool)] : Loops(n, <<>>, step, g)
    <3> HIDE DEF step
    <3>1. QED BY <1>2, <1>3, <2>1, IndexRecursion
  <2>3. ASSUME NEW t \in SUBSET (1..n), t # {}
        PROVE  step[<<Max(t), g[t \ {Max(t)}]>>] = Op(g[t \ {Max(t)}], s[Max(t)])
    <3>1. Max(t) \in t
      BY <1>2, <2>3, MaxOfIndices
    <3>2. Max(t) \in 1..n /\ t \ {Max(t)} \in SUBSET (1..n)
      BY <3>1
    <3>3. g[t \ {Max(t)}] \in Seq(Tool)
      BY <3>2
    <3>4. QED BY <3>2, <3>3
  <2>4. ASSUME NEW t \in SUBSET (1..n)
        PROVE  g[t] = IF t = {} THEN <<>> ELSE Op(g[t \ {Max(t)}], s[Max(t)])
    <3> HIDE DEF step
    <3>1. QED BY <2>2, <2>3 DEF Loops
  <2>5. Runs(g)
    <3> HIDE DEF step
    <3>1. QED BY <1>2, <2>4
  <2> HIDE DEF Runs
  <2>6. QED BY <2>5
<1>5. G[1..0] = <<>>
  <2>1. 1..0 = {} /\ {} \in SUBSET D
    OBVIOUS
  <2> HIDE DEF G, D
  <2>2. QED BY <1>4, <2>1
<1>6. ASSUME NEW i \in 1..n PROVE G[1..i] = Op(G[1..(i - 1)], s[i])
  <2>1. 1..i \in SUBSET D /\ 1..i # {} /\ Max(1..i) = i /\ (1..i) \ {i} = 1..(i - 1)
    <3>1. i \in Nat \ {0} /\ 1..i \subseteq D /\ i \in 1..i
      BY <1>2
    <3>2. Max(1..i) = i /\ (1..i) \ {i} = 1..(i - 1)
      BY <3>1, MaxOfInterval
    <3>3. QED BY <3>1, <3>2
  <2> HIDE DEF G, D
  <2>2. QED BY <1>4, <2>1
<1> HIDE DEF G, Runs, step, D
<1> DEFINE Bad == {i \in 0..n : ~(G[1..i] \in Seq(Tool))}
<1>7. Bad = {}
  <2>1. SUFFICES ASSUME Bad # {} PROVE FALSE
    OBVIOUS
  <2>2. Bad \in SUBSET Nat
    BY <1>2
  <2>3. PICK i \in Bad : \A k \in Bad : i <= k
    <3> HIDE DEF Bad
    <3>1. QED BY <2>1, <2>2, LeastNatural
  <2>4. i # 0
    BY <1>3, <1>5, <2>3
  <2>5. i \in 1..n /\ i - 1 \in 0..n /\ i - 1 \notin Bad
    BY <1>2, <2>3, <2>4
  <2>6. G[1..(i - 1)] \in Seq(Tool) /\ s[i] \in Tool
    BY <1>2, <2>5
  <2>7. G[1..i] = Op(G[1..(i - 1)], s[i])
    BY <1>6, <2>5
  <2>8. G[1..i] \in Seq(Tool)
    BY <1>3, <2>6, <2>7
  <2>9. QED BY <2>3, <2>8
<1>8. R \in [0..n -> Seq(Tool)] /\ R[0] = <<>>
  BY <1>2, <1>5, <1>7
<1>9. ASSUME NEW i \in 1..n PROVE R[i] = Op(R[i - 1], s[i])
  <2>1. i \in 0..n /\ i - 1 \in 0..n
    BY <1>2
  <2>2. QED BY <1>6, <2>1
<1>10. Dedup(s) = R[n]
  BY <1>1, <1>2
<1> HIDE DEF R, G
<1>11. QED BY <1>8, <1>9, <1>10 DEF n, Op

-------------------------------------------------------------------------------
(* The canonicalizer sorts                                                  *)

\* Downward closed indices are the first c.
LEMMA InitialIndices ==
    ASSUME NEW n \in Nat, NEW K \in SUBSET (1..n), \A i \in K : \A j \in 1..i : j \in K
    PROVE  Cardinality(K) \in 0..n /\ K = 1..Cardinality(K)
<1>1. CASE K = {}
  <2>1. Cardinality(K) = 0 /\ 1..0 = {}
    BY <1>1, FS_EmptySet
  <2>2. QED BY <1>1, <2>1
<1>2. CASE K # {}
  <2>1. Max(K) \in K /\ \A x \in K : x <= Max(K)
    BY <1>2, MaxOfIndices
  <2>2. PICK c \in 1..n : c \in K /\ \A x \in K : x <= c
    BY <2>1
  <2>3. K = 1..c
    <3>1. \A i \in 1..c : i \in K
      BY <2>2
    <3>2. \A i \in K : i \in 1..c
      BY <2>2
    <3>3. QED BY <3>1, <3>2
  <2>4. Cardinality(1..c) = c
    <3>1. 1 \in Int /\ c \in Int
      BY <2>2
    <3>2. Cardinality(1..c) = IF 1 > c THEN 0 ELSE c - 1 + 1
      BY <3>1, FS_Interval
    <3>3. QED BY <2>2, <3>2
  <2>5. QED BY <2>2, <2>3, <2>4
<1>3. QED BY <1>1, <1>2

\* An entry is inserted inside the list or at one of its ends.
LEMMA InsertionPlace ==
    ASSUME NEW s \in Seq(Entries), NEW e \in Entries
    PROVE  Cardinality({i \in DOMAIN s : s[i].key <= e.key}) \in 0..Len(s)
<1> DEFINE K == {i \in DOMAIN s : s[i].key <= e.key}
<1>1. Len(s) \in Nat /\ DOMAIN s = 1..Len(s)
  BY LenProperties
<1>2. IsFiniteSet(1..Len(s)) /\ Cardinality(1..Len(s)) = Len(s)
  <2>1. Cardinality(1..Len(s)) = (IF 1 > Len(s) THEN 0 ELSE Len(s) - 1 + 1) /\ IsFiniteSet(1..Len(s))
    BY <1>1, FS_Interval
  <2>2. QED BY <1>1, <2>1
<1>3. K \subseteq 1..Len(s)
  BY <1>1
<1> HIDE DEF K
<1>4. IsFiniteSet(K) /\ Cardinality(K) <= Cardinality(1..Len(s))
  BY <1>2, <1>3, FS_Subset
<1>5. Cardinality(K) \in Nat
  BY <1>4, FS_CardinalityType
<1>6. Cardinality(K) \in 0..Len(s)
  BY <1>1, <1>2, <1>4, <1>5
<1>7. QED BY <1>6 DEF K

\* t is s with e behind its first c elements.
Grown(t, s, c, e) ==
    /\ Len(t) = Len(s) + 1
    /\ \A i \in 1..c : t[i] = s[i]
    /\ t[c + 1] = e
    /\ \A i \in (c + 1)..Len(s) : t[i + 1] = s[i]

\* InsertAt puts the element behind the first c.
LEMMA InsertedAt ==
    ASSUME NEW V, NEW s \in Seq(V), NEW e \in V, NEW c \in 0..Len(s)
    PROVE  InsertAt(s, c + 1, e) \in Seq(V) /\ Grown(InsertAt(s, c + 1, e), s, c, e)
<1> DEFINE a == SubSeq(s, 1, c)
           one == <<e>>
           b == SubSeq(s, c + 1, Len(s))
           front == a \o one
           all == front \o b
<1>1. Len(s) \in Nat /\ c \in Nat /\ c <= Len(s)
  BY LenProperties
<1>2. /\ a \in Seq(V) /\ Len(a) = c /\ \A i \in 1..c : a[i] = s[i]
      /\ b \in Seq(V) /\ Len(b) = Len(s) - c /\ \A i \in 1..(Len(s) - c) : b[i] = s[c + i]
  BY SplitAt
<1>3. one \in Seq(V) /\ Len(one) = 1 /\ one[1] = e
  OBVIOUS
<1>4. InsertAt(s, c + 1, e) = all
  <2>1. (c + 1) - 1 = c
    BY <1>1
  <2>2. QED BY <2>1 DEF InsertAt
<1> HIDE DEF a, b, one
<1>5. /\ front \in Seq(V) /\ Len(front) = c + 1
      /\ \A i \in 1..c : front[i] = a[i]
      /\ front[c + 1] = e
  <2>0. a \in Seq(V) /\ one \in Seq(V)
    BY <1>2, <1>3
  <2>1. /\ front \in Seq(V) /\ Len(front) = Len(a) + Len(one)
        /\ \A i \in 1..Len(a) : front[i] = a[i]
        /\ \A i \in 1..Len(one) : front[Len(a) + i] = one[i]
    BY <2>0, ConcatElements
  <2>2. QED BY <1>2, <1>3, <2>1
<1> HIDE DEF front
<1>6. /\ all \in Seq(V) /\ Len(all) = (c + 1) + Len(b)
      /\ \A i \in 1..(c + 1) : all[i] = front[i]
      /\ \A i \in 1..Len(b) : all[(c + 1) + i] = b[i]
  <2>1. front \in Seq(V) /\ b \in Seq(V)
    BY <1>2, <1>5
  <2>2. /\ all \in Seq(V) /\ Len(all) = Len(front) + Len(b)
        /\ \A i \in 1..Len(front) : all[i] = front[i]
        /\ \A i \in 1..Len(b) : all[Len(front) + i] = b[i]
    BY <2>1, ConcatElements
  <2>3. Len(front) = c + 1
    BY <1>5
  <2>4. QED BY <2>2, <2>3
<1> HIDE DEF all
<1>7. Len(all) = Len(s) + 1
  BY <1>1, <1>2, <1>6
<1>8. \A i \in 1..c : all[i] = s[i]
  <2>1. \A i \in 1..c : i \in 1..(c + 1)
    BY <1>1
  <2>2. QED BY <1>2, <1>5, <1>6, <2>1
<1>9. all[c + 1] = e
  <2>1. c + 1 \in 1..(c + 1)
    BY <1>1
  <2>2. QED BY <1>5, <1>6, <2>1
<1>10. ASSUME NEW i \in (c + 1)..Len(s) PROVE all[i + 1] = s[i]
  <2>1. i - c \in 1..(Len(s) - c) /\ (c + 1) + (i - c) = i + 1 /\ c + (i - c) = i
    BY <1>1
  <2>2. all[(c + 1) + (i - c)] = b[i - c] /\ b[i - c] = s[c + (i - c)]
    BY <1>2, <1>6, <2>1
  <2>3. QED BY <2>1, <2>2
<1>11. QED BY <1>4, <1>6, <1>7, <1>8, <1>9, <1>10 DEF Grown

\* Inserting stays among sequences of entries.
LEMMA InsertClosed ==
    <<>> \in Seq(Entries) /\ \A s \in Seq(Entries), e \in Entries : Insert(s, e) \in Seq(Entries)
<1>1. ASSUME NEW s \in Seq(Entries), NEW e \in Entries PROVE Insert(s, e) \in Seq(Entries)
  <2> DEFINE c == Cardinality({i \in DOMAIN s : s[i].key <= e.key})
  <2>1. c \in 0..Len(s)
    BY InsertionPlace
  <2>2. Insert(s, e) = InsertAt(s, c + 1, e)
    BY DEF Insert
  <2> HIDE DEF c
  <2>3. InsertAt(s, c + 1, e) \in Seq(Entries)
    BY <2>1, InsertedAt
  <2>4. QED BY <2>2, <2>3
<1> HIDE DEF Entries
<1>2. QED BY <1>1, EmptySeq

\* Inserting keeps a list sorted and adds just the entry.
LEMMA InsertSorts ==
    ASSUME NEW s \in Seq(Entries), Sorted(s), NEW e \in Entries
    PROVE  /\ Sorted(Insert(s, e)) /\ Len(Insert(s, e)) = Len(s) + 1 /\ Len(s) \in Nat
           /\ Elems(Insert(s, e)) = Elems(s) \cup {e}
<1> DEFINE K == {i \in DOMAIN s : s[i].key <= e.key}
<1>1. Len(s) \in Nat /\ DOMAIN s = 1..Len(s) /\ \A i \in 1..Len(s) : s[i].key \in Int
  <2>1. Len(s) \in Nat /\ DOMAIN s = 1..Len(s) /\ \A i \in 1..Len(s) : s[i] \in Entries
    BY LenProperties, ElementOfSeq
  <2>2. QED BY <2>1 DEF Entries
<1>2. e.key \in Int
  BY DEF Entries
<1>3. \A i, j \in 1..Len(s) : i < j => s[i].key <= s[j].key
  BY <1>1 DEF Sorted
<1>4. \A i \in K : \A j \in 1..i : j \in K
  <2> SUFFICES ASSUME NEW i \in K, NEW j \in 1..i PROVE j \in K
    OBVIOUS
  <2>1. i \in 1..Len(s) /\ j \in 1..Len(s) /\ s[i].key <= e.key /\ (j = i \/ j < i)
    BY <1>1
  <2>2. s[j].key <= s[i].key
    BY <1>1, <1>3, <2>1
  <2>3. s[j].key <= e.key
    BY <1>1, <1>2, <2>1, <2>2
  <2>4. QED BY <1>1, <2>1, <2>3
<1>5. K \in SUBSET (1..Len(s)) /\ \A i \in 1..Len(s) : i \in K <=> s[i].key <= e.key
  BY <1>1
<1>6. Insert(s, e) = InsertAt(s, Cardinality(K) + 1, e)
  BY DEF Insert
<1> HIDE DEF K
<1>7. PICK c \in 0..Len(s) : c = Cardinality(K) /\ K = 1..c
  BY <1>1, <1>4, <1>5, InitialIndices
<1> DEFINE t == InsertAt(s, c + 1, e)
<1>8. /\ t \in Seq(Entries) /\ Len(t) = Len(s) + 1
      /\ \A i \in 1..c : t[i] = s[i]
      /\ t[c + 1] = e
      /\ \A i \in (c + 1)..Len(s) : t[i + 1] = s[i]
  <2>1. t \in Seq(Entries) /\ Grown(t, s, c, e)
    BY InsertedAt
  <2> HIDE DEF t
  <2>2. QED BY <2>1 DEF Grown
<1> HIDE DEF t
<1>9. DOMAIN t = 1..(Len(s) + 1)
  BY <1>8, LenProperties
\* Where an element of the longer sequence comes from.
<1>10. \A i \in 1..(Len(s) + 1) :
          \/ i \in 1..c /\ t[i] = s[i] /\ i \in 1..Len(s) /\ s[i].key <= e.key
          \/ i = c + 1 /\ t[i] = e
          \/ i \in (c + 2)..(Len(s) + 1) /\ t[i] = s[i - 1] /\ i - 1 \in 1..Len(s) /\ s[i - 1].key > e.key
  <2> SUFFICES ASSUME NEW i \in 1..(Len(s) + 1)
               PROVE  \/ i \in 1..c /\ t[i] = s[i] /\ i \in 1..Len(s) /\ s[i].key <= e.key
                      \/ i = c + 1 /\ t[i] = e
                      \/ i \in (c + 2)..(Len(s) + 1) /\ t[i] = s[i - 1] /\ i - 1 \in 1..Len(s) /\ s[i - 1].key > e.key
    OBVIOUS
  <2>1. CASE i \in 1..c
    BY <1>1, <1>5, <1>7, <1>8, <2>1
  <2>2. CASE i = c + 1
    BY <1>8, <2>2
  <2>3. CASE i \in (c + 2)..(Len(s) + 1)
    <3>1. i - 1 \in (c + 1)..Len(s) /\ i - 1 \in 1..Len(s) /\ (i - 1) + 1 = i /\ i - 1 \notin 1..c
      BY <1>1, <1>7, <2>3
    <3>2. t[i] = s[i - 1]
      BY <1>8, <3>1
    <3>3. ~(s[i - 1].key <= e.key)
      BY <1>5, <1>7, <3>1
    <3>4. s[i - 1].key > e.key
      BY <1>1, <1>2, <3>1, <3>3
    <3>5. QED BY <2>3, <3>1, <3>2, <3>4
  <2>4. i \in 1..c \/ i = c + 1 \/ i \in (c + 2)..(Len(s) + 1)
    BY <1>1, <1>7
  <2>5. QED BY <2>1, <2>2, <2>3, <2>4
<1>11. Sorted(t)
  <2>1. ASSUME NEW i \in 1..(Len(s) + 1), NEW j \in 1..(Len(s) + 1), i < j
        PROVE  t[i].key <= t[j].key
    <3>1. CASE i \in 1..c /\ j \in 1..c
      <4>1. t[i] = s[i] /\ i \in 1..Len(s) /\ t[j] = s[j] /\ j \in 1..Len(s)
        BY <1>1, <1>8, <3>1
      <4>2. QED BY <1>3, <2>1, <4>1
    <3>2. CASE i \in 1..c /\ j = c + 1
      <4>1. t[i] = s[i] /\ i \in 1..Len(s) /\ s[i].key <= e.key
        BY <1>7, <1>10, <3>2
      <4>2. t[j] = e
        BY <1>8, <3>2
      <4>3. QED BY <4>1, <4>2
    <3>3. CASE i \in 1..c /\ j \in (c + 2)..(Len(s) + 1)
      <4>1. t[i] = s[i] /\ i \in 1..Len(s) /\ s[i].key <= e.key
        BY <1>7, <1>10, <3>3
      <4>2. t[j] = s[j - 1] /\ j - 1 \in 1..Len(s) /\ s[j - 1].key > e.key
        BY <1>7, <1>10, <3>3
      <4>3. s[i].key \in Int /\ s[j - 1].key \in Int
        BY <1>1, <4>1, <4>2
      <4>4. s[i].key <= s[j - 1].key
        BY <1>2, <4>1, <4>2, <4>3
      <4>5. QED BY <4>1, <4>2, <4>4
    <3>4. CASE i = c + 1 /\ j \in (c + 2)..(Len(s) + 1)
      <4>1. t[j] = s[j - 1] /\ j - 1 \in 1..Len(s) /\ s[j - 1].key > e.key
        BY <1>7, <1>10, <3>4
      <4>2. s[j - 1].key \in Int
        BY <1>1, <4>1
      <4>3. QED BY <1>2, <1>8, <3>4, <4>1, <4>2
    <3>5. CASE i \in (c + 2)..(Len(s) + 1) /\ j \in (c + 2)..(Len(s) + 1)
      <4>1. t[i] = s[i - 1] /\ i - 1 \in 1..Len(s) /\ t[j] = s[j - 1] /\ j - 1 \in 1..Len(s)
        BY <1>7, <1>10, <3>5
      <4>2. i - 1 < j - 1
        BY <2>1
      <4>3. QED BY <1>3, <4>1, <4>2
    <3>6. \/ i \in 1..c /\ j \in 1..c
          \/ i \in 1..c /\ j = c + 1
          \/ i \in 1..c /\ j \in (c + 2)..(Len(s) + 1)
          \/ i = c + 1 /\ j \in (c + 2)..(Len(s) + 1)
          \/ i \in (c + 2)..(Len(s) + 1) /\ j \in (c + 2)..(Len(s) + 1)
      BY <1>1, <1>7, <2>1
    <3>7. QED BY <3>1, <3>2, <3>3, <3>4, <3>5, <3>6
  <2>2. QED BY <1>9, <2>1 DEF Sorted
<1>12. Elems(t) = Elems(s) \cup {e}
  <2>1. Elems(t) \subseteq Elems(s) \cup {e}
    <3>1. \A i \in 1..Len(t) : t[i] \in Elems(s) \cup {e}
      BY <1>8, <1>10 DEF Elems
    <3>2. QED BY <3>1 DEF Elems
  <2>2. e \in Elems(t)
    <3>1. c + 1 \in 1..Len(t)
      BY <1>1, <1>7, <1>8
    <3>2. QED BY <1>8, <3>1 DEF Elems
  <2>3. ASSUME NEW i \in 1..Len(s) PROVE s[i] \in Elems(t)
    <3>1. CASE i <= c
      <4>1. i \in 1..c /\ i \in 1..Len(t)
        BY <1>1, <1>7, <1>8, <3>1
      <4>2. QED BY <1>8, <4>1 DEF Elems
    <3>2. CASE ~(i <= c)
      <4>1. i \in (c + 1)..Len(s) /\ i + 1 \in 1..Len(t)
        BY <1>1, <1>7, <1>8, <3>2
      <4>2. QED BY <1>8, <4>1 DEF Elems
    <3>3. QED BY <3>1, <3>2
  <2>4. Elems(s) \subseteq Elems(t)
    BY <2>3 DEF Elems
  <2>5. QED BY <2>1, <2>2, <2>4
<1>13. QED BY <1>1, <1>6, <1>7, <1>8, <1>11, <1>12 DEF t

\* Entries inserted one after another.
LEMMA SortScan ==
    ASSUME NEW s \in Seq(Entries)
    PROVE  \E R \in [0..Len(s) -> Seq(Entries)] :
              /\ R[0] = <<>> /\ CanonicalText(s) = R[Len(s)]
              /\ \A i \in 1..Len(s) : R[i] = Insert(R[i - 1], s[i])
<1> DEFINE D == DOMAIN s
           n == Len(s)
           Op(acc, x) == Insert(acc, x)
           Runs(g) == g = [t \in SUBSET D |-> IF t = {} THEN <<>>
                             ELSE Op(g[t \ {Max(t)}], s[Max(t)])]
           G == CHOOSE g : Runs(g)
           step == [xv \in (1..n) \X Seq(Entries) |-> Op(xv[2], s[xv[1]])]
           R == [i \in 0..n |-> G[1..i]]
<1>1. CanonicalText(s) = G[D]
  BY DEF CanonicalText, FoldLeft, MapThenFoldSet
<1>2. n \in Nat /\ D = 1..n /\ \A i \in 1..n : s[i] \in Entries
  BY LenProperties, ElementOfSeq
<1>3. <<>> \in Seq(Entries) /\ \A acc \in Seq(Entries), x \in Entries : Op(acc, x) \in Seq(Entries)
  BY InsertClosed
<1> HIDE DEF n, Op
<1>4. Runs(G)
  <2>1. step \in [(1..n) \X Seq(Entries) -> Seq(Entries)]
    BY <1>2, <1>3
  <2>2. PICK g \in [SUBSET (1..n) -> Seq(Entries)] : Loops(n, <<>>, step, g)
    <3> HIDE DEF step
    <3>1. QED BY <1>2, <1>3, <2>1, IndexRecursion
  <2>3. ASSUME NEW t \in SUBSET (1..n), t # {}
        PROVE  step[<<Max(t), g[t \ {Max(t)}]>>] = Op(g[t \ {Max(t)}], s[Max(t)])
    <3>1. Max(t) \in t
      BY <1>2, <2>3, MaxOfIndices
    <3>2. Max(t) \in 1..n /\ t \ {Max(t)} \in SUBSET (1..n)
      BY <3>1
    <3>3. g[t \ {Max(t)}] \in Seq(Entries)
      BY <3>2
    <3>4. QED BY <3>2, <3>3
  <2>4. ASSUME NEW t \in SUBSET (1..n)
        PROVE  g[t] = IF t = {} THEN <<>> ELSE Op(g[t \ {Max(t)}], s[Max(t)])
    <3> HIDE DEF step
    <3>1. QED BY <2>2, <2>3 DEF Loops
  <2>5. Runs(g)
    <3> HIDE DEF step
    <3>1. QED BY <1>2, <2>4
  <2> HIDE DEF Runs
  <2>6. QED BY <2>5
<1>5. G[1..0] = <<>>
  <2>1. 1..0 = {} /\ {} \in SUBSET D
    OBVIOUS
  <2> HIDE DEF G, D
  <2>2. QED BY <1>4, <2>1
<1>6. ASSUME NEW i \in 1..n PROVE G[1..i] = Op(G[1..(i - 1)], s[i])
  <2>1. 1..i \in SUBSET D /\ 1..i # {} /\ Max(1..i) = i /\ (1..i) \ {i} = 1..(i - 1)
    <3>1. i \in Nat \ {0} /\ 1..i \subseteq D /\ i \in 1..i
      BY <1>2
    <3>2. Max(1..i) = i /\ (1..i) \ {i} = 1..(i - 1)
      BY <3>1, MaxOfInterval
    <3>3. QED BY <3>1, <3>2
  <2> HIDE DEF G, D
  <2>2. QED BY <1>4, <2>1
<1> HIDE DEF G, Runs, step, D
<1> DEFINE Bad == {i \in 0..n : ~(G[1..i] \in Seq(Entries))}
<1>7. Bad = {}
  <2>1. SUFFICES ASSUME Bad # {} PROVE FALSE
    OBVIOUS
  <2>2. Bad \in SUBSET Nat
    BY <1>2
  <2>3. PICK i \in Bad : \A k \in Bad : i <= k
    <3> HIDE DEF Bad
    <3>1. QED BY <2>1, <2>2, LeastNatural
  <2>4. i # 0
    BY <1>3, <1>5, <2>3
  <2>5. i \in 1..n /\ i - 1 \in 0..n /\ i - 1 \notin Bad
    BY <1>2, <2>3, <2>4
  <2>6. G[1..(i - 1)] \in Seq(Entries) /\ s[i] \in Entries
    BY <1>2, <2>5
  <2>7. G[1..i] = Op(G[1..(i - 1)], s[i])
    BY <1>6, <2>5
  <2>8. G[1..i] \in Seq(Entries)
    BY <1>3, <2>6, <2>7
  <2>9. QED BY <2>3, <2>8
<1>8. R \in [0..n -> Seq(Entries)] /\ R[0] = <<>>
  BY <1>2, <1>5, <1>7
<1>9. ASSUME NEW i \in 1..n PROVE R[i] = Op(R[i - 1], s[i])
  <2>1. i \in 0..n /\ i - 1 \in 0..n
    BY <1>2
  <2>2. QED BY <1>6, <2>1
<1>10. CanonicalText(s) = R[n]
  BY <1>1, <1>2
<1> HIDE DEF R, G
<1>11. QED BY <1>8, <1>9, <1>10 DEF n, Op


\* The canonicalizer sorts a listing and keeps its entries.
LEMMA CanonicalTextSorts ==
    ASSUME NEW text \in Seq(Entries)
    PROVE  /\ CanonicalText(text) \in Seq(Entries) /\ Sorted(CanonicalText(text))
           /\ ToSet(CanonicalText(text)) = ToSet(text) /\ Len(CanonicalText(text)) = Len(text)
<1> DEFINE n == Len(text)
<1>1. PICK R \in [0..n -> Seq(Entries)] :
        /\ R[0] = <<>> /\ CanonicalText(text) = R[n]
        /\ \A i \in 1..n : R[i] = Insert(R[i - 1], text[i])
  BY SortScan
<1>2. n \in Nat /\ DOMAIN text = 1..n /\ \A i \in 1..n : text[i] \in Entries
  BY LenProperties, ElementOfSeq
<1> HIDE DEF n
<1> DEFINE Good(i) == Sorted(R[i]) /\ Len(R[i]) = i /\ Elems(R[i]) = {text[k] : k \in 1..i}
           Bad == {i \in 0..n : ~Good(i)}
<1>3. Good(0)
  <2>1. Sorted(<<>>)
    BY DEF Sorted
  <2>2. Len(<<>>) = 0 /\ Elems(<<>>) = {} /\ {text[k] : k \in 1..0} = {}
    BY DEF Elems
  <2>3. QED BY <1>1, <2>1, <2>2
<1>4. ASSUME NEW i \in 1..n, Good(i - 1) PROVE Good(i)
  <2>1. R[i - 1] \in Seq(Entries) /\ text[i] \in Entries /\ R[i] = Insert(R[i - 1], text[i])
    <3>1. i - 1 \in 0..n
      BY <1>2
    <3>2. QED BY <1>1, <1>2, <3>1
  <2>2. /\ Sorted(R[i]) /\ Len(R[i]) = Len(R[i - 1]) + 1
        /\ Elems(R[i]) = Elems(R[i - 1]) \cup {text[i]}
    BY <1>4, <2>1, InsertSorts
  <2>3. {text[k] : k \in 1..i} = {text[k] : k \in 1..(i - 1)} \cup {text[i]}
    <3>1. 1..i = (1..(i - 1)) \cup {i}
      BY <1>2
    <3>2. QED BY <3>1
  <2>4. Len(R[i]) = i
    BY <1>2, <1>4, <2>2
  <2>5. QED BY <1>4, <2>2, <2>3, <2>4
<1>5. Bad = {}
  <2>1. SUFFICES ASSUME Bad # {} PROVE FALSE
    OBVIOUS
  <2>2. Bad \in SUBSET Nat
    BY <1>2
  <2>3. PICK i \in Bad : \A k \in Bad : i <= k
    <3> HIDE DEF Bad
    <3>1. QED BY <2>1, <2>2, LeastNatural
  <2> HIDE DEF Good
  <2>4. i # 0
    BY <1>3, <2>3
  <2>5. i \in 1..n /\ i - 1 \in 0..n /\ i - 1 \notin Bad
    BY <1>2, <2>3, <2>4
  <2>6. Good(i - 1)
    BY <2>5
  <2>7. QED BY <1>4, <2>3, <2>5, <2>6
<1>6. n \in 0..n
  BY <1>2
<1>7. Good(n)
  <2> HIDE DEF Good
  <2>1. QED BY <1>5, <1>6
<1>8. CanonicalText(text) \in Seq(Entries) /\ Sorted(CanonicalText(text)) /\ Len(CanonicalText(text)) = n
  BY <1>1, <1>6, <1>7
<1>9. ToSet(CanonicalText(text)) = Elems(R[n])
  <2>1. DOMAIN R[n] = 1..Len(R[n])
    BY <1>1, <1>6, LenProperties
  <2>2. QED BY <1>1, <2>1 DEF ToSet, Elems
<1>10. ToSet(text) = {text[k] : k \in 1..n}
  BY <1>2 DEF ToSet
<1>11. QED BY <1>7, <1>8, <1>9, <1>10 DEF n

-------------------------------------------------------------------------------
(* Heads, tools, depths                                                     *)

\* With at most the first message a system message, the head has at most it.
LEMMA LeadingIs ==
    ASSUME NEW ms \in Seq(Msg), \A i \in 2..Len(ms) : ~ms[i].system
    PROVE  Leading(ms) = IF Len(ms) > 0 /\ ms[1].system THEN <<ms[1]>> ELSE <<>>
<1> DEFINE n == Len(ms)
<1>1. PICK R \in [0..n -> Seq(Msg)] :
        /\ R[0] = <<>> /\ Leading(ms) = R[n]
        /\ \A i \in 1..n : R[i] = IF ms[i].system THEN Append(R[i - 1], ms[i]) ELSE R[i - 1]
  BY LeadingScan
<1>2. n \in Nat /\ \A i \in 2..n : ~ms[i].system
  BY LenProperties
<1> HIDE DEF n
<1> DEFINE Good(i) == R[i] = IF i > 0 /\ ms[1].system THEN <<ms[1]>> ELSE <<>>
           Bad == {i \in 0..n : ~Good(i)}
<1>3. Good(0)
  BY <1>1
<1>4. ASSUME NEW i \in 1..n, Good(i - 1) PROVE Good(i)
  <2>1. CASE i = 1
    <3>1. R[i - 1] = <<>> /\ Append(<<>>, ms[1]) = <<ms[1]>>
      BY <1>1, <2>1
    <3>2. R[i] = IF ms[1].system THEN <<ms[1]>> ELSE <<>>
      <4> DEFINE longer == Append(R[i - 1], ms[i])
      <4>1. R[i] = IF ms[i].system THEN longer ELSE R[i - 1]
        BY <1>1
      <4>2. longer = <<ms[1]>>
        BY <2>1, <3>1
      <4> HIDE DEF longer
      <4>3. QED BY <2>1, <3>1, <4>1, <4>2
    <3>3. QED BY <2>1, <3>2
  <2>2. CASE i # 1
    <3>1. i \in 2..n /\ i - 1 > 0 /\ i > 0
      BY <1>2, <2>2
    <3>2. R[i] = R[i - 1]
      BY <1>1, <1>2, <3>1
    <3>3. QED BY <1>4, <3>1, <3>2
  <2>3. QED BY <2>1, <2>2
<1>5. Bad = {}
  <2>1. SUFFICES ASSUME Bad # {} PROVE FALSE
    OBVIOUS
  <2>2. Bad \in SUBSET Nat
    BY <1>2
  <2>3. PICK i \in Bad : \A k \in Bad : i <= k
    <3> HIDE DEF Bad
    <3>1. QED BY <2>1, <2>2, LeastNatural
  <2> HIDE DEF Good
  <2>4. i # 0
    BY <1>3, <2>3
  <2>5. i \in 1..n /\ i - 1 \in 0..n /\ i - 1 \notin Bad
    BY <1>2, <2>3, <2>4
  <2>6. Good(i - 1)
    BY <2>5
  <2>7. QED BY <1>4, <2>3, <2>5, <2>6
<1>6. n \in 0..n
  BY <1>2
<1>7. Good(n)
  <2> HIDE DEF Good
  <2>1. QED BY <1>5, <1>6
<1>8. QED BY <1>1, <1>7 DEF n

\* Deduplication drops no tool and adds none.
LEMMA DedupKeeps ==
    ASSUME NEW tools \in Seq(Tool)
    PROVE  Dedup(tools) \in Seq(Tool) /\ Elems(Dedup(tools)) = Elems(tools)
<1> DEFINE n == Len(tools)
<1>1. PICK R \in [0..n -> Seq(Tool)] :
        /\ R[0] = <<>> /\ Dedup(tools) = R[n]
        /\ \A i \in 1..n : R[i] = IF tools[i] \in ToSet(R[i - 1]) THEN R[i - 1] ELSE Append(R[i - 1], tools[i])
  BY DedupScan
<1>2. n \in Nat /\ \A i \in 1..n : tools[i] \in Tool
  BY LenProperties, ElementOfSeq
<1> HIDE DEF n
<1> DEFINE Good(i) == Elems(R[i]) = {tools[k] : k \in 1..i}
           Bad == {i \in 0..n : ~Good(i)}
<1>3. Good(0)
  BY <1>1 DEF Elems
<1>4. ASSUME NEW i \in 1..n, Good(i - 1) PROVE Good(i)
  <2>1. R[i - 1] \in Seq(Tool) /\ tools[i] \in Tool
    <3>1. i - 1 \in 0..n
      BY <1>2
    <3>2. QED BY <1>1, <1>2, <3>1
  <2>2. ToSet(R[i - 1]) = Elems(R[i - 1])
    <3>1. DOMAIN R[i - 1] = 1..Len(R[i - 1])
      BY <2>1, LenProperties
    <3>2. QED BY <3>1 DEF ToSet, Elems
  <2>3. Elems(Append(R[i - 1], tools[i])) = Elems(R[i - 1]) \cup {tools[i]}
    BY <2>1, AppendElements
  <2>4. Elems(R[i]) = Elems(R[i - 1]) \cup {tools[i]}
    <3>1. CASE tools[i] \in ToSet(R[i - 1])
      BY <1>1, <2>2, <3>1
    <3>2. CASE tools[i] \notin ToSet(R[i - 1])
      BY <1>1, <2>3, <3>2
    <3>3. QED BY <3>1, <3>2
  <2>5. {tools[k] : k \in 1..i} = {tools[k] : k \in 1..(i - 1)} \cup {tools[i]}
    <3>1. 1..i = (1..(i - 1)) \cup {i}
      BY <1>2
    <3>2. QED BY <3>1
  <2>6. QED BY <1>4, <2>4, <2>5
<1>5. Bad = {}
  <2>1. SUFFICES ASSUME Bad # {} PROVE FALSE
    OBVIOUS
  <2>2. Bad \in SUBSET Nat
    BY <1>2
  <2>3. PICK i \in Bad : \A k \in Bad : i <= k
    <3> HIDE DEF Bad
    <3>1. QED BY <2>1, <2>2, LeastNatural
  <2> HIDE DEF Good
  <2>4. i # 0
    BY <1>3, <2>3
  <2>5. i \in 1..n /\ i - 1 \in 0..n /\ i - 1 \notin Bad
    BY <1>2, <2>3, <2>4
  <2>6. Good(i - 1)
    BY <2>5
  <2>7. QED BY <1>4, <2>3, <2>5, <2>6
<1>6. n \in 0..n
  BY <1>2
<1>7. Good(n)
  <2> HIDE DEF Good
  <2>1. QED BY <1>5, <1>6
<1>8. R[n] \in Seq(Tool)
  BY <1>1, <1>6
<1>9. QED BY <1>1, <1>7, <1>8 DEF n, Elems

\* The blocks up to each message.
Counts(ms, P) ==
    /\ P \in [0..Len(ms) -> Nat] /\ P[0] = 0
    /\ \A i \in 1..Len(ms) : P[i] = P[i - 1] + Blocks(ms[i])

\* Messages of as many blocks count the same.
LEMMA CountsAgree ==
    ASSUME NEW ms \in Seq(Msg), NEW P, Counts(ms, P), NEW ns \in Seq(Msg), NEW Q, Counts(ns, Q),
           NEW n \in Nat, n <= Len(ms), n <= Len(ns),
           \A i \in 1..n : Blocks(ms[i]) = Blocks(ns[i])
    PROVE  \A i \in 0..n : P[i] = Q[i]
<1> DEFINE Bad == {i \in 0..n : P[i] # Q[i]}
<1>1. SUFFICES ASSUME Bad # {} PROVE FALSE
  OBVIOUS
<1>2. Bad \in SUBSET Nat
  OBVIOUS
<1>3. PICK i \in Bad : \A k \in Bad : i <= k
  <2> HIDE DEF Bad
  <2>1. QED BY <1>1, <1>2, LeastNatural
<1>4. i # 0
  BY <1>3 DEF Counts
<1>5. i \in 1..n /\ i - 1 \in 0..n /\ i - 1 \notin Bad
  BY <1>3, <1>4
<1>6. Len(ms) \in Nat /\ Len(ns) \in Nat
  BY LenProperties
<1>7. i \in 1..Len(ms) /\ i \in 1..Len(ns)
  BY <1>5, <1>6
<1>8. P[i] = P[i - 1] + Blocks(ms[i]) /\ Q[i] = Q[i - 1] + Blocks(ns[i])
  BY <1>7 DEF Counts
<1>9. P[i - 1] = Q[i - 1] /\ Blocks(ms[i]) = Blocks(ns[i]) /\ P[i] # Q[i]
  BY <1>3, <1>5
<1>10. QED BY <1>8, <1>9

\* Every sequence of messages has its counts.
LEMMA CountsExist ==
    ASSUME NEW ms \in Seq(Msg)
    PROVE  \E P : Counts(ms, P) /\ AllBlocks(ms) = P[Len(ms)]
<1>1. PICK R \in [0..Len(ms) -> Nat] :
        /\ R[0] = 0 /\ AllBlocks(ms) = R[Len(ms)]
        /\ \A i \in 1..Len(ms) : R[i] = R[i - 1] + Blocks(ms[i])
  BY BlocksScan
<1>2. QED BY <1>1 DEF Counts

\* Depth is the count up to a message.
LEMMA DepthCounts ==
    ASSUME NEW ms \in Seq(Msg), NEW P, Counts(ms, P), NEW i \in 0..Len(ms)
    PROVE  Depth(ms, i) = P[i]
<1> DEFINE part == SubSeq(ms, 1, i)
<1>1. part \in Seq(Msg) /\ Len(part) = i /\ \A k \in 1..i : part[k] = ms[k]
  BY SplitAt
<1>2. Depth(ms, i) = AllBlocks(part)
  BY DEF Depth, AllBlocks
<1>3. Len(ms) \in Nat /\ i \in Nat /\ i <= Len(ms)
  BY LenProperties
<1> HIDE DEF part
<1>4. PICK Q : Counts(part, Q) /\ AllBlocks(part) = Q[Len(part)]
  BY <1>1, CountsExist
<1>5. i <= Len(part) /\ \A k \in 1..i : Blocks(part[k]) = Blocks(ms[k])
  BY <1>1, <1>3
<1>6. \A k \in 0..i : Q[k] = P[k]
  BY <1>1, <1>3, <1>4, <1>5, CountsAgree
<1>7. QED BY <1>1, <1>2, <1>3, <1>4, <1>6

\* Depths are natural, and grow with the messages.
LEMMA DepthGrows ==
    ASSUME NEW ms \in Seq(Msg)
    PROVE  /\ Len(ms) \in Nat /\ \A i \in 0..Len(ms) : Depth(ms, i) \in Nat
           /\ \A i, j \in 0..Len(ms) : i <= j => Depth(ms, i) <= Depth(ms, j)
<1> DEFINE n == Len(ms)
<1>1. PICK P : Counts(ms, P)
  BY CountsExist
<1>2. n \in Nat /\ \A i \in 1..n : Blocks(ms[i]) \in Nat
  BY BlocksCount, LenProperties, ElementOfSeq
<1>3. \A i \in 0..n : Depth(ms, i) = P[i] /\ P[i] \in Nat
  BY <1>1, DepthCounts DEF Counts
<1>4. \A i \in 1..n : P[i] = P[i - 1] + Blocks(ms[i])
  BY <1>1 DEF Counts
<1> HIDE DEF n
<1>5. ASSUME NEW i \in 0..n, NEW j \in i..n PROVE P[i] <= P[j]
  <2> DEFINE Bad == {k \in i..n : ~(P[i] <= P[k])}
  <2>1. Bad = {}
    <3>1. SUFFICES ASSUME Bad # {} PROVE FALSE
      OBVIOUS
    <3>2. Bad \in SUBSET Nat
      BY <1>2
    <3>3. PICK k \in Bad : \A l \in Bad : k <= l
      <4> HIDE DEF Bad
      <4>1. QED BY <3>1, <3>2, LeastNatural
    <3>4. k # i
      BY <1>3, <3>3
    <3>5. k \in 1..n /\ k - 1 \in i..n /\ k \in i..n /\ k - 1 \in 0..n /\ k \in 0..n
      BY <1>2, <3>3, <3>4
    <3>6. k - 1 \notin Bad
      BY <3>3, <3>5
    <3>7. P[i] <= P[k - 1] /\ ~(P[i] <= P[k])
      BY <3>3, <3>5, <3>6
    <3>8. P[k] = P[k - 1] + Blocks(ms[k]) /\ Blocks(ms[k]) \in Nat /\ P[k - 1] \in Nat /\ P[i] \in Nat
      BY <1>2, <1>3, <1>4, <3>5
    <3>9. QED BY <3>7, <3>8
  <2>2. QED BY <2>1
<1>6. \A i, j \in 0..n : i <= j => Depth(ms, i) <= Depth(ms, j)
  <2> SUFFICES ASSUME NEW i \in 0..n, NEW j \in 0..n, i <= j PROVE Depth(ms, i) <= Depth(ms, j)
    OBVIOUS
  <2>1. j \in i..n
    BY <1>2
  <2>2. QED BY <1>3, <1>5, <2>1
<1>7. QED BY <1>2, <1>3, <1>6 DEF n

\* Depth depends on the blocks of the messages only.
LEMMA DepthAgrees ==
    ASSUME NEW ms \in Seq(Msg), NEW ns \in Seq(Msg), NEW n \in Nat, n <= Len(ms), n <= Len(ns),
           \A i \in 1..n : Blocks(ms[i]) = Blocks(ns[i])
    PROVE  \A i \in 0..n : Depth(ms, i) = Depth(ns, i)
<1>1. PICK P : Counts(ms, P)
  BY CountsExist
<1>2. PICK Q : Counts(ns, Q)
  BY CountsExist
<1>3. \A i \in 0..n : P[i] = Q[i]
  BY <1>1, <1>2, CountsAgree
<1>4. Len(ms) \in Nat /\ Len(ns) \in Nat
  BY LenProperties
<1>5. \A i \in 0..n : i \in 0..Len(ms) /\ i \in 0..Len(ns)
  BY <1>4
<1>6. QED BY <1>1, <1>2, <1>3, <1>5, DepthCounts

-------------------------------------------------------------------------------
(* pi's payload                                                             *)

\* pi's mark, how many messages it puts before the history, and the messages it marks.
PisMark == IF profile.markers THEN Tier(profile.long) ELSE "none"
Lead == IF profile.shape = "anthropic" THEN 0 ELSE 1
PisPlace(n, i) == i = Lead + n \/ i <= Lead \/ i - Lead \in Explicit(n)

Plain == {Message(n) : n \in Nat}

\* String content has no block to mark, other content has one.
HasBlocks(m) == IF m.string THEN m.marks = <<>> ELSE Len(m.marks) > 0
Unmarked(m) == \A j \in 1..Len(m.marks) : m.marks[j] = "none"
LastMarked(m, mark) ==
    /\ \A j \in 1..Len(m.marks) : m.marks[j] = IF j = Len(m.marks) THEN mark ELSE "none"
    /\ mark # "none" => ~m.string

\* Messages with pi's marks, and one more on the message extra.
Carries(ms, n, extra, mark) ==
    /\ ms \in Seq(Msg) /\ Len(ms) = Lead + n
    /\ \A i \in 1..(Lead + n) :
          /\ HasBlocks(ms[i]) /\ (ms[i].system <=> i <= Lead)
          /\ IF PisPlace(n, i) \/ i = extra THEN LastMarked(ms[i], mark) ELSE Unmarked(ms[i])

\* Messages with the blocks of the history.
Reflects(lead, ms, h, n) ==
    /\ n \in 1..Len(h) /\ ms \in Seq(Msg) /\ Len(ms) = lead + n
    /\ \A i \in 1..(lead + n) : Blocks(ms[i]) = IF i <= lead THEN 1 ELSE Blocks(h[i - lead])

\* The trailing tool carries the mark.
ToolsCarry(tools, mark) ==
    \A i \in 1..Len(tools) : tools[i].mark = IF i = Len(tools) THEN mark ELSE "none"

\* What a provider's profile says of pi's mark and of the leading messages.
LEMMA ProfileFacts ==
    ASSUME profile \in Profiles
    PROVE  /\ PisMark \in Tiers /\ Lead \in {0, 1} /\ (PisMark # "none" <=> profile.markers)
           /\ PisMark = "1h" <=> profile.markers /\ profile.long
           /\ profile.keyed \in BOOLEAN /\ profile.long \in BOOLEAN /\ profile.markers \in BOOLEAN
           /\ Lead = 1 <=> profile.shape = "completions"
<1>1. profile \in [shape : {"anthropic", "completions"}, markers : BOOLEAN,
                   explicit : {"no", "first", "late"}, keyed : BOOLEAN, long : BOOLEAN]
  BY PipelineAssumption
<1>2. QED BY <1>1 DEF PisMark, Lead, Tier, Tiers

\* A message of the history carries no mark.
LEMMA MessageIs ==
    ASSUME NEW n \in Nat
    PROVE  /\ Message(n) \in Msg /\ HasBlocks(Message(n)) /\ Unmarked(Message(n))
           /\ ~Message(n).system
<1> DEFINE none == [j \in 1..n |-> "none"]
<1>1. none \in [1..n -> Tiers] /\ \A j \in 1..n : none[j] = "none"
  BY DEF Tiers
<1>2. none \in Seq(Tiers) /\ Len(none) = n
  <2> HIDE DEF none
  <2>1. QED BY <1>1, FunctionIsSeq
<1>3. <<>> \in Seq(Entries)
  BY EmptySeq
<1>4. /\ Message(n).system = FALSE /\ Message(n).string = (n = 0) /\ Message(n).marks = none
      /\ Message(n) = [system |-> FALSE, string |-> n = 0, marks |-> none, text |-> <<>>]
  BY DEF Message
<1>5. n = 0 => none = <<>>
  OBVIOUS
<1> HIDE DEF none
<1>6. Message(n) \in Msg
  BY <1>2, <1>3, <1>4 DEF Msg
<1>7. HasBlocks(Message(n))
  <2>1. CASE n = 0
    <3>1. Message(n).string = TRUE
      BY <1>4, <2>1
    <3>2. QED BY <1>4, <1>5, <2>1, <3>1 DEF HasBlocks
  <2>2. CASE n # 0
    <3>1. Message(n).string = FALSE
      BY <1>4, <2>2
    <3>2. QED BY <1>2, <1>4, <2>2, <3>1 DEF HasBlocks
  <2>3. QED BY <2>1, <2>2
<1>8. Unmarked(Message(n))
  BY <1>1, <1>2, <1>4 DEF Unmarked
<1>9. QED BY <1>4, <1>6, <1>7, <1>8

\* Marking a message marks its last block and keeps its blocks; string content becomes
\* one block.
LEMMA MarkLastIs ==
    ASSUME NEW m \in Msg, HasBlocks(m), Unmarked(m), NEW mark \in Tiers
    PROVE  /\ MarkLast(m, mark) \in Msg /\ HasBlocks(MarkLast(m, mark))
           /\ LastMarked(MarkLast(m, mark), mark) /\ Blocks(MarkLast(m, mark)) = Blocks(m)
           /\ MarkLast(m, mark).system = m.system
<1> DEFINE r == MarkLast(m, mark)
<1>1. m.marks \in Seq(Tiers) /\ m.string \in BOOLEAN
  BY DEF Msg
<1>2. Len(m.marks) \in Nat /\ m.marks \in [1..Len(m.marks) -> Tiers]
  BY <1>1, LenProperties
<1>3. CASE mark = "none"
  <2>1. r = m
    BY <1>3 DEF MarkLast
  <2>2. LastMarked(m, mark)
    BY <1>3 DEF LastMarked, Unmarked
  <2> HIDE DEF r
  <2>3. QED BY <2>1, <2>2 DEF r
<1>4. CASE mark # "none" /\ m.string
  <2>1. r = [m EXCEPT !.string = FALSE, !.marks = <<mark>>]
    BY <1>4 DEF MarkLast
  <2> HIDE DEF r
  <2>2. <<mark>> \in Seq(Tiers) /\ Len(<<mark>>) = 1 /\ <<mark>>[1] = mark
    OBVIOUS
  <2>3. r \in Msg /\ r.string = FALSE /\ r.marks = <<mark>> /\ r.system = m.system
    BY <2>1, <2>2 DEF Msg
  <2>4. HasBlocks(r) /\ Blocks(r) = Blocks(m)
    BY <1>4, <2>2, <2>3 DEF HasBlocks, Blocks
  <2>5. LastMarked(r, mark)
    BY <2>2, <2>3 DEF LastMarked
  <2>6. QED BY <2>3, <2>4, <2>5 DEF r
<1>5. CASE mark # "none" /\ ~m.string
  <2> DEFINE marks == [m.marks EXCEPT ![Len(m.marks)] = mark]
  <2>1. r = [m EXCEPT !.marks[Len(m.marks)] = mark]
    BY <1>5 DEF MarkLast
  <2>2. r = [m EXCEPT !.marks = marks]
    BY <2>1
  <2>3. /\ marks \in [1..Len(m.marks) -> Tiers]
        /\ \A j \in 1..Len(m.marks) : marks[j] = IF j = Len(m.marks) THEN mark ELSE m.marks[j]
    BY <1>2
  <2> HIDE DEF r, marks
  <2>4. marks \in Seq(Tiers) /\ Len(marks) = Len(m.marks)
    BY <1>2, <2>3, FunctionIsSeq
  <2>5. r \in Msg /\ r.string = m.string /\ r.marks = marks /\ r.system = m.system
    BY <2>2, <2>4 DEF Msg
  <2>6. HasBlocks(r) /\ Blocks(r) = Blocks(m)
    BY <1>5, <2>4, <2>5 DEF HasBlocks, Blocks
  <2>7. LastMarked(r, mark)
    BY <1>5, <2>3, <2>4, <2>5 DEF LastMarked, Unmarked
  <2>8. QED BY <2>5, <2>6, <2>7 DEF r
<1>6. QED BY <1>1, <1>3, <1>4, <1>5

-------------------------------------------------------------------------------
(* pi's payload is built                                                    *)

\* The system message is one block without a mark.
LEMMA SystemMessageIs ==
    ASSUME NEW listing \in Seq(Entries)
    PROVE  /\ SystemMessage(listing) \in Msg /\ HasBlocks(SystemMessage(listing))
           /\ Unmarked(SystemMessage(listing)) /\ SystemMessage(listing).system
           /\ Blocks(SystemMessage(listing)) = 1
<1> DEFINE m == Message(0)
           r == SystemMessage(listing)
<1>1. m \in Msg /\ HasBlocks(m) /\ Unmarked(m)
  BY MessageIs
<1>2. m.string = TRUE
  BY DEF Message
<1>3. r = [m EXCEPT !.system = TRUE, !.text = listing]
  BY DEF SystemMessage
<1> HIDE DEF m, r
<1>4. r \in Msg /\ r.system = TRUE /\ r.string = TRUE /\ r.marks = m.marks
  BY <1>1, <1>2, <1>3 DEF Msg
<1>5. HasBlocks(r) /\ Unmarked(r) /\ Blocks(r) = 1
  BY <1>1, <1>2, <1>4 DEF HasBlocks, Unmarked, Blocks
<1>6. QED BY <1>4, <1>5 DEF r

\* So are all messages of a history.
LEMMA PlainIs ==
    ASSUME NEW m \in Plain
    PROVE  m \in Msg /\ HasBlocks(m) /\ Unmarked(m) /\ ~m.system
BY MessageIs DEF Plain

\* What pi puts into a payload.
LEMMA BuildMessages ==
    ASSUME profile \in Profiles, history \in Seq(Plain), history # <<>>,
           NEW tools, NEW listing \in Listings
    PROVE  /\ Carries(Build(tools, listing).messages, Len(history), 0, PisMark)
           /\ Reflects(Lead, Build(tools, listing).messages, history, Len(history))
<1> DEFINE n == Len(history)
           native == profile.shape = "anthropic"
           first == MarkLast(SystemMessage(listing), PisMark)
           lead == IF native THEN <<>> ELSE <<first>>
           mine(i) == i = n \/ i \in Explicit(n)
           rest == [i \in DOMAIN history |-> IF mine(i) THEN MarkLast(history[i], PisMark) ELSE history[i]]
           ms == lead \o rest
<1>1. Build(tools, listing).messages = ms
  BY DEF Build, PisMark
<1>2. /\ n \in Nat /\ DOMAIN history = 1..n /\ n > 0
      /\ \A i \in 1..n : history[i] \in Msg /\ HasBlocks(history[i]) /\ Unmarked(history[i]) /\ ~history[i].system
  <2>1. n \in Nat /\ DOMAIN history = 1..n /\ \A i \in 1..n : history[i] \in Plain
    BY LenProperties, ElementOfSeq
  <2>2. n # 0
    BY EmptySeq
  <2>3. QED BY <2>1, <2>2, PlainIs
<1>3. PisMark \in Tiers /\ Lead \in {0, 1} /\ (Lead = 0 <=> native)
  BY ProfileFacts DEF Lead
<1>4. listing \in Seq(Entries)
  BY PipelineAssumption DEF Entries
<1>5. /\ first \in Msg /\ HasBlocks(first) /\ LastMarked(first, PisMark) /\ first.system
      /\ Blocks(first) = 1
  BY <1>3, <1>4, SystemMessageIs, MarkLastIs
<1> HIDE DEF n, first, mine
<1>6. /\ rest \in Seq(Msg) /\ Len(rest) = n
      /\ \A i \in 1..n : /\ HasBlocks(rest[i]) /\ ~rest[i].system /\ Blocks(rest[i]) = Blocks(history[i])
                         /\ IF mine(i) THEN LastMarked(rest[i], PisMark) ELSE Unmarked(rest[i])
  <2>1. \A i \in 1..n : rest[i] = IF mine(i) THEN MarkLast(history[i], PisMark) ELSE history[i]
    BY <1>2
  <2>2. ASSUME NEW i \in 1..n
        PROVE  /\ rest[i] \in Msg
               /\ HasBlocks(rest[i]) /\ ~rest[i].system /\ Blocks(rest[i]) = Blocks(history[i])
               /\ IF mine(i) THEN LastMarked(rest[i], PisMark) ELSE Unmarked(rest[i])
    <3>1. CASE mine(i)
      <4>1. rest[i] = MarkLast(history[i], PisMark)
        BY <2>1, <3>1
      <4> HIDE DEF rest
      <4>2. QED BY <1>2, <1>3, <3>1, <4>1, MarkLastIs
    <3>2. CASE ~mine(i)
      <4>1. rest[i] = history[i]
        BY <2>1, <3>2
      <4> HIDE DEF rest
      <4>2. QED BY <1>2, <3>2, <4>1
    <3>3. QED BY <3>1, <3>2
  <2>3. rest \in [1..n -> Msg]
    <3>1. rest = [i \in 1..n |-> rest[i]]
      BY <1>2
    <3> HIDE DEF rest
    <3>2. QED BY <2>2, <3>1
  <2> HIDE DEF rest
  <2>4. rest \in Seq(Msg) /\ Len(rest) = n
    BY <1>2, <2>3, FunctionIsSeq
  <2>5. QED BY <2>2, <2>4
<1>7. lead \in Seq(Msg) /\ Len(lead) = Lead /\ \A i \in 1..Lead : lead[i] = first
  <2>1. CASE native
    <3>1. <<>> \in Seq(Msg) /\ Len(<<>>) = 0
      BY EmptySeq
    <3>2. QED BY <1>3, <2>1, <3>1
  <2>2. CASE ~native
    <3>1. <<first>> \in Seq(Msg) /\ Len(<<first>>) = 1 /\ <<first>>[1] = first
      BY <1>5
    <3>2. Lead = 1
      BY <1>3, <2>2
    <3>3. QED BY <2>2, <3>1, <3>2
  <2>3. QED BY <2>1, <2>2
<1> HIDE DEF lead, rest
<1>8. lead \in Seq(Msg) /\ rest \in Seq(Msg)
  BY <1>6, <1>7
<1>9. /\ ms \in Seq(Msg) /\ Len(ms) = Len(lead) + Len(rest)
      /\ \A i \in 1..Len(lead) : ms[i] = lead[i]
      /\ \A i \in 1..Len(ms) :
            i \in 1..Len(lead) \/ (i - Len(lead) \in 1..Len(rest) /\ ms[i] = rest[i - Len(lead)])
  BY <1>8, ConcatElements
<1> HIDE DEF ms
<1>10. /\ Len(ms) = Lead + n
       /\ \A i \in 1..Lead : ms[i] = first
       /\ \A i \in 1..(Lead + n) : i \in 1..Lead \/ (i - Lead \in 1..n /\ ms[i] = rest[i - Lead])
  BY <1>6, <1>7, <1>9
<1>11. ASSUME NEW i \in 1..(Lead + n)
       PROVE  /\ HasBlocks(ms[i]) /\ (ms[i].system <=> i <= Lead)
              /\ IF PisPlace(n, i) \/ i = 0 THEN LastMarked(ms[i], PisMark) ELSE Unmarked(ms[i])
              /\ Blocks(ms[i]) = IF i <= Lead THEN 1 ELSE Blocks(history[i - Lead])
  <2>1. CASE i \in 1..Lead
    <3>1. ms[i] = first /\ i <= Lead /\ PisPlace(n, i)
      BY <1>10, <2>1 DEF PisPlace
    <3>2. QED BY <1>5, <3>1
  <2>2. CASE i - Lead \in 1..n /\ ms[i] = rest[i - Lead]
    <3>1. ~(i <= Lead) /\ i # 0
      BY <1>2, <1>3, <2>2
    <3>2. PisPlace(n, i) <=> mine(i - Lead)
      <4>1. i = Lead + n <=> i - Lead = n
        BY <1>2, <1>3
      <4>2. QED BY <3>1, <4>1 DEF PisPlace, mine
    <3>3. /\ HasBlocks(rest[i - Lead]) /\ ~rest[i - Lead].system
          /\ Blocks(rest[i - Lead]) = Blocks(history[i - Lead])
          /\ IF mine(i - Lead) THEN LastMarked(rest[i - Lead], PisMark) ELSE Unmarked(rest[i - Lead])
      BY <1>6, <2>2
    <3>4. QED BY <2>2, <3>1, <3>2, <3>3
  <2>3. QED BY <1>10, <2>1, <2>2
<1>12. Carries(ms, n, 0, PisMark)
  BY <1>9, <1>10, <1>11 DEF Carries
<1>13. Reflects(Lead, ms, history, n)
  <2>1. n \in 1..Len(history)
    BY <1>2 DEF n
  <2>2. QED BY <1>9, <1>10, <1>11, <2>1 DEF Reflects
<1>14. QED BY <1>1, <1>12, <1>13 DEF n

\* The parts of a payload, besides its messages, as pi builds them.
Native(p) ==
    /\ p.hasTools \in BOOLEAN /\ p.tools \in Seq(Tool) /\ ToolsCarry(p.tools, PisMark)
    /\ p.hasTools <=> Len(p.tools) > 0
    /\ p.system \in Seq(Block) /\ \A i \in 1..Len(p.system) : p.system[i].mark = PisMark
    /\ p.key = IF profile.keyed THEN SessionKey ELSE None
    /\ p.retention = IF profile.keyed /\ profile.long THEN "24h" ELSE "none"
    /\ Lead = 1 => p.system = <<>>

\* The rest of what pi builds, tools, system prompt, key and retention.
LEMMA BuildIs ==
    ASSUME profile \in Profiles, history \in Seq(Plain), history # <<>>,
           NEW tools \in Tools, NEW listing \in Listings
    PROVE  /\ Native(Build(tools, listing)) /\ Build(tools, listing) \in Payload
           /\ Build(tools, listing) # NoPayload
<1> DEFINE p == Build(tools, listing)
           named == [i \in DOMAIN tools |->
                       [name |-> tools[i], mark |-> IF i = Len(tools) THEN PisMark ELSE "none"]]
           native == profile.shape = "anthropic"
           system == IF native THEN <<[text |-> listing, mark |-> PisMark]>> ELSE <<>>
<1>1. /\ p.system = system /\ p.hasTools = (tools # <<>>) /\ p.tools = named
      /\ p.key = (IF profile.keyed THEN SessionKey ELSE None)
      /\ p.retention = (IF profile.keyed /\ profile.long THEN "24h" ELSE "none")
      /\ p = [system |-> p.system, hasTools |-> p.hasTools, tools |-> p.tools,
              messages |-> p.messages, key |-> p.key, retention |-> p.retention]
  BY DEF Build, PisMark
<1>2. PisMark \in Tiers /\ (Lead = 0 <=> native) /\ Lead \in {0, 1}
  BY ProfileFacts DEF Lead
<1>3. listing \in Seq(Entries) /\ tools \in Seq(STRING)
  BY PipelineAssumption DEF Entries
<1>4. Len(tools) \in Nat /\ DOMAIN tools = 1..Len(tools) /\ \A i \in 1..Len(tools) : tools[i] \in STRING
  BY <1>3, LenProperties, ElementOfSeq
<1>5. /\ named \in [1..Len(tools) -> Tool]
      /\ \A i \in 1..Len(tools) : named[i].mark = IF i = Len(tools) THEN PisMark ELSE "none"
  BY <1>2, <1>4 DEF Tool, Tiers
<1>6. system \in Seq(Block) /\ \A i \in 1..Len(system) : system[i].mark = PisMark
  <2>1. CASE native
    <3> DEFINE one == [text |-> listing, mark |-> PisMark]
    <3>1. one \in Block /\ one.mark = PisMark
      BY <1>2, <1>3 DEF Block
    <3>2. system = <<one>>
      BY <2>1
    <3> HIDE DEF one, system
    <3>3. QED BY <3>1, <3>2
  <2>2. CASE ~native
    <3>1. <<>> \in Seq(Block) /\ Len(<<>>) = 0
      BY EmptySeq
    <3>2. QED BY <2>2, <3>1
  <2>3. QED BY <2>1, <2>2
<1>7. Lead = 1 => system = <<>>
  BY <1>2
<1>8. Carries(p.messages, Len(history), 0, PisMark) /\ Reflects(Lead, p.messages, history, Len(history))
  BY BuildMessages
<1> HIDE DEF named, system
<1>9. named \in Seq(Tool) /\ Len(named) = Len(tools)
  BY <1>4, <1>5, FunctionIsSeq
<1>10. (tools # <<>>) <=> Len(named) > 0
  BY <1>3, <1>4, <1>9, EmptySeq
<1> HIDE DEF p
<1>11. p.messages \in Seq(Msg) /\ Len(p.messages) > 0
  <2>1. Len(history) \in Nat /\ Len(p.messages) = Lead + Len(history) /\ Len(history) \in 1..Len(history)
    BY <1>8, LenProperties DEF Carries, Reflects
  <2>2. QED BY <1>2, <1>8, <2>1 DEF Carries
<1>12. ToolsCarry(p.tools, PisMark)
  BY <1>1, <1>5, <1>9 DEF ToolsCarry
<1>13. Native(p)
  <2>1. p.hasTools \in BOOLEAN /\ (p.hasTools <=> Len(p.tools) > 0)
    BY <1>1, <1>9, <1>10
  <2>2. QED BY <1>1, <1>6, <1>7, <1>9, <1>12, <2>1 DEF Native
<1>14. p.key \in Keys /\ p.retention \in {"none", "24h"}
  <2>1. SessionKey \in Keys
    <3>1. <<>> \in Seq(Msg) /\ <<>> \in Seq(Tool)
      BY EmptySeq
    <3>2. QED BY <3>1 DEF SessionKey, Keys
  <2>2. None \in Keys
    BY DEF Keys
  <2>3. QED BY <1>1, <2>1, <2>2
<1>15. p \in Payload
  BY <1>1, <1>11, <1>13, <1>14 DEF Native, Payload
<1>16. p # NoPayload
  BY <1>11 DEF NoPayload
<1>17. QED BY <1>13, <1>15, <1>16 DEF p

-------------------------------------------------------------------------------
(* The tools                                                                *)

\* A list of tools of which pi marked the last.
NativeTools(tools) == tools \in Seq(Tool) /\ ToolsCarry(tools, PisMark)

\* Repinning leaves the mark on the last tool only.
LEMMA RepinIs ==
    ASSUME NEW tools \in Seq(Tool), NEW mark \in Tiers
    PROVE  /\ Repin(tools, mark) \in Seq(Tool) /\ Len(Repin(tools, mark)) = Len(tools)
           /\ ToolsCarry(Repin(tools, mark), mark)
<1> DEFINE r == Repin(tools, mark)
<1>1. Len(tools) \in Nat /\ DOMAIN tools = 1..Len(tools) /\ \A i \in 1..Len(tools) : tools[i] \in Tool
  BY LenProperties, ElementOfSeq
<1>2. r = [i \in 1..Len(tools) |-> [tools[i] EXCEPT !.mark = IF i = Len(tools) THEN mark ELSE "none"]]
  BY <1>1 DEF Repin
<1> HIDE DEF r
<1>3. /\ r \in [1..Len(tools) -> Tool]
      /\ \A i \in 1..Len(tools) : r[i].mark = IF i = Len(tools) THEN mark ELSE "none"
  <2>1. ASSUME NEW i \in 1..Len(tools)
        PROVE  r[i] \in Tool /\ r[i].mark = IF i = Len(tools) THEN mark ELSE "none"
    <3>1. PICK new \in Tiers : new = IF i = Len(tools) THEN mark ELSE "none"
      BY DEF Tiers
    <3>2. r[i] = [tools[i] EXCEPT !.mark = new]
      BY <1>2, <3>1
    <3>3. tools[i] \in Tool
      BY <1>1
    <3>4. r[i] \in Tool /\ r[i].mark = new
      BY <3>2, <3>3 DEF Tool
    <3>5. QED BY <3>1, <3>4
  <2>2. r = [i \in 1..Len(tools) |-> r[i]]
    BY <1>2
  <2>3. QED BY <2>1, <2>2
<1>4. r \in Seq(Tool) /\ Len(r) = Len(tools)
  BY <1>1, <1>3, FunctionIsSeq
<1>5. QED BY <1>3, <1>4 DEF r, ToolsCarry

\* The tool normalizer keeps the mark on the last tool, and a list nonempty.
LEMMA TransformToolsIs ==
    ASSUME profile \in Profiles, NEW tools, NativeTools(tools)
    PROVE  /\ NativeTools(TransformTools(tools))
           /\ Len(TransformTools(tools)) > 0 <=> Len(tools) > 0
<1> DEFINE I == {i \in 1..Len(tools) : Marked(tools[i].mark)}
           at == IF I # {} THEN Min(I) ELSE 0
           deduped == Dedup(tools)
           r == TransformTools(tools)
<1>1. tools \in Seq(Tool) /\ Len(tools) \in Nat
  BY LenProperties DEF NativeTools
<1>2. r = IF (at # 0 /\ at # Len(tools)) \/ ~switch.dedup \/ deduped = tools THEN tools
          ELSE IF at = 0 THEN deduped ELSE Repin(deduped, tools[at].mark)
  BY DEF TransformTools, SelectInSeq
<1>3. PisMark \in Tiers
  BY ProfileFacts
<1>4. deduped \in Seq(Tool) /\ Elems(deduped) = Elems(tools) /\ Len(deduped) \in Nat
  BY <1>1, DedupKeeps, LenProperties
<1>5. Len(deduped) > 0 <=> Len(tools) > 0
  <2> HIDE DEF deduped
  <2>1. Len(deduped) > 0 <=> Elems(deduped) # {}
    BY <1>4 DEF Elems
  <2>2. Len(tools) > 0 <=> Elems(tools) # {}
    BY <1>1 DEF Elems
  <2>3. QED BY <1>4, <2>1, <2>2
<1> HIDE DEF deduped, r
<1>6. CASE PisMark = "none" \/ Len(tools) = 0
  <2>1. \A i \in 1..Len(tools) : tools[i].mark = "none"
    BY <1>1, <1>6 DEF NativeTools, ToolsCarry
  <2>2. I = {}
    BY <2>1 DEF Marked
  <2>3. r = tools \/ r = deduped
    BY <1>2, <2>2
  <2>4. ToolsCarry(deduped, PisMark)
    <3>1. ASSUME NEW i \in 1..Len(deduped) PROVE deduped[i].mark = "none" /\ PisMark = "none"
      <4>1. deduped[i] \in Elems(tools)
        BY <1>4 DEF Elems
      <4>2. PICK k \in 1..Len(tools) : deduped[i] = tools[k]
        BY <4>1 DEF Elems
      <4>3. Len(tools) # 0
        BY <1>1, <4>2
      <4>4. QED BY <1>6, <2>1, <4>2, <4>3
    <3>2. QED BY <3>1 DEF ToolsCarry
  <2>5. QED BY <1>4, <1>5, <2>3, <2>4 DEF r, NativeTools
<1>7. CASE PisMark # "none" /\ Len(tools) # 0
  <2>1. \A i \in 1..Len(tools) : tools[i].mark = IF i = Len(tools) THEN PisMark ELSE "none"
    BY DEF NativeTools, ToolsCarry
  <2>2. Len(tools) \in 1..Len(tools)
    BY <1>1, <1>7
  <2>3. I = {Len(tools)}
    BY <1>7, <2>1, <2>2 DEF Marked
  <2>4. at = Len(tools)
    <3>1. I # {} /\ I \in SUBSET Nat
      BY <1>1, <2>3
    <3> HIDE DEF I
    <3>2. Min(I) \in I
      BY <3>1, LeastIndex
    <3>3. QED BY <2>3, <3>1, <3>2
  <2>5. r = tools \/ r = Repin(deduped, PisMark)
    BY <1>2, <1>7, <2>1, <2>2, <2>4
  <2>6. /\ Repin(deduped, PisMark) \in Seq(Tool) /\ Len(Repin(deduped, PisMark)) = Len(deduped)
        /\ ToolsCarry(Repin(deduped, PisMark), PisMark)
    BY <1>3, <1>4, RepinIs
  <2>7. QED BY <1>5, <2>5, <2>6 DEF r, NativeTools
<1>8. QED BY <1>6, <1>7

\* Payloads that differ in their tools only.
LEMMA NormalizeIs ==
    ASSUME profile \in Profiles, NEW p \in Payload, Native(p)
    PROVE  /\ Normalize(p) \in Payload /\ Native(Normalize(p))
           /\ Normalize(p).messages = p.messages /\ Normalize(p).system = p.system
           /\ Normalize(p).hasTools = p.hasTools /\ Normalize(p).key = p.key
           /\ Normalize(p).retention = p.retention
<1>1. CASE ~p.hasTools
  BY <1>1 DEF Normalize
<1>2. CASE p.hasTools
  <2> DEFINE t == TransformTools(p.tools)
             q == Normalize(p)
  <2>1. NativeTools(p.tools)
    BY DEF Native, NativeTools
  <2>2. t \in Seq(Tool) /\ ToolsCarry(t, PisMark) /\ (Len(t) > 0 <=> Len(p.tools) > 0)
    BY <2>1, TransformToolsIs DEF NativeTools
  <2>3. q = [p EXCEPT !.tools = t]
    BY <1>2 DEF Normalize
  <2> HIDE DEF t, q
  <2>4. /\ q \in Payload /\ q.messages = p.messages /\ q.system = p.system /\ q.tools = t
        /\ q.hasTools = p.hasTools /\ q.key = p.key /\ q.retention = p.retention
    BY <2>2, <2>3 DEF Payload
  <2>5. Native(q)
    BY <2>2, <2>4 DEF Native
  <2>6. QED BY <2>4, <2>5 DEF q
<1>3. QED BY <1>1, <1>2

-------------------------------------------------------------------------------
(* Where the marks are                                                      *)

\* Where the marks of the messages are.
Spots(n, extra) == {i \in 1..(Lead + n) : PisPlace(n, i) \/ i = extra}

\* What it is to be a marked block.
LEMMA InMarkedBlocks ==
    ASSUME NEW ms \in Seq(Msg), NEW b
    PROVE  b \in MarkedBlocks(ms) <=>
              \E i \in 1..Len(ms) : \E j \in 1..Len(ms[i].marks) :
                  b = <<i, j>> /\ ~ms[i].string /\ Marked(ms[i].marks[j])
<1>1. DOMAIN ms = 1..Len(ms)
  BY LenProperties
<1> HIDE DEF Marked
<1>2. ASSUME b \in MarkedBlocks(ms)
      PROVE  \E i \in 1..Len(ms) : \E j \in 1..Len(ms[i].marks) :
                 b = <<i, j>> /\ ~ms[i].string /\ Marked(ms[i].marks[j])
  <2>1. /\ b \in UNION {{<<i, j>> : j \in 1..Len(ms[i].marks)} : i \in DOMAIN ms}
        /\ ~ms[b[1]].string /\ Marked(ms[b[1]].marks[b[2]])
    BY <1>2 DEF MarkedBlocks
  <2>2. PICK i \in DOMAIN ms : b \in {<<i, j>> : j \in 1..Len(ms[i].marks)}
    BY <2>1
  <2>3. PICK j \in 1..Len(ms[i].marks) : b = <<i, j>>
    BY <2>2
  <2>4. b[1] = i /\ b[2] = j
    BY <2>3
  <2>5. QED BY <1>1, <2>1, <2>3, <2>4
<1>3. ASSUME NEW i \in 1..Len(ms), NEW j \in 1..Len(ms[i].marks),
             b = <<i, j>>, ~ms[i].string, Marked(ms[i].marks[j])
      PROVE  b \in MarkedBlocks(ms)
  <2>1. b \in {<<i, l>> : l \in 1..Len(ms[i].marks)}
    BY <1>3
  <2>2. b \in UNION {{<<k, l>> : l \in 1..Len(ms[k].marks)} : k \in DOMAIN ms}
    BY <1>1, <2>1
  <2>3. b[1] = i /\ b[2] = j
    BY <1>3
  <2>4. QED BY <1>3, <2>2, <2>3 DEF MarkedBlocks
<1>4. QED BY <1>2, <1>3

\* The marks are on the last blocks of those messages.
LEMMA MarkedAt ==
    ASSUME NEW n \in Nat, NEW extra, NEW mark \in Tiers, NEW ms, Carries(ms, n, extra, mark)
    PROVE  /\ mark = "none" => MarkedBlocks(ms) = {}
           /\ mark # "none" => MarkedBlocks(ms) = {<<i, Len(ms[i].marks)>> : i \in Spots(n, extra)}
<1>1. ms \in Seq(Msg) /\ Len(ms) = Lead + n
  BY DEF Carries
<1>2. \A i \in 1..(Lead + n) :
        /\ HasBlocks(ms[i])
        /\ IF PisPlace(n, i) \/ i = extra THEN LastMarked(ms[i], mark) ELSE Unmarked(ms[i])
  BY DEF Carries
<1>3. ASSUME NEW i \in 1..Len(ms), NEW j \in 1..Len(ms[i].marks), Marked(ms[i].marks[j])
      PROVE  mark # "none" /\ j = Len(ms[i].marks) /\ i \in Spots(n, extra)
  BY <1>1, <1>2, <1>3 DEF Marked, LastMarked, Unmarked, Spots
<1>4. ASSUME mark # "none", NEW i \in Spots(n, extra)
      PROVE  /\ i \in 1..Len(ms) /\ Len(ms[i].marks) \in 1..Len(ms[i].marks)
             /\ ~ms[i].string /\ Marked(ms[i].marks[Len(ms[i].marks)])
  <2>1. i \in 1..Len(ms) /\ HasBlocks(ms[i]) /\ LastMarked(ms[i], mark)
    BY <1>1, <1>2, <1>4 DEF Spots
  <2>2. ~ms[i].string /\ Len(ms[i].marks) > 0
    BY <1>4, <2>1 DEF LastMarked, HasBlocks
  <2>3. Len(ms[i].marks) \in Nat
    <3>1. ms[i] \in Msg
      BY <1>1, <2>1, ElementOfSeq
    <3>2. QED BY <3>1, LenProperties DEF Msg
  <2>4. Len(ms[i].marks) \in 1..Len(ms[i].marks)
    BY <2>2, <2>3
  <2>5. QED BY <1>4, <2>1, <2>2, <2>4 DEF LastMarked, Marked
<1>5. ASSUME NEW b \in MarkedBlocks(ms)
      PROVE  mark # "none" /\ b \in {<<i, Len(ms[i].marks)>> : i \in Spots(n, extra)}
  <2>1. PICK i \in 1..Len(ms) : \E j \in 1..Len(ms[i].marks) :
            b = <<i, j>> /\ ~ms[i].string /\ Marked(ms[i].marks[j])
    BY <1>1, InMarkedBlocks
  <2>2. PICK j \in 1..Len(ms[i].marks) : b = <<i, j>> /\ Marked(ms[i].marks[j])
    BY <2>1
  <2>3. mark # "none" /\ j = Len(ms[i].marks) /\ i \in Spots(n, extra)
    BY <1>3, <2>2
  <2>4. QED BY <2>2, <2>3
<1>6. ASSUME mark # "none", NEW i \in Spots(n, extra) PROVE <<i, Len(ms[i].marks)>> \in MarkedBlocks(ms)
  <2>1. PICK b : b = <<i, Len(ms[i].marks)>>
    OBVIOUS
  <2>2. b \in MarkedBlocks(ms)
    BY <1>1, <1>4, <1>6, <2>1, InMarkedBlocks
  <2>3. QED BY <2>1, <2>2
<1>7. QED BY <1>5, <1>6

\* The trailing mark is pi's on the last message.
LEMMA TrailingIs ==
    ASSUME profile \in Profiles, NEW n \in Nat \ {0}, NEW mark \in Tiers, mark # "none",
           NEW ms, Carries(ms, n, 0, mark)
    PROVE  Max({b[1] : b \in MarkedBlocks(ms)}) = Len(ms) /\ TrailingMark(ms) = mark
<1>1. ms \in Seq(Msg) /\ Len(ms) = Lead + n /\ Lead \in {0, 1}
  BY ProfileFacts DEF Carries
<1>2. MarkedBlocks(ms) = {<<i, Len(ms[i].marks)>> : i \in Spots(n, 0)}
  BY MarkedAt
<1>3. Spots(n, 0) \in SUBSET (1..Len(ms)) /\ Len(ms) \in Spots(n, 0) /\ Len(ms) \in Nat
  BY <1>1 DEF Spots, PisPlace
<1>4. {b[1] : b \in MarkedBlocks(ms)} = Spots(n, 0)
  <2>1. \A b \in MarkedBlocks(ms) : b[1] \in Spots(n, 0)
    BY <1>2
  <2>2. ASSUME NEW i \in Spots(n, 0) PROVE \E b \in MarkedBlocks(ms) : b[1] = i
    <3>1. <<i, Len(ms[i].marks)>> \in MarkedBlocks(ms) /\ <<i, Len(ms[i].marks)>>[1] = i
      BY <1>2
    <3>2. QED BY <3>1
  <2>3. QED BY <2>1, <2>2
<1>5. Max(Spots(n, 0)) = Len(ms)
  <2>1. Max(Spots(n, 0)) \in Spots(n, 0) /\ \A x \in Spots(n, 0) : x <= Max(Spots(n, 0))
    BY <1>3, MaxOfIndices
  <2>2. PICK m : m = Max(Spots(n, 0))
    OBVIOUS
  <2>3. m \in 1..Len(ms) /\ Len(ms) <= m
    BY <1>3, <2>1, <2>2
  <2>4. QED BY <1>3, <2>2, <2>3
<1>6. Max({b[1] : b \in MarkedBlocks(ms)}) = Len(ms)
  BY <1>4, <1>5
<1>7. TrailingMark(ms) = mark
  <2> DEFINE N == Len(ms)
             K == Len(ms[N].marks)
             J == {b[2] : b \in {x \in MarkedBlocks(ms) : x[1] = N}}
  <2>1. TrailingMark(ms) = ms[N].marks[Max(J)]
    BY <1>6 DEF TrailingMark
  <2>2. N \in 1..(Lead + n) /\ PisPlace(n, N)
    BY <1>1, <1>3 DEF PisPlace
  <2>3. LastMarked(ms[N], mark) /\ HasBlocks(ms[N]) /\ ms[N] \in Msg
    <3>1. N \in 1..Len(ms)
      BY <1>1, <2>2
    <3>2. QED BY <1>1, <2>2, <3>1, ElementOfSeq DEF Carries
  <2>4. K \in Nat /\ K > 0
    <3>1. K \in Nat
      BY <2>3, LenProperties DEF Msg
    <3>2. QED BY <2>3, <3>1 DEF HasBlocks, LastMarked
  <2>5. J = {K}
    <3>1. \A b \in MarkedBlocks(ms) : b[1] = N => b[2] = K
      BY <1>2
    <3>2. <<N, K>> \in MarkedBlocks(ms) /\ <<N, K>>[1] = N /\ <<N, K>>[2] = K
      BY <1>2, <1>3
    <3>3. <<N, K>> \in {x \in MarkedBlocks(ms) : x[1] = N}
      BY <3>2
    <3>4. K \in J
      BY <3>2, <3>3
    <3>5. QED BY <3>1, <3>4
  <2> HIDE DEF N, K, J
  <2>6. Max(J) = K
    <3>1. J \in SUBSET (1..K) /\ J # {}
      BY <2>4, <2>5
    <3>2. Max(J) \in J
      BY <2>4, <3>1, MaxOfIndices
    <3>3. QED BY <2>5, <3>2
  <2>7. K \in 1..K
    BY <2>4
  <2>8. QED BY <2>1, <2>3, <2>6, <2>7 DEF LastMarked, K
<1>8. QED BY <1>6, <1>7

-------------------------------------------------------------------------------
(* How many marks there are                                                 *)

\* A payload whose marks are all the one mark.
Shaped(p, n, extra, mark) ==
    /\ Carries(p.messages, n, extra, mark) /\ ToolsCarry(p.tools, mark)
    /\ \A i \in 1..Len(p.system) : p.system[i].mark = mark

\* Where the marks of the system prompt and of the tools are.
LEMMA MarkedParts ==
    ASSUME NEW p \in Payload, NEW n, NEW extra, NEW mark \in Tiers, Shaped(p, n, extra, mark)
    PROVE  /\ MarkedIn(p.system) = IF mark = "none" THEN {} ELSE 1..Len(p.system)
           /\ MarkedIn(p.tools) = IF mark = "none" \/ Len(p.tools) = 0 THEN {} ELSE {Len(p.tools)}
           /\ Len(p.system) \in Nat /\ Len(p.tools) \in Nat
<1>1. /\ Len(p.system) \in Nat /\ DOMAIN p.system = 1..Len(p.system)
      /\ Len(p.tools) \in Nat /\ DOMAIN p.tools = 1..Len(p.tools)
  BY LenProperties DEF Payload
<1>2. MarkedIn(p.system) = IF mark = "none" THEN {} ELSE 1..Len(p.system)
  BY <1>1 DEF MarkedIn, Shaped, Marked
<1>3. \A i \in 1..Len(p.tools) : p.tools[i].mark = IF i = Len(p.tools) THEN mark ELSE "none"
  BY DEF Shaped, ToolsCarry
<1>4. MarkedIn(p.tools) = IF mark = "none" \/ Len(p.tools) = 0 THEN {} ELSE {Len(p.tools)}
  <2>1. CASE mark = "none" \/ Len(p.tools) = 0
    BY <1>1, <1>3, <2>1 DEF MarkedIn, Marked
  <2>2. CASE ~(mark = "none" \/ Len(p.tools) = 0)
    <3>1. Len(p.tools) \in 1..Len(p.tools)
      BY <1>1, <2>2
    <3>2. QED BY <1>1, <1>3, <2>2, <3>1 DEF MarkedIn, Marked
  <2>3. QED BY <2>1, <2>2
<1>5. QED BY <1>1, <1>2, <1>4

\* The marked blocks of a payload are finitely many.
LEMMA MarksFinite ==
    ASSUME NEW n \in Nat, Lead \in Nat, NEW extra, NEW mark \in Tiers, NEW ms, Carries(ms, n, extra, mark)
    PROVE  IsFiniteSet(MarkedBlocks(ms))
<1>1. CASE mark = "none"
  BY <1>1, MarkedAt, FS_EmptySet
<1>2. CASE mark # "none"
  <2> DEFINE S == Spots(n, extra)
             T == {<<i, Len(ms[i].marks)>> : i \in S}
             f == [i \in S |-> <<i, Len(ms[i].marks)>>]
  <2>1. MarkedBlocks(ms) = T
    BY <1>2, MarkedAt
  <2>2. IsFiniteSet(1..(Lead + n)) /\ S \in SUBSET (1..(Lead + n))
    BY FS_Interval DEF Spots
  <2>3. IsFiniteSet(S)
    BY <2>2, FS_Subset
  <2>4. f \in Surjection(S, T)
    <3>1. f \in [S -> T] /\ \A t \in T : \E s \in S : f[s] = t
      OBVIOUS
    <3> HIDE DEF f, T, S
    <3>2. QED BY <3>1 DEF Surjection
  <2> HIDE DEF f, T, S
  <2>5. IsFiniteSet(T)
    BY <2>3, <2>4, FS_Surjection
  <2>6. QED BY <2>1, <2>5
<1>3. QED BY <1>1, <1>2

\* MarkerCount counts three finite sets.
LEMMA CountIs ==
    ASSUME NEW p \in Payload, NEW n \in Nat, Lead \in Nat, NEW extra, NEW mark \in Tiers, Shaped(p, n, extra, mark)
    PROVE  /\ IsFiniteSet(MarkedIn(p.system)) /\ IsFiniteSet(MarkedIn(p.tools))
           /\ IsFiniteSet(MarkedBlocks(p.messages)) /\ MarkerCount(p) \in Nat
           /\ Cardinality(MarkedBlocks(p.messages)) \in Nat
           /\ Cardinality(MarkedIn(p.tools)) = IF mark = "none" \/ Len(p.tools) = 0 THEN 0 ELSE 1
<1>1. /\ MarkedIn(p.system) = IF mark = "none" THEN {} ELSE 1..Len(p.system)
      /\ MarkedIn(p.tools) = IF mark = "none" \/ Len(p.tools) = 0 THEN {} ELSE {Len(p.tools)}
      /\ Len(p.system) \in Nat /\ Len(p.tools) \in Nat
  BY MarkedParts
<1>2. IsFiniteSet(1..Len(p.system))
  <2>1. 1 \in Int /\ Len(p.system) \in Int
    BY <1>1
  <2>2. QED BY <2>1, FS_Interval
<1>3. IsFiniteSet(MarkedIn(p.system))
  BY <1>1, <1>2, FS_EmptySet
<1>4. IsFiniteSet(MarkedIn(p.tools)) /\ Cardinality(MarkedIn(p.tools)) = IF mark = "none" \/ Len(p.tools) = 0 THEN 0 ELSE 1
  BY <1>1, FS_EmptySet, FS_Singleton
<1>5. IsFiniteSet(MarkedBlocks(p.messages))
  BY MarksFinite DEF Shaped
<1>6. /\ Cardinality(MarkedIn(p.system)) \in Nat /\ Cardinality(MarkedIn(p.tools)) \in Nat
      /\ Cardinality(MarkedBlocks(p.messages)) \in Nat
  BY <1>3, <1>4, <1>5, FS_CardinalityType
<1>7. MarkerCount(p) \in Nat
  BY <1>6 DEF MarkerCount
<1>8. QED BY <1>3, <1>4, <1>5, <1>6, <1>7

\* Payloads with the same marks have as many, one more with an anchor.
LEMMA CountGrows ==
    ASSUME Lead \in Nat, NEW n \in Nat,
           NEW p \in Payload, NEW mark \in Tiers, Shaped(p, n, 0, mark),
           NEW q \in Payload, NEW other \in Tiers, NEW extra \in 0..(Lead + n), Shaped(q, n, extra, other),
           mark = "none" <=> other = "none",
           Len(q.system) = Len(p.system), Len(q.tools) > 0 <=> Len(p.tools) > 0,
           \A i \in 1..(Lead + n) : Len(q.messages[i].marks) = Len(p.messages[i].marks)
    PROVE  /\ MarkedIn(q.system) = MarkedIn(p.system)
           /\ MarkedBlocks(p.messages) \subseteq MarkedBlocks(q.messages)
           /\ extra = 0 => MarkerCount(q) = MarkerCount(p)
           /\ MarkerCount(q) <= MarkerCount(p) + 1
           /\ MarkerCount(p) \in Nat /\ MarkerCount(q) \in Nat
<1>1. MarkedIn(q.system) = MarkedIn(p.system) /\ Len(p.tools) \in Nat /\ Len(q.tools) \in Nat
  BY MarkedParts
<1>2. /\ MarkerCount(p) \in Nat /\ Cardinality(MarkedBlocks(p.messages)) \in Nat
      /\ IsFiniteSet(MarkedIn(p.system)) /\ IsFiniteSet(MarkedBlocks(p.messages))
      /\ Cardinality(MarkedIn(p.tools)) = IF mark = "none" \/ Len(p.tools) = 0 THEN 0 ELSE 1
  BY CountIs
<1>3. /\ MarkerCount(q) \in Nat /\ Cardinality(MarkedBlocks(q.messages)) \in Nat
      /\ IsFiniteSet(MarkedBlocks(q.messages))
      /\ Cardinality(MarkedIn(q.tools)) = IF other = "none" \/ Len(q.tools) = 0 THEN 0 ELSE 1
  BY CountIs
<1>4. Cardinality(MarkedIn(q.tools)) = Cardinality(MarkedIn(p.tools)) /\ Cardinality(MarkedIn(p.tools)) \in Nat
  BY <1>1, <1>2, <1>3
<1>5. Cardinality(MarkedIn(p.system)) \in Nat
  BY <1>2, FS_CardinalityType
<1> DEFINE added == <<extra, Len(q.messages[extra].marks)>>
<1>6. /\ MarkedBlocks(p.messages) \subseteq MarkedBlocks(q.messages)
      /\ extra = 0 => MarkedBlocks(q.messages) = MarkedBlocks(p.messages)
      /\ MarkedBlocks(q.messages) \subseteq MarkedBlocks(p.messages) \cup {added}
  <2>1. Carries(p.messages, n, 0, mark) /\ Carries(q.messages, n, extra, other)
    BY DEF Shaped
  <2>2. CASE mark = "none"
    <3>1. MarkedBlocks(p.messages) = {} /\ MarkedBlocks(q.messages) = {}
      BY <2>1, <2>2, MarkedAt
    <3>2. QED BY <3>1
  <2>3. CASE mark # "none"
    <3>1. /\ MarkedBlocks(p.messages) = {<<i, Len(p.messages[i].marks)>> : i \in Spots(n, 0)}
          /\ MarkedBlocks(q.messages) = {<<i, Len(q.messages[i].marks)>> : i \in Spots(n, extra)}
      BY <2>1, <2>3, MarkedAt
    <3>2. /\ \A i \in Spots(n, 0) : i \in Spots(n, extra) /\ Len(q.messages[i].marks) = Len(p.messages[i].marks)
          /\ \A i \in Spots(n, extra) : i \in Spots(n, 0) \/ i = extra
          /\ \A i \in Spots(n, extra) : Len(q.messages[i].marks) = Len(p.messages[i].marks)
      BY DEF Spots
    <3>3. \A i \in Spots(n, extra) : <<i, Len(q.messages[i].marks)>> \in MarkedBlocks(p.messages) \/ i = extra
      BY <3>1, <3>2
    <3>4. MarkedBlocks(q.messages) \subseteq MarkedBlocks(p.messages) \cup {added}
      BY <3>1, <3>3
    <3>5. MarkedBlocks(p.messages) \subseteq MarkedBlocks(q.messages)
      BY <3>1, <3>2
    <3>6. extra = 0 => MarkedBlocks(q.messages) \subseteq MarkedBlocks(p.messages)
      <4>1. \A i \in Spots(n, extra) : i # 0
        BY DEF Spots
      <4>2. QED BY <3>1, <3>3, <4>1
    <3>7. QED BY <3>4, <3>5, <3>6
  <2>4. QED BY <2>2, <2>3
<1>7. Cardinality(MarkedBlocks(q.messages)) <= Cardinality(MarkedBlocks(p.messages)) + 1
  <2> DEFINE B == MarkedBlocks(p.messages)
             C == MarkedBlocks(q.messages)
  <2>1. IsFiniteSet(B \cup {added}) /\ Cardinality(B \cup {added}) = IF added \in B THEN Cardinality(B) ELSE Cardinality(B) + 1
    <3> HIDE DEF B, added
    <3>1. IsFiniteSet(B)
      BY <1>2 DEF B
    <3>2. QED BY <3>1, FS_AddElement
  <2>2. C \in SUBSET (B \cup {added})
    BY <1>6
  <2>3. Cardinality(C) <= Cardinality(B \cup {added})
    <3> HIDE DEF B, C, added
    <3>1. QED BY <2>1, <2>2, FS_Subset
  <2>4. Cardinality(B) \in Nat /\ Cardinality(C) \in Nat
    BY <1>2, <1>3
  <2> HIDE DEF B, C, added
  <2>5. Cardinality(C) <= Cardinality(B) + 1
    BY <2>1, <2>3, <2>4
  <2>6. QED BY <2>5 DEF B, C
<1> HIDE DEF added
<1>8. /\ MarkerCount(p) = Cardinality(MarkedIn(p.system)) + Cardinality(MarkedIn(p.tools))
                             + Cardinality(MarkedBlocks(p.messages))
      /\ MarkerCount(q) = Cardinality(MarkedIn(p.system)) + Cardinality(MarkedIn(p.tools))
                             + Cardinality(MarkedBlocks(q.messages))
  BY <1>1, <1>4 DEF MarkerCount
<1>9. extra = 0 => MarkerCount(q) = MarkerCount(p)
  BY <1>6, <1>8
<1>10. MarkerCount(q) <= MarkerCount(p) + 1
  <2>1. PICK s \in Nat, t \in Nat, b \in Nat, c \in Nat :
          /\ s = Cardinality(MarkedIn(p.system)) /\ t = Cardinality(MarkedIn(p.tools))
          /\ b = Cardinality(MarkedBlocks(p.messages)) /\ c = Cardinality(MarkedBlocks(q.messages))
    BY <1>2, <1>3, <1>4, <1>5
  <2>2. MarkerCount(p) = s + t + b /\ MarkerCount(q) = s + t + c /\ c <= b + 1
    BY <1>7, <1>8, <2>1
  <2>3. QED BY <2>2
<1>11. QED BY <1>1, <1>2, <1>3, <1>6, <1>9, <1>10

-------------------------------------------------------------------------------
(* The anchor is placed                                                     *)

\* The position of the anchor: as many quanta as fit before the margin.
Position(ms) == ((Depth(ms, Len(ms)) - Margin) \div Quantum) * Quantum

\* Message k holds it: the first that reaches that position.
Holds(ms, k) ==
    /\ k \in 1..Len(ms) /\ Depth(ms, k) >= Position(ms)
    /\ \A i \in 1..(k - 1) : Depth(ms, i) < Position(ms)

\* The position is an integer and at most the depth of the last message.
LEMMA PositionIs ==
    ASSUME NEW ms \in Seq(Msg), Len(ms) > 0
    PROVE  Position(ms) \in Int /\ Position(ms) <= Depth(ms, Len(ms)) /\ Depth(ms, Len(ms)) \in Nat
<1>1. Quantum \in Nat \ {0} /\ Margin \in Nat
  BY PipelineAssumption
<1>2. Len(ms) \in Nat /\ Depth(ms, Len(ms)) \in Nat
  <2>1. Len(ms) \in 0..Len(ms)
    BY LenProperties
  <2>2. QED BY <2>1, DepthGrows
<1>3. PICK c \in Int : c = Depth(ms, Len(ms)) - Margin
  BY <1>1, <1>2
<1>4. (c \div Quantum) * Quantum <= c /\ c \div Quantum \in Int
  BY <1>1
<1>5. (c \div Quantum) * Quantum \in Int
  BY <1>1, <1>4
<1>6. c <= Depth(ms, Len(ms))
  BY <1>1, <1>2, <1>3
<1>7. Position(ms) = (c \div Quantum) * Quantum
  BY <1>3 DEF Position
<1> HIDE DEF Position
<1>8. PICK a \in Int : a = (c \div Quantum) * Quantum
  BY <1>5
<1>9. QED BY <1>2, <1>4, <1>6, <1>7, <1>8

\* The message HolderAt finds holds the position.
LEMMA HolderIs ==
    ASSUME NEW ms \in Seq(Msg), Len(ms) > 0
    PROVE  Holds(ms, HolderAt(ms, Position(ms)))
<1> DEFINE S == {i \in DOMAIN ms : Depth(ms, i) >= Position(ms)}
<1>1. Len(ms) \in Nat /\ DOMAIN ms = 1..Len(ms) /\ Len(ms) \in 1..Len(ms)
  BY LenProperties
<1>2. Position(ms) \in Int /\ Position(ms) <= Depth(ms, Len(ms))
  BY PositionIs
<1>3. \A i \in 1..Len(ms) : Depth(ms, i) \in Nat
  BY <1>1, DepthGrows
<1>4. Len(ms) \in S
  BY <1>1, <1>2, <1>3
<1>5. S \in SUBSET Nat /\ S # {}
  BY <1>1, <1>4
<1>6. Min(S) \in S /\ \A x \in S : Min(S) <= x
  <2> HIDE DEF S
  <2>1. QED BY <1>5, LeastIndex
<1>7. PICK k \in S : k = Min(S) /\ \A x \in S : k <= x
  BY <1>6
<1>8. HolderAt(ms, Position(ms)) = k
  BY <1>7 DEF HolderAt
<1>9. k \in 1..Len(ms) /\ Depth(ms, k) >= Position(ms)
  BY <1>1
<1>10. ASSUME NEW i \in 1..(k - 1) PROVE Depth(ms, i) < Position(ms)
  <2>1. i \in 1..Len(ms) /\ ~(k <= i)
    BY <1>1, <1>9
  <2>2. i \notin S
    BY <1>7, <2>1
  <2>3. ~(Depth(ms, i) >= Position(ms))
    BY <1>1, <2>1, <2>2
  <2>4. QED BY <1>2, <1>3, <2>1, <2>3
<1>11. QED BY <1>8, <1>9, <1>10 DEF Holds

\* Two payloads that differ in the messages only, and there in marks.
SameButMessages(p, q) ==
    /\ q.system = p.system /\ q.hasTools = p.hasTools /\ q.tools = p.tools
    /\ q.key = p.key /\ q.retention = p.retention
SameBlocks(ms, ns) ==
    /\ Len(ns) = Len(ms)
    /\ \A i \in 1..Len(ms) : Blocks(ns[i]) = Blocks(ms[i]) /\ Len(ns[i].marks) = Len(ms[i].marks)

\* The anchor put its mark on message extra, or nowhere when that is 0.
Anchored(p, q, n, extra) ==
    /\ q \in Payload /\ SameButMessages(p, q) /\ SameBlocks(p.messages, q.messages)
    /\ Carries(q.messages, n, extra, PisMark)
    /\ \A i \in 1..Len(p.messages) : i # extra => q.messages[i] = p.messages[i]
    /\ extra \in 0..Len(p.messages)
    /\ extra # 0 => /\ ~PisPlace(n, extra) /\ PisMark # "none"
                    /\ MarkerCount(p) < MaxMarkers /\ Holds(p.messages, extra)

\* A stage that leaves the payload alone puts no anchor.
LEMMA NotAnchored ==
    ASSUME NEW p \in Payload, NEW n \in Nat, Carries(p.messages, n, 0, PisMark)
    PROVE  Anchored(p, p, n, 0)
<1>1. Len(p.messages) \in Nat
  BY LenProperties DEF Payload
<1>2. 0 \in 0..Len(p.messages)
  BY <1>1
<1>3. QED BY <1>2 DEF Anchored, SameButMessages, SameBlocks

\* Place adds one mark, on the holder, unless the holder has one already or is string
\* content.
LEMMA PlaceIs ==
    ASSUME profile \in Profiles, NEW p \in Payload, NEW n \in Nat \ {0},
           Carries(p.messages, n, 0, PisMark), PisMark # "none",
           MarkerCount(p) < MaxMarkers, NEW k, Holds(p.messages, k)
    PROVE  \E extra : Anchored(p, Place(p, k), n, extra)
<1> DEFINE ms == p.messages
           m == ms[k]
           q == Place(p, k)
<1>1. ms \in Seq(Msg) /\ Len(ms) = Lead + n /\ k \in 1..(Lead + n) /\ Len(ms) \in Nat
  BY LenProperties DEF Carries, Holds
<1>2. m \in Msg /\ HasBlocks(m)
  BY <1>1, ElementOfSeq DEF Carries
<1>3. m.marks \in Seq(Tiers) /\ Len(m.marks) \in Nat /\ m.marks \in [1..Len(m.marks) -> Tiers]
  BY <1>2, LenProperties DEF Msg
<1>4. CASE m.string \/ Marked(Last(m.marks))
  <2>1. q = p
    BY <1>4 DEF Place
  <2>2. QED BY <2>1, NotAnchored
<1>5. CASE ~m.string /\ ~Marked(Last(m.marks))
  <2> DEFINE K == Len(m.marks)
             marks == [m.marks EXCEPT ![K] = PisMark]
             new == [m EXCEPT !.marks = marks]
             ns == [ms EXCEPT ![k] = new]
  <2>1. TrailingMark(ms) = PisMark /\ PisMark \in Tiers
    BY ProfileFacts, TrailingIs
  <2>2. q = [p EXCEPT !.messages[k].marks[K] = PisMark]
    BY <1>5, <2>1 DEF Place
  <2>3. q = [p EXCEPT !.messages = ns]
    BY <2>2
  <2>4. K > 0 /\ K \in 1..K
    BY <1>2, <1>3, <1>5 DEF HasBlocks
  <2>5. m.marks[K] = "none"
    BY <1>5 DEF Last, Marked
  <2>6. ~PisPlace(n, k)
    <3>1. SUFFICES ASSUME PisPlace(n, k) PROVE FALSE
      OBVIOUS
    <3>2. LastMarked(m, PisMark)
      BY <1>1, <3>1 DEF Carries
    <3>3. QED BY <2>4, <2>5, <3>2 DEF LastMarked
  <2>7. Unmarked(m) /\ ~m.system
    <3>1. k # 0
      BY <1>1
    <3>2. Unmarked(m) /\ (m.system <=> k <= Lead)
      BY <1>1, <2>6, <3>1 DEF Carries
    <3>3. QED BY <2>6, <3>2 DEF PisPlace
  <2>8. /\ marks \in [1..K -> Tiers]
        /\ \A j \in 1..K : marks[j] = IF j = K THEN PisMark ELSE m.marks[j]
    BY <1>3, <2>1
  <2>9. marks \in Seq(Tiers) /\ Len(marks) = K
    <3> HIDE DEF marks
    <3>1. QED BY <1>3, <2>8, FunctionIsSeq
  <2>10. new \in Msg /\ new.string = m.string /\ new.system = m.system /\ new.marks = marks
    <3> HIDE DEF marks, m
    <3>1. QED BY <1>2, <2>9 DEF Msg
  <2>11. /\ HasBlocks(new) /\ Blocks(new) = Blocks(m) /\ Len(new.marks) = K
         /\ LastMarked(new, PisMark) /\ ~new.system
    <3> HIDE DEF new, marks
    <3>1. HasBlocks(new) /\ Blocks(new) = Blocks(m) /\ Len(new.marks) = K
      BY <1>5, <2>4, <2>9, <2>10 DEF HasBlocks, Blocks
    <3>2. LastMarked(new, PisMark)
      BY <1>5, <2>7, <2>8, <2>9, <2>10 DEF LastMarked, Unmarked
    <3>3. QED BY <2>7, <2>10, <3>1, <3>2
  <2>12. ms \in [1..Len(ms) -> Msg] /\ DOMAIN ms = 1..Len(ms)
    BY <1>1, LenProperties
  <2> HIDE DEF new, ms
  <2>13. /\ ns \in [1..Len(ms) -> Msg] /\ ns[k] = new
         /\ \A i \in 1..Len(ms) : i # k => ns[i] = ms[i]
    BY <1>1, <2>10, <2>12
  <2> HIDE DEF ns
  <2>14. ns \in Seq(Msg) /\ Len(ns) = Len(ms)
    BY <1>1, <2>13, FunctionIsSeq
  <2> HIDE DEF q
  <2>15. q \in Payload /\ q.messages = ns /\ SameButMessages(p, q)
    BY <2>3, <2>14 DEF Payload, SameButMessages
  <2>16. SameBlocks(ms, ns)
    <3>1. \A i \in 1..Len(ms) : Blocks(ns[i]) = Blocks(ms[i]) /\ Len(ns[i].marks) = Len(ms[i].marks)
      BY <2>11, <2>13
    <3>2. QED BY <2>14, <3>1 DEF SameBlocks
  <2>17. Carries(ns, n, k, PisMark)
    <3>1. ASSUME NEW i \in 1..(Lead + n)
          PROVE  /\ HasBlocks(ns[i]) /\ (ns[i].system <=> i <= Lead)
                 /\ IF PisPlace(n, i) \/ i = k THEN LastMarked(ns[i], PisMark) ELSE Unmarked(ns[i])
      <4>1. CASE i = k
        BY <2>6, <2>11, <2>13, <4>1 DEF PisPlace
      <4>2. CASE i # k
        <5>1. ns[i] = ms[i] /\ i # 0
          BY <1>1, <2>13, <4>2
        <5>2. /\ HasBlocks(ms[i]) /\ (ms[i].system <=> i <= Lead)
              /\ IF PisPlace(n, i) \/ i = 0 THEN LastMarked(ms[i], PisMark) ELSE Unmarked(ms[i])
          BY DEF Carries, ms
        <5>3. QED BY <4>2, <5>1, <5>2
      <4>3. QED BY <4>1, <4>2
    <3>2. QED BY <1>1, <2>14, <3>1 DEF Carries
  <2>18. Anchored(p, q, n, k)
    <3>1. k \in 0..Len(ms)
      BY <1>1
    <3>2. QED BY <2>6, <2>13, <2>15, <2>16, <2>17, <3>1 DEF Anchored, ms
  <2>19. QED BY <2>18 DEF q
<1>6. QED BY <1>4, <1>5

\* The anchor stage adds at most one mark, within the budget and on the message the
\* position is in.
LEMMA AnchorIs ==
    ASSUME profile \in Profiles, NEW p \in Payload, NEW n \in Nat \ {0},
           Carries(p.messages, n, 0, PisMark), Native(p)
    PROVE  \E extra : Anchored(p, Anchor(p), n, extra)
<1> DEFINE ms == p.messages
<1>1. ms \in Seq(Msg) /\ Len(ms) = Lead + n /\ Lead \in {0, 1} /\ PisMark \in Tiers /\ Len(ms) > 0
  BY ProfileFacts DEF Carries
<1>2. CASE \/ ~switch.anchor \/ MarkedBlocks(ms) = {}
           \/ MarkerCount(p) >= MaxMarkers \/ AnchorPosition(p) = 0
  <2>1. Anchor(p) = p
    BY <1>2 DEF Anchor
  <2>2. QED BY <2>1, NotAnchored
<1>3. CASE ~(\/ ~switch.anchor \/ MarkedBlocks(ms) = {}
             \/ MarkerCount(p) >= MaxMarkers \/ AnchorPosition(p) = 0)
  <2>1. Anchor(p) = Place(p, HolderAt(ms, AnchorPosition(p)))
    BY <1>3 DEF Anchor
  <2>2. PisMark # "none"
    BY <1>1, <1>3, MarkedAt
  <2>3. Max({b[1] : b \in MarkedBlocks(ms)}) = Len(ms)
    BY <1>1, <2>2, TrailingIs
  <2>4. AnchorPosition(p) = Position(ms)
    BY <1>3, <2>3 DEF AnchorPosition, Position
  <2>5. Holds(ms, HolderAt(ms, AnchorPosition(p)))
    BY <1>1, <2>4, HolderIs
  <2>6. MarkerCount(p) < MaxMarkers
    <3>1. MarkerCount(p) \in Nat
      <4>1. Shaped(p, n, 0, PisMark)
        BY DEF Shaped, Native
      <4>2. QED BY <1>1, <4>1, CountIs
    <3>2. MaxMarkers \in Nat
      BY PipelineAssumption
    <3>3. QED BY <1>3, <3>1, <3>2
  <2>7. QED BY <2>1, <2>2, <2>5, <2>6, PlaceIs
<1>4. QED BY <1>2, <1>3

-------------------------------------------------------------------------------
(* The retention rewrite                                                    *)

\* The mark a payload leaves with.
WireMark == IF switch.retention THEN Upgrade(PisMark) ELSE PisMark

\* An upgrade neither adds nor removes a mark.
LEMMA UpgradeIs ==
    ASSUME NEW mark \in Tiers
    PROVE  /\ Upgrade(mark) \in Tiers /\ (Upgrade(mark) = "none" <=> mark = "none")
           /\ Upgrade("none") = "none"
BY DEF Upgrade, Marked, Tiers

\* The mark a payload leaves with is long if and only if pi or the switch made it so.
LEMMA WireMarkIs ==
    ASSUME profile \in Profiles, switch \in Switches
    PROVE  /\ WireMark \in Tiers /\ (WireMark = "none" <=> PisMark = "none")
           /\ switch.retention \in BOOLEAN /\ switch.canonicalize \in BOOLEAN
           /\ switch.sharedKey \in BOOLEAN
           /\ WireMark = "1h" <=> profile.markers /\ (switch.retention \/ profile.long)
<1>1. switch \in [dedup : BOOLEAN, anchor : BOOLEAN, retention : BOOLEAN,
                  canonicalize : BOOLEAN, sharedKey : BOOLEAN]
  BY PipelineAssumption
<1>2. PisMark \in Tiers /\ (PisMark # "none" <=> profile.markers)
      /\ (PisMark = "1h" <=> profile.markers /\ profile.long)
  BY ProfileFacts
<1>3. CASE switch.retention
  <2>1. WireMark = Upgrade(PisMark)
    BY <1>3 DEF WireMark
  <2>2. WireMark \in Tiers /\ (WireMark = "none" <=> PisMark = "none")
    BY <1>2, <2>1, UpgradeIs
  <2>3. WireMark = "1h" <=> profile.markers
    BY <1>2, <2>1 DEF Upgrade, Marked
  <2>4. QED BY <1>1, <1>3, <2>2, <2>3
<1>4. CASE ~switch.retention
  BY <1>1, <1>2, <1>4 DEF WireMark
<1>5. QED BY <1>3, <1>4

\* The rewrite of tools keeps their number and upgrades every mark.
LEMMA UpgradedTools ==
    ASSUME NEW tools \in Seq(Tool)
    PROVE  /\ UpgradePart(tools) \in Seq(Tool) /\ Len(UpgradePart(tools)) = Len(tools)
           /\ \A i \in 1..Len(tools) : UpgradePart(tools)[i].mark = Upgrade(tools[i].mark)
<1>1. Len(tools) \in Nat /\ DOMAIN tools = 1..Len(tools) /\ \A i \in 1..Len(tools) : tools[i] \in Tool
  BY LenProperties, ElementOfSeq
<1>2. ASSUME NEW i \in 1..Len(tools)
      PROVE  /\ [tools[i] EXCEPT !.mark = Upgrade(tools[i].mark)] \in Tool
             /\ [tools[i] EXCEPT !.mark = Upgrade(tools[i].mark)].mark = Upgrade(tools[i].mark)
  <2>1. PICK t \in Tool : t = tools[i]
    BY <1>1
  <2>2. Upgrade(t.mark) \in Tiers
    BY UpgradeIs DEF Tool
  <2>3. QED BY <2>1, <2>2 DEF Tool
<1>3. /\ UpgradePart(tools) \in [1..Len(tools) -> Tool]
      /\ \A i \in 1..Len(tools) : UpgradePart(tools)[i] = [tools[i] EXCEPT !.mark = Upgrade(tools[i].mark)]
  BY <1>1, <1>2 DEF UpgradePart
<1>4. UpgradePart(tools) \in Seq(Tool) /\ Len(UpgradePart(tools)) = Len(tools)
  BY <1>1, <1>3, FunctionIsSeq
<1>5. QED BY <1>2, <1>3, <1>4

\* The rewrite of a system prompt keeps its texts and upgrades every mark.
LEMMA UpgradedSystem ==
    ASSUME NEW part \in Seq(Block)
    PROVE  /\ UpgradePart(part) \in Seq(Block) /\ Len(UpgradePart(part)) = Len(part)
           /\ \A i \in 1..Len(part) : /\ UpgradePart(part)[i].mark = Upgrade(part[i].mark)
                                      /\ UpgradePart(part)[i].text = part[i].text
<1>1. Len(part) \in Nat /\ DOMAIN part = 1..Len(part) /\ \A i \in 1..Len(part) : part[i] \in Block
  BY LenProperties, ElementOfSeq
<1>2. ASSUME NEW i \in 1..Len(part)
      PROVE  /\ [part[i] EXCEPT !.mark = Upgrade(part[i].mark)] \in Block
             /\ [part[i] EXCEPT !.mark = Upgrade(part[i].mark)].mark = Upgrade(part[i].mark)
             /\ [part[i] EXCEPT !.mark = Upgrade(part[i].mark)].text = part[i].text
  <2>1. PICK t \in Block : t = part[i]
    BY <1>1
  <2>2. Upgrade(t.mark) \in Tiers
    BY UpgradeIs DEF Block
  <2>3. QED BY <2>1, <2>2 DEF Block
<1>3. /\ UpgradePart(part) \in [1..Len(part) -> Block]
      /\ \A i \in 1..Len(part) : UpgradePart(part)[i] = [part[i] EXCEPT !.mark = Upgrade(part[i].mark)]
  BY <1>1, <1>2 DEF UpgradePart
<1>4. UpgradePart(part) \in Seq(Block) /\ Len(UpgradePart(part)) = Len(part)
  BY <1>1, <1>3, FunctionIsSeq
<1>5. QED BY <1>2, <1>3, <1>4

\* What the rewrite of a message leaves alone.
LEMMA UpgradedMessage ==
    ASSUME NEW m \in Msg
    PROVE  /\ UpgradeMessage(m) \in Msg /\ UpgradeMessage(m).system = m.system
           /\ UpgradeMessage(m).string = m.string /\ UpgradeMessage(m).text = m.text
           /\ Len(UpgradeMessage(m).marks) = Len(m.marks)
           /\ \A j \in 1..Len(m.marks) : UpgradeMessage(m).marks[j] = Upgrade(m.marks[j])
<1> DEFINE marks == [j \in DOMAIN m.marks |-> Upgrade(m.marks[j])]
<1>1. m.marks \in Seq(Tiers)
  BY DEF Msg
<1>2. Len(m.marks) \in Nat /\ DOMAIN m.marks = 1..Len(m.marks) /\ \A j \in 1..Len(m.marks) : m.marks[j] \in Tiers
  BY <1>1, LenProperties, ElementOfSeq
<1>3. /\ marks \in [1..Len(m.marks) -> Tiers]
      /\ \A j \in 1..Len(m.marks) : marks[j] = Upgrade(m.marks[j])
  BY <1>2, UpgradeIs
<1>4. UpgradeMessage(m) = [m EXCEPT !.marks = marks]
  BY DEF UpgradeMessage
<1> HIDE DEF marks
<1>5. marks \in Seq(Tiers) /\ Len(marks) = Len(m.marks)
  BY <1>2, <1>3, FunctionIsSeq
<1>6. /\ UpgradeMessage(m) \in Msg /\ UpgradeMessage(m).marks = marks
      /\ UpgradeMessage(m).system = m.system
      /\ UpgradeMessage(m).string = m.string /\ UpgradeMessage(m).text = m.text
  BY <1>4, <1>5 DEF Msg
<1>7. QED BY <1>3, <1>5, <1>6

\* The rewrite of a message keeps its blocks and marks where they are.
LEMMA UpgradedCarries ==
    ASSUME NEW m \in Msg, HasBlocks(m), NEW mark \in Tiers
    PROVE  /\ HasBlocks(UpgradeMessage(m)) /\ Blocks(UpgradeMessage(m)) = Blocks(m)
           /\ Unmarked(m) => Unmarked(UpgradeMessage(m))
           /\ LastMarked(m, mark) => LastMarked(UpgradeMessage(m), Upgrade(mark))
<1> DEFINE u == UpgradeMessage(m)
<1>1. /\ u.string = m.string /\ Len(u.marks) = Len(m.marks)
      /\ \A j \in 1..Len(m.marks) : u.marks[j] = Upgrade(m.marks[j])
      /\ u.marks \in Seq(Tiers) /\ m.marks \in Seq(Tiers)
  <2>1. u \in Msg
    BY UpgradedMessage
  <2>2. QED BY <2>1, UpgradedMessage DEF Msg
<1>2. Upgrade("none") = "none" /\ (Upgrade(mark) = "none" <=> mark = "none")
  BY UpgradeIs
<1> HIDE DEF u
<1>3. HasBlocks(u)
  <2>1. CASE m.string
    <3>1. Len(u.marks) = 0
      BY <1>1, <2>1 DEF HasBlocks
    <3>2. QED BY <1>1, <2>1, <3>1, EmptySeq DEF HasBlocks
  <2>2. CASE ~m.string
    BY <1>1, <2>2 DEF HasBlocks
  <2>3. QED BY <2>1, <2>2
<1>4. Blocks(u) = Blocks(m)
  BY <1>1 DEF Blocks
<1>5. Unmarked(m) => Unmarked(u)
  BY <1>1, <1>2 DEF Unmarked
<1>6. LastMarked(m, mark) => LastMarked(u, Upgrade(mark))
  BY <1>1, <1>2 DEF LastMarked
<1>7. QED BY <1>3, <1>4, <1>5, <1>6 DEF u

\* What the rewrite does to a payload.
Retained(p, r) ==
    /\ r \in Payload /\ SameBlocks(p.messages, r.messages)
    /\ Len(r.system) = Len(p.system) /\ Len(r.tools) = Len(p.tools)
    /\ \A i \in 1..Len(p.system) : r.system[i].text = p.system[i].text
    /\ \A i \in 1..Len(p.messages) :
          r.messages[i] = IF switch.retention THEN UpgradeMessage(p.messages[i]) ELSE p.messages[i]
    /\ r.tools = IF switch.retention THEN UpgradePart(p.tools) ELSE p.tools
    /\ r.hasTools = p.hasTools /\ r.key = p.key
    /\ r.retention = IF switch.retention /\ p.key # None THEN "24h" ELSE p.retention

\* The retention stage does that, and all marks are the upgraded one.
LEMMA RetainIs ==
    ASSUME profile \in Profiles, switch \in Switches, NEW p \in Payload, NEW n \in Nat, NEW extra,
           Shaped(p, n, extra, PisMark)
    PROVE  Retained(p, Retain(p)) /\ Shaped(Retain(p), n, extra, WireMark)
<1> DEFINE r == Retain(p)
           ms == p.messages
           ns == [i \in DOMAIN ms |-> UpgradeMessage(ms[i])]
<1>1. /\ ms \in Seq(Msg) /\ Len(ms) = Lead + n /\ p.system \in Seq(Block) /\ p.tools \in Seq(Tool)
      /\ PisMark \in Tiers
  BY ProfileFacts DEF Payload, Shaped, Carries
<1>2. CASE ~switch.retention
  <2>1. r = p /\ WireMark = PisMark
    BY <1>2 DEF Retain, WireMark
  <2>2. QED BY <1>2, <2>1 DEF Retained, SameBlocks
<1>3. CASE switch.retention
  <2>1. r = [p EXCEPT !.system = UpgradePart(p.system), !.tools = UpgradePart(p.tools),
                      !.messages = ns, !.retention = IF p.key # None THEN "24h" ELSE p.retention]
    BY <1>3 DEF Retain
  <2>2. WireMark = Upgrade(PisMark)
    BY <1>3 DEF WireMark
  <2>3. Len(ms) \in Nat /\ DOMAIN ms = 1..Len(ms) /\ \A i \in 1..Len(ms) : ms[i] \in Msg
    BY <1>1, LenProperties, ElementOfSeq
  <2>4. ns \in [1..Len(ms) -> Msg] /\ \A i \in 1..Len(ms) : ns[i] = UpgradeMessage(ms[i])
    BY <2>3, UpgradedMessage
  <2> HIDE DEF ns
  <2>5. ns \in Seq(Msg) /\ Len(ns) = Len(ms)
    BY <2>3, <2>4, FunctionIsSeq
  <2>6. UpgradePart(p.system) \in Seq(Block) /\ UpgradePart(p.tools) \in Seq(Tool)
    BY <1>1, UpgradedSystem, UpgradedTools
  <2>7. /\ r \in Payload /\ r.messages = ns /\ r.system = UpgradePart(p.system)
        /\ r.tools = UpgradePart(p.tools) /\ r.hasTools = p.hasTools /\ r.key = p.key
        /\ r.retention = IF p.key # None THEN "24h" ELSE p.retention
    <3> HIDE DEF r
    <3>1. QED BY <2>1, <2>5, <2>6 DEF Payload
  <2> HIDE DEF r
  <2>8. Len(r.system) = Len(p.system) /\ Len(r.tools) = Len(p.tools)
    BY <1>1, <2>7, UpgradedSystem, UpgradedTools
  <2>9. \A i \in 1..Len(p.system) : r.system[i].text = p.system[i].text /\ r.system[i].mark = Upgrade(p.system[i].mark)
    BY <1>1, <2>7, UpgradedSystem
  <2>10. ASSUME NEW i \in 1..Len(ms)
         PROVE  /\ HasBlocks(ns[i]) /\ Blocks(ns[i]) = Blocks(ms[i]) /\ Len(ns[i].marks) = Len(ms[i].marks)
                /\ (ns[i].system <=> i <= Lead)
                /\ IF PisPlace(n, i) \/ i = extra THEN LastMarked(ns[i], WireMark) ELSE Unmarked(ns[i])
    <3>1. PICK m \in Msg : m = ms[i] /\ ns[i] = UpgradeMessage(m)
      BY <2>3, <2>4
    <3>2. /\ HasBlocks(m) /\ (m.system <=> i <= Lead)
          /\ IF PisPlace(n, i) \/ i = extra THEN LastMarked(m, PisMark) ELSE Unmarked(m)
      BY <1>1, <3>1 DEF Shaped, Carries
    <3>3. HasBlocks(ns[i]) /\ Blocks(ns[i]) = Blocks(m)
      BY <1>1, <3>1, <3>2, UpgradedCarries
    <3>4. Len(ns[i].marks) = Len(m.marks) /\ ns[i].system = m.system
      BY <3>1, UpgradedMessage
    <3>5. IF PisPlace(n, i) \/ i = extra THEN LastMarked(ns[i], WireMark) ELSE Unmarked(ns[i])
      BY <1>1, <2>2, <3>1, <3>2, UpgradedCarries
    <3>6. QED BY <3>1, <3>2, <3>3, <3>4, <3>5
  <2>11. SameBlocks(ms, ns)
    BY <2>5, <2>10 DEF SameBlocks
  <2>12. Carries(ns, n, extra, WireMark)
    BY <1>1, <2>5, <2>10 DEF Carries
  <2>13. ToolsCarry(r.tools, WireMark)
    <3>1. \A i \in 1..Len(p.tools) : r.tools[i].mark = Upgrade(p.tools[i].mark)
      BY <1>1, <2>7, UpgradedTools
    <3>2. \A i \in 1..Len(p.tools) : p.tools[i].mark = IF i = Len(p.tools) THEN PisMark ELSE "none"
      BY DEF Shaped, ToolsCarry
    <3>3. Upgrade("none") = "none"
      BY <1>1, UpgradeIs
    <3>4. QED BY <2>2, <2>8, <3>1, <3>2, <3>3 DEF ToolsCarry
  <2>14. \A i \in 1..Len(r.system) : r.system[i].mark = WireMark
    BY <2>2, <2>8, <2>9 DEF Shaped
  <2>15. Shaped(r, n, extra, WireMark)
    BY <2>7, <2>12, <2>13, <2>14 DEF Shaped
  <2>16. Retained(p, r)
    BY <1>3, <2>4, <2>7, <2>8, <2>9, <2>11 DEF Retained
  <2>17. QED BY <2>15, <2>16 DEF r
<1>4. QED BY <1>2, <1>3

-------------------------------------------------------------------------------
(* The canonicalizer and the shared key                                     *)

WireText(text) == IF switch.canonicalize THEN CanonicalText(text) ELSE text

\* What leaves of a listing has its entries, in order when canonicalized.
LEMMA WireTextIs ==
    ASSUME NEW text \in Seq(Entries)
    PROVE  /\ WireText(text) \in Seq(Entries) /\ ToSet(WireText(text)) = ToSet(text)
           /\ Len(WireText(text)) = Len(text)
           /\ switch.canonicalize => Sorted(WireText(text))
<1>1. CASE switch.canonicalize
  BY <1>1, CanonicalTextSorts DEF WireText
<1>2. CASE ~switch.canonicalize
  BY <1>2 DEF WireText
<1>3. QED BY <1>1, <1>2

\* The canonicalizer keeps the number of blocks and their marks, and sorts each text.
LEMMA CanonicalSystem ==
    ASSUME NEW part \in Seq(Block)
    PROVE  /\ CanonicalPart(part) \in Seq(Block) /\ Len(CanonicalPart(part)) = Len(part)
           /\ \A i \in 1..Len(part) : /\ CanonicalPart(part)[i].mark = part[i].mark
                                      /\ CanonicalPart(part)[i].text = CanonicalText(part[i].text)
<1>1. Len(part) \in Nat /\ DOMAIN part = 1..Len(part) /\ \A i \in 1..Len(part) : part[i] \in Block
  BY LenProperties, ElementOfSeq
<1>2. ASSUME NEW i \in 1..Len(part)
      PROVE  /\ [part[i] EXCEPT !.text = CanonicalText(part[i].text)] \in Block
             /\ [part[i] EXCEPT !.text = CanonicalText(part[i].text)].mark = part[i].mark
             /\ [part[i] EXCEPT !.text = CanonicalText(part[i].text)].text = CanonicalText(part[i].text)
  <2>1. PICK t \in Block : t = part[i]
    BY <1>1
  <2>2. CanonicalText(t.text) \in Seq(Entries)
    <3>1. t.text \in Seq(Entries)
      BY DEF Block
    <3>2. QED BY <3>1, CanonicalTextSorts
  <2>3. QED BY <2>1, <2>2 DEF Block
<1>3. /\ CanonicalPart(part) \in [1..Len(part) -> Block]
      /\ \A i \in 1..Len(part) : CanonicalPart(part)[i] = [part[i] EXCEPT !.text = CanonicalText(part[i].text)]
  BY <1>1, <1>2 DEF CanonicalPart
<1>4. CanonicalPart(part) \in Seq(Block) /\ Len(CanonicalPart(part)) = Len(part)
  BY <1>1, <1>3, FunctionIsSeq
<1>5. QED BY <1>2, <1>3, <1>4

\* A message as it leaves the canonicalizer.
CanonicalMessage(m) == IF switch.canonicalize THEN [m EXCEPT !.text = CanonicalText(m.text)] ELSE m

\* The canonicalizer changes the text of a message only.
LEMMA CanonicalMessageIs ==
    ASSUME NEW m \in Msg
    PROVE  /\ CanonicalMessage(m) \in Msg /\ CanonicalMessage(m).system = m.system
           /\ CanonicalMessage(m).string = m.string /\ CanonicalMessage(m).marks = m.marks
           /\ CanonicalMessage(m).text = WireText(m.text)
<1>1. CASE switch.canonicalize
  <2>1. CanonicalText(m.text) \in Seq(Entries)
    <3>1. m.text \in Seq(Entries)
      BY DEF Msg
    <3>2. QED BY <3>1, CanonicalTextSorts
  <2>2. QED BY <1>1, <2>1 DEF CanonicalMessage, WireText, Msg
<1>2. CASE ~switch.canonicalize
  BY <1>2 DEF CanonicalMessage, WireText
<1>3. QED BY <1>1, <1>2

\* It takes messages one by one.
LEMMA CanonicalMessages ==
    ASSUME NEW ms \in Seq(Msg), switch.canonicalize
    PROVE  /\ CanonicalPart(ms) \in Seq(Msg) /\ Len(CanonicalPart(ms)) = Len(ms)
           /\ \A i \in 1..Len(ms) : CanonicalPart(ms)[i] = CanonicalMessage(ms[i])
<1>1. Len(ms) \in Nat /\ DOMAIN ms = 1..Len(ms) /\ \A i \in 1..Len(ms) : ms[i] \in Msg
  BY LenProperties, ElementOfSeq
<1>2. CanonicalPart(ms) = [i \in 1..Len(ms) |-> CanonicalMessage(ms[i])]
  BY <1>1 DEF CanonicalPart, CanonicalMessage
<1>3. \A i \in 1..Len(ms) : CanonicalMessage(ms[i]) \in Msg
  BY <1>1, CanonicalMessageIs
<1>4. CanonicalPart(ms) \in [1..Len(ms) -> Msg] /\ \A i \in 1..Len(ms) : CanonicalPart(ms)[i] = CanonicalMessage(ms[i])
  BY <1>2, <1>3
<1>5. CanonicalPart(ms) \in Seq(Msg) /\ Len(CanonicalPart(ms)) = Len(ms)
  BY <1>1, <1>4, FunctionIsSeq
<1>6. QED BY <1>4, <1>5

\* What the canonicalizer does to a payload.
Listed(p, c) ==
    /\ c \in Payload /\ SameBlocks(p.messages, c.messages)
    /\ Len(c.system) = Len(p.system)
    /\ \A i \in 1..Len(p.system) : c.system[i].text = WireText(p.system[i].text)
    /\ \A i \in 1..Len(p.messages) : c.messages[i] = CanonicalMessage(p.messages[i])
    /\ c.tools = p.tools /\ c.hasTools = p.hasTools /\ c.key = p.key /\ c.retention = p.retention

\* The canonicalizer stage does that, and leaves all marks alone.
LEMMA CanonicalizeIs ==
    ASSUME NEW p \in Payload, NEW n \in Nat, NEW extra, NEW mark \in Tiers, Shaped(p, n, extra, mark)
    PROVE  Listed(p, Canonicalize(p)) /\ Shaped(Canonicalize(p), n, extra, mark)
<1> DEFINE c == Canonicalize(p)
           ms == p.messages
<1>1. ms \in Seq(Msg) /\ Len(ms) = Lead + n /\ p.system \in Seq(Block)
  BY DEF Payload, Shaped, Carries
<1>2. CASE ~switch.canonicalize
  <2>1. c = p
    BY <1>2 DEF Canonicalize
  <2>2. QED BY <1>2, <2>1 DEF Listed, SameBlocks, WireText, CanonicalMessage
<1>3. CASE switch.canonicalize
  <2>1. c = [p EXCEPT !.system = CanonicalPart(p.system), !.messages = CanonicalPart(ms)]
    BY <1>3 DEF Canonicalize
  <2>2. PICK ns : ns = CanonicalPart(ms)
    OBVIOUS
  <2>3. ns \in Seq(Msg) /\ Len(ns) = Len(ms) /\ \A i \in 1..Len(ms) : ns[i] = CanonicalMessage(ms[i])
    BY <1>1, <1>3, <2>2, CanonicalMessages
  <2>4. CanonicalPart(p.system) \in Seq(Block)
    BY <1>1, CanonicalSystem
  <2>5. /\ c \in Payload /\ c.messages = ns /\ c.system = CanonicalPart(p.system)
        /\ c.tools = p.tools /\ c.hasTools = p.hasTools /\ c.key = p.key /\ c.retention = p.retention
    <3> HIDE DEF c
    <3>1. QED BY <2>1, <2>2, <2>3, <2>4 DEF Payload
  <2> HIDE DEF c
  <2>6. /\ Len(c.system) = Len(p.system)
        /\ \A i \in 1..Len(p.system) : c.system[i].text = CanonicalText(p.system[i].text) /\ c.system[i].mark = p.system[i].mark
    BY <1>1, <2>5, CanonicalSystem
  <2>7. \A i \in 1..Len(p.system) : c.system[i].text = WireText(p.system[i].text)
    BY <1>3, <2>6 DEF WireText
  <2>8. ASSUME NEW i \in 1..Len(ms)
        PROVE  /\ HasBlocks(ns[i]) /\ Blocks(ns[i]) = Blocks(ms[i]) /\ Len(ns[i].marks) = Len(ms[i].marks)
               /\ (ns[i].system <=> i <= Lead)
               /\ IF PisPlace(n, i) \/ i = extra THEN LastMarked(ns[i], mark) ELSE Unmarked(ns[i])
    <3>1. PICK m \in Msg : m = ms[i] /\ ns[i] = CanonicalMessage(m)
      BY <1>1, <2>3, ElementOfSeq
    <3>2. /\ HasBlocks(m) /\ (m.system <=> i <= Lead)
          /\ IF PisPlace(n, i) \/ i = extra THEN LastMarked(m, mark) ELSE Unmarked(m)
      BY <1>1, <3>1 DEF Shaped, Carries
    <3>3. ns[i].string = m.string /\ ns[i].marks = m.marks /\ ns[i].system = m.system
      BY <3>1, CanonicalMessageIs
    <3>4. HasBlocks(ns[i]) /\ Blocks(ns[i]) = Blocks(m)
      BY <3>2, <3>3 DEF HasBlocks, Blocks
    <3>5. (Unmarked(m) => Unmarked(ns[i])) /\ (LastMarked(m, mark) => LastMarked(ns[i], mark))
      BY <3>3 DEF Unmarked, LastMarked
    <3>6. QED BY <3>1, <3>2, <3>3, <3>4, <3>5
  <2>9. SameBlocks(ms, ns)
    BY <2>3, <2>8 DEF SameBlocks
  <2>10. Carries(ns, n, extra, mark)
    BY <1>1, <2>3, <2>8 DEF Carries
  <2>11. Shaped(c, n, extra, mark)
    <3>1. \A i \in 1..Len(c.system) : c.system[i].mark = mark
      BY <2>6 DEF Shaped
    <3>2. QED BY <2>5, <2>10, <3>1 DEF Shaped
  <2>12. Listed(p, c)
    BY <2>3, <2>5, <2>6, <2>7, <2>9 DEF Listed
  <2>13. QED BY <2>11, <2>12 DEF c
<1>4. QED BY <1>2, <1>3

\* The head of a payload whose messages pi leads.
LEMMA HeadIs ==
    ASSUME profile \in Profiles, NEW n \in Nat, NEW extra, NEW mark, NEW p, Carries(p.messages, n, extra, mark)
    PROVE  /\ SystemMessages(p) = IF Lead = 1 THEN <<p.messages[1]>> ELSE <<>>
           /\ SystemMessages(p) \in Seq(Msg)
<1> DEFINE ms == p.messages
<1>1. ms \in Seq(Msg) /\ Len(ms) = Lead + n /\ Lead \in {0, 1}
  BY ProfileFacts DEF Carries
<1>2. \A i \in 1..Len(ms) : ms[i].system <=> i <= Lead
  BY <1>1 DEF Carries
<1>3. \A i \in 2..Len(ms) : ~ms[i].system
  BY <1>1, <1>2
<1>4. SystemMessages(p) = Leading(ms)
  BY DEF SystemMessages, Leading
<1>5. Leading(ms) = IF Len(ms) > 0 /\ ms[1].system THEN <<ms[1]>> ELSE <<>>
  BY <1>1, <1>3, LeadingIs
<1>6. CASE Lead = 1
  <2>1. 1 \in 1..Len(ms) /\ Len(ms) > 0 /\ ms[1].system
    BY <1>1, <1>2, <1>6
  <2>2. ms[1] \in Msg
    BY <1>1, <2>1, ElementOfSeq
  <2>3. QED BY <1>4, <1>5, <1>6, <2>1, <2>2
<1>7. CASE Lead = 0
  <2>1. ~(Len(ms) > 0 /\ ms[1].system)
    BY <1>1, <1>2, <1>7
  <2>2. QED BY <1>4, <1>5, <1>7, <2>1, EmptySeq
<1>8. QED BY <1>1, <1>6, <1>7

\* What the key sharer does to a payload.
Keyed(p, q) ==
    /\ q \in Payload /\ q.messages = p.messages /\ q.system = p.system /\ q.tools = p.tools
    /\ q.hasTools = p.hasTools /\ q.retention = p.retention
    /\ q.key = None <=> p.key = None
    /\ switch.sharedKey /\ q.key # None => q.key.head = HeadOf(q)

\* The key sharer does that: a shared key names the head of the payload it is put in.
LEMMA ShareKeyIs ==
    ASSUME profile \in Profiles, NEW p \in Payload, NEW n \in Nat, NEW extra, NEW mark,
           Carries(p.messages, n, extra, mark)
    PROVE  Keyed(p, ShareKey(p))
<1> DEFINE q == ShareKey(p)
           key == [on |-> TRUE, shared |-> TRUE, head |-> HeadOf(p)]
<1>1. CASE ~switch.sharedKey \/ p.key = None
  <2>1. q = p
    BY <1>1 DEF ShareKey
  <2>2. QED BY <1>1, <2>1 DEF Keyed
<1>2. CASE ~(~switch.sharedKey \/ p.key = None)
  <2>1. q = [p EXCEPT !.key = key]
    BY <1>2 DEF ShareKey
  <2>2. HeadOf(p) \in [sys : Seq(Msg), tools : Seq(Tool)]
    <3>1. SystemMessages(p) \in Seq(Msg) /\ p.tools \in Seq(Tool)
      BY HeadIs DEF Payload
    <3>2. QED BY <3>1 DEF HeadOf
  <2>3. key \in Keys
    BY <2>2 DEF Keys
  <2>4. key # None
    <3>1. key.shared = TRUE /\ DOMAIN key = {"on", "shared", "head"}
      OBVIOUS
    <3>2. DOMAIN None = {"on"}
      BY DEF None
    <3>3. "shared" \in DOMAIN key /\ "shared" \notin DOMAIN None
      BY <3>1, <3>2
    <3>4. QED BY <3>3
  <2>5. key.head = HeadOf(p)
    OBVIOUS
  <2> HIDE DEF key
  <2>6. /\ q \in Payload /\ q.key = key /\ q.messages = p.messages /\ q.system = p.system
        /\ q.tools = p.tools /\ q.hasTools = p.hasTools /\ q.retention = p.retention
    <3> HIDE DEF q
    <3>1. QED BY <2>1, <2>3 DEF Payload
  <2> HIDE DEF q
  <2>7. HeadOf(q) = HeadOf(p)
    BY <2>6 DEF HeadOf, SystemMessages
  <2>8. Keyed(p, q)
    BY <1>2, <2>4, <2>5, <2>6, <2>7 DEF Keyed
  <2>9. QED BY <2>8 DEF q
<1>3. QED BY <1>1, <1>2

-------------------------------------------------------------------------------
(* The whole transform                                                      *)

WireMessage(m) == CanonicalMessage(IF switch.retention THEN UpgradeMessage(m) ELSE m)
WireTools(tools) == IF switch.retention THEN UpgradePart(tools) ELSE tools

\* What a payload q has of the payload p it was made of: pi's marks in their places,
\* upgraded; the same blocks; the listings sorted; the retention and the key; and one
\* more mark, the anchor, on the message extra.
Wired(p, q, n, extra) ==
    /\ q \in Payload /\ Shaped(q, n, extra, WireMark) /\ SameBlocks(p.messages, q.messages)
    /\ extra \in 0..Len(p.messages)
    /\ extra # 0 => /\ ~PisPlace(n, extra) /\ PisMark # "none"
                    /\ MarkerCount(Normalize(p)) < MaxMarkers /\ Holds(p.messages, extra)
    /\ \A i \in 1..Len(p.messages) : i # extra => q.messages[i] = WireMessage(p.messages[i])
    /\ Len(q.system) = Len(p.system)
    /\ \A i \in 1..Len(p.system) : q.system[i].text = WireText(p.system[i].text)
    /\ q.tools = WireTools(Normalize(p).tools) /\ Len(q.tools) = Len(Normalize(p).tools)
    /\ q.hasTools = p.hasTools
    /\ q.retention = IF switch.retention /\ p.key # None THEN "24h" ELSE p.retention
    /\ q.key = None <=> p.key = None
    /\ switch.sharedKey /\ q.key # None => q.key.head = HeadOf(q)

\* The five stages together do that.
LEMMA TransformIs ==
    ASSUME profile \in Profiles, switch \in Switches, NEW n \in Nat \ {0},
           NEW p \in Payload, Native(p), Carries(p.messages, n, 0, PisMark)
    PROVE  /\ \E extra : Wired(p, Transform(p), n, extra)
           /\ \E extra : Anchored(Normalize(p), Anchor(Normalize(p)), n, extra)
<1> DEFINE a == Normalize(p)
           b == Anchor(a)
           r == Retain(b)
           c == Canonicalize(r)
           q == ShareKey(c)
<1>1. /\ a \in Payload /\ Native(a) /\ a.messages = p.messages /\ a.system = p.system
      /\ a.hasTools = p.hasTools /\ a.key = p.key /\ a.retention = p.retention
  BY NormalizeIs
<1>2. Carries(a.messages, n, 0, PisMark)
  BY <1>1
<1> HIDE DEF a
<1>3. PICK extra : Anchored(a, b, n, extra)
  BY <1>1, <1>2, AnchorIs
<1> HIDE DEF b
<1>4. /\ b \in Payload /\ SameButMessages(a, b) /\ SameBlocks(a.messages, b.messages)
      /\ \A i \in 1..Len(a.messages) : i # extra => b.messages[i] = a.messages[i]
  BY <1>3 DEF Anchored
<1>5. Shaped(b, n, extra, PisMark)
  <2>1. Carries(b.messages, n, extra, PisMark)
    BY <1>3 DEF Anchored
  <2>2. ToolsCarry(b.tools, PisMark) /\ \A i \in 1..Len(b.system) : b.system[i].mark = PisMark
    BY <1>1, <1>4 DEF Native, SameButMessages
  <2>3. QED BY <2>1, <2>2 DEF Shaped
<1>6. Retained(b, r) /\ Shaped(r, n, extra, WireMark)
  BY <1>4, <1>5, RetainIs
<1> HIDE DEF r
<1>7. Listed(r, c) /\ Shaped(c, n, extra, WireMark)
  <2>1. r \in Payload /\ WireMark \in Tiers
    BY <1>6, WireMarkIs DEF Retained
  <2>2. QED BY <1>6, <2>1, CanonicalizeIs
<1> HIDE DEF c
<1>8. Keyed(c, q)
  <2>1. c \in Payload /\ Carries(c.messages, n, extra, WireMark)
    BY <1>7 DEF Listed, Shaped
  <2>2. QED BY <2>1, ShareKeyIs
<1> HIDE DEF q
<1>9. Transform(p) = q
  BY DEF Transform, q, c, r, b, a
<1>10. q \in Payload /\ Shaped(q, n, extra, WireMark)
  BY <1>7, <1>8 DEF Keyed, Shaped
<1>11. SameBlocks(p.messages, q.messages) /\ Len(r.messages) = Len(p.messages) /\ Len(b.messages) = Len(p.messages)
  <2>1. SameBlocks(p.messages, b.messages) /\ SameBlocks(b.messages, r.messages) /\ SameBlocks(r.messages, q.messages)
    BY <1>1, <1>4, <1>6, <1>7, <1>8 DEF Retained, Listed, Keyed
  <2>2. QED BY <2>1 DEF SameBlocks
<1>12. /\ extra \in 0..Len(p.messages)
       /\ extra # 0 => /\ ~PisPlace(n, extra) /\ PisMark # "none"
                       /\ MarkerCount(a) < MaxMarkers /\ Holds(p.messages, extra)
  BY <1>1, <1>3 DEF Anchored
<1>13. ASSUME NEW i \in 1..Len(p.messages), i # extra
       PROVE  q.messages[i] = WireMessage(p.messages[i])
  <2>1. b.messages[i] = p.messages[i]
    BY <1>1, <1>4, <1>13
  <2>2. r.messages[i] = IF switch.retention THEN UpgradeMessage(b.messages[i]) ELSE b.messages[i]
    BY <1>6, <1>11 DEF Retained
  <2>3. c.messages[i] = CanonicalMessage(r.messages[i])
    BY <1>7, <1>11 DEF Listed
  <2>4. q.messages[i] = c.messages[i]
    BY <1>8 DEF Keyed
  <2>5. QED BY <2>1, <2>2, <2>3, <2>4 DEF WireMessage
<1>14. b.system = p.system /\ b.tools = a.tools /\ b.hasTools = p.hasTools /\ b.key = p.key /\ b.retention = p.retention
  BY <1>1, <1>4 DEF SameButMessages
<1>15. /\ Len(q.system) = Len(p.system)
       /\ \A i \in 1..Len(p.system) : q.system[i].text = WireText(p.system[i].text)
  <2>1. /\ Len(r.system) = Len(p.system)
        /\ \A i \in 1..Len(p.system) : r.system[i].text = p.system[i].text
    BY <1>6, <1>14 DEF Retained
  <2>2. /\ Len(c.system) = Len(r.system)
        /\ \A i \in 1..Len(r.system) : c.system[i].text = WireText(r.system[i].text)
    BY <1>7 DEF Listed
  <2>3. q.system = c.system
    BY <1>8 DEF Keyed
  <2>4. QED BY <2>1, <2>2, <2>3
<1>16. /\ q.tools = WireTools(a.tools) /\ Len(q.tools) = Len(a.tools)
  <2>1. r.tools = WireTools(a.tools) /\ Len(r.tools) = Len(a.tools)
    BY <1>6, <1>14 DEF Retained, WireTools
  <2>2. QED BY <1>7, <1>8, <2>1 DEF Listed, Keyed
<1>17. /\ q.hasTools = p.hasTools
       /\ q.retention = IF switch.retention /\ p.key # None THEN "24h" ELSE p.retention
       /\ q.key = None <=> p.key = None
       /\ switch.sharedKey /\ q.key # None => q.key.head = HeadOf(q)
  <2>1. r.hasTools = p.hasTools /\ r.key = p.key
        /\ r.retention = IF switch.retention /\ p.key # None THEN "24h" ELSE p.retention
    BY <1>6, <1>14 DEF Retained
  <2>2. c.hasTools = r.hasTools /\ c.key = r.key /\ c.retention = r.retention
    BY <1>7 DEF Listed
  <2>3. QED BY <1>8, <2>1, <2>2 DEF Keyed
<1>18. Wired(p, q, n, extra)
  <2>1. MarkerCount(Normalize(p)) = MarkerCount(a) /\ Normalize(p) = a
    BY DEF a
  <2>2. QED BY <1>10, <1>11, <1>12, <1>13, <1>15, <1>16, <1>17, <2>1 DEF Wired
<1>19. \E x : Wired(p, Transform(p), n, x)
  BY <1>9, <1>18
<1>20. \E x : Anchored(Normalize(p), Anchor(Normalize(p)), n, x)
  BY <1>3 DEF a, b
<1>21. QED BY <1>19, <1>20

-------------------------------------------------------------------------------
(* What a payload keeps of pi's                                             *)

\* MarkersKept and WireHeadCanonical of two payloads.
Kept(p, q, isLong, prof) ==
    /\ MarkerCount(q) <= Max({MaxMarkers, MarkerCount(p)})
    /\ MarkedBlocks(p.messages) \subseteq MarkedBlocks(q.messages)
    /\ MarkedIn(p.system) = MarkedIn(q.system)
    /\ MarkedIn(p.tools) # {} => MarkedIn(q.tools) = {Len(q.tools)}
    /\ Cardinality(Marks(q)) <= 1
    /\ Marks(q) # {} \/ q.key # None =>
        ((isLong \/ prof.long) <=> (Marks(q) = {"1h"} \/ q.retention = "24h"))

CanonicalPair(old, new, sorted) ==
    \A i \in DOMAIN old :
        /\ sorted => Sorted(new[i].text)
        /\ ToSet(old[i].text) = ToSet(new[i].text)
        /\ Len(old[i].text) = Len(new[i].text)
HeadCanonical(p, q, sw) ==
    /\ CanonicalPair(p.system, q.system, sw.canonicalize)
    /\ CanonicalPair(SystemMessages(p), SystemMessages(q), sw.canonicalize)
    /\ sw.sharedKey /\ q.key # None => q.key.head = HeadOf(q)

\* The marks of a payload are all the one it carries.
LEMMA MarksAre ==
    ASSUME profile \in Profiles, NEW n \in Nat \ {0}, NEW extra, NEW mark \in Tiers,
           NEW q \in Payload, Shaped(q, n, extra, mark)
    PROVE  /\ Marks(q) = IF mark = "none" THEN {} ELSE {mark}
           /\ mark = "none" => MarkerCount(q) = 0
           /\ mark # "none" => MarkerCount(q) > 0
<1>1. Carries(q.messages, n, extra, mark) /\ q.messages \in Seq(Msg) /\ Len(q.messages) = Lead + n /\ Lead \in {0, 1}
  BY ProfileFacts DEF Shaped, Carries
<1>2. /\ MarkedIn(q.system) = IF mark = "none" THEN {} ELSE 1..Len(q.system)
      /\ MarkedIn(q.tools) = IF mark = "none" \/ Len(q.tools) = 0 THEN {} ELSE {Len(q.tools)}
      /\ Len(q.system) \in Nat /\ Len(q.tools) \in Nat
  BY MarkedParts
<1>3. /\ IsFiniteSet(MarkedIn(q.system)) /\ IsFiniteSet(MarkedIn(q.tools)) /\ IsFiniteSet(MarkedBlocks(q.messages))
  BY <1>1, CountIs
<1>4. CASE mark = "none"
  <2>1. MarkedIn(q.system) = {} /\ MarkedIn(q.tools) = {} /\ MarkedBlocks(q.messages) = {}
    BY <1>1, <1>2, <1>4, MarkedAt
  <2>2. Marks(q) = {}
    BY <2>1 DEF Marks
  <2>3. Cardinality({}) = 0
    BY FS_EmptySet
  <2>4. QED BY <1>4, <2>1, <2>2, <2>3 DEF MarkerCount
<1>5. CASE mark # "none"
  <2>1. MarkedBlocks(q.messages) = {<<i, Len(q.messages[i].marks)>> : i \in Spots(n, extra)}
    BY <1>1, <1>5, MarkedAt
  <2>2. Lead + n \in Spots(n, extra)
    BY <1>1 DEF Spots, PisPlace
  <2>3. ASSUME NEW i \in Spots(n, extra)
        PROVE  q.messages[i].marks[Len(q.messages[i].marks)] = mark
    <3>1. i \in 1..(Lead + n) /\ HasBlocks(q.messages[i]) /\ LastMarked(q.messages[i], mark)
      BY <1>1 DEF Spots, Carries
    <3>2. Len(q.messages[i].marks) \in Nat
      <4>1. q.messages[i] \in Msg
        BY <1>1, <3>1, ElementOfSeq
      <4>2. QED BY <4>1, LenProperties DEF Msg
    <3>3. Len(q.messages[i].marks) > 0
      BY <1>5, <3>1 DEF HasBlocks, LastMarked
    <3>4. Len(q.messages[i].marks) \in 1..Len(q.messages[i].marks)
      BY <3>2, <3>3
    <3>5. QED BY <3>1, <3>4 DEF LastMarked
  <2>4. \A b \in MarkedBlocks(q.messages) : q.messages[b[1]].marks[b[2]] = mark
    <3>1. SUFFICES ASSUME NEW i \in Spots(n, extra), NEW b, b = <<i, Len(q.messages[i].marks)>>
                   PROVE  q.messages[b[1]].marks[b[2]] = mark
      BY <2>1
    <3>2. b[1] = i /\ b[2] = Len(q.messages[i].marks)
      BY <3>1
    <3>3. QED BY <2>3, <3>2
  <2>5. PICK b \in MarkedBlocks(q.messages) : q.messages[b[1]].marks[b[2]] = mark
    BY <2>1, <2>2, <2>4
  <2>6. \A i \in MarkedIn(q.system) : q.system[i].mark = mark
    BY <1>2 DEF Shaped
  <2>7. \A i \in MarkedIn(q.tools) : q.tools[i].mark = mark
    BY <1>2 DEF Shaped, ToolsCarry
  <2>8. Marks(q) \subseteq {mark}
    BY <2>4, <2>6, <2>7 DEF Marks
  <2>9. mark \in {q.messages[x[1]].marks[x[2]] : x \in MarkedBlocks(q.messages)}
    BY <2>5
  <2>10. Marks(q) = {mark}
    BY <2>8, <2>9 DEF Marks
  <2>11. Cardinality(MarkedBlocks(q.messages)) \in Nat /\ Cardinality(MarkedBlocks(q.messages)) # 0
    <3>1. MarkedBlocks(q.messages) # {}
      BY <2>5
    <3>2. QED BY <1>3, <3>1, FS_EmptySet, FS_CardinalityType
  <2>12. Cardinality(MarkedIn(q.system)) \in Nat /\ Cardinality(MarkedIn(q.tools)) \in Nat
    BY <1>3, FS_CardinalityType
  <2>13. MarkerCount(q) > 0
    BY <2>11, <2>12 DEF MarkerCount
  <2>14. QED BY <1>5, <2>10, <2>13
<1>6. QED BY <1>4, <1>5

\* pi's key is a key.
LEMMA KeyKnown == SessionKey # None
<1>1. DOMAIN SessionKey = {"on", "shared", "head"} /\ DOMAIN None = {"on"}
  BY DEF SessionKey, None
<1>2. QED BY <1>1

\* The stages spend at most one marker, and only within the budget.
LEMMA BudgetKept ==
    ASSUME profile \in Profiles, switch \in Switches, NEW n \in Nat \ {0},
           NEW p \in Payload, Native(p), Carries(p.messages, n, 0, PisMark),
           NEW q, NEW extra, Wired(p, q, n, extra)
    PROVE  /\ MarkerCount(q) <= Max({MaxMarkers, MarkerCount(p)})
           /\ MarkedBlocks(p.messages) \subseteq MarkedBlocks(q.messages)
           /\ MarkedIn(p.system) = MarkedIn(q.system)
           /\ MarkedIn(p.tools) # {} => MarkedIn(q.tools) = {Len(q.tools)}
<1> DEFINE a == Normalize(p)
<1>1. /\ Lead \in Nat /\ n \in Nat /\ PisMark \in Tiers /\ WireMark \in Tiers
      /\ (WireMark = "none" <=> PisMark = "none") /\ MaxMarkers \in Nat
  BY ProfileFacts, WireMarkIs, PipelineAssumption
<1>2. /\ a \in Payload /\ Native(a) /\ a.messages = p.messages /\ a.system = p.system /\ a.hasTools = p.hasTools
  BY NormalizeIs
<1> HIDE DEF a
<1>3. Shaped(p, n, 0, PisMark) /\ Shaped(a, n, 0, PisMark)
  BY <1>2 DEF Shaped, Native
<1>4. Len(a.tools) > 0 <=> Len(p.tools) > 0
  BY <1>2 DEF Native
<1>5. /\ q \in Payload /\ Shaped(q, n, extra, WireMark) /\ Len(q.system) = Len(p.system)
      /\ Len(q.tools) = Len(a.tools)
  BY DEF Wired, a
<1>6. extra \in 0..(Lead + n) /\ Len(p.messages) = Lead + n
  BY DEF Wired, Carries
<1>7. \A i \in 1..(Lead + n) : Len(q.messages[i].marks) = Len(p.messages[i].marks)
  BY <1>6 DEF Wired, SameBlocks
<1>8. /\ MarkedIn(q.system) = MarkedIn(p.system)
      /\ MarkedBlocks(p.messages) \subseteq MarkedBlocks(q.messages)
      /\ extra = 0 => MarkerCount(q) = MarkerCount(p)
      /\ MarkerCount(q) <= MarkerCount(p) + 1
      /\ MarkerCount(p) \in Nat /\ MarkerCount(q) \in Nat
  <2>1. Len(q.tools) > 0 <=> Len(p.tools) > 0
    BY <1>4, <1>5
  <2>2. QED BY <1>1, <1>3, <1>5, <1>6, <1>7, <2>1, CountGrows
<1>9. MarkerCount(a) = MarkerCount(p)
  <2>1. 0 \in 0..(Lead + n)
    BY <1>1
  <2>2. \A i \in 1..(Lead + n) : Len(a.messages[i].marks) = Len(p.messages[i].marks)
    BY <1>2
  <2>3. Len(a.system) = Len(p.system)
    BY <1>2
  <2>4. QED BY <1>1, <1>2, <1>3, <1>4, <2>1, <2>2, <2>3, CountGrows
<1>10. extra # 0 => MarkerCount(p) < MaxMarkers
  BY <1>9 DEF Wired, a
<1>11. MarkerCount(q) <= Max({MaxMarkers, MarkerCount(p)})
  <2>1. PICK x \in Nat, y \in Nat : x = MarkerCount(p) /\ y = MarkerCount(q)
    BY <1>8
  <2>2. Max({MaxMarkers, x}) = IF MaxMarkers >= x THEN MaxMarkers ELSE x
    BY <1>1, MaxOfTwo
  <2>3. y <= Max({MaxMarkers, x})
    BY <1>1, <1>8, <1>10, <2>1, <2>2
  <2>4. QED BY <2>1, <2>3
<1>12. MarkedIn(p.tools) # {} => MarkedIn(q.tools) = {Len(q.tools)}
  <2>1. /\ MarkedIn(p.tools) = IF PisMark = "none" \/ Len(p.tools) = 0 THEN {} ELSE {Len(p.tools)}
        /\ Len(p.tools) \in Nat
    BY <1>1, <1>3, MarkedParts
  <2>2. /\ MarkedIn(q.tools) = IF WireMark = "none" \/ Len(q.tools) = 0 THEN {} ELSE {Len(q.tools)}
        /\ Len(q.tools) \in Nat
    BY <1>1, <1>5, MarkedParts
  <2>3. QED BY <1>1, <1>4, <1>5, <2>1, <2>2
<1>13. QED BY <1>8, <1>11, <1>12

\* One tier on the wire, and the one that is reported.
LEMMA TierKept ==
    ASSUME profile \in Profiles, switch \in Switches, NEW n \in Nat \ {0},
           NEW p \in Payload, Native(p), Carries(p.messages, n, 0, PisMark),
           NEW q, NEW extra, Wired(p, q, n, extra),
           NEW x, Anchored(Normalize(p), Anchor(Normalize(p)), n, x)
    PROVE  /\ Cardinality(Marks(q)) <= 1
           /\ Marks(q) # {} \/ q.key # None =>
                ((EffectiveLong(Anchor(Normalize(p))) \/ profile.long) <=>
                    (Marks(q) = {"1h"} \/ q.retention = "24h"))
           /\ EffectiveLong(Anchor(Normalize(p))) \in BOOLEAN
<1> DEFINE a == Normalize(p)
           b == Anchor(a)
<1>1. /\ PisMark \in Tiers /\ WireMark \in Tiers /\ (WireMark = "none" <=> PisMark = "none")
      /\ switch.retention \in BOOLEAN /\ profile.long \in BOOLEAN /\ profile.keyed \in BOOLEAN
      /\ (WireMark = "1h" <=> profile.markers /\ (switch.retention \/ profile.long))
      /\ (PisMark # "none" <=> profile.markers)
  BY ProfileFacts, WireMarkIs
<1>2. a \in Payload /\ Native(a) /\ a.key = p.key
  BY NormalizeIs
<1>3. b \in Payload /\ b.key = p.key /\ Shaped(b, n, x, PisMark)
  <2>1. b \in Payload /\ SameButMessages(a, b) /\ Carries(b.messages, n, x, PisMark)
    BY DEF Anchored
  <2> HIDE DEF a, b
  <2>2. QED BY <1>2, <2>1 DEF SameButMessages, Native, Shaped
<1>4. q \in Payload /\ Shaped(q, n, extra, WireMark)
  BY DEF Wired
<1>5. Marks(q) = IF WireMark = "none" THEN {} ELSE {WireMark}
  BY <1>1, <1>4, MarksAre
<1>6. (PisMark = "none" => MarkerCount(b) = 0) /\ (PisMark # "none" => MarkerCount(b) > 0)
  <2> HIDE DEF b
  <2>1. QED BY <1>1, <1>3, MarksAre
<1> HIDE DEF a, b
<1>7. Cardinality(Marks(q)) <= 1
  <2>1. Cardinality({}) = 0 /\ Cardinality({WireMark}) = 1
    BY FS_EmptySet, FS_Singleton
  <2>2. QED BY <1>5, <2>1
<1>8. /\ p.key # None <=> profile.keyed
      /\ p.retention = IF profile.keyed /\ profile.long THEN "24h" ELSE "none"
      /\ q.key # None <=> profile.keyed
      /\ q.retention = IF switch.retention /\ p.key # None THEN "24h" ELSE p.retention
  BY <1>1, KeyKnown DEF Native, Wired
<1>9. q.retention = "24h" <=> profile.keyed /\ (switch.retention \/ profile.long)
  BY <1>1, <1>8
<1>10. EffectiveLong(b) <=> switch.retention /\ (PisMark # "none" \/ profile.keyed)
  BY <1>3, <1>6, <1>8 DEF EffectiveLong
<1>11. EffectiveLong(b) \in BOOLEAN
  BY DEF EffectiveLong
<1>12. Marks(q) # {} <=> profile.markers
  BY <1>1, <1>5
<1>13. Marks(q) = {"1h"} <=> profile.markers /\ (switch.retention \/ profile.long)
  <2>1. CASE WireMark = "none"
    BY <1>1, <1>5, <2>1
  <2>2. CASE WireMark # "none"
    <3>1. Marks(q) = {WireMark}
      BY <1>5, <2>2
    <3>2. Marks(q) = {"1h"} <=> WireMark = "1h"
      BY <3>1
    <3>3. QED BY <1>1, <3>2
  <2>3. QED BY <2>1, <2>2
<1>14. Marks(q) # {} \/ q.key # None =>
          ((EffectiveLong(b) \/ profile.long) <=> (Marks(q) = {"1h"} \/ q.retention = "24h"))
  BY <1>1, <1>8, <1>9, <1>10, <1>12, <1>13
<1>15. QED BY <1>7, <1>11, <1>14 DEF b, a

\* What leaves keeps all that MarkersKept asks, for every payload pi builds.
LEMMA KeptIs ==
    ASSUME profile \in Profiles, switch \in Switches, NEW n \in Nat \ {0},
           NEW p \in Payload, Native(p), Carries(p.messages, n, 0, PisMark)
    PROVE  /\ Kept(p, Transform(p), EffectiveLong(Anchor(Normalize(p))), profile)
           /\ EffectiveLong(Anchor(Normalize(p))) \in BOOLEAN
<1>1. PICK extra : Wired(p, Transform(p), n, extra)
  BY TransformIs
<1>2. PICK x : Anchored(Normalize(p), Anchor(Normalize(p)), n, x)
  BY TransformIs
<1>3. PICK q, isLong : q = Transform(p) /\ isLong = EffectiveLong(Anchor(Normalize(p)))
  OBVIOUS
<1>4. /\ MarkerCount(q) <= Max({MaxMarkers, MarkerCount(p)})
      /\ MarkedBlocks(p.messages) \subseteq MarkedBlocks(q.messages)
      /\ MarkedIn(p.system) = MarkedIn(q.system)
      /\ MarkedIn(p.tools) # {} => MarkedIn(q.tools) = {Len(q.tools)}
  BY <1>1, <1>3, BudgetKept
<1>5. /\ Cardinality(Marks(q)) <= 1
      /\ Marks(q) # {} \/ q.key # None =>
           ((isLong \/ profile.long) <=> (Marks(q) = {"1h"} \/ q.retention = "24h"))
      /\ isLong \in BOOLEAN
  BY <1>1, <1>2, <1>3, TierKept
<1>6. Kept(p, q, isLong, profile)
  BY <1>4, <1>5 DEF Kept
<1>7. QED BY <1>3, <1>5, <1>6

\* What leaves of a message has its text, as a listing leaves.
LEMMA WireMessageIs ==
    ASSUME NEW m \in Msg
    PROVE  WireMessage(m) \in Msg /\ WireMessage(m).text = WireText(m.text)
<1> DEFINE u == IF switch.retention THEN UpgradeMessage(m) ELSE m
<1>1. u \in Msg /\ u.text = m.text
  BY UpgradedMessage
<1> HIDE DEF u
<1>2. CanonicalMessage(u) \in Msg /\ CanonicalMessage(u).text = WireText(u.text)
  BY <1>1, CanonicalMessageIs
<1>3. WireMessage(m) = CanonicalMessage(u)
  BY DEF WireMessage, u
<1>4. QED BY <1>1, <1>2, <1>3

\* The leading messages of a payload, as pi built it and as it left.
LEMMA WireLead ==
    ASSUME profile \in Profiles, NEW n \in Nat \ {0}, NEW p \in Payload,
           Carries(p.messages, n, 0, PisMark), NEW q, NEW extra, Wired(p, q, n, extra)
    PROVE  /\ SystemMessages(p) = IF Lead = 1 THEN <<p.messages[1]>> ELSE <<>>
           /\ SystemMessages(q) = IF Lead = 1 THEN <<WireMessage(p.messages[1])>> ELSE <<>>
           /\ Lead = 1 => p.messages[1] \in Msg
<1>1. /\ SystemMessages(p) = IF Lead = 1 THEN <<p.messages[1]>> ELSE <<>>
      /\ p.messages \in Seq(Msg) /\ Len(p.messages) = Lead + n
  BY HeadIs DEF Carries
<1>2. SystemMessages(q) = IF Lead = 1 THEN <<q.messages[1]>> ELSE <<>>
  <2>1. Carries(q.messages, n, extra, WireMark)
    BY DEF Wired, Shaped
  <2>2. QED BY <2>1, HeadIs
<1>3. CASE Lead = 1
  <2>1. 1 \in 1..Len(p.messages)
    BY <1>1, <1>3
  <2>2. extra # 1
    <3>1. PisPlace(n, 1)
      BY <1>3 DEF PisPlace
    <3>2. QED BY <3>1 DEF Wired
  <2>3. q.messages[1] = WireMessage(p.messages[1])
    BY <2>1, <2>2 DEF Wired
  <2>4. p.messages[1] \in Msg
    BY <1>1, <2>1, ElementOfSeq
  <2>5. QED BY <1>1, <1>2, <1>3, <2>3, <2>4
<1>4. CASE Lead # 1
  BY <1>1, <1>2, <1>4
<1>5. QED BY <1>3, <1>4

\* What leaves is canonical, for every payload pi builds.
LEMMA CanonicalIs ==
    ASSUME profile \in Profiles, switch \in Switches, NEW n \in Nat \ {0},
           NEW p \in Payload, Native(p), Carries(p.messages, n, 0, PisMark)
    PROVE  HeadCanonical(p, Transform(p), switch)
<1>1. PICK q : q = Transform(p)
  OBVIOUS
<1>2. PICK extra : Wired(p, q, n, extra)
  BY <1>1, TransformIs
<1>3. CanonicalPair(p.system, q.system, switch.canonicalize)
  <2>1. p.system \in Seq(Block) /\ DOMAIN p.system = 1..Len(p.system)
    BY LenProperties DEF Payload
  <2>2. SUFFICES ASSUME NEW i \in 1..Len(p.system)
                 PROVE  /\ switch.canonicalize => Sorted(q.system[i].text)
                        /\ ToSet(p.system[i].text) = ToSet(q.system[i].text)
                        /\ Len(p.system[i].text) = Len(q.system[i].text)
    BY <2>1 DEF CanonicalPair
  <2>3. PICK text : text = p.system[i].text
    OBVIOUS
  <2>4. text \in Seq(Entries) /\ q.system[i].text = WireText(text)
    <3>1. p.system[i] \in Block
      BY <2>1, ElementOfSeq
    <3>2. QED BY <1>2, <2>3, <3>1 DEF Block, Wired
  <2>5. QED BY <2>3, <2>4, WireTextIs
<1>4. CanonicalPair(SystemMessages(p), SystemMessages(q), switch.canonicalize)
  <2>1. /\ SystemMessages(p) = IF Lead = 1 THEN <<p.messages[1]>> ELSE <<>>
        /\ SystemMessages(q) = IF Lead = 1 THEN <<WireMessage(p.messages[1])>> ELSE <<>>
        /\ Lead = 1 => p.messages[1] \in Msg
    BY <1>2, WireLead
  <2>2. CASE Lead = 1
    <3>1. PICK m \in Msg : m = p.messages[1]
      BY <2>1, <2>2
    <3>2. PICK w : w = WireMessage(m)
      OBVIOUS
    <3>3. w.text = WireText(m.text) /\ m.text \in Seq(Entries)
      BY <3>2, WireMessageIs DEF Msg
    <3>4. /\ switch.canonicalize => Sorted(w.text)
          /\ ToSet(m.text) = ToSet(w.text) /\ Len(m.text) = Len(w.text)
      BY <3>3, WireTextIs
    <3>5. SystemMessages(p) = <<m>> /\ SystemMessages(q) = <<w>>
      BY <2>1, <2>2, <3>1, <3>2
    <3>6. CanonicalPair(<<m>>, <<w>>, switch.canonicalize)
      BY <3>4 DEF CanonicalPair
    <3>7. QED BY <3>5, <3>6
  <2>3. CASE Lead # 1
    <3>1. SystemMessages(p) = <<>>
      BY <2>1, <2>3
    <3>2. QED BY <3>1 DEF CanonicalPair
  <2>4. QED BY <2>2, <2>3
<1>5. switch.sharedKey /\ q.key # None => q.key.head = HeadOf(q)
  BY <1>2 DEF Wired
<1>6. QED BY <1>1, <1>3, <1>4, <1>5 DEF HeadCanonical

-------------------------------------------------------------------------------
(* The anchor from one payload to the next                                  *)

\* AnchorOf, with the provider as a parameter.
AnchorIn(prof, p) ==
    LET ms == p.messages
        lead == Cardinality({i \in DOMAIN ms : ms[i].system})
        explicit(n) == CASE prof.explicit = "first" -> {1}
                         [] prof.explicit = "late" -> {n - 1}
                         [] OTHER -> {}
        pis(i) == i = Len(ms) \/ i <= lead \/ i - lead \in explicit(Len(ms) - lead)
        added == {b[1] : b \in {x \in MarkedBlocks(ms) : ~pis(x[1])}}
    IN  [at |-> IF added = {} THEN 0 ELSE Max(added),
         slot |-> (Depth(ms, Len(ms)) - Margin) \div Quantum]

\* It is AnchorOf.
LEMMA AnchorInIs == \A p : AnchorOf(p) = AnchorIn(profile, p)
BY DEF AnchorOf, AnchorIn, Explicit

\* An anchor that is where the rule of the messages ms puts it.
Settled(ms, a) ==
    /\ a.slot = (Depth(ms, Len(ms)) - Margin) \div Quantum
    /\ a.at # 0 => Holds(ms, a.at)

\* An anchor that the rule put in messages of which new are a continuation.
Earlier(old, new, a) ==
    /\ old \in Seq(Msg) /\ Len(old) > 0 /\ Len(old) <= Len(new)
    /\ \A i \in 1..Len(old) : Blocks(old[i]) = Blocks(new[i])
    /\ Settled(old, a)

\* Which message holds the position depends on the blocks only.
LEMMA HoldsAgree ==
    ASSUME NEW ms \in Seq(Msg), NEW ns \in Seq(Msg), SameBlocks(ms, ns), Len(ms) > 0,
           NEW k, Holds(ms, k)
    PROVE  Holds(ns, k)
<1>1. Len(ms) \in Nat /\ Len(ns) = Len(ms) /\ Len(ms) <= Len(ms) /\ k \in 1..Len(ms)
  BY LenProperties DEF SameBlocks, Holds
<1>2. PICK n \in Nat : n = Len(ms) /\ n = Len(ns)
  BY <1>1
<1>3. n <= Len(ms) /\ n <= Len(ns) /\ \A i \in 1..n : Blocks(ms[i]) = Blocks(ns[i])
  BY <1>2 DEF SameBlocks
<1>4. \A i \in 0..n : Depth(ms, i) = Depth(ns, i)
  BY <1>3, DepthAgrees
<1>5. Position(ns) = Position(ms)
  <2>1. Depth(ms, n) = Depth(ns, n)
    BY <1>4
  <2>2. QED BY <1>2, <2>1 DEF Position
<1>6. Depth(ns, k) = Depth(ms, k) /\ \A i \in 1..(k - 1) : Depth(ns, i) = Depth(ms, i)
  BY <1>1, <1>2, <1>4
<1>7. QED BY <1>1, <1>5, <1>6 DEF Holds

\* The anchor of a payload is the message that got the extra mark.
LEMMA AnchorSettles ==
    ASSUME profile \in Profiles, switch \in Switches, NEW n \in Nat \ {0}, NEW p \in Payload,
           Carries(p.messages, n, 0, PisMark), NEW q, NEW extra, Wired(p, q, n, extra)
    PROVE  Settled(q.messages, AnchorIn(profile, q))
<1> DEFINE ms == q.messages
           lead == Cardinality({i \in DOMAIN ms : ms[i].system})
           explicit(m) == CASE profile.explicit = "first" -> {1}
                            [] profile.explicit = "late" -> {m - 1}
                            [] OTHER -> {}
           pis(i) == i = Len(ms) \/ i <= lead \/ i - lead \in explicit(Len(ms) - lead)
           added == {b[1] : b \in {x \in MarkedBlocks(ms) : ~pis(x[1])}}
<1>1. /\ Carries(ms, n, extra, WireMark) /\ ms \in Seq(Msg) /\ Len(ms) = Lead + n /\ Lead \in {0, 1}
      /\ WireMark \in Tiers /\ (WireMark = "none" <=> PisMark = "none")
  BY ProfileFacts, WireMarkIs DEF Wired, Shaped, Carries
<1>2. lead = Lead
  <2>1. DOMAIN ms = 1..(Lead + n) /\ \A i \in 1..(Lead + n) : ms[i].system <=> i <= Lead
    BY <1>1, LenProperties DEF Carries
  <2>2. {i \in DOMAIN ms : ms[i].system} = 1..Lead
    BY <1>1, <2>1
  <2>3. 1 \in Int /\ Lead \in Int
    BY <1>1
  <2>4. Cardinality(1..Lead) = IF 1 > Lead THEN 0 ELSE Lead - 1 + 1
    BY <2>3, FS_Interval
  <2>5. Cardinality(1..Lead) = Lead
    BY <1>1, <2>4
  <2>6. QED BY <2>2, <2>5
<1> HIDE DEF lead
<1>3. \A i \in 1..(Lead + n) : pis(i) <=> PisPlace(n, i)
  <2>1. Len(ms) - lead = n
    BY <1>1, <1>2
  <2>2. explicit(n) = Explicit(n)
    BY DEF Explicit
  <2> HIDE DEF explicit
  <2>3. QED BY <1>1, <1>2, <2>1, <2>2 DEF PisPlace
<1> HIDE DEF pis
<1>4. IF extra = 0 THEN added = {} ELSE added = {extra} /\ extra \in Nat
  <2>1. CASE WireMark = "none"
    <3>1. MarkedBlocks(ms) = {} /\ extra = 0
      BY <1>1, <2>1, MarkedAt DEF Wired
    <3>2. QED BY <3>1
  <2>2. CASE WireMark # "none"
    <3>1. MarkedBlocks(ms) = {<<i, Len(ms[i].marks)>> : i \in Spots(n, extra)}
      BY <1>1, <2>2, MarkedAt
    <3>2. \A i \in Spots(n, extra) : i \in 1..(Lead + n) /\ (pis(i) \/ (i = extra /\ extra # 0))
      BY <1>1, <1>3 DEF Spots
    <3>3. \A x \in MarkedBlocks(ms) : x[1] \in Spots(n, extra)
      BY <3>1
    <3>4. added \subseteq {extra} /\ (extra = 0 => added = {})
      BY <3>2, <3>3
    <3>5. ASSUME extra # 0 PROVE extra \in added /\ extra \in Nat
      <4>1. extra \in 1..(Lead + n) /\ ~PisPlace(n, extra)
        <5>1. extra \in 0..Len(p.messages) /\ Len(p.messages) = Lead + n /\ ~PisPlace(n, extra)
          BY <3>5 DEF Wired, Carries
        <5>2. QED BY <1>1, <3>5, <5>1
      <4>2. extra \in Spots(n, extra) /\ ~pis(extra) /\ extra \in Nat
        BY <1>1, <1>3, <4>1 DEF Spots
      <4>3. PICK b : b = <<extra, Len(ms[extra].marks)>>
        OBVIOUS
      <4>4. b[1] = extra /\ b \in MarkedBlocks(ms)
        BY <3>1, <4>2, <4>3
      <4>5. QED BY <4>2, <4>4
    <3>6. QED BY <3>4, <3>5
  <2>3. QED BY <2>1, <2>2
<1>5. /\ AnchorIn(profile, q).at = IF added = {} THEN 0 ELSE Max(added)
      /\ AnchorIn(profile, q).slot = (Depth(ms, Len(ms)) - Margin) \div Quantum
  BY DEF AnchorIn, pis, lead
<1> HIDE DEF added
<1>6. AnchorIn(profile, q).at = extra
  <2>1. CASE extra = 0
    BY <1>4, <1>5, <2>1
  <2>2. CASE extra # 0
    <3>1. added = {extra} /\ extra \in Nat
      BY <1>4, <2>2
    <3>2. {extra} \in SUBSET (1..extra) /\ {extra} # {}
      BY <2>2, <3>1
    <3>3. Max({extra}) \in {extra}
      BY <3>1, <3>2, MaxOfIndices
    <3>4. QED BY <1>5, <3>1, <3>3
  <2>3. QED BY <2>1, <2>2
<1>7. extra # 0 => Holds(ms, extra)
  <2>1. SUFFICES ASSUME extra # 0 PROVE Holds(ms, extra)
    OBVIOUS
  <2>2. Holds(p.messages, extra) /\ SameBlocks(p.messages, ms)
    BY <2>1 DEF Wired
  <2>3. p.messages \in Seq(Msg) /\ Len(p.messages) > 0
    BY <1>1 DEF Carries
  <2>4. QED BY <1>1, <2>2, <2>3, HoldsAgree
<1>8. QED BY <1>5, <1>6, <1>7 DEF Settled

\* Whole quanta grow with what they are in.
LEMMA QuantaGrow ==
    ASSUME NEW x \in Int, NEW y \in Int, x <= y, NEW Q \in Nat \ {0}
    PROVE  (x \div Q) * Q <= (y \div Q) * Q /\ (x \div Q) * Q \in Int /\ (y \div Q) * Q \in Int
<1>1. x \div Q <= y \div Q /\ x \div Q \in Int /\ y \div Q \in Int
  OBVIOUS
<1>2. PICK a \in Int, b \in Int : a = x \div Q /\ b = y \div Q
  BY <1>1
<1>3. a * Q <= b * Q /\ a * Q \in Int /\ b * Q \in Int
  <2>1. PICK d \in Nat : b = a + d
    <3>1. b - a \in Nat /\ b = a + (b - a)
      BY <1>1, <1>2
    <3>2. QED BY <3>1
  <2>2. b * Q = a * Q + d * Q /\ d * Q >= 0
    BY <2>1
  <2>3. a * Q \in Int /\ b * Q \in Int /\ d * Q \in Int
    BY <2>1
  <2>4. QED BY <2>2, <2>3
<1>4. QED BY <1>2, <1>3

\* As the messages only grow, the anchor never moves back, nor within a quantum.
LEMMA SteadyIs ==
    ASSUME NEW old, NEW new \in Seq(Msg), NEW b, Earlier(old, new, b), NEW a, Settled(new, a),
           b.at # 0, a.at # 0
    PROVE  b.at <= a.at /\ (b.slot = a.slot => b.at = a.at)
<1>1. /\ old \in Seq(Msg) /\ Len(old) > 0 /\ Len(old) <= Len(new)
      /\ \A i \in 1..Len(old) : Blocks(old[i]) = Blocks(new[i])
      /\ b.slot = (Depth(old, Len(old)) - Margin) \div Quantum /\ Holds(old, b.at)
      /\ a.slot = (Depth(new, Len(new)) - Margin) \div Quantum /\ Holds(new, a.at)
  BY DEF Earlier, Settled
<1>2. Quantum \in Nat \ {0} /\ Margin \in Nat
  BY PipelineAssumption
<1>3. /\ Len(old) \in Nat /\ Len(new) \in Nat
      /\ \A i \in 0..Len(new) : Depth(new, i) \in Nat
      /\ \A i, j \in 0..Len(new) : i <= j => Depth(new, i) <= Depth(new, j)
  BY <1>1, DepthGrows
<1>4. PICK n \in Nat : n = Len(old)
  BY <1>3
<1>5. \A i \in 0..n : Depth(old, i) = Depth(new, i)
  <2>1. n <= Len(old) /\ n <= Len(new) /\ \A i \in 1..n : Blocks(old[i]) = Blocks(new[i])
    BY <1>1, <1>4
  <2>2. QED BY <1>1, <2>1, DepthAgrees
<1>6. PICK x \in Nat, y \in Nat : x = Depth(old, Len(old)) /\ y = Depth(new, Len(new)) /\ x <= y
  <2>1. Depth(old, n) = Depth(new, n) /\ n \in 0..Len(new) /\ Len(new) \in 0..Len(new)
    BY <1>1, <1>3, <1>4, <1>5
  <2>2. Depth(new, n) \in Nat /\ Depth(new, Len(new)) \in Nat /\ Depth(new, n) <= Depth(new, Len(new))
    BY <1>1, <1>3, <1>4, <2>1
  <2>3. QED BY <1>4, <2>1, <2>2
<1>7. PICK P \in Int, R \in Int : P = Position(old) /\ R = Position(new) /\ P <= R
  <2>1. PICK c \in Int, d \in Int : c = x - Margin /\ d = y - Margin /\ c <= d
    BY <1>2, <1>6
  <2>2. (c \div Quantum) * Quantum <= (d \div Quantum) * Quantum
        /\ (c \div Quantum) * Quantum \in Int /\ (d \div Quantum) * Quantum \in Int
    BY <1>2, <2>1, QuantaGrow
  <2>3. Position(old) = (c \div Quantum) * Quantum /\ Position(new) = (d \div Quantum) * Quantum
    BY <1>6, <2>1 DEF Position
  <2>4. QED BY <2>2, <2>3
<1>8. PICK k, m : k = b.at /\ m = a.at
  OBVIOUS
<1>9. /\ k \in 1..n /\ Depth(old, k) >= P /\ \A i \in 1..(k - 1) : Depth(old, i) < P
      /\ m \in 1..Len(new) /\ Depth(new, m) >= R /\ \A i \in 1..(m - 1) : Depth(new, i) < R
  BY <1>1, <1>4, <1>7, <1>8 DEF Holds
<1>10. Depth(new, k) >= P /\ \A i \in 1..(k - 1) : Depth(new, i) < P
  <2>1. k \in 0..n /\ \A i \in 1..(k - 1) : i \in 0..n
    BY <1>9
  <2>2. QED BY <1>5, <1>9, <2>1
<1>11. Depth(new, k) \in Nat /\ Depth(new, m) \in Nat /\ k \in Nat /\ m \in Nat
  <2>1. k \in 0..Len(new) /\ m \in 0..Len(new)
    BY <1>1, <1>3, <1>4, <1>9
  <2>2. QED BY <1>3, <2>1
<1>12. k <= m
  <2>1. SUFFICES ASSUME m < k PROVE FALSE
    BY <1>11
  <2>2. m \in 1..(k - 1)
    BY <1>9, <1>11, <2>1
  <2>3. Depth(new, m) < P
    BY <1>10, <2>2
  <2>4. QED BY <1>7, <1>9, <1>11, <2>3
<1>13. b.slot = a.slot => k = m
  <2>1. SUFFICES ASSUME b.slot = a.slot, k < m PROVE FALSE
    BY <1>11, <1>12
  <2>2. P = R
    BY <1>1, <1>7, <2>1 DEF Position
  <2>3. k \in 1..(m - 1)
    BY <1>9, <1>11, <2>1
  <2>4. Depth(new, k) < R
    BY <1>9, <2>3
  <2>5. QED BY <1>7, <1>10, <1>11, <2>2, <2>4
<1>14. QED BY <1>8, <1>12, <1>13

\* Two payloads of one history, the later of all of it.
LEMMA EarlierIs ==
    ASSUME NEW lead \in Nat, NEW h, NEW old, NEW k, Reflects(lead, old, h, k),
           NEW new, Len(h) \in Nat, Reflects(lead, new, h, Len(h)), NEW a, Settled(old, a)
    PROVE  Earlier(old, new, a)
<1>1. /\ k \in 1..Len(h) /\ old \in Seq(Msg) /\ Len(old) = lead + k
      /\ \A i \in 1..(lead + k) : Blocks(old[i]) = IF i <= lead THEN 1 ELSE Blocks(h[i - lead])
  BY DEF Reflects
<1>2. /\ new \in Seq(Msg) /\ Len(new) = lead + Len(h)
      /\ \A i \in 1..(lead + Len(h)) : Blocks(new[i]) = IF i <= lead THEN 1 ELSE Blocks(h[i - lead])
  BY DEF Reflects
<1>3. Len(old) > 0 /\ Len(old) <= Len(new)
  BY <1>1, <1>2
<1>4. \A i \in 1..Len(old) : Blocks(old[i]) = Blocks(new[i])
  BY <1>1, <1>2
<1>5. QED BY <1>1, <1>3, <1>4 DEF Earlier

-------------------------------------------------------------------------------
(* The state                                                                *)

\* What every step keeps of the types; churn counts heads after the first.
Base ==
    /\ profile \in Profiles /\ switch \in Switches
    /\ history \in Seq(Plain) /\ Len(history) <= HistoryLimit + 1
    /\ requests \in 0..RequestLimit /\ compacts \in 0..CompactLimit /\ long \in BOOLEAN
    /\ Sent => Len(sent.messages) = Len(raw.messages)
    /\ churn \in Nat
    /\ IF lastHead = None THEN churn = 0 ELSE churn <= requests - 1

\* What a request does, of the payload pi built.
Requested(p) ==
    /\ p \in Payload /\ Native(p) /\ Len(history) \in Nat \ {0}
    /\ Carries(p.messages, Len(history), 0, PisMark)
    /\ Reflects(Lead, p.messages, history, Len(history))
    /\ raw' = p /\ sent' = Transform(p) /\ NoteHead(Normalize(p))
    /\ long' = EffectiveLong(Anchor(Normalize(p)))

\* Every request is one of a payload as pi builds it.
LEMMA RequestIs ==
    ASSUME Base, Request PROVE \E p : Requested(p)
<1>1. profile \in Profiles /\ switch \in Switches /\ history \in Seq(Plain) /\ history # <<>>
  BY DEF Base, Request
<1>2. PICK tools \in Tools, listing \in Listings :
        /\ raw' = Build(tools, listing)
        /\ sent' = Transform(Build(tools, listing))
        /\ NoteHead(Normalize(Build(tools, listing)))
        /\ long' = EffectiveLong(Anchor(Normalize(Build(tools, listing))))
  BY DEF Request
<1>3. PICK p : p = Build(tools, listing)
  OBVIOUS
<1>4. Native(p) /\ p \in Payload
  BY <1>1, <1>3, BuildIs
<1>5. /\ Carries(p.messages, Len(history), 0, PisMark)
      /\ Reflects(Lead, p.messages, history, Len(history))
  BY <1>1, <1>3, BuildMessages
<1>6. Len(history) \in Nat \ {0}
  <2>1. Len(history) \in Nat /\ Len(history) # 0
    BY <1>1, LenProperties, EmptySeq
  <2>2. QED BY <2>1
<1>7. QED BY <1>2, <1>3, <1>4, <1>5, <1>6 DEF Requested

\* A compaction leaves messages without marks, and no more than there were.
LEMMA CompactIs ==
    ASSUME Base, Compact
    PROVE  history' \in Seq(Plain) /\ Len(history') <= HistoryLimit + 1
<1>1. history \in Seq(Plain) /\ Len(history) <= HistoryLimit + 1 /\ Len(history) \in Nat
  BY LenProperties DEF Base
<1>2. PICK n \in 1..Len(history) : history' = <<Message(1)>> \o SubSeq(history, n + 1, Len(history))
  BY DEF Compact
<1>3. Message(1) \in Plain
  BY DEF Plain
<1>4. <<Message(1)>> \in Seq(Plain) /\ Len(<<Message(1)>>) = 1
  <2> HIDE DEF Plain
  <2>1. QED BY <1>3
<1>5. PICK rest : rest = SubSeq(history, n + 1, Len(history))
  OBVIOUS
<1>6. rest \in Seq(Plain) /\ Len(rest) = Len(history) - n
  <2>1. n + 1 \in 1..(Len(history) + 1) /\ Len(history) \in (n + 1 - 1)..Len(history)
    BY <1>1
  <2>2. /\ rest \in Seq(Plain)
        /\ Len(rest) = IF n + 1 <= Len(history) THEN Len(history) - (n + 1) + 1 ELSE 0
    <3>1. \A i \in (n + 1)..Len(history) : i \in 1..Len(history) /\ history[i] \in Plain
      BY <1>1, ElementOfSeq
    <3>2. QED BY <1>1, <1>5, <3>1, <2>1, SubSeqProperties
  <2>3. QED BY <1>1, <2>2
<1>7. history' \in Seq(Plain) /\ Len(history') = 1 + Len(rest)
  <2>1. history' = <<Message(1)>> \o rest
    BY <1>2, <1>5
  <2>2. QED BY <1>4, <1>6, <2>1, ConcatProperties
<1>8. HistoryLimit \in Nat
  BY PipelineAssumption
<1>9. QED BY <1>1, <1>6, <1>7, <1>8

\* Saying something leaves the messages there were.
LEMMA SayIs ==
    ASSUME Base, Say
    PROVE  /\ history' \in Seq(Plain) /\ Len(history') = Len(history) + 1
           /\ \A i \in 1..Len(history) : history'[i] = history[i]
           /\ Len(history') <= HistoryLimit + 1 /\ Len(history) \in Nat
<1>1. history \in Seq(Plain) /\ Len(history) \in Nat /\ Len(history) < HistoryLimit
  BY LenProperties DEF Base, Say
<1>2. PICK n \in BlockCounts : history' = Append(history, Message(n))
  BY DEF Say
<1>3. HistoryLimit \in Nat /\ n \in Nat
  BY PipelineAssumption
<1>4. PICK m \in Plain : m = Message(n)
  BY <1>3 DEF Plain
<1>5. history' = Append(history, m)
  BY <1>2, <1>4
<1>6. /\ history' \in Seq(Plain) /\ Len(history') = Len(history) + 1
      /\ \A i \in 1..Len(history) : history'[i] = history[i]
  BY <1>1, <1>5, AppendProperties
<1>7. QED BY <1>1, <1>3, <1>6

\* A head that was noted is not None.
LEMMA HeadKnown ==
    ASSUME NEW head
    PROVE  [on |-> TRUE, head |-> head] # None
<1>1. "head" \in DOMAIN [on |-> TRUE, head |-> head] /\ "head" \notin DOMAIN None
  BY DEF None
<1>2. QED BY <1>1

\* A head is counted as churn only if another was noted before it.
LEMMA NoteHeadIs ==
    ASSUME NEW p, NoteHead(p), churn \in Nat
    PROVE  /\ churn' \in {churn, churn + 1}
           /\ lastHead = None => churn' = churn
           /\ p.hasTools => lastHead' = [on |-> TRUE, head |-> HeadOf(p)] /\ lastHead' # None
           /\ p.hasTools /\ lastHead # None /\ lastHead' # lastHead => churn' = churn + 1
           /\ ~p.hasTools => churn' = churn /\ lastHead' = lastHead
<1> DEFINE head == [on |-> TRUE, head |-> HeadOf(p)]
<1>1. CASE p.hasTools
  <2>1. /\ churn' = churn + (IF lastHead # None /\ lastHead # head THEN 1 ELSE 0)
        /\ lastHead' = head
    BY <1>1 DEF NoteHead
  <2>2. head # None
    BY HeadKnown
  <2> HIDE DEF head
  <2>3. /\ churn' \in {churn, churn + 1} /\ (lastHead = None => churn' = churn)
        /\ lastHead' # None /\ (lastHead # None /\ lastHead' # lastHead => churn' = churn + 1)
    BY <2>1, <2>2
  <2>4. QED BY <1>1, <2>1, <2>3 DEF head
<1>2. CASE ~p.hasTools
  BY <1>2 DEF NoteHead
<1>3. QED BY <1>1, <1>2

\* It holds initially.
LEMMA BaseInit == Init => Base
<1>1. SUFFICES ASSUME Init PROVE Base
  OBVIOUS
<1>2. <<>> \in Seq(Plain) /\ Len(<<>>) = 0
  BY EmptySeq
<1>3. {HistoryLimit, RequestLimit, CompactLimit} \subseteq Nat
  BY PipelineAssumption
<1>4. /\ profile \in Profiles /\ switch \in Switches /\ history = <<>> /\ ~Sent /\ churn = 0
      /\ lastHead = None /\ long = FALSE /\ requests = 0 /\ compacts = 0
  BY <1>1 DEF Init, Sent
<1>5. requests \in 0..RequestLimit /\ compacts \in 0..CompactLimit /\ Len(history) <= HistoryLimit + 1
  BY <1>2, <1>3, <1>4
<1>6. QED BY <1>2, <1>4, <1>5 DEF Base

\* Every step keeps it.
LEMMA BaseStep == Base /\ [Next]_vars => Base'
<1>1. SUFFICES ASSUME Base, [Next]_vars PROVE Base'
  OBVIOUS
<1>2. {HistoryLimit, RequestLimit, CompactLimit} \subseteq Nat
  BY PipelineAssumption
<1>3. CASE Say
  <2>1. history' \in Seq(Plain) /\ Len(history') <= HistoryLimit + 1
    BY <1>1, <1>3, SayIs
  <2>2. UNCHANGED <<profile, switch, raw, sent, churn, lastHead, long, requests, compacts>>
    BY <1>3 DEF Say
  <2>3. QED BY <1>1, <2>1, <2>2 DEF Base, Sent
<1>4. CASE Request
  <2>1. PICK p : Requested(p)
    BY <1>1, <1>4, RequestIs
  <2>2. profile \in Profiles /\ switch \in Switches
    BY <1>1 DEF Base
  <2>3. PICK n \in Nat \ {0} : n = Len(history) /\ Carries(p.messages, n, 0, PisMark)
    BY <2>1 DEF Requested
  <2>4. p \in Payload /\ Native(p) /\ raw' = p /\ sent' = Transform(p) /\ long' = EffectiveLong(Anchor(Normalize(p)))
    BY <2>1 DEF Requested
  <2>5. PICK extra : Wired(p, sent', n, extra)
    BY <2>2, <2>3, <2>4, TransformIs
  <2>6. Len(sent'.messages) = Len(raw'.messages)
    BY <2>4, <2>5 DEF Wired, SameBlocks
  <2>7. long' \in BOOLEAN
    BY <2>4 DEF EffectiveLong
  <2>8. churn' \in Nat /\ IF lastHead' = None THEN churn' = 0 ELSE churn' <= requests' - 1
    <3>1. /\ churn \in Nat /\ requests \in Nat /\ requests' = requests + 1
          /\ IF lastHead = None THEN churn = 0 ELSE churn <= requests - 1
      BY <1>1, <1>2, <1>4 DEF Base, Request
    <3>2. PICK a : a = Normalize(p) /\ NoteHead(a)
      BY <2>1 DEF Requested
    <3>3. /\ churn' \in {churn, churn + 1}
          /\ lastHead = None => churn' = churn
          /\ a.hasTools => lastHead' # None
          /\ ~a.hasTools => lastHead' = lastHead /\ churn' = churn
      BY <3>1, <3>2, NoteHeadIs
    <3>4. QED BY <3>1, <3>3
  <2>9. UNCHANGED <<profile, switch, history, compacts>> /\ requests' \in 0..RequestLimit
    BY <1>1, <1>2, <1>4 DEF Base, Request
  <2>10. QED BY <1>1, <2>6, <2>7, <2>8, <2>9 DEF Base
<1>5. CASE Compact
  <2>1. history' \in Seq(Plain) /\ Len(history') <= HistoryLimit + 1
    BY <1>1, <1>5, CompactIs
  <2>2. /\ UNCHANGED <<profile, switch, churn, lastHead, long, requests>> /\ sent' = NoPayload
        /\ compacts' \in 0..CompactLimit
    BY <1>1, <1>2, <1>5 DEF Base, Compact
  <2>3. QED BY <1>1, <2>1, <2>2 DEF Base, Sent
<1>6. CASE UNCHANGED vars
  BY <1>1, <1>6 DEF vars, Base, Sent
<1>7. QED BY <1>1, <1>3, <1>4, <1>5, <1>6 DEF Next

\* So it always holds.
LEMMA StateKept == Spec => []Base
BY BaseInit, BaseStep, PTL DEF Spec

\* Types, for every provider, tool list, listing, switch and bound; churn counts at
\* most every request but the first, since only a head that follows another one counts.
THEOREM TypeCorrect == Spec => []TypeOK
<1>1. Base => TypeOK
  <2>1. SUFFICES ASSUME Base PROVE TypeOK
    OBVIOUS
  <2>2. requests \in 0..RequestLimit /\ churn \in Nat /\ RequestLimit \in Nat
        /\ IF lastHead = None THEN churn = 0 ELSE churn <= requests - 1
    BY <2>1, PipelineAssumption DEF Base
  <2>3. 0 \in Int /\ requests - 1 \in Int
    BY <2>2
  <2>4. Max({0, requests - 1}) = IF 0 >= requests - 1 THEN 0 ELSE requests - 1
    BY <2>3, MaxOfTwo
  <2>5. churn \in 0..Max({0, requests - 1})
    BY <2>2, <2>4
  <2>6. QED BY <2>1, <2>5 DEF Base, TypeOK
<1>2. QED BY <1>1, StateKept, PTL

\* The five stages spend at most the provider's marker budget, keep each of pi's
\* breakpoints, never mix tiers, and report the tier on the wire.
THEOREM MarkersAreKept == Spec => []MarkersKept
<1> DEFINE I == Sent => Kept(raw, sent, long, profile)
<1>1. I => MarkersKept
  BY DEF MarkersKept, Kept
<1>2. Init => I
  BY DEF Init, Sent
<1>3. Base /\ I /\ [Next]_vars => I'
  <2>1. SUFFICES ASSUME Base, I, [Next]_vars PROVE I'
    OBVIOUS
  <2>2. CASE Say
    BY <2>1, <2>2 DEF Say, Sent
  <2>3. CASE Request
    <3>1. PICK p : Requested(p)
      BY <2>1, <2>3, RequestIs
    <3>2. profile \in Profiles /\ switch \in Switches
      BY <2>1 DEF Base
    <3>3. PICK n \in Nat \ {0} : n = Len(history) /\ Carries(p.messages, n, 0, PisMark)
      BY <3>1 DEF Requested
    <3>4. p \in Payload /\ Native(p) /\ raw' = p /\ sent' = Transform(p) /\ long' = EffectiveLong(Anchor(Normalize(p)))
      BY <3>1 DEF Requested
    <3>5. Kept(p, Transform(p), EffectiveLong(Anchor(Normalize(p))), profile)
      BY <3>2, <3>3, <3>4, KeptIs
    <3>6. profile' = profile
      BY <2>3 DEF Request
    <3>7. QED BY <3>4, <3>5, <3>6
  <2>4. CASE Compact
    BY <2>4 DEF Compact, Sent
  <2>5. CASE UNCHANGED vars
    BY <2>1, <2>5 DEF vars, Sent
  <2>6. QED BY <2>1, <2>2, <2>3, <2>4, <2>5 DEF Next
<1>4. QED BY <1>1, <1>2, <1>3, StateKept, PTL DEF Spec

\* Whatever order pi lists entries in, they leave in one, and a shared key names
\* exactly the head it leaves with.
THEOREM HeadIsCanonical == Spec => []WireHeadCanonical
<1> DEFINE I == Sent => HeadCanonical(raw, sent, switch)
<1>1. I => WireHeadCanonical
  BY DEF WireHeadCanonical, HeadCanonical, CanonicalPair
<1>2. Init => I
  BY DEF Init, Sent
<1>3. Base /\ I /\ [Next]_vars => I'
  <2>1. SUFFICES ASSUME Base, I, [Next]_vars PROVE I'
    OBVIOUS
  <2>2. CASE Say
    BY <2>1, <2>2 DEF Say, Sent
  <2>3. CASE Request
    <3>1. PICK p : Requested(p)
      BY <2>1, <2>3, RequestIs
    <3>2. profile \in Profiles /\ switch \in Switches
      BY <2>1 DEF Base
    <3>3. PICK n \in Nat \ {0} : n = Len(history) /\ Carries(p.messages, n, 0, PisMark)
      BY <3>1 DEF Requested
    <3>4. p \in Payload /\ Native(p) /\ raw' = p /\ sent' = Transform(p)
      BY <3>1 DEF Requested
    <3>5. HeadCanonical(p, Transform(p), switch)
      BY <3>2, <3>3, <3>4, CanonicalIs
    <3>6. switch' = switch
      BY <2>3 DEF Request
    <3>7. QED BY <3>4, <3>5, <3>6
  <2>4. CASE Compact
    BY <2>4 DEF Compact, Sent
  <2>5. CASE UNCHANGED vars
    BY <2>1, <2>5 DEF vars, Sent
  <2>6. QED BY <2>1, <2>2, <2>3, <2>4, <2>5 DEF Next
<1>4. QED BY <1>1, <1>2, <1>3, StateKept, PTL DEF Spec

-------------------------------------------------------------------------------
(* The anchor                                                               *)

\* The last payload has the blocks of the history it was built from, and the anchor
\* before it is where the rule put it in messages that this payload continues.
AnchorBase ==
    /\ Sent => /\ \E k : Reflects(Lead, sent.messages, history, k)
               /\ Settled(sent.messages, AnchorIn(profile, sent))
    /\ before.at # 0 => \E old : Earlier(old, sent.messages, before)

\* The stages keep the blocks of the history.
LEMMA TransformReflects ==
    ASSUME NEW p, NEW q, NEW n, NEW extra, Wired(p, q, n, extra), NEW lead \in Nat, NEW h, NEW k,
           Reflects(lead, p.messages, h, k)
    PROVE  Reflects(lead, q.messages, h, k)
<1>1. SameBlocks(p.messages, q.messages) /\ q.messages \in Seq(Msg)
  BY DEF Wired, Payload
<1>2. QED BY <1>1 DEF SameBlocks, Reflects

\* Every step keeps it: a request puts its anchor by the rule, and the history it was
\* built from has only grown since.
LEMMA AnchorBaseStep == Base /\ AnchorBase /\ [Next]_vars => AnchorBase'
<1>1. SUFFICES ASSUME Base, AnchorBase, [Next]_vars PROVE AnchorBase'
  OBVIOUS
<1>2. Lead \in Nat
  BY <1>1, ProfileFacts DEF Base
<1>3. CASE Say
  <2>1. /\ \A i \in 1..Len(history) : history'[i] = history[i]
        /\ Len(history') = Len(history) + 1 /\ Len(history) \in Nat
    BY <1>1, <1>3, SayIs
  <2>2. profile' = profile /\ sent' = sent /\ before' = before
    BY <1>3 DEF Say
  <2>3. ASSUME NEW k, Reflects(Lead, sent.messages, history, k)
        PROVE  Reflects(Lead, sent.messages, history', k)
    <3>1. /\ k \in 1..Len(history) /\ k \in 1..Len(history')
          /\ sent.messages \in Seq(Msg) /\ Len(sent.messages) = Lead + k
          /\ \A i \in 1..(Lead + k) : Blocks(sent.messages[i]) = IF i <= Lead THEN 1 ELSE Blocks(history[i - Lead])
      BY <2>1, <2>3 DEF Reflects
    <3>2. \A i \in 1..(Lead + k) : i <= Lead \/ history'[i - Lead] = history[i - Lead]
      <4>1. SUFFICES ASSUME NEW i \in 1..(Lead + k), ~(i <= Lead) PROVE history'[i - Lead] = history[i - Lead]
        OBVIOUS
      <4>2. i - Lead \in 1..Len(history)
        BY <1>2, <2>1, <3>1, <4>1
      <4>3. QED BY <2>1, <4>2
    <3>3. QED BY <3>1, <3>2 DEF Reflects
  <2>4. Lead' = Lead
    BY <2>2 DEF Lead
  <2>5. Sent' => /\ \E k : Reflects(Lead, sent.messages, history', k)
                 /\ Settled(sent.messages, AnchorIn(profile, sent))
    BY <1>1, <2>2, <2>3 DEF AnchorBase, Sent
  <2>6. before'.at # 0 => \E old : Earlier(old, sent.messages, before)
    BY <1>1, <2>2 DEF AnchorBase
  <2>7. QED BY <2>2, <2>4, <2>5, <2>6 DEF AnchorBase
<1>4. CASE Request
  <2>1. PICK p : Requested(p)
    BY <1>1, <1>4, RequestIs
  <2>2. profile \in Profiles /\ switch \in Switches
    BY <1>1 DEF Base
  <2>3. PICK n \in Nat \ {0} : n = Len(history) /\ Carries(p.messages, n, 0, PisMark)
    BY <2>1 DEF Requested
  <2>4. p \in Payload /\ Native(p) /\ sent' = Transform(p) /\ Reflects(Lead, p.messages, history, n)
    BY <2>1, <2>3 DEF Requested
  <2>5. PICK q : q = sent'
    OBVIOUS
  <2>6. PICK extra : Wired(p, q, n, extra)
    BY <2>2, <2>3, <2>4, <2>5, TransformIs
  <2>7. Settled(q.messages, AnchorIn(profile, q))
    BY <2>2, <2>3, <2>4, <2>6, AnchorSettles
  <2>8. Reflects(Lead, q.messages, history, n)
    BY <1>2, <2>4, <2>6, TransformReflects
  <2>9. profile' = profile /\ history' = history /\ Lead' = Lead
    BY <1>4 DEF Request, Lead
  <2>10. ASSUME before'.at # 0 PROVE \E old : Earlier(old, q.messages, before')
    <3>1. before' = IF sent = NoPayload THEN NoAnchor ELSE AnchorOf(sent)
      BY <1>4 DEF Request
    <3>2. Sent /\ before' = AnchorOf(sent)
      BY <2>10, <3>1 DEF NoAnchor, Sent
    <3>3. before' = AnchorIn(profile, sent)
      BY <3>2, AnchorInIs
    <3>4. PICK k : Reflects(Lead, sent.messages, history, k)
      BY <1>1, <3>2 DEF AnchorBase
    <3>5. Settled(sent.messages, before')
      BY <1>1, <3>2, <3>3 DEF AnchorBase
    <3>6. PICK old, a : old = sent.messages /\ a = before'
      OBVIOUS
    <3>7. Reflects(Lead, old, history, k) /\ Settled(old, a)
      BY <3>4, <3>5, <3>6
    <3>8. Earlier(old, q.messages, a)
      <4>1. Len(history) \in Nat /\ Reflects(Lead, q.messages, history, Len(history))
        BY <2>3, <2>8
      <4>2. QED BY <1>2, <3>7, <4>1, EarlierIs
    <3>9. QED BY <3>6, <3>8
  <2>11. QED BY <2>5, <2>7, <2>8, <2>9, <2>10 DEF AnchorBase
<1>5. CASE Compact
  BY <1>5 DEF Compact, AnchorBase, Sent, NoAnchor
<1>6. CASE UNCHANGED vars
  <2>1. profile' = profile /\ sent' = sent /\ before' = before /\ history' = history /\ Lead' = Lead
    BY <1>6 DEF vars, Lead
  <2>2. QED BY <1>1, <2>1 DEF AnchorBase, Sent
<1>7. QED BY <1>1, <1>3, <1>4, <1>5, <1>6 DEF Next

\* While the history only grows, the anchor never moves back, and stays on its block
\* within a quantum, for every quantum and margin.
THEOREM AnchorIsSteady == Spec => []AnchorSteady
<1>1. Init => AnchorBase
  BY DEF Init, AnchorBase, Sent, NoAnchor
<1>2. AnchorBase => AnchorSteady
  <2>1. SUFFICES ASSUME AnchorBase, Sent, before.at # 0, AnchorOf(sent).at # 0
                 PROVE  /\ before.at <= AnchorOf(sent).at
                        /\ before.slot = AnchorOf(sent).slot => before.at = AnchorOf(sent).at
    BY DEF AnchorSteady
  <2>2. PICK now, new : now = AnchorOf(sent) /\ new = sent.messages
    OBVIOUS
  <2>3. PICK old : Earlier(old, new, before)
    BY <2>1, <2>2 DEF AnchorBase
  <2>4. new \in Seq(Msg) /\ Settled(new, now)
    <3>1. Settled(sent.messages, AnchorIn(profile, sent)) /\ \E k : Reflects(Lead, sent.messages, history, k)
      BY <2>1 DEF AnchorBase
    <3>2. now = AnchorIn(profile, sent)
      BY <2>2, AnchorInIs
    <3>3. QED BY <2>2, <3>1, <3>2 DEF Reflects
  <2>5. before.at <= now.at /\ (before.slot = now.slot => before.at = now.at)
    BY <2>1, <2>2, <2>3, <2>4, SteadyIs
  <2>6. QED BY <2>2, <2>5
<1>3. QED BY <1>1, <1>2, AnchorBaseStep, StateKept, PTL DEF Spec

-------------------------------------------------------------------------------
(* The head                                                                 *)

\* What leaves of a head that is a message and tools.
WireOf(sw, head) ==
    LET m == IF sw.retention THEN UpgradeMessage(head.sys[1]) ELSE head.sys[1]
    IN  [on |-> TRUE, block |-> <<>>,
         message |-> <<IF sw.canonicalize THEN [m EXCEPT !.text = CanonicalText(m.text)] ELSE m>>,
         tools |-> IF sw.retention THEN UpgradePart(head.tools) ELSE head.tools]

\* The last head noted is the one that left, and as long as none was counted as
\* churn, the first one too.
HeadBase ==
    /\ firstHead = None <=> lastHead = None
    /\ profile.shape = "completions" =>
        /\ Sent /\ raw.hasTools => lastHead # None /\ WireHead(sent) = WireOf(switch, lastHead.head)
        /\ lastHead # None /\ churn = 0 => firstHead = WireOf(switch, lastHead.head)

\* What leaves is determined by the head that was noted.
LEMMA WireOfHead ==
    ASSUME profile \in Profiles, switch \in Switches, profile.shape = "completions",
           NEW n \in Nat \ {0}, NEW p \in Payload, Native(p), Carries(p.messages, n, 0, PisMark),
           NEW q, NEW extra, Wired(p, q, n, extra)
    PROVE  WireHead(q) = WireOf(switch, HeadOf(Normalize(p)))
<1>1. Lead = 1
  BY DEF Lead
<1>2. /\ SystemMessages(p) = <<p.messages[1]>>
      /\ SystemMessages(q) = <<WireMessage(p.messages[1])>>
  BY <1>1, WireLead
<1>3. q.system = <<>>
  <2>1. p.system = <<>> /\ Len(q.system) = Len(p.system) /\ q.system \in Seq(Block)
    BY <1>1 DEF Native, Wired, Payload
  <2>2. QED BY <2>1, EmptySeq
<1>4. q.tools = WireTools(Normalize(p).tools)
  BY DEF Wired
<1>5. SystemMessages(Normalize(p)) = SystemMessages(p)
  BY NormalizeIs DEF SystemMessages
<1>6. PICK m, a, head : m = p.messages[1] /\ a = Normalize(p) /\ head = HeadOf(a)
  OBVIOUS
<1>7. head.sys = <<m>> /\ head.tools = a.tools
  BY <1>2, <1>5, <1>6 DEF HeadOf
<1>8. head.sys[1] = m
  BY <1>7
<1>9. WireHead(q) = [on |-> TRUE, block |-> <<>>, message |-> <<WireMessage(m)>>, tools |-> WireTools(a.tools)]
  BY <1>2, <1>3, <1>4, <1>6 DEF WireHead
<1>10. WireOf(switch, head) = [on |-> TRUE, block |-> <<>>, message |-> <<WireMessage(m)>>, tools |-> WireTools(a.tools)]
  BY <1>7, <1>8 DEF WireOf, WireMessage, CanonicalMessage, WireTools
<1>11. QED BY <1>6, <1>9, <1>10

\* Every step keeps it: the first head noted is the first one sent, and an equal head
\* leaves as an equal one.
LEMMA HeadBaseStep == Base /\ HeadBase /\ [Next]_vars => HeadBase'
<1>1. SUFFICES ASSUME Base, HeadBase, [Next]_vars PROVE HeadBase'
  OBVIOUS
<1>2. CASE Say
  <2>1. UNCHANGED <<profile, switch, raw, sent, churn, lastHead, firstHead>>
    BY <1>2 DEF Say
  <2>2. QED BY <1>1, <2>1 DEF HeadBase, Sent
<1>3. CASE Request
  <2>1. PICK p : Requested(p)
    BY <1>1, <1>3, RequestIs
  <2>2. profile \in Profiles /\ switch \in Switches /\ churn \in Nat
    BY <1>1 DEF Base
  <2>3. PICK n \in Nat \ {0} : n = Len(history) /\ Carries(p.messages, n, 0, PisMark)
    BY <2>1 DEF Requested
  <2>4. p \in Payload /\ Native(p) /\ raw' = p /\ sent' = Transform(p) /\ NoteHead(Normalize(p))
    BY <2>1 DEF Requested
  <2>5. PICK a : a = Normalize(p)
    OBVIOUS
  <2>6. a.hasTools = p.hasTools /\ p.hasTools \in BOOLEAN
    BY <2>2, <2>4, <2>5, NormalizeIs DEF Native
  <2>7. PICK q : q = sent' /\ \E extra : Wired(p, q, n, extra)
    BY <2>2, <2>3, <2>4, TransformIs
  <2>8. profile.shape = "completions" => WireHead(q) = WireOf(switch, HeadOf(a))
    BY <2>2, <2>3, <2>4, <2>5, <2>7, WireOfHead
  <2>9. profile' = profile /\ switch' = switch
        /\ firstHead' = IF firstHead = None /\ p.hasTools THEN WireHead(q) ELSE firstHead
    BY <1>3, <2>4, <2>7 DEF Request
  <2>10. WireHead(q) # None
    <3>1. "block" \in DOMAIN WireHead(q) /\ "block" \notin DOMAIN None
      BY DEF WireHead, None
    <3>2. QED BY <3>1
  <2>11. /\ churn' \in {churn, churn + 1}
         /\ lastHead = None => churn' = churn
         /\ a.hasTools => lastHead' = [on |-> TRUE, head |-> HeadOf(a)] /\ lastHead' # None
         /\ a.hasTools /\ lastHead # None /\ lastHead' # lastHead => churn' = churn + 1
         /\ ~a.hasTools => churn' = churn /\ lastHead' = lastHead
    BY <2>2, <2>4, <2>5, NoteHeadIs
  <2>12. CASE p.hasTools
    <3>1. lastHead'.head = HeadOf(a) /\ lastHead' # None
      BY <2>6, <2>11, <2>12
    <3>2. firstHead' # None
      BY <2>9, <2>10, <2>12
    <3>3. ASSUME profile.shape = "completions", churn' = 0
          PROVE  firstHead' = WireOf(switch, lastHead'.head)
      <4>1. CASE lastHead = None
        BY <1>1, <2>8, <2>9, <2>12, <3>1, <3>3, <4>1 DEF HeadBase
      <4>2. CASE lastHead # None
        <5>1. lastHead' = lastHead /\ churn = 0
          BY <2>2, <2>6, <2>11, <2>12, <3>3, <4>2
        <5>2. firstHead = WireOf(switch, lastHead.head) /\ firstHead # None
          BY <1>1, <3>3, <4>2, <5>1 DEF HeadBase
        <5>3. QED BY <2>9, <5>1, <5>2
      <4>3. QED BY <4>1, <4>2
    <3>4. profile.shape = "completions" => WireHead(sent') = WireOf(switch, lastHead'.head)
      BY <2>7, <2>8, <3>1
    <3>5. QED BY <2>9, <3>1, <3>2, <3>3, <3>4 DEF HeadBase
  <2>13. CASE ~p.hasTools
    <3>1. lastHead' = lastHead /\ churn' = churn /\ firstHead' = firstHead /\ ~raw'.hasTools
      BY <2>4, <2>6, <2>9, <2>11, <2>13
    <3>2. QED BY <1>1, <2>9, <3>1 DEF HeadBase
  <2>14. QED BY <2>6, <2>12, <2>13
<1>4. CASE Compact
  <2>1. UNCHANGED <<profile, switch, churn, lastHead, firstHead>> /\ ~Sent'
    BY <1>4 DEF Compact, Sent
  <2>2. QED BY <1>1, <2>1 DEF HeadBase
<1>5. CASE UNCHANGED vars
  BY <1>1, <1>5 DEF vars, HeadBase, Sent
<1>6. QED BY <1>1, <1>2, <1>3, <1>4, <1>5 DEF Next

\* As long as no churn was counted, the head has not changed on the wire since the
\* first request.
THEOREM UnchurnedHeadStays == Spec => []UnchurnedHeadIsStable
<1>1. Init => HeadBase
  BY DEF Init, HeadBase, Sent
<1>2. HeadBase => UnchurnedHeadIsStable
  BY DEF HeadBase, UnchurnedHeadIsStable
<1>3. QED BY <1>1, <1>2, HeadBaseStep, StateKept, PTL DEF Spec
===============================================================================
