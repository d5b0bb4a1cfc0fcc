------------------------- MODULE ModelParams_proofs -------------------------
(***************************************************************************)
(* Theorems about ModelParams, for every endpoint, price list and bound:   *)
(* requests may fail, time out and be restarted over, the file may be lost *)
(* or damaged, lists may change at any time.                               *)
(***************************************************************************)
EXTENDS ModelParams, FiniteSetTheorems, SequenceTheorems, WellFoundedInduction, TLAPS

-------------------------------------------------------------------------------
(* Finite sets, and the recursion over the subsets of a finite set that     *)
(* the folds of the community modules are.  Induction goes by a minimal     *)
(* counterexample, a set, so no operator is a parameter.                    *)

LEMMA MaxOfTwo ==
    ASSUME NEW a \in Int, NEW b \in Int
    PROVE  Max({a, b}) = IF a >= b THEN a ELSE b
<1>1. \E x \in {a, b} : \A y \in {a, b} : x >= y
  OBVIOUS
<1>2. Max({a, b}) \in {a, b} /\ \A y \in {a, b} : Max({a, b}) >= y
  BY <1>1 DEF Max
<1>3. QED BY <1>2

LEMMA MinOfTwo ==
    ASSUME NEW a \in Int, NEW b \in Int
    PROVE  Min({a, b}) = IF a <= b THEN a ELSE b
<1>1. \E x \in {a, b} : \A y \in {a, b} : x <= y
  OBVIOUS
<1>2. Min({a, b}) \in {a, b} /\ \A y \in {a, b} : Min({a, b}) <= y
  BY <1>1 DEF Min
<1>3. QED BY <1>2

\* A set of subsets of a finite set has a minimal element.
LEMMA MinimalSubset ==
    ASSUME NEW S, IsFiniteSet(S), NEW T \in SUBSET SUBSET S, T # {}
    PROVE  \E x \in T : \A y \in T : y \subseteq x => y = x
<1>1. FiniteSubsetsOf(S) = SUBSET S
  BY FS_FiniteSubsetsOfFinite
<1>2. IsWellFoundedOn(StrictSubsetOrdering(S), SUBSET S)
  BY <1>1, FS_StrictSubsetOrderingWellFounded
<1>3. PICK x \in T : \A y \in T : ~(<<y, x>> \in StrictSubsetOrdering(S))
  BY <1>2, WFMin
<1>4. QED BY <1>3 DEF StrictSubsetOrdering

\* A set of naturals has a least element.
LEMMA LeastNatural ==
    ASSUME NEW S \in SUBSET Nat, S # {}
    PROVE  \E x \in S : \A y \in S : x <= y
<1>1. PICK n \in S : TRUE
  OBVIOUS
<1> DEFINE upTo == 1..n
           T == {1..x : x \in {y \in S : y <= n}}
<1>2. T \in SUBSET SUBSET upTo /\ T # {}
  BY <1>1
<1>3. IsFiniteSet(upTo)
  BY <1>1, FS_Interval
<1>4. PICK t \in T : \A u \in T : u \subseteq t => u = t
  <2> HIDE DEF T, upTo
  <2>1. QED BY <1>2, <1>3, MinimalSubset
<1>5. PICK x \in S : x <= n /\ t = 1..x
  BY <1>4
<1>6. ASSUME NEW y \in S, ~(x <= y) PROVE FALSE
  <2>1. y < x /\ y <= n /\ y \in Nat /\ x \in Nat
    BY <1>1, <1>5, <1>6
  <2>2. 1..y \in T /\ 1..y \subseteq t
    BY <1>5, <2>1
  <2>3. x \in 1..x /\ x \notin 1..y
    BY <2>1
  <2>4. QED BY <1>4, <1>5, <2>2, <2>3
<1>7. QED BY <1>6

\* pick chooses from every nonempty subset, and g recurs by it.
Picks(S, pick) == \A s \in SUBSET S : s # {} => pick[s] \in s

Follows(S, base, pick, step, g) ==
    \A s \in SUBSET S : g[s] = IF s = {} THEN base ELSE step[<<pick[s], g[s \ {pick[s]}]>>]

\* Two functions that follow the same recursion agree.
LEMMA RecursionIsUnique ==
    ASSUME NEW S, IsFiniteSet(S), NEW base, NEW pick, NEW step, Picks(S, pick),
           NEW g, Follows(S, base, pick, step, g), NEW h, Follows(S, base, pick, step, h)
    PROVE  \A s \in SUBSET S : g[s] = h[s]
<1> DEFINE T == {s \in SUBSET S : g[s] # h[s]}
<1>1. SUFFICES ASSUME T # {} PROVE FALSE
  OBVIOUS
<1>2. T \in SUBSET SUBSET S
  OBVIOUS
<1>3. PICK s \in T : \A r \in T : r \subseteq s => r = s
  <2> HIDE DEF T
  <2>1. QED BY <1>1, <1>2, MinimalSubset
<1>4. s \in SUBSET S /\ g[s] # h[s]
  BY <1>3
<1>5. s # {} /\ pick[s] \in s
  BY <1>4 DEF Picks, Follows
<1>6. s \ {pick[s]} \notin T /\ s \ {pick[s]} \in SUBSET S
  BY <1>3, <1>4, <1>5
<1>7. g[s \ {pick[s]}] = h[s \ {pick[s]}]
  BY <1>6
<1>8. QED BY <1>4, <1>5, <1>7 DEF Follows

\* There is one that does.
LEMMA Recursion ==
    ASSUME NEW S, IsFiniteSet(S), NEW V, NEW base \in V, NEW pick, NEW step \in [S \X V -> V],
           Picks(S, pick)
    PROVE  \E g \in [SUBSET S -> V] : Follows(S, base, pick, step, g)
<1> DEFINE Solves(t, h) == Follows(t, base, pick, step, h)
           T == {t \in SUBSET S : ~\E h \in [SUBSET t -> V] : Solves(t, h)}
<1>1. SUFFICES ASSUME T # {} PROVE FALSE
  OBVIOUS
<1>2. T \in SUBSET SUBSET S
  OBVIOUS
<1>3. PICK t \in T : \A r \in T : r \subseteq t => r = t
  <2> HIDE DEF T
  <2>1. QED BY <1>1, <1>2, MinimalSubset
<1>4. t \in SUBSET S /\ ~\E h \in [SUBSET t -> V] : Solves(t, h)
  BY <1>3
<1> DEFINE Sol(r) == CHOOSE h \in [SUBSET r -> V] : Solves(r, h)
<1>5. ASSUME NEW r \in SUBSET t, r # t
      PROVE  Sol(r) \in [SUBSET r -> V] /\ Solves(r, Sol(r))
  <2>1. \E h \in [SUBSET r -> V] : Solves(r, h)
    BY <1>3, <1>4, <1>5
  <2> HIDE DEF Solves
  <2>2. QED BY <2>1
<1> HIDE DEF T
\* Below t the solutions of the subsets make one.
<1>6. ASSUME NEW r \in SUBSET t, r # t, r # {}
      PROVE  Sol(r)[r] = step[<<pick[r], Sol(r \ {pick[r]})[r \ {pick[r]}]>>]
  <2> DEFINE q == r \ {pick[r]}
  <2>1. pick[r] \in r /\ q \in SUBSET t /\ q # t /\ q \in SUBSET r /\ IsFiniteSet(q)
    <3>1. pick[r] \in r /\ q \in SUBSET t /\ q # t /\ q \in SUBSET r /\ q \in SUBSET S
      BY <1>4, <1>6 DEF Picks
    <3>2. QED BY <3>1, FS_Subset
  <2>2. Solves(r, Sol(r)) /\ Solves(q, Sol(q))
    BY <1>5, <1>6, <2>1
  <2> HIDE DEF q, Sol
  <2>3. Solves(q, Sol(r))
    BY <2>1, <2>2 DEF Follows
  <2>4. Picks(q, pick)
    BY <1>4, <2>1 DEF Picks
  <2>5. Sol(r)[q] = Sol(q)[q]
    <3>1. q \in SUBSET q
      OBVIOUS
    <3>2. QED BY <2>1, <2>2, <2>3, <2>4, <3>1, RecursionIsUnique
  <2>6. Sol(r)[r] = step[<<pick[r], Sol(r)[q]>>]
    BY <1>6, <2>2 DEF q, Follows
  <2>7. QED BY <2>5, <2>6 DEF q
<1>7. ASSUME NEW r \in SUBSET t, r # t
      PROVE  Sol(r)[r] \in V /\ (r = {} => Sol(r)[r] = base)
  <2>1. Sol(r) \in [SUBSET r -> V] /\ Solves(r, Sol(r)) /\ r \in SUBSET r
    BY <1>5, <1>7
  <2> HIDE DEF Sol
  <2>2. QED BY <2>1 DEF Follows
<1> HIDE DEF Sol
<1> DEFINE top == IF t = {} THEN base ELSE step[<<pick[t], Sol(t \ {pick[t]})[t \ {pick[t]}]>>]
           H == [s \in SUBSET t |-> IF s = t THEN top ELSE Sol(s)[s]]
<1>8. top \in V
  <2>1. CASE t = {}
    BY <2>1
  <2>2. CASE t # {}
    <3>1. pick[t] \in t /\ pick[t] \in S
      BY <1>4, <2>2 DEF Picks
    <3>2. t \ {pick[t]} \in SUBSET t /\ t \ {pick[t]} # t
      BY <3>1
    <3>3. Sol(t \ {pick[t]})[t \ {pick[t]}] \in V
      BY <1>7, <3>2
    <3>4. QED BY <2>2, <3>1, <3>3
  <2>3. QED BY <2>1, <2>2
<1>9. H \in [SUBSET t -> V]
  <2> HIDE DEF top
  <2>1. QED BY <1>7, <1>8
<1>10. Solves(t, H)
  <2> SUFFICES ASSUME NEW s \in SUBSET t
               PROVE  H[s] = IF s = {} THEN base ELSE step[<<pick[s], H[s \ {pick[s]}]>>]
    BY DEF Follows
  <2>1. CASE s = {}
    BY <1>7, <2>1
  <2>2. CASE s # {}
    <3>1. pick[s] \in s
      BY <1>4, <2>2 DEF Picks
    <3>2. s \ {pick[s]} \in SUBSET t /\ s \ {pick[s]} # t
      BY <3>1
    <3>3. H[s \ {pick[s]}] = Sol(s \ {pick[s]})[s \ {pick[s]}]
      BY <3>2
    <3>4. CASE s = t
      BY <2>2, <3>3, <3>4
    <3>5. CASE s # t
      BY <1>6, <2>2, <3>3, <3>5
    <3>6. QED BY <3>4, <3>5
  <2>3. QED BY <2>1, <2>2
<1>11. QED
  <2> HIDE DEF H, Solves
  <2>1. QED BY <1>4, <1>9, <1>10

LEMMA MaxOfIndices ==
    ASSUME NEW n \in Nat, NEW s \in SUBSET (1..n), s # {}
    PROVE  Max(s) \in s /\ \A x \in s : x <= Max(s)
<1> DEFINE T == {n - x : x \in s}
<1>1. T \in SUBSET Nat /\ T # {}
  <2>1. \A x \in s : n - x \in Nat
    OBVIOUS
  <2>2. PICK x \in s : TRUE
    OBVIOUS
  <2>3. n - x \in T
    OBVIOUS
  <2>4. QED BY <2>1, <2>3
<1>2. PICK t \in T : \A u \in T : t <= u
  <2> HIDE DEF T
  <2>1. QED BY <1>1, LeastNatural
<1>3. PICK m \in s : t = n - m
  BY <1>2
<1>4. \A x \in s : m >= x
  <2> SUFFICES ASSUME NEW x \in s PROVE m >= x
    OBVIOUS
  <2>1. n - x \in T
    OBVIOUS
  <2>2. n - m <= n - x
    BY <1>2, <1>3, <2>1
  <2>3. QED BY <2>2
<1>5. \E x \in s : \A y \in s : x >= y
  BY <1>4
<1>6. Max(s) \in s /\ \A y \in s : Max(s) >= y
  BY <1>5 DEF Max
<1>7. QED BY <1>6

LEMMA MaxOfInterval ==
    ASSUME NEW n \in Nat \ {0} PROVE Max(1..n) = n /\ (1..n) \ {n} = 1..(n - 1)
<1>1. 1..n \in SUBSET (1..n) /\ n \in 1..n
  OBVIOUS
<1>2. Max(1..n) \in 1..n /\ \A x \in 1..n : x <= Max(1..n)
  BY <1>1, MaxOfIndices
<1>3. QED
  <2> HIDE DEF Max
  <2>1. Max(1..n) = n
    BY <1>1, <1>2
  <2>2. (1..n) \ {n} = 1..(n - 1)
    OBVIOUS
  <2>3. QED BY <2>1, <2>2

\* A loop over n indices: base before the first, step at each.
Loops(n, base, step, g) ==
    \A s \in SUBSET (1..n) :
        g[s] = IF s = {} THEN base ELSE step[<<Max(s), g[s \ {Max(s)}]>>]

LEMMA IndexRecursion ==
    ASSUME NEW n \in Nat, NEW V, NEW base \in V, NEW step \in [(1..n) \X V -> V]
    PROVE  \E g \in [SUBSET (1..n) -> V] : Loops(n, base, step, g)
<1> DEFINE S == 1..n
           pick == [s \in SUBSET S |-> Max(s)]
<1>1. Picks(S, pick)
  BY MaxOfIndices DEF Picks
<1>2. IsFiniteSet(S)
  BY FS_Interval
<1>3. PICK g \in [SUBSET S -> V] : Follows(S, base, pick, step, g)
  <2> HIDE DEF S, pick
  <2>1. step \in [S \X V -> V]
    BY DEF S
  <2>2. QED BY <1>1, <1>2, <2>1, Recursion
<1>4. Loops(n, base, step, g)
  BY <1>3 DEF Follows, Loops
<1>5. QED
  <2> HIDE DEF pick
  <2>1. QED BY <1>3, <1>4

-------------------------------------------------------------------------------
(* Options *)

LEMMA OptionTypes ==
    MaxAge \in Nat /\ Retry \in Nat /\ Timeout \in Nat /\ Timeout >= 1 /\ MaxModels \in Nat
BY DEF MaxAge, Retry, Timeout, MaxModels, EnvInt

-------------------------------------------------------------------------------
(* Cache lifetimes *)

\* Every profile of the table in use has two positive lifetimes.
Lasting(profiles) ==
    \A i \in 1..Len(profiles) :
        profiles[i].short \in Nat \ {0} /\ profiles[i].long \in Nat \ {0}

LEMMA InitLasts == Len(DefaultProfiles) \in Nat
BY DEF DefaultProfiles

LEMMA DefaultLasts == Lasting(DefaultProfiles)
BY DEF Lasting, DefaultProfiles

\* A table is parsed into lasting profiles, whatever was serialized.
LEMMA ParsedLasts ==
    ASSUME NEW table \in TtlTables
    PROVE  Len(TtlProfiles(table)) \in Nat /\ Lasting(TtlProfiles(table))
<1>1. CASE table.unset \/ \E i \in DOMAIN table.entries : ~WellFormed(table.entries[i])
  BY <1>1, DefaultLasts, InitLasts DEF TtlProfiles
<1>2. CASE ~(table.unset \/ \E i \in DOMAIN table.entries : ~WellFormed(table.entries[i]))
  <2> DEFINE parsed == [i \in DOMAIN table.entries |-> Profile(table.entries[i])]
  <2>1. TtlProfiles(table) = parsed
    BY <1>2 DEF TtlProfiles
  <2>2. table.entries \in Seq([matches : SUBSET STRING, lifetimes : Seq(Int)])
    BY ModelParamsAssumption
  <2>3. Len(parsed) = Len(table.entries) /\ DOMAIN table.entries = 1..Len(table.entries)
    BY <2>2
  <2>4. ASSUME NEW i \in 1..Len(table.entries)
        PROVE  parsed[i].short \in Nat \ {0} /\ parsed[i].long \in Nat \ {0}
    <3> DEFINE times == table.entries[i].lifetimes
    <3>0. i \in DOMAIN table.entries
      BY <2>3
    <3>1. times \in Seq(Int) /\ WellFormed(table.entries[i])
      <4>1. WellFormed(table.entries[i])
        BY <1>2, <3>0
      <4>2. table.entries[i] \in [matches : SUBSET STRING, lifetimes : Seq(Int)]
        BY <2>2, <3>0, ElementOfSeq, <2>3
      <4>3. QED BY <4>1, <4>2
    <3>2. Len(times) \in 1..2 /\ \A j \in DOMAIN times : times[j] > 0
      BY <3>1 DEF WellFormed
    <3>3. 1 \in DOMAIN times /\ Len(times) \in DOMAIN times
      <4> HIDE DEF times
      <4>1. Len(times) \in Nat /\ DOMAIN times = 1..Len(times)
        BY <3>1, LenProperties
      <4>2. QED BY <3>2, <4>1
    <3>4. Head(times) = times[1] /\ Last(times) = times[Len(times)]
      BY <3>1, <3>2 DEF Last
    <3>5. parsed[i].short = times[1] /\ parsed[i].long = times[Len(times)]
      BY <2>3, <3>4 DEF Profile
    <3>6. times[1] \in Int /\ times[Len(times)] \in Int
      BY <3>1, <3>3
    <3>7. QED BY <3>2, <3>3, <3>5, <3>6
  <2>5. Len(parsed) \in Nat
    BY <2>2, <2>3, LenProperties
  <2>6. Lasting(parsed)
    BY <2>3, <2>4 DEF Lasting
  <2>7. QED BY <2>1, <2>5, <2>6
<1>3. QED BY <1>1, <1>2

LEMMA LastingIsPositive ==
    ASSUME NEW profiles, Len(profiles) \in Nat, Lasting(profiles),
           NEW model, NEW long \in BOOLEAN, NEW tier \in {0, 3}
    PROVE  CacheTtl(profiles, tier, model, long, 1) > 0
<1> DEFINE matching == {i \in 1..Len(profiles) : model \in profiles[i].matches}
           first == SelectInSeq(profiles, LAMBDA p : model \in p.matches)
<1>1. first = IF matching # {} THEN Min(matching) ELSE 0
  BY DEF SelectInSeq
<1>2. first = 0 \/ first \in 1..Len(profiles)
  <2>1. CASE matching # {}
    <3>1. matching \in SUBSET Nat /\ matching # {}
      BY <2>1
    <3>2. \E x \in matching : \A y \in matching : x <= y
      BY <3>1, LeastNatural
    <3>3. Min(matching) \in matching
      BY <3>2 DEF Min
    <3>4. QED BY <1>1, <2>1, <3>3
  <2>2. QED BY <1>1, <2>1
<1>3. SecondsFor(profiles, model, long) \in Nat
  BY <1>2 DEF SecondsFor, Lasting
<1>4. QED BY <1>3 DEF CacheTtl


-------------------------------------------------------------------------------
(* Snapshots *)

AllLists == UNION {Lists(u) : u \in Urls}
IsSnapshot(s) ==
    /\ s = [ok |-> s.ok, age |-> s.age, source |-> s.source, models |-> s.models,
            bad |-> s.bad, current |-> s.current]
    /\ s.ok \in BOOLEAN /\ s.age \in 0..MaxAge /\ s.source \in Urls \cup {NoUrl}
    /\ s.current \in BOOLEAN

LEMMA NothingTyped == IsSnapshot(Nothing) /\ ~Nothing.ok
BY OptionTypes DEF Nothing, IsSnapshot

\* A snapshot read back holds some of the models of the file, and if it is current all
\* that the file says of them.
LEMMA LoadsTyped ==
    ASSUME NEW d, IsSnapshot(d), NEW loaded \in Loads(d)
    PROVE  /\ IsSnapshot(loaded) /\ loaded.ok = d.ok /\ loaded.source = d.source
           /\ DOMAIN loaded.models \subseteq DOMAIN d.models
           /\ loaded.current => d.current
           /\ loaded.current => \A m \in DOMAIN loaded.models : loaded.models[m] = d.models[m]
<1>1. PICK ms \in SUBSET (DOMAIN d.models) :
        loaded = [d EXCEPT !.models = [m \in ms |-> Salvaged(d, m)], !.bad = {},
                           !.current = d.current /\ \A m \in ms : Whole(d, m)]
  BY DEF Loads, kSubset
<1>2. PICK kept : kept = [m \in ms |-> Salvaged(d, m)]
  OBVIOUS
<1>10. PICK whole \in BOOLEAN : whole = (d.current /\ \A m \in ms : Whole(d, m))
  <2>1. (d.current /\ \A m \in ms : Whole(d, m)) \in BOOLEAN
    OBVIOUS
  <2>2. QED BY <2>1
<1>3. loaded = [d EXCEPT !.models = kept, !.bad = {}, !.current = whole]
  BY <1>1, <1>2, <1>10
<1>4. loaded = [ok |-> d.ok, age |-> d.age, source |-> d.source, models |-> kept,
                bad |-> {}, current |-> whole]
  BY <1>3 DEF IsSnapshot
<1>5. /\ loaded.ok = d.ok /\ loaded.source = d.source /\ loaded.age = d.age
      /\ loaded.models = kept /\ loaded.bad = {} /\ loaded.current = whole
  BY <1>4
<1>6. IsSnapshot(loaded)
  BY <1>4, <1>5 DEF IsSnapshot
<1>7. DOMAIN kept = ms /\ \A m \in ms : Whole(d, m) => kept[m] = d.models[m]
  BY <1>2 DEF Salvaged
<1>8. whole => d.current /\ \A m \in ms : Whole(d, m)
  BY <1>10
<1>9. QED BY <1>5, <1>6, <1>7, <1>8

LEMMA OlderTyped ==
    ASSUME NEW s, IsSnapshot(s)
    PROVE  /\ IsSnapshot(Older(s))
           /\ Older(s).ok = s.ok /\ Older(s).source = s.source
           /\ Older(s).models = s.models /\ Older(s).current = s.current
<1>1. s.age \in 0..MaxAge /\ MaxAge \in Nat
  BY OptionTypes DEF IsSnapshot
<1>2. (IF s.ok THEN Min({s.age + 1, MaxAge}) ELSE 0) \in 0..MaxAge
  <2>1. Min({s.age + 1, MaxAge}) = IF s.age + 1 <= MaxAge THEN s.age + 1 ELSE MaxAge
    BY <1>1, MinOfTwo
  <2>2. QED BY <1>1, <2>1
<1>3. QED BY <1>2 DEF Older, IsSnapshot

-------------------------------------------------------------------------------
(* The invariant *)

Longest == Max({Timeout, Latency})

\* What a snapshot says of where it comes from: while that endpoint publishes the
\* list it was parsed from, its entries are that list's.
Published(s) ==
    s.ok => /\ s.source \in Urls
            /\ s.current => \A m \in DOMAIN s.models :
                    /\ m \in Priced(list[s.source])
                    /\ s.models[m] = ParseSnapshot(list[s.source])[m]

Shapes ==
    /\ url \in Urls \cup {NoUrl}
    /\ IsSnapshot(snapshot) /\ IsSnapshot(disk)
    /\ list \in [Urls -> AllLists] /\ \A u \in Urls : list[u] \in Lists(u)
    /\ healthy \in BOOLEAN
    /\ flight \subseteq 0..Longest /\ inFlight \in BOOLEAN
    /\ attempt \in 0..Retry
    /\ Len(ttl) \in Nat /\ Lasting(ttl)
    /\ answered \subseteq Models
    /\ restarts \in 0..RestartLimit

\* No request, no answered question and no snapshot without an endpoint.
InUse ==
    /\ flight # {} \/ answered # {} => url \in Urls
    /\ snapshot.ok => snapshot.source = url

OneFlight == (flight = {} /\ ~inFlight) \/ (inFlight /\ \E f \in flight : flight = {f})

ParamsInv ==
    Shapes /\ InUse /\ OneFlight /\ Published(snapshot) /\ Published(disk)

LEMMA LongestIsMax == Longest \in Nat /\ Timeout <= Longest /\ Latency <= Longest
<1>1. Timeout \in Int /\ Latency \in Int /\ Timeout \in Nat /\ Latency \in Nat
  BY OptionTypes, ModelParamsAssumption
<1>2. QED BY <1>1, MaxOfTwo DEF Longest

LEMMA ParamsInvTypes == ParamsInv => TypeOK
<1> SUFFICES ASSUME ParamsInv PROVE TypeOK
  OBVIOUS
<1>1. LifetimesPositive
  BY LastingIsPositive DEF ParamsInv, Shapes, LifetimesPositive
<1>2. snapshot.age \in 0..MaxAge /\ disk.age \in 0..MaxAge
  BY DEF ParamsInv, Shapes, IsSnapshot
<1>3. QED BY <1>1, <1>2 DEF TypeOK, ParamsInv, Shapes, InUse, Published, Longest

LEMMA ParamsInvOne == ParamsInv => SingleFlight
<1> SUFFICES ASSUME ParamsInv PROVE SingleFlight
  OBVIOUS
<1>1. CASE flight = {} /\ ~inFlight
  BY <1>1, FS_EmptySet DEF SingleFlight
<1>2. ASSUME inFlight, NEW f \in flight, flight = {f} PROVE SingleFlight
  <2>1. Cardinality({f}) = 1
    BY FS_Singleton
  <2>2. Cardinality(flight) = 1 /\ flight # {}
    BY <1>2, <2>1
  <2>3. QED BY <1>2, <2>2 DEF SingleFlight
<1>3. QED BY <1>1, <1>2 DEF ParamsInv, OneFlight

LEMMA ParamsInit == Init => ParamsInv
<1> SUFFICES ASSUME Init PROVE ParamsInv
  OBVIOUS
<1>1. list \in [Urls -> AllLists] /\ \A u \in Urls : list[u] \in Lists(u)
  BY DEF Init, AllLists
<1>2. Len(ttl) \in Nat /\ Lasting(ttl)
  BY DefaultLasts, InitLasts DEF Init
<1>3. attempt \in 0..Retry /\ restarts \in 0..RestartLimit
  BY OptionTypes, ModelParamsAssumption DEF Init
<1>4. Shapes
  BY <1>1, <1>2, <1>3, NothingTyped DEF Init, Shapes
<1>5. QED BY <1>4, NothingTyped DEF Init, ParamsInv, InUse, OneFlight, Published

\* A request starts only when none is out.
LEMMA RefreshEffect ==
    ASSUME ParamsInv, Refresh
    PROVE  flight' \subseteq 0..Longest /\ inFlight' \in BOOLEAN /\ OneFlight' /\ flight' # {}
<1>1. CASE inFlight
  BY <1>1 DEF Refresh, ParamsInv, Shapes, OneFlight
<1>2. CASE ~inFlight
  <2>1. flight' = {0} /\ inFlight'
    BY <1>2 DEF Refresh, ParamsInv, OneFlight
  <2>2. QED BY <2>1, LongestIsMax DEF OneFlight
<1>3. QED BY <1>1, <1>2

LEMMA SettleEffect ==
    ASSUME ParamsInv, NEW f \in flight, Settle(f)
    PROVE  flight' = {} /\ ~inFlight' /\ inFlight' \in BOOLEAN
BY DEF ParamsInv, OneFlight, Settle

\* A new process takes over the file's snapshot if it is its endpoint's.
LEMMA BootEffect ==
    ASSUME ParamsInv, NEW u \in Urls \cup {NoUrl}, NEW loaded \in Loads(disk),
           NEW table \in TtlTables, Boot(u, loaded, table), UNCHANGED <<disk, list, healthy>>,
           restarts' \in 0..RestartLimit
    PROVE  ParamsInv'
<1>1. /\ IsSnapshot(loaded) /\ loaded.ok = disk.ok /\ loaded.source = disk.source
      /\ DOMAIN loaded.models \subseteq DOMAIN disk.models
      /\ loaded.current => disk.current
      /\ loaded.current => \A m \in DOMAIN loaded.models : loaded.models[m] = disk.models[m]
  BY LoadsTyped DEF ParamsInv, Shapes
<1>2. \/ snapshot' = loaded /\ u # NoUrl /\ loaded.source = u
      \/ snapshot' = Nothing
  BY DEF Boot, Adopt
<1>3. IsSnapshot(snapshot') /\ (snapshot'.ok => snapshot'.source = u)
  BY <1>1, <1>2, NothingTyped
<1>4. /\ url' = u /\ flight' = {} /\ inFlight' = FALSE /\ attempt' = Retry /\ answered' = {}
      /\ Len(ttl') \in Nat /\ Lasting(ttl')
  BY ParsedLasts DEF Boot
<1>5. Shapes'
  <2>1. Retry \in 0..Retry
    BY OptionTypes
  <2>2. UNCHANGED <<disk, list, healthy>> /\ Shapes
    BY DEF ParamsInv
  <2>3. QED BY <1>3, <1>4, <2>1, <2>2 DEF Shapes
<1>6. InUse' /\ OneFlight'
  BY <1>3, <1>4 DEF InUse, OneFlight
<1>7. Published(disk)'
  BY DEF ParamsInv, Published
<1>8. Published(snapshot)'
  BY <1>1, <1>2, NothingTyped DEF ParamsInv, Published
<1>9. QED BY <1>5, <1>6, <1>7, <1>8 DEF ParamsInv

\* An answer replaces the snapshot by the parsed list of the endpoint in use.
LEMMA AnswerEffect ==
    ASSUME ParamsInv, NEW f \in flight, Answer(f)
    PROVE  /\ ParamsInv'
           /\ \/ snapshot' = snapshot
              \/ /\ snapshot'.ok /\ DOMAIN snapshot'.models = Priced(list[url])
                 /\ Priced(list[url]) # {} /\ list[url] \in Lists(url)
<1> DEFINE new == [ok |-> TRUE, age |-> 0, source |-> url,
                   models |-> ParseSnapshot(list[url]), bad |-> {}, current |-> TRUE]
<1>1. url \in Urls /\ list[url] \in AllLists /\ list[url] \in Lists(url)
  BY DEF ParamsInv, InUse, Shapes
<1>2. DOMAIN ParseSnapshot(list[url]) = Priced(list[url])
  BY DEF ParseSnapshot
<1>3. /\ IsSnapshot(new) /\ new.ok /\ new.source = url
      /\ DOMAIN new.models = Priced(list[url]) /\ new.models = ParseSnapshot(list[url])
  BY <1>1, <1>2, OptionTypes DEF IsSnapshot
<1> HIDE DEF new
<1>4. \/ snapshot' = snapshot /\ disk' = disk
      \/ Priced(list[url]) # {} /\ snapshot' = new /\ disk' \in {new, disk}
  BY DEF Answer, new
<1>5. flight' = {} /\ ~inFlight' /\ inFlight' \in BOOLEAN
  BY SettleEffect DEF Answer
<1>6. UNCHANGED <<url, attempt, list, healthy, ttl, answered, restarts>>
  BY DEF Answer
<1>7. Shapes'
  BY <1>3, <1>4, <1>5, <1>6 DEF ParamsInv, Shapes
<1>8. InUse' /\ OneFlight'
  BY <1>1, <1>3, <1>4, <1>5, <1>6 DEF ParamsInv, InUse, OneFlight
<1>9. ASSUME NEW s \in {snapshot, disk, new} PROVE Published(s)'
  BY <1>1, <1>3, <1>6 DEF ParamsInv, Published
<1>10. Published(snapshot)' /\ Published(disk)'
  <2>1. snapshot' \in {snapshot, disk, new} /\ disk' \in {snapshot, disk, new}
    BY <1>4
  <2>2. CASE snapshot' = snapshot
    BY <1>6, <2>2, <1>4 DEF ParamsInv, Published
  <2>3. CASE snapshot' = new
    BY <1>1, <1>3, <1>4, <1>6, <2>3 DEF ParamsInv, Published
  <2>4. QED BY <1>4, <2>2, <2>3
<1>11. ParamsInv'
  BY <1>7, <1>8, <1>10 DEF ParamsInv
<1>12. QED BY <1>1, <1>3, <1>4, <1>11

LEMMA TickEffect ==
    ASSUME ParamsInv, Tick
    PROVE  /\ ParamsInv'
           /\ snapshot'.ok = snapshot.ok /\ snapshot'.models = snapshot.models
<1>1. /\ snapshot' = Older(snapshot) /\ disk' = Older(disk)
      /\ UNCHANGED <<url, inFlight, list, healthy, ttl, answered, restarts>>
  BY DEF Tick
<1>2. /\ IsSnapshot(snapshot') /\ IsSnapshot(disk')
      /\ snapshot'.ok = snapshot.ok /\ snapshot'.source = snapshot.source
      /\ snapshot'.models = snapshot.models /\ snapshot'.current = snapshot.current
      /\ disk'.ok = disk.ok /\ disk'.source = disk.source
      /\ disk'.models = disk.models /\ disk'.current = disk.current
  BY <1>1, OlderTyped DEF ParamsInv, Shapes
<1>3. flight' \subseteq 0..Longest
  <2>1. \A f \in flight : f \in 0..Longest /\ f + 1 \in 0..Longest
    <3>1. Longest \in Nat /\ Timeout <= Longest /\ Timeout \in Nat
      BY LongestIsMax, OptionTypes
    <3>2. \A f \in flight : f < Timeout /\ f \in 0..Longest
      BY DEF Tick, ParamsInv, Shapes
    <3> HIDE DEF Longest, Timeout
    <3>3. QED BY <3>1, <3>2
  <2>2. flight' = {f + 1 : f \in flight}
    BY DEF Tick
  <2>3. QED BY <2>1, <2>2
<1>4. attempt' \in 0..Retry
  <2>1. attempt + 1 \in Int /\ Retry \in Int /\ attempt \in 0..Retry /\ Retry \in Nat
    BY OptionTypes DEF ParamsInv, Shapes
  <2>2. Min({attempt + 1, Retry}) = IF attempt + 1 <= Retry THEN attempt + 1 ELSE Retry
    BY <2>1, MinOfTwo
  <2>3. QED BY <2>1, <2>2 DEF Tick
<1>5. OneFlight'
  <2>1. flight' = {f + 1 : f \in flight}
    BY DEF Tick
  <2>2. QED BY <1>1, <2>1 DEF ParamsInv, OneFlight
<1>6. Shapes'
  BY <1>1, <1>2, <1>3, <1>4 DEF ParamsInv, Shapes
<1>7. InUse'
  <2>1. flight' # {} => flight # {}
    BY DEF Tick
  <2>2. QED BY <1>1, <1>2, <2>1 DEF ParamsInv, InUse
<1>8. Published(snapshot)' /\ Published(disk)'
  BY <1>1, <1>2 DEF ParamsInv, Published
<1>9. QED BY <1>2, <1>5, <1>6, <1>7, <1>8 DEF ParamsInv

\* A list that changes makes the snapshots parsed from its predecessor outdated.
LEMMA PublishEffect ==
    ASSUME ParamsInv, Publish
    PROVE  /\ ParamsInv'
           /\ snapshot'.ok = snapshot.ok /\ snapshot'.models = snapshot.models
<1>0. PICK u \in Urls : \E l \in Lists(u) :
        /\ list' = [list EXCEPT ![u] = l]
        /\ snapshot' = [snapshot EXCEPT !.current = snapshot.current /\ snapshot.source # u]
        /\ disk' = [disk EXCEPT !.current = disk.current /\ disk.source # u]
  BY DEF Publish
<1>1. PICK l \in Lists(u) :
        /\ list' = [list EXCEPT ![u] = l]
        /\ snapshot' = [snapshot EXCEPT !.current = snapshot.current /\ snapshot.source # u]
        /\ disk' = [disk EXCEPT !.current = disk.current /\ disk.source # u]
  BY <1>0
<1>2. UNCHANGED <<url, flight, inFlight, attempt, healthy, ttl, answered, restarts>>
  BY DEF Publish
<1>3. /\ list' \in [Urls -> AllLists] /\ \A v \in Urls : list'[v] \in Lists(v)
      /\ \A v \in Urls \ {u} : list'[v] = list[v]
  <2>1. l \in AllLists
    BY DEF AllLists
  <2>2. QED BY <1>1, <2>1 DEF ParamsInv, Shapes
<1>4. ASSUME NEW s, IsSnapshot(s), Published(s), NEW t,
             t = [s EXCEPT !.current = s.current /\ s.source # u]
      PROVE  /\ IsSnapshot(t) /\ t.ok = s.ok /\ t.source = s.source /\ t.models = s.models
             /\ t.current = (s.current /\ s.source # u)
  BY <1>4 DEF IsSnapshot
<1>5. /\ IsSnapshot(snapshot') /\ IsSnapshot(disk')
      /\ snapshot'.ok = snapshot.ok /\ snapshot'.source = snapshot.source
      /\ snapshot'.models = snapshot.models
      /\ snapshot'.current = (snapshot.current /\ snapshot.source # u)
      /\ disk'.ok = disk.ok /\ disk'.source = disk.source /\ disk'.models = disk.models
      /\ disk'.current = (disk.current /\ disk.source # u)
  BY <1>1, <1>4 DEF ParamsInv, Shapes
<1>6. Shapes'
  BY <1>2, <1>3, <1>5 DEF ParamsInv, Shapes
<1>7. InUse' /\ OneFlight'
  BY <1>2, <1>5 DEF ParamsInv, InUse, OneFlight
<1>8. Published(snapshot)'
  <2>1. Published(snapshot)
    BY DEF ParamsInv
  <2>2. QED BY <1>3, <1>5, <2>1 DEF Published
<1>9. Published(disk)'
  <2>1. Published(disk)
    BY DEF ParamsInv
  <2>2. QED BY <1>3, <1>5, <2>1 DEF Published
<1>10. QED BY <1>5, <1>6, <1>7, <1>8, <1>9 DEF ParamsInv

LEMMA LoseDiskEffect ==
    ASSUME ParamsInv, LoseDisk PROVE ParamsInv'
<1>1. UNCHANGED <<url, snapshot, flight, inFlight, attempt, list, healthy, ttl, answered, restarts>>
  BY DEF LoseDisk
<1>2. CASE disk' = Nothing
  BY <1>1, <1>2, NothingTyped DEF ParamsInv, Shapes, InUse, OneFlight, Published
<1>3. CASE \E b : disk' = [disk EXCEPT !.bad = {b}]
  <2>1. PICK b : disk' = [disk EXCEPT !.bad = {b}]
    BY <1>3
  <2>4. /\ IsSnapshot(disk') /\ disk'.ok = disk.ok /\ disk'.source = disk.source
        /\ disk'.models = disk.models /\ disk'.current = disk.current
    BY <2>1 DEF ParamsInv, Shapes, IsSnapshot
  <2>5. Shapes'
    BY <1>1, <2>4 DEF ParamsInv, Shapes
  <2>6. InUse' /\ OneFlight'
    BY <1>1 DEF ParamsInv, InUse, OneFlight
  <2>7. Published(snapshot)' /\ Published(disk)'
    BY <1>1, <2>4 DEF ParamsInv, Published
  <2>8. QED BY <2>5, <2>6, <2>7 DEF ParamsInv
<1>4. QED BY <1>2, <1>3 DEF LoseDisk

\* Whoever starts a request does so for an endpoint in use.
LEMMA AskEffect ==
    ASSUME ParamsInv, url # NoUrl,
           \/ Refresh /\ UNCHANGED attempt
           \/ attempt' = 0 /\ Refresh
           \/ UNCHANGED <<attempt, flight, inFlight>>,
           UNCHANGED <<url, snapshot, disk, list, healthy, ttl, restarts>>,
           answered' \subseteq Models
    PROVE  ParamsInv'
<1>1. url \in Urls /\ attempt' \in 0..Retry
  BY OptionTypes DEF ParamsInv, Shapes
<1>2. flight' \subseteq 0..Longest /\ inFlight' \in BOOLEAN /\ OneFlight'
  <2>1. CASE Refresh
    BY <2>1, RefreshEffect
  <2>2. CASE UNCHANGED <<attempt, flight, inFlight>>
    BY <2>2 DEF ParamsInv, Shapes, OneFlight
  <2>3. QED BY <2>1, <2>2
<1>3. Shapes'
  BY <1>1, <1>2 DEF ParamsInv, Shapes
<1>4. InUse'
  BY <1>1 DEF ParamsInv, InUse
<1>5. Published(snapshot)' /\ Published(disk)'
  BY DEF ParamsInv, Published
<1>6. QED BY <1>2, <1>3, <1>4, <1>5 DEF ParamsInv

LEMMA SessionStartEffect == ASSUME ParamsInv, SessionStart PROVE ParamsInv'
<1>1. url # NoUrl /\ Refresh
  BY DEF SessionStart, AppliesTo
<1>2. UNCHANGED <<url, snapshot, disk, attempt, list, healthy, ttl, answered, restarts>>
  BY DEF SessionStart
<1>3. answered' \subseteq Models
  BY <1>2 DEF ParamsInv, Shapes
<1>4. QED BY <1>1, <1>2, <1>3, AskEffect

LEMMA RatesForEffect == ASSUME ParamsInv, NEW m \in Models, RatesFor(m) PROVE ParamsInv'
<1>1. url # NoUrl
  BY DEF RatesFor, AppliesTo
<1>2. UNCHANGED <<url, snapshot, disk, list, healthy, ttl, restarts>>
  BY DEF RatesFor
<1>3. \/ attempt' = 0 /\ Refresh
      \/ UNCHANGED <<attempt, flight, inFlight>>
  BY DEF RatesFor, Ensure
<1>4. answered' \subseteq Models
  BY DEF RatesFor, ParamsInv, Shapes
<1>5. QED BY <1>1, <1>2, <1>3, <1>4, AskEffect

LEMMA FailEffect == ASSUME ParamsInv, NEW f \in flight, Fail(f) PROVE ParamsInv'
<1>1. flight' = {} /\ ~inFlight' /\ inFlight' \in BOOLEAN
  BY SettleEffect DEF Fail
<1>2. UNCHANGED <<url, snapshot, disk, attempt, list, healthy, ttl, answered, restarts>>
  BY DEF Fail
<1>3. Shapes'
  BY <1>1, <1>2 DEF ParamsInv, Shapes
<1>4. InUse' /\ OneFlight' /\ Published(snapshot)' /\ Published(disk)'
  BY <1>1, <1>2 DEF ParamsInv, InUse, OneFlight, Published
<1>5. QED BY <1>3, <1>4 DEF ParamsInv

LEMMA RestartEffect == ASSUME ParamsInv, Restart PROVE ParamsInv'
<1>1. PICK u \in Urls \cup {NoUrl}, loaded \in Loads(disk), table \in TtlTables :
        Boot(u, loaded, table)
  BY DEF Restart
<1>2. restarts' \in 0..RestartLimit
  <2>1. RestartLimit \in Nat
    BY ModelParamsAssumption
  <2>2. QED BY <2>1 DEF Restart, ParamsInv, Shapes
<1>3. UNCHANGED <<disk, list, healthy>>
  BY DEF Restart
<1>4. QED BY <1>1, <1>2, <1>3, BootEffect

LEMMA HealthEffect == ASSUME ParamsInv, Health PROVE ParamsInv'
BY DEF Health, ParamsInv, Shapes, InUse, OneFlight, Published

LEMMA ParamsStep == ParamsInv /\ [Next]_vars => ParamsInv'
<1> SUFFICES ASSUME ParamsInv, [Next]_vars PROVE ParamsInv'
  OBVIOUS
<1>1. ASSUME Outcome PROVE ParamsInv'
  BY <1>1, AnswerEffect, FailEffect DEF Outcome
<1>2. CASE UNCHANGED vars
  BY <1>2 DEF vars, ParamsInv, Shapes, InUse, OneFlight, Published
<1>3. QED
  BY <1>1, <1>2, RestartEffect, SessionStartEffect, TickEffect, PublishEffect, HealthEffect,
     LoseDiskEffect, RatesForEffect DEF Next

\* Every reachable state is well typed, memory never holds another endpoint's prices
\* and every cache lifetime is positive.
THEOREM TypeCorrect == Spec => []TypeOK
BY ParamsInit, ParamsStep, ParamsInvTypes, PTL DEF Spec

\* However session starts, questions, outcomes and restarts interleave, at most one
\* request is out, and a second caller can tell whether one is.
THEOREM OneRequest == Spec => []SingleFlight
BY ParamsInit, ParamsStep, ParamsInvOne, PTL DEF Spec

LEMMA KeptStep == ParamsInv /\ LastGoodKept /\ [Next]_vars => LastGoodKept'
<1> SUFFICES ASSUME ParamsInv, LastGoodKept, [Next]_vars,
                    NEW m \in answered',
                    \A l \in Lists(url') : Priced(l) = {} \/ m \in Priced(l)
             PROVE  Known(snapshot', m)
  BY DEF LastGoodKept
\* Steps that leave what was asked for and what is known alone.
<1>1. ASSUME url' = url, answered' = answered,
             snapshot'.ok = snapshot.ok, snapshot'.models = snapshot.models
      PROVE  Known(snapshot', m)
  BY <1>1 DEF LastGoodKept, Known
<1>2. ASSUME Restart PROVE Known(snapshot', m)
  BY <1>2 DEF Restart, Boot
<1>3. ASSUME NEW x \in Models, RatesFor(x) PROVE Known(snapshot', m)
  <2>1. url' = url /\ snapshot' = snapshot /\ (m \in answered \/ Known(snapshot, m))
    BY <1>3 DEF RatesFor
  <2>2. QED BY <2>1 DEF LastGoodKept
<1>4. ASSUME NEW f \in flight, Answer(f) PROVE Known(snapshot', m)
  <2>1. url' = url /\ answered' = answered
    BY <1>4 DEF Answer
  <2>2. CASE snapshot' = snapshot
    BY <1>1, <2>1, <2>2
  <2>3. CASE /\ snapshot'.ok /\ DOMAIN snapshot'.models = Priced(list[url])
             /\ Priced(list[url]) # {} /\ list[url] \in Lists(url)
    BY <2>1, <2>3 DEF Known
  <2>4. QED BY <1>4, <2>2, <2>3, AnswerEffect
<1>5. ASSUME Tick \/ Publish PROVE Known(snapshot', m)
  <2>1. url' = url /\ answered' = answered
    BY <1>5 DEF Tick, Publish
  <2>2. QED BY <1>1, <1>5, <2>1, TickEffect, PublishEffect
<1>6. ASSUME SessionStart \/ Health \/ LoseDisk \/ (\E f \in flight : Fail(f)) \/ UNCHANGED vars
      PROVE  Known(snapshot', m)
  <2>1. url' = url /\ answered' = answered /\ snapshot' = snapshot
    BY <1>6 DEF SessionStart, Health, LoseDisk, Fail, vars
  <2>2. QED BY <1>1, <2>1
<1>7. QED BY <1>2, <1>3, <1>4, <1>5, <1>6 DEF Next, Outcome

\* Rates once given to a caller stay available to the process, up to its end, while
\* every list of the endpoint that has a price prices the model: no failure, timeout
\* or empty list takes them away.
THEOREM LastGood == Spec => []LastGoodKept
<1>1. Init => LastGoodKept
  BY DEF Init, LastGoodKept
<1>2. QED BY <1>1, ParamsInit, ParamsStep, KeptStep, PTL DEF Spec


-------------------------------------------------------------------------------
(* The tier a prompt falls in *)

Better(tokens, best, t) == IF tokens >= t.min /\ t.min > best.min THEN t ELSE best

\* What a scan of the tiers up to the i-th has found.
FoundBest(entry, tokens, i, best) ==
    LET over == entry.overrides
    IN  /\ \/ best = [min |-> 0, rates |-> entry.base]
           \/ \E j \in 1..i : best = over[j] /\ over[j].min <= tokens
        /\ \A j \in 1..i : over[j].min <= tokens => over[j].min <= best.min

Tiers(n, over) ==
    /\ n \in Nat /\ DOMAIN over = 1..n
    /\ \A j \in 1..n : over[j].min \in Nat \ {0}

LEMMA TierForScans ==
    ASSUME NEW entry, NEW n, Tiers(n, entry.overrides), NEW tokens \in Int
    PROVE  \E best : FoundBest(entry, tokens, n, best) /\ TierFor(entry, tokens) = best.rates
<1> DEFINE over == entry.overrides
           base == [min |-> 0, rates |-> entry.base]
           D == DOMAIN over
           Runs(g) == g = [s \in SUBSET D |-> IF s = {} THEN base
                             ELSE Better(tokens, g[s \ {Max(s)}], over[Max(s)])]
           G == CHOOSE g : Runs(g)
           V == {base} \cup {over[j] : j \in 1..n}
           step == [xv \in (1..n) \X V |-> Better(tokens, xv[2], over[xv[1]])]
<1>1. TierFor(entry, tokens) = G[D].rates
  BY DEF TierFor, FoldLeft, MapThenFoldSet, Better
<1>2. n \in Nat /\ D = 1..n /\ \A j \in 1..n : over[j].min \in Nat \ {0}
  BY DEF Tiers
<1>3. Runs(G)
  <2>1. base \in V /\ step \in [(1..n) \X V -> V]
    <3>1. ASSUME NEW x \in 1..n, NEW v \in V PROVE Better(tokens, v, over[x]) \in V
      BY DEF Better
    <3> HIDE DEF V
    <3>2. step \in [(1..n) \X V -> V]
      BY <3>1
    <3>3. QED BY <3>2 DEF V
  <2>2. PICK g \in [SUBSET (1..n) -> V] : Loops(n, base, step, g)
    <3> HIDE DEF V, step, base
    <3>1. QED BY <1>2, <2>1, IndexRecursion
  <2>3. ASSUME NEW s \in SUBSET (1..n), s # {}
        PROVE  step[<<Max(s), g[s \ {Max(s)}]>>] = Better(tokens, g[s \ {Max(s)}], over[Max(s)])
    <3>1. Max(s) \in s
      BY <1>2, <2>3, MaxOfIndices
    <3>2. Max(s) \in 1..n /\ s \ {Max(s)} \in SUBSET (1..n)
      BY <3>1
    <3> HIDE DEF V
    <3>3. g[s \ {Max(s)}] \in V
      BY <3>2
    <3>4. QED BY <3>2, <3>3
  <2>4. ASSUME NEW s \in SUBSET (1..n)
        PROVE  g[s] = IF s = {} THEN base ELSE Better(tokens, g[s \ {Max(s)}], over[Max(s)])
    <3> HIDE DEF step, V, base, over
    <3>1. QED BY <2>2, <2>3 DEF Loops
  <2>5. Runs(g)
    <3> HIDE DEF step, V, base, over
    <3>1. QED BY <1>2, <2>4
  <2> HIDE DEF Runs
  <2>6. QED BY <2>5
<1>4. G[1..0] = base
  <2>1. 1..0 = {} /\ {} \in SUBSET D
    OBVIOUS
  <2> HIDE DEF G, base, D
  <2>2. QED BY <1>3, <2>1
<1>5. ASSUME NEW i \in 1..n PROVE G[1..i] = Better(tokens, G[1..(i - 1)], over[i])
  <2>1. 1..i \in SUBSET D /\ 1..i # {} /\ Max(1..i) = i /\ (1..i) \ {i} = 1..(i - 1)
    <3>1. i \in Nat \ {0} /\ 1..i \subseteq D /\ i \in 1..i
      BY <1>2
    <3>2. Max(1..i) = i /\ (1..i) \ {i} = 1..(i - 1)
      BY <3>1, MaxOfInterval
    <3>3. QED BY <3>1, <3>2
  <2> HIDE DEF G, base, D
  <2>2. QED BY <1>3, <2>1
<1> HIDE DEF G, Runs, V, step, D
<1> DEFINE Bad == {i \in 0..n : ~FoundBest(entry, tokens, i, G[1..i])}
<1>6. Bad = {}
  <2>1. SUFFICES ASSUME Bad # {} PROVE FALSE
    OBVIOUS
  <2>2. Bad \in SUBSET Nat
    BY <1>2
  <2>3. PICK i \in Bad : \A k \in Bad : i <= k
    <3> HIDE DEF Bad
    <3>1. QED BY <2>1, <2>2, LeastNatural
  <2>4. CASE i = 0
    <3>1. FoundBest(entry, tokens, 0, base)
      BY DEF FoundBest
    <3>2. QED BY <1>4, <2>3, <2>4, <3>1
  <2>5. CASE i # 0
    <3>1. i \in 1..n /\ i - 1 \in 0..n /\ 1..i = (1..(i - 1)) \cup {i}
      BY <1>2, <2>3, <2>5
    <3>2. i - 1 \notin Bad
      BY <2>3, <3>1
    <3> DEFINE best == G[1..(i - 1)]
    <3>3. FoundBest(entry, tokens, i - 1, best)
      BY <3>1, <3>2
    <3>4. G[1..i] = Better(tokens, best, over[i])
      BY <1>5, <3>1
    <3> HIDE DEF best
    <3>5. best.min \in Nat
      BY <1>2, <3>1, <3>3 DEF FoundBest
    <3>6. FoundBest(entry, tokens, i, Better(tokens, best, over[i]))
      <4>1. CASE tokens >= over[i].min /\ over[i].min > best.min
        BY <1>2, <3>1, <3>3, <3>5, <4>1 DEF FoundBest, Better
      <4>2. CASE ~(tokens >= over[i].min /\ over[i].min > best.min)
        BY <1>2, <3>1, <3>3, <3>5, <4>2 DEF FoundBest, Better
      <4>3. QED BY <4>1, <4>2
    <3>7. QED BY <2>3, <3>4, <3>6
  <2>6. QED BY <2>4, <2>5
<1>7. FoundBest(entry, tokens, n, G[1..n])
  BY <1>2, <1>6
<1>8. QED BY <1>1, <1>2, <1>7


-------------------------------------------------------------------------------
(* The tiers of an entry *)

Usable(t, input) == t.min > 0 /\ Or(t.prompt, input) > 0
Tier(t, input) == [min |-> t.min, rates |-> Rates(t, Or(t.prompt, input))]
Collect(input, out, t) == IF Usable(t, input) THEN Append(out, Tier(t, input)) ELSE out

\* out holds the usable tiers up to the i-th, and nothing else.
Collected(raw, input, i, out) ==
    /\ \A k \in 1..Len(out) : \E j \in 1..i : Usable(raw[j], input) /\ out[k] = Tier(raw[j], input)
    /\ \A j \in 1..i : Usable(raw[j], input) => \E k \in 1..Len(out) : out[k] = Tier(raw[j], input)

LEMMA CollectOne ==
    ASSUME NEW raw, NEW input, NEW i \in Nat \ {0}, NEW V, NEW out \in Seq(V),
           Tier(raw[i], input) \in V, Collected(raw, input, i - 1, out)
    PROVE  Collect(input, out, raw[i]) \in Seq(V) /\ Collected(raw, input, i, Collect(input, out, raw[i]))
<1>1. 1..i = (1..(i - 1)) \cup {i}
  OBVIOUS
<1>2. CASE ~Usable(raw[i], input)
  BY <1>1, <1>2 DEF Collect, Collected
<1>3. CASE Usable(raw[i], input)
  <2> DEFINE new == Tier(raw[i], input)
             longer == Append(out, new)
  <2>1. longer \in Seq(V) /\ Len(longer) = Len(out) + 1 /\ Len(out) \in Nat
    BY AppendProperties, LenProperties
  <2>2. longer[Len(out) + 1] = new /\ \A k \in 1..Len(out) : longer[k] = out[k]
    BY AppendProperties
  <2>3. 1..Len(longer) = (1..Len(out)) \cup {Len(out) + 1}
    BY <2>1
  <2> HIDE DEF longer, new
  <2>4. ASSUME NEW k \in 1..Len(longer)
        PROVE  \E j \in 1..i : Usable(raw[j], input) /\ longer[k] = Tier(raw[j], input)
    <3>1. CASE k = Len(out) + 1
      BY <1>3, <2>2, <3>1 DEF new
    <3>2. CASE k \in 1..Len(out)
      BY <1>1, <2>2, <3>2 DEF Collected
    <3>3. QED BY <2>3, <3>1, <3>2
  <2>5. ASSUME NEW j \in 1..i, Usable(raw[j], input)
        PROVE  \E k \in 1..Len(longer) : longer[k] = Tier(raw[j], input)
    <3>1. CASE j = i
      BY <2>1, <2>2, <3>1 DEF new
    <3>2. CASE j \in 1..(i - 1)
      <4>1. PICK k \in 1..Len(out) : out[k] = Tier(raw[j], input)
        BY <2>5, <3>2 DEF Collected
      <4>2. k \in 1..Len(longer) /\ longer[k] = Tier(raw[j], input)
        BY <2>2, <2>3, <4>1
      <4>3. QED BY <4>2
    <3>3. QED BY <1>1, <3>1, <3>2
  <2>6. Collect(input, out, raw[i]) = longer
    BY <1>3 DEF Collect, longer, new
  <2>7. QED BY <2>1, <2>4, <2>5, <2>6 DEF Collected
<1>4. QED BY <1>2, <1>3

LEMMA ParseOverridesCollects ==
    ASSUME NEW raw, NEW n \in Nat, DOMAIN raw = 1..n, NEW input
    PROVE  \E V : ParseOverrides(raw, input) \in Seq(V)
                  /\ Collected(raw, input, n, ParseOverrides(raw, input))
<1> DEFINE D == DOMAIN raw
           Runs(g) == g = [s \in SUBSET D |-> IF s = {} THEN <<>>
                             ELSE Collect(input, g[s \ {Max(s)}], raw[Max(s)])]
           G == CHOOSE g : Runs(g)
           V == {Tier(raw[j], input) : j \in 1..n}
           step == [xv \in (1..n) \X Seq(V) |-> Collect(input, xv[2], raw[xv[1]])]
<1>1. ParseOverrides(raw, input) = G[D]
  BY DEF ParseOverrides, FoldLeft, MapThenFoldSet, Collect, Usable, Tier
<1>2. <<>> \in Seq(V) /\ \A x \in 1..n : Tier(raw[x], input) \in V
  BY EmptySeq
<1>3. step \in [(1..n) \X Seq(V) -> Seq(V)]
  <2>1. ASSUME NEW x \in 1..n, NEW v \in Seq(V) PROVE Collect(input, v, raw[x]) \in Seq(V)
    <3>1. Tier(raw[x], input) \in V
      BY <1>2
    <3> HIDE DEF V
    <3>2. QED BY <3>1, AppendProperties DEF Collect
  <2> HIDE DEF V
  <2>2. QED BY <2>1
<1>4. Runs(G)
  <2>1. PICK g \in [SUBSET (1..n) -> Seq(V)] : Loops(n, <<>>, step, g)
    <3> HIDE DEF V, step
    <3>1. QED BY <1>2, <1>3, IndexRecursion
  <2>2. ASSUME NEW s \in SUBSET (1..n), s # {}
        PROVE  step[<<Max(s), g[s \ {Max(s)}]>>] = Collect(input, g[s \ {Max(s)}], raw[Max(s)])
    <3>1. Max(s) \in s
      BY <2>2, MaxOfIndices
    <3>2. Max(s) \in 1..n /\ s \ {Max(s)} \in SUBSET (1..n)
      BY <3>1
    <3> HIDE DEF V
    <3>3. g[s \ {Max(s)}] \in Seq(V)
      BY <3>2
    <3>4. QED BY <3>2, <3>3
  <2>3. ASSUME NEW s \in SUBSET (1..n)
        PROVE  g[s] = IF s = {} THEN <<>> ELSE Collect(input, g[s \ {Max(s)}], raw[Max(s)])
    <3> HIDE DEF step, V
    <3>1. QED BY <2>1, <2>2 DEF Loops
  <2>4. Runs(g)
    <3> HIDE DEF step, V
    <3>1. QED BY <2>3
  <2> HIDE DEF Runs
  <2>5. QED BY <2>4
<1>5. G[1..0] = <<>>
  <2>1. 1..0 = {} /\ {} \in SUBSET D
    OBVIOUS
  <2> HIDE DEF G, D
  <2>2. QED BY <1>4, <2>1
<1>6. ASSUME NEW i \in 1..n PROVE G[1..i] = Collect(input, G[1..(i - 1)], raw[i])
  <2>1. 1..i \in SUBSET D /\ 1..i # {} /\ Max(1..i) = i /\ (1..i) \ {i} = 1..(i - 1)
    <3>1. i \in Nat \ {0} /\ 1..i \subseteq D /\ i \in 1..i
      OBVIOUS
    <3>2. Max(1..i) = i /\ (1..i) \ {i} = 1..(i - 1)
      BY <3>1, MaxOfInterval
    <3>3. QED BY <3>1, <3>2
  <2> HIDE DEF G, D
  <2>2. QED BY <1>4, <2>1
<1>7. D = 1..n
  OBVIOUS
<1> HIDE DEF G, Runs, V, step, D
<1> DEFINE Good(i) == G[1..i] \in Seq(V) /\ Collected(raw, input, i, G[1..i])
           Bad == {i \in 0..n : ~Good(i)}
<1>8. Bad = {}
  <2>1. SUFFICES ASSUME Bad # {} PROVE FALSE
    OBVIOUS
  <2>2. Bad \in SUBSET Nat
    OBVIOUS
  <2>3. PICK i \in Bad : \A k \in Bad : i <= k
    <3> HIDE DEF Bad
    <3>1. QED BY <2>1, <2>2, LeastNatural
  <2>4. CASE i = 0
    <3>1. Len(<<>>) = 0
      OBVIOUS
    <3>2. Collected(raw, input, 0, <<>>)
      BY <3>1 DEF Collected
    <3>3. QED BY <1>2, <1>5, <2>3, <2>4, <3>2
  <2>5. CASE i # 0
    <3>1. i \in 1..n /\ i - 1 \in 0..n /\ i \in Nat \ {0}
      BY <2>3, <2>5
    <3>2. i - 1 \notin Bad
      BY <2>3, <3>1
    <3>3. G[1..(i - 1)] \in Seq(V) /\ Collected(raw, input, i - 1, G[1..(i - 1)])
      BY <3>1, <3>2
    <3>4. Tier(raw[i], input) \in V
      BY <1>2, <3>1
    <3> DEFINE out == G[1..(i - 1)]
    <3> HIDE DEF out
    <3>5. /\ Collect(input, out, raw[i]) \in Seq(V)
          /\ Collected(raw, input, i, Collect(input, out, raw[i]))
      BY <3>1, <3>3, <3>4, CollectOne DEF out
    <3>6. G[1..i] = Collect(input, out, raw[i])
      BY <1>6, <3>1 DEF out
    <3>7. QED BY <2>3, <3>5, <3>6
  <2>6. QED BY <2>4, <2>5
<1>9. Good(n)
  BY <1>8
<1>10. QED BY <1>1, <1>7, <1>9


-------------------------------------------------------------------------------
(* The rates given *)

LEMMA ReadNeverDearer ==
    ASSUME NEW raw, raw.read \in RawPrice, NEW input \in Nat
    PROVE  Rates(raw, input).cacheRead \in 0..Rates(raw, input).input
<1> DEFINE read == Or(raw.read, input)
           least == Min({input, read})
<1>1. read \in Nat
  <2>1. CASE raw.read = <<>>
    BY <2>1 DEF Or
  <2>2. CASE raw.read # <<>>
    <3>1. Len(raw.read) \in Nat /\ Len(raw.read) # 0
      BY <2>2, LenProperties, EmptySeq DEF RawPrice
    <3>2. raw.read[1] \in Nat
      BY <3>1, ElementOfSeq DEF RawPrice
    <3>3. QED BY <2>2, <3>2 DEF Or
  <2>3. QED BY <2>1, <2>2
<1> HIDE DEF read
<1>2. input \in Int /\ read \in Int
  BY <1>1
<1>3. least = IF input <= read THEN input ELSE read
  BY <1>2, MinOfTwo
<1>4. 0 \in Int /\ least \in Int
  BY <1>2, <1>3
<1> HIDE DEF least
<1>5. Max({0, least}) = IF 0 >= least THEN 0 ELSE least
  BY <1>4, MaxOfTwo
<1>6. Max({0, least}) \in 0..input
  BY <1>1, <1>3, <1>5
<1>7. QED BY <1>6 DEF Rates, ClampRead, read, least

LEMMA PriceIsNatural ==
    ASSUME NEW price \in RawPrice, NEW fallback \in Nat
    PROVE  Or(price, fallback) \in Nat
<1>1. CASE price # <<>>
  <2>1. Len(price) \in Nat /\ Len(price) # 0
    BY <1>1, LenProperties, EmptySeq DEF RawPrice
  <2>2. price[1] \in Nat
    BY <2>1, ElementOfSeq DEF RawPrice
  <2>3. QED BY <1>1, <2>2 DEF Or
<1>2. QED BY <1>1 DEF Or

\* The rates of a parsed entry are those of the tier the raw entry asks for.
LEMMA EntryRates ==
    ASSUME NEW raw \in RawEntry, Or(raw.prompt, 0) > 0, NEW tokens \in Nat,
           NEW entry, entry.base = Rates(raw, raw.prompt[1]),
           entry.overrides = ParseOverrides(raw.overrides, raw.prompt[1])
    PROVE  /\ TierFor(entry, tokens).input \in Charged(raw, tokens)
           /\ TierFor(entry, tokens).cacheRead \in 0..TierFor(entry, tokens).input
<1> DEFINE price == raw.prompt[1]
           over == entry.overrides
           tiers == raw.overrides
           n == Len(tiers)
           m == Len(over)
<1>1. price \in Nat
  BY PriceIsNatural DEF Or, RawEntry
<1>2. tiers \in Seq(RawTier) /\ n \in Nat /\ DOMAIN tiers = 1..n
  BY LenProperties DEF RawEntry
<1>3. \A j \in 1..n : tiers[j] \in RawTier
  BY <1>2, ElementOfSeq
<1>4. PICK V : over \in Seq(V) /\ Collected(tiers, price, n, over)
  <2>1. \E V : ParseOverrides(tiers, price) \in Seq(V)
               /\ Collected(tiers, price, n, ParseOverrides(tiers, price))
    <3> HIDE DEF tiers, price, n
    <3>1. QED BY <1>2, ParseOverridesCollects
  <2>2. QED BY <2>1
<1>5. m \in Nat /\ DOMAIN over = 1..m
  BY <1>4, LenProperties
<1>6. ASSUME NEW k \in 1..m
      PROVE  \E j \in 1..n : Usable(tiers[j], price) /\ over[k] = Tier(tiers[j], price)
  BY <1>4 DEF Collected
<1>7. ASSUME NEW j \in 1..n, Usable(tiers[j], price)
      PROVE  \E k \in 1..m : over[k] = Tier(tiers[j], price)
  BY <1>4, <1>7 DEF Collected
<1> HIDE DEF over, tiers, price, n, m
<1>8. Tiers(m, over)
  <2>1. ASSUME NEW k \in 1..m PROVE over[k].min \in Nat \ {0}
    <3>1. PICK j \in 1..n : Usable(tiers[j], price) /\ over[k] = Tier(tiers[j], price)
      BY <1>6
    <3>2. over[k].min = tiers[j].min /\ tiers[j].min \in Int /\ tiers[j].min > 0
      BY <1>3, <3>1 DEF Tier, Usable, RawTier
    <3>3. QED BY <3>2
  <2>2. QED BY <1>5, <2>1 DEF Tiers
<1>9. PICK best : FoundBest(entry, tokens, m, best) /\ TierFor(entry, tokens) = best.rates
  <2>1. tokens \in Int
    OBVIOUS
  <2>2. QED BY <1>8, <2>1, TierForScans DEF over
<1>10. ToSet(tiers) = {tiers[j] : j \in 1..n}
  BY <1>2 DEF ToSet
<1>11. ASSUME NEW t \in Applicable(raw, tokens)
       PROVE  /\ t.min \in Int /\ t.min > 0 /\ t.min <= tokens
              /\ \E k \in 1..m : over[k] = Tier(t, price) /\ over[k].min = t.min
  <2>1. t \in ToSet(tiers) /\ t.min > 0 /\ t.min <= tokens /\ Or(t.prompt, price) > 0
    BY DEF Applicable, tiers, price
  <2>2. PICK j \in 1..n : t = tiers[j]
    BY <1>10, <2>1
  <2>3. PICK k \in 1..m : over[k] = Tier(t, price)
    BY <1>7, <2>1, <2>2 DEF Usable
  <2>4. over[k].min = t.min
    BY <2>3 DEF Tier
  <2>5. t.min \in Int
    BY <1>3, <2>2 DEF RawTier
  <2>6. QED BY <2>1, <2>3, <2>4, <2>5
<1>12. CASE best = [min |-> 0, rates |-> entry.base]
  <2>1. Applicable(raw, tokens) = {}
    <3>1. SUFFICES ASSUME NEW t \in Applicable(raw, tokens) PROVE FALSE
      OBVIOUS
    <3>2. PICK k \in 1..m : over[k].min = t.min /\ t.min \in Int /\ t.min > 0 /\ t.min <= tokens
      BY <1>11
    <3>3. over[k].min <= best.min
      BY <1>9, <3>2 DEF FoundBest, over
    <3>4. QED BY <1>12, <3>2, <3>3
  <2>2. Charged(raw, tokens) = {price}
    BY <2>1 DEF Charged, price
  <2>3. TierFor(entry, tokens) = Rates(raw, price)
    BY <1>9, <1>12 DEF price
  <2>4. Rates(raw, price).input = price
    BY DEF Rates
  <2>5. raw.read \in RawPrice
    BY DEF RawEntry
  <2>6. QED BY <1>1, <2>2, <2>3, <2>4, <2>5, ReadNeverDearer
<1>13. CASE best # [min |-> 0, rates |-> entry.base]
  <2>1. PICK k \in 1..m : best = over[k] /\ over[k].min <= tokens
    BY <1>9, <1>13 DEF FoundBest, over
  <2>2. PICK j \in 1..n : Usable(tiers[j], price) /\ over[k] = Tier(tiers[j], price)
    BY <1>6
  <2> DEFINE t == tiers[j]
  <2>3. t \in RawTier
    BY <1>3
  <2>4. /\ best.min = t.min /\ best.rates = Rates(t, Or(t.prompt, price))
        /\ t.min \in Int /\ t.min > 0 /\ t.min <= tokens
        /\ t.prompt \in RawPrice /\ t.read \in RawPrice
    BY <2>1, <2>2, <2>3 DEF Tier, Usable, RawTier
  <2>5. t \in Applicable(raw, tokens)
    <3>1. t \in ToSet(tiers)
      BY <1>10
    <3>2. QED BY <2>2, <2>4, <3>1 DEF Applicable, Usable, tiers, price
  <2> HIDE DEF t
  <2>6. \A o \in Applicable(raw, tokens) : o.min <= t.min
    <3>1. SUFFICES ASSUME NEW o \in Applicable(raw, tokens) PROVE o.min <= t.min
      OBVIOUS
    <3>2. PICK i \in 1..m : over[i].min = o.min /\ o.min <= tokens
      BY <1>11
    <3>3. over[i].min <= best.min
      BY <1>9, <3>2 DEF FoundBest, over
    <3>4. QED BY <2>4, <3>2, <3>3
  <2>7. Or(t.prompt, price) \in Charged(raw, tokens)
    BY <2>5, <2>6 DEF Charged, price
  <2>8. Or(t.prompt, price) \in Nat
    BY <1>1, <2>4, PriceIsNatural
  <2>9. Rates(t, Or(t.prompt, price)).input = Or(t.prompt, price)
    BY DEF Rates
  <2>10. /\ Rates(t, Or(t.prompt, price)).cacheRead \in 0..Rates(t, Or(t.prompt, price)).input
         /\ TierFor(entry, tokens) = Rates(t, Or(t.prompt, price))
    BY <1>9, <2>4, <2>8, ReadNeverDearer
  <2>11. QED BY <2>7, <2>9, <2>10
<1>14. QED BY <1>12, <1>13

LEMMA ParamsInvRates == ParamsInv => RatesAreThePublished
<1> SUFFICES ASSUME ParamsInv, snapshot.ok, snapshot.current,
                    NEW m \in Models, AppliesTo(m), Known(snapshot, m), NEW tokens \in Tokens
             PROVE  /\ m \in Priced(list[url])
                    /\ CostRates(m, tokens).input \in Charged(list[url][m], tokens)
                    /\ CostRates(m, tokens).cacheRead \in 0..CostRates(m, tokens).input
  BY DEF RatesAreThePublished
<1>1. url \in Urls /\ snapshot.source = url /\ list[url] \in Lists(url)
  BY DEF ParamsInv, InUse, Published, Shapes
<1>2. m \in Priced(list[url]) /\ snapshot.models[m] = ParseSnapshot(list[url])[m]
  BY <1>1 DEF ParamsInv, Published, Known
<1> DEFINE raw == list[url][m]
           entry == snapshot.models[m]
<1>3. m \in DOMAIN list[url] /\ Or(raw.prompt, 0) > 0
  BY <1>2 DEF Priced
<1>4. raw \in RawEntry /\ tokens \in Nat
  BY <1>1, <1>3, ModelParamsAssumption
<1>5. /\ entry.base = Rates(raw, raw.prompt[1])
      /\ entry.overrides = ParseOverrides(raw.overrides, raw.prompt[1])
  BY <1>2 DEF ParseSnapshot
<1>6. CostRates(m, tokens) = TierFor(entry, tokens)
  BY DEF CostRates
<1> HIDE DEF raw, entry
<1>7. /\ TierFor(entry, tokens).input \in Charged(raw, tokens)
      /\ TierFor(entry, tokens).cacheRead \in 0..TierFor(entry, tokens).input
  BY <1>3, <1>4, <1>5, EntryRates
<1>8. QED BY <1>2, <1>6, <1>7 DEF raw

\* While the endpoint publishes the list a snapshot was parsed from, in this process
\* or the one that saved it, the rates given for a model are those of the tier the
\* prompt falls in, and a cache read is never dearer than the prompt.
THEOREM RatesPublished == Spec => []RatesAreThePublished
BY ParamsInit, ParamsStep, ParamsInvRates, PTL DEF Spec

===============================================================================
