--------------------------- MODULE Backups_proofs ---------------------------
(***************************************************************************)
(* Theorems about Backups: what the shared directory promises, for any     *)
(* number of processes, budgets, sizes and bounds, however their captures, *)
(* prunes and crashes interleave.                                          *)
(***************************************************************************)
EXTENDS Backups, FiniteSetTheorems, WellFoundedInduction, TLAPS

-------------------------------------------------------------------------------
(* Finite sets, and the recursion over the subsets of a finite set that     *)
(* the folds of the community modules are.  Induction goes by a minimal     *)
(* counterexample, a set, so no operator is a parameter.                    *)

\* A set of subsets of a finite set has a minimal element.
LEMMA MinimalSubset ==
    ASSUME NEW S, IsFiniteSet(S), NEW T \in SUBSET SUBSET S, T # {}
    PROVE  \E x \in T : \A y \in T : y \subseteq x => y = x
<1>1. FiniteSubsetsOf(S) = SUBSET S
  BY FS_FiniteSubsetsOfFinite
<1>2. IsWellFoundedOn(StrictSubsetOrdering(S), SUBSET S)
  BY <1>1, FS_StrictSubsetOrderingWellFounded
<1>3. PICK x \in T : \A y \in T : ~(<<y, x>> \in StrictSubsetOrdering(S))
  BY <1>2, WFMin
<1>4. QED BY <1>3 DEF StrictSubsetOrdering

\* pick chooses from every nonempty subset, and g recurs by it.
Picks(S, pick) == \A s \in SUBSET S : s # {} => pick[s] \in s

Follows(S, base, pick, step, g) ==
    \A s \in SUBSET S : g[s] = IF s = {} THEN base ELSE step[<<pick[s], g[s \ {pick[s]}]>>]

\* Two functions that follow the same recursion agree.
LEMMA RecursionIsUnique ==
    ASSUME NEW S, IsFiniteSet(S), NEW base, NEW pick, NEW step, Picks(S, pick),
           NEW g, Follows(S, base, pick, step, g), NEW h, Follows(S, base, pick, step, h)
    PROVE  \A s \in SUBSET S : g[s] = h[s]
<1> DEFINE T == {s \in SUBSET S : g[s] # h[s]}
<1>1. SUFFICES ASSUME T # {} PROVE FALSE
  OBVIOUS
<1>2. T \in SUBSET SUBSET S
  OBVIOUS
<1>3. PICK s \in T : \A r \in T : r \subseteq s => r = s
  <2> HIDE DEF T
  <2>1. QED BY <1>1, <1>2, MinimalSubset
<1>4. s \in SUBSET S /\ g[s] # h[s]
  BY <1>3
<1>5. s # {} /\ pick[s] \in s
  BY <1>4 DEF Picks, Follows
<1>6. s \ {pick[s]} \notin T /\ s \ {pick[s]} \in SUBSET S
  BY <1>3, <1>4, <1>5
<1>7. g[s \ {pick[s]}] = h[s \ {pick[s]}]
  BY <1>6
<1>8. QED BY <1>4, <1>5, <1>7 DEF Follows

\* There is one that does.
LEMMA Recursion ==
    ASSUME NEW S, IsFiniteSet(S), NEW V, NEW base \in V, NEW pick, NEW step \in [S \X V -> V],
           Picks(S, pick)
    PROVE  \E g \in [SUBSET S -> V] : Follows(S, base, pick, step, g)
<1> DEFINE Solves(t, h) == Follows(t, base, pick, step, h)
           T == {t \in SUBSET S : ~\E h \in [SUBSET t -> V] : Solves(t, h)}
<1>1. SUFFICES ASSUME T # {} PROVE FALSE
  OBVIOUS
<1>2. T \in SUBSET SUBSET S
  OBVIOUS
<1>3. PICK t \in T : \A r \in T : r \subseteq t => r = t
  <2> HIDE DEF T
  <2>1. QED BY <1>1, <1>2, MinimalSubset
<1>4. t \in SUBSET S /\ ~\E h \in [SUBSET t -> V] : Solves(t, h)
  BY <1>3
<1> DEFINE Sol(r) == CHOOSE h \in [SUBSET r -> V] : Solves(r, h)
<1>5. ASSUME NEW r \in SUBSET t, r # t
      PROVE  Sol(r) \in [SUBSET r -> V] /\ Solves(r, Sol(r))
  <2>1. \E h \in [SUBSET r -> V] : Solves(r, h)
    BY <1>3, <1>4, <1>5
  <2> HIDE DEF Solves
  <2>2. QED BY <2>1
<1> HIDE DEF T
\* Below t the solutions of the subsets make one.
<1>6. ASSUME NEW r \in SUBSET t, r # t, r # {}
      PROVE  Sol(r)[r] = step[<<pick[r], Sol(r \ {pick[r]})[r \ {pick[r]}]>>]
  <2> DEFINE q == r \ {pick[r]}
  <2>1. pick[r] \in r /\ q \in SUBSET t /\ q # t /\ q \in SUBSET r /\ IsFiniteSet(q)
    <3>1. pick[r] \in r /\ q \in SUBSET t /\ q # t /\ q \in SUBSET r /\ q \in SUBSET S
      BY <1>4, <1>6 DEF Picks
    <3>2. QED BY <3>1, FS_Subset
  <2>2. Solves(r, Sol(r)) /\ Solves(q, Sol(q))
    BY <1>5, <1>6, <2>1
  <2> HIDE DEF q, Sol
  <2>3. Solves(q, Sol(r))
    BY <2>1, <2>2 DEF Follows
  <2>4. Picks(q, pick)
    BY <1>4, <2>1 DEF Picks
  <2>5. Sol(r)[q] = Sol(q)[q]
    <3>1. q \in SUBSET q
      OBVIOUS
    <3>2. QED BY <2>1, <2>2, <2>3, <2>4, <3>1, RecursionIsUnique
  <2>6. Sol(r)[r] = step[<<pick[r], Sol(r)[q]>>]
    BY <1>6, <2>2 DEF q, Follows
  <2>7. QED BY <2>5, <2>6 DEF q
<1>7. ASSUME NEW r \in SUBSET t, r # t
      PROVE  Sol(r)[r] \in V /\ (r = {} => Sol(r)[r] = base)
  <2>1. Sol(r) \in [SUBSET r -> V] /\ Solves(r, Sol(r)) /\ r \in SUBSET r
    BY <1>5, <1>7
  <2> HIDE DEF Sol
  <2>2. QED BY <2>1 DEF Follows
<1> HIDE DEF Sol
<1> DEFINE top == IF t = {} THEN base ELSE step[<<pick[t], Sol(t \ {pick[t]})[t \ {pick[t]}]>>]
           H == [s \in SUBSET t |-> IF s = t THEN top ELSE Sol(s)[s]]
<1>8. top \in V
  <2>1. CASE t = {}
    BY <2>1
  <2>2. CASE t # {}
    <3>1. pick[t] \in t /\ pick[t] \in S
      BY <1>4, <2>2 DEF Picks
    <3>2. t \ {pick[t]} \in SUBSET t /\ t \ {pick[t]} # t
      BY <3>1
    <3>3. Sol(t \ {pick[t]})[t \ {pick[t]}] \in V
      BY <1>7, <3>2
    <3>4. QED BY <2>2, <3>1, <3>3
  <2>3. QED BY <2>1, <2>2
<1>9. H \in [SUBSET t -> V]
  <2> HIDE DEF top
  <2>1. QED BY <1>7, <1>8
<1>10. Solves(t, H)
  <2> SUFFICES ASSUME NEW s \in SUBSET t
               PROVE  H[s] = IF s = {} THEN base ELSE step[<<pick[s], H[s \ {pick[s]}]>>]
    BY DEF Follows
  <2>1. CASE s = {}
    BY <1>7, <2>1
  <2>2. CASE s # {}
    <3>1. pick[s] \in s
      BY <1>4, <2>2 DEF Picks
    <3>2. s \ {pick[s]} \in SUBSET t /\ s \ {pick[s]} # t
      BY <3>1
    <3>3. H[s \ {pick[s]}] = Sol(s \ {pick[s]})[s \ {pick[s]}]
      BY <3>2
    <3>4. CASE s = t
      BY <2>2, <3>3, <3>4
    <3>5. CASE s # t
      BY <1>6, <2>2, <3>3, <3>5
    <3>6. QED BY <3>4, <3>5
  <2>3. QED BY <2>1, <2>2
<1>11. QED
  <2> HIDE DEF H, Solves
  <2>1. QED BY <1>4, <1>9, <1>10

-------------------------------------------------------------------------------
(* Sizes of sets of files                                                   *)

Sized(files) == \A f \in files : f.size \in Nat
Pick(files) == CHOOSE f \in files : TRUE
Sums(S, g) ==
    g = [s \in SUBSET S |-> IF s = {} THEN 0 ELSE Pick(s).size + g[s \ {Pick(s)}]]

LEMMA BytesUnfold == ASSUME NEW S PROVE Bytes(S) = (CHOOSE g : Sums(S, g))[S]
BY DEF Bytes, MapThenSumSet, MapThenFoldSet, Sums, Pick

LEMMA SumsAgree ==
    ASSUME NEW S, IsFiniteSet(S), NEW R, NEW g, Sums(S, g), NEW h, Sums(R, h)
    PROVE  \A s \in SUBSET (S \cap R) : g[s] = h[s]
<1> DEFINE T == {s \in SUBSET (S \cap R) : g[s] # h[s]}
<1>1. SUFFICES ASSUME T # {} PROVE FALSE
  OBVIOUS
<1>2. T \in SUBSET SUBSET S
  OBVIOUS
<1>3. PICK s \in T : \A r \in T : r \subseteq s => r = s
  <2> HIDE DEF T
  <2>1. QED BY <1>1, <1>2, MinimalSubset
<1>4. s \in SUBSET S /\ s \in SUBSET R /\ g[s] # h[s]
  BY <1>3
<1>5. ASSUME NEW Q, NEW k, Sums(Q, k), NEW q \in SUBSET Q
      PROVE  k[q] = IF q = {} THEN 0 ELSE Pick(q).size + k[q \ {Pick(q)}]
  BY <1>5 DEF Sums
<1>6. s # {} /\ Pick(s) \in s
  <2>1. s # {}
    BY <1>4, <1>5
  <2>2. QED BY <2>1 DEF Pick
<1>7. s \ {Pick(s)} \notin T /\ s \ {Pick(s)} \in SUBSET (S \cap R)
  BY <1>3, <1>4, <1>6
<1>8. g[s \ {Pick(s)}] = h[s \ {Pick(s)}]
  BY <1>7
<1>9. g[s] = Pick(s).size + g[s \ {Pick(s)}] /\ h[s] = Pick(s).size + h[s \ {Pick(s)}]
  BY <1>4, <1>5, <1>6
<1>10. QED BY <1>4, <1>8, <1>9

\* The sum over a finite set of sized files is a number, and takes its files one by one.
LEMMA BytesRecurs ==
    ASSUME NEW S, IsFiniteSet(S), Sized(S)
    PROVE  /\ Sums(S, CHOOSE g : Sums(S, g))
           /\ Bytes(S) \in Nat
<1> DEFINE pick == [s \in SUBSET S |-> Pick(s)]
           step == [xv \in S \X Nat |-> xv[1].size + xv[2]]
           G == CHOOSE g : Sums(S, g)
<1>1. Picks(S, pick)
  BY DEF Picks, Pick
<1>2. step \in [S \X Nat -> Nat] /\ 0 \in Nat
  BY DEF Sized
<1>3. PICK g \in [SUBSET S -> Nat] : Follows(S, 0, pick, step, g)
  <2> HIDE DEF pick, step
  <2>1. QED BY <1>1, <1>2, Recursion
<1>4. ASSUME NEW s \in SUBSET S
      PROVE  g[s] = IF s = {} THEN 0 ELSE Pick(s).size + g[s \ {Pick(s)}]
  <2>1. CASE s = {}
    BY <1>3, <2>1 DEF Follows
  <2>2. CASE s # {}
    <3>1. pick[s] = Pick(s) /\ pick[s] \in s
      BY <1>1, <2>2 DEF Picks
    <3>2. g[s] = step[<<pick[s], g[s \ {pick[s]}]>>]
      BY <1>3, <2>2 DEF Follows
    <3>3. s \ {pick[s]} \in SUBSET S /\ pick[s] \in S
      BY <3>1
    <3>4. g[s \ {pick[s]}] \in Nat
      BY <1>3, <3>3
    <3> HIDE DEF pick
    <3>5. QED BY <2>2, <3>1, <3>2, <3>3, <3>4
  <2>3. QED BY <2>1, <2>2
<1>5. Sums(S, g)
  BY <1>4 DEF Sums
<1>6. Sums(S, G)
  BY <1>5
<1>7. G[S] = g[S]
  <2> HIDE DEF G
  <2>1. S \in SUBSET (S \cap S)
    OBVIOUS
  <2>2. \A s \in SUBSET (S \cap S) : G[s] = g[s]
    BY <1>5, <1>6, SumsAgree
  <2>3. QED BY <2>1, <2>2
<1>8. g[S] \in Nat
  OBVIOUS
<1>9. QED BY <1>6, <1>7, <1>8, BytesUnfold

LEMMA BytesOfNone == Bytes({}) = 0
<1>1. Sums({}, CHOOSE g : Sums({}, g))
  BY BytesRecurs, FS_EmptySet DEF Sized
<1>2. Bytes({}) = (CHOOSE g : Sums({}, g))[{}]
  BY BytesUnfold
<1> DEFINE G == CHOOSE g : Sums({}, g)
<1> HIDE DEF G
<1>3. {} \in SUBSET {} /\ Sums({}, G) /\ Bytes({}) = G[{}]
  BY <1>1, <1>2 DEF G
<1>4. QED BY <1>3 DEF Sums

LEMMA BytesOfPick ==
    ASSUME NEW S, IsFiniteSet(S), Sized(S), S # {}
    PROVE  Pick(S) \in S /\ Bytes(S) = Pick(S).size + Bytes(S \ {Pick(S)})
<1> DEFINE R == S \ {Pick(S)}
           G == CHOOSE g : Sums(S, g)
           H == CHOOSE g : Sums(R, g)
<1>1. Pick(S) \in S
  BY DEF Pick
<1>2. IsFiniteSet(R) /\ Sized(R)
  BY FS_Subset DEF Sized
<1>3. Sums(S, G) /\ Sums(R, H)
  <2> HIDE DEF R
  <2>1. QED BY <1>2, BytesRecurs
<1>4. Bytes(S) = G[S] /\ Bytes(R) = H[R]
  BY BytesUnfold
<1> HIDE DEF G, H
<1>5. G[R] = H[R]
  <2>1. \A s \in SUBSET (S \cap R) : G[s] = H[s]
    <3> HIDE DEF R
    <3>1. QED BY <1>3, SumsAgree
  <2>2. R \in SUBSET (S \cap R)
    OBVIOUS
  <2>3. QED BY <2>1, <2>2
<1>6. G[S] = Pick(S).size + G[R]
  <2>1. S \in SUBSET S
    OBVIOUS
  <2>2. QED BY <1>3, <2>1 DEF Sums
<1>7. QED BY <1>1, <1>4, <1>5, <1>6

\* One file more adds its size.
LEMMA BytesAdd ==
    ASSUME NEW S, IsFiniteSet(S), Sized(S), NEW y \in S
    PROVE  Bytes(S) = y.size + Bytes(S \ {y})
<1> DEFINE T == {A \in SUBSET S : \E z \in A : Bytes(A) # z.size + Bytes(A \ {z})}
<1>1. SUFFICES ASSUME T # {} PROVE FALSE
  OBVIOUS
<1>2. T \in SUBSET SUBSET S
  OBVIOUS
<1>3. PICK A \in T : \A B \in T : B \subseteq A => B = A
  <2> HIDE DEF T
  <2>1. QED BY <1>1, <1>2, MinimalSubset
<1>4. PICK z \in A : Bytes(A) # z.size + Bytes(A \ {z})
  BY <1>3
<1>5. ASSUME NEW B \in SUBSET S PROVE IsFiniteSet(B) /\ Sized(B) /\ Bytes(B) \in Nat
  <2>1. IsFiniteSet(B) /\ Sized(B)
    BY FS_Subset DEF Sized
  <2>2. QED BY <2>1, BytesRecurs
<1>6. A \in SUBSET S /\ A # {}
  BY <1>3, <1>4
<1> DEFINE x == Pick(A)
           C == A \ {x, z}
<1>7. x \in A /\ Bytes(A) = x.size + Bytes(A \ {x})
  BY <1>5, <1>6, BytesOfPick
<1> HIDE DEF x, C
<1>8. x # z
  BY <1>4, <1>7
<1>9. A \ {x} \notin T /\ A \ {z} \notin T
  BY <1>3, <1>4, <1>7
<1>10. Bytes(A \ {x}) = z.size + Bytes(C)
  <2>1. z \in A \ {x} /\ (A \ {x}) \ {z} = C /\ A \ {x} \in SUBSET S
    BY <1>4, <1>6, <1>8 DEF C
  <2>2. QED BY <1>9, <2>1
<1>11. Bytes(A \ {z}) = x.size + Bytes(C)
  <2>1. x \in A \ {z} /\ (A \ {z}) \ {x} = C /\ A \ {z} \in SUBSET S
    BY <1>6, <1>7, <1>8 DEF C
  <2>2. QED BY <1>9, <2>1
<1>12. x.size \in Nat /\ z.size \in Nat /\ C \in SUBSET S
  BY <1>4, <1>6, <1>7 DEF Sized, C
<1>13. Bytes(C) \in Nat
  BY <1>5, <1>12
<1>14. QED BY <1>4, <1>7, <1>10, <1>11, <1>12, <1>13


-------------------------------------------------------------------------------
(* The invariant                                                            *)

Files == [name : 1..captures, at : 0..now, size : Sizes, temp : BOOLEAN]
Runs ==
    [phase : {"idle", "rename", "sweep", "read", "stat", "walk"}, tmp : Files \cup {NoFile},
     names : SUBSET (1..captures), began : 0..now, walk : SUBSET Files,
     kept : 0..Keep, bytes : Nat]

Shapes ==
    /\ now \in 0..MaxTime /\ captures \in 0..MaxCaptures /\ quiet \subseteq Procs
    /\ dir \subseteq Files /\ IsFiniteSet(dir)
    /\ newest \in Files \cup {NoFile}
    /\ run \in [Procs -> Runs]

\* Every file somebody still has in view.
Seen == dir \cup {newest} \cup UNION {run[p].walk : p \in Procs}

\* A name stands for one file, a temporary one until its rename.
Unique == \A f, g \in Seen : f.name = g.name => f = g

RunSound(r) ==
    /\ r.phase = "rename" => r.tmp # NoFile /\ r.tmp.temp
    /\ r.phase # "walk" => r.walk = {} /\ r.kept = 0 /\ r.bytes = 0
    /\ \A f \in r.walk : ~f.temp
    /\ ~TooMuch(r.bytes)

\* Every stored copy within the cap is the newest or older, and a walk that has not
\* come to the newest has kept nothing: all it met was larger than the cap.
NewestIs ==
    /\ newest # NoFile => ~newest.temp /\ ~TooMuch(newest.size)
    /\ \A f \in Seen : ~f.temp /\ ~TooMuch(f.size) => f = newest \/ Newer(newest, f)
    /\ \A p \in Procs : newest \in run[p].walk => run[p].kept = 0 /\ run[p].bytes = 0

\* How far an undisturbed prune has got.
Within ==
    /\ Cardinality(Backups) <= Keep /\ ~TooMuch(Bytes(Backups))
    /\ \A f \in Backups : ~Expired(f, now)
Progress(r) ==
    /\ r.phase \in {"idle", "read", "stat", "walk"}
    /\ r.phase # "idle" => r.began = now
    /\ r.phase = "stat" => r.names = {f.name : f \in Backups}
    /\ r.phase = "walk" =>
        /\ r.walk \subseteq Backups
        /\ r.kept = Cardinality(Backups \ r.walk) /\ r.bytes = Bytes(Backups \ r.walk)
        /\ \A f \in Backups \ r.walk : ~Expired(f, now)
    /\ r.phase = "idle" => Within
    /\ \A f \in dir \ Backups : f.at > now - StaleMs
QuietSound == \A p \in quiet : Progress(run[p])

Sound == Shapes /\ Unique /\ (\A p \in Procs : RunSound(run[p])) /\ NewestIs
BackupsInv == Sound /\ NewestKept /\ QuietSound

LEMMA Bounds ==
    /\ Keep \in Nat /\ TtlMs \in Nat /\ MaxBytes \in Nat /\ MaxTime \in Nat /\ MaxCaptures \in Nat
    /\ StaleMs \in Nat \ {0} /\ \A s \in Sizes : s \in Nat \ {0}
BY BackupsAssumption

LEMMA InvImplies == BackupsInv => TypeOK /\ RetentionHolds
<1> SUFFICES ASSUME BackupsInv PROVE TypeOK /\ RetentionHolds
  OBVIOUS
<1>1. \A f \in dir \cup {newest} :
        f.name \in 0..captures /\ f.at \in 0..now /\ f.size \in Sizes \cup {0} /\ f.temp \in BOOLEAN
  <2>1. now \in Nat /\ captures \in Nat /\ \A f \in dir \cup {newest} : f \in Files \cup {NoFile}
    BY DEF BackupsInv, Sound, Shapes
  <2>2. ASSUME NEW f \in Files
        PROVE  f.name \in 0..captures /\ f.at \in 0..now /\ f.size \in Sizes \cup {0} /\ f.temp \in BOOLEAN
    BY <2>1 DEF Files
  <2>3. /\ NoFile.name \in 0..captures /\ NoFile.at \in 0..now /\ NoFile.size \in Sizes \cup {0}
        /\ NoFile.temp \in BOOLEAN
    BY <2>1 DEF NoFile
  <2> HIDE DEF NoFile
  <2>4. QED BY <2>1, <2>2, <2>3
<1>2. \A f, g \in dir : f.name = g.name => f = g
  BY DEF BackupsInv, Sound, Unique, Seen
<1>3. ASSUME NEW p \in Procs
      PROVE  /\ run[p].phase \in {"idle", "rename", "sweep", "read", "stat", "walk"}
             /\ run[p].names \subseteq 1..captures /\ \A f \in run[p].walk : ~f.temp
             /\ run[p].kept \in 0..Keep /\ run[p].bytes \in Nat /\ ~TooMuch(run[p].bytes)
  BY DEF BackupsInv, Sound, Shapes, Runs, RunSound
<1>4. TypeOK
  BY <1>1, <1>2, <1>3 DEF TypeOK, BackupsInv, Sound, Shapes
<1>5. Bounded
  BY DEF Bounded, BackupsInv, QuietSound, Progress, Within, Idle
<1>6. QED BY <1>4, <1>5 DEF RetentionHolds, BackupsInv

LEMMA BackupsInit == Init => BackupsInv
<1> SUFFICES ASSUME Init PROVE BackupsInv
  OBVIOUS
<1>1. Phase("idle") \in Runs /\ RunSound(Phase("idle")) /\ Phase("idle").walk = {}
  BY Bounds DEF Init, Phase, Runs, RunSound, TooMuch
<1>2. Shapes
  BY <1>1, Bounds, FS_EmptySet DEF Init, Shapes
<1>3. Seen = {NoFile}
  BY <1>1 DEF Init, Seen
<1>4. Unique /\ NewestIs /\ NewestKept /\ QuietSound
  BY <1>1, <1>3 DEF Init, Unique, NewestIs, NewestKept, QuietSound, NoFile
<1>5. QED BY <1>1, <1>2, <1>4 DEF Init, BackupsInv, Sound

-------------------------------------------------------------------------------
(* The order of the files                                                   *)

LEMMA NewerOrders ==
    ASSUME NEW a \in Files \cup {NoFile}, NEW b \in Files \cup {NoFile},
           NEW c \in Files \cup {NoFile}, Sound
    PROVE  /\ ~(Newer(a, b) /\ Newer(b, a))
           /\ Newer(a, b) /\ Newer(b, c) => Newer(a, c)
           /\ Newer(a, b) \/ Newer(b, a) \/ a.name = b.name
<1>1. \A f \in Files \cup {NoFile} : f.at \in Int /\ f.name \in Int
  BY DEF Files, NoFile
<1>2. QED BY <1>1 DEF Newer

LEMMA SeenTyped == Sound => \A f \in Seen : f \in Files \cup {NoFile}
BY DEF Sound, Shapes, Seen, Runs

\* Time and captures only widen what a file or a run may be.
LEMMA Widens ==
    ASSUME Sound, now' \in Nat, captures' \in Nat, now <= now', captures <= captures'
    PROVE  /\ \A f \in Files : f \in Files'
           /\ \A r \in Runs : r \in Runs'
<1>1. ASSUME NEW f \in Files PROVE f \in Files'
  BY DEF Files, Sound, Shapes
<1>2. ASSUME NEW r \in Runs PROVE r \in Runs'
  <2>1. r.walk \in SUBSET (Files') /\ r.tmp \in Files' \cup {NoFile}
    BY <1>1 DEF Runs
  <2>2. r.names \in SUBSET (1..captures') /\ r.began \in 0..now'
    BY DEF Runs, Sound, Shapes
  <2>3. QED BY <2>1, <2>2 DEF Runs
<1>3. QED BY <1>1, <1>2


-------------------------------------------------------------------------------
(* Steps that keep the files sound                                          *)

LEMMA RunsKept ==
    ASSUME Sound, NEW p \in Procs, NEW r, Become(p, r), r \in Runs', RunSound(r),
           now' \in 0..MaxTime, captures' \in 0..MaxCaptures, now <= now', captures <= captures'
    PROVE  /\ run' \in [Procs -> Runs'] /\ \A q \in Procs : RunSound(run'[q])
           /\ run'[p] = r /\ \A q \in Procs \ {p} : run'[q] = run[q]
<1>1. run \in [Procs -> Runs] /\ run' = [run EXCEPT ![p] = r]
  BY DEF Sound, Shapes, Become
<1>2. \A x \in Runs : x \in Runs'
  BY Widens
<1>3. run'[p] = r /\ \A q \in Procs \ {p} : run'[q] = run[q]
  BY <1>1
<1>4. run' \in [Procs -> Runs']
  <2> HIDE DEF Runs
  <2>1. QED BY <1>1, <1>2
<1>5. QED BY <1>3, <1>4 DEF Sound

\* A step that brings no file into view.
Brings(p, r) ==
    /\ r \in Runs /\ RunSound(r)
    /\ r.walk \subseteq dir \cup run[p].walk
    /\ newest \in r.walk => r.kept = 0 /\ r.bytes = 0

LEMMA NothingNew ==
    ASSUME Sound, NEW p \in Procs, NEW r, Become(p, r), Brings(p, r), dir' \subseteq dir,
           now' = now, captures' = captures, newest' = newest, quiet' \subseteq Procs
    PROVE  Sound'
<1>0. /\ r \in Runs /\ RunSound(r)
      /\ r.walk \subseteq dir \cup run[p].walk
      /\ newest \in r.walk => r.kept = 0 /\ r.bytes = 0
  BY DEF Brings
<1>1. now' \in 0..MaxTime /\ captures' \in 0..MaxCaptures /\ now <= now' /\ captures <= captures'
  BY DEF Sound, Shapes
<1>2. \A f \in Files : f \in Files'
  BY <1>1, Widens
<1>3. r \in Runs'
  BY <1>0, <1>1, Widens
<1>4. /\ run' \in [Procs -> Runs'] /\ \A q \in Procs : RunSound(run'[q])
      /\ run'[p] = r /\ \A q \in Procs \ {p} : run'[q] = run[q]
  BY <1>0, <1>1, <1>3, RunsKept
<1>5. Shapes'
  <2>1. IsFiniteSet(dir')
    BY FS_Subset DEF Sound, Shapes
  <2>2. dir' \subseteq Files' /\ newest' \in Files' \cup {NoFile}
    BY <1>2 DEF Sound, Shapes
  <2>3. QED BY <1>1, <1>4, <2>1, <2>2 DEF Shapes
<1>6. Seen' \subseteq Seen
  BY <1>0, <1>4 DEF Seen
<1>7. Unique'
  BY <1>6 DEF Sound, Unique
<1>8. NewestIs'
  <2>1. ASSUME NEW f \in Seen', ~f.temp, ~TooMuch(f.size) PROVE f = newest' \/ Newer(newest', f)
    BY <1>6, <2>1 DEF Sound, NewestIs
  <2>2. ASSUME NEW q \in Procs, newest' \in run'[q].walk
        PROVE  run'[q].kept = 0 /\ run'[q].bytes = 0
    BY <1>0, <1>4, <2>2 DEF Sound, NewestIs
  <2>3. QED BY <2>1, <2>2 DEF Sound, NewestIs
<1>9. ASSUME NEW q \in Procs PROVE RunSound(run[q])'
  <2>1. RunSound(run'[q])
    BY <1>4
  <2>2. QED BY <2>1 DEF RunSound, TooMuch
<1>10. QED BY <1>5, <1>7, <1>8, <1>9 DEF Sound

\* A phase starts with nothing to walk.
LEMMA SimplePhase ==
    ASSUME Sound, NEW phase \in {"idle", "sweep", "read"}
    PROVE  /\ Phase(phase) \in Runs /\ RunSound(Phase(phase)) /\ Phase(phase).walk = {}
           /\ Phase(phase).phase = phase
BY Bounds DEF Phase, Runs, RunSound, TooMuch, Sound, Shapes

\* Nobody's prune is quiet after a disturbance.
LEMMA Disturbed == Disturb => QuietSound' /\ quiet' \subseteq Procs
BY DEF Disturb, QuietSound

\* Only the prune that moved can still be quiet.
LEMMA StillQuiet ==
    ASSUME BackupsInv, NEW p \in Procs, NEW r, Become(p, r), Undisturbed(p),
           p \in quiet /\ Progress(run[p]) => Progress(r)'
    PROVE  QuietSound' /\ quiet' \subseteq Procs
<1>1. run'[p] = r /\ quiet' = quiet \cap {p}
  BY DEF BackupsInv, Sound, Shapes, Become, Undisturbed
<1>2. QED BY <1>1 DEF QuietSound, BackupsInv, Sound, Shapes

LEMMA PhaseStep ==
    ASSUME BackupsInv, NEW p \in Procs, NEW phase \in {"idle", "sweep"},
           Become(p, Phase(phase)), UNCHANGED <<now, dir, captures, newest>>, Disturb
    PROVE  BackupsInv'
<1>1. /\ Phase(phase) \in Runs /\ RunSound(Phase(phase)) /\ Phase(phase).walk = {}
      /\ quiet' \subseteq Procs /\ QuietSound'
  BY SimplePhase, Disturbed DEF BackupsInv
<1>2. Sound'
  <2> DEFINE r == Phase(phase)
  <2>1. /\ Sound /\ Become(p, r) /\ Brings(p, r) /\ dir' \subseteq dir /\ quiet' \subseteq Procs
        /\ now' = now /\ captures' = captures /\ newest' = newest
    BY <1>1 DEF BackupsInv, Brings
  <2> HIDE DEF r
  <2>2. QED BY <2>1, NothingNew
<1>3. NewestKept'
  BY DEF BackupsInv, NewestKept, Expired
<1>4. QED BY <1>1, <1>2, <1>3 DEF BackupsInv


-------------------------------------------------------------------------------
(* The actions                                                              *)

LEMMA TickStep == ASSUME BackupsInv, Tick PROVE BackupsInv'
<1>1. /\ now' = now + 1 /\ now' \in 0..MaxTime /\ now \in Nat
      /\ captures' = captures /\ captures \in Nat
      /\ dir' = dir /\ run' = run /\ newest' = newest /\ Disturb
  BY Bounds DEF Tick, BackupsInv, Sound, Shapes
<1>2. Sound
  BY DEF BackupsInv
<1>3. (\A f \in Files : f \in Files') /\ (\A r \in Runs : r \in Runs')
  <2>1. now' \in Nat /\ captures' \in Nat /\ now <= now' /\ captures <= captures'
    BY <1>1
  <2>2. QED BY <1>2, <2>1, Widens
<1>4. QuietSound' /\ quiet' \subseteq Procs
  BY <1>1, Disturbed
<1>5. Shapes'
  <2>1. run' \in [Procs -> Runs']
    <3>1. run \in [Procs -> Runs]
      BY <1>2 DEF Sound, Shapes
    <3> HIDE DEF Runs
    <3>2. QED BY <1>1, <1>3, <3>1
  <2>2. QED BY <1>1, <1>2, <1>3, <1>4, <2>1 DEF Sound, Shapes
<1>6. Unique' /\ NewestIs' /\ (\A q \in Procs : RunSound(run'[q]))
  BY <1>1, <1>2 DEF Sound, Unique, NewestIs, Seen
<1>7. NewestKept'
  <2>1. ASSUME newest # NoFile, ~Expired(newest, now') PROVE ~Expired(newest, now)
    <3>1. newest.at \in Int /\ TtlMs \in Nat
      BY <1>2, <2>1, Bounds DEF Sound, Shapes, Files
    <3>2. QED BY <1>1, <2>1, <3>1 DEF Expired
  <2>2. QED BY <1>1, <2>1 DEF BackupsInv, NewestKept
<1>8. QED BY <1>4, <1>5, <1>6, <1>7 DEF BackupsInv, Sound

\* A capture starts with a temporary file of a name not given out before.
LEMMA CopyStep == ASSUME BackupsInv, NEW p \in Procs, Copy(p) PROVE BackupsInv'
<1>1. PICK size \in Sizes :
        LET f == [name |-> captures + 1, at |-> now, size |-> size, temp |-> TRUE]
        IN  Become(p, [Phase("rename") EXCEPT !.tmp = f]) /\ dir' = dir \cup {f}
  BY DEF Copy
<1>2. PICK f : f = [name |-> captures + 1, at |-> now, size |-> size, temp |-> TRUE]
  OBVIOUS
<1>3. PICK r : r = [Phase("rename") EXCEPT !.tmp = f]
  OBVIOUS
<1>4. /\ Become(p, r) /\ dir' = dir \cup {f} /\ captures' = captures + 1
      /\ now' = now /\ newest' = newest /\ captures < MaxCaptures /\ Disturb
  BY <1>1, <1>2, <1>3 DEF Copy
<1>5. Sound /\ captures \in Nat /\ now \in Nat /\ now \in 0..MaxTime /\ captures' \in 0..MaxCaptures
  BY <1>4, Bounds DEF BackupsInv, Sound, Shapes
<1>6. (\A x \in Files : x \in Files') /\ (\A x \in Runs : x \in Runs')
  <2>1. now' \in Nat /\ captures' \in Nat /\ now <= now' /\ captures <= captures'
    BY <1>4, <1>5
  <2>2. QED BY <1>5, <2>1, Widens
<1>7. f \in Files' /\ f.temp /\ f.name = captures + 1 /\ f # NoFile
  BY <1>2, <1>4, <1>5 DEF Files, NoFile
<1>8. r \in Runs' /\ RunSound(r) /\ r.walk = {}
  <2>1. /\ r.phase = "rename" /\ r.tmp = f /\ r.names = {} /\ r.began = 0 /\ r.walk = {}
        /\ r.kept = 0 /\ r.bytes = 0
        /\ r = [phase |-> r.phase, tmp |-> r.tmp, names |-> r.names, began |-> r.began,
                walk |-> r.walk, kept |-> r.kept, bytes |-> r.bytes]
    BY <1>3 DEF Phase
  <2>2. r \in Runs'
    BY <1>4, <1>5, <1>7, <2>1, Bounds DEF Runs
  <2>3. RunSound(r)
    BY <1>7, <2>1, Bounds DEF RunSound, TooMuch
  <2>4. QED BY <2>1, <2>2, <2>3
<1>9. /\ run' \in [Procs -> Runs'] /\ \A q \in Procs : RunSound(run'[q])
      /\ run'[p] = r /\ \A q \in Procs \ {p} : run'[q] = run[q]
  <2>1. now' \in 0..MaxTime /\ now <= now' /\ captures <= captures'
    BY <1>4, <1>5
  <2>2. QED BY <1>4, <1>5, <1>8, <2>1, RunsKept
<1>10. QuietSound' /\ quiet' \subseteq Procs
  BY <1>4, Disturbed
<1>11. Shapes'
  <2>1. IsFiniteSet(dir')
    BY <1>4, FS_AddElement DEF BackupsInv, Sound, Shapes
  <2>2. dir' \subseteq Files' /\ newest' \in Files' \cup {NoFile}
    BY <1>4, <1>6, <1>7 DEF BackupsInv, Sound, Shapes
  <2>3. QED BY <1>4, <1>5, <1>9, <1>10, <2>1, <2>2 DEF Shapes
<1>12. Seen' \subseteq Seen \cup {f}
  BY <1>4, <1>8, <1>9 DEF Seen
<1>13. \A x \in Seen : x.name \in 0..captures
  <2>1. \A x \in Seen : x \in Files \cup {NoFile}
    BY <1>5, SeenTyped
  <2>2. QED BY <1>5, <2>1 DEF Files, NoFile
<1>14. Unique'
  <2>1. \A x \in Seen : x.name # f.name
    BY <1>5, <1>7, <1>13
  <2>2. QED BY <1>5, <1>12, <2>1 DEF Sound, Unique
<1>15. NewestIs'
  <2>1. ASSUME NEW x \in Seen', ~x.temp, ~TooMuch(x.size) PROVE x = newest' \/ Newer(newest', x)
    BY <1>4, <1>5, <1>7, <1>12, <2>1 DEF Sound, NewestIs
  <2>2. ASSUME NEW q \in Procs, newest' \in run'[q].walk
        PROVE  run'[q].kept = 0 /\ run'[q].bytes = 0
    BY <1>4, <1>5, <1>8, <1>9, <2>2 DEF Sound, NewestIs
  <2>3. QED BY <1>4, <1>5, <2>1, <2>2 DEF Sound, NewestIs
<1>16. NewestKept'
  BY <1>4 DEF BackupsInv, NewestKept
<1>17. QED BY <1>9, <1>10, <1>11, <1>14, <1>15, <1>16 DEF BackupsInv, Sound


\* A rename that finds its temporary turns it into the newest copy, or an older one.
LEMMA RenameStep == ASSUME BackupsInv, NEW p \in Procs, Rename(p) PROVE BackupsInv'
<1>1. PICK tmp : tmp = run[p].tmp
  OBVIOUS
<1>2. PICK f : f = [tmp EXCEPT !.temp = FALSE]
  OBVIOUS
<1>3. PICK r : r = Phase("sweep")
  OBVIOUS
<1>4. /\ Become(p, r) /\ now' = now /\ captures' = captures /\ Disturb
      /\ dir' = IF tmp \in dir THEN (dir \ {tmp}) \cup {f} ELSE dir
      /\ newest' = IF tmp \in dir /\ ~TooMuch(f.size) /\ (newest = NoFile \/ Newer(f, newest))
                   THEN f ELSE newest
  BY <1>1, <1>2, <1>3 DEF Rename
<1>5. /\ Sound /\ r \in Runs /\ RunSound(r) /\ r.walk = {}
      /\ quiet' \subseteq Procs /\ QuietSound'
  BY <1>3, <1>4, SimplePhase, Disturbed DEF BackupsInv
<1>6. now' \in 0..MaxTime /\ captures' \in 0..MaxCaptures /\ now <= now' /\ captures <= captures'
      /\ now' \in Nat /\ captures' \in Nat
  BY <1>4, <1>5, Bounds DEF Sound, Shapes
<1>7. CASE tmp \notin dir
  <2>1. Brings(p, r) /\ dir' \subseteq dir /\ newest' = newest
    BY <1>4, <1>5, <1>7 DEF Brings
  <2>2. Sound'
    BY <1>4, <1>5, <2>1, NothingNew
  <2>3. NewestKept'
    BY <1>4, <1>7 DEF BackupsInv, NewestKept
  <2>4. QED BY <1>5, <2>2, <2>3 DEF BackupsInv
<1>8. CASE tmp \in dir
  <2>1. tmp \in Files /\ tmp.temp
    <3>1. RunSound(run[p]) /\ run[p].phase = "rename"
      BY <1>5 DEF Sound, Rename, In
    <3>2. QED BY <1>1, <1>5, <1>8, <3>1 DEF Sound, Shapes, RunSound
  <2>2. f \in Files /\ ~f.temp /\ f.name = tmp.name /\ f.at = tmp.at /\ f.size = tmp.size /\ f # NoFile
    BY <1>2, <2>1 DEF Files, NoFile
  <2>3. dir' = (dir \ {tmp}) \cup {f}
    BY <1>4, <1>8
  <2>4. (\A x \in Files : x \in Files') /\ r \in Runs'
    BY <1>5, <1>6, Widens
  <2>5. /\ run' \in [Procs -> Runs'] /\ \A q \in Procs : RunSound(run'[q])
        /\ run'[p] = r /\ \A q \in Procs \ {p} : run'[q] = run[q]
    BY <1>4, <1>5, <1>6, <2>4, RunsKept
  <2>6. Shapes'
    <3>1. IsFiniteSet(dir')
      <4>1. IsFiniteSet(dir \ {tmp})
        BY <1>5, FS_Subset DEF Sound, Shapes
      <4>2. QED BY <2>3, <4>1, FS_AddElement
    <3>2. dir' \subseteq Files' /\ newest' \in Files' \cup {NoFile}
      BY <1>4, <1>5, <2>2, <2>3, <2>4 DEF Sound, Shapes
    <3>3. QED BY <1>5, <1>6, <2>5, <3>1, <3>2 DEF Shapes
  \* No file in view but the temporary has its name.
  <2>7. \A x \in Seen : x = tmp \/ x.name # f.name
    <3>1. tmp \in Seen
      BY <1>8 DEF Seen
    <3>2. QED BY <1>5, <2>2, <3>1 DEF Sound, Unique
  <2>8. newest # tmp /\ \A q \in Procs : tmp \notin run[q].walk
    <3>1. newest # tmp
      BY <1>5, <2>1, <2>2 DEF Sound, NewestIs, Files, NoFile
    <3>2. ASSUME NEW q \in Procs PROVE tmp \notin run[q].walk
      BY <1>5, <2>1 DEF Sound, RunSound
    <3>3. QED BY <3>1, <3>2
  <2>9. \A x \in Seen' : x = f \/ (x \in Seen /\ x # tmp)
    <3>1. newest' \in {newest, f}
      BY <1>4
    <3>2. ASSUME NEW q \in Procs, NEW x \in run'[q].walk PROVE x \in Seen /\ x # tmp
      <4>1. x \in run[q].walk
        BY <1>5, <2>5
      <4>2. QED BY <2>8, <4>1 DEF Seen
    <3>3. ASSUME NEW x \in dir' PROVE x = f \/ (x \in Seen /\ x # tmp)
      BY <2>3 DEF Seen
    <3>4. newest \in Seen
      BY DEF Seen
    <3>5. \A x \in Seen' : x \in dir' \/ x = newest' \/ \E q \in Procs : x \in run'[q].walk
      BY DEF Seen
    <3>6. QED BY <2>8, <3>1, <3>2, <3>3, <3>4, <3>5
  <2>10. Unique'
    BY <1>5, <2>7, <2>9 DEF Sound, Unique
  <2>11. newest \in Files \cup {NoFile} /\ newest.name # f.name
    <3>1. newest \in Seen
      BY DEF Seen
    <3>2. QED BY <1>5, <2>7, <2>8, <3>1 DEF Sound, Shapes
  <2>12. /\ newest' \in {newest, f}
         /\ newest' = newest => TooMuch(f.size) \/ Newer(newest, f)
         /\ newest' # newest => newest' = f /\ ~TooMuch(f.size) /\ (newest = NoFile \/ Newer(f, newest))
    <3>1. Newer(f, newest) \/ Newer(newest, f)
      BY <1>5, <2>2, <2>11, NewerOrders
    <3>2. newest = NoFile => newest # f
      BY <2>2
    <3>3. QED BY <1>4, <1>8, <3>1, <3>2, <2>11
  <2>13. NewestIs'
    <3>1. ASSUME NEW x \in Seen', ~x.temp, ~TooMuch(x.size)
          PROVE  x = newest' \/ Newer(newest', x)
      <4>1. CASE x = f
        BY <2>12, <3>1, <4>1
      <4>2. CASE x \in Seen /\ x # tmp /\ newest' = newest
        BY <1>5, <3>1, <4>2 DEF Sound, NewestIs
      <4>3. CASE x \in Seen /\ x # tmp /\ newest' = f /\ newest' # newest
        <5>1. x = newest \/ Newer(newest, x)
          BY <1>5, <3>1, <4>3 DEF Sound, NewestIs
        <5>2. x \in Files \cup {NoFile}
          BY <1>5, <4>3, SeenTyped
        <5>3. newest = NoFile => ~Newer(newest, x) /\ x # newest
          <6>1. NoFile.temp /\ NoFile.at = 0 /\ NoFile.name = 0
            BY DEF NoFile
          <6>2. x # NoFile
            BY <3>1, <6>1
          <6>3. x.at \in Nat /\ x.name \in Nat
            BY <5>2, <6>2 DEF Files
          <6>4. QED BY <6>1, <6>2, <6>3 DEF Newer
        <5>4. Newer(f, newest)
          BY <2>12, <4>3, <5>1, <5>3
        <5>5. x = newest \/ Newer(f, x)
          BY <1>5, <2>2, <2>11, <5>1, <5>2, <5>4, NewerOrders
        <5>6. QED BY <4>3, <5>4, <5>5
      <4>4. QED BY <2>9, <2>12, <3>1, <4>1, <4>2, <4>3
    <3>2. newest' # NoFile => ~newest'.temp /\ ~TooMuch(newest'.size)
      BY <1>5, <2>2, <2>12 DEF Sound, NewestIs
    <3>3. ASSUME NEW q \in Procs, newest' \in run'[q].walk
          PROVE  run'[q].kept = 0 /\ run'[q].bytes = 0
      <4>1. q # p /\ newest' \in run[q].walk /\ run'[q] = run[q]
        BY <1>5, <2>5, <3>3
      <4>2. newest' \in Seen
        BY <4>1 DEF Seen
      <4>3. newest' = newest
        BY <2>7, <2>8, <2>12, <4>1, <4>2
      <4>4. QED BY <1>5, <4>1, <4>3 DEF Sound, NewestIs
    <3>4. QED BY <3>1, <3>2, <3>3 DEF NewestIs
  <2>14. NewestKept'
    <3>1. CASE newest' = f
      BY <2>3, <3>1 DEF NewestKept
    <3>2. CASE newest' = newest
      BY <1>4, <2>3, <2>8, <3>2 DEF BackupsInv, NewestKept
    <3>3. QED BY <2>12, <3>1, <3>2
  <2>15. QED BY <1>5, <2>5, <2>6, <2>10, <2>13, <2>14 DEF BackupsInv, Sound
<1>9. QED BY <1>7, <1>8


LEMMA SweepStep == ASSUME BackupsInv, NEW p \in Procs, Sweep(p) PROVE BackupsInv'
<1>1. PICK r : r = [Phase("read") EXCEPT !.began = now]
  OBVIOUS
<1>2. /\ Become(p, r) /\ dir' = {f \in dir : f.temp => f.at > now - StaleMs}
      /\ quiet' = {p} /\ now' = now /\ captures' = captures /\ newest' = newest
  BY <1>1 DEF Sweep
<1>3. Sound /\ now \in Nat
  BY DEF BackupsInv, Sound, Shapes
<1>4. r \in Runs /\ RunSound(r) /\ r.walk = {} /\ r.phase = "read" /\ r.began = now
  BY <1>1, <1>3, Bounds DEF Phase, Runs, RunSound, TooMuch
<1>5. Sound'
  <2>1. Brings(p, r) /\ dir' \subseteq dir /\ quiet' \subseteq Procs
    BY <1>2, <1>4 DEF Brings
  <2>2. QED BY <1>2, <1>3, <2>1, NothingNew
<1>6. NewestKept'
  <2>1. newest # NoFile /\ newest \in dir => newest \in dir'
    BY <1>2, <1>3 DEF Sound, NewestIs
  <2>2. QED BY <1>2, <2>1 DEF BackupsInv, NewestKept
<1>7. QuietSound'
  <2>1. run'[p] = r
    BY <1>2, <1>3 DEF Become, Sound, Shapes
  <2>2. \A f \in dir' \ Backups' : f.at > now' - StaleMs
    BY <1>2 DEF Backups
  <2>3. QED BY <1>2, <1>4, <2>1, <2>2 DEF QuietSound, Progress
<1>8. QED BY <1>5, <1>6, <1>7 DEF BackupsInv

LEMMA ReadDirStep == ASSUME BackupsInv, NEW p \in Procs, ReadDir(p) PROVE BackupsInv'
<1>1. PICK r : r = [run[p] EXCEPT !.phase = "stat", !.names = {f.name : f \in Backups}]
  OBVIOUS
<1>2. /\ Become(p, r) /\ Undisturbed(p) /\ run[p].phase = "read"
      /\ dir' = dir /\ now' = now /\ captures' = captures /\ newest' = newest
  BY <1>1 DEF ReadDir, In
<1>3. Sound /\ run[p] \in Runs /\ RunSound(run[p])
  BY DEF BackupsInv, Sound, Shapes
<1>4. {f.name : f \in Backups} \in SUBSET (1..captures)
  BY <1>3 DEF Sound, Shapes, Files, Backups
<1>5. /\ r \in Runs /\ r.phase = "stat" /\ r.names = {f.name : f \in Backups}
      /\ r.walk = {} /\ r.kept = 0 /\ r.bytes = 0 /\ r.began = run[p].began
  BY <1>1, <1>2, <1>3, <1>4 DEF Runs, RunSound
<1>6. QuietSound' /\ quiet' \subseteq Procs
  <2>1. ASSUME Progress(run[p]) PROVE Progress(r)'
    BY <1>2, <1>5, <2>1 DEF Progress, Backups
  <2>2. QED BY <1>2, <2>1, StillQuiet
<1>7. Sound'
  <2>1. RunSound(r)
    BY <1>5, Bounds DEF RunSound, TooMuch
  <2>2. Brings(p, r) /\ dir' \subseteq dir
    BY <1>2, <1>5, <2>1 DEF Brings
  <2>3. QED BY <1>2, <1>3, <1>6, <2>2, NothingNew
<1>8. NewestKept'
  BY <1>2 DEF BackupsInv, NewestKept
<1>9. QED BY <1>6, <1>7, <1>8 DEF BackupsInv

LEMMA StatStep == ASSUME BackupsInv, NEW p \in Procs, Stat(p) PROVE BackupsInv'
<1>1. PICK found : found = {f \in Backups : f.name \in run[p].names}
  OBVIOUS
<1>2. PICK listing : listing = IF {f.name : f \in found} = run[p].names THEN found ELSE {}
  OBVIOUS
<1>3. PICK r : r = [run[p] EXCEPT !.phase = "walk", !.names = {}, !.walk = listing]
  OBVIOUS
<1>4. /\ Become(p, r) /\ Undisturbed(p) /\ run[p].phase = "stat"
      /\ dir' = dir /\ now' = now /\ captures' = captures /\ newest' = newest
  BY <1>1, <1>2, <1>3 DEF Stat, In
<1>5. Sound /\ run[p] \in Runs /\ RunSound(run[p])
  BY DEF BackupsInv, Sound, Shapes
<1>6. listing \subseteq Backups /\ Backups \subseteq dir /\ listing \in SUBSET Files
  BY <1>1, <1>2, <1>5 DEF Backups, Sound, Shapes
<1>7. /\ r \in Runs /\ r.phase = "walk" /\ r.walk = listing
      /\ r.kept = 0 /\ r.bytes = 0 /\ r.began = run[p].began
  BY <1>3, <1>4, <1>5, <1>6 DEF Runs, RunSound
<1>8. QuietSound' /\ quiet' \subseteq Procs
  <2>1. ASSUME Progress(run[p]) PROVE Progress(r)'
    <3>1. run[p].names = {f.name : f \in Backups}
      BY <1>4, <2>1 DEF Progress
    <3>2. listing = Backups
      BY <1>1, <1>2, <3>1
    <3>3. r.walk = Backups' /\ Backups' \ r.walk = {}
      BY <1>4, <1>7, <3>2 DEF Backups
    <3>4. Cardinality(Backups' \ r.walk) = 0 /\ Bytes(Backups' \ r.walk) = 0
      BY <3>3, FS_EmptySet, BytesOfNone
    <3>5. \A f \in dir' \ Backups' : f.at > now' - StaleMs
      BY <1>4, <2>1 DEF Progress, Backups
    <3>6. r.began = now'
      BY <1>4, <1>7, <2>1 DEF Progress
    <3>7. (r.kept = Cardinality(Backups \ r.walk) /\ r.bytes = Bytes(Backups \ r.walk))'
      BY <1>7, <3>4
    <3>8. QED BY <1>7, <3>3, <3>5, <3>6, <3>7 DEF Progress
  <2>2. QED BY <1>4, <2>1, StillQuiet
<1>9. Sound'
  <2>1. RunSound(r)
    BY <1>6, <1>7, Bounds DEF RunSound, TooMuch, Backups
  <2>2. Brings(p, r) /\ dir' \subseteq dir
    BY <1>4, <1>6, <1>7, <2>1 DEF Brings
  <2>3. QED BY <1>4, <1>5, <1>8, <2>2, NothingNew
<1>10. NewestKept'
  BY <1>4 DEF BackupsInv, NewestKept
<1>11. QED BY <1>8, <1>9, <1>10 DEF BackupsInv

LEMMA DoneStep == ASSUME BackupsInv, NEW p \in Procs, Done(p) PROVE BackupsInv'
<1>1. PICK r : r = Phase("idle")
  OBVIOUS
<1>2. /\ Become(p, r) /\ Undisturbed(p) /\ run[p].phase = "walk" /\ run[p].walk = {}
      /\ dir' = dir /\ now' = now /\ captures' = captures /\ newest' = newest
  BY <1>1 DEF Done, In
<1>3. Sound /\ run[p] \in Runs /\ RunSound(run[p])
  BY DEF BackupsInv, Sound, Shapes
<1>4. r \in Runs /\ RunSound(r) /\ r.walk = {} /\ r.phase = "idle"
  BY <1>1, <1>3, SimplePhase
<1>5. QuietSound' /\ quiet' \subseteq Procs
  <2>1. ASSUME Progress(run[p]) PROVE Progress(r)'
    <3>1. /\ run[p].kept = Cardinality(Backups \ {}) /\ run[p].bytes = Bytes(Backups \ {})
          /\ \A f \in Backups \ {} : ~Expired(f, now)
      BY <1>2, <2>1 DEF Progress
    <3>2. Backups \ {} = Backups
      OBVIOUS
    <3>3. run[p].kept = Cardinality(Backups) /\ run[p].bytes = Bytes(Backups)
      BY <3>1, <3>2
    <3>4. Within
      BY <1>3, <3>1, <3>3, Bounds DEF Within, Runs, RunSound
    <3>5. Within'
      BY <1>2, <3>4 DEF Within, Backups
    <3>6. \A f \in dir' \ Backups' : f.at > now' - StaleMs
      BY <1>2, <2>1 DEF Progress, Backups
    <3>7. QED BY <1>4, <3>5, <3>6 DEF Progress
  <2>2. QED BY <1>2, <2>1, StillQuiet
<1>6. Sound'
  <2>1. Brings(p, r) /\ dir' \subseteq dir
    BY <1>2, <1>4 DEF Brings
  <2>2. QED BY <1>2, <1>3, <1>5, <2>1, NothingNew
<1>7. NewestKept'
  BY <1>2 DEF BackupsInv, NewestKept
<1>8. QED BY <1>5, <1>6, <1>7 DEF BackupsInv


\* A walk removes or keeps its newest file; kept files count against its budgets.
LEMMA VisitStep == ASSUME BackupsInv, NEW p \in Procs, Visit(p) PROVE BackupsInv'
<1>1. PICK o : o = run[p]
  OBVIOUS
<1>2. PICK f \in o.walk :
        /\ \A g \in o.walk \ {f} : Before(f, g)
        /\ IF Over(f, o)
           THEN dir' = dir \ {f} /\ Become(p, [o EXCEPT !.walk = o.walk \ {f}])
           ELSE /\ UNCHANGED dir
                /\ Become(p, [o EXCEPT !.walk = o.walk \ {f}, !.kept = o.kept + 1,
                                       !.bytes = o.bytes + f.size])
  BY <1>1 DEF Visit
<1>3. PICK r : r = IF Over(f, o) THEN [o EXCEPT !.walk = o.walk \ {f}]
                   ELSE [o EXCEPT !.walk = o.walk \ {f}, !.kept = o.kept + 1,
                                  !.bytes = o.bytes + f.size]
  OBVIOUS
<1>4. /\ Become(p, r) /\ Undisturbed(p) /\ o.phase = "walk"
      /\ dir' = IF Over(f, o) THEN dir \ {f} ELSE dir
      /\ now' = now /\ captures' = captures /\ newest' = newest
  BY <1>1, <1>2, <1>3 DEF Visit, In
<1>5. Sound /\ o \in Runs /\ RunSound(o) /\ o.walk \in SUBSET Files /\ f \in Files /\ ~f.temp
      /\ o.kept \in 0..Keep /\ o.bytes \in Nat /\ f.size \in Nat /\ f.at \in Nat /\ f \in Seen
  <2>1. Sound /\ o \in Runs /\ RunSound(o)
    BY <1>1 DEF BackupsInv, Sound, Shapes
  <2>2. o.walk \in SUBSET Files /\ f \in Files /\ ~f.temp /\ o.kept \in 0..Keep /\ o.bytes \in Nat
    BY <1>2, <2>1 DEF Runs, RunSound
  <2>3. f.size \in Nat /\ f.at \in Nat
    BY <2>2, Bounds DEF Files
  <2>4. f \in Seen
    BY <1>1, <1>2 DEF Seen
  <2>5. QED BY <2>1, <2>2, <2>3, <2>4
<1>6. /\ r \in Runs /\ r.phase = "walk" /\ r.walk = o.walk \ {f} /\ r.began = o.began
      /\ r.kept = IF Over(f, o) THEN o.kept ELSE o.kept + 1
      /\ r.bytes = IF Over(f, o) THEN o.bytes ELSE o.bytes + f.size
      /\ ~TooMuch(r.bytes)
  <2>1. CASE Over(f, o)
    BY <1>3, <1>4, <1>5, <2>1 DEF Runs, RunSound
  <2>2. CASE ~Over(f, o)
    <3>1. o.kept + 1 \in 0..Keep /\ o.bytes + f.size \in Nat /\ ~TooMuch(o.bytes + f.size)
      BY <1>5, <2>2, Bounds DEF Over
    <3>2. QED BY <1>3, <1>4, <1>5, <2>2, <3>1 DEF Runs
  <2>3. QED BY <2>1, <2>2
\* What the walk met before the newest was larger than the cap.
<1>7. newest \in o.walk => o.kept = 0 /\ o.bytes = 0
  BY <1>1, <1>5 DEF Sound, NewestIs
<1>8. ASSUME newest \in o.walk, newest # f PROVE Over(f, o)
  <2>1. Newer(f, newest)
    BY <1>2, <1>8 DEF Before
  <2>2. ~Newer(newest, f)
    BY <1>5, <2>1, NewerOrders DEF Sound, Shapes
  <2>3. TooMuch(f.size)
    BY <1>5, <1>8, <2>2 DEF Sound, NewestIs
  <2>4. o.bytes + f.size = f.size
    BY <1>5, <1>7, <1>8
  <2>5. QED BY <2>3, <2>4 DEF Over
<1>9. newest \in r.walk => r.kept = 0 /\ r.bytes = 0
  BY <1>6, <1>7, <1>8
<1>10. QuietSound' /\ quiet' \subseteq Procs
  <2>1. ASSUME p \in quiet, Progress(run[p]) PROVE Progress(r)'
    <3>1. /\ o.began = now /\ o.walk \subseteq Backups
          /\ o.kept = Cardinality(Backups \ o.walk) /\ o.bytes = Bytes(Backups \ o.walk)
          /\ \A g \in Backups \ o.walk : ~Expired(g, now)
          /\ \A g \in dir \ Backups : g.at > now - StaleMs
      BY <1>1, <1>4, <2>1 DEF Progress
    <3>2. f \in Backups
      BY <1>2, <3>1
    <3>3. IsFiniteSet(Backups) /\ Sized(Backups)
      <4>1. IsFiniteSet(Backups)
        BY <1>5, FS_Subset DEF Sound, Shapes, Backups
      <4>2. Sized(Backups)
        BY <1>5, Bounds DEF Sized, Sound, Shapes, Backups, Files
      <4>3. QED BY <4>1, <4>2
    <3>4. CASE Over(f, o)
      <4>1. Backups' = Backups \ {f}
        BY <1>4, <3>4 DEF Backups
      <4>2. Backups' \ r.walk = Backups \ o.walk /\ r.walk \subseteq Backups'
        BY <1>2, <1>6, <3>1, <4>1
      <4>3. r.kept = Cardinality(Backups' \ r.walk) /\ r.bytes = Bytes(Backups' \ r.walk)
        BY <1>6, <3>1, <3>4, <4>2
      <4>4. \A g \in Backups' \ r.walk : ~Expired(g, now')
        BY <1>4, <3>1, <4>2
      <4>5. \A g \in dir' \ Backups' : g.at > now' - StaleMs
        BY <1>4, <3>1 DEF Backups
      <4>6. r.began = now'
        BY <1>4, <1>6, <3>1
      <4>7. QED BY <1>6, <4>2, <4>3, <4>4, <4>5, <4>6 DEF Progress
    <3>5. CASE ~Over(f, o)
      <4>1. Backups' = Backups /\ dir' = dir
        BY <1>4, <3>5 DEF Backups
      <4> DEFINE K == Backups \ o.walk
      <4>2. Backups \ r.walk = K \cup {f} /\ f \notin K /\ IsFiniteSet(K) /\ r.walk \subseteq Backups
        BY <1>2, <1>6, <3>1, <3>2, <3>3, FS_Subset
      <4>3. Cardinality(K \cup {f}) = Cardinality(K) + 1
        <5> HIDE DEF K
        <5>1. QED BY <4>2, FS_AddElement
      <4>4. Bytes(K \cup {f}) = f.size + Bytes(K)
        <5>1. IsFiniteSet(K \cup {f}) /\ Sized(K \cup {f}) /\ (K \cup {f}) \ {f} = K
          BY <3>2, <3>3, <4>2, FS_AddElement DEF Sized
        <5>2. f \in K \cup {f}
          OBVIOUS
        <5> HIDE DEF K
        <5>3. Bytes(K \cup {f}) = f.size + Bytes((K \cup {f}) \ {f})
          BY <5>1, <5>2, BytesAdd
        <5>4. QED BY <5>1, <5>3
      <4>5. r.kept = Cardinality(K \cup {f}) /\ r.bytes = Bytes(K \cup {f})
        <5>1. o.kept = Cardinality(K) /\ o.bytes = Bytes(K)
          BY <3>1
        <5> HIDE DEF K
        <5>2. QED BY <1>5, <1>6, <3>5, <4>3, <4>4, <5>1
      <4>6. r.kept = Cardinality(Backups' \ r.walk) /\ r.bytes = Bytes(Backups' \ r.walk)
        BY <4>1, <4>2, <4>5
      <4>7. ~Expired(f, now)
        BY <3>1, <3>5 DEF Over
      <4>8. \A g \in Backups' \ r.walk : ~Expired(g, now')
        BY <1>4, <3>1, <4>1, <4>2, <4>7
      <4>9. \A g \in dir' \ Backups' : g.at > now' - StaleMs
        BY <1>4, <3>1, <4>1
      <4>10. r.began = now'
        BY <1>4, <1>6, <3>1
      <4> HIDE DEF K
      <4>11. QED BY <1>6, <4>1, <4>2, <4>6, <4>8, <4>9, <4>10 DEF Progress
    <3>6. QED BY <3>4, <3>5
  <2>2. QED BY <1>4, <2>1, StillQuiet
<1>11. Sound'
  <2>1. RunSound(r)
    BY <1>5, <1>6 DEF RunSound
  <2>2. Brings(p, r) /\ dir' \subseteq dir
    BY <1>1, <1>4, <1>6, <1>9, <2>1 DEF Brings
  <2>3. QED BY <1>4, <1>5, <1>10, <2>2, NothingNew
<1>12. NewestKept'
  <2>1. SUFFICES ASSUME newest # NoFile, Keep > 0, ~Expired(newest, now), f = newest, newest \in dir
                 PROVE  newest \in dir'
    BY <1>4 DEF BackupsInv, NewestKept
  <2>2. o.kept = 0 /\ o.bytes = 0 /\ ~TooMuch(newest.size)
    BY <1>2, <1>5, <1>7, <2>1 DEF Sound, NewestIs
  <2>3. ~Expired(newest, o.began)
    <3>1. o.began \in 0..now /\ now \in Nat /\ TtlMs \in Nat
      BY <1>5, Bounds DEF Runs, Sound, Shapes
    <3>2. QED BY <1>5, <2>1, <3>1 DEF Expired
  <2>4. o.bytes + f.size = f.size
    BY <1>5, <2>2
  <2>5. ~Over(f, o)
    BY <2>1, <2>2, <2>3, <2>4, Bounds DEF Over
  <2>6. QED BY <1>4, <2>1, <2>5
<1>13. QED BY <1>10, <1>11, <1>12 DEF BackupsInv

-------------------------------------------------------------------------------

LEMMA BackupsStep == BackupsInv /\ [Next]_vars => BackupsInv'
<1> SUFFICES ASSUME BackupsInv, [Next]_vars PROVE BackupsInv'
  OBVIOUS
<1>1. ASSUME NEW p \in Procs, Start(p) PROVE BackupsInv'
  BY <1>1, PhaseStep DEF Start
<1>2. ASSUME NEW p \in Procs, Crash(p) PROVE BackupsInv'
  BY <1>2, PhaseStep DEF Crash
<1>3. ASSUME UNCHANGED vars PROVE BackupsInv'
  <2>1. Sound'
    BY <1>3 DEF vars, BackupsInv, Sound, Shapes, Files, Runs, Unique, Seen, NewestIs
  <2>2. NewestKept'
    BY <1>3 DEF vars, BackupsInv, NewestKept
  <2>3. QuietSound'
    BY <1>3 DEF vars, BackupsInv, QuietSound, Progress, Within, Backups
  <2>4. QED BY <2>1, <2>2, <2>3 DEF BackupsInv
<1>4. QED
  BY <1>1, <1>2, <1>3, TickStep, CopyStep, RenameStep, SweepStep, ReadDirStep, StatStep,
     VisitStep, DoneStep DEF Next

\* Every reachable state is well typed, names stand for one file, and every walk keeps
\* to its budgets.
THEOREM TypeCorrect == Spec => []TypeOK
BY BackupsInit, BackupsStep, InvImplies, PTL DEF Spec

\* The newest recovery copy that fits the cap outlives every prune until it expires,
\* and a prune nothing disturbed leaves the directory within the ring, the cap and the
\* lifetime, with no abandoned temporary: for any number of processes that capture,
\* prune, stall and crash in any order.
THEOREM Retained == Spec => []RetentionHolds
BY BackupsInit, BackupsStep, InvImplies, PTL DEF Spec

=============================================================================
