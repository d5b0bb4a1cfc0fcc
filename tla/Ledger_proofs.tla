---------------------------- MODULE Ledger_proofs ----------------------------
(***************************************************************************)
(* Theorems about Ledger, for every set of processes, window and number of *)
(* rows, and every set of faults where the statement does not exclude them.*)
(***************************************************************************)
EXTENDS Ledger, TLAPS

-------------------------------------------------------------------------------
(* Snapshots *)

LEMMA OnceBit == \A r, S : Once(r, S) \in {0, 1}
BY DEF Once

LEMMA EmptyTyped == Empty \in Snapshot /\ \A r \in Rows : Counted(r, Empty) = 0
BY DEF Empty, Snapshot, Counted, Once

LEMMA CountedNat ==
    ASSUME NEW s \in Snapshot, NEW r \in Rows
    PROVE  Counted(r, s) \in Nat
<1>1. s.base[r] \in Nat
  BY DEF Snapshot
<1>2. QED BY <1>1, OnceBit DEF Counted

LEMMA FoldTyped == ASSUME NEW s \in Snapshot PROVE Fold(s) \in Snapshot
<1>1. \A r \in Rows : s.base[r] + Once(r, Evicted(s.rows)) \in Nat
  BY OnceBit DEF Snapshot
<1>2. s.rows \ Evicted(s.rows) \in SUBSET Rows
  BY DEF Snapshot
<1>3. QED BY <1>1, <1>2 DEF Fold, Snapshot

\* Folding moves rows into the baseline: what the totals count is unchanged.
LEMMA FoldCounts ==
    ASSUME NEW s \in Snapshot, NEW r \in Rows
    PROVE  Counted(r, Fold(s)) = Counted(r, s)
<1>1. Evicted(s.rows) \subseteq s.rows
  BY DEF Evicted
<1>2. Fold(s).base[r] = s.base[r] + Once(r, Evicted(s.rows))
  BY DEF Fold
<1>3. Fold(s).rows = s.rows \ Evicted(s.rows)
  BY DEF Fold
<1>4. Once(r, Evicted(s.rows)) + Once(r, s.rows \ Evicted(s.rows)) = Once(r, s.rows)
  BY <1>1 DEF Once
<1>5. s.base[r] \in Nat
  BY DEF Snapshot
<1>6. QED BY <1>2, <1>3, <1>4, <1>5, OnceBit DEF Counted

LEMMA WithRowTyped ==
    ASSUME NEW s \in Snapshot, NEW x \in Rows PROVE WithRow(s, x) \in Snapshot
BY DEF WithRow, Snapshot

\* One more row counts once more, if it was not counted.
LEMMA WithRowCounts ==
    ASSUME NEW s \in Snapshot, NEW x \in Rows, NEW r \in Rows, Counted(x, s) = 0
    PROVE  Counted(r, WithRow(s, x)) = IF r = x THEN 1 ELSE Counted(r, s)
<1>1. WithRow(s, x).base = s.base /\ WithRow(s, x).rows = s.rows \cup {x}
  BY DEF WithRow, Snapshot
<1>2. s.base[x] \in Nat /\ s.base[r] \in Nat
  BY DEF Snapshot
<1>3. s.base[x] = 0
  BY <1>2, OnceBit DEF Counted
<1>4. QED BY <1>1, <1>2, <1>3 DEF Counted, Once

-------------------------------------------------------------------------------
(* Type correctness *)

LEMMA InitTyped == Init => TypeOK
<1> SUFFICES ASSUME Init PROVE TypeOK
  OBVIOUS
<1>1. since \in [Procs -> 0..(MaxRows - 1)] /\ built \in 0..RowLimit
  BY LedgerAssumption DEF Init
<1>2. QED BY <1>1, EmptyTyped, LedgerAssumption DEF Init, TypeOK, Places

LEMMA BeginTyped ==
    ASSUME TypeOK, NEW p \in Procs, NEW o \in {"append", "compact", "close"}, Begin(p, o)
    PROVE  /\ pc' \in [Procs -> Places]
           /\ op' \in [Procs -> {"append", "compact", "close"}]
           /\ done' \in [Procs -> BOOLEAN]
           /\ \A q \in Procs : op'[q] = IF q = p THEN o ELSE op[q]
BY DEF TypeOK, Begin, Places

LEMMA MoveTyped ==
    ASSUME TypeOK, NEW p \in Procs, NEW place \in Places, MoveTo(p, place),
           UNCHANGED <<faults, file, ordered, torn>>, lock' \in {"none", "fresh", "old"}
    PROVE  TypeOK'
BY DEF TypeOK, MoveTo, ledgerVars

LEMMA ReturnTyped ==
    ASSUME TypeOK, NEW p \in Procs, Return(p), pc[p] \in {"want", "out"},
           lock' \in {"none", "fresh", "old"}
    PROVE  TypeOK'
<1> USE LedgerAssumption
<1>a. UNCHANGED <<faults, file, ordered, torn, row, built, appended>>
  BY DEF Return
<1>1. CASE op[p] = "append" /\ done[p]
  <2>1. NoteRow(p)
    BY <1>1 DEF Return
  <2>2. row[p] \in Rows /\ mem[p] \in Snapshot /\ good[p] \in Snapshot
    BY <1>1 DEF TypeOK
  <2>3. mem' \in [Procs -> Snapshot]
    BY <2>1, <2>2, FoldTyped, WithRowTyped DEF NoteRow, TypeOK
  <2>4. good' \in [Procs -> Snapshot]
    BY <2>1, <2>2, WithRowTyped DEF NoteRow, TypeOK
  <2>5. shared' \in [Procs -> BOOLEAN]
    BY <2>1 DEF NoteRow, TypeOK
  <2>6. since' \in [Procs -> 0..(MaxRows - 1)]
    BY <2>1 DEF NoteRow, TypeOK, CompactDue
  <2>7. /\ pc' \in [Procs -> Places]
        /\ op' \in [Procs -> {"append", "compact", "close"}]
        /\ done' \in [Procs -> BOOLEAN]
        /\ \A q \in Procs : op'[q] = "append" => op[q] = "append"
    <3>1. CASE CompactDue(p)
      BY <2>1, <3>1, BeginTyped DEF NoteRow
    <3>2. CASE ~CompactDue(p)
      BY <2>1, <3>2 DEF NoteRow, TypeOK, Places
    <3>3. QED BY <3>1, <3>2
  <2>8. QED BY <1>a, <2>3, <2>4, <2>5, <2>6, <2>7 DEF TypeOK
<1>2. CASE op[p] = "append" /\ ~done[p]
  BY <1>2, <1>a DEF Return, TypeOK, Places, ledgerVars
<1>3. CASE op[p] # "append"
  <2>0. Adopted(p) \in Snapshot
    BY EmptyTyped DEF Adopted, TypeOK
  <2>1. mem' \in [Procs -> Snapshot] /\ shared' \in [Procs -> BOOLEAN]
    BY <1>3, <2>0 DEF Return, TypeOK
  <2>2. pc' \in [Procs -> Places]
    BY <1>3 DEF Return, TypeOK, Places
  <2>3. QED BY <1>3, <1>a, <2>1, <2>2 DEF Return, TypeOK
<1>4. QED BY <1>1, <1>2, <1>3

LEMMA TypeStep == TypeOK /\ [Next]_vars => TypeOK'
<1> SUFFICES ASSUME TypeOK, [Next]_vars PROVE TypeOK'
  OBVIOUS
<1> USE LedgerAssumption
<1>1. ASSUME NEW p \in Procs, Boot(p) PROVE TypeOK'
  BY <1>1, BeginTyped, EmptyTyped DEF Boot, TypeOK, fileVars
<1>2. ASSUME NEW p \in Procs, Record(p) PROVE TypeOK'
  <2>1. built' \in 0..RowLimit /\ built' \in Rows
    BY <1>2 DEF Record, TypeOK, Rows
  <2>2. row' \in [Procs -> 0..RowLimit] /\ row'[p] \in Rows
        /\ \A q \in Procs \ {p} : row'[q] = row[q]
    BY <1>2, <2>1 DEF Record, TypeOK
  <2>3. QED BY <1>2, <2>1, <2>2, BeginTyped DEF Record, TypeOK, fileVars, ledgerVars
<1>3. ASSUME NEW p \in Procs, Close(p) PROVE TypeOK'
  BY <1>3, BeginTyped DEF Close, TypeOK, fileVars, ledgerVars
<1>4. ASSUME NEW p \in Procs, Create(p) PROVE TypeOK'
  BY <1>4, MoveTyped DEF Create, Places, TypeOK
<1>5. ASSUME NEW p \in Procs, Stat(p) PROVE TypeOK'
  BY <1>5, MoveTyped DEF Stat, Places, TypeOK
<1>6. ASSUME NEW p \in Procs, Clear(p) PROVE TypeOK'
  BY <1>6, MoveTyped DEF Clear, Places, TypeOK
<1>7. ASSUME NEW p \in Procs, AppendBytes(p) PROVE TypeOK'
  <2>1. row[p] \in Rows
    BY <1>7 DEF AppendBytes, TypeOK
  <2>2. pc' \in [Procs -> Places] /\ done' \in [Procs -> BOOLEAN]
    BY <1>7 DEF AppendBytes, TypeOK, Places
  <2>3. WithRow(file, row[p]) \in Snapshot
    BY <2>1, WithRowTyped DEF TypeOK
  <2>4. file' \in {file, WithRow(file, row[p])} /\ appended' \subseteq Rows
    BY <1>7, <2>1 DEF AppendBytes, TypeOK
  <2>5. ordered' \in BOOLEAN /\ torn' \in BOOLEAN
    BY <1>7 DEF AppendBytes, TypeOK
  <2>6. file' \in Snapshot
    BY <2>3, <2>4 DEF TypeOK
  <2>7. QED BY <1>7, <2>2, <2>4, <2>5, <2>6 DEF AppendBytes, TypeOK, ledgerVars
<1>8. ASSUME NEW p \in Procs, Load(p) PROVE TypeOK'
  <2>1. pc' \in [Procs -> Places] /\ done' \in [Procs -> BOOLEAN]
    BY <1>8 DEF Load, TypeOK, Places
  <2>2. good' \in [Procs -> Snapshot] /\ shared' \in [Procs -> BOOLEAN]
    BY <1>8 DEF Load, TypeOK
  <2>3. QED BY <1>8, <2>1, <2>2 DEF Load, TypeOK, fileVars
<1>9. ASSUME NEW p \in Procs, Rewrite(p) PROVE TypeOK'
  <2>1. Fold(good[p]) \in Snapshot
    BY FoldTyped DEF TypeOK
  <2>2. /\ file' = Fold(good[p]) /\ good' = [good EXCEPT ![p] = file']
        /\ ordered' = TRUE /\ torn' = FALSE
    BY <1>9 DEF Rewrite
  <2>3. file' \in Snapshot /\ good' \in [Procs -> Snapshot]
    BY <2>1, <2>2 DEF TypeOK
  <2>4. QED BY <1>9, <2>2, <2>3 DEF Rewrite, TypeOK, Places, ledgerVars
<1>10. ASSUME NEW p \in Procs, TransformFails(p) PROVE TypeOK'
  BY <1>10, MoveTyped DEF TransformFails, Places, TypeOK, fileVars
<1>11. ASSUME NEW p \in Procs, Release(p) PROVE TypeOK'
  BY <1>11, ReturnTyped DEF Release
<1>12. ASSUME NEW p \in Procs, GiveUp(p) PROVE TypeOK'
  BY <1>12, ReturnTyped DEF GiveUp, TypeOK
<1>13. ASSUME NEW p \in Procs, Crash(p) PROVE TypeOK'
  BY <1>13 DEF Crash, TypeOK, Places, ledgerVars
<1>14. CASE Age
  BY <1>14 DEF Age, TypeOK, ledgerVars
<1>15. CASE UNCHANGED vars
  BY <1>15 DEF vars, TypeOK, fileVars, ledgerVars
<1>16. QED
  BY <1>1, <1>2, <1>3, <1>4, <1>5, <1>6, <1>7, <1>8, <1>9, <1>10, <1>11,
     <1>12, <1>13, <1>14, <1>15 DEF Next

\* Every variable stays in its type, under every fault.
THEOREM TypeCorrect == Spec => []TypeOK
BY InitTyped, TypeStep, PTL DEF Spec

-------------------------------------------------------------------------------
(* Mutual exclusion *)

Guarded == faults \cap {"race", "stall"} = {}

\* The lock file is there and recent while somebody is inside, and nobody is
\* on the way to remove a lock it found old.
MutexInv ==
    Guarded => /\ \A p \in Procs : pc[p] # "clear"
               /\ \A p \in Holders : lock = "fresh"
               /\ \A p, q \in Holders : p = q

\* A call that returns, or is only begun, is outside.
LEMMA ReturnPlace ==
    ASSUME TypeOK, NEW p \in Procs, Return(p)
    PROVE  \E x \in {"want", "rest", "off"} : pc' = [pc EXCEPT ![p] = x]
BY DEF Return, NoteRow, Begin

LEMMA LeaveKeeps ==
    ASSUME TypeOK, MutexInv, NEW p \in Procs,
           NEW x \in {"want", "rest", "off", "stat", "again"},
           pc' = [pc EXCEPT ![p] = x], UNCHANGED <<faults, lock>>
    PROVE  MutexInv'
BY DEF TypeOK, MutexInv, Guarded, Holders

LEMMA InsideKeeps ==
    ASSUME TypeOK, MutexInv, NEW p \in Procs, pc[p] \in {"in", "loaded"},
           NEW x \in {"loaded", "out"},
           pc' = [pc EXCEPT ![p] = x], UNCHANGED <<faults, lock>>
    PROVE  MutexInv'
BY DEF TypeOK, MutexInv, Guarded, Holders

LEMMA MutexStep == TypeOK /\ MutexInv /\ [Next]_vars => MutexInv'
<1> SUFFICES ASSUME TypeOK, MutexInv, [Next]_vars PROVE MutexInv'
  OBVIOUS
<1>1. ASSUME NEW p \in Procs, Boot(p) \/ Record(p) \/ Close(p) PROVE MutexInv'
  BY <1>1, LeaveKeeps DEF Boot, Record, Close, Begin, fileVars
<1>2. ASSUME NEW p \in Procs, Create(p) PROVE MutexInv'
  <2>1. CASE lock = "none"
    <3>1. pc' = [pc EXCEPT ![p] = "in"] /\ lock' = "fresh" /\ faults' = faults
      BY <1>2, <2>1 DEF Create, MoveTo
    <3>2. Guarded => Holders = {}
      BY <2>1 DEF MutexInv
    <3>3. Guarded => Holders' = {p}
      BY <3>1, <3>2 DEF Holders, TypeOK
    <3>4. Guarded => \A q \in Procs : pc'[q] # "clear"
      BY <3>1 DEF MutexInv, TypeOK
    <3>5. Guarded' = Guarded
      BY <3>1 DEF Guarded
    <3>6. QED BY <3>1, <3>3, <3>4, <3>5 DEF MutexInv
  <2>2. CASE lock # "none"
    BY <1>2, <2>2, LeaveKeeps DEF Create, MoveTo
  <2>3. QED BY <2>1, <2>2
<1>3. ASSUME NEW p \in Procs, Stat(p) PROVE MutexInv'
  <2>1. CASE lock # "old"
    BY <1>3, <2>1, LeaveKeeps DEF Stat, MoveTo
  <2>2. CASE lock = "old" /\ "race" \notin faults
    <3>1. pc' = [pc EXCEPT ![p] = "again"] /\ faults' = faults
      BY <1>3, <2>2 DEF Stat, MoveTo
    <3>2. Guarded => Holders = {}
      BY <2>2 DEF MutexInv
    <3>3. Guarded => Holders' = {}
      BY <3>1, <3>2 DEF Holders, TypeOK
    <3>4. Guarded => \A q \in Procs : pc'[q] # "clear"
      BY <3>1 DEF MutexInv, TypeOK
    <3>5. Guarded' = Guarded
      BY <3>1 DEF Guarded
    <3>6. QED BY <3>3, <3>4, <3>5 DEF MutexInv
  <2>3. CASE "race" \in faults
    BY <1>3, <2>3 DEF Stat, MutexInv, Guarded
  <2>4. QED BY <2>1, <2>2, <2>3
<1>4. ASSUME NEW p \in Procs, Clear(p) PROVE MutexInv'
  <2>1. ~Guarded
    BY <1>4 DEF Clear, MutexInv
  <2>2. QED BY <1>4, <2>1 DEF Clear, MutexInv, Guarded
<1>5. ASSUME NEW p \in Procs,
             AppendBytes(p) \/ Load(p) \/ Rewrite(p) \/ TransformFails(p)
      PROVE MutexInv'
  <2>1. /\ pc[p] \in {"in", "loaded"} /\ UNCHANGED <<faults, lock>>
        /\ \E x \in {"loaded", "out"} : pc' = [pc EXCEPT ![p] = x]
    BY <1>5 DEF AppendBytes, Load, Rewrite, TransformFails, MoveTo, fileVars
  <2>2. QED BY <2>1, InsideKeeps
<1>6. ASSUME NEW p \in Procs, Release(p) PROVE MutexInv'
  <2>1. pc[p] = "out" /\ faults' = faults
    BY <1>6 DEF Release, Return
  <2>2. PICK x \in {"want", "rest", "off"} : pc' = [pc EXCEPT ![p] = x]
    BY <1>6, ReturnPlace DEF Release
  <2>3. Guarded => Holders' = {}
    BY <2>1, <2>2 DEF MutexInv, Holders, TypeOK
  <2>4. Guarded => \A q \in Procs : pc'[q] # "clear"
    BY <2>2 DEF MutexInv, TypeOK
  <2>5. QED BY <2>1, <2>3, <2>4 DEF MutexInv, Guarded
<1>7. ASSUME NEW p \in Procs, GiveUp(p) PROVE MutexInv'
  <2>1. UNCHANGED <<faults, lock>>
    BY <1>7 DEF GiveUp, Return
  <2>2. QED BY <1>7, <2>1, ReturnPlace, LeaveKeeps DEF GiveUp
<1>8. ASSUME NEW p \in Procs, Crash(p) PROVE MutexInv'
  BY <1>8, LeaveKeeps DEF Crash
<1>9. CASE Age
  <2>1. Guarded => Holders = {}
    BY <1>9 DEF Age, Guarded
  <2>2. QED BY <1>9, <2>1 DEF Age, MutexInv, Guarded, Holders
<1>10. CASE UNCHANGED vars
  BY <1>10 DEF vars, fileVars, MutexInv, Guarded, Holders
<1>11. QED
  BY <1>1, <1>2, <1>3, <1>4, <1>5, <1>6, <1>7, <1>8, <1>9, <1>10 DEF Next

\* The lock file serializes the processes, given that no stale lock is cleared
\* in two moves and no holder outlives its lock.
THEOREM LockExcludes == Spec => []Serialized
<1>1. Init => MutexInv
  BY DEF Init, MutexInv, Holders
<1>2. MutexInv => Serialized
  BY DEF MutexInv, Serialized, Guarded
<1>3. QED BY <1>1, <1>2, MutexStep, TypeCorrect, PTL DEF Spec

-------------------------------------------------------------------------------
(* What a process shows *)

Appending(p) == op[p] = "append" /\ pc[p] \notin {"off", "rest"}

\* A row under way is new to the file until its append went through, and is
\* nobody else's.
Fresh ==
    /\ appended \subseteq 1..built
    /\ \A p \in Procs : Appending(p) =>
          /\ pc[p] # "loaded"
          /\ done[p] => pc[p] = "out"
          /\ row[p] \in 1..built
          /\ ~done[p] => row[p] \notin appended
          /\ \A q \in Procs : q # p /\ Appending(q) => row[q] # row[p]

Honest(s) == \A r \in Rows : Counted(r, s) <= Once(r, appended)

\* Neither the file nor anybody's memory counts too much, and a process has
\* not counted the row it is appending.
HonestInv ==
    /\ Honest(file)
    /\ \A p \in Procs : Honest(mem[p]) /\ Honest(good[p])
    /\ \A p \in Procs : Appending(p) =>
          /\ Counted(row[p], mem[p]) = 0 /\ Counted(row[p], good[p]) = 0
          /\ done[p] => row[p] \in appended

LEMMA FreshQuiet ==
    ASSUME Fresh, UNCHANGED <<built, appended, row>>,
           \A q \in Procs : Appending(q)' =>
               /\ Appending(q) /\ done'[q] = done[q]
               /\ pc'[q] = pc[q] \/ (~done[q] /\ pc'[q] # "loaded")
    PROVE  Fresh'
BY DEF Fresh

\* The one who returns, starts again or crashes appends no longer.
LEMMA ReturnEnds ==
    ASSUME TypeOK, NEW p \in Procs, Return(p)
    PROVE  /\ ~Appending(p)'
           /\ \A q \in Procs \ {p} :
                 pc'[q] = pc[q] /\ op'[q] = op[q] /\ done'[q] = done[q]
           /\ UNCHANGED <<built, appended, row, file>>
BY DEF Return, NoteRow, Begin, Appending, TypeOK

LEMMA FreshStep == TypeOK /\ Fresh /\ [Next]_vars => Fresh'
<1> SUFFICES ASSUME TypeOK, Fresh, [Next]_vars PROVE Fresh'
  OBVIOUS
<1>m. ASSUME NEW p \in Procs, NEW place \in Places \ {"loaded"}, MoveTo(p, place),
             pc[p] \notin {"off", "rest", "out"}
      PROVE Fresh'
  <2>1. \A q \in Procs : Appending(q)' =>
               /\ Appending(q) /\ done'[q] = done[q]
               /\ pc'[q] = pc[q] \/ (~done[q] /\ pc'[q] # "loaded")
    BY <1>m DEF MoveTo, Appending, Fresh, TypeOK
  <2>2. QED BY <1>m, <2>1, FreshQuiet DEF MoveTo
<1>1. ASSUME NEW p \in Procs, Boot(p) \/ Close(p) PROVE Fresh'
  <2>1. \A q \in Procs : Appending(q)' =>
               Appending(q) /\ done'[q] = done[q] /\ pc'[q] = pc[q]
    BY <1>1 DEF Boot, Close, Begin, Appending, TypeOK
  <2>2. QED BY <1>1, <2>1, FreshQuiet DEF Boot, Close
<1>2. ASSUME NEW p \in Procs, Record(p) PROVE Fresh'
  <2>1. /\ built' = built + 1 /\ built \in Nat /\ appended' = appended
        /\ row' = [row EXCEPT ![p] = built + 1]
        /\ pc' = [pc EXCEPT ![p] = "want"] /\ op' = [op EXCEPT ![p] = "append"]
        /\ done' = [done EXCEPT ![p] = FALSE]
    BY <1>2, LedgerAssumption DEF Record, Begin, TypeOK
  <2>2. appended' \subseteq 1..built' /\ built + 1 \notin appended
    BY <2>1 DEF Fresh
  <2>3. \A q \in Procs \ {p} : /\ Appending(q)' <=> Appending(q)
                               /\ row'[q] = row[q] /\ done'[q] = done[q] /\ pc'[q] = pc[q]
    BY <2>1 DEF Appending, TypeOK
  <2>4. row'[p] = built + 1 /\ ~done'[p] /\ pc'[p] = "want"
    BY <2>1 DEF TypeOK
  <2>5. \A q \in Procs \ {p} : Appending(q) => row[q] \in 1..built
    BY DEF Fresh
  <2>6. QED BY <2>1, <2>2, <2>3, <2>4, <2>5 DEF Fresh
<1>3. ASSUME NEW p \in Procs, Create(p) \/ Stat(p) \/ Clear(p) PROVE Fresh'
  BY <1>3, <1>m DEF Create, Stat, Clear, Places
<1>4. ASSUME NEW p \in Procs, AppendBytes(p) PROVE Fresh'
  <2>1. /\ Appending(p) /\ ~done[p] /\ built' = built /\ row' = row /\ op' = op
        /\ pc' = [pc EXCEPT ![p] = "out"]
        /\ \/ done' = [done EXCEPT ![p] = TRUE] /\ appended' = appended \cup {row[p]}
           \/ UNCHANGED <<done, appended>>
    BY <1>4 DEF AppendBytes, Appending, Fresh
  <2>2. \A q \in Procs : Appending(q)' <=> Appending(q)
    BY <2>1, <1>4 DEF Appending, AppendBytes, TypeOK
  <2>3. \A q \in Procs \ {p} : done'[q] = done[q] /\ pc'[q] = pc[q]
    BY <2>1 DEF TypeOK
  <2>4. pc'[p] = "out"
    BY <2>1 DEF TypeOK
  <2>5. CASE UNCHANGED <<done, appended>>
    BY <2>1, <2>2, <2>3, <2>4, <2>5 DEF Fresh
  <2>6. CASE done' = [done EXCEPT ![p] = TRUE] /\ appended' = appended \cup {row[p]}
    <3>1. appended' \subseteq 1..built'
      BY <2>1, <2>6 DEF Fresh
    <3>2. done'[p]
      BY <2>6 DEF TypeOK
    <3>3. QED BY <2>1, <2>2, <2>3, <2>4, <2>6, <3>1, <3>2 DEF Fresh
  <2>7. QED BY <2>1, <2>5, <2>6
<1>5. ASSUME NEW p \in Procs, Load(p) \/ Rewrite(p) PROVE Fresh'
  <2>1. ~Appending(p) /\ ~Appending(p)'
    BY <1>5 DEF Load, Rewrite, Appending, Fresh
  <2>2. \A q \in Procs \ {p} : /\ Appending(q)' <=> Appending(q)
                               /\ done'[q] = done[q] /\ pc'[q] = pc[q]
    BY <1>5 DEF Load, Rewrite, Appending, TypeOK
  <2>3. QED BY <1>5, <2>1, <2>2, FreshQuiet DEF Load, Rewrite
<1>6. ASSUME NEW p \in Procs, TransformFails(p) PROVE Fresh'
  BY <1>6, <1>m DEF TransformFails, Places
<1>7. ASSUME NEW p \in Procs, Release(p) \/ GiveUp(p) PROVE Fresh'
  <2>1. Return(p)
    BY <1>7 DEF Release, GiveUp
  <2>2. \A q \in Procs : Appending(q)' =>
               Appending(q) /\ done'[q] = done[q] /\ pc'[q] = pc[q]
    BY <2>1, ReturnEnds DEF Appending
  <2>3. QED BY <2>1, <2>2, ReturnEnds, FreshQuiet
<1>8. ASSUME NEW p \in Procs, Crash(p) PROVE Fresh'
  <2>1. \A q \in Procs : Appending(q)' =>
               Appending(q) /\ done'[q] = done[q] /\ pc'[q] = pc[q]
    BY <1>8 DEF Crash, Appending, TypeOK
  <2>2. QED BY <1>8, <2>1, FreshQuiet DEF Crash
<1>9. CASE Age
  BY <1>9, FreshQuiet DEF Age, Appending
<1>10. CASE UNCHANGED vars
  BY <1>10, FreshQuiet DEF vars, Appending
<1>11. QED
  BY <1>1, <1>2, <1>3, <1>4, <1>5, <1>6, <1>7, <1>8, <1>9, <1>10 DEF Next

LEMMA HonestQuiet ==
    ASSUME HonestInv, UNCHANGED <<file, mem, good, appended>>,
           \A q \in Procs : Appending(q)' =>
               Appending(q) /\ row'[q] = row[q] /\ (done'[q] => done[q])
    PROVE  HonestInv'
BY DEF HonestInv, Honest

\* What was honest stays honest when more rows are appended.
LEMMA HonestGrows ==
    ASSUME NEW s \in Snapshot, Honest(s), NEW A, appended \subseteq A
    PROVE  \A r \in Rows : Counted(r, s) <= Once(r, A)
<1>1. \A r \in Rows : Once(r, appended) <= Once(r, A)
  BY DEF Once
<1>2. \A r \in Rows : Counted(r, s) \in Nat
  BY CountedNat
<1>3. QED BY <1>1, <1>2, OnceBit DEF Honest

\* Adding an appended row that was not counted is honest.
LEMMA WithRowHonest ==
    ASSUME NEW s \in Snapshot, Honest(s), NEW x \in Rows, Counted(x, s) = 0,
           NEW A, appended \subseteq A, x \in A
    PROVE  \A r \in Rows : Counted(r, WithRow(s, x)) <= Once(r, A)
<1> SUFFICES ASSUME NEW r \in Rows PROVE Counted(r, WithRow(s, x)) <= Once(r, A)
  OBVIOUS
<1>1. Counted(r, WithRow(s, x)) = IF r = x THEN 1 ELSE Counted(r, s)
  BY WithRowCounts
<1>2. Counted(r, s) <= Once(r, A)
  BY HonestGrows
<1>3. QED BY <1>1, <1>2 DEF Once

\* Back in the ledger: a row whose append went through is counted, a transform
\* adopts what it read, or an older copy, or nothing.
LEMMA HonestReturn ==
    ASSUME TypeOK, Fresh, HonestInv, NEW p \in Procs, Return(p), pc[p] # "off",
           pc[p] # "rest"
    PROVE  HonestInv'
<1>a. /\ ~Appending(p)' /\ UNCHANGED <<appended, row, file>>
      /\ \A q \in Procs \ {p} : pc'[q] = pc[q] /\ op'[q] = op[q] /\ done'[q] = done[q]
  BY ReturnEnds
<1>b. \A q \in Procs : Appending(q)' => q # p /\ Appending(q) /\ done'[q] = done[q]
  BY <1>a DEF Appending
<1>c. \A q \in Procs \ {p} : mem'[q] = mem[q] /\ good'[q] = good[q]
  BY DEF Return, NoteRow, TypeOK, ledgerVars
<1>d. SUFFICES Honest(mem[p])' /\ Honest(good[p])'
  BY <1>a, <1>b, <1>c DEF HonestInv, Honest
<1>1. CASE op[p] = "append" /\ done[p]
  <2>1. /\ mem' = [mem EXCEPT ![p] = Fold(WithRow(mem[p], row[p]))]
        /\ good' = IF shared[p] THEN [good EXCEPT ![p] = WithRow(good[p], row[p])] ELSE good
    BY <1>1 DEF Return, NoteRow
  <2>2. /\ row[p] \in Rows /\ mem[p] \in Snapshot /\ good[p] \in Snapshot
        /\ row[p] \in appended
        /\ Honest(mem[p]) /\ Counted(row[p], mem[p]) = 0
        /\ Honest(good[p]) /\ Counted(row[p], good[p]) = 0
    BY <1>1 DEF HonestInv, Appending, TypeOK
  <2>3. \A r \in Rows : Counted(r, Fold(WithRow(mem[p], row[p]))) <= Once(r, appended)
    BY <2>2, WithRowHonest, FoldCounts, WithRowTyped
  <2>4. \A r \in Rows : Counted(r, WithRow(good[p], row[p])) <= Once(r, appended)
    BY <2>2, WithRowHonest
  <2>5. mem'[p] = Fold(WithRow(mem[p], row[p]))
    BY <2>1 DEF TypeOK
  <2>6. good'[p] = WithRow(good[p], row[p]) \/ good'[p] = good[p]
    BY <2>1 DEF TypeOK
  <2>7. QED BY <1>a, <2>2, <2>3, <2>4, <2>5, <2>6 DEF Honest
<1>2. CASE op[p] = "append" /\ ~done[p]
  BY <1>2, <1>a DEF Return, HonestInv, Honest, ledgerVars
<1>3. CASE op[p] # "append"
  <2>1. good' = good /\ (mem'[p] = Empty \/ mem'[p] = good[p])
    BY <1>3 DEF Return, Adopted, TypeOK
  <2>2. Honest(Empty)
    BY EmptyTyped, OnceBit DEF Honest
  <2>3. Honest(good[p])
    BY DEF HonestInv
  <2>4. QED BY <1>a, <2>1, <2>2, <2>3 DEF Honest
<1>4. QED BY <1>1, <1>2, <1>3

LEMMA HonestAppend ==
    ASSUME TypeOK, Fresh, HonestInv, NEW p \in Procs, AppendBytes(p)
    PROVE  HonestInv'
<1>1. /\ Appending(p) /\ ~done[p] /\ row[p] \in Rows /\ row[p] \notin appended
      /\ UNCHANGED <<row, op, mem, good>> /\ pc' = [pc EXCEPT ![p] = "out"]
  BY DEF AppendBytes, Appending, Fresh, TypeOK, ledgerVars
<1>2. \A q \in Procs : Appending(q)' <=> Appending(q)
  BY <1>1 DEF Appending, AppendBytes, TypeOK
<1>3. CASE UNCHANGED <<done, file, appended>>
  BY <1>1, <1>2, <1>3 DEF HonestInv, Honest
<1>4. CASE /\ done' = [done EXCEPT ![p] = TRUE]
           /\ file' = IF torn THEN file ELSE WithRow(file, row[p])
           /\ appended' = appended \cup {row[p]}
  <2>1. file \in Snapshot /\ Honest(file)
        /\ \A q \in Procs : /\ mem[q] \in Snapshot /\ good[q] \in Snapshot
                            /\ Honest(mem[q]) /\ Honest(good[q])
    BY DEF TypeOK, HonestInv
  <2>2. Counted(row[p], file) = 0
    <3>1. Counted(row[p], file) \in Nat /\ Counted(row[p], file) <= Once(row[p], appended)
      BY <1>1, <2>1, CountedNat DEF Honest
    <3>2. QED BY <1>1, <3>1 DEF Once
  <2>3. \A r \in Rows : Counted(r, file') <= Once(r, appended')
    <3>1. \A r \in Rows : Counted(r, file) <= Once(r, appended')
      BY <1>4, <2>1, HonestGrows
    <3>2. \A r \in Rows : Counted(r, WithRow(file, row[p])) <= Once(r, appended')
      BY <1>1, <1>4, <2>1, <2>2, WithRowHonest
    <3>3. QED BY <1>4, <3>1, <3>2
  <2>4. \A q \in Procs : \A r \in Rows : /\ Counted(r, mem[q]) <= Once(r, appended')
                                         /\ Counted(r, good[q]) <= Once(r, appended')
    BY <1>4, <2>1, HonestGrows
  <2>5. \A q \in Procs : Appending(q) /\ done'[q] => row[q] \in appended'
    BY <1>1, <1>4 DEF HonestInv, TypeOK
  <2>6. QED BY <1>1, <1>2, <2>3, <2>4, <2>5 DEF HonestInv, Honest
<1>5. QED BY <1>3, <1>4 DEF AppendBytes

LEMMA HonestStep == TypeOK /\ Fresh /\ HonestInv /\ [Next]_vars => HonestInv'
<1> SUFFICES ASSUME TypeOK, Fresh, HonestInv, [Next]_vars PROVE HonestInv'
  OBVIOUS
<1>m. ASSUME NEW p \in Procs, NEW place \in Places, MoveTo(p, place), file' = file,
             pc[p] \notin {"off", "rest"}
      PROVE HonestInv'
  BY <1>m, HonestQuiet DEF MoveTo, Appending, ledgerVars, TypeOK
<1>1. ASSUME NEW p \in Procs, Boot(p) PROVE HonestInv'
  <2>1. /\ mem' = [mem EXCEPT ![p] = Empty] /\ good' = [good EXCEPT ![p] = Empty]
        /\ UNCHANGED <<file, row, appended>>
        /\ ~Appending(p)'
        /\ \A q \in Procs \ {p} : /\ Appending(q)' <=> Appending(q)
                                  /\ done'[q] = done[q]
    BY <1>1 DEF Boot, Begin, Appending, TypeOK, fileVars
  <2>2. mem'[p] = Empty /\ good'[p] = Empty
        /\ \A q \in Procs \ {p} : mem'[q] = mem[q] /\ good'[q] = good[q]
    BY <2>1 DEF TypeOK
  <2>3. Honest(Empty)
    BY EmptyTyped, OnceBit DEF Honest
  <2>4. QED BY <2>1, <2>2, <2>3 DEF HonestInv, Honest
<1>2. ASSUME NEW p \in Procs, Record(p) PROVE HonestInv'
  <2>1. /\ built' = built + 1 /\ built \in Nat /\ built + 1 \in Rows
        /\ UNCHANGED <<file, mem, good, appended>>
        /\ row' = [row EXCEPT ![p] = built + 1]
        /\ pc' = [pc EXCEPT ![p] = "want"] /\ op' = [op EXCEPT ![p] = "append"]
        /\ done' = [done EXCEPT ![p] = FALSE]
    BY <1>2, LedgerAssumption DEF Record, Begin, TypeOK, fileVars, ledgerVars, Rows
  <2>2. built + 1 \notin appended
    BY <2>1 DEF Fresh
  <2>3. \A s \in Snapshot : Honest(s) => Counted(built + 1, s) = 0
    <3>1. \A s \in Snapshot : Counted(built + 1, s) \in Nat
      BY <2>1, CountedNat
    <3>2. Once(built + 1, appended) = 0
      BY <2>2 DEF Once
    <3>3. QED BY <2>1, <3>1, <3>2 DEF Honest
  <2>4. \A q \in Procs \ {p} : /\ Appending(q)' <=> Appending(q)
                               /\ row'[q] = row[q] /\ done'[q] = done[q]
    BY <2>1 DEF Appending, TypeOK
  <2>5. row'[p] = built + 1 /\ ~done'[p]
    BY <2>1 DEF TypeOK
  <2>6. Counted(built + 1, mem[p]) = 0 /\ Counted(built + 1, good[p]) = 0
    BY <2>3 DEF HonestInv, TypeOK
  <2>7. QED BY <2>1, <2>4, <2>5, <2>6 DEF HonestInv, Honest
<1>3. ASSUME NEW p \in Procs, Close(p) PROVE HonestInv'
  <2>1. \A q \in Procs : Appending(q)' => Appending(q) /\ done'[q] = done[q]
    BY <1>3 DEF Close, Begin, Appending, TypeOK
  <2>2. QED BY <1>3, <2>1, HonestQuiet DEF Close, fileVars, ledgerVars
<1>4. ASSUME NEW p \in Procs, Create(p) \/ Stat(p) \/ Clear(p) PROVE HonestInv'
  BY <1>4, <1>m DEF Create, Stat, Clear, Places
<1>5. ASSUME NEW p \in Procs, AppendBytes(p) PROVE HonestInv'
  BY <1>5, HonestAppend
<1>6. ASSUME NEW p \in Procs, Load(p) \/ Rewrite(p) PROVE HonestInv'
  <2>1. ~Appending(p) /\ ~Appending(p)' /\ UNCHANGED <<mem, row, appended>>
        /\ \A q \in Procs \ {p} : /\ Appending(q)' <=> Appending(q)
                                  /\ done'[q] = done[q] /\ good'[q] = good[q]
    BY <1>6 DEF Load, Rewrite, Appending, Fresh, TypeOK, fileVars, ledgerVars
  <2>2. Honest(file)' /\ Honest(good[p])'
    <3>1. Honest(file) /\ Honest(good[p])
      BY DEF HonestInv
    <3>2. CASE UNCHANGED <<file, good>>
      BY <2>1, <3>1, <3>2 DEF Honest
    <3>3. CASE file' = file /\ good' = [good EXCEPT ![p] = file]
      <4>1. good'[p] = file
        BY <3>3 DEF TypeOK
      <4>2. QED BY <2>1, <3>1, <3>3, <4>1 DEF Honest
    <3>4. CASE file' = Fold(good[p]) /\ good' = [good EXCEPT ![p] = file']
      <4>1. \A r \in Rows : Counted(r, Fold(good[p])) <= Once(r, appended)
        BY <3>1, FoldCounts DEF Honest, TypeOK
      <4>2. good'[p] = file'
        BY <3>4 DEF TypeOK
      <4>3. QED BY <2>1, <3>4, <4>1, <4>2 DEF Honest
    <3>5. QED BY <1>6, <3>2, <3>3, <3>4 DEF Load, Rewrite, fileVars
  <2>3. QED BY <2>1, <2>2 DEF HonestInv, Honest
<1>7. ASSUME NEW p \in Procs, TransformFails(p) PROVE HonestInv'
  BY <1>7, <1>m DEF TransformFails, Places, fileVars
<1>8. ASSUME NEW p \in Procs, Release(p) \/ GiveUp(p) PROVE HonestInv'
  BY <1>8, HonestReturn DEF Release, GiveUp
<1>9. ASSUME NEW p \in Procs, Crash(p) PROVE HonestInv'
  <2>1. \A q \in Procs : Appending(q)' => Appending(q) /\ done'[q] = done[q]
    BY <1>9 DEF Crash, Appending, TypeOK
  <2>2. QED BY <1>9, <2>1, HonestQuiet DEF Crash, ledgerVars
<1>10. CASE Age
  BY <1>10, HonestQuiet DEF Age, Appending, ledgerVars
<1>11. CASE UNCHANGED vars
  BY <1>11, HonestQuiet DEF vars, Appending, fileVars, ledgerVars
<1>12. QED
  BY <1>1, <1>2, <1>3, <1>4, <1>5, <1>6, <1>7, <1>8, <1>9, <1>10, <1>11 DEF Next

LEMMA InitHonest == Init => Fresh /\ HonestInv
<1> SUFFICES ASSUME Init PROVE Fresh /\ HonestInv
  OBVIOUS
<1>1. Honest(Empty)
  BY EmptyTyped, OnceBit DEF Honest
<1>2. \A p \in Procs : ~Appending(p)
  BY DEF Init, Appending
<1>3. QED BY <1>1, <1>2 DEF Init, Fresh, HonestInv

\* No process ever shows a row twice or one that was never written, under
\* every fault: torn writes, locks cleared under a live holder, crashes.
THEOREM Honesty == Spec => []TotalsHonest
<1>1. HonestInv => TotalsHonest
  BY DEF HonestInv, Honest, TotalsHonest
<1>2. QED BY <1>1, InitHonest, FreshStep, HonestStep, TypeCorrect, PTL DEF Spec

-------------------------------------------------------------------------------
(* What the file says *)

\* Without faults nothing is half written, and who has loaded the file holds
\* what it still says.
Synced ==
    faults = {} =>
        /\ torn = FALSE
        /\ \A p \in Procs : pc[p] = "loaded" => good[p] = file
        /\ FileCountsAppended

LEMMA SyncedQuiet ==
    ASSUME Synced, UNCHANGED <<faults, file, appended>>,
           faults = {} => torn' = torn,
           \A q \in Procs : pc'[q] = "loaded" => pc[q] = "loaded" /\ good'[q] = good[q]
    PROVE  Synced'
BY DEF Synced, FileCountsAppended

\* The lock makes whoever is inside the only one there.
LEMMA Alone ==
    ASSUME MutexInv, faults = {}, NEW p \in Holders, NEW q \in Holders
    PROVE  q = p
BY DEF MutexInv, Guarded

LEMMA SyncedAppend ==
    ASSUME TypeOK, MutexInv, Fresh, Synced, NEW p \in Procs, AppendBytes(p)
    PROVE  Synced'
<1> SUFFICES ASSUME faults = {}
             PROVE  /\ torn' = FALSE
                    /\ \A q \in Procs : pc'[q] = "loaded" => good'[q] = file'
                    /\ FileCountsAppended'
  BY DEF Synced, AppendBytes
<1>1. /\ pc[p] = "in" /\ pc' = [pc EXCEPT ![p] = "out"] /\ row[p] \in Rows
      /\ row[p] \notin appended /\ torn = FALSE /\ FileCountsAppended
  BY DEF AppendBytes, TypeOK, Fresh, Appending, Synced
<1>2. \A q \in Procs : pc'[q] # "loaded"
  BY <1>1, Alone DEF Holders, TypeOK
<1>3. torn' = FALSE
  BY <1>1 DEF AppendBytes
<1>4. FileCountsAppended'
  <2>1. CASE UNCHANGED <<file, appended>>
    BY <1>1, <2>1 DEF FileCountsAppended
  <2>2. CASE file' = WithRow(file, row[p]) /\ appended' = appended \cup {row[p]}
    <3>1. Counted(row[p], file) = 0
      BY <1>1 DEF FileCountsAppended, Once
    <3>2. \A r \in Rows : Counted(r, WithRow(file, row[p]))
                             = IF r = row[p] THEN 1 ELSE Counted(r, file)
      BY <1>1, <3>1, WithRowCounts DEF TypeOK
    <3>3. \A r \in Rows : Once(r, appended') = IF r = row[p] THEN 1 ELSE Once(r, appended)
      BY <2>2 DEF Once
    <3>4. QED BY <1>1, <2>2, <3>2, <3>3 DEF FileCountsAppended
  <2>3. QED BY <1>1, <2>1, <2>2 DEF AppendBytes
<1>5. QED BY <1>2, <1>3, <1>4

LEMMA SyncedRewrite ==
    ASSUME TypeOK, MutexInv, Synced, NEW p \in Procs, Rewrite(p)
    PROVE  Synced'
<1> SUFFICES ASSUME faults = {}
             PROVE  /\ torn' = FALSE
                    /\ \A q \in Procs : pc'[q] = "loaded" => good'[q] = file'
                    /\ FileCountsAppended'
  BY DEF Synced, Rewrite
<1>1. /\ pc[p] = "loaded" /\ pc' = [pc EXCEPT ![p] = "out"] /\ appended' = appended
      /\ torn = FALSE /\ FileCountsAppended /\ good[p] = file
  BY DEF Rewrite, Synced
<1>2. \A q \in Procs : pc'[q] # "loaded"
  BY <1>1, Alone DEF Holders, TypeOK
<1>3. torn' = FALSE /\ file' = Fold(file)
  BY <1>1 DEF Rewrite
<1>4. \A r \in Rows : Counted(r, Fold(file)) = Counted(r, file)
  BY FoldCounts DEF TypeOK
<1>5. FileCountsAppended'
  BY <1>1, <1>3, <1>4 DEF FileCountsAppended
<1>6. QED BY <1>2, <1>3, <1>5

LEMMA SyncedStep == TypeOK /\ MutexInv /\ Fresh /\ Synced /\ [Next]_vars => Synced'
<1> SUFFICES ASSUME TypeOK, MutexInv, Fresh, Synced, [Next]_vars PROVE Synced'
  OBVIOUS
<1>m. ASSUME NEW p \in Procs, NEW place \in Places \ {"loaded"}, MoveTo(p, place),
             UNCHANGED <<faults, file, torn>>
      PROVE Synced'
  BY <1>m, SyncedQuiet DEF MoveTo, TypeOK
<1>1. ASSUME NEW p \in Procs, Boot(p) \/ Record(p) \/ Close(p) PROVE Synced'
  <2>1. \A q \in Procs : pc'[q] = "loaded" => pc[q] = "loaded" /\ good'[q] = good[q]
    BY <1>1 DEF Boot, Record, Close, Begin, TypeOK
  <2>2. QED BY <1>1, <2>1, SyncedQuiet DEF Boot, Record, Close, fileVars
<1>2. ASSUME NEW p \in Procs, Create(p) \/ Stat(p) \/ Clear(p) PROVE Synced'
  BY <1>2, <1>m DEF Create, Stat, Clear, Places
<1>3. ASSUME NEW p \in Procs, AppendBytes(p) PROVE Synced'
  BY <1>3, SyncedAppend
<1>4. ASSUME NEW p \in Procs, Load(p) PROVE Synced'
  <2>1. \A q \in Procs : pc'[q] = "loaded" =>
            good'[q] = file \/ (pc[q] = "loaded" /\ good'[q] = good[q])
    BY <1>4 DEF Load, TypeOK
  <2>2. QED BY <1>4, <2>1 DEF Load, fileVars, Synced, FileCountsAppended
<1>5. ASSUME NEW p \in Procs, Rewrite(p) PROVE Synced'
  BY <1>5, SyncedRewrite
<1>6. ASSUME NEW p \in Procs, TransformFails(p) PROVE Synced'
  BY <1>6, <1>m DEF TransformFails, Places, fileVars
<1>7. ASSUME NEW p \in Procs, Release(p) \/ GiveUp(p) PROVE Synced'
  <2>1. Return(p) /\ UNCHANGED <<faults, file, torn, appended>>
    BY <1>7 DEF Release, GiveUp, Return
  <2>2. \A q \in Procs \ {p} : good'[q] = good[q]
    BY <2>1 DEF Return, NoteRow, TypeOK
  <2>3. \A q \in Procs : pc'[q] = "loaded" => q # p /\ pc[q] = "loaded"
    BY <2>1, ReturnPlace DEF TypeOK
  <2>4. QED BY <2>1, <2>2, <2>3, SyncedQuiet
<1>8. ASSUME NEW p \in Procs, Crash(p) PROVE Synced'
  <2>1. \A q \in Procs : pc'[q] = "loaded" => pc[q] = "loaded" /\ good'[q] = good[q]
    BY <1>8 DEF Crash, TypeOK
  <2>2. faults = {} => torn' = torn
    BY <1>8 DEF Crash, TypeOK
  <2>3. QED BY <1>8, <2>1, <2>2, SyncedQuiet DEF Crash
<1>9. CASE Age
  BY <1>9, SyncedQuiet DEF Age
<1>10. CASE UNCHANGED vars
  BY <1>10, SyncedQuiet DEF vars, fileVars
<1>11. QED
  BY <1>1, <1>2, <1>3, <1>4, <1>5, <1>6, <1>7, <1>8, <1>9, <1>10 DEF Next

\* The file counts every row completely written to it exactly once, whatever
\* the processes append, fold, fail and crash in between, as long as the lock
\* and the writes are not faulty.
THEOREM Conservation == Spec => []Conserved
<1>1. Init => MutexInv
  BY DEF Init, MutexInv, Holders
<1>2. Init => Synced
  BY EmptyTyped DEF Init, Synced, FileCountsAppended, Once
<1>3. Synced => Conserved
  BY DEF Synced, Conserved
<1>4. QED
  BY <1>1, <1>2, <1>3, InitHonest, MutexStep, FreshStep, SyncedStep, TypeCorrect,
     PTL DEF Spec
=============================================================================
