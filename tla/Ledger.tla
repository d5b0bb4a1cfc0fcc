-------------------------------- MODULE Ledger --------------------------------
(***************************************************************************)
(* The usage ledger shared by sibling pi processes: CacheLedger, which     *)
(* counts rows in memory and folds those past the retention window into a  *)
(* baseline, and FileRecordSink, which appends and rewrites one file under *)
(* a lock file.  Processes interleave between the file operations of one   *)
(* another; within a process every call is synchronous.                    *)
(*                                                                         *)
(* A row is its place in the order rows were built, which is the order of  *)
(* (ts, seq) that normalize sorts by (two rows built in one millisecond by *)
(* two processes are left out).  The baseline, a sum over evicted rows, is *)
(* represented by how often it counts each row.                            *)
(***************************************************************************)
EXTENDS Integers, FiniteSets

CONSTANTS
    Procs,          \* pi processes sharing the file
    MaxRows,        \* the retention window
    RowLimit,       \* bound: rows built
    FaultSets       \* sets of faults a behaviour may be exposed to

\* A process runs between another's stat and rm of a stale lock; a live holder
\* is stalled past LOCK_STALE_MS; an append stops half way.
AllFaults == {"race", "stall", "torn"}

ASSUME LedgerAssumption ==
    /\ MaxRows \in Nat \ {0}
    /\ RowLimit \in Nat
    /\ FaultSets \subseteq SUBSET AllFaults

VARIABLES
    faults,     \* the faults of this behaviour
    file,       \* the file: base and rows
    ordered,    \* are its rows in the order they were built?
    torn,       \* does it end in half a row, without a newline?
    lock,       \* the lock file: "none", "fresh" or "old" (> LOCK_STALE_MS)
    pc,         \* where each process is in the sink, "off" or "rest"
    op,         \* what it is there for: "append", "compact" or "close"
    row,        \* the row it appends
    done,       \* did the append go through; did the transform find no file?
    mem,        \* CacheLedger: baseline and rows
    good,       \* FileRecordSink.lastGood
    shared,     \* are the two row lists the same array?
    since,      \* appendsSinceCompact
    built,      \* rows built so far
    appended    \* history: rows completely written to the file

fileVars == <<faults, file, ordered, torn, lock>>
ledgerVars == <<mem, shared, since>>
vars == <<fileVars, pc, op, row, done, ledgerVars, good, built, appended>>

-------------------------------------------------------------------------------
(* Rows and snapshots.  As in Compaction, X_Y is a wrong variant of X that a *)
(* property notices; nothing here uses it.                                  *)

Rows == 1..RowLimit
Snapshot == [base : [Rows -> Nat], rows : SUBSET Rows]
Empty == [base |-> [r \in Rows |-> 0], rows |-> {}]

\* The processes that hold the lock, or think so.
Holders == {p \in Procs : pc[p] \in {"in", "loaded", "out"}}

\* how often the set S of rows counts r
Once(r, S) == IF r \in S THEN 1 ELSE 0

\* splitIndex: what does not fit in the window
Evicted(rows) == {r \in rows : Cardinality({t \in rows : t > r}) >= MaxRows}

\* enforceRetention's fold, and the ledger's own trim()
Fold_DropsEvicted(s) == [base |-> s.base, rows |-> s.rows \ Evicted(s.rows)]
Fold(s) ==
    [base |-> [r \in Rows |-> s.base[r] + Once(r, Evicted(s.rows))],
     rows |-> s.rows \ Evicted(s.rows)]

WithRow(s, r) == [s EXCEPT !.rows = @ \cup {r}]

\* how often the totals of s count r
Counted(r, s) == s.base[r] + Once(r, s.rows)

\* Nothing was ever written, so there is no file to read.
Missing == file = Empty /\ ~torn

-------------------------------------------------------------------------------
(* Calls into the ledger *)

Init ==
    /\ faults \in FaultSets
    /\ file = Empty /\ ordered = TRUE /\ torn = FALSE /\ lock = "none"
    /\ pc = [p \in Procs |-> "off"]
    /\ op = [p \in Procs |-> "compact"]
    /\ row = [p \in Procs |-> 0]
    /\ done = [p \in Procs |-> FALSE]
    /\ mem = [p \in Procs |-> Empty]
    /\ good = [p \in Procs |-> Empty]
    /\ shared = [p \in Procs |-> FALSE]
    /\ since = [p \in Procs |-> 0]
    /\ built = 0
    /\ appended = {}

\* p starts the sink operation o.
Begin(p, o) ==
    /\ pc' = [pc EXCEPT ![p] = "want"]
    /\ op' = [op EXCEPT ![p] = o]
    /\ done' = [done EXCEPT ![p] = FALSE]

\* The constructor of a starting process, which reconciles with the file.
Boot(p) ==
    /\ pc[p] = "off"
    /\ Begin(p, "compact")
    /\ mem' = [mem EXCEPT ![p] = Empty]
    /\ good' = [good EXCEPT ![p] = Empty]
    /\ shared' = [shared EXCEPT ![p] = FALSE]
    /\ since' = [since EXCEPT ![p] = 0]
    /\ UNCHANGED <<fileVars, row, built, appended>>

\* record or recordWarm, with usage and telemetry on
Record(p) ==
    /\ pc[p] = "rest"
    /\ built < RowLimit
    /\ built' = built + 1
    /\ row' = [row EXCEPT ![p] = built + 1]
    /\ Begin(p, "append")
    /\ UNCHANGED <<fileVars, ledgerVars, good, appended>>

\* close, at session_shutdown
Close(p) ==
    /\ pc[p] = "rest"
    /\ Begin(p, "close")
    /\ UNCHANGED <<fileVars, row, ledgerVars, good, built, appended>>

-------------------------------------------------------------------------------
(* The lock *)

MoveTo(p, place) ==
    /\ pc' = [pc EXCEPT ![p] = place]
    /\ UNCHANGED <<op, row, done, ledgerVars, good, built, appended>>

\* writeFileSync(lock, ..., {flag: "wx"}), first and second attempt
Create(p) ==
    /\ pc[p] \in {"want", "again"}
    /\ IF lock = "none"
         THEN lock' = "fresh" /\ MoveTo(p, "in")
         ELSE /\ MoveTo(p, IF pc[p] = "want" THEN "stat" ELSE "want")
              /\ UNCHANGED lock
    /\ UNCHANGED <<faults, file, ordered, torn>>

\* clearStaleLock: look at the lock's age, and remove it when it is old
Stat_AnyAge(p) ==
    /\ pc[p] = "stat"
    /\ lock' = "none" /\ MoveTo(p, "again")
    /\ UNCHANGED <<faults, file, ordered, torn>>
Stat(p) ==
    /\ pc[p] = "stat"
    /\ IF lock # "old" THEN MoveTo(p, "want") /\ UNCHANGED lock
       ELSE IF "race" \in faults THEN MoveTo(p, "clear") /\ UNCHANGED lock
       ELSE MoveTo(p, "again") /\ lock' = "none"
    /\ UNCHANGED <<faults, file, ordered, torn>>

Clear(p) ==
    /\ pc[p] = "clear"
    /\ lock' = "none"
    /\ MoveTo(p, "again")
    /\ UNCHANGED <<faults, file, ordered, torn>>

-------------------------------------------------------------------------------
(* Under the lock *)

\* appendBytes: a complete row, one that joins half a row and is lost with it
\* (parse skips the line), or a failure that may leave half a row
AppendBytes(p) ==
    /\ pc[p] = "in" /\ op[p] = "append"
    /\ pc' = [pc EXCEPT ![p] = "out"]
    /\ \/ /\ done' = [done EXCEPT ![p] = TRUE]
          /\ IF torn THEN UNCHANGED <<file, ordered>>
             ELSE /\ file' = WithRow(file, row[p])
                  /\ ordered' = (ordered /\ \A r \in file.rows : r < row[p])
          /\ torn' = FALSE
          /\ appended' = appended \cup {row[p]}
       \/ /\ torn' = (torn \/ "torn" \in faults)
          /\ UNCHANGED <<done, file, ordered, appended>>
       \/ UNCHANGED <<done, file, ordered, torn, appended>>
    /\ UNCHANGED <<faults, lock, op, row, ledgerVars, good, built>>

\* snapshotEqual of enforceRetention: nothing to evict and nothing to sort
InOrder == Evicted(file.rows) = {} /\ ordered

\* transform: load, which leaves lastGood alone when there is no file (and
\* there is then nothing to write), and decide at once whether to write ...
Load(p) ==
    /\ pc[p] = "in" /\ op[p] # "append"
    /\ IF Missing
         THEN /\ done' = [done EXCEPT ![p] = TRUE]
              /\ pc' = [pc EXCEPT ![p] = "out"]
              /\ UNCHANGED <<good, shared>>
         ELSE /\ good' = [good EXCEPT ![p] = file]
              /\ shared' = [shared EXCEPT ![p] = FALSE]
              /\ pc' = [pc EXCEPT ![p] = IF InOrder THEN "out" ELSE "loaded"]
              /\ UNCHANGED done
    /\ UNCHANGED <<fileVars, op, row, mem, since, built, appended>>

\* ... and write what enforceRetention keeps of what was loaded
Rewrite(p) ==
    /\ pc[p] = "loaded"
    /\ pc' = [pc EXCEPT ![p] = "out"]
    /\ file' = Fold(good[p])
    /\ good' = [good EXCEPT ![p] = file']
    /\ ordered' = TRUE
    /\ torn' = FALSE
    /\ UNCHANGED <<faults, lock, op, row, done, ledgerVars, built, appended>>

\* the file cannot be read or replaced: it stays as it was
TransformFails(p) ==
    /\ pc[p] = "loaded" \/ (pc[p] = "in" /\ op[p] # "append")
    /\ MoveTo(p, "out")
    /\ UNCHANGED fileVars

-------------------------------------------------------------------------------
(* Back in the ledger *)

\* after append returned true: push, trim, maybeCompactFile
CompactDue_OffByOne(p) == since[p] + 1 > MaxRows
CompactDue(p) == since[p] + 1 >= MaxRows

NoteRow(p) ==
    LET grown == WithRow(mem[p], row[p])
    IN  /\ mem' = [mem EXCEPT ![p] = Fold(grown)]
        /\ good' = IF shared[p] THEN [good EXCEPT ![p] = WithRow(@, row[p])] ELSE good
        /\ shared' = [shared EXCEPT ![p] = @ /\ Evicted(grown.rows) = {}]
        /\ since' = [since EXCEPT ![p] = IF CompactDue(p) THEN 0 ELSE @ + 1]
        /\ IF CompactDue(p) THEN Begin(p, "compact")
           ELSE pc' = [pc EXCEPT ![p] = "rest"] /\ UNCHANGED <<op, done>>

\* what enforceRetention adopts: the snapshot read or written, lastGood when
\* that failed, nothing when there is no file
Adopted_Merges(p) == [good[p] EXCEPT !.rows = @ \cup mem[p].rows]
Adopted(p) == IF done[p] THEN Empty ELSE good[p]

\* the lock is released, or never was had, and the call returns
Return(p) ==
    /\ IF op[p] = "append"
         THEN IF done[p] THEN NoteRow(p)
              ELSE /\ pc' = [pc EXCEPT ![p] = "rest"]
                   /\ UNCHANGED <<op, done, ledgerVars, good>>
         ELSE /\ mem' = [mem EXCEPT ![p] = Adopted(p)]
              /\ shared' = [shared EXCEPT ![p] = ~done[p]]
              /\ pc' = [pc EXCEPT ![p] = IF op[p] = "close" THEN "off" ELSE "rest"]
              /\ UNCHANGED <<op, done, since, good>>
    /\ UNCHANGED <<faults, file, ordered, torn, row, built, appended>>

Release(p) ==
    /\ pc[p] = "out"
    /\ lock' = "none"
    /\ Return(p)

\* the directory cannot be made, or twenty attempts met a lock
GiveUp(p) ==
    /\ pc[p] = "want"
    /\ Return(p)
    /\ UNCHANGED lock

-------------------------------------------------------------------------------
(* The environment *)

\* A process dies; an append under way may have got half way.
Crash(p) ==
    /\ pc[p] # "off"
    /\ pc' = [pc EXCEPT ![p] = "off"]
    /\ torn' \in {torn, torn \/ ("torn" \in faults /\ pc[p] = "in" /\ op[p] = "append")}
    /\ UNCHANGED <<faults, file, ordered, lock, op, row, done, ledgerVars, good,
                   built, appended>>

\* A lock left behind gets old; so does one whose holder is stalled.
Age ==
    /\ lock = "fresh"
    /\ "stall" \in faults \/ Holders = {}
    /\ lock' = "old"
    /\ UNCHANGED <<faults, file, ordered, torn, pc, op, row, done, ledgerVars, good,
                   built, appended>>

Next ==
    \/ \E p \in Procs :
          \/ Boot(p) \/ Record(p) \/ Close(p)
          \/ Create(p) \/ Stat(p) \/ Clear(p)
          \/ AppendBytes(p) \/ Load(p) \/ Rewrite(p) \/ TransformFails(p)
          \/ Release(p) \/ GiveUp(p)
          \/ Crash(p)
    \/ Age

Spec == Init /\ [][Next]_vars

-------------------------------------------------------------------------------
(* Properties *)

Places == {"off", "rest", "want", "stat", "clear", "again", "in", "loaded", "out"}

TypeOK ==
    /\ faults \in SUBSET AllFaults
    /\ file \in Snapshot /\ {ordered, torn} \subseteq BOOLEAN
    /\ lock \in {"none", "fresh", "old"}
    /\ pc \in [Procs -> Places]
    /\ op \in [Procs -> {"append", "compact", "close"}]
    /\ row \in [Procs -> 0..RowLimit]
    /\ \A p \in Procs : op[p] = "append" => row[p] \in Rows
    /\ done \in [Procs -> BOOLEAN]
    /\ mem \in [Procs -> Snapshot]
    /\ good \in [Procs -> Snapshot]
    /\ shared \in [Procs -> BOOLEAN]
    /\ since \in [Procs -> 0..(MaxRows - 1)]
    /\ built \in 0..RowLimit
    /\ appended \subseteq Rows

\* ledger.ts:9: "`global = baseline + retained rows` holds at every committed
\* state", and sink.ts:10, the lifetime totals "stay tied to persisted bytes".
\* Whatever siblings append, fold and crash in between, the file counts every
\* row completely written to it, and counts it once.
FileCountsAppended == \A r \in Rows : Counted(r, file) = Once(r, appended)

\* That holds as long as stale locks are cleared in one go, no holder is
\* stalled and no write is torn; each of the three breaks it.
Conserved == faults = {} => FileCountsAppended

\* sink.ts:7: operations are "serialized by a same-dir lock so sibling
\* processes cannot clobber each other".
Serialized == faults \cap {"race", "stall"} = {} => \A p, q \in Holders : p = q

\* ledger.ts:280: "the local rows are never merged back in, or rows another
\* process already folded into the baseline would be resurrected".  No process
\* ever shows a total that counts a row twice or one that was not written,
\* whatever fails.
TotalsHonest ==
    \A p \in Procs : pc[p] # "off" =>
        \A r \in Rows : Counted(r, mem[p]) <= Once(r, appended)
===============================================================================
