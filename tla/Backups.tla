------------------------------ MODULE Backups ------------------------------
(***************************************************************************)
(* The backup directory that sibling processes share: before a shrinking   *)
(* rewrite a process captures the ledger's bytes into it and prunes it; a  *)
(* starting process prunes it too, outside of any lock.  A capture is a    *)
(* copy to a temporary name and a rename; a prune sweeps abandoned         *)
(* temporaries, reads the directory, reads each file's state and walks the *)
(* listing.  Processes interleave between these moves, stall and die.      *)
(* X_Y is a wrong variant of X; nothing here uses it.                      *)
(***************************************************************************)
EXTENDS Integers, FiniteSetsExt

CONSTANTS
    Procs,
    Keep, TtlMs, MaxBytes,  \* BackupOptions; 0 disables the last two
    StaleMs,                \* TempSweeper's grace
    Sizes,                  \* sizes a ledger may have
    MaxTime, MaxCaptures    \* bounds: the clock, captures in all

ASSUME BackupsAssumption ==
    /\ {Keep, TtlMs, MaxBytes, MaxTime, MaxCaptures} \subseteq Nat
    /\ Sizes \subseteq Nat \ {0} /\ StaleMs \in Nat \ {0}

VARIABLES
    now,
    dir,        \* the files: name, mtime, size; temporaries among them
    captures,   \* names given out; a name is unique (pid, sequence and stamp)
    run,        \* each process: its phase, the copy under way, the names it read, its
                \* walk's clock, what is left of the listing, and kept and bytes
    newest,     \* history: the newest backup within the size cap that got its name
    quiet       \* history: the process whose prune nothing has disturbed yet

vars == <<now, dir, captures, run, newest, quiet>>

-------------------------------------------------------------------------------
NoFile == [name |-> 0, at |-> 0, size |-> 0, temp |-> TRUE]

\* list: the order by mtime, then by name, newest first
Newer(a, b) == a.at > b.at \/ (a.at = b.at /\ a.name > b.name)
Before_Reversed(a, b) == Newer(b, a)
Before(a, b) == Newer(a, b)

Backups == {f \in dir : ~f.temp}

Expired(f, clock) == TtlMs > 0 /\ f.at < clock - TtlMs
TooMuch(size) == MaxBytes > 0 /\ size > MaxBytes
Over_PastKeep(f, r) == r.kept > Keep \/ Expired(f, r.began) \/ TooMuch(r.bytes + f.size)
Over(f, r) == r.kept >= Keep \/ Expired(f, r.began) \/ TooMuch(r.bytes + f.size)

Phase(phase) ==
    [phase |-> phase, tmp |-> NoFile, names |-> {}, began |-> 0, walk |-> {}, kept |-> 0, bytes |-> 0]
Idle(p) == run[p].phase = "idle"
In(p, phase) == run[p].phase = phase
Become(p, r) == run' = [run EXCEPT ![p] = r]
Disturb == quiet' = {}
Undisturbed(p) == quiet' = quiet \cap {p}

Init ==
    /\ now = 0 /\ dir = {} /\ captures = 0
    /\ run = [p \in Procs |-> Phase("idle")]
    /\ newest = NoFile /\ quiet = {}

Tick ==
    /\ now < MaxTime /\ now' = now + 1 /\ Disturb
    /\ UNCHANGED <<dir, captures, run, newest>>

\* storeCopy, the copy
Copy(p) ==
    /\ Idle(p) /\ captures < MaxCaptures /\ captures' = captures + 1
    /\ \E size \in Sizes :
        LET f == [name |-> captures + 1, at |-> now, size |-> size, temp |-> TRUE]
        IN  Become(p, [Phase("rename") EXCEPT !.tmp = f]) /\ dir' = dir \cup {f}
    /\ Disturb /\ UNCHANGED <<now, newest>>

\* AtomicFile.replace; without its temporary the rename fails and nothing is stored.
\* The prune follows either way.
Rename(p) ==
    LET tmp == run[p].tmp
        f == [tmp EXCEPT !.temp = FALSE]
    IN  /\ In(p, "rename") /\ Become(p, Phase("sweep"))
        /\ dir' = IF tmp \in dir THEN (dir \ {tmp}) \cup {f} ELSE dir
        /\ newest' = IF tmp \in dir /\ ~TooMuch(f.size) /\ (newest = NoFile \/ Newer(f, newest))
                     THEN f ELSE newest
        /\ Disturb /\ UNCHANGED <<now, captures>>

\* A process starts and prunes; or the copy of a capture failed, and the prune follows.
Start(p) ==
    /\ Idle(p) /\ Become(p, Phase("sweep"))
    /\ Disturb /\ UNCHANGED <<now, dir, captures, newest>>

\* TempSweeper.sweep, and the cutoff
Sweep(p) ==
    /\ In(p, "sweep") /\ Become(p, [Phase("read") EXCEPT !.began = now])
    /\ dir' = {f \in dir : f.temp => f.at > now - StaleMs}
    /\ quiet' = {p} /\ UNCHANGED <<now, captures, newest>>

\* list: readdir
ReadDir(p) ==
    /\ In(p, "read")
    /\ Become(p, [run[p] EXCEPT !.phase = "stat", !.names = {f.name : f \in Backups}])
    /\ Undisturbed(p) /\ UNCHANGED <<now, dir, captures, newest>>

\* list: stat; a name that has vanished empties the listing
Stat(p) ==
    LET found == {f \in Backups : f.name \in run[p].names}
        listing == IF {f.name : f \in found} = run[p].names THEN found ELSE {}
    IN  /\ In(p, "stat")
        /\ Become(p, [run[p] EXCEPT !.phase = "walk", !.names = {}, !.walk = listing])
        /\ Undisturbed(p) /\ UNCHANGED <<now, dir, captures, newest>>

\* The next file of the greedy pass; the removal is forced and may find nothing.
Visit(p) ==
    LET r == run[p]
    IN  /\ In(p, "walk")
        /\ \E f \in r.walk :
            /\ \A g \in r.walk \ {f} : Before(f, g)
            /\ IF Over(f, r)
               THEN dir' = dir \ {f} /\ Become(p, [r EXCEPT !.walk = @ \ {f}])
               ELSE /\ UNCHANGED dir
                    /\ Become(p, [r EXCEPT !.walk = @ \ {f}, !.kept = @ + 1, !.bytes = @ + f.size])
        /\ Undisturbed(p) /\ UNCHANGED <<now, captures, newest>>

Done(p) ==
    /\ In(p, "walk") /\ run[p].walk = {} /\ Become(p, Phase("idle"))
    /\ Undisturbed(p) /\ UNCHANGED <<now, dir, captures, newest>>

\* A crash leaves its temporary behind.
Crash(p) ==
    /\ ~Idle(p) /\ Become(p, Phase("idle"))
    /\ Disturb /\ UNCHANGED <<now, dir, captures, newest>>

Next ==
    \/ Tick
    \/ \E p \in Procs :
        Copy(p) \/ Rename(p) \/ Start(p) \/ Sweep(p) \/ ReadDir(p) \/ Stat(p) \/ Visit(p)
            \/ Done(p) \/ Crash(p)

Spec == Init /\ [][Next]_vars

-------------------------------------------------------------------------------
(* Properties                                                               *)

\* Types; a walk keeps to its budgets, and its listing is of what was ever stored.
TypeOK ==
    /\ now \in 0..MaxTime /\ captures \in 0..MaxCaptures /\ quiet \subseteq Procs
    /\ \A f \in dir \cup {newest} :
        f.name \in 0..captures /\ f.at \in 0..now /\ f.size \in Sizes \cup {0} /\ f.temp \in BOOLEAN
    /\ \A f, g \in dir : f.name = g.name => f = g
    /\ \A p \in Procs :
        /\ run[p].phase \in {"idle", "rename", "sweep", "read", "stat", "walk"}
        /\ run[p].names \subseteq 1..captures /\ \A f \in run[p].walk : ~f.temp
        /\ run[p].kept \in 0..Keep /\ run[p].bytes \in Nat /\ ~TooMuch(run[p].bytes)

\* The newest recovery copy that fits the size cap outlives every prune of every
\* process, however their moves interleave, until it is older than the lifetime.
NewestKept == newest # NoFile /\ Keep > 0 /\ ~Expired(newest, now) => newest \in dir

Bytes(files) == MapThenSumSet(LAMBDA f : f.size, files)

\* A prune that nothing disturbed leaves the directory within the ring, the size cap
\* and the lifetime, without abandoned temporaries.
Bounded ==
    \A p \in quiet :
        Idle(p) =>
            /\ Cardinality(Backups) <= Keep
            /\ ~TooMuch(Bytes(Backups))
            /\ \A f \in Backups : ~Expired(f, now)
            /\ \A f \in dir \ Backups : f.at > now - StaleMs

\* What the store promises of its directory.
RetentionHolds == NewestKept /\ Bounded
=============================================================================
