--------------------------- MODULE CompactionOnce ---------------------------
(***************************************************************************)
(* What the compaction gate promises (compaction-gate.ts, file comment):   *)
(* at most one compaction is under way, and a window that was compacted is *)
(* not compacted again before another window is, or the session replaced.  *)
(***************************************************************************)

CONSTANTS
    Windows,    \* identities of idle windows
    None        \* no window

VARIABLES
    active,     \* the windows being compacted
    retired     \* the window compacted last, or None

vars == <<active, retired>>

Init == active = {} /\ retired = None

Begin(w) ==
    /\ active = {}
    /\ w # retired
    /\ active' = {w}
    /\ UNCHANGED retired

Complete(w) ==
    /\ w \in active
    /\ active' = {}
    /\ retired' = w

Fail(w) ==
    /\ w \in active
    /\ active' = {}
    /\ UNCHANGED retired

\* A compaction that starts and ends within one step.
AtOnce(w) ==
    /\ active = {}
    /\ w # retired
    /\ retired' = w
    /\ UNCHANGED active

Replace == active' = {} /\ retired' = None

Next ==
    \/ \E w \in Windows : Begin(w) \/ Complete(w) \/ Fail(w) \/ AtOnce(w)
    \/ Replace

Spec == Init /\ [][Next]_vars
=============================================================================
