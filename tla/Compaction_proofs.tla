-------------------------- MODULE Compaction_proofs --------------------------
(***************************************************************************)
(* Theorems about Compaction, for every number of sessions, slots, rows    *)
(* and cooldown turns.                                                      *)
(***************************************************************************)
EXTENDS Compaction, TLAPS

-------------------------------------------------------------------------------
(* Type correctness *)

\* What the trigger does to the gate and the requests, for any hook.
LEMMA ClaimTyped ==
    ASSUME TypeOK, NEW src \in Sources, Claim(src)
    PROVE  /\ gate' \in [inFlight : Key \cup {None}, lastKey : Key \cup {None}]
           /\ reqs' \in [Slots -> Request \cup {Free}]
<1>1. WindowKey \in Key
  BY DEF TypeOK, WindowKey, Key
<1>2. PICK s \in Slots : reqs' = [reqs EXCEPT ![s] =
                 [st |-> "running", key |-> WindowKey, src |-> src, own |-> TRUE]]
  BY DEF Claim, Busy
<1>3. [st |-> "running", key |-> WindowKey, src |-> src, own |-> TRUE] \in Request
  BY <1>1 DEF Request
<1>4. reqs' \in [Slots -> Request \cup {Free}]
  BY <1>2, <1>3 DEF TypeOK
<1>5. gate' \in [inFlight : Key \cup {None}, lastKey : Key \cup {None}]
  BY <1>1 DEF TypeOK, Claim
<1>6. QED BY <1>4, <1>5

LEMMA TryCompactTyped ==
    ASSUME TypeOK, NEW c, TryCompact(c) \/ Declined
    PROVE  /\ gate' \in [inFlight : Key \cup {None}, lastKey : Key \cup {None}]
           /\ reqs' \in [Slots -> Request \cup {Free}]
<1>1. CASE Declined
  BY <1>1 DEF Declined, TypeOK
<1>2. CASE Claim("auto")
  BY <1>2, ClaimTyped DEF Sources
<1>3. QED BY <1>1, <1>2 DEF TryCompact

LEMMA LaterTyped ==
    ASSUME NEW t \in 0..CooldownTurns
    PROVE  /\ Later(t) \in 0..CooldownTurns
           /\ Later(t) >= t
           /\ \A u \in 0..CooldownTurns : t <= u => Later(t) <= Later(u)
BY CompactionAssumption DEF Later

LEMMA CooldownTyped ==
    ASSUME TypeOK
    PROVE  /\ NoteTurn \in [hasCompacted : BOOLEAN, turns : 0..CooldownTurns]
           /\ MarkCompacted \in [hasCompacted : BOOLEAN, turns : 0..CooldownTurns]
           /\ NoteTurn = [hasCompacted |-> cooldown.hasCompacted,
                          turns |-> Later(cooldown.turns)]
BY CompactionAssumption, LaterTyped DEF TypeOK, NoteTurn, MarkCompacted

\* The answer to a request keeps the state of the awaiting hook well typed.
LEMMA ResumeTyped ==
    ASSUME TypeOK, NEW src, Resume(src)
    PROVE  /\ phase' \in {"idle", "deferred", "prompted", "running", "answered"}
           /\ pending' \in BOOLEAN
           /\ timer' \in BOOLEAN
<1>1. CASE src = "input"
  BY <1>1 DEF Resume, TypeOK
<1>2. CASE src = "explicit"
  BY <1>2 DEF Resume, Arm, TypeOK
<1>3. CASE src \notin {"input", "explicit"}
  BY <1>3 DEF Resume, TypeOK
<1>4. QED BY <1>1, <1>2, <1>3

LEMMA FreeStays == Orphaned(Free) = Free
<1>1. Orphaned(Free) \in [st : {"free"}, key : {None}, src : Sources, own : {FALSE}]
  BY DEF Orphaned, Free, Sources
<1>2. Orphaned(Free).src = "auto"
  BY DEF Orphaned, Free
<1>3. QED BY <1>1, <1>2 DEF Free

LEMMA InitTyped == Init => TypeOK
<1> SUFFICES ASSUME Init PROVE TypeOK
  OBVIOUS
<1>1. /\ lastRow \in [Sessions -> 0..MaxRows] /\ rows \in 0..MaxRows
      /\ cooldown \in [hasCompacted : BOOLEAN, turns : 0..CooldownTurns]
      /\ autoGap \in 0..CooldownTurns
  BY CompactionAssumption DEF Init
<1>2. reqs \in [Slots -> Request \cup {Free}]
  BY DEF Init
<1>3. QED BY <1>1, <1>2 DEF Init, TypeOK, NoClaim

LEMMA TypeStep == TypeOK /\ [Next]_vars => TypeOK'
<1> SUFFICES ASSUME TypeOK, [Next]_vars PROVE TypeOK'
  OBVIOUS
<1> USE CompactionAssumption
<1>a. WindowKey \in Key
  BY DEF TypeOK, WindowKey, Key
<1>1. ASSUME NEW id \in Sessions, SessionStart(id) PROVE TypeOK'
  <2>1. ASSUME NEW r \in Request \cup {Free}
        PROVE Orphaned(r) \in Request \cup {Free}
    <3>1. CASE r \in Request
      BY <3>1 DEF Orphaned, Request, Sources
    <3>2. CASE r = Free
      BY <3>2, FreeStays
    <3>3. QED BY <3>1, <3>2
  <2>2. reqs' \in [Slots -> Request \cup {Free}]
    BY <1>1, <2>1 DEF SessionStart, TypeOK
  <2>3. timer' \in BOOLEAN
    BY <1>1 DEF SessionStart, Disarm
  <2>4. QED BY <1>1, <2>2, <2>3 DEF SessionStart, TypeOK, NoClaim, cacheVars
<1>2. CASE SessionShutdown
  BY <1>2 DEF SessionShutdown, Disarm, TypeOK, cacheVars, history
<1>3. CASE Input
  <2>1. Claim("input") \/ Declined
    BY <1>3 DEF Input
  <2>2. /\ gate' \in [inFlight : Key \cup {None}, lastKey : Key \cup {None}]
        /\ reqs' \in [Slots -> Request \cup {Free}]
    BY <2>1, ClaimTyped, TryCompactTyped DEF Sources
  <2>3. phase' \in {"deferred", "prompted"}
    BY <1>3 DEF Input
  <2>4. QED BY <1>3, <2>2, <2>3 DEF Input, Disarm, TypeOK, cacheVars, history
<1>4. CASE Steer
  BY <1>4 DEF Steer, Disarm, TypeOK, cacheVars, history
<1>5. CASE AgentStart
  BY <1>5 DEF AgentStart, Disarm, TypeOK, cacheVars, history
<1>6. CASE MessageEnd
  <2>1. rows' \in 0..MaxRows /\ lastRow' \in [Sessions -> 0..MaxRows]
    BY <1>6 DEF MessageEnd, TypeOK, cacheVars
  <2>2. QED BY <1>6, <2>1 DEF MessageEnd, TypeOK, history
<1>7. CASE RequestCompaction
  BY <1>7 DEF RequestCompaction, TypeOK, cacheVars, history
<1>8. CASE TurnEnd
  <2>1. /\ gate' \in [inFlight : Key \cup {None}, lastKey : Key \cup {None}]
        /\ reqs' \in [Slots -> Request \cup {Free}]
    BY <1>8, TryCompactTyped DEF TurnEnd
  <2>2. cooldown' \in [hasCompacted : BOOLEAN, turns : 0..CooldownTurns]
    BY <1>8, CooldownTyped DEF TurnEnd
  <2>3. autoGap' \in 0..CooldownTurns
    BY <1>8, LaterTyped DEF TurnEnd, TypeOK
  <2>4. QED BY <1>8, <2>1, <2>2, <2>3 DEF TurnEnd, TypeOK, cacheVars
<1>9. CASE TurnEndDraft
  <2>1. gate' \in [inFlight : Key \cup {None}, lastKey : Key \cup {None}]
    BY <1>9, <1>a DEF TurnEndDraft, SettleGate
  <2>2. cooldown' \in [hasCompacted : BOOLEAN, turns : 0..CooldownTurns]
    BY <1>9, CooldownTyped DEF TurnEndDraft
  <2>3. applied' \subseteq Key /\ autoGap' \in 0..CooldownTurns
    BY <1>9, <1>a DEF TurnEndDraft, TypeOK
  <2>4. QED BY <1>9, <2>1, <2>2, <2>3 DEF TurnEndDraft, TypeOK, cacheVars
<1>10. CASE AgentSettled
  <2>1. Claim("explicit") \/ TryCompact(cooldown) \/ Declined
    BY <1>10 DEF AgentSettled
  <2>2. /\ gate' \in [inFlight : Key \cup {None}, lastKey : Key \cup {None}]
        /\ reqs' \in [Slots -> Request \cup {Free}]
    BY <2>1, ClaimTyped, TryCompactTyped DEF Sources
  <2>3. pending' \in BOOLEAN /\ timer' \in BOOLEAN
    BY <1>10 DEF AgentSettled, Arm, TypeOK
  <2>4. QED BY <1>10, <2>2, <2>3 DEF AgentSettled, TypeOK, cacheVars, history
<1>11. CASE IdleFire
  <2>1. TryCompact(cooldown) \/ Declined
    BY <1>11 DEF IdleFire
  <2>2. QED BY <1>11, <2>1, TryCompactTyped
           DEF IdleFire, Disarm, TypeOK, cacheVars, history
<1>12. ASSUME NEW s \in Slots, Apply(s) PROVE TypeOK'
  <2>1. reqs[s] \in Request
    BY <1>12 DEF Apply, TypeOK, Free
  <2>2. [reqs[s] EXCEPT !.st = "applied"] \in Request /\ reqs[s].key \in Key
    BY <2>1 DEF Request
  <2>3. reqs' \in [Slots -> Request \cup {Free}]
    BY <1>12, <2>2 DEF Apply, TypeOK
  <2>4. cooldown' \in [hasCompacted : BOOLEAN, turns : 0..CooldownTurns]
    BY <1>12, CooldownTyped DEF Apply
  <2>5. applied' \subseteq Key /\ autoGap' \in 0..CooldownTurns
    BY <1>12, <2>2 DEF Apply, TypeOK
  <2>6. QED BY <1>12, <2>3, <2>4, <2>5 DEF Apply, TypeOK, cacheVars
<1>13. ASSUME NEW s \in Slots, Settle(s) PROVE TypeOK'
  <2>1. reqs[s] \in Request
    BY <1>13 DEF Settle, TypeOK, Free
  <2>2. gate' \in [inFlight : Key \cup {None}, lastKey : Key \cup {None}]
    BY <1>13, <2>1 DEF Settle, SettleGate, Request
  <2>3. reqs' \in [Slots -> Request \cup {Free}]
    BY <1>13 DEF Settle, TypeOK
  <2>4. Resume(reqs[s].src)
    BY <1>13 DEF Settle
  <2>5. QED BY <1>13, <2>2, <2>3, <2>4, ResumeTyped
           DEF Settle, TypeOK, cacheVars, history
<1>14. ASSUME NEW s \in Slots, Refuse(s) PROVE TypeOK'
  <2>1. gate' \in [inFlight : Key \cup {None}, lastKey : Key \cup {None}]
    BY <1>14 DEF Refuse, AbortGate, TypeOK
  <2>2. reqs' \in [Slots -> Request \cup {Free}]
    BY <1>14 DEF Refuse, TypeOK
  <2>3. Resume(reqs[s].src)
    BY <1>14 DEF Refuse
  <2>4. QED BY <1>14, <2>1, <2>2, <2>3, ResumeTyped
           DEF Refuse, TypeOK, cacheVars, history
<1>15. CASE ForeignCompact
  BY <1>15, CooldownTyped DEF ForeignCompact, TypeOK, cacheVars, history
<1>16. CASE Toggle
  BY <1>16 DEF Toggle, TypeOK, cacheVars, history
<1>17. CASE UNCHANGED vars
  BY <1>17 DEF vars, TypeOK
<1>18. QED
  BY <1>1, <1>2, <1>3, <1>4, <1>5, <1>6, <1>7, <1>8, <1>9, <1>10, <1>11,
     <1>12, <1>13, <1>14, <1>15, <1>16, <1>17 DEF Next

\* Every variable stays in its type, whatever hook or callback runs.
THEOREM TypeCorrect == Spec => []TypeOK
BY InitTyped, TypeStep, PTL DEF Spec

-------------------------------------------------------------------------------
(* The gate is never claimed by nobody, in any environment *)

LEMMA ClaimSlot ==
    ASSUME TypeOK, NEW src \in Sources, Claim(src)
    PROVE  \E s \in Slots :
             /\ reqs[s].st = "free"
             /\ reqs'[s] = [st |-> "running", key |-> WindowKey, src |-> src,
                            own |-> TRUE]
             /\ \A t \in Slots \ {s} : reqs'[t] = reqs[t]
             /\ gate' = [inFlight |-> WindowKey, lastKey |-> gate.lastKey]
             /\ Busy' = Busy \cup {s}
<1>1. PICK s \in Slots \ Busy : reqs' = [reqs EXCEPT ![s] =
                 [st |-> "running", key |-> WindowKey, src |-> src, own |-> TRUE]]
  BY DEF Claim
<1>2. /\ reqs'[s] = [st |-> "running", key |-> WindowKey, src |-> src, own |-> TRUE]
      /\ \A t \in Slots \ {s} : reqs'[t] = reqs[t]
      /\ reqs[s].st = "free"
  BY <1>1 DEF TypeOK, Busy
<1>3. Busy' = Busy \cup {s}
  BY <1>2 DEF Busy
<1>4. gate' = [inFlight |-> WindowKey, lastKey |-> gate.lastKey]
  BY DEF Claim, TypeOK
<1>5. QED BY <1>2, <1>3, <1>4

LEMMA ClaimNoOrphan ==
    ASSUME TypeOK, NEW src \in Sources, Claim(src)
    PROVE  NoOrphanClaim'
<1>1. PICK s \in Slots :
             /\ reqs'[s] = [st |-> "running", key |-> WindowKey, src |-> src,
                            own |-> TRUE]
             /\ gate' = [inFlight |-> WindowKey, lastKey |-> gate.lastKey]
             /\ Busy' = Busy \cup {s}
  BY ClaimSlot
<1>2. s \in Busy' /\ reqs'[s].key = gate'.inFlight
  BY <1>1
<1>3. QED BY <1>2 DEF NoOrphanClaim

\* A claim always has a request behind it, whatever pi does with requests of
\* a replaced session.
THEOREM ClaimsOwned == Spec => []NoOrphanClaim
<1>1. Init => NoOrphanClaim
  BY DEF Init, NoClaim, NoOrphanClaim
<1>2. TypeOK /\ NoOrphanClaim /\ [Next]_vars => NoOrphanClaim'
  <2> SUFFICES ASSUME TypeOK, NoOrphanClaim, [Next]_vars PROVE NoOrphanClaim'
    OBVIOUS
  <2>a. ASSUME UNCHANGED <<gate, reqs>> PROVE NoOrphanClaim'
    BY <2>a DEF NoOrphanClaim, Busy
  <2>b. ASSUME NEW c, TryCompact(c) PROVE NoOrphanClaim'
    BY <2>a, <2>b, ClaimNoOrphan DEF TryCompact, Declined, Sources
  <2>1. ASSUME NEW id \in Sessions, SessionStart(id) PROVE NoOrphanClaim'
    BY <2>1 DEF SessionStart, NoClaim, NoOrphanClaim
  <2>2. CASE SessionShutdown BY <2>2, <2>a DEF SessionShutdown
  <2>3. CASE Input
    BY <2>3, <2>a, ClaimNoOrphan DEF Input, Declined, Sources
  <2>4. CASE Steer BY <2>4, <2>a DEF Steer
  <2>5. CASE AgentStart BY <2>5, <2>a DEF AgentStart
  <2>6. CASE MessageEnd BY <2>6, <2>a DEF MessageEnd
  <2>7. CASE RequestCompaction BY <2>7, <2>a DEF RequestCompaction
  <2>8. CASE TurnEnd BY <2>8, <2>b DEF TurnEnd
  <2>9. CASE TurnEndDraft
    BY <2>9 DEF TurnEndDraft, SettleGate, NoOrphanClaim
  <2>10. CASE AgentSettled
    BY <2>10, <2>a, <2>b, ClaimNoOrphan DEF AgentSettled, Declined, Sources
  <2>11. CASE IdleFire
    BY <2>11, <2>a, <2>b DEF IdleFire, Declined
  <2>12. ASSUME NEW s \in Slots, Apply(s) PROVE NoOrphanClaim'
    <3>1. \A t \in Slots : /\ reqs'[t].key = reqs[t].key
                           /\ t \in Busy => t \in Busy'
      BY <2>12 DEF Apply, TypeOK, Busy, Request, Free
    <3>2. QED BY <2>12, <3>1 DEF Apply, NoOrphanClaim, Busy
  <2>13. ASSUME NEW s \in Slots, Settle(s) PROVE NoOrphanClaim'
    BY <2>13 DEF Settle, SettleGate, NoOrphanClaim
  <2>14. ASSUME NEW s \in Slots, Refuse(s) PROVE NoOrphanClaim'
    <3>1. CASE gate.inFlight = reqs[s].key
      <4>1. gate'.inFlight = None
        BY <2>14, <3>1 DEF Refuse, AbortGate, TypeOK
      <4>2. QED BY <4>1 DEF NoOrphanClaim
    <3>2. CASE gate.inFlight # reqs[s].key
      <4>1. gate' = gate
        BY <2>14, <3>2 DEF Refuse, AbortGate
      <4>2. \A t \in Slots \ {s} : reqs'[t] = reqs[t]
        BY <2>14 DEF Refuse, TypeOK
      <4>3. QED BY <3>2, <4>1, <4>2 DEF NoOrphanClaim, Busy
    <3>3. QED BY <3>1, <3>2
  <2>15. CASE ForeignCompact BY <2>15, <2>a DEF ForeignCompact
  <2>16. CASE Toggle BY <2>16, <2>a DEF Toggle
  <2>17. CASE UNCHANGED vars BY <2>17, <2>a DEF vars
  <2>18. QED
    BY <2>1, <2>2, <2>3, <2>4, <2>5, <2>6, <2>7, <2>8, <2>9, <2>10, <2>11,
       <2>12, <2>13, <2>14, <2>15, <2>16, <2>17 DEF Next
<1>3. QED BY <1>1, <1>2, TypeCorrect, PTL DEF Spec
-------------------------------------------------------------------------------
(* One compaction at a time, of windows that are ever newer.                 *)
(*                                                                           *)
(* A request of an earlier session may be answered at any time.  What the    *)
(* answer can undo is guarded by ~intruded; what holds in spite of it is not.*)

\* All outstanding requests of the live session (one, that is) hold the gate.
Exclusive ==
    /\ \A s \in Own : gate.inFlight = reqs[s].key
    /\ \A s, t \in Own : s = t

\* The gate remembers a window of the live session.
Remembers == gate.lastKey # None /\ gate.lastKey[1] = session

\* Row ids grow: no request, of whatever session, is for a row yet to come.
RowsGrow ==
    /\ \A s \in Sessions : lastRow[s] <= rows
    /\ \A s \in Busy : reqs[s].key[2] <= lastRow[reqs[s].key[1]]

\* The window the gate remembers is older than the one being compacted, and
\* no older than any window compacted before.
Monotone ==
    /\ Remembers => gate.lastKey[2] <= lastRow[session]
    /\ \A s \in Own : /\ reqs[s].key[1] = session
                      /\ Remembers => gate.lastKey[2] < reqs[s].key[2]
    /\ \A k \in applied :
          /\ k[1] = session
          /\ \/ Remembers /\ k[2] <= gate.lastKey[2]
             \/ \E s \in Own : reqs[s].st = "applied" /\ reqs[s].key = k

\* The controller's count of turns never runs ahead of the true gap.
Counted ==
    /\ ~cooldown.hasCompacted => autoGap = CooldownTurns
    /\ cooldown.hasCompacted => cooldown.turns <= autoGap

\* A request made automatically was made with the gap open.
Spaced ==
    \A s \in Running \cap Own :
        reqs[s].src # "explicit" => autoGap >= CooldownTurns

IInv ==
    /\ TypeOK
    /\ RowsGrow
    /\ Counted
    /\ ~intruded => Exclusive /\ Monotone /\ Spaced

LEMMA OwnBusy ==
    ASSUME TypeOK, NEW s \in Busy
    PROVE  /\ reqs[s] \in Request
           /\ reqs[s].key \in Key
           /\ reqs[s].key # None
           /\ reqs[s].key[1] \in Sessions /\ reqs[s].key[2] \in Int
<1>1. reqs[s] \in Request
  BY DEF TypeOK, Busy, Free
<1>2. reqs[s].key \in Key
  BY <1>1 DEF Request
<1>3. QED BY <1>1, <1>2, CompactionAssumption DEF Key

LEMMA KeysInt ==
    ASSUME TypeOK
    PROVE  /\ WindowKey \in Key
           /\ WindowKey[1] = session /\ WindowKey[2] = lastRow[session]
           /\ \A s \in Sessions : lastRow[s] \in Int
           /\ session \in Sessions /\ rows \in Int
           /\ \A k \in Key : k[2] \in Int /\ k[1] \in Sessions /\ k # None
           /\ gate.lastKey # None => gate.lastKey \in Key
           /\ applied \subseteq Key
BY CompactionAssumption DEF TypeOK, WindowKey, Key

LEMMA ClaimAlone ==
    ASSUME TypeOK, Exclusive, NEW src \in Sources, Claim(src)
    PROVE  /\ Own = {}
           /\ gate.lastKey # WindowKey
           /\ gate' = [inFlight |-> WindowKey, lastKey |-> gate.lastKey]
           /\ \E s \in Slots :
                 /\ Own' = {s}
                 /\ Busy' = Busy \cup {s}
                 /\ reqs'[s] = [st |-> "running", key |-> WindowKey,
                                src |-> src, own |-> TRUE]
                 /\ \A t \in Slots \ {s} : reqs'[t] = reqs[t]
<1>1. gate.inFlight = None /\ gate.lastKey # WindowKey
  BY DEF Claim, Admits
<1>2. Own = {}
  BY <1>1, OwnBusy DEF Own, Exclusive
<1>3. PICK s \in Slots :
             /\ reqs'[s] = [st |-> "running", key |-> WindowKey, src |-> src,
                            own |-> TRUE]
             /\ \A t \in Slots \ {s} : reqs'[t] = reqs[t]
             /\ gate' = [inFlight |-> WindowKey, lastKey |-> gate.lastKey]
             /\ Busy' = Busy \cup {s}
  BY ClaimSlot
<1>4. Own' = {s}
  BY <1>2, <1>3 DEF Own, Busy
<1>5. QED BY <1>1, <1>2, <1>3, <1>4

\* Requests are for recorded rows, whatever happens to the gate.
LEMMA RowsStep ==
    ASSUME TypeOK, RowsGrow, [Next]_vars
    PROVE  RowsGrow'
<1> USE CompactionAssumption
<1>a. ASSUME UNCHANGED <<cacheVars, reqs>> PROVE RowsGrow'
  BY <1>a DEF RowsGrow, Busy, cacheVars
<1>b. ASSUME NEW src \in Sources, Claim(src), UNCHANGED cacheVars PROVE RowsGrow'
  <2>1. PICK s \in Slots :
             /\ reqs'[s] = [st |-> "running", key |-> WindowKey, src |-> src,
                            own |-> TRUE]
             /\ \A t \in Slots \ {s} : reqs'[t] = reqs[t]
             /\ Busy' = Busy \cup {s}
    BY <1>b, ClaimSlot
  <2>2. reqs'[s].key[2] <= lastRow[reqs'[s].key[1]]
    BY <2>1, KeysInt
  <2>3. \A t \in Busy' \ {s} : t \in Busy /\ reqs'[t] = reqs[t]
    BY <2>1 DEF Busy
  <2>4. QED BY <1>b, <2>2, <2>3 DEF RowsGrow, cacheVars
<1>c. ASSUME NEW c, TryCompact(c) \/ Declined, UNCHANGED cacheVars PROVE RowsGrow'
  BY <1>a, <1>b, <1>c DEF TryCompact, Declined, Sources
<1>d. ASSUME UNCHANGED cacheVars,
             \A t \in Slots : t \in Busy' => t \in Busy /\ reqs'[t].key = reqs[t].key
      PROVE RowsGrow'
  BY <1>d DEF RowsGrow, Busy, cacheVars
<1>1. ASSUME NEW id \in Sessions, SessionStart(id) PROVE RowsGrow'
  <2>1. \A s \in Slots : reqs'[s] = Orphaned(reqs[s])
    BY <1>1 DEF SessionStart
  <2>2. ASSUME NEW t \in Slots, t \in Busy'
        PROVE t \in Busy /\ reqs'[t].key = reqs[t].key
    <3>1. CASE reqs[t] = Free
      BY <2>1, <2>2, <3>1, FreeStays DEF Busy, Free
    <3>2. CASE reqs[t] \in Request
      BY <2>1, <2>2, <3>2 DEF Busy, Orphaned, Request
    <3>3. QED BY <3>1, <3>2 DEF TypeOK
  <2>3. QED BY <1>1, <1>d, <2>2 DEF SessionStart
<1>2. CASE SessionShutdown BY <1>2, <1>a DEF SessionShutdown
<1>3. CASE Input BY <1>3, <1>b, <1>c DEF Input, Sources
<1>4. CASE Steer BY <1>4, <1>a DEF Steer
<1>5. CASE AgentStart BY <1>5, <1>a DEF AgentStart
<1>6. CASE MessageEnd
  <2>1. CASE UNCHANGED cacheVars BY <1>6, <1>a, <2>1 DEF MessageEnd
  <2>2. CASE /\ rows < MaxRows /\ rows' = rows + 1
             /\ lastRow' = [lastRow EXCEPT ![session] = rows + 1]
    <3>1. reqs' = reqs
      BY <1>6 DEF MessageEnd
    <3>2. \A s \in Sessions : lastRow'[s] <= rows' /\ lastRow[s] <= lastRow'[s]
                              /\ lastRow'[s] \in Int
      BY <2>2, KeysInt DEF TypeOK, RowsGrow
    <3>3. ASSUME NEW s \in Busy PROVE reqs[s].key[2] <= lastRow'[reqs[s].key[1]]
      <4>1. PICK x \in Sessions : x = reqs[s].key[1]
        BY OwnBusy
      <4>2. reqs[s].key[2] <= lastRow[x] /\ reqs[s].key[2] \in Int
        BY <4>1, OwnBusy DEF RowsGrow
      <4>3. lastRow[x] <= lastRow'[x] /\ lastRow[x] \in Int /\ lastRow'[x] \in Int
        BY <3>2, KeysInt
      <4>4. reqs[s].key[2] <= lastRow'[x]
        BY <4>2, <4>3
      <4>5. QED BY <4>1, <4>4
    <3>4. QED BY <3>1, <3>2, <3>3 DEF RowsGrow, Busy
  <2>3. QED BY <1>6, <2>1, <2>2 DEF MessageEnd
<1>7. CASE RequestCompaction BY <1>7, <1>a DEF RequestCompaction
<1>8. CASE TurnEnd BY <1>8, <1>c DEF TurnEnd
<1>9. CASE TurnEndDraft BY <1>9, <1>a DEF TurnEndDraft
<1>10. CASE AgentSettled BY <1>10, <1>b, <1>c DEF AgentSettled, Sources
<1>11. CASE IdleFire BY <1>11, <1>c DEF IdleFire
<1>12. ASSUME NEW s \in Slots, Apply(s) PROVE RowsGrow'
  <2>1. \A t \in Slots : /\ reqs'[t].key = reqs[t].key
                         /\ t \in Busy' => t \in Busy
    BY <1>12 DEF Apply, TypeOK, Busy, Request, Free
  <2>2. QED BY <1>12, <1>d, <2>1 DEF Apply
<1>13. ASSUME NEW s \in Slots, Settle(s) PROVE RowsGrow'
  <2>1. \A t \in Slots : t \in Busy' => t \in Busy /\ reqs'[t] = reqs[t]
    BY <1>13 DEF Settle, TypeOK, Busy, Free
  <2>2. QED BY <1>13, <1>d, <2>1 DEF Settle
<1>14. ASSUME NEW s \in Slots, Refuse(s) PROVE RowsGrow'
  <2>1. \A t \in Slots : t \in Busy' => t \in Busy /\ reqs'[t] = reqs[t]
    BY <1>14 DEF Refuse, TypeOK, Busy, Free
  <2>2. QED BY <1>14, <1>d, <2>1 DEF Refuse
<1>15. CASE ForeignCompact BY <1>15, <1>a DEF ForeignCompact
<1>16. CASE Toggle BY <1>16, <1>a DEF Toggle
<1>17. CASE UNCHANGED vars BY <1>17, <1>a DEF vars, cacheVars
<1>18. QED
  BY <1>1, <1>2, <1>3, <1>4, <1>5, <1>6, <1>7, <1>8, <1>9, <1>10, <1>11,
     <1>12, <1>13, <1>14, <1>15, <1>16, <1>17 DEF Next

LEMMA ClaimKeeps ==
    ASSUME TypeOK, RowsGrow, Exclusive, Monotone, NEW src \in Sources, Claim(src),
           UNCHANGED <<session, cacheVars, applied>>
    PROVE  Exclusive' /\ Monotone'
<1>1. PICK s \in Slots : /\ Own' = {s}
                         /\ reqs'[s] = [st |-> "running", key |-> WindowKey,
                                        src |-> src, own |-> TRUE]
  BY ClaimAlone
<1>2. /\ Own = {} /\ gate.lastKey # WindowKey
      /\ gate' = [inFlight |-> WindowKey, lastKey |-> gate.lastKey]
  BY ClaimAlone
<1>3. Exclusive'
  BY <1>1, <1>2 DEF Exclusive
<1>4. Remembers' <=> Remembers
  BY <1>2 DEF Remembers
<1>5. Remembers => gate.lastKey[2] < WindowKey[2]
  <2> SUFFICES ASSUME Remembers PROVE gate.lastKey[2] < WindowKey[2]
    OBVIOUS
  <2>1. gate.lastKey \in Key /\ gate.lastKey[1] = session
    BY KeysInt DEF Remembers
  <2>2. gate.lastKey[2] <= lastRow[session]
    BY DEF Monotone
  <2>3. gate.lastKey[2] # lastRow[session]
    BY <1>2, <2>1 DEF WindowKey, Key
  <2>4. QED BY <2>1, <2>2, <2>3, KeysInt
<1>6. \A k \in applied : k[1] = session /\ Remembers /\ k[2] <= gate.lastKey[2]
  BY <1>2 DEF Monotone
<1>7. gate'.lastKey = gate.lastKey
  BY <1>2
<1>8. \A r \in Own' : /\ reqs'[r].key[1] = session
                      /\ Remembers => gate.lastKey[2] < reqs'[r].key[2]
  BY <1>1, <1>5, KeysInt
<1>9. Remembers => gate.lastKey[2] <= lastRow[session]
  BY DEF Monotone
<1>10. QED BY <1>3, <1>4, <1>6, <1>7, <1>8, <1>9 DEF Monotone, cacheVars

LEMMA QuietKeeps ==
    ASSUME Exclusive, Monotone, UNCHANGED <<gate, reqs, session, cacheVars, applied>>
    PROVE  Exclusive' /\ Monotone'
BY DEF Exclusive, Monotone, Remembers, Own, Busy, cacheVars

LEMMA TryKeeps ==
    ASSUME TypeOK, RowsGrow, Exclusive, Monotone, NEW c, TryCompact(c) \/ Declined,
           UNCHANGED <<session, cacheVars, applied>>
    PROVE  Exclusive' /\ Monotone'
BY ClaimKeeps, QuietKeeps DEF TryCompact, Declined, Sources

\* The answer to a request of the live session.
LEMMA OwnAnswered ==
    ASSUME TypeOK, Exclusive, NEW s \in Own, reqs' = [reqs EXCEPT ![s] = Free]
    PROVE  Own' = {} /\ Own = {s}
<1>1. Own = {s}
  BY DEF Exclusive
<1>2. \A t \in Slots : t # s => reqs'[t] = reqs[t]
  BY DEF TypeOK
<1>3. s \notin Own'
  BY DEF Own, Busy, Free, TypeOK
<1>4. QED BY <1>1, <1>2, <1>3 DEF Own, Busy

\* The answer to a request of an earlier session leaves the live one's alone.
LEMMA LateAnswered ==
    ASSUME TypeOK, NEW s \in Slots, ~reqs[s].own, reqs' = [reqs EXCEPT ![s] = Free]
    PROVE  /\ Own' = Own
           /\ \A t \in Own : reqs'[t] = reqs[t]
<1>1. \A t \in Slots : t # s => reqs'[t] = reqs[t]
  BY DEF TypeOK
<1>2. s \notin Own /\ s \notin Own'
  BY DEF Own, Busy, Free, TypeOK
<1>3. QED BY <1>1, <1>2 DEF Own, Busy

\* One that does not intrude finds an empty gate, or leaves it as it is.
LEMMA LateHarmless ==
    ASSUME TypeOK, Exclusive, NEW s \in Slots, Settle(s) \/ Refuse(s),
           ~reqs[s].own, ~intruded'
    PROVE  /\ Own' = Own
           /\ \A t \in Own : reqs'[t] = reqs[t]
           /\ \/ gate' = gate
              \/ /\ gate = NoClaim /\ Own = {}
                 /\ s \in Busy
                 /\ gate' = [inFlight |-> None, lastKey |-> reqs[s].key]
<1>1. reqs' = [reqs EXCEPT ![s] = Free] /\ s \in Busy
  BY DEF Settle, Refuse, Busy
<1>2. ~Intrudes(s)
  BY DEF Settle, Refuse
<1>3. gate' = gate \/ gate = NoClaim
  BY <1>2 DEF Intrudes
<1>4. CASE gate = NoClaim /\ gate' # gate
  <2>1. reqs[s].key # None
    BY <1>1, OwnBusy
  <2>2. ~Refuse(s)
    BY <1>4, <2>1 DEF Refuse, AbortGate, NoClaim
  <2>3. gate' = [inFlight |-> None, lastKey |-> reqs[s].key]
    BY <2>2 DEF Settle, SettleGate
  <2>4. Own = {}
    BY <1>4, OwnBusy DEF Exclusive, NoClaim, Own
  <2>5. QED BY <1>1, <1>4, <2>3, <2>4, LateAnswered
<1>5. QED BY <1>1, <1>3, <1>4, LateAnswered

\* The start of a session disowns whatever is outstanding.
LEMMA DisownedStart ==
    ASSUME TypeOK, NEW id \in Sessions, SessionStart(id)
    PROVE  \A s \in Slots : reqs'[s].own = FALSE
<1> SUFFICES ASSUME NEW s \in Slots PROVE reqs'[s].own = FALSE
  OBVIOUS
<1>1. reqs'[s] = Orphaned(reqs[s])
  BY DEF SessionStart
<1>2. CASE reqs[s] \in Request
  BY <1>1, <1>2 DEF Orphaned, Request
<1>3. CASE reqs[s] = Free
  BY <1>1, <1>3, FreeStays DEF Free
<1>4. QED BY <1>2, <1>3 DEF TypeOK

\* Only the start of a session forgets an intrusion.
LEMMA IntrusionLasts ==
    ASSUME TypeOK, [Next]_vars, ~intruded',
           ~ \E id \in Sessions : SessionStart(id)
    PROVE  UNCHANGED intruded
<1>1. CASE \E s \in Slots : Settle(s) \/ Refuse(s)
  BY <1>1 DEF Settle, Refuse, TypeOK
<1>2. CASE \E s \in Slots : Apply(s)
  BY <1>2 DEF Apply
<1>3. CASE SessionShutdown \/ Input \/ Steer \/ AgentStart \/ MessageEnd
  BY <1>3 DEF SessionShutdown, Input, Steer, AgentStart, MessageEnd, history
<1>4. CASE RequestCompaction \/ TurnEnd \/ TurnEndDraft
  BY <1>4 DEF RequestCompaction, TurnEnd, TurnEndDraft, history
<1>5. CASE AgentSettled \/ IdleFire \/ ForeignCompact \/ Toggle
  BY <1>5 DEF AgentSettled, IdleFire, ForeignCompact, Toggle, history
<1>6. CASE UNCHANGED vars
  BY <1>6 DEF vars
<1>7. QED BY <1>1, <1>2, <1>3, <1>4, <1>5, <1>6 DEF Next

LEMMA WindowsStep ==
    ASSUME TypeOK, RowsGrow, ~intruded => Exclusive /\ Monotone, [Next]_vars
    PROVE  ~intruded' => Exclusive' /\ Monotone'
<1> USE CompactionAssumption
<1> SUFFICES ASSUME ~intruded' PROVE Exclusive' /\ Monotone'
  OBVIOUS
<1>1. ASSUME NEW id \in Sessions, SessionStart(id) PROVE Exclusive' /\ Monotone'
  <2>1. applied' = {} /\ gate' = NoClaim
    BY <1>1 DEF SessionStart
  <2>2. \A s \in Slots : reqs'[s].own = FALSE
    BY <1>1, DisownedStart
  <2>3. Own' = {}
    BY <2>2 DEF Own, Busy
  <2>4. QED BY <2>1, <2>3 DEF Exclusive, Monotone, Remembers, NoClaim
<1>2. CASE UNCHANGED intruded /\ ~ \E id \in Sessions : SessionStart(id)
  <2>0. Exclusive /\ Monotone
    BY <1>2
  <2>2. CASE SessionShutdown BY <2>0, <2>2, QuietKeeps DEF SessionShutdown, history
  <2>3. CASE Input
    BY <2>0, <2>3, ClaimKeeps, TryKeeps DEF Input, history, Sources
  <2>4. CASE Steer BY <2>0, <2>4, QuietKeeps DEF Steer, history
  <2>5. CASE AgentStart BY <2>0, <2>5, QuietKeeps DEF AgentStart, history
  <2>6. CASE MessageEnd
    <3>1. CASE UNCHANGED cacheVars
      BY <2>0, <2>6, <3>1, QuietKeeps DEF MessageEnd, history
    <3>2. CASE /\ rows < MaxRows /\ rows' = rows + 1
               /\ lastRow' = [lastRow EXCEPT ![session] = rows + 1]
      <4>1. UNCHANGED <<session, gate, reqs, applied>>
        BY <2>6 DEF MessageEnd, history
      <4>2. /\ lastRow[session] <= lastRow'[session]
            /\ lastRow[session] \in Int /\ lastRow'[session] \in Int
        BY <3>2, KeysInt DEF TypeOK, RowsGrow
      <4>3. Remembers => gate.lastKey[2] \in Int
        BY KeysInt DEF Remembers
      <4>4. Remembers => gate.lastKey[2] <= lastRow'[session]
        BY <2>0, <4>2, <4>3 DEF Monotone
      <4>5. Exclusive' /\ Own' = Own /\ (Remembers' <=> Remembers)
        BY <2>0, <4>1 DEF Exclusive, Own, Busy, Remembers
      <4>6. QED BY <2>0, <4>1, <4>4, <4>5 DEF Monotone
    <3>3. QED BY <2>6, <3>1, <3>2 DEF MessageEnd
  <2>7. CASE RequestCompaction
    BY <2>0, <2>7, QuietKeeps DEF RequestCompaction, history
  <2>8. CASE TurnEnd BY <2>0, <2>8, TryKeeps DEF TurnEnd
  <2>9. CASE TurnEndDraft
    <3>1. /\ gate.inFlight = None /\ reqs' = reqs
          /\ gate' = [inFlight |-> None, lastKey |-> WindowKey]
          /\ applied' = applied \cup {WindowKey}
          /\ UNCHANGED <<session, lastRow, rows>>
      BY <2>9 DEF TurnEndDraft, Admits, SettleGate, cacheVars
    <3>2. Own = {}
      BY <2>0, <3>1, OwnBusy DEF Exclusive, Own
    <3>3. Own' = {}
      BY <3>1, <3>2 DEF Own, Busy
    <3>4. Remembers'
      BY <3>1, KeysInt DEF Remembers
    <3>5. \A k \in applied : k[1] = session /\ k[2] <= lastRow[session]
      <4> SUFFICES ASSUME NEW k \in applied
                   PROVE k[1] = session /\ k[2] <= lastRow[session]
        OBVIOUS
      <4>1. Remembers /\ k[2] <= gate.lastKey[2] /\ k[1] = session
        BY <2>0, <3>2 DEF Monotone
      <4>2. gate.lastKey[2] \in Int /\ k[2] \in Int /\ lastRow[session] \in Int
        BY <4>1, KeysInt DEF Remembers
      <4>3. gate.lastKey[2] <= lastRow[session]
        BY <2>0, <4>1 DEF Monotone
      <4>4. QED BY <4>1, <4>2, <4>3
    <3>6. Exclusive'
      BY <3>3 DEF Exclusive
    <3>7. gate'.lastKey[2] = lastRow[session] /\ lastRow[session] \in Int
      BY <3>1, KeysInt
    <3>8. \A k \in applied' : k[1] = session /\ k[2] <= gate'.lastKey[2]
      BY <3>1, <3>5, <3>7, KeysInt
    <3>9. QED BY <3>1, <3>3, <3>4, <3>6, <3>7, <3>8 DEF Monotone
  <2>10. CASE AgentSettled
    BY <2>0, <2>10, ClaimKeeps, TryKeeps DEF AgentSettled, history, Sources
  <2>11. CASE IdleFire BY <2>0, <2>11, TryKeeps DEF IdleFire, history
  <2>12. ASSUME NEW s \in Slots, Apply(s) PROVE Exclusive' /\ Monotone'
    <3>1. /\ reqs[s].st = "running" /\ s \in Busy
          /\ reqs' = [reqs EXCEPT ![s].st = "applied"]
          /\ UNCHANGED <<session, lastRow, rows, gate>>
      BY <2>12 DEF Apply, cacheVars, Busy
    <3>2. reqs[s] \in Request
      BY <3>1, OwnBusy
    <3>3. /\ \A t \in Slots : /\ reqs'[t].key = reqs[t].key
                              /\ reqs'[t].own = reqs[t].own
                              /\ reqs'[t].st # "free" <=> reqs[t].st # "free"
                              /\ t # s => reqs'[t] = reqs[t]
          /\ reqs'[s].st = "applied"
      BY <3>1, <3>2 DEF TypeOK, Request, Free
    <3>4. Own' = Own /\ (Remembers' <=> Remembers)
      BY <3>1, <3>3 DEF Own, Busy, Remembers
    <3>5. Exclusive'
      BY <2>0, <3>1, <3>3, <3>4 DEF Exclusive, Own, Busy
    <3>6. \A k \in applied' :
            /\ k[1] = session
            /\ \/ Remembers /\ k[2] <= gate.lastKey[2]
               \/ \E t \in Own : reqs'[t].st = "applied" /\ reqs[t].key = k
      <4>1. CASE s \in Own
        <5>1. applied' = applied \cup {reqs[s].key}
          BY <2>12, <4>1 DEF Apply, Own
        <5>2. \A t \in Own : t = s
          BY <2>0, <4>1 DEF Exclusive
        <5>3. \A k \in applied : k[1] = session /\ Remembers /\ k[2] <= gate.lastKey[2]
          BY <2>0, <3>1, <5>2 DEF Monotone
        <5>4. reqs[s].key[1] = session
          BY <2>0, <4>1 DEF Monotone
        <5>5. QED BY <3>3, <4>1, <5>1, <5>3, <5>4
      <4>2. CASE s \notin Own
        <5>1. applied' = applied
          BY <2>12, <3>1, <4>2 DEF Apply, Own
        <5>2. \A t \in Own : reqs'[t] = reqs[t]
          BY <3>3, <4>2 DEF Own, Busy
        <5>3. QED BY <2>0, <5>1, <5>2 DEF Monotone
      <4>3. QED BY <4>1, <4>2
    <3>7. \A t \in Own : /\ reqs[t].key[1] = session
                         /\ Remembers => gate.lastKey[2] < reqs[t].key[2]
      BY <2>0 DEF Monotone
    <3>8. Remembers => gate.lastKey[2] <= lastRow[session]
      BY <2>0 DEF Monotone
    <3>9. \A t \in Own : reqs'[t].key = reqs[t].key
      BY <3>3 DEF Own, Busy
    <3>10. Monotone'
      BY <3>1, <3>4, <3>6, <3>7, <3>8, <3>9 DEF Monotone
    <3>11. QED BY <3>5, <3>10
  <2>13. CASE ForeignCompact BY <2>0, <2>13, QuietKeeps DEF ForeignCompact, history
  <2>14. CASE Toggle BY <2>0, <2>14, QuietKeeps DEF Toggle, history
  <2>15. CASE UNCHANGED vars BY <2>0, <2>15, QuietKeeps DEF vars, cacheVars
  <2>16. ASSUME NEW s \in Slots, Settle(s) \/ Refuse(s), s \in Own
         PROVE Exclusive' /\ Monotone'
    <3>1. /\ reqs' = [reqs EXCEPT ![s] = Free]
          /\ UNCHANGED <<session, lastRow, rows, applied>>
      BY <2>16 DEF Settle, Refuse, cacheVars
    <3>2. Own' = {} /\ Own = {s}
      BY <2>0, <2>16, <3>1, OwnAnswered
    <3>3. Exclusive'
      BY <3>2 DEF Exclusive
    <3>4. /\ s \in Busy /\ reqs[s].key \in Key /\ reqs[s].key[1] = session
          /\ reqs[s].key # None
      BY <2>0, <2>16, OwnBusy DEF Own, Monotone
    <3>5. reqs[s].key[2] <= lastRow[session]
      BY <3>4 DEF RowsGrow
    <3>6. CASE Settle(s)
      <4>1. gate' = [inFlight |-> None, lastKey |-> reqs[s].key]
        BY <3>6 DEF Settle, SettleGate
      <4>2. \A k \in applied : k[1] = session /\ k[2] <= reqs[s].key[2]
        <5> SUFFICES ASSUME NEW k \in applied
                     PROVE k[1] = session /\ k[2] <= reqs[s].key[2]
          OBVIOUS
        <5>1. k[1] = session /\ k[2] \in Int /\ reqs[s].key[2] \in Int
          BY <2>0, <3>4, KeysInt DEF Monotone
        <5>2. CASE Remembers /\ k[2] <= gate.lastKey[2]
          <6>1. gate.lastKey[2] < reqs[s].key[2]
            BY <2>0, <2>16, <5>2 DEF Monotone
          <6>2. gate.lastKey[2] \in Int
            BY <5>2, KeysInt DEF Remembers
          <6>3. QED BY <5>1, <5>2, <6>1, <6>2
        <5>3. CASE \E t \in Own : reqs[t].st = "applied" /\ reqs[t].key = k
          BY <3>2, <5>1, <5>3
        <5>4. QED BY <2>0, <5>1, <5>2, <5>3 DEF Monotone
      <4>3. Remembers'
        BY <3>1, <3>4, <4>1 DEF Remembers
      <4>4. QED BY <3>1, <3>2, <3>3, <3>5, <4>1, <4>2, <4>3 DEF Monotone
    <3>7. CASE Refuse(s)
      <4>1. gate'.lastKey = gate.lastKey
        BY <3>7 DEF Refuse, AbortGate, TypeOK
      <4>2. reqs[s].st = "running"
        BY <3>7 DEF Refuse
      <4>3. \A k \in applied : k[1] = session /\ Remembers /\ k[2] <= gate.lastKey[2]
        BY <2>0, <3>2, <4>2 DEF Monotone
      <4>4. Remembers' <=> Remembers
        BY <3>1, <4>1 DEF Remembers
      <4>5. Remembers => gate.lastKey[2] <= lastRow[session]
        BY <2>0 DEF Monotone
      <4>6. QED BY <3>1, <3>2, <3>3, <4>1, <4>3, <4>4, <4>5 DEF Monotone
    <3>8. QED BY <2>16, <3>6, <3>7
  <2>17. ASSUME NEW s \in Slots, Settle(s) \/ Refuse(s), s \notin Own
         PROVE Exclusive' /\ Monotone'
    <3>1. ~reqs[s].own /\ s \in Busy
      BY <2>17 DEF Settle, Refuse, Own, Busy
    <3>2. /\ Own' = Own
          /\ \A t \in Own : reqs'[t] = reqs[t]
          /\ \/ gate' = gate
             \/ /\ gate = NoClaim /\ Own = {}
                /\ gate' = [inFlight |-> None, lastKey |-> reqs[s].key]
      BY <2>0, <2>17, <3>1, LateHarmless
    <3>3. UNCHANGED <<session, lastRow, rows, applied>>
      BY <2>17 DEF Settle, Refuse, cacheVars
    <3>4. CASE gate' = gate
      <4>1. Exclusive'
        BY <2>0, <3>2, <3>4 DEF Exclusive
      <4>2. Remembers' <=> Remembers
        BY <3>3, <3>4 DEF Remembers
      <4>3. QED BY <2>0, <3>2, <3>3, <3>4, <4>1, <4>2 DEF Monotone
    <3>5. CASE /\ gate = NoClaim /\ Own = {}
               /\ gate' = [inFlight |-> None, lastKey |-> reqs[s].key]
      <4>1. applied' = {}
        BY <2>0, <3>3, <3>5 DEF Monotone, Remembers, NoClaim
      <4>2. Remembers' => gate'.lastKey[2] <= lastRow[session]
        BY <3>1, <3>3, <3>5 DEF Remembers, RowsGrow
      <4>3. QED BY <3>2, <3>3, <3>5, <4>1, <4>2 DEF Exclusive, Monotone
    <3>6. QED BY <3>2, <3>4, <3>5
  <2>18. QED
    BY <1>2, <2>2, <2>3, <2>4, <2>5, <2>6, <2>7, <2>8, <2>9, <2>10, <2>11,
       <2>12, <2>13, <2>14, <2>15, <2>16, <2>17 DEF Next
<1>3. CASE ~ \E id \in Sessions : SessionStart(id)
  <2>1. UNCHANGED intruded
    BY <1>3, IntrusionLasts
  <2>2. QED BY <1>2, <1>3, <2>1
<1>4. QED BY <1>1, <1>3

\* A decision on cooldown state c, whose turns the true gap bounds, only
\* leads to a request when the gap is open.
LEMMA TrySpaced ==
    ASSUME TypeOK, Exclusive,
           NEW c \in [hasCompacted : BOOLEAN, turns : 0..CooldownTurns],
           NEW gap \in 0..CooldownTurns,
           ~c.hasCompacted => gap = CooldownTurns,
           c.hasCompacted => c.turns <= gap,
           \A s \in Running \cap Own :
               reqs[s].src # "explicit" => gap >= CooldownTurns,
           NEW src \in Sources,
           \/ Claim(src) /\ (src = "explicit" \/ MayCompact(c))
           \/ Declined
    PROVE  \A s \in (Running \cap Own)' :
               reqs'[s].src # "explicit" => gap >= CooldownTurns
<1>1. CASE Declined
  BY <1>1 DEF Declined, Running, Own, Busy
<1>2. CASE Claim(src) /\ (src = "explicit" \/ MayCompact(c))
  <2>1. PICK s \in Slots : /\ Own' = {s}
                           /\ reqs'[s] = [st |-> "running", key |-> WindowKey,
                                          src |-> src, own |-> TRUE]
    BY <1>2, ClaimAlone
  <2>2. MayCompact(c) => gap >= CooldownTurns
    BY CompactionAssumption DEF MayCompact
  <2>3. QED BY <1>2, <2>1, <2>2
<1>3. QED BY <1>1, <1>2

\* The count and the gap move together, whichever session a compaction was
\* for: the controller may think the last one younger, never older.
LEMMA CountedStep ==
    ASSUME TypeOK, Counted, [Next]_vars
    PROVE  Counted'
<1> USE CompactionAssumption
<1>a. ASSUME UNCHANGED <<cooldown, autoGap>> PROVE Counted'
  BY <1>a DEF Counted
<1>b. /\ MarkCompacted.hasCompacted /\ MarkCompacted.turns = 0
      /\ 0 <= autoGap /\ 0 <= CooldownTurns
  BY DEF MarkCompacted, TypeOK
<1>c. ASSUME cooldown' = MarkCompacted, autoGap' \in {0, autoGap} PROVE Counted'
  BY <1>b, <1>c DEF Counted
<1>1. ASSUME NEW id \in Sessions, SessionStart(id) PROVE Counted'
  BY <1>1, <1>a DEF SessionStart
<1>2. CASE SessionShutdown \/ Input \/ Steer \/ AgentStart \/ MessageEnd
  BY <1>2, <1>a DEF SessionShutdown, Input, Steer, AgentStart, MessageEnd, history
<1>3. CASE RequestCompaction \/ AgentSettled \/ IdleFire \/ Toggle
  BY <1>3, <1>a DEF RequestCompaction, AgentSettled, IdleFire, Toggle, history
<1>4. CASE TurnEnd
  <2>1. /\ cooldown' = [hasCompacted |-> cooldown.hasCompacted,
                        turns |-> Later(cooldown.turns)]
        /\ autoGap' = Later(autoGap)
    BY <1>4, CooldownTyped DEF TurnEnd
  <2>2. /\ cooldown.turns \in 0..CooldownTurns /\ autoGap \in 0..CooldownTurns
        /\ Later(autoGap) \in 0..CooldownTurns
        /\ Later(autoGap) >= autoGap
        /\ cooldown.turns <= autoGap => Later(cooldown.turns) <= Later(autoGap)
    BY LaterTyped DEF TypeOK
  <2>3. QED BY <2>1, <2>2 DEF Counted
<1>5. CASE TurnEndDraft BY <1>5, <1>c DEF TurnEndDraft
<1>6. ASSUME NEW s \in Slots, Apply(s) PROVE Counted'
  BY <1>6, <1>c DEF Apply
<1>7. ASSUME NEW s \in Slots, Settle(s) \/ Refuse(s) PROVE Counted'
  BY <1>7, <1>a DEF Settle, Refuse
<1>8. CASE ForeignCompact BY <1>8, <1>c DEF ForeignCompact, history
<1>9. CASE UNCHANGED vars BY <1>9, <1>a DEF vars
<1>10. QED
  BY <1>1, <1>2, <1>3, <1>4, <1>5, <1>6, <1>7, <1>8, <1>9 DEF Next

LEMMA SpacedStep ==
    ASSUME TypeOK, Counted, ~intruded => Exclusive /\ Spaced, [Next]_vars
    PROVE  ~intruded' => Spaced'
<1> USE CompactionAssumption
<1> SUFFICES ASSUME ~intruded' PROVE Spaced'
  OBVIOUS
<1>a. /\ cooldown \in [hasCompacted : BOOLEAN, turns : 0..CooldownTurns]
      /\ autoGap \in 0..CooldownTurns
      /\ ~cooldown.hasCompacted => autoGap = CooldownTurns
      /\ cooldown.hasCompacted => cooldown.turns <= autoGap
  BY DEF TypeOK, Counted
<1>e. "auto" \in Sources /\ "input" \in Sources /\ "explicit" \in Sources
  BY DEF Sources
<1>1. ASSUME NEW id \in Sessions, SessionStart(id) PROVE Spaced'
  <2>1. \A s \in Slots : reqs'[s].own = FALSE
    BY <1>1, DisownedStart
  <2>2. QED BY <2>1 DEF Spaced, Own, Busy
<1>2. CASE ~ \E id \in Sessions : SessionStart(id)
  <2>0. Exclusive /\ \A s \in Running \cap Own :
                         reqs[s].src # "explicit" => autoGap >= CooldownTurns
    BY <1>2, IntrusionLasts DEF Spaced
  <2>b. ASSUME UNCHANGED <<autoGap, reqs>> PROVE Spaced'
    BY <2>0, <2>b DEF Spaced, Running, Own, Busy
  <2>c. ASSUME NEW src \in Sources, UNCHANGED autoGap,
               \/ Claim(src) /\ (src = "explicit" \/ MayCompact(cooldown))
               \/ Declined
        PROVE Spaced'
    <3>1. \A s \in (Running \cap Own)' :
              reqs'[s].src # "explicit" => autoGap >= CooldownTurns
      BY <1>a, <2>0, <2>c, TrySpaced
    <3>2. QED BY <2>c, <3>1 DEF Spaced
  <2>2. CASE SessionShutdown BY <2>2, <2>b DEF SessionShutdown, history
  <2>3. CASE Input BY <2>3, <2>c, <1>e DEF Input, history
  <2>4. CASE Steer BY <2>4, <2>b DEF Steer, history
  <2>5. CASE AgentStart BY <2>5, <2>b DEF AgentStart, history
  <2>6. CASE MessageEnd BY <2>6, <2>b DEF MessageEnd, history
  <2>7. CASE RequestCompaction BY <2>7, <2>b DEF RequestCompaction, history
  <2>8. CASE TurnEnd
    <3>1. /\ cooldown' \in [hasCompacted : BOOLEAN, turns : 0..CooldownTurns]
          /\ autoGap' \in 0..CooldownTurns
          /\ autoGap <= autoGap'
      BY <1>a, <2>8, LaterTyped, CooldownTyped DEF TurnEnd
    <3>2. /\ ~cooldown'.hasCompacted => autoGap' = CooldownTurns
          /\ cooldown'.hasCompacted => cooldown'.turns <= autoGap'
      BY CountedStep DEF Counted
    <3>3. \A s \in Running \cap Own :
              reqs[s].src # "explicit" => autoGap' >= CooldownTurns
      BY <1>a, <2>0, <3>1
    <3>4. \/ Claim("auto") /\ ("auto" = "explicit" \/ MayCompact(cooldown'))
          \/ Declined
      BY <2>8 DEF TurnEnd, TryCompact
    <3>5. \A s \in (Running \cap Own)' :
              reqs'[s].src # "explicit" => autoGap' >= CooldownTurns
      BY <1>e, <2>0, <3>1, <3>2, <3>3, <3>4, TrySpaced
    <3>6. QED BY <3>5 DEF Spaced
  <2>9. CASE TurnEndDraft
    <3>1. gate.inFlight = None /\ reqs' = reqs
      BY <2>9 DEF TurnEndDraft, Admits
    <3>2. Own = {}
      BY <2>0, <3>1, OwnBusy DEF Exclusive, Own
    <3>3. Own' = {}
      BY <3>1, <3>2 DEF Own, Busy
    <3>4. QED BY <3>3 DEF Spaced
  <2>10. CASE AgentSettled
    BY <2>10, <2>c, <1>e DEF AgentSettled, TryCompact, history
  <2>11. CASE IdleFire BY <2>11, <2>c, <1>e DEF IdleFire, TryCompact, history
  <2>12. ASSUME NEW s \in Slots, Apply(s) PROVE Spaced'
    <3>1. s \in Busy /\ reqs' = [reqs EXCEPT ![s].st = "applied"]
      BY <2>12 DEF Apply, Busy
    <3>2. /\ s \notin Running'
          /\ \A t \in Slots : t # s => reqs'[t] = reqs[t]
          /\ Own' = Own
      <4>1. reqs[s] \in Request
        BY <3>1, OwnBusy
      <4>2. QED BY <3>1, <4>1 DEF Running, Own, Busy, TypeOK, Request
    <3>3. CASE s \in Own
      <4>1. (Running \cap Own)' = {}
        BY <2>0, <3>2, <3>3 DEF Exclusive
      <4>2. QED BY <4>1 DEF Spaced
    <3>4. CASE s \notin Own
      <4>1. autoGap' = autoGap
        BY <2>12, <3>1, <3>4 DEF Apply, Own
      <4>2. \A t \in (Running \cap Own)' : t \in Running \cap Own /\ reqs'[t] = reqs[t]
        BY <3>2 DEF Running
      <4>3. QED BY <2>0, <4>1, <4>2 DEF Spaced
    <3>5. QED BY <3>3, <3>4
  <2>13. ASSUME NEW s \in Slots, Settle(s) \/ Refuse(s) PROVE Spaced'
    <3>1. reqs' = [reqs EXCEPT ![s] = Free] /\ autoGap' = autoGap
      BY <2>13 DEF Settle, Refuse
    <3>2. \A t \in (Running \cap Own)' : t \in Running \cap Own /\ reqs'[t] = reqs[t]
      BY <3>1 DEF Running, Own, Busy, TypeOK, Free
    <3>3. QED BY <2>0, <3>1, <3>2 DEF Spaced
  <2>14. CASE ForeignCompact BY <2>14, <2>b DEF ForeignCompact, history
  <2>15. CASE Toggle BY <2>15, <2>b DEF Toggle, history
  <2>16. CASE UNCHANGED vars BY <2>16, <2>b DEF vars
  <2>17. QED
    BY <1>2, <2>2, <2>3, <2>4, <2>5, <2>6, <2>7, <2>8, <2>9, <2>10, <2>11,
       <2>12, <2>13, <2>14, <2>15, <2>16 DEF Next
<1>3. QED BY <1>1, <1>2

\* The inductive invariant of the gate, in any environment: a request may be
\* answered after its session ended, and what its answer can undo is what
\* ~intruded guards.
THEOREM Inductive == Spec => []IInv
<1>1. Init => IInv
  <2> SUFFICES ASSUME Init PROVE RowsGrow /\ Counted /\ Exclusive /\ Monotone /\ Spaced
    BY InitTyped DEF IInv
  <2>1. Busy = {} /\ Own = {} /\ Running = {}
    BY DEF Init, Busy, Own, Running, Free
  <2>2. RowsGrow
    BY <2>1, CompactionAssumption DEF Init, RowsGrow
  <2>3. Exclusive /\ Spaced
    BY <2>1 DEF Exclusive, Spaced
  <2>4. Monotone
    BY <2>1 DEF Init, Monotone, Remembers, NoClaim
  <2>5. Counted
    BY DEF Init, Counted
  <2>6. QED BY <2>2, <2>3, <2>4, <2>5
<1>2. IInv /\ [Next]_vars => IInv'
  BY TypeStep, RowsStep, CountedStep, WindowsStep, SpacedStep DEF IInv
<1>3. QED BY <1>1, <1>2, PTL DEF Spec

\* No two unanswered ctx.compact() calls of a session, whichever hooks made
\* them, until the answer to an earlier session's request undoes its claim.
THEOREM Serialized == Spec => []AtMostOneInFlight
<1>1. IInv => AtMostOneInFlight
  BY DEF IInv, Exclusive, AtMostOneInFlight
<1>2. QED BY <1>1, Inductive, PTL

\* The one key the gate remembers is enough: no window is compacted twice in
\* a session, with the same exception.
THEOREM CompactedOnce == Spec => []WindowsCompactOnce
<1>1. IInv => WindowsCompactOnce
  <2> SUFFICES ASSUME IInv, ~intruded, NEW s \in Running \cap Own,
                      reqs[s].key \in applied
               PROVE FALSE
    BY DEF WindowsCompactOnce
  <2>1. TypeOK /\ Exclusive /\ Monotone
    BY DEF IInv
  <2>2. s \in Own /\ reqs[s].st = "running" /\ reqs[s].key[2] \in Int
    BY <2>1, OwnBusy DEF Running, Own
  <2>3. ~ \E t \in Own : reqs[t].st = "applied"
    BY <2>1, <2>2 DEF Exclusive
  <2>4. Remembers /\ reqs[s].key[2] <= gate.lastKey[2]
    BY <2>1, <2>3 DEF Monotone
  <2>5. gate.lastKey[2] < reqs[s].key[2] /\ gate.lastKey[2] \in Int
    BY <2>1, <2>2, <2>4, KeysInt DEF Monotone, Remembers
  <2>6. QED BY <2>2, <2>4, <2>5
<1>2. QED BY <1>1, Inductive, PTL

\* The cooldown holds when a compaction takes effect, not only when it was
\* decided: nothing that happens while a request is outstanding shortens it,
\* compactions of earlier sessions that land in this one included.
THEOREM AutomaticSpaced == Spec => AutomaticSpacing
<1> DEFINE Open == /\ ~intruded /\ RequestApplied => autoGap >= CooldownTurns
                   /\ DraftApplied => Later(autoGap) >= CooldownTurns
<1>1. IInv /\ [Next]_vars => [Open]_vars
  <2> SUFFICES ASSUME IInv, Next PROVE Open
    OBVIOUS
  <2>1. ~intruded /\ RequestApplied => autoGap >= CooldownTurns
    BY DEF RequestApplied, IInv, Spaced, Running, Own, Busy
  <2>2. ASSUME DraftApplied PROVE Later(autoGap) >= CooldownTurns
    <3>1. gate'.lastKey \notin {gate.lastKey, None} /\ reqs' = reqs
      BY <2>2 DEF DraftApplied
    <3>2. ASSUME NEW src \in Sources, Claim(src) PROVE FALSE
      <4>1. gate' = [inFlight |-> WindowKey, lastKey |-> gate.lastKey]
        BY <3>2, ClaimSlot DEF IInv
      <4>2. QED BY <3>1, <4>1
    <3>3. ASSUME NEW c, TryCompact(c) \/ Declined PROVE FALSE
      BY <3>1, <3>2, <3>3 DEF TryCompact, Declined, Sources
    <3>4. ASSUME NEW s \in Slots, Settle(s) \/ Apply(s) \/ Refuse(s) PROVE FALSE
      BY <3>1, <3>4 DEF Settle, Apply, Refuse, Free, AbortGate, IInv, TypeOK
    <3>5. TurnEndDraft
      BY <3>1, <3>2, <3>3, <3>4
         DEF Next, SessionStart, NoClaim, SessionShutdown, Input, Steer,
             AgentStart, MessageEnd, RequestCompaction, TurnEnd, AgentSettled,
             IdleFire, ForeignCompact, Toggle, Sources
    <3>6. MayCompact(NoteTurn)
      BY <3>5 DEF TurnEndDraft
    <3>7. /\ ~cooldown.hasCompacted => autoGap = CooldownTurns
          /\ cooldown.hasCompacted => Later(cooldown.turns) >= CooldownTurns
      BY <3>6, CooldownTyped DEF IInv, Counted, MayCompact
    <3>8. /\ cooldown.turns \in 0..CooldownTurns /\ cooldown.hasCompacted \in BOOLEAN
          /\ autoGap \in 0..CooldownTurns
          /\ cooldown.hasCompacted => cooldown.turns <= autoGap
      BY DEF IInv, TypeOK, Counted
    <3>9. QED BY <3>7, <3>8, LaterTyped, CompactionAssumption
  <2>3. QED BY <2>1, <2>2
<1>2. QED BY <1>1, Inductive, PTL DEF Spec, AutomaticSpacing, Open

-------------------------------------------------------------------------------
(* Refinement: the gate, the trigger and all hooks implement CompactionOnce  *)

\* The abstract state, as Once substitutes it.
ActiveNow == IF intruded THEN {} ELSE {reqs[s].key : s \in Own}
RetiredNow == IF intruded THEN None ELSE gate.lastKey

LEMMA ActiveQuiet ==
    ASSUME UNCHANGED <<gate, reqs, intruded>>
    PROVE  UNCHANGED Once!vars
BY DEF Once!vars, Own, Busy

LEMMA ClaimBegins ==
    ASSUME TypeOK, ~intruded => Exclusive, NEW src \in Sources, Claim(src),
           UNCHANGED intruded
    PROVE  [Once!Next]_Once!vars
<1>1. CASE intruded
  BY <1>1 DEF Once!vars
<1>2. CASE ~intruded
  <2>1. PICK s \in Slots : /\ Own' = {s}
                           /\ reqs'[s] = [st |-> "running", key |-> WindowKey,
                                          src |-> src, own |-> TRUE]
    BY <1>2, ClaimAlone
  <2>2. /\ Own = {} /\ gate.lastKey # WindowKey /\ WindowKey \in Key
        /\ gate' = [inFlight |-> WindowKey, lastKey |-> gate.lastKey]
    BY <1>2, ClaimAlone, KeysInt
  <2>3. PICK w \in Key : w = WindowKey
    BY <2>2
  <2>4. ActiveNow = {} /\ ActiveNow' = {w}
    BY <1>2, <2>1, <2>2, <2>3 DEF ActiveNow
  <2>5. RetiredNow = gate.lastKey /\ RetiredNow' = gate.lastKey
    BY <1>2, <2>2 DEF RetiredNow
  <2>6. Once!Begin(w)
    BY <2>2, <2>3, <2>4, <2>5 DEF Once!Begin, ActiveNow, RetiredNow
  <2>7. QED BY <2>6 DEF Once!Next
<1>3. QED BY <1>1, <1>2

LEMMA TryBegins ==
    ASSUME TypeOK, ~intruded => Exclusive, NEW c, TryCompact(c) \/ Declined,
           UNCHANGED intruded
    PROVE  [Once!Next]_Once!vars
BY ClaimBegins, ActiveQuiet DEF TryCompact, Declined, Sources

\* The first intrusion is, for the abstract gate, the end of the session;
\* later ones change nothing it sees.
LEMMA IntrusionReplaces ==
    ASSUME intruded'
    PROVE  [Once!Next]_Once!vars
<1>1. Once!Replace
  BY DEF Once!Replace
<1>2. QED BY <1>1 DEF Once!Next

\* Every step of the program is a step of the abstract gate or leaves it alone.
LEMMA StepRefines ==
    ASSUME IInv, [Next]_vars
    PROVE  [Once!Next]_Once!vars
<1> USE DEF IInv
<1>0. TypeOK /\ (~intruded => Exclusive)
  OBVIOUS
<1>1. ASSUME NEW id \in Sessions, SessionStart(id) PROVE [Once!Next]_Once!vars
  <2>1. gate' = NoClaim /\ intruded' = FALSE
    BY <1>1 DEF SessionStart
  <2>2. \A s \in Slots : reqs'[s].own = FALSE
    BY <1>1, DisownedStart
  <2>3. Own' = {}
    BY <2>2 DEF Own, Busy
  <2>4. Once!Replace
    BY <2>1, <2>3 DEF Once!Replace, NoClaim
  <2>5. QED BY <2>4 DEF Once!Next
<1>2. CASE SessionShutdown BY <1>2, ActiveQuiet DEF SessionShutdown, history
<1>3. CASE Input BY <1>0, <1>3, ClaimBegins, TryBegins DEF Input, Sources, history
<1>4. CASE Steer BY <1>4, ActiveQuiet DEF Steer, history
<1>5. CASE AgentStart BY <1>5, ActiveQuiet DEF AgentStart, history
<1>6. CASE MessageEnd BY <1>6, ActiveQuiet DEF MessageEnd, history
<1>7. CASE RequestCompaction BY <1>7, ActiveQuiet DEF RequestCompaction, history
<1>8. CASE TurnEnd BY <1>0, <1>8, TryBegins DEF TurnEnd
<1>9. CASE TurnEndDraft
  <2>1. /\ gate.inFlight = None /\ gate.lastKey # WindowKey /\ reqs' = reqs
        /\ gate' = [inFlight |-> None, lastKey |-> WindowKey]
        /\ intruded' = intruded
    BY <1>9 DEF TurnEndDraft, Admits, SettleGate
  <2>2. CASE intruded BY <2>1, <2>2, IntrusionReplaces
  <2>3. CASE ~intruded
    <3>1. Own = {}
      BY <2>1, <2>3, OwnBusy DEF Exclusive, Own
    <3>2. Own' = {}
      BY <2>1, <3>1 DEF Own, Busy
    <3>3. PICK w \in Key : w = WindowKey
      BY KeysInt
    <3>4. Once!AtOnce(w)
      BY <2>1, <2>3, <3>1, <3>2, <3>3 DEF Once!AtOnce
    <3>5. QED BY <3>4 DEF Once!Next
  <2>4. QED BY <2>2, <2>3
<1>10. CASE AgentSettled
  BY <1>0, <1>10, ClaimBegins, TryBegins DEF AgentSettled, Sources, history
<1>11. CASE IdleFire BY <1>0, <1>11, TryBegins DEF IdleFire, history
<1>12. ASSUME NEW s \in Slots, Apply(s) PROVE [Once!Next]_Once!vars
  <2>1. /\ reqs[s] \in Request /\ reqs' = [reqs EXCEPT ![s].st = "applied"]
        /\ gate' = gate /\ intruded' = intruded
    BY <1>12 DEF Apply, TypeOK, Free
  <2>2. \A t \in Slots : /\ reqs'[t].key = reqs[t].key
                         /\ reqs'[t].own = reqs[t].own
                         /\ reqs'[t].st # "free" <=> reqs[t].st # "free"
    BY <2>1, <1>12 DEF Apply, TypeOK, Request, Free
  <2>3. Own' = Own
    BY <2>2 DEF Own, Busy
  <2>4. ActiveNow' = ActiveNow
    <3>1. \A t \in Own : reqs'[t].key = reqs[t].key
      BY <2>2 DEF Own, Busy
    <3>2. QED BY <2>1, <2>3, <3>1 DEF ActiveNow
  <2>5. QED BY <2>1, <2>4 DEF Once!vars, ActiveNow
<1>13. ASSUME NEW s \in Slots, Settle(s) \/ Refuse(s) PROVE [Once!Next]_Once!vars
  <2>1. CASE intruded' BY <2>1, IntrusionReplaces
  <2>2. CASE ~intruded'
    <3>1. ~intruded
      BY <1>13, <2>2 DEF Settle, Refuse, TypeOK
    <3>2. CASE s \in Own
      <4>1. /\ s \in Busy /\ reqs' = [reqs EXCEPT ![s] = Free]
        BY <1>13, <3>2 DEF Settle, Refuse, Own
      <4>2. Own' = {} /\ Own = {s}
        BY <3>1, <3>2, <4>1, OwnAnswered
      <4>3. PICK w \in Key : w = reqs[s].key
        BY <4>1, OwnBusy
      <4>4. CASE Settle(s)
        <5>1. gate' = [inFlight |-> None, lastKey |-> reqs[s].key]
          BY <4>4 DEF Settle, SettleGate
        <5>2. Once!Complete(w)
          BY <2>2, <3>1, <4>2, <4>3, <5>1 DEF Once!Complete
        <5>3. QED BY <5>2 DEF Once!Next
      <4>5. CASE Refuse(s)
        <5>1. gate'.lastKey = gate.lastKey
          BY <4>5 DEF Refuse, AbortGate, TypeOK
        <5>2. Once!Fail(w)
          BY <2>2, <3>1, <4>2, <4>3, <5>1 DEF Once!Fail
        <5>3. QED BY <5>2 DEF Once!Next
      <4>6. QED BY <1>13, <4>4, <4>5
    <3>3. CASE s \notin Own
      <4>1. ~reqs[s].own /\ s \in Busy
        BY <1>13, <3>3 DEF Settle, Refuse, Own, Busy
      <4>2. /\ Own' = Own
            /\ \A t \in Own : reqs'[t] = reqs[t]
            /\ \/ gate' = gate
               \/ /\ gate = NoClaim /\ Own = {}
                  /\ gate' = [inFlight |-> None, lastKey |-> reqs[s].key]
        BY <1>13, <2>2, <3>1, <4>1, LateHarmless
      <4>3. CASE gate' = gate
        <5>1. ActiveNow' = ActiveNow
          BY <2>2, <3>1, <4>2 DEF ActiveNow
        <5>2. QED BY <2>2, <3>1, <4>3, <5>1 DEF Once!vars, ActiveNow
      <4>4. CASE /\ gate = NoClaim /\ Own = {}
                 /\ gate' = [inFlight |-> None, lastKey |-> reqs[s].key]
        <5>1. PICK w \in Key : w = reqs[s].key
          BY <4>1, OwnBusy
        <5>2. w # None
          BY KeysInt
        <5>3. Once!AtOnce(w)
          BY <2>2, <3>1, <4>2, <4>4, <5>1, <5>2 DEF Once!AtOnce, NoClaim
        <5>4. QED BY <5>3 DEF Once!Next
      <4>5. QED BY <4>2, <4>3, <4>4
    <3>4. QED BY <3>2, <3>3
  <2>3. QED BY <2>1, <2>2
<1>15. CASE ForeignCompact BY <1>15, ActiveQuiet DEF ForeignCompact, history
<1>16. CASE Toggle BY <1>16, ActiveQuiet DEF Toggle, history
<1>17. CASE UNCHANGED vars BY <1>17, ActiveQuiet DEF vars
<1>18. QED
  BY <1>1, <1>2, <1>3, <1>4, <1>5, <1>6, <1>7, <1>8, <1>9, <1>10, <1>11,
     <1>12, <1>13, <1>15, <1>16, <1>17 DEF Next

\* The gate with all its callers keeps the promise of its file comment, to
\* every session up to its first intrusion.
THEOREM Refines == Spec => GateRefined
<1>1. Init => Once!Init
  BY DEF Init, Once!Init, NoClaim, Own, Busy, Free
<1>2. IInv /\ [Next]_vars => [Once!Next]_Once!vars
  BY StepRefines
<1>3. QED BY <1>1, <1>2, Inductive, PTL DEF Spec, Once!Spec, GateRefined
=============================================================================
