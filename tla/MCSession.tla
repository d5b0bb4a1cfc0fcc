----------------------------- MODULE MCSession -----------------------------
(* Twentieths for fractions, ticks for minutes and a handful of tokens.      *)
(* Three settings: defaults on a small window with two price tiers; a        *)
(* free compaction, an unknown window and tunables out of range; a window    *)
(* too large for occupancy.                                                  *)
EXTENDS Session
Tier(min, known, input, read, write) ==
    [min |-> min,
     rates |-> [known |-> known, input |-> input, cacheRead |-> read, cacheWrite |-> write]]
Defaults ==
    [window |-> 10, neutral |-> FALSE, midterm |-> TRUE, midtermMinPercent |-> 50, minTokens |-> 3,
     coldFloor |-> 12, summaryCost |-> 1,
     tiers |-> {Tier(0, TRUE, 10, 1, 12), Tier(7, TRUE, 20, 1, 24)},
     continuation |-> 3, maxRequests |-> 8, keepFraction |-> 4,
     degradeStart |-> 10, degradeFull |-> 17, floorStart |-> 2, floorFull |-> 6, floor |-> 10,
     halfLife |-> 1, start |-> 2, full |-> 12]
OutOfRange ==
    [Defaults EXCEPT !.window = 0, !.neutral = TRUE, !.floor = 50, !.degradeFull = 5, !.floorFull = 1,
                     !.tiers = {Tier(0, FALSE, 0, 0, 0)}, !.full = 1, !.minTokens = 0]
Unbounded ==
    [Defaults EXCEPT !.window = 40, !.floor = 0, !.tiers = {Tier(0, TRUE, 10, 5, 0), Tier(7, TRUE, 20, 1, 24)}]
AnySession == Permutations(Sessions)
MCTunables == {Defaults, OutOfRange, Unbounded}
Use(input, read, long, churn) == [input |-> input, read |-> read, long |-> long, churn |-> churn]
MCRequests == {Use(2, 6, FALSE, FALSE), Use(3, 3, TRUE, FALSE), Use(6, 0, FALSE, FALSE), Use(2, 0, TRUE, TRUE)}
MCRefreshes == {[input |-> 0, read |-> 6]}
=============================================================================
