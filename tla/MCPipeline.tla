----------------------------- MODULE MCPipeline -----------------------------
(* Positions scaled down: an anchor at every third block, two blocks behind  *)
(* the trailing breakpoint.  Providers with and without markers, an explicit *)
(* breakpoint, listings in both orders; duplicated tools. *)
EXTENDS Pipeline
Provider(shape, markers, explicit, keyed, isLong) ==
    [shape |-> shape, markers |-> markers, explicit |-> explicit, keyed |-> keyed, long |-> isLong]
MCProfiles ==
    {Provider("anthropic", TRUE, "no", FALSE, FALSE), Provider("anthropic", TRUE, "late", FALSE, TRUE),
     Provider("completions", TRUE, "no", FALSE, FALSE), Provider("completions", FALSE, "no", TRUE, FALSE),
     Provider("anthropic", TRUE, "first", FALSE, FALSE)}
MCTools == {<<>>, <<"a", "a", "b">>, <<"b", "a">>}
E1 == [key |-> 1, body |-> "x"]
E2 == [key |-> 2, body |-> "x"]
MCListings == {<<E1, E2>>, <<E2, E1>>}
AllOn == [dedup |-> TRUE, anchor |-> TRUE, retention |-> TRUE, canonicalize |-> TRUE, sharedKey |-> TRUE]
Defaults == [AllOn EXCEPT !.retention = FALSE, !.sharedKey = FALSE]
MCSwitches == {AllOn, Defaults}
=============================================================================
