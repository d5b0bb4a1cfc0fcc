---------------------------- MODULE MCModelParams ----------------------------
(* Two endpoints of one origin price two models: one with tiers out of order, *)
(* a free tier and a read price above the prompt's, or not at all; the other  *)
(* flat.  The second model is served from elsewhere.                          *)
EXTENDS ModelParams
Tier(min, prompt) == [min |-> min, prompt |-> prompt, read |-> <<1>>, write |-> <<>>]
Raw(prompt, read, overrides) ==
    [prompt |-> prompt, read |-> read, write |-> <<>>, overrides |-> overrides]
MCLists(u) ==
    IF u = "a"
    THEN {[m \in Models |-> Raw(<<2>>, <<5>>, <<Tier(4, <<4>>), Tier(2, <<3>>), Tier(3, <<0>>), Tier(0, <<9>>)>>)],
          [m \in Models |-> Raw(<<0>>, <<>>, <<>>)]}
    ELSE {[m \in Models |-> Raw(<<7>>, <<>>, <<>>)]}
MCOrigin(u) == "x"
MCServed(m) == IF m = "m" THEN "x" ELSE "y"
MCPi == [input |-> 1, cacheRead |-> 0, cacheWrite |-> 0]
Unset == <<>>
Zero == <<0>>
One == <<1>>
Two == <<2>>
MCTables ==
    {[unset |-> TRUE, entries |-> <<>>], [unset |-> FALSE, entries |-> <<>>],
     [unset |-> FALSE, entries |-> <<[matches |-> {"m"}, lifetimes |-> <<2>>]>>],
     [unset |-> FALSE, entries |-> <<[matches |-> {"m"}, lifetimes |-> <<1, -1>>]>>]}
===============================================================================
