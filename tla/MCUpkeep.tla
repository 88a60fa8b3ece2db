------------------------------ MODULE MCUpkeep ------------------------------
EXTENDS Upkeep, TLC
CONSTANTS o1, o2, w1, s1, s2, core, app
MCInstalledOn == (core :> {s1, s2}) @@ (app :> {s2})
NothingCached == [a \in Apps |-> {}]
MCScopes == {{}, {s1}}
MCRequests == {[apps |-> {core}, only |-> {}, skip |-> FALSE],
               [apps |-> {app}, only |-> {}, skip |-> TRUE]}
Symmetry == Permutations({o1, o2})
=============================================================================
