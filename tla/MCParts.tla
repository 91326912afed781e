-------------------------------- MODULE MCParts --------------------------------
EXTENDS Parts

CONSTANTS sigint, sigterm, d1, d2, h1, h2, e1, e2, e3, e4, e5, e6, e7, e8, e9, e10, e11

MCSignals == {sigint, sigterm}
MCDispatches == {d1, d2}

MCMessages == {"hello", "rule", "plan", "essay", "note"}
MCTokens == [hello |-> 1, rule |-> 1, plan |-> 2, essay |-> 4, note |-> 1]
MCVital == {"rule", "plan"}
MCFleeting == {"note"}

Use == [standing |-> "enabled", permitted |-> TRUE, automatic |-> TRUE, listed |-> TRUE,
        inside |-> TRUE, complete |-> TRUE, async |-> TRUE]
Thread == [Use EXCEPT !.async = FALSE]
Unlisted == [Use EXCEPT !.listed = FALSE]
MCUses == [document |-> <<Use, Unlisted, Thread>>,
           refused |-> <<[Use EXCEPT !.automatic = FALSE]>>,
           ipc |-> <<[Unlisted EXCEPT !.async = FALSE]>>]
MCJobs == DOMAIN MCUses
MCAgents == {"document", "refused"}

MCWindows == {h1, h2}
MCMatches == [w \in MCWindows |-> IF w = h1 THEN {"notes", "draft"} ELSE {"notes"}]
MCPlace == [w \in MCWindows |-> [x |-> IF w = h1 THEN -1 ELSE 1, w |-> 2]]
MCIconic == [x |-> -9, w |-> 1]
MCDesks == {[x |-> 0, w |-> 2], [x |-> -1, w |-> 3]}
MCPoints == -1 .. 2

Label == [sim |-> 1000, asked |-> TRUE, clickable |-> TRUE,
          confidence |-> 1000, left |-> FALSE]
MCElements == {e1, e2, e3, e4, e5, e6, e7, e8, e9, e10, e11}
MCLook == [e \in MCElements |->
  CASE e \in {e1, e2} -> Label
    [] e = e3 -> [Label EXCEPT !.sim = 940]
    [] e = e4 -> [Label EXCEPT !.sim = 720]
    [] e = e5 -> [Label EXCEPT !.sim = 360]
    [] e = e6 -> [Label EXCEPT !.sim = 300]
    [] e = e7 -> [Label EXCEPT !.sim = 0]
    [] e = e8 -> [Label EXCEPT !.asked = FALSE, !.clickable = FALSE]
    [] e = e10 -> [Label EXCEPT !.sim = 300, !.confidence = 500]
    [] e = e11 -> [Label EXCEPT !.sim = 360, !.confidence = 500]
    [] e = e9 -> [Label EXCEPT !.confidence = 900, !.left = TRUE]]
=============================================================================
