------------------------------- MODULE MCFarm -------------------------------
(* A farm of two paddocks and the western boundary, and the pool of jobs a *)
(* morning there may need.                                                 *)
EXTENDS Farm

MCJobs == 1 .. 12

MCDescriptorOf ==
  <<"patrol", "vehicle-check", "vehicle-check", "livestock-check", "livestock-check",
    "livestock-check", "fire-watch", "find-item", "battery-return", "vehicle-check",
    "livestock-check", "patrol">>

MCImmediate == {"find-item", "vehicle-check", "fire-watch", "battery-return"}
MCPlaces    == {"shed", "house", "ridge", "boundary-west", "road"}
MCPADDOCKS  == <<"house", "ridge">>

MCTruth == [calves |-> [p \in {"house", "ridge"} |-> IF p = "ridge" THEN 1 ELSE 0],
            dry |-> {"ridge"}, item |-> "ridge"]

\* No morning has both a fire and a spent battery: see MCFarmStale.
MCMornings ==
  {{"vehicle-enters", "vehicle-leaves", "fire"}, {"vehicle-enters", "battery"}, {"fire"},
   {"find", "fire"}, {"calves", "stray", "trough"}, {"battery", "drained"}, {"dawn", "park"}}

FireAndBattery == {{"fire", "battery"}}
=============================================================================
