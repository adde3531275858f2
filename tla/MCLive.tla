-------------------------------- MODULE MCLive --------------------------------
(* Both pages; dawn is one at a time, a word said is not.                      *)
EXTENDS Live

MCApps     == {"farm", "stretch"}
MCControls == {"dawn", "say"}
MCSingle   == {"dawn"}
Stretch    == {"stretch"}
OnlyFarm   == {"farm"}
=============================================================================
