------------------------------- MODULE MCClaude -------------------------------
(* The three seats, and the farm's alone.                                      *)
EXTENDS Claude

MCSources == {"farm", "stretch", "blocks"}
Farm      == {"farm"}
=============================================================================
