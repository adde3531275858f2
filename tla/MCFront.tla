------------------------------- MODULE MCFront -------------------------------
(* Front on small instances: the .cfg files give the bounds. *)
EXTENDS Front

MCAsks == [a \in Apps |-> IF a = "chat" THEN 2 ELSE 1]
=============================================================================
