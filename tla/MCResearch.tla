------------------------------ MODULE MCResearch ------------------------------
(* Two research jobs side by side, with answers and with a stop; one after *)
(* the other, with both; and one beside two presses of the email buttons.  *)
EXTENDS Research

Bounds(m, c, p, s, o) == [messages |-> m, pieces |-> c, presses |-> p, stops |-> s, overlap |-> o]

SmallSessions == {Bounds(2, 2, 0, 0, TRUE), Bounds(2, 0, 0, 1, TRUE),
                  Bounds(2, 1, 0, 1, FALSE), Bounds(1, 1, 2, 1, TRUE)}

TwoRequests == {Bounds(2, 0, 0, 0, TRUE)}
=============================================================================
