------------------------------ MODULE MCAtrium ------------------------------
(* A short morning, with a job for each thing that can happen.  Jobs are     *)
(* numbered in the order their behaviours spawn them.                        *)
EXTENDS Atrium

MCContainerFor == [apple |-> "basket"]
MCImmediate    == {"deliver-coffee"}

TwoOrders == <<"tidy-atrium", "brew-coffee", "brew-coffee", "deliver-coffee", "deliver-coffee",
               "smoke-response">>
TwoAlarms == <<"tidy-atrium", "smoke-response", "smoke-response">>
=============================================================================
