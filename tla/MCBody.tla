------------------------------- MODULE MCBody -------------------------------
(* Two behaviours, one of each release policy, and two items to put away.    *)
EXTENDS Body

MCDescriptorOf == <<"tidy-atrium", "deliver-coffee">>
MCImmediate    == {"deliver-coffee"}

(* A put of each item, and what there is to do with the cup, on both sides   *)
(* of the corridor.                                                          *)
MCCommands == {Put("apple", "basket"), Put("mug", "tray"), Pick, Place, Brew,
               Navigate("coffee-machine"), Navigate("desk-7")}

MCSpec == InitBody /\ [][NextBody(MCCommands)]_body
=============================================================================
