----------------------------- MODULE MCWorkspace -----------------------------
(* Workspace on small tables: three positions and two blocks of one colour. *)
EXTENDS Workspace, TLC

MCColourOf == "r1" :> "red" @@ "r2" :> "red"
MCInitials == {<< <<"r1", "r2">>, <<>>, <<>> >>, << <<"r1">>, <<"r2">>, <<>> >>}
MCGoals    == {[what |-> "red", from |-> <<1>>, to |-> 3], [what |-> "red", from |-> <<3>>, to |-> 3],
               [what |-> "r1", from |-> <<>>, to |-> 2], [what |-> "green", from |-> <<>>, to |-> 1]}

\* JobsFinish asks nothing more of a run once a hand has raced the kernel.
Unraced == ~raced
=============================================================================
