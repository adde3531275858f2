---------------------------- MODULE RequestStream ----------------------------
(***************************************************************************)
(* What the model device of zeos-chat promises the job that asked it.      *)
(*                                                                         *)
(* A request is opened, its answer is streamed onto the reply pipe as any  *)
(* number of pieces, and it is then settled for exactly one reason: the    *)
(* answer was finished, or somebody gave the request up.  The settling     *)
(* owes the pipe one terminator, and pays it once.  A piece that was       *)
(* already judged wanted when the request was given up may still slip out  *)
(* -- one piece, never two -- because the judging and the writing are not  *)
(* one step of the device.                                                 *)
(*                                                                         *)
(* Nothing here mentions threads, tickets in a table or locks: LlmAdapter  *)
(* has those and is shown to implement this.                               *)
(***************************************************************************)
EXTENDS Naturals, Sequences

CONSTANT Requests     \* every request that may ever be made

VARIABLES
  stage,    \* where each request is: unasked, open, finished, given up, closed
  held,     \* the requests with a piece judged wanted and not written yet
  stream    \* what the reply pipe has been given for each request, in order

vars == <<stage, held, stream>>

Kinds  == {"piece", "END", "ABANDONED"}

Init ==
  /\ stage  = [r \in Requests |-> "unasked"]
  /\ held   = {}
  /\ stream = [r \in Requests |-> <<>>]

Open(r) ==
  /\ stage[r] = "unasked"
  /\ stage' = [stage EXCEPT ![r] = "open"]
  /\ UNCHANGED <<held, stream>>

\* A piece is judged wanted: the request is still open when it is looked at.
Hold(r) ==
  /\ stage[r] = "open" /\ r \notin held
  /\ held' = held \cup {r}
  /\ UNCHANGED <<stage, stream>>

\* The held piece is written, whatever became of the request meanwhile.
Write(r) ==
  /\ r \in held
  /\ held'   = held \ {r}
  /\ stream' = [stream EXCEPT ![r] = Append(@, "piece")]
  /\ UNCHANGED stage

Finish(r) ==
  /\ stage[r] = "open" /\ r \notin held
  /\ stage' = [stage EXCEPT ![r] = "finished"]
  /\ UNCHANGED <<held, stream>>

\* Several requests may be given up in one go.
GiveUp(S) ==
  /\ \A r \in S : stage[r] = "open"
  /\ stage' = [r \in Requests |-> IF r \in S THEN "given up" ELSE stage[r]]
  /\ UNCHANGED <<held, stream>>

\* The terminator, which says why the stream stopped.
Close(r) ==
  /\ stage[r] \in {"finished", "given up"}
  /\ stage'  = [stage EXCEPT ![r] = "closed"]
  /\ stream' = [stream EXCEPT ![r] =
                  Append(@, IF stage[r] = "finished" THEN "END" ELSE "ABANDONED")]
  /\ UNCHANGED held

Next ==
  \/ \E r \in Requests : Open(r) \/ Hold(r) \/ Write(r) \/ Finish(r) \/ Close(r)
  \/ \E S \in SUBSET Requests : GiveUp(S)

Spec == Init /\ [][Next]_vars
=============================================================================
