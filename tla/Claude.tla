-------------------------------- MODULE Claude --------------------------------
(***************************************************************************)
(* The Claude API in the seat: claude.py of zeos-farm-drone and of         *)
(* zeos-stretch, and ClaudePlanner of zeos-blocks.  One source answers for *)
(* every job; each time a job has the machine the model is shown its       *)
(* transcript and its last command, and one command is picked out of what  *)
(* it replies.  A reply with none in it is issued as spoken, and comes     *)
(* back as a fault.                                                        *)
(*                                                                         *)
(* The model itself reasons well: what it means is what its system prompt  *)
(* asks for.  What varies is how it says it.                               *)
(***************************************************************************)
EXTENDS Integers, Sequences, SequencesExt

CONSTANTS
  Sources,    \* who asks: a subset of {"farm", "stretch", "blocks"}
  Jobs,
  Acts,       \* what each job has to have done, one after another: 1..Acts
  EmptyLimit, \* EMPTY_LIMIT
  MaxIdle,    \* bound: replies that are not taken for what they mean
  MaxCuts     \* bound: acts interrupted

\* "bare": the command alone.  "recap": after the last command issued.  "report": after the
\* last act that was done.  "ahead": before the command to follow.  "unended": without its
\* terminator.  "prose": no command.  "silent": no text at all.
Manner == {"bare", "recap", "report", "ahead", "unended", "prose", "silent"}

\* The replies that a one_command cannot tell apart. The farm's compares with the last command, which
\* is the read once an act is done; the atrium's takes the last, the table's the first.
Misleading == [farm |-> {"report"}, stretch |-> {"ahead"}, blocks |-> {"recap", "report"}]

ASSUME ClaudeAssumption ==
  /\ Sources \subseteq {"farm", "stretch", "blocks"}
  /\ Acts \in Nat /\ EmptyLimit \in Nat \ {0} /\ MaxIdle \in Nat /\ MaxCuts \in Nat

VARIABLES
  source,  \* whose source this is
  phase,   \* "checking" the credentials, "running", "unreachable", or "raised"
  state,   \* per job: "ready", "parked" on a read, or "exited"
  last,    \* turn.last: the command it issued last
  seen,    \* how many acts its transcript shows done
  owed,    \* whether its transcript shows an act and no answer yet
  doing,   \* the act its drone or body has in hand or has answered for, or 0
  answer,  \* what waits on its stdin: "none", "done" or "interrupted"
  misread, \* history: whether that act was picked out of a misleading reply that meant another
  log,     \* history, per job: the acts done, in order
  again,   \* history, per job: the acts done that were so misread
  empty,   \* _empty: replies in a row with no text, whoever they were for
  idle, cuts  \* counts, for the bounds

world == <<doing, answer, misread, log, again>>
seat  == <<source, phase, state, last, seen, owed, world, empty, idle, cuts>>

\* A command is its verb and the act it writes, if any.
Write(k) == <<"write", k>>
Read     == <<"read", 0>>
Exit     == <<"exit", 0>>
Say      == <<"say", 0>>
Spoken   == <<"spoken", 0>>   \* no command: the seat makes it MALFORMED
Nothing  == <<"none", 0>>     \* nothing issued yet

SeatInit ==
  /\ source \in Sources /\ phase = IF source = "blocks" THEN "running" ELSE "checking"
  /\ state = [j \in Jobs |-> "ready"] /\ last = [j \in Jobs |-> Nothing]
  /\ seen = [j \in Jobs |-> 0] /\ owed = [j \in Jobs |-> FALSE]
  /\ doing = [j \in Jobs |-> 0] /\ answer = [j \in Jobs |-> "none"]
  /\ misread = [j \in Jobs |-> FALSE]
  /\ log = [j \in Jobs |-> <<>>] /\ again = [j \in Jobs |-> {}]
  /\ empty = 0 /\ idle = 0 /\ cuts = 0

\* check_credentials: asked once, before anything starts.
CheckCredentials ==
  /\ phase = "checking" /\ phase' \in {"running", "unreachable"}
  /\ UNCHANGED <<source, state, last, seen, owed, world, empty, idle, cuts>>

-----------------------------------------------------------------------------
(***************************************************************************)
(* What the model means, from the system prompt and the transcript.        *)
(***************************************************************************)
ToDo(j) == IF seen[j] = Acts THEN Exit ELSE Write(seen[j] + 1)

\* The drone, the body: after every write to stdout, read stdin.
MeansToAnActor(j) == IF owed[j] THEN Read ELSE ToDo(j)

\* The arm: a move is made the instant it is asked for, and the STATUS lines show it.
MeansToTheArm(j) == ToDo(j)

Means(j) == IF source = "blocks" THEN MeansToTheArm(j) ELSE MeansToAnActor(j)

\* What is to follow that, for a model that plans ahead.
Follows(j) ==
  IF source # "blocks" /\ Means(j)[1] = "write" THEN <<Read>>
  ELSE IF Means(j)[1] # "write" THEN <<>>
  ELSE IF Means(j)[2] < Acts THEN <<Write(Means(j)[2] + 1)>> ELSE <<Exit>>

\* The commands with a terminator in a reply, in order; _DONE puts the last one before it.
Quoted(j, manner) ==
  CASE manner = "bare"   -> <<Means(j)>>
    [] manner = "recap"  -> IF last[j] \in {Nothing, Spoken} THEN <<Means(j)>> ELSE <<last[j], Means(j)>>
    [] manner = "report" -> IF owed[j] \/ seen[j] = 0 THEN <<Means(j)>> ELSE <<Write(seen[j]), Means(j)>>
    [] manner = "ahead"  -> <<Means(j)>> \o Follows(j)
    [] OTHER             -> <<>>

-----------------------------------------------------------------------------
(***************************************************************************)
(* one_command, three ways.                                                *)
(***************************************************************************)
\* Mutant: the farm's takes the first, whatever was issued last.
FirstOnTheFarm(quoted, done) == IF quoted = <<>> THEN Spoken ELSE Head(quoted)

\* The farm: the first that is not the last command over again.
FirstFresh(quoted, done) ==
  LET fresh == {n \in DOMAIN quoted : quoted[n] # done}
  IN  IF quoted = <<>> THEN Spoken ELSE IF fresh # {} THEN quoted[Min(fresh)] ELSE Head(quoted)

\* Mutant: the atrium's takes the first, as it did before its test was written.
FirstInTheAtrium(quoted) == IF quoted = <<>> THEN Spoken ELSE Head(quoted)

\* The atrium: the one the reply ends on.
EndsOn(quoted) == IF quoted = <<>> THEN Spoken ELSE Last(quoted)

\* The table: the first; a bare one needs no terminator, if it opens with a verb.
FirstOrBare(j, quoted, manner) ==
  IF quoted # <<>> THEN Head(quoted) ELSE IF manner = "unended" THEN Means(j) ELSE Spoken

OneCommand(j, manner) ==
  LET quoted == Quoted(j, manner)
  IN  CASE source = "farm"    -> FirstFresh(quoted, last[j])
        [] source = "stretch" -> EndsOn(quoted)
        [] OTHER           -> FirstOrBare(j, quoted, manner)

-----------------------------------------------------------------------------
(***************************************************************************)
(* The seat and the kernel: the command is issued.                         *)
(***************************************************************************)
Raises == phase' = "raised" /\ UNCHANGED <<state, last, seen, owed, world>>

\* An act is done, for one that was meant or for one that was misread.
Did(j, k, wrong) ==
  IF wrong THEN again' = [again EXCEPT ![j] = @ \cup {k}] /\ UNCHANGED log
  ELSE log' = [log EXCEPT ![j] = Append(@, k)] /\ UNCHANGED again

\* The transcript shows an act done.
Shows(j, k) == seen' = [seen EXCEPT ![j] = IF k > @ THEN k ELSE @]

\* The transcript shows what stdin held.
Hear(j) ==
  /\ state' = [state EXCEPT ![j] = "ready"]
  /\ IF answer[j] = "done" THEN Shows(j, doing[j]) ELSE UNCHANGED seen
  /\ owed' = [owed EXCEPT ![j] = FALSE] /\ answer' = [answer EXCEPT ![j] = "none"]
  /\ doing' = [doing EXCEPT ![j] = 0] /\ UNCHANGED <<misread, log, again>>

\* A second act before the answer to the first is read is refused.
TakesTheAct(j, k, wrong) ==
  /\ owed' = [owed EXCEPT ![j] = TRUE]
  /\ doing' = IF owed[j] THEN doing ELSE [doing EXCEPT ![j] = k]
  /\ misread' = IF owed[j] THEN misread ELSE [misread EXCEPT ![j] = wrong]
  /\ UNCHANGED <<state, seen, answer, log, again>>

\* The arm moves at once: the status regions hold the acts done.
ArmMoves(j, k, wrong) ==
  /\ Did(j, k, wrong) /\ Shows(j, k)
  /\ UNCHANGED <<state, owed, doing, answer, misread>>

Issue(j, c, wrong) ==
  /\ last' = [last EXCEPT ![j] = c] /\ UNCHANGED phase
  /\ \/ c[1] = "write" /\ IF source = "blocks" THEN ArmMoves(j, c[2], wrong) ELSE TakesTheAct(j, c[2], wrong)
     \/ c = Read /\ source # "blocks" /\ answer[j] # "none" /\ Hear(j)
     \/ c = Read /\ source # "blocks" /\ answer[j] = "none"
                 /\ state' = [state EXCEPT ![j] = "parked"] /\ UNCHANGED <<seen, owed, world>>
     \/ c = Exit /\ state' = [state EXCEPT ![j] = "exited"] /\ UNCHANGED <<seen, owed, world>>
     \/ c \in {Say, Spoken} /\ UNCHANGED <<state, seen, owed, world>>

\* The drone, the body: the act in hand is done, or cut short by something more urgent.
Perform(j) ==
  /\ phase = "running" /\ doing[j] # 0 /\ answer[j] = "none"
  /\ \/ answer' = [answer EXCEPT ![j] = "done"] /\ Did(j, doing[j], misread[j]) /\ UNCHANGED cuts
     \/ cuts < MaxCuts /\ cuts' = cuts + 1 /\ answer' = [answer EXCEPT ![j] = "interrupted"]
        /\ UNCHANGED <<log, again>>
  /\ UNCHANGED <<source, phase, state, last, seen, owed, doing, misread, empty, idle>>

Wake(j) ==
  /\ phase = "running" /\ state[j] = "parked" /\ answer[j] # "none" /\ Hear(j)
  /\ UNCHANGED <<source, phase, last, empty, idle, cuts>>

-----------------------------------------------------------------------------
(***************************************************************************)
(* next_command: the model is asked.                                       *)
(***************************************************************************)
Asked(j) == phase = "running" /\ state[j] = "ready" /\ UNCHANGED <<source, cuts>>

\* What is not taken for what it means is counted, for the bound.
Taken(j, c) == IF c = Means(j) THEN UNCHANGED idle ELSE idle < MaxIdle /\ idle' = idle + 1

\* The command picked out of a reply is issued.
Reply(j, manner) ==
  LET c == OneCommand(j, manner)
  IN  Taken(j, c) /\ Issue(j, c, manner \in Misleading[source] /\ c # Means(j))

\* The farm and the atrium: a refusal, or a reply with no text, stops the run.
AskActorsModel(j) ==
  /\ source # "blocks" /\ Asked(j) /\ UNCHANGED empty
  /\ \/ Raises /\ UNCHANGED idle
     \/ \E manner \in Manner \ {"silent"} : Reply(j, manner)

\* The table: an empty reply is asked again, as `say nothing`, EMPTY_LIMIT times.
AskPlanner(j) ==
  /\ source = "blocks" /\ Asked(j)
  /\ \/ /\ idle < MaxIdle /\ idle' = idle + 1 /\ empty' = empty + 1
        /\ IF empty + 1 >= EmptyLimit THEN Raises ELSE Issue(j, Say, FALSE)
     \/ \E manner \in Manner \ {"silent"} : empty' = 0 /\ Reply(j, manner)

SeatNext == CheckCredentials \/ \E j \in Jobs : AskActorsModel(j) \/ AskPlanner(j) \/ Perform(j) \/ Wake(j)

SeatSpec     == SeatInit /\ [][SeatNext]_seat
FairSeatSpec == SeatSpec /\ WF_seat(SeatNext)

-----------------------------------------------------------------------------
(***************************************************************************)
(* Properties.                                                             *)
(***************************************************************************)
(* Whatever a reply quotes before or after the command it means, a job's acts
   are done in their order and each once. A reply that one_command misreads
   has an act done over again, never one that is not due; and the atrium's,
   which takes the last command there is, not even that (claude.py:117, stretch
   claude.py:103, planner.py:278). *)
EachActOnce ==
  \A j \in Jobs :
    /\ \A n \in DOMAIN log[j] : log[j][n] = n
    /\ \A k \in again[j] : k \in DOMAIN log[j] /\ source # "stretch"

(* "unless the first is the command the job has just completed, which a model
   that explains itself quotes before answering" (claude.py:122): nothing that
   was done is done again. *)
NothingAgain == \A j \in Jobs : again[j] = {}

(* Replies that hold no command, or hold one that was done, delay a job and do not
   lose it: each does all it had to and exits, unless the source raised, there
   were no credentials, or the atrium's model planned ahead: its read, with nothing
   written, waits for an answer that nobody owes. *)
Stranded(j) == source = "stretch" /\ state[j] = "parked" /\ ~owed[j]

JobsFinish ==
  <>(\/ phase \in {"raised", "unreachable"}
     \/ \A j \in Jobs : (state[j] = "exited" /\ Len(log[j]) = Acts) \/ Stranded(j))
=============================================================================
