------------------------------ MODULE Workspace ------------------------------
(***************************************************************************)
(* The workspace of zeos-blocks: a table kept in the kernel's world store, *)
(* an arm that applies a job's move between two ticks, hands that reach in *)
(* from other threads, and the two jobs that rearrange the table           *)
(* (zeos-blocks/src/zeos_blocks: session.py, arm.py, world.py, planner.py, *)
(* web/server.py, console.py).                                             *)
(*                                                                         *)
(* The arm reads and writes the store on the kernel thread.  A hand reads  *)
(* the store on its own thread, one position after another, and queues the *)
(* whole contents of the two positions it changed: a read, a decision and  *)
(* two writes that the kernel thread may step between.                     *)
(***************************************************************************)
EXTENDS Naturals, Sequences, FiniteSets, SequencesExt, FiniteSetsExt

CONSTANTS
  Blocks, Colours,
  NoBlock,      \* a name no block has
  ColourOf,     \* the colour letter of a block's name
  N,            \* how many positions
  Initials,     \* the tables there may be at boot
  Goals,        \* sentences: what to move, from where (if said), and where to
  Tabs,         \* pages a person can drag a block on
  Consoles,     \* terminals a person can type a move at
  MaxDrags,     \* bound: moves by hand
  MaxSays       \* bound: sentences the operator types

Positions == 1 .. N
Hands     == Tabs \cup Consoles
Names     == Blocks \cup {NoBlock}
Tables    == [Positions -> Seq(Blocks)]

BlocksOf(tbl) == UNION {ToSet(tbl[p]) : p \in Positions}

\* No block is on the table twice.
NoneTwice(tbl) ==
  \A p, q \in Positions : \A k \in DOMAIN tbl[p], l \in DOMAIN tbl[q] :
    tbl[p][k] = tbl[q][l] => p = q /\ k = l

EachOnce(tbl) == NoneTwice(tbl) /\ Blocks \subseteq BlocksOf(tbl)

ASSUME WorkspaceAssumption ==
  /\ Tabs \cap Consoles = {}
  /\ N \in Nat /\ MaxDrags \in Nat /\ MaxSays \in Nat
  /\ ColourOf \in [Blocks -> Colours] /\ NoBlock \notin Blocks \cup Colours /\ Blocks \cap Colours = {}
  /\ \A tbl \in Initials : tbl \in Tables /\ EachOnce(tbl)
  /\ \A g \in Goals : /\ g.what \in Blocks \cup Colours /\ g.to \in Positions
                       /\ g.from \in Seq(Positions) /\ Len(g.from) <= 1

VARIABLES
  store,      \* the world objects table.*: what is on each position, from the bottom up
  inbound,    \* session._inbound: position contents a hand delivered
  held,       \* session._held
  phase,      \* where Session.step is
  asked,      \* arm.requests, as a sequence of at most one move
  publishing, \* the second delivery of the move the arm is publishing
  jobs,       \* per descriptor: its command and the kind of the last one it issued
  goal,       \* what the stacker was told
  hand,       \* per hand: where in hold, disturb and release it is
  drags, says,\* how many moves by hand and sentences were begun
  raced,      \* history: some hand acted on a table that was not at rest
  plain,      \* history: when the stacker was told, no stack held a colour twice
  placed      \* history: the blocks the stacker put on its destination since

kernel == <<phase, asked, publishing>>
people == <<hand, drags, says, raced>>
told   == <<goal, plain>>
vars   == <<store, inbound, held, kernel, jobs, told, people, placed>>

-----------------------------------------------------------------------------
(***************************************************************************)
(* world.py: the table and its rules.                                      *)
(***************************************************************************)
PositionsOf(tbl, b) == {p \in Positions : b \in ToSet(tbl[p])}
PositionOf(tbl, b)  == Min(PositionsOf(tbl, b))
IsClear(tbl, b)     == LET s == tbl[PositionOf(tbl, b)] IN s[Len(s)] = b
Above(tbl, b)       == LET s == tbl[PositionOf(tbl, b)]
                       IN {k \in DOMAIN s : \E j \in DOMAIN s : s[j] = b /\ j < k}
Top(tbl, p)         == tbl[p][Len(tbl[p])]

Allowed(tbl, b, to) ==
  /\ b \in BlocksOf(tbl)
  /\ IsClear(tbl, b)
  /\ PositionOf(tbl, b) # to

\* The topmost block of that colour at that position, if there is one.
Resolve(tbl, c, p) ==
  LET ks == {k \in DOMAIN tbl[p] : ColourOf[tbl[p][k]] = c}
  IN IF ks = {} THEN {} ELSE {tbl[p][Max(ks)]}

\* What makes a colour name one block in the place it was said to be.
OneOfAColour(tbl) ==
  \A p \in Positions : \A j, k \in DOMAIN tbl[p] : ColourOf[tbl[p][j]] = ColourOf[tbl[p][k]] => j = k

\* A hand lifts a block out from anywhere in a stack.
Without(s, b) == LET k == Min({j \in DOMAIN s : s[j] = b}) IN RemoveAt(s, k)

-----------------------------------------------------------------------------
(***************************************************************************)
(* planner.py: one command from the table as it stands.                    *)
(***************************************************************************)
Move(b, to) == [verb |-> "move", block |-> {b}, to |-> to]
Speak       == [verb |-> "speak", block |-> {}, to |-> 0]
Exit        == [verb |-> "exit", block |-> {}, to |-> 0]
None        == [verb |-> "none", block |-> {}, to |-> 0]

FirstOf(tbl, c, places) ==
  LET hits == {k \in DOMAIN places : Resolve(tbl, c, places[k]) # {}}
  IN IF hits = {} THEN {} ELSE Resolve(tbl, c, places[Min(hits)])

ColourMeant(what) == IF what \in Blocks THEN ColourOf[what] ELSE what
Anywhere          == [p \in Positions |-> p]

\* Mutant: the destination is not looked at before anywhere is.
TargetAnywhere(tbl, g) ==
  IF g.what \in BlocksOf(tbl) THEN {g.what}
  ELSE FirstOf(tbl, ColourMeant(g.what), g.from \o Anywhere)

\* Mutant: nowhere is looked but where it was said to be and to go.
TargetSaid(tbl, g) ==
  IF g.what \in BlocksOf(tbl) THEN {g.what}
  ELSE FirstOf(tbl, ColourMeant(g.what), g.from \o <<g.to>>)

Target(tbl, g) ==
  IF g.what \in BlocksOf(tbl) THEN {g.what}
  ELSE FirstOf(tbl, ColourMeant(g.what), g.from \o <<g.to>> \o Anywhere)

\* Mutant: what is in the way is left to the arm to find out.
CommandBuried(tbl, b, from, to) == IF from = to THEN Speak ELSE Move(b, to)

\* What is on top goes first: to an empty position if there is one, never to the destination.
CommandFor(tbl, b, from, to) ==
  LET empty == {p \in Positions \ {to} : tbl[p] = <<>>}
      other == Positions \ {from, to}
  IN IF from = to THEN Speak
     ELSE IF Above(tbl, b) = {} THEN Move(b, to)
     ELSE IF empty # {} THEN Move(Top(tbl, from), Min(empty))
     ELSE IF other # {} THEN Move(Top(tbl, from), Min(other))
     ELSE Speak

\* The one command a stacker issues next, as a singleton.
NextCommands(tbl, g) ==
  IF Target(tbl, g) = {} THEN {Speak}
  ELSE {CommandFor(tbl, b, PositionOf(tbl, b), g.to) : b \in Target(tbl, g)}

Occupied(tbl) == {p \in Positions : tbl[p] # <<>>}

\* The position holding the most, the later of two that hold as many.
Fullest(tbl, ps) ==
  CHOOSE p \in ps : \A q \in ps :
    Len(tbl[q]) < Len(tbl[p]) \/ (Len(tbl[q]) = Len(tbl[p]) /\ q <= p)

\* One move towards a tidy table, as a singleton.
TidyCommands(tbl) ==
  IF Cardinality(Occupied(tbl)) <= 1 THEN {Speak}
  ELSE {Move(Top(tbl, Fullest(tbl, Occupied(tbl) \ {target})), target) :
          target \in {Fullest(tbl, Occupied(tbl))}}

\* Say the thing once, then finish.
StopAfterSaying(command, last) ==
  IF command.verb = "speak" /\ last = "speak" THEN Exit ELSE command

-----------------------------------------------------------------------------
Fresh(alive) == [alive |-> alive, doing |-> None, last |-> "none"]

Away == [at |-> "away", block |-> {}, to |-> 0, view |-> <<>>, drag |-> FALSE]

\* blocks-tidy after boot: the background goal runs, the stacker has not been asked for.
Init ==
  /\ store \in Initials /\ inbound = <<>> /\ held = FALSE
  /\ phase = "resting" /\ asked = <<>> /\ publishing = <<>>
  /\ jobs = [j \in {"stacker", "tidy"} |-> Fresh(j = "tidy")]
  /\ goal \in Goals
  /\ hand = [h \in Hands |-> Away] /\ drags = 0 /\ says = 0
  /\ raced = FALSE /\ plain = FALSE /\ placed = {}

-----------------------------------------------------------------------------
(***************************************************************************)
(* The operator: sentences and hands, from any thread.                     *)
(***************************************************************************)
\* A sentence through the front door, once the stacker it compiled to is dispatched.
Say(g) ==
  /\ ~jobs.stacker.alive /\ says < MaxSays /\ phase = "draining"
  /\ says' = says + 1
  /\ goal' = g /\ plain' = OneOfAColour(store) /\ placed' = {}
  /\ jobs' = [jobs EXCEPT !.stacker = Fresh(TRUE)]
  /\ UNCHANGED <<store, inbound, held, kernel, hand, drags, raced>>

Acting(h) == hand[h].at \notin {"away", "dragging"}

AtRest(h) ==
  /\ phase = "resting" /\ inbound = <<>>
  /\ \A k \in Hands \ {h} : ~Acting(k)

\* /hand/start: Session.hold.
Reach(h) ==
  /\ h \in Tabs /\ hand[h] = Away /\ drags < MaxDrags
  /\ drags' = drags + 1
  /\ held' = TRUE
  /\ hand' = [hand EXCEPT ![h].at = "dragging", ![h].drag = TRUE]
  /\ UNCHANGED <<store, inbound, kernel, jobs, told, says, raced, placed>>

\* /hand/cancel: Session.release.
PutBack(h) ==
  /\ hand[h].at = "dragging"
  /\ held' = FALSE
  /\ hand' = [hand EXCEPT ![h] = Away]
  /\ UNCHANGED <<store, inbound, kernel, jobs, told, drags, says, raced, placed>>

Disturb(h, b, to, drag) ==
  /\ hand' = [hand EXCEPT ![h] = [at |-> "looking", block |-> {b}, to |-> to,
                                  view |-> <<>>, drag |-> drag]]
  /\ raced' = (raced \/ ~AtRest(h))
  /\ UNCHANGED <<store, inbound, held, kernel, jobs, told, says, placed>>

\* /hand: Session.disturb on the HTTP thread, then Session.release.
Drop(h, b, to) ==
  /\ hand[h].at = "dragging"
  /\ Disturb(h, b, to, TRUE)
  /\ UNCHANGED drags

\* A typed move: Session.disturb on the console's thread, and nothing is held.
Type(h, b, to) ==
  /\ h \in Consoles /\ hand[h] = Away /\ drags < MaxDrags
  /\ drags' = drags + 1
  /\ Disturb(h, b, to, FALSE)

\* self.positions(), one world object at a time.
LookAt(h) ==
  /\ hand[h].at = "looking" /\ Len(hand[h].view) < N
  /\ hand' = [hand EXCEPT ![h].view = Append(@, store[Len(@) + 1])]
  /\ UNCHANGED <<store, inbound, held, kernel, jobs, told, drags, says, raced, placed>>

SeenWhole(h) == hand[h].at = "looking" /\ Len(hand[h].view) = N
Finds(h, b)  == PositionsOf(hand[h].view, b) # {}

\* Table.of, remove and append, on the table the hand saw.
Delivered(h, b, p) ==
  LET seen == hand[h].view
      left == IF p = PositionOf(seen, b) THEN Without(seen[p], b) ELSE seen[p]
  IN [at |-> p, holds |-> IF p = hand[h].to THEN Append(left, b) ELSE left]

Finish(h) == hand' = [hand EXCEPT ![h].at = "done"]

FindNothing(h) ==
  /\ SeenWhole(h) /\ \A b \in hand[h].block : ~Finds(h, b)
  /\ Finish(h)
  /\ UNCHANGED <<store, inbound, held, kernel, jobs, told, drags, says, raced, placed>>

DeliverSource(h) ==
  /\ SeenWhole(h)
  /\ \E b \in hand[h].block :
       /\ Finds(h, b)
       /\ inbound' = Append(inbound, Delivered(h, b, PositionOf(hand[h].view, b)))
  /\ hand' = [hand EXCEPT ![h].at = "delivering"]
  /\ UNCHANGED <<store, held, kernel, jobs, told, drags, says, raced, placed>>

DeliverDestination(h) ==
  /\ hand[h].at = "delivering"
  /\ \E b \in hand[h].block : inbound' = Append(inbound, Delivered(h, b, hand[h].to))
  /\ Finish(h)
  /\ UNCHANGED <<store, held, kernel, jobs, told, drags, says, raced, placed>>

\* Only the page's drag releases; whoever holds, one boolean is cleared.
Leave(h) ==
  /\ hand[h].at = "done"
  /\ held' = (held /\ ~hand[h].drag)
  /\ hand' = [hand EXCEPT ![h] = Away]
  /\ UNCHANGED <<store, inbound, kernel, jobs, told, drags, says, raced, placed>>

Reaching(h) ==
  \/ PutBack(h) \/ (\E b \in Names, to \in Positions : Drop(h, b, to))
  \/ LookAt(h) \/ FindNothing(h) \/ DeliverSource(h) \/ DeliverDestination(h) \/ Leave(h)

-----------------------------------------------------------------------------
(***************************************************************************)
(* The kernel thread: Session.step.                                        *)
(***************************************************************************)
\* The hold is looked at here and not again until the next step.
BeginStep ==
  /\ phase = "resting" /\ ~held
  /\ phase' = "draining"
  /\ raced' = (raced \/ \E h \in Hands : Acting(h))
  /\ UNCHANGED <<store, inbound, held, asked, publishing, jobs, told, hand, drags, says, placed>>

DrainOne ==
  /\ phase = "draining" /\ inbound # <<>>
  /\ store' = [store EXCEPT ![Head(inbound).at] = Head(inbound).holds]
  /\ inbound' = Tail(inbound)
  /\ UNCHANGED <<held, kernel, jobs, told, people, placed>>

DrainDone ==
  /\ phase = "draining" /\ inbound = <<>>
  /\ phase' = "ticking"
  /\ UNCHANGED <<store, inbound, held, asked, publishing, jobs, told, people, placed>>

\* The stacker is at priority 50 and tidy at 80.
Running == IF jobs.stacker.alive THEN {"stacker"} ELSE {j \in {"tidy"} : jobs.tidy.alive}

\* A tick that completes no command, or has none to run.
OtherTick ==
  /\ phase = "ticking"
  /\ phase' = "resting"
  /\ UNCHANGED <<store, inbound, held, asked, publishing, jobs, told, people, placed>>

\* The first token: the planner is asked, and reads the table as it stands.
Composed(j) ==
  {StopAfterSaying(command, jobs[j].last) :
     command \in IF j = "stacker" THEN NextCommands(store, goal) ELSE TidyCommands(store)}

Compose(j) ==
  /\ phase = "ticking" /\ j \in Running /\ jobs[j].doing = None
  /\ \E command \in Composed(j) \ {Exit} : jobs' = [jobs EXCEPT ![j].doing = command]
  /\ phase' = "resting"
  /\ UNCHANGED <<store, inbound, held, asked, publishing, told, people, placed>>

\* `exit;` is one token: there is nothing to be in the middle of.
Quit(j) ==
  /\ phase = "ticking" /\ j \in Running /\ jobs[j].doing = None
  /\ Exit \in Composed(j)
  /\ jobs' = [jobs EXCEPT ![j] = [alive |-> FALSE, doing |-> None, last |-> "exit"]]
  /\ phase' = "resting"
  /\ UNCHANGED <<store, inbound, held, asked, publishing, told, people, placed>>

\* The last token: the command takes effect, by now perhaps on another table.
Issue(j) ==
  /\ phase = "ticking" /\ j \in Running /\ jobs[j].doing # None
  /\ \E command \in {jobs[j].doing} :
       /\ jobs' = [jobs EXCEPT ![j].doing = None, ![j].last = command.verb]
       /\ asked' = IF command.verb = "move" THEN Append(asked, command) ELSE asked
       /\ phase' = IF command.verb = "move" THEN "serving" ELSE "resting"
       /\ placed' = IF command.verb = "move" /\ j = "stacker" /\ command.to = goal.to
                      THEN placed \cup command.block ELSE placed
  /\ UNCHANGED <<store, inbound, held, publishing, told, people>>

Refuse ==
  /\ phase' = "resting"
  /\ UNCHANGED <<store, publishing>>

\* Mutant: only the position the block went to is published.
ServePublishingOne ==
  /\ phase = "serving"
  /\ \E command \in ToSet(asked) : \E b \in command.block :
       IF Allowed(store, b, command.to)
         THEN /\ publishing' = <<[at |-> command.to, holds |-> Append(store[command.to], b)]>>
              /\ phase' = "publishing"
              /\ UNCHANGED store
         ELSE Refuse
  /\ asked' = <<>>
  /\ UNCHANGED <<inbound, held, jobs, told, people, placed>>

\* Arm.ask: the table as it is now; a move it refuses changes nothing.
Serve ==
  /\ phase = "serving"
  /\ \E command \in ToSet(asked) : \E b \in command.block :
       IF Allowed(store, b, command.to)
         THEN /\ store' = [store EXCEPT ![PositionOf(store, b)] = Front(@)]
              /\ publishing' = <<[at |-> command.to, holds |-> Append(store[command.to], b)]>>
              /\ phase' = "publishing"
         ELSE Refuse
  /\ asked' = <<>>
  /\ UNCHANGED <<inbound, held, jobs, told, people, placed>>

Publish ==
  /\ phase = "publishing"
  /\ store' = [store EXCEPT ![publishing[1].at] = publishing[1].holds]
  /\ publishing' = <<>> /\ phase' = "resting"
  /\ UNCHANGED <<inbound, held, asked, jobs, told, people, placed>>

Command == \E j \in Running : Compose(j) \/ Quit(j) \/ Issue(j)

Step == BeginStep \/ DrainOne \/ DrainDone \/ OtherTick \/ Command \/ Serve \/ Publish

Next ==
  \/ \E g \in Goals : Say(g)
  \/ \E h \in Hands : Reach(h) \/ Reaching(h)
  \/ \E h \in Hands, b \in Names, to \in Positions : Type(h, b, to)
  \/ Step

(***************************************************************************)
(* Fairness.  The kernel thread loops; a hand that reached in finishes,    *)
(* one way or the other; a job whose command can be decoded again and      *)
(* again gets it decoded, the reflex above it being two commands long.     *)
(***************************************************************************)
Fairness ==
  /\ \A h \in Hands : WF_vars(Reaching(h))
  /\ WF_vars(Step) /\ SF_vars(Command)

Spec == Init /\ [][Next]_vars

FairSpec == Spec /\ Fairness

-----------------------------------------------------------------------------
(***************************************************************************)
(* Properties.                                                             *)
(***************************************************************************)
Commands == [verb : {"move", "speak", "exit", "none"}, block : SUBSET Blocks, to : 0 .. N]
Contents == [at : Positions, holds : Seq(Blocks)]

TypeOK ==
  /\ store \in Tables
  /\ inbound \in Seq(Contents) /\ publishing \in Seq(Contents) /\ Len(publishing) <= 1
  /\ held \in BOOLEAN
  /\ phase \in {"resting", "draining", "ticking", "serving", "publishing"}
  /\ asked \in Seq(Commands) /\ Len(asked) <= 1
  /\ jobs \in [{"stacker", "tidy"} -> [alive : BOOLEAN, doing : Commands,
                                       last : {"move", "speak", "exit", "none"}]]
  /\ goal \in Goals /\ plain \in BOOLEAN
  /\ hand \in [Hands -> [at : {"away", "dragging", "looking", "delivering", "done"},
                         block : SUBSET Names, to : 0 .. N, view : Seq(Seq(Blocks)), drag : BOOLEAN]]
  /\ drags \in 0 .. MaxDrags /\ says \in 0 .. MaxSays
  /\ raced \in BOOLEAN /\ placed \in SUBSET Blocks

Whole == EachOnce(store)

(***************************************************************************)
(* "There is no instant at which the job can observe a move half-done"     *)
(* (Session.step): whenever a job decodes, every block is on the table     *)
(* once -- the arm's move complete, a hand's two deliveries both in --     *)
(* provided every hand so far looked at a table that was at rest.          *)
(***************************************************************************)
JobsSeeAWholeTable == phase = "ticking" /\ ~raced => Whole

(***************************************************************************)
(* The interlock cannot stick: with no hand in the workspace nothing is    *)
(* held, whichever way each drag ended.                                    *)
(***************************************************************************)
NotHeldByNobody == (\A h \in Hands : hand[h].at = "away" /\ ~hand[h].drag) => ~held

(***************************************************************************)
(* A colour names one block for the whole of a job (_target): with no hand *)
(* in the run, a stacker told of a table where no stack held that colour   *)
(* twice puts at most one block on its destination -- it never chases a    *)
(* second of the same colour once the first has arrived -- and a block     *)
(* that was named is the only one it ever puts there.                      *)
(***************************************************************************)
OneBlockIsMeant ==
  drags = 0 => /\ plain => Cardinality(placed) <= 1
               /\ goal.what \in Blocks => placed \subseteq {goal.what}

(***************************************************************************)
(* The stacker and tidy finish whatever the hands did: no plan is carried  *)
(* from one move to the next, so neither can be left chasing a table that  *)
(* is not there.  Only a hand that raced the kernel, and left a block in   *)
(* two places, can keep them at it.                                        *)
(***************************************************************************)
JobsFinish == \A j \in {"stacker", "tidy"} : jobs[j].alive ~> ~jobs[j].alive \/ raced

(***************************************************************************)
(* When nobody reaches in, a stacker that exits has done what it was told: *)
(* the block it was told of, or one of that colour, is where it was to go, *)
(* unless the table holds no such block.                                   *)
(***************************************************************************)
Wanted == IF goal.what \in Blocks THEN {goal.what} ELSE {b \in Blocks : ColourOf[b] = goal.what}

ExitMeansDone ==
  [][jobs.stacker.alive /\ ~jobs'.stacker.alive /\ drags = 0
         /\ Wanted \cap BlocksOf(store) # {} => Wanted \cap ToSet(store[goal.to]) # {}]_vars

(***************************************************************************)
(* "A person part way through a drag is a person nothing should be racing" *)
(* (Session.hold): whatever the steps the drag overlapped, a hand moves    *)
(* one block, and with the hand away and its deliveries in, every block is *)
(* on the table once.                                                      *)
(***************************************************************************)
NoBlockLost ==
  phase = "resting" /\ inbound = <<>> /\ (\A h \in Hands : ~Acting(h)) => Whole
=============================================================================
