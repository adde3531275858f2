-------------------------------- MODULE Body --------------------------------
(***************************************************************************)
(* Stretch's body, simulated: the device on the end of the command pipe    *)
(* (zeos-stretch/src/zeos_stretch/vla.py).                                 *)
(*                                                                         *)
(* The body hears of the kernel's events in order -- who wears it, who     *)
(* lost it, what was written to the command pipe -- and is advanced before *)
(* and after every tick: it finishes what is due and starts what is queued *)
(* until it is doing something or nothing is left.  Settled is the state   *)
(* that leaves, and the one in which anything else happens.                *)
(*                                                                         *)
(* Virtual time is abstracted: an action under way may or may not be due.  *)
(* An answer is abstracted to its being there: no behaviour of the case    *)
(* decides by its words.  Lists of items are sets.                         *)
(***************************************************************************)
EXTENDS Integers, Sequences, FiniteSets

CONSTANTS
  Jobs, Nobody,
  DescriptorOf,  \* the behaviour a job is of
  Immediate,     \* behaviours whose release policy is `immediate`
  Desks, Items,
  Capacity       \* of a behaviour's stdin (pipes.yaml: 32)

Behaviours == {DescriptorOf[j] : j \in Jobs}
Kitchen    == {"coffee-machine", "hotplate"}
Containers == {"basket", "tray"}
Places     == {"dock", "table", "coffee-machine", "corridor", "hotplate"} \cup Desks

ASSUME BodyAssumption ==
  /\ Nobody \notin Jobs /\ Capacity \in Nat \ {0} /\ IsFiniteSet(Items)
  /\ Desks \cap (Kitchen \cup {"gripper"}) = {}

VARIABLES
  wearer,    \* self.wearer
  policies,  \* the jobs whose policy is known to be immediate
  queue,     \* self.queue
  current,   \* self.current, as a sequence of at most one action
  world,     \* self.state; the machine says `brewing` exactly while brew_due_ns is set
  unread,    \* answers on each behaviour's stdin
  owed,      \* history: commands of each job the body took on, less the answers made to them
  laidMidPut \* history: somebody laid the table while an item was being put away

body == <<wearer, policies, queue, current, world, unread, owed, laidMidPut>>

-----------------------------------------------------------------------------
Order(verb, what, where) == [verb |-> verb, what |-> what, where |-> where]
Navigate(p) == Order("navigate", "", p)
Put(i, c)   == Order("put", i, c)
Pick        == Order("pick", "coffee", "")
Place       == Order("place", "coffee", "")
Brew        == Order("brew", "", "")
Press       == Order("press", "cutoff", "")
Gibberish   == Order("dance", "", "")

Orders ==
  {Navigate(p) : p \in Places} \cup {Put(i, c) : i \in Items, c \in Containers}
    \cup {Pick, Place, Brew, Press, Gibberish}

Can(c) ==
  \/ c.verb = "navigate" /\ c.where \in Places
  \/ c.verb = "put" /\ c.where \in Containers /\ c.what \in world.table /\ world.holding = "nothing"
  \/ c.verb = "pick" /\ world.holding = "nothing" /\ world.coffee = world.position
  \/ c.verb = "place" /\ world.holding = "coffee"
  \/ c.verb = "brew" /\ world.position = "coffee-machine" /\ world.machine # "brewing"
  \/ c.verb = "press" /\ world.position = "hotplate"

Placed == [holding |-> "nothing", coffee |-> world.position]

\* Physical state once the action is complete, decided when it starts.
Outcome(c) ==
  CASE c.verb = "navigate" -> [position |-> c.where]
    [] c.verb = "put"      -> [f \in {"position", "table", c.where} |->
                                 CASE f = "position" -> "table"
                                   [] f = "table"    -> world.table \ {c.what}
                                   [] f = c.where    -> world[c.where] \cup {c.what}]
    [] c.verb = "pick"     -> [holding |-> "coffee", coffee |-> "gripper"]
    [] c.verb = "place"    -> Placed
    [] c.verb = "brew"     -> [machine |-> "brewing", coffee |-> "coffee-machine"]
    [] c.verb = "press"    -> [hotplate |-> "off"]

\* The state once the outcome is written to it.
Updated(w, o) == [f \in DOMAIN w |-> IF f \in DOMAIN o THEN o[f] ELSE w[f]]

Across(p, q)  == (p \in Kitchen /\ q \in Desks) \/ (p \in Desks /\ q \in Kitchen)
StopsAt(p, q) == IF Across(p, q) THEN "corridor" ELSE p

\* Where an action cut short leaves the body.
Stopped(a) ==
  IF "position" \in DOMAIN a.outcome THEN StopsAt(a.origin, a.outcome.position) ELSE a.origin

Doing(j)       == \E k \in DOMAIN current : current[k].job = j
Queued(j)      == \E k \in DOMAIN queue : queue[k].job = j
Outstanding(j) == Doing(j) \/ Queued(j)

Settled == current # <<>> \/ queue = <<>>

InitBody ==
  /\ wearer = Nobody /\ policies = {} /\ queue = <<>> /\ current = <<>>
  /\ world = [position |-> "dock", holding |-> "nothing", coffee |-> "coffee-machine",
              machine |-> "idle", hotplate |-> "on", table |-> Items, basket |-> {}, tray |-> {}]
  /\ unread = [b \in Behaviours |-> 0]
  /\ owed = [j \in Jobs |-> 0]
  /\ laidMidPut = FALSE

\* An answer with no room is dropped: the behaviour has others it has not read.
Arrives(j) == unread' = [unread EXCEPT ![DescriptorOf[j]] = IF @ < Capacity THEN @ + 1 ELSE @]

Answer(j) == Arrives(j) /\ owed' = [owed EXCEPT ![j] = @ - 1]

-----------------------------------------------------------------------------
(***************************************************************************)
(* What the kernel did: `observe`.                                         *)
(***************************************************************************)
Embodied(j) ==
  /\ Settled
  /\ wearer' = j
  /\ policies' = IF DescriptorOf[j] \in Immediate THEN policies \cup {j} ELSE policies
  /\ UNCHANGED <<queue, current, world, unread, owed, laidMidPut>>

Abort ==
  /\ current' = <<>>
  /\ world' = [world EXCEPT !.position = Stopped(current[1])]
  /\ Answer(current[1].job)

\* Mutant: the action in progress is dropped and nobody is told.
DisembodiedSilently(j) ==
  /\ Settled /\ wearer = j
  /\ wearer' = Nobody
  /\ IF Doing(j) /\ j \in policies
       THEN current' = <<>> /\ world' = [world EXCEPT !.position = Stopped(current[1])]
       ELSE UNCHANGED <<current, world>>
  /\ UNCHANGED <<policies, queue, unread, owed, laidMidPut>>

Disembodied(j) ==
  /\ Settled /\ wearer = j
  /\ wearer' = Nobody
  /\ IF Doing(j) /\ j \in policies THEN Abort ELSE UNCHANGED <<current, world, unread, owed>>
  /\ UNCHANGED <<policies, queue, laidMidPut>>

\* A command on stretch.command: obeyed later, or refused at once.
Written(j, c) ==
  /\ Settled
  /\ IF j # wearer \/ Outstanding(j)
       THEN Arrives(j) /\ UNCHANGED <<queue, owed>>
       ELSE /\ queue' = Append(queue, [job |-> j, command |-> c])
            /\ owed' = [owed EXCEPT ![j] = @ + 1]
            /\ UNCHANGED unread
  /\ UNCHANGED <<wearer, policies, current, world, laidMidPut>>

(***************************************************************************)
(* A person in the room.                                                   *)
(***************************************************************************)
SetTable ==
  /\ Settled
  /\ world' = [world EXCEPT !.table = Items, !.basket = {}, !.tray = {}]
  /\ laidMidPut' = (laidMidPut \/ \E k \in DOMAIN current : current[k].command.verb = "put")
  /\ UNCHANGED <<wearer, policies, queue, current, unread, owed>>

TurnHotplateOn ==
  /\ Settled
  /\ world' = [world EXCEPT !.hotplate = "on"]
  /\ UNCHANGED <<wearer, policies, queue, current, unread, owed, laidMidPut>>

-----------------------------------------------------------------------------
(***************************************************************************)
(* `advance`: finish what is due, the machine's brewing too, and start the *)
(* next.                                                                   *)
(***************************************************************************)
\* The machine may fall due with the action, and before the next one begins.
Complete(ready) ==
  /\ current # <<>> /\ (ready => world.machine = "brewing")
  /\ current' = <<>>
  /\ world' = Updated(IF ready THEN [world EXCEPT !.machine = "ready"] ELSE world, current[1].outcome)
  /\ Answer(current[1].job)
  /\ UNCHANGED <<wearer, policies, queue, laidMidPut>>

CoffeeReady ==
  /\ Settled /\ world.machine = "brewing"
  /\ world' = [world EXCEPT !.machine = "ready"]
  /\ UNCHANGED <<wearer, policies, queue, current, unread, owed, laidMidPut>>

\* The command begins, or is answered: taken back before it began, or refused.
Start ==
  /\ current = <<>> /\ queue # <<>>
  /\ queue' = Tail(queue)
  /\ LET next == Head(queue) IN
       IF next.job = wearer /\ Can(next.command)
         THEN /\ current' = <<[job |-> next.job, command |-> next.command,
                               origin |-> world.position, outcome |-> Outcome(next.command)]>>
              /\ UNCHANGED <<unread, owed>>
         ELSE Answer(next.job) /\ UNCHANGED current
  /\ UNCHANGED <<wearer, policies, world, laidMidPut>>

\* The kernel's side of stdin: a read takes everything waiting.
ReadAll(b) ==
  /\ Settled /\ unread[b] > 0
  /\ unread' = [unread EXCEPT ![b] = 0]
  /\ UNCHANGED <<wearer, policies, queue, current, world, owed, laidMidPut>>

-----------------------------------------------------------------------------
(***************************************************************************)
(* The body under any behaviours whatever: they may write any of the       *)
(* commands at any time, exit while one is pending, and read or not.       *)
(***************************************************************************)
NextBody(commands) ==
  \/ \E j \in Jobs : (wearer = Nobody /\ Embodied(j)) \/ Disembodied(j)
  \/ \E j \in Jobs, c \in commands : Written(j, c)
  \/ \E b \in Behaviours : ReadAll(b)
  \/ SetTable \/ TurnHotplateOn
  \/ \E ready \in BOOLEAN : Complete(ready)
  \/ CoffeeReady \/ Start

-----------------------------------------------------------------------------
(***************************************************************************)
(* Properties.                                                             *)
(***************************************************************************)
BodyTypeOK ==
  /\ wearer \in Jobs \cup {Nobody} /\ policies \subseteq Jobs
  /\ queue \in Seq([job : Jobs, command : Orders])
  /\ Len(current) <= 1
  /\ \A k \in DOMAIN current :
       current[k].job \in Jobs /\ current[k].command \in Orders /\ current[k].origin \in Places
  /\ world.position \in Places /\ world.holding \in {"nothing", "coffee"}
  /\ world.coffee \in Places \cup {"gripper"} /\ world.machine \in {"idle", "brewing", "ready"}
  /\ world.hotplate \in {"on", "off"}
  /\ {world.table, world.basket, world.tray} \subseteq SUBSET Items
  /\ unread \in [Behaviours -> 0 .. Capacity]
  /\ owed \in [Jobs -> Int]
  /\ laidMidPut \in BOOLEAN

(***************************************************************************)
(* One answer per command (_answer): a behaviour has at most one command   *)
(* with the body, and whatever becomes of its commands -- done, refused,   *)
(* cut short, taken back before they began -- the answers made to it are   *)
(* the commands it wrote, less the one it is waiting on.                   *)
(***************************************************************************)
Pending(j) == Cardinality({k \in DOMAIN queue : queue[k].job = j}) + (IF Doing(j) THEN 1 ELSE 0)

OneAnswerEach == \A j \in Jobs : Pending(j) <= 1 /\ owed[j] = Pending(j)

(***************************************************************************)
(* "the action in progress stops where it is" (vla.py): an action of a     *)
(* behaviour whose policy is immediate is only ever under way while that   *)
(* behaviour wears the body, however the body changed hands meanwhile.     *)
(***************************************************************************)
OnlyForItsWearer ==
  \A k \in DOMAIN current : DescriptorOf[current[k].job] \in Immediate => wearer = current[k].job

(***************************************************************************)
(* "under any other policy it finishes first": an action of a behaviour    *)
(* whose policy is not immediate ends by having its whole outcome, whoever *)
(* wears the body by then -- no item is left half-way to the basket.       *)
(***************************************************************************)
FinishesFirst ==
  [][\A k \in DOMAIN current :
       DescriptorOf[current[k].job] \notin Immediate /\ current' # current
         => \A o \in DOMAIN current[k].outcome : world'[o] = current[k].outcome[o]]_body

(***************************************************************************)
(* No item is lost or doubled: each is on the table, in the basket or on   *)
(* the tray, and in one of them, though a put's outcome is decided when it *)
(* starts and written when it ends -- unless somebody laid the table in    *)
(* between.                                                                *)
(***************************************************************************)
EachItemSomewhere ==
  ~laidMidPut =>
    /\ world.table \cup world.basket \cup world.tray = Items
    /\ Cardinality(world.table) + Cardinality(world.basket) + Cardinality(world.tray)
         = Cardinality(Items)
=============================================================================
