------------------------------- MODULE Atrium -------------------------------
(***************************************************************************)
(* A morning in the atrium: the body under the four behaviours of the case *)
(* (zeos-stretch/cases/atrium), the lease that says who wears it, and the  *)
(* people in the room (zeos-stretch/src/zeos_stretch/run.py).              *)
(*                                                                         *)
(* A behaviour decides its next command from the world's status lines, by  *)
(* the rules its descriptor gives, and speaks it word by word over some    *)
(* ticks: it may lose the body in between and finish a sentence the world  *)
(* has overtaken.  `exit` is one word, and takes effect as it is decided.  *)
(* Jobs has at least one delivery for each order, and enough jobs of a     *)
(* behaviour that a person finds one unborn when the model lets him act.   *)
(***************************************************************************)
EXTENDS Body, FiniteSetsExt

CONSTANTS
  ContainerFor,  \* where each item belongs
  MaxDeeds       \* bound: how often somebody lays the table or lights the hotplate

VARIABLES
  pc,        \* what each job is doing
  saying,    \* the command it is in the middle of
  last,      \* the last command it finished, where its descriptor is steps and not rules
  desk,      \* the order that started a brewing job, or ""
  order,     \* the world object coffee.order
  deeds,
  delivered, \* history: desks the coffee was put down at
  relit,     \* history: the hotplate was lit again since the last alarm
  leaving,   \* history: at the last alarm the body was about to leave the hotplate
  crossed    \* history: two orders overlapped, or an alarm came while one was being brewed

jobs  == <<pc, saying, last, desk, order>>
story == <<deeds, delivered, relit, leaving, crossed>>
vars  == <<body, jobs, story>>

Tell    == Order("tell", "", "")
Exit    == Order("exit", "", "")
Nothing == Order("nothing", "", "")

\* Mutant: starting a coffee outranks delivering one.
PrioritySwapped == [b \in {"tidy-atrium", "brew-coffee", "deliver-coffee", "smoke-response"} |->
                      CASE b = "tidy-atrium" -> 80 [] b = "brew-coffee" -> 30
                        [] b = "deliver-coffee" -> 40 [] b = "smoke-response" -> 5]

Priority == [b \in {"tidy-atrium", "brew-coffee", "deliver-coffee", "smoke-response"} |->
               CASE b = "tidy-atrium" -> 80 [] b = "brew-coffee" -> 40
                 [] b = "deliver-coffee" -> 30 [] b = "smoke-response" -> 5]

BySteps == {"brew-coffee", "smoke-response"}

Of(b)     == {j \in Jobs : DescriptorOf[j] = b}

\* A morning starts with its table to clear, and every order can have its delivery.
ASSUME AtriumAssumption ==
  /\ Jobs \subseteq Nat /\ IsFiniteSet(Jobs) /\ MaxDeeds \in Nat
  /\ Behaviours \subseteq DOMAIN Priority /\ Of("tidy-atrium") # {}
  /\ Cardinality(Of("brew-coffee")) <= Cardinality(Of("deliver-coffee"))
  /\ ContainerFor \in [Items -> Containers]

Live(j)   == pc[j] \notin {"unborn", "done"}
Unborn(b) == {j \in Of(b) : pc[j] = "unborn"}
Spawned(b) == [pc EXCEPT ![Min(Unborn(b))] = "deciding"]

Init ==
  /\ InitBody
  /\ pc = [j \in Jobs |-> IF j = Min(Of("tidy-atrium")) THEN "deciding" ELSE "unborn"]
  /\ saying = [j \in Jobs |-> Nothing] /\ last = [j \in Jobs |-> "none"]
  /\ desk = [j \in Jobs |-> ""] /\ order = "none"
  /\ deeds = 0 /\ delivered = {} /\ relit = FALSE /\ leaving = FALSE /\ crossed = FALSE

-----------------------------------------------------------------------------
(***************************************************************************)
(* The lease.                                                              *)
(***************************************************************************)
\* `queue`: a second interrupt behind a busy handler is a handler of its own, in order.
Runnable(j) ==
  /\ \A k \in Of(DescriptorOf[j]) : k < j => ~Live(k)
  /\ \/ pc[j] \in {"deciding", "speaking", "listening"}
     \/ pc[j] = "blocked" /\ unread[DescriptorOf[j]] > 0

Rank(j)      == Priority[DescriptorOf[j]]
MostUrgent(j) == Runnable(j) /\ \A k \in Jobs : Runnable(k) => Rank(j) <= Rank(k)

Grant(j) == wearer = Nobody /\ MostUrgent(j) /\ Embodied(j) /\ UNCHANGED <<jobs, story>>

Revoke(j) ==
  /\ Disembodied(j)
  /\ \E k \in Jobs : Runnable(k) /\ Rank(k) < Rank(j)
  /\ UNCHANGED <<jobs, story>>

Lease == \E j \in Jobs : Grant(j) \/ Revoke(j)

-----------------------------------------------------------------------------
(***************************************************************************)
(* The behaviours, by what their descriptors tell them to do next.         *)
(***************************************************************************)
TidyNext ==
  IF world.table = {} THEN {Exit} ELSE {Put(i, ContainerFor[i]) : i \in world.table}

BrewNext(j) ==
  CASE last[j] = "none"     -> {Tell}
    [] last[j] = "tell"     -> {Navigate("coffee-machine")}
    [] last[j] = "navigate" -> {Brew}
    [] last[j] = "brew"     -> {Exit}

\* Mutant: what is in the gripper is not looked at before where it is going.
DeliverNextBlind ==
  IF world.coffee = order THEN {Exit}
  ELSE IF world.coffee = "gripper" THEN {Navigate(order)}
  ELSE IF world.coffee = world.position THEN {Pick}
  ELSE {Navigate(world.coffee)}

DeliverNext ==
  IF world.coffee = order THEN {Exit}
  ELSE IF world.coffee = "gripper"
    THEN IF world.position = order THEN {Place} ELSE {Navigate(order)}
  ELSE IF world.coffee = world.position THEN {Pick}
  ELSE {Navigate(world.coffee)}

\* Mutant: it presses where it stands.
SmokeNextAnywhere(j) ==
  IF last[j] = "press" THEN {Exit}
  ELSE IF world.holding # "nothing" THEN {Place}
  ELSE {Press}

SmokeNext(j) ==
  IF last[j] = "press" THEN {Exit}
  ELSE IF world.holding # "nothing" THEN {Place}
  ELSE IF world.position # "hotplate" THEN {Navigate("hotplate")}
  ELSE {Press}

NextCommands(j) ==
  CASE DescriptorOf[j] = "tidy-atrium"    -> TidyNext
    [] DescriptorOf[j] = "brew-coffee"    -> BrewNext(j)
    [] DescriptorOf[j] = "deliver-coffee" -> DeliverNext
    [] DescriptorOf[j] = "smoke-response" -> SmokeNext(j)

\* One token of the wearer's, if nobody more urgent can run.
Becomes(j, from, to) ==
  /\ Settled /\ wearer = j /\ pc[j] = from /\ MostUrgent(j)
  /\ pc' = [pc EXCEPT ![j] = to]

Decide(j) ==
  /\ Becomes(j, "deciding", "speaking")
  /\ \E c \in NextCommands(j) \ {Exit} : saying' = [saying EXCEPT ![j] = c]
  /\ UNCHANGED <<body, last, desk, order, story>>

DecideExit(j) ==
  /\ Becomes(j, "deciding", "done") /\ Exit \in NextCommands(j)
  /\ Disembodied(j)
  /\ UNCHANGED <<saying, last, desk, order, story>>

Says(j) ==
  /\ saying' = [saying EXCEPT ![j] = Nothing]
  /\ last' = IF DescriptorOf[j] \in BySteps THEN [last EXCEPT ![j] = saying[j].verb] ELSE last
  /\ UNCHANGED <<desk, story>>

SayOrder(j) ==
  /\ saying[j] = Tell /\ Becomes(j, "speaking", "deciding") /\ Says(j)
  /\ order' = desk[j]
  /\ UNCHANGED body

SayCommand(j) ==
  /\ saying[j] \in Orders /\ Becomes(j, "speaking", "listening") /\ Says(j)
  /\ Written(j, saying[j])
  /\ UNCHANGED order

Block(j) ==
  /\ Becomes(j, "listening", "blocked") /\ unread[DescriptorOf[j]] = 0
  /\ UNCHANGED <<body, saying, last, desk, order, story>>

ReadAnswer(j) ==
  /\ \E from \in {"listening", "blocked"} : Becomes(j, from, "deciding")
  /\ ReadAll(DescriptorOf[j])
  /\ UNCHANGED <<saying, last, desk, order, story>>

Behave == \E j \in Jobs :
  Decide(j) \/ DecideExit(j) \/ SayOrder(j) \/ SayCommand(j) \/ Block(j) \/ ReadAnswer(j)

-----------------------------------------------------------------------------
(***************************************************************************)
(* The people in the room: Atrium.act.                                     *)
(***************************************************************************)
Someone(b) == \E j \in Of(b) : Live(j)
OrderOpen  == Someone("brew-coffee") \/ Someone("deliver-coffee") \/ world.machine = "brewing"

OrderCoffee(d) ==
  /\ Settled /\ Unborn("brew-coffee") # {}
  /\ pc' = Spawned("brew-coffee")
  /\ desk' = [desk EXCEPT ![Min(Unborn("brew-coffee"))] = d]
  /\ crossed' = (crossed \/ OrderOpen)
  /\ UNCHANGED <<body, saying, last, order, deeds, delivered, relit, leaving>>

\* `coalesce`: an alarm behind a response that is under way is that response.
Alarm ==
  /\ Settled /\ ~Someone("smoke-response") /\ Unborn("smoke-response") # {}
  /\ pc' = Spawned("smoke-response")
  /\ crossed' = (crossed \/ Someone("brew-coffee"))
  /\ relit' = FALSE
  /\ leaving' = (world.position = "hotplate" /\ current # <<>>)
  /\ UNCHANGED <<body, saying, last, desk, order, deeds, delivered>>

Mess ==
  /\ deeds < MaxDeeds /\ (Someone("tidy-atrium") \/ Unborn("tidy-atrium") # {})
  /\ deeds' = deeds + 1
  /\ SetTable
  /\ pc' = IF Someone("tidy-atrium") THEN pc ELSE Spawned("tidy-atrium")
  /\ UNCHANGED <<saying, last, desk, order, delivered, relit, leaving, crossed>>

Light ==
  /\ deeds < MaxDeeds /\ world.hotplate = "off"
  /\ deeds' = deeds + 1 /\ relit' = TRUE
  /\ TurnHotplateOn
  /\ UNCHANGED <<jobs, delivered, leaving, crossed>>

People == (\E d \in Desks : OrderCoffee(d)) \/ Alarm \/ Mess \/ Light

(***************************************************************************)
(* The body is advanced before and after every tick.                       *)
(***************************************************************************)
Finish ==
  /\ \E ready \in BOOLEAN :
       /\ Complete(ready)
       /\ pc' = IF ready THEN Spawned("deliver-coffee") ELSE pc
  /\ delivered' = delivered \cup ({world'.coffee} \cap Desks)
  /\ UNCHANGED <<saying, last, desk, order, deeds, relit, leaving, crossed>>

Brewed ==
  /\ CoffeeReady
  /\ pc' = Spawned("deliver-coffee")
  /\ UNCHANGED <<saying, last, desk, order, story>>

Begin == Start /\ UNCHANGED <<jobs, story>>

System == Lease \/ Behave \/ Finish \/ Brewed \/ Begin

Next == System \/ People

(***************************************************************************)
(* Fairness.  The loop steps for ever, each step running a tick and        *)
(* advancing the body to its virtual time, so something the system can do  *)
(* is done; which thing is left open.                                      *)
(***************************************************************************)
Fairness == WF_vars(System)

Spec == Init /\ [][Next]_vars

FairSpec == Spec /\ Fairness

-----------------------------------------------------------------------------
(***************************************************************************)
(* Properties.                                                             *)
(***************************************************************************)
TypeOK ==
  /\ BodyTypeOK
  /\ pc \in [Jobs -> {"unborn", "deciding", "speaking", "listening", "blocked", "done"}]
  /\ saying \in [Jobs -> Orders \cup {Tell, Nothing}]
  /\ last \in [Jobs -> {"none", "tell", "navigate", "place", "brew", "press"}]
  /\ desk \in [Jobs -> Desks \cup {""}] /\ order \in Desks \cup {"none"}
  /\ deeds \in 0 .. MaxDeeds /\ delivered \subseteq Desks
  /\ relit \in BOOLEAN /\ leaving \in BOOLEAN /\ crossed \in BOOLEAN

(***************************************************************************)
(* "A fresh cup under the spout: the last one, if any, has been delivered" *)
(* (vla.py).  The body does not look: that no brew takes the cup out of    *)
(* the gripper, or away from where an alarm left it, rests on a delivery   *)
(* outranking a new order (vectors.yaml) and on each handler's rules.      *)
(***************************************************************************)
OneCup ==
  /\ world.holding = "coffee" <=> world.coffee = "gripper"
  /\ \A k \in DOMAIN current :
       current[k].command = Brew /\ world.machine = "ready" => world.coffee \in Desks

(***************************************************************************)
(* "the VLA's answer wakes the behaviour that asked" (pipes.yaml): a       *)
(* behaviour blocked on its answers has one there, or a command with the   *)
(* body that will be answered; it never waits for an answer that was       *)
(* dropped, or that an earlier read took with it.                          *)
(***************************************************************************)
NoVainWait == \A j \in Jobs : pc[j] = "blocked" => unread[DescriptorOf[j]] > 0 \/ Pending(j) = 1

Quiet ==
  /\ \A j \in Jobs : ~Live(j)
  /\ world.machine # "brewing" /\ queue = <<>> /\ current = <<>>

(***************************************************************************)
(* The morning ends: whatever was ordered, lit, laid and alarmed, every    *)
(* behaviour that was started finishes.  No answer is waited for in vain   *)
(* and no claimant is left without the body.                               *)
(***************************************************************************)
MorningEnds == <>[]Quiet

(***************************************************************************)
(* What the morning must come to (story.py, check): at the end the table   *)
(* is clear and each item where it belongs, the hotplate is off if an      *)
(* alarm was answered and nobody lit it since, and the coffee is where it  *)
(* was ordered -- provided no two orders overlapped, no alarm came between *)
(* an order and its brewing or as the body was leaving the hotplate, and   *)
(* nobody laid the table under the arm.                                    *)
(***************************************************************************)
EndsWell ==
  Quiet =>
    /\ world.table = {}
    /\ ~laidMidPut => \A i \in Items : i \in world[ContainerFor[i]]
    /\ (\E j \in Of("smoke-response") : pc[j] = "done") /\ ~relit /\ ~leaving => world.hotplate = "off"
    /\ ~crossed /\ order # "none" => world.coffee = order

(***************************************************************************)
(* "the hotplate is off" (story.py, check): when everything is over and an *)
(* alarm was answered, whenever it went off, the hotplate is off, unless   *)
(* somebody lit it since.                                                  *)
(***************************************************************************)
AlarmAnswered ==
  Quiet /\ (\E j \in Of("smoke-response") : pc[j] = "done") /\ ~relit => world.hotplate = "off"

(***************************************************************************)
(* "Two coffees ordered behind a busy handler are two handlers with their  *)
(* own desks" (ZEOS_FEATURES.md): at the end, every desk that asked for a  *)
(* coffee has been brought one.                                            *)
(***************************************************************************)
EveryDeskServed == Quiet => \A j \in Of("brew-coffee") : pc[j] = "done" => desk[j] \in delivered
=============================================================================
