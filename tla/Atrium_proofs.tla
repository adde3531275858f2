---------------------------- MODULE Atrium_proofs ----------------------------
(***************************************************************************)
(* What is proved of Stretch's body under any behaviours, and of a morning *)
(* in the atrium under those of the case, for any jobs, desks, items and   *)
(* release policies.                                                       *)
(***************************************************************************)
EXTENDS Atrium, FiniteSetTheorems, WellFoundedInduction, TLAPS

\* The body under any behaviours, whatever they write.
BodySpec == InitBody /\ [][NextBody(Orders)]_body

-----------------------------------------------------------------------------
(***************************************************************************)
(* The body's invariant.                                                   *)
(***************************************************************************)
Fields == {"position", "holding", "coffee", "machine", "hotplate", "table", "basket", "tray"}

Kind(f) ==
  CASE f = "position" -> Places
    [] f = "holding"  -> {"nothing", "coffee"}
    [] f = "coffee"   -> Places \cup {"gripper"}
    [] f = "machine"  -> {"idle", "brewing", "ready"}
    [] f = "hotplate" -> {"on", "off"}
    [] OTHER          -> SUBSET Items

WorldFits(w)   == DOMAIN w = Fields /\ \A f \in Fields : w[f] \in Kind(f)
OutcomeFits(o) == DOMAIN o \subseteq Fields /\ \A f \in DOMAIN o : o[f] \in Kind(f)

\* What each command leaves of the coffee, the gripper and the machine.
CupLeft(verb, o) ==
  /\ verb = "brew"  => o = [machine |-> "brewing", coffee |-> "coffee-machine"]
  /\ verb = "pick"  => o = [holding |-> "coffee", coffee |-> "gripper"]
  /\ verb = "place" => \E p \in Places : o = [holding |-> "nothing", coffee |-> p]
  /\ verb \notin {"brew", "pick", "place"} => DOMAIN o \cap {"holding", "coffee", "machine"} = {}

ActionFits(a) ==
  /\ a.job \in Jobs /\ a.command \in Orders /\ a.origin \in Places
  /\ OutcomeFits(a.outcome) /\ CupLeft(a.command.verb, a.outcome)

BodyShape ==
  /\ wearer \in Jobs \cup {Nobody} /\ policies \subseteq Jobs
  /\ queue \in Seq([job : Jobs, command : Orders])
  /\ current = <<>> \/ \E a : current = <<a>> /\ ActionFits(a)
  /\ WorldFits(world)
  /\ unread \in [Behaviours -> 0 .. Capacity] /\ owed \in [Jobs -> Int]
  /\ laidMidPut \in BOOLEAN

\* A behaviour has one command with the body at most, and is owed the answer to that.
OneEach ==
  /\ \A j \in Jobs : Doing(j) => ~Queued(j)
  /\ \A k, l \in DOMAIN queue : queue[k].job = queue[l].job => k = l

OwedInv == \A j \in Jobs : owed[j] = IF Outstanding(j) THEN 1 ELSE 0

\* A behaviour that loses the body with an action in hand is one that may finish it.
WornInv ==
  /\ \A j \in policies : DescriptorOf[j] \in Immediate
  /\ wearer # Nobody /\ DescriptorOf[wearer] \in Immediate => wearer \in policies
  /\ OnlyForItsWearer

BodyInv == BodyShape /\ OneEach /\ OwedInv /\ WornInv

-----------------------------------------------------------------------------
(***************************************************************************)
(* The queue, the hand, the room and the answers.                          *)
(***************************************************************************)
\* Nothing has no place in it.
LEMMA Empty == DOMAIN <<>> = {}
  OBVIOUS

\* Something added at the end.
LEMMA Added ==
  ASSUME NEW S, NEW q \in Seq(S), NEW e \in S
  PROVE  /\ Append(q, e) \in Seq(S) /\ DOMAIN q = 1 .. Len(q) /\ Len(q) \in Nat
         /\ DOMAIN Append(q, e) = 1 .. Len(q) + 1
         /\ \A k \in DOMAIN q : Append(q, e)[k] = q[k]
         /\ Append(q, e)[Len(q) + 1] = e
  OBVIOUS

\* The first taken away.
LEMMA Dropped ==
  ASSUME NEW S, NEW q \in Seq(S), q # <<>>
  PROVE  /\ Tail(q) \in Seq(S) /\ DOMAIN q = 1 .. Len(q) /\ Len(q) \in Nat \ {0}
         /\ DOMAIN Tail(q) = 1 .. Len(q) - 1
         /\ \A k \in DOMAIN Tail(q) : Tail(q)[k] = q[k + 1] /\ k + 1 \in DOMAIN q
         /\ \A k \in DOMAIN q : k = 1 \/ (k - 1 \in DOMAIN Tail(q) /\ Tail(q)[k - 1] = q[k])
         /\ Head(q) = q[1] /\ 1 \in DOMAIN q /\ \A k \in DOMAIN q : q[k] \in S
  OBVIOUS

\* What is in hand is one thing.
LEMMA Hand ==
  ASSUME BodyShape
  PROVE  /\ current = <<>> => (\A j : ~Doing(j)) /\ DOMAIN current = {}
         /\ current # <<>> =>
              /\ DOMAIN current = {1} /\ current = <<current[1]>> /\ ActionFits(current[1])
              /\ \A j : Doing(j) <=> current[1].job = j
  <1>1. CASE current = <<>>
    <2>1. DOMAIN current = {}
      BY <1>1
    <2>2. QED BY <1>1, <2>1 DEF Doing
  <1>2. CASE current # <<>>
    <2>1. PICK a : current = <<a>> /\ ActionFits(a)
      BY <1>2 DEF BodyShape
    <2>2. DOMAIN current = {1} /\ current[1] = a
      BY <2>1
    <2>3. QED BY <1>2, <2>1, <2>2 DEF Doing
  <1>3. QED BY <1>1, <1>2

\* What each part of the room may be.
LEMMA Kinds ==
  /\ Kind("position") = Places /\ Kind("holding") = {"nothing", "coffee"}
  /\ Kind("coffee") = Places \cup {"gripper"} /\ Kind("machine") = {"idle", "brewing", "ready"}
  /\ Kind("hotplate") = {"on", "off"} /\ Kind("table") = SUBSET Items
  /\ Kind("basket") = SUBSET Items /\ Kind("tray") = SUBSET Items
  BY DEF Kind

\* The same, of the room.
LEMMA Room ==
  ASSUME NEW w, WorldFits(w)
  PROVE  /\ w.position \in Places /\ w.holding \in {"nothing", "coffee"}
         /\ w.coffee \in Places \cup {"gripper"} /\ w.machine \in {"idle", "brewing", "ready"}
         /\ w.hotplate \in {"on", "off"}
         /\ w.table \subseteq Items /\ w.basket \subseteq Items /\ w.tray \subseteq Items
  <1>1. \A f \in Fields : w[f] \in Kind(f)
    BY DEF WorldFits
  <1>2. QED BY <1>1, Kinds DEF Fields

\* A part of the room changes.
LEMMA Changed ==
  ASSUME NEW w, WorldFits(w)
  PROVE  /\ \A p \in Places :
              /\ WorldFits([w EXCEPT !.position = p])
              /\ \A g \in Fields : g # "position" => [w EXCEPT !.position = p][g] = w[g]
         /\ \A s \in {"on", "off"} :
              /\ WorldFits([w EXCEPT !.hotplate = s])
              /\ \A g \in Fields : g # "hotplate" => [w EXCEPT !.hotplate = s][g] = w[g]
         /\ /\ WorldFits([w EXCEPT !.machine = "ready"]) /\ [w EXCEPT !.machine = "ready"].machine = "ready"
            /\ \A g \in Fields : g # "machine" => [w EXCEPT !.machine = "ready"][g] = w[g]
  <1>1. DOMAIN w = Fields /\ \A f \in Fields : w[f] \in Kind(f)
    BY DEF WorldFits
  <1>2. {"position", "hotplate", "machine"} \subseteq Fields
    BY DEF Fields
  <1>3. \A p \in Places : WorldFits([w EXCEPT !.position = p])
    BY <1>1, <1>2, Kinds DEF WorldFits
  <1>4. \A s \in {"on", "off"} : WorldFits([w EXCEPT !.hotplate = s])
    BY <1>1, <1>2, Kinds DEF WorldFits
  <1>5. WorldFits([w EXCEPT !.machine = "ready"]) /\ [w EXCEPT !.machine = "ready"].machine = "ready"
    BY <1>1, <1>2, Kinds DEF WorldFits
  <1>6. QED BY <1>1, <1>3, <1>4, <1>5

\* The table is laid.
LEMMA Laid ==
  ASSUME NEW w, WorldFits(w)
  PROVE  /\ WorldFits([w EXCEPT !.table = Items, !.basket = {}, !.tray = {}])
         /\ \A g \in {"position", "holding", "coffee", "machine", "hotplate"} :
              [w EXCEPT !.table = Items, !.basket = {}, !.tray = {}][g] = w[g]
  <1>1. DOMAIN w = Fields /\ \A f \in Fields : w[f] \in Kind(f)
    BY DEF WorldFits
  <1>2. {"table", "basket", "tray"} \subseteq Fields
    BY DEF Fields
  <1>3. QED BY <1>1, <1>2, Kinds DEF WorldFits, Fields

\* An outcome is written to it.
LEMMA Writes ==
  ASSUME NEW w, WorldFits(w), NEW o, OutcomeFits(o)
  PROVE  /\ WorldFits(Updated(w, o))
         /\ \A f \in DOMAIN o : Updated(w, o)[f] = o[f]
         /\ \A f \in Fields \ DOMAIN o : Updated(w, o)[f] = w[f]
  BY DEF WorldFits, OutcomeFits, Updated

\* A command the body can do has an outcome that is possible.
LEMMA Possible ==
  ASSUME WorldFits(world), NEW c, Can(c)
  PROVE  OutcomeFits(Outcome(c)) /\ CupLeft(c.verb, Outcome(c))
  <1> DEFINE o == Outcome(c)
  <1>1. CASE c.verb = "navigate"
    <2>1. o = [position |-> c.where] /\ c.where \in Places
      BY <1>1 DEF Can, Outcome
    <2> HIDE DEF o
    <2>2. DOMAIN o = {"position"} /\ o["position"] \in Places
      BY <2>1
    <2>3. QED BY <1>1, <2>2, Kinds DEF OutcomeFits, CupLeft, Fields, o
  <1>2. CASE c.verb = "put"
    <2>1. /\ o = [f \in {"position", "table", c.where} |->
                    CASE f = "position" -> "table"
                      [] f = "table"    -> world.table \ {c.what}
                      [] f = c.where    -> world[c.where] \cup {c.what}]
          /\ c.where \in {"basket", "tray"} /\ c.what \in world.table
      BY <1>2 DEF Can, Outcome, Containers
    <2> HIDE DEF o
    <2>2. /\ DOMAIN o = {"position", "table", c.where} /\ o["position"] = "table"
          /\ o["table"] = world.table \ {c.what} /\ o[c.where] = world[c.where] \cup {c.what}
      BY <2>1
    <2>3. world[c.where] \subseteq Items /\ world.table \subseteq Items /\ "table" \in Places
      BY <2>1, Room DEF Places
    <2>4. \A f \in DOMAIN o : o[f] \in Kind(f)
      BY <2>1, <2>2, <2>3, Kinds
    <2>5. QED BY <1>2, <2>1, <2>2, <2>4 DEF OutcomeFits, CupLeft, Fields, o
  <1>3. CASE c.verb = "pick"
    <2>1. o = [holding |-> "coffee", coffee |-> "gripper"]
      BY <1>3 DEF Outcome
    <2> HIDE DEF o
    <2>2. DOMAIN o = {"holding", "coffee"} /\ o["holding"] = "coffee" /\ o["coffee"] = "gripper"
      BY <2>1
    <2>3. QED BY <1>3, <2>1, <2>2, Kinds DEF OutcomeFits, CupLeft, Fields, o
  <1>4. CASE c.verb = "place"
    <2>1. o = [holding |-> "nothing", coffee |-> world.position] /\ world.position \in Places
      BY <1>4, Room DEF Outcome, Placed
    <2> HIDE DEF o
    <2>2. DOMAIN o = {"holding", "coffee"} /\ o["holding"] = "nothing" /\ o["coffee"] \in Places
      BY <2>1
    <2>3. QED BY <1>4, <2>1, <2>2, Kinds DEF OutcomeFits, CupLeft, Fields, o
  <1>5. CASE c.verb = "brew"
    <2>1. o = [machine |-> "brewing", coffee |-> "coffee-machine"] /\ "coffee-machine" \in Places
      BY <1>5 DEF Outcome, Places
    <2> HIDE DEF o
    <2>2. DOMAIN o = {"machine", "coffee"} /\ o["machine"] = "brewing" /\ o["coffee"] \in Places
      BY <2>1
    <2>3. QED BY <1>5, <2>1, <2>2, Kinds DEF OutcomeFits, CupLeft, Fields, o
  <1>6. CASE c.verb = "press"
    <2>1. o = [hotplate |-> "off"]
      BY <1>6 DEF Outcome
    <2> HIDE DEF o
    <2>2. DOMAIN o = {"hotplate"} /\ o["hotplate"] = "off"
      BY <2>1
    <2>3. QED BY <1>6, <2>2, Kinds DEF OutcomeFits, CupLeft, Fields, o
  <1>7. QED BY <1>1, <1>2, <1>3, <1>4, <1>5, <1>6 DEF Can

\* An action cut short leaves the body somewhere.
LEMMA SomewhereStopped == ASSUME NEW a, ActionFits(a) PROVE Stopped(a) \in Places
  <1>1. \A p \in Places : \A q : StopsAt(p, q) \in Places
    BY DEF StopsAt, Places
  <1>2. QED BY <1>1 DEF Stopped, ActionFits

-----------------------------------------------------------------------------
(***************************************************************************)
(* What its steps do.                                                      *)
(***************************************************************************)
\* An answer reaches the one behaviour it is for: there is one there, if there was room or not.
LEMMA Arrived ==
  ASSUME unread \in [Behaviours -> 0 .. Capacity], NEW j \in Jobs, Arrives(j)
  PROVE  /\ DescriptorOf[j] \in Behaviours /\ unread' \in [Behaviours -> 0 .. Capacity]
         /\ unread'[DescriptorOf[j]] > 0
         /\ \A b \in Behaviours : /\ b # DescriptorOf[j] => unread'[b] = unread[b]
                                  /\ unread[b] > 0 => unread'[b] > 0
  <1> DEFINE d == DescriptorOf[j]
  <1>1. d \in Behaviours
    BY DEF Behaviours
  <1>2. unread' = [unread EXCEPT ![d] = IF unread[d] < Capacity THEN unread[d] + 1 ELSE unread[d]]
    BY DEF Arrives
  <1>3. Capacity \in Nat \ {0}
    BY BodyAssumption
  <1> HIDE DEF d
  <1>4. QED BY <1>1, <1>2, <1>3 DEF d

\* What was in hand no longer is.
LEMMA Ended ==
  ASSUME BodyInv, current # <<>>, current' = <<>>, UNCHANGED queue
  PROVE  /\ current[1].job \in Jobs /\ Outstanding(current[1].job) /\ OneEach'
         /\ \A i \in Jobs : Outstanding(i)' <=> Outstanding(i) /\ i # current[1].job
  <1>1. current[1].job \in Jobs /\ \A j : Doing(j) <=> current[1].job = j
    BY Hand DEF BodyInv, ActionFits
  <1>2. \A i \in Jobs : ~Doing(i)' /\ (Queued(i)' <=> Queued(i))
    BY Empty DEF Doing, Queued
  <1>3. OneEach'
    BY <1>2 DEF BodyInv, OneEach
  <1>4. QED BY <1>1, <1>2, <1>3 DEF BodyInv, OneEach, Outstanding

\* A command of a behaviour that had none is queued.
LEMMA Enqueued ==
  ASSUME BodyInv, NEW j \in Jobs, NEW c \in Orders, ~Outstanding(j), UNCHANGED current,
         queue' = Append(queue, [job |-> j, command |-> c])
  PROVE  /\ queue' \in Seq([job : Jobs, command : Orders]) /\ OneEach'
         /\ \A i \in Jobs : Outstanding(i)' <=> Outstanding(i) \/ i = j
         /\ DOMAIN queue = 1 .. Len(queue) /\ Len(queue) \in Nat /\ DOMAIN queue' = 1 .. Len(queue) + 1
         /\ \A k \in DOMAIN queue : queue'[k] = queue[k]
         /\ queue'[Len(queue) + 1].job = j /\ queue'[Len(queue) + 1].command = c
  <1> DEFINE e == [job |-> j, command |-> c]
  <1> DEFINE n == Len(queue)
  <1>1. e \in [job : Jobs, command : Orders] /\ e.job = j /\ e.command = c
    OBVIOUS
  <1>2. queue \in Seq([job : Jobs, command : Orders]) /\ queue' = Append(queue, e)
    BY DEF BodyInv, BodyShape
  <1> HIDE DEF e
  <1>3. /\ queue' \in Seq([job : Jobs, command : Orders]) /\ DOMAIN queue = 1 .. n /\ n \in Nat
        /\ DOMAIN queue' = 1 .. n + 1
        /\ \A k \in DOMAIN queue : queue'[k] = queue[k]
        /\ queue'[n + 1] = e
    BY <1>1, <1>2, Added
  <1> HIDE DEF n
  <1>4. \A k \in DOMAIN queue' : k \in DOMAIN queue \/ k = n + 1
    BY <1>3
  <1>5. \A i \in Jobs : /\ Doing(i)' <=> Doing(i)
                        /\ Queued(i)' <=> Queued(i) \/ i = j
    BY <1>1, <1>3, <1>4 DEF Doing, Queued
  <1>6. OneEach'
    <2>1. \A k \in DOMAIN queue : queue[k].job # j
      BY DEF Outstanding, Queued
    <2>2. \A i \in Jobs : Doing(i)' => ~Queued(i)'
      BY <1>5 DEF BodyInv, OneEach, Outstanding
    <2>3. \A k, l \in DOMAIN queue' : queue'[k].job = queue'[l].job => k = l
      BY <1>1, <1>3, <1>4, <2>1 DEF BodyInv, OneEach
    <2>4. QED BY <2>2, <2>3 DEF OneEach
  <1>7. QED BY <1>1, <1>3, <1>5, <1>6 DEF Outstanding, n

\* The first of the queue is taken from it: to begin, or to be answered.
LEMMA Dequeued ==
  ASSUME BodyInv, current = <<>>, queue # <<>>, queue' = Tail(queue)
  PROVE  /\ queue' \in Seq([job : Jobs, command : Orders]) /\ Head(queue) = queue[1]
         /\ queue[1].job \in Jobs /\ queue[1].command \in Orders /\ Outstanding(queue[1].job)
         /\ 1 \in DOMAIN queue /\ DOMAIN queue = 1 .. Len(queue) /\ Len(queue) \in Nat \ {0}
         /\ DOMAIN queue' = 1 .. Len(queue) - 1
         /\ \A k \in DOMAIN queue' : queue'[k] = queue[k + 1] /\ k + 1 \in DOMAIN queue
         /\ \A i \in Jobs : ~Doing(i) /\ (Queued(i)' <=> Queued(i) /\ i # queue[1].job)
         /\ \A k, l \in DOMAIN queue' : queue'[k].job = queue'[l].job => k = l
  <1>1. /\ queue' \in Seq([job : Jobs, command : Orders]) /\ DOMAIN queue = 1 .. Len(queue)
        /\ Len(queue) \in Nat \ {0} /\ DOMAIN queue' = 1 .. Len(queue) - 1
        /\ \A k \in DOMAIN queue' : queue'[k] = queue[k + 1] /\ k + 1 \in DOMAIN queue
        /\ \A k \in DOMAIN queue : k = 1 \/ (k - 1 \in DOMAIN queue' /\ queue'[k - 1] = queue[k])
        /\ Head(queue) = queue[1] /\ 1 \in DOMAIN queue
        /\ \A k \in DOMAIN queue : queue[k] \in [job : Jobs, command : Orders]
    BY Dropped DEF BodyInv, BodyShape
  <1>2. queue[1].job \in Jobs /\ queue[1].command \in Orders /\ Queued(queue[1].job)
    BY <1>1 DEF Queued
  <1>3. \A k \in DOMAIN queue' : queue'[k].job # queue[1].job
    <2>1. TAKE k \in DOMAIN queue'
    <2>2. k + 1 # 1 /\ k + 1 \in DOMAIN queue /\ queue'[k] = queue[k + 1]
      BY <1>1
    <2>3. QED BY <1>1, <2>2 DEF BodyInv, OneEach
  <1>4. \A i \in Jobs : Queued(i)' <=> Queued(i) /\ i # queue[1].job
    <2>1. ASSUME NEW i \in Jobs, Queued(i)' PROVE Queued(i) /\ i # queue[1].job
      BY <1>1, <1>3, <2>1 DEF Queued
    <2>2. ASSUME NEW i \in Jobs, Queued(i), i # queue[1].job PROVE Queued(i)'
      <3>1. PICK k \in DOMAIN queue : queue[k].job = i
        BY <2>2 DEF Queued
      <3>2. k # 1
        BY <2>2, <3>1
      <3>3. k - 1 \in DOMAIN queue' /\ queue'[k - 1].job = i
        BY <1>1, <3>1, <3>2
      <3>4. QED BY <3>3 DEF Queued
    <2>3. QED BY <2>1, <2>2
  <1>5. \A i \in Jobs : ~Doing(i)
    BY Hand DEF BodyInv
  <1>6. \A k, l \in DOMAIN queue' : queue'[k].job = queue'[l].job => k = l
    <2>1. SUFFICES ASSUME NEW k \in DOMAIN queue', NEW l \in DOMAIN queue', queue'[k].job = queue'[l].job
                   PROVE  k = l
      OBVIOUS
    <2>2. k + 1 = l + 1
      BY <1>1, <2>1 DEF BodyInv, OneEach
    <2>3. QED BY <1>1, <2>2
  <1>7. QED BY <1>1, <1>2, <1>4, <1>5, <1>6 DEF Outstanding

\* One behaviour has its answer, and no command with the body.
Answered(j) ==
  /\ j \in Jobs /\ Outstanding(j) /\ Arrives(j)
  /\ \A i \in Jobs : Outstanding(i)' <=> Outstanding(i) /\ i # j

\* Nothing changes of what the behaviours wait for.
Waiting == UNCHANGED unread /\ \A i \in Jobs : Outstanding(i)' <=> Outstanding(i)

\* An answer settles what was owed.
LEMMA Settles ==
  ASSUME BodyInv, NEW j \in Jobs, Answer(j), Outstanding(j),
         \A i \in Jobs : Outstanding(i)' <=> Outstanding(i) /\ i # j
  PROVE  Answered(j) /\ OwedInv' /\ owed' \in [Jobs -> Int] /\ unread' \in [Behaviours -> 0 .. Capacity]
  <1>1. Arrives(j) /\ owed' = [owed EXCEPT ![j] = owed[j] - 1]
    BY DEF Answer
  <1>2. owed \in [Jobs -> Int] /\ unread \in [Behaviours -> 0 .. Capacity]
    BY DEF BodyInv, BodyShape
  <1>3. OwedInv'
    <2>1. ASSUME NEW i \in Jobs PROVE owed'[i] = IF Outstanding(i)' THEN 1 ELSE 0
      <3>1. owed[i] = IF Outstanding(i) THEN 1 ELSE 0
        BY DEF BodyInv, OwedInv
      <3>2. owed'[i] = IF i = j THEN owed[i] - 1 ELSE owed[i]
        BY <1>1, <1>2
      <3>3. CASE i = j
        <4>1. owed[i] = 1 /\ ~Outstanding(i)'
          BY <3>1, <3>3
        <4>2. QED BY <3>2, <3>3, <4>1
      <3>4. CASE i # j
        <4>1. Outstanding(i)' <=> Outstanding(i)
          BY <3>4
        <4>2. QED BY <3>1, <3>2, <3>4, <4>1
      <3>5. QED BY <3>3, <3>4
    <2>2. QED BY <2>1 DEF OwedInv
  <1>4. QED BY <1>1, <1>2, <1>3, Arrived DEF Answered

\* What leaves the queue and the hand as they are.
LEMMA HandsStill ==
  ASSUME UNCHANGED <<queue, current>>
  PROVE  /\ \A i : (Doing(i)' <=> Doing(i)) /\ (Queued(i)' <=> Queued(i)) /\ (Outstanding(i)' <=> Outstanding(i))
         /\ OneEach => OneEach'
         /\ OwedInv /\ UNCHANGED owed => OwedInv'
  <1>1. \A i : (Doing(i)' <=> Doing(i)) /\ (Queued(i)' <=> Queued(i)) /\ (Outstanding(i)' <=> Outstanding(i))
    BY DEF Doing, Queued, Outstanding
  <1>2. QED BY <1>1 DEF OneEach, OwedInv

\* A behaviour is given the body.
LEMMA Given ==
  ASSUME BodyInv, NEW j \in Jobs, wearer = Nobody, Embodied(j)
  PROVE  BodyInv' /\ Waiting
  <1>1. /\ wearer' = j /\ UNCHANGED <<queue, current, world, unread, owed, laidMidPut>>
        /\ policies' = IF DescriptorOf[j] \in Immediate THEN policies \cup {j} ELSE policies
    BY DEF Embodied
  <1>2. BodyShape /\ OneEach /\ OwedInv /\ WornInv
    BY DEF BodyInv
  <1>3. BodyShape'
    BY <1>1, <1>2 DEF BodyShape
  <1>4. OneEach' /\ OwedInv' /\ Waiting
    BY <1>1, <1>2, HandsStill DEF Waiting
  <1>5. WornInv'
    <2>1. \A k \in DOMAIN current : current[k].job # Nobody
      BY <1>2, Hand, BodyAssumption DEF ActionFits
    <2>2. QED BY <1>1, <1>2, <2>1 DEF WornInv, OnlyForItsWearer
  <1>6. QED BY <1>3, <1>4, <1>5 DEF BodyInv

\* ... and loses it: what it was doing may be cut short, and is answered then.
LEMMA Taken ==
  ASSUME BodyInv, NEW j \in Jobs, Disembodied(j)
  PROVE  /\ BodyInv' /\ wearer = j /\ wearer' = Nobody /\ Settled /\ UNCHANGED queue
         /\ \A f \in Fields : f # "position" => world'[f] = world[f]
         /\ \/ Waiting /\ UNCHANGED <<current, world>>
            \/ /\ Answered(j) /\ current # <<>> /\ current[1].job = j /\ current' = <<>>
               /\ DescriptorOf[j] \in Immediate
  <1>1. wearer = j /\ wearer' = Nobody /\ Settled /\ UNCHANGED <<queue, policies, laidMidPut>>
    BY DEF Disembodied
  <1>2. BodyShape /\ OneEach /\ OwedInv /\ WornInv
    BY DEF BodyInv
  <1>3. CASE Doing(j) /\ j \in policies
    <2>1. /\ current' = <<>> /\ world' = [world EXCEPT !.position = Stopped(current[1])]
          /\ Answer(current[1].job)
      BY <1>3 DEF Disembodied, Abort
    <2>2. current # <<>> /\ current[1].job = j /\ ActionFits(current[1])
      BY <1>2, <1>3, Hand
    <2>3. OneEach' /\ Outstanding(j) /\ \A i \in Jobs : Outstanding(i)' <=> Outstanding(i) /\ i # j
      BY <1>1, <2>1, <2>2, Ended
    <2>4. Answered(j) /\ OwedInv' /\ owed' \in [Jobs -> Int] /\ unread' \in [Behaviours -> 0 .. Capacity]
      BY <2>1, <2>2, <2>3, Settles
    <2>5. WorldFits(world') /\ \A f \in Fields : f # "position" => world'[f] = world[f]
      <3>1. Stopped(current[1]) \in Places
        BY <2>2, SomewhereStopped
      <3>2. PICK p \in Places : p = Stopped(current[1])
        BY <3>1
      <3>3. WorldFits(world) /\ world' = [world EXCEPT !.position = p]
        BY <1>2, <2>1, <3>2 DEF BodyShape
      <3>4. WorldFits([world EXCEPT !.position = p])
        BY <3>3, Changed
      <3>5. \A f \in Fields : f # "position" => [world EXCEPT !.position = p][f] = world[f]
        BY <3>3, Changed
      <3>6. QED BY <3>3, <3>4, <3>5
    <2>6. BodyShape'
      BY <1>1, <1>2, <2>1, <2>4, <2>5 DEF BodyShape
    <2>7. WornInv'
      BY <1>1, <1>2, <2>1, Empty DEF WornInv, OnlyForItsWearer
    <2>8. QED BY <1>1, <1>2, <1>3, <2>1, <2>2, <2>3, <2>4, <2>5, <2>6, <2>7 DEF BodyInv, WornInv
  <1>4. CASE ~(Doing(j) /\ j \in policies)
    <2>1. UNCHANGED <<current, world, unread, owed>>
      BY <1>4 DEF Disembodied
    <2>2. OneEach' /\ OwedInv' /\ Waiting
      BY <1>1, <1>2, <2>1, HandsStill DEF Waiting
    <2>3. BodyShape'
      BY <1>1, <1>2, <2>1 DEF BodyShape
    <2>4. WornInv'
      <3>1. \A k \in DOMAIN current : DescriptorOf[current[k].job] \notin Immediate
        <4>1. SUFFICES ASSUME NEW k \in DOMAIN current, DescriptorOf[current[k].job] \in Immediate PROVE FALSE
          OBVIOUS
        <4>2. current[k].job = j
          BY <1>1, <1>2, <4>1 DEF WornInv, OnlyForItsWearer
        <4>3. j \in policies
          BY <1>1, <1>2, <4>1, <4>2, BodyAssumption DEF WornInv
        <4>4. QED BY <1>4, <4>1, <4>2, <4>3 DEF Doing
      <3>2. QED BY <1>1, <1>2, <2>1, <3>1 DEF WornInv, OnlyForItsWearer
    <2>5. QED BY <1>1, <2>1, <2>2, <2>3, <2>4 DEF BodyInv
  <1>5. QED BY <1>3, <1>4

\* A command is taken on, or refused at once.
LEMMA Ordered ==
  ASSUME BodyInv, NEW j \in Jobs, NEW c \in Orders, Written(j, c)
  PROVE  /\ BodyInv' /\ UNCHANGED <<wearer, current, world>> /\ Settled
         /\ \/ UNCHANGED queue /\ Arrives(j) /\ (wearer # j \/ Outstanding(j))
               /\ \A i \in Jobs : Outstanding(i)' <=> Outstanding(i)
            \/ /\ wearer = j /\ ~Outstanding(j) /\ UNCHANGED unread
               /\ queue' = Append(queue, [job |-> j, command |-> c])
               /\ \A i \in Jobs : Outstanding(i)' <=> Outstanding(i) \/ i = j
  <1>1. UNCHANGED <<wearer, policies, current, world, laidMidPut>> /\ Settled
    BY DEF Written
  <1>2. BodyShape /\ OneEach /\ OwedInv /\ WornInv
    BY DEF BodyInv
  <1>3. WornInv'
    BY <1>1, <1>2 DEF WornInv, OnlyForItsWearer
  <1>4. CASE j # wearer \/ Outstanding(j)
    <2>1. Arrives(j) /\ UNCHANGED <<queue, owed>>
      BY <1>4 DEF Written
    <2>2. unread' \in [Behaviours -> 0 .. Capacity]
      BY <1>2, <2>1, Arrived DEF BodyShape
    <2>3. BodyShape'
      BY <1>1, <1>2, <2>1, <2>2 DEF BodyShape
    <2>4. OneEach' /\ OwedInv' /\ \A i \in Jobs : Outstanding(i)' <=> Outstanding(i)
      BY <1>1, <1>2, <2>1, HandsStill
    <2>5. QED BY <1>1, <1>3, <1>4, <2>1, <2>3, <2>4 DEF BodyInv
  <1>5. CASE ~(j # wearer \/ Outstanding(j))
    <2>1. /\ queue' = Append(queue, [job |-> j, command |-> c]) /\ UNCHANGED unread
          /\ owed' = [owed EXCEPT ![j] = owed[j] + 1]
      BY <1>5 DEF Written
    <2>2. /\ queue' \in Seq([job : Jobs, command : Orders]) /\ OneEach'
          /\ \A i \in Jobs : Outstanding(i)' <=> Outstanding(i) \/ i = j
      BY <1>1, <1>5, <2>1, Enqueued
    <2>3. owed \in [Jobs -> Int] /\ owed' \in [Jobs -> Int]
      BY <1>2, <2>1 DEF BodyShape
    <2>4. BodyShape'
      BY <1>1, <1>2, <2>1, <2>2, <2>3 DEF BodyShape
    <2>5. OwedInv'
      <3>1. ASSUME NEW i \in Jobs PROVE owed'[i] = IF Outstanding(i)' THEN 1 ELSE 0
        <4>1. owed[i] = IF Outstanding(i) THEN 1 ELSE 0
          BY <1>2 DEF OwedInv
        <4>2. owed'[i] = IF i = j THEN owed[i] + 1 ELSE owed[i]
          BY <2>1, <2>3
        <4>3. CASE i = j
          <5>1. owed[i] = 0 /\ Outstanding(i)'
            BY <1>5, <2>2, <4>1, <4>3
          <5>2. QED BY <4>2, <4>3, <5>1
        <4>4. CASE i # j
          <5>1. Outstanding(i)' <=> Outstanding(i)
            BY <2>2, <4>4
          <5>2. QED BY <4>1, <4>2, <4>4, <5>1
        <4>5. QED BY <4>3, <4>4
      <3>2. QED BY <3>1 DEF OwedInv
    <2>6. QED BY <1>1, <1>3, <1>5, <2>1, <2>2, <2>4, <2>5 DEF BodyInv
  <1>6. QED BY <1>4, <1>5

\* What was in hand is done, and the machine with it if it was due.
LEMMA Done ==
  ASSUME BodyInv, NEW ready \in BOOLEAN, Complete(ready)
  PROVE  /\ BodyInv' /\ UNCHANGED <<wearer, queue>> /\ current # <<>> /\ current' = <<>>
         /\ Answered(current[1].job)
         /\ ready => world.machine = "brewing"
         /\ \A f \in DOMAIN current[1].outcome : world'[f] = current[1].outcome[f]
         /\ \A f \in Fields \ DOMAIN current[1].outcome :
              world'[f] = IF ready /\ f = "machine" THEN "ready" ELSE world[f]
  <1>1. /\ current # <<>> /\ current' = <<>> /\ UNCHANGED <<wearer, policies, queue, laidMidPut>>
        /\ ready => world.machine = "brewing"
        /\ world' = Updated(IF ready THEN [world EXCEPT !.machine = "ready"] ELSE world, current[1].outcome)
        /\ Answer(current[1].job)
    BY DEF Complete
  <1>2. BodyShape /\ OneEach /\ OwedInv /\ WornInv
    BY DEF BodyInv
  <1>3. /\ current[1].job \in Jobs /\ Outstanding(current[1].job) /\ OneEach'
        /\ \A i \in Jobs : Outstanding(i)' <=> Outstanding(i) /\ i # current[1].job
    BY <1>1, Ended
  <1>4. /\ Answered(current[1].job) /\ OwedInv' /\ owed' \in [Jobs -> Int]
        /\ unread' \in [Behaviours -> 0 .. Capacity]
    BY <1>1, <1>3, Settles
  <1>5. PICK w : w = IF ready THEN [world EXCEPT !.machine = "ready"] ELSE world
    OBVIOUS
  <1>6. WorldFits(w) /\ \A f \in Fields : w[f] = IF ready /\ f = "machine" THEN "ready" ELSE world[f]
    <2>1. WorldFits(world)
      BY <1>2 DEF BodyShape
    <2>2. CASE ready
      <3>1. w = [world EXCEPT !.machine = "ready"]
        BY <1>5, <2>2
      <3>2. /\ WorldFits([world EXCEPT !.machine = "ready"])
            /\ [world EXCEPT !.machine = "ready"].machine = "ready"
            /\ \A g \in Fields : g # "machine" => [world EXCEPT !.machine = "ready"][g] = world[g]
        BY <2>1, Changed
      <3>3. QED BY <2>2, <3>1, <3>2
    <2>3. CASE ~ready
      BY <1>5, <2>1, <2>3
    <2>4. QED BY <2>2, <2>3
  <1>7. OutcomeFits(current[1].outcome)
    BY <1>1, <1>2, Hand DEF ActionFits
  <1>8. /\ WorldFits(world')
        /\ \A f \in DOMAIN current[1].outcome : world'[f] = current[1].outcome[f]
        /\ \A f \in Fields \ DOMAIN current[1].outcome :
             world'[f] = IF ready /\ f = "machine" THEN "ready" ELSE world[f]
    <2>1. PICK o : o = current[1].outcome
      OBVIOUS
    <2>2. world' = Updated(w, o) /\ OutcomeFits(o)
      BY <1>1, <1>5, <1>7, <2>1
    <2>3. /\ WorldFits(Updated(w, o)) /\ \A f \in DOMAIN o : Updated(w, o)[f] = o[f]
          /\ \A f \in Fields \ DOMAIN o : Updated(w, o)[f] = w[f]
      BY <1>6, <2>2, Writes
    <2>4. QED BY <1>6, <2>1, <2>2, <2>3
  <1>9. BodyShape'
    BY <1>1, <1>2, <1>4, <1>8 DEF BodyShape
  <1>10. WornInv'
    BY <1>1, <1>2, Empty DEF WornInv, OnlyForItsWearer
  <1>11. QED BY <1>1, <1>3, <1>4, <1>8, <1>9, <1>10 DEF BodyInv

\* The first of the queue begins, or is answered.
LEMMA Started ==
  ASSUME BodyInv, Start
  PROVE  /\ BodyInv' /\ UNCHANGED <<wearer, world>> /\ current = <<>> /\ queue # <<>> /\ queue' = Tail(queue)
         /\ \/ Answered(queue[1].job) /\ UNCHANGED current
            \/ /\ Waiting /\ queue[1].job = wearer /\ Can(queue[1].command)
               /\ \E a : /\ current' = <<a>> /\ a.job = queue[1].job /\ a.command = queue[1].command
                         /\ ActionFits(a)
  <1>1. /\ current = <<>> /\ queue # <<>> /\ queue' = Tail(queue)
        /\ UNCHANGED <<wearer, policies, world, laidMidPut>>
    BY DEF Start
  <1>2. BodyShape /\ OneEach /\ OwedInv /\ WornInv
    BY DEF BodyInv
  <1>3. /\ queue' \in Seq([job : Jobs, command : Orders]) /\ Head(queue) = queue[1]
        /\ queue[1].job \in Jobs /\ queue[1].command \in Orders /\ Outstanding(queue[1].job)
        /\ \A i \in Jobs : ~Doing(i) /\ (Queued(i)' <=> Queued(i) /\ i # queue[1].job)
        /\ \A k, l \in DOMAIN queue' : queue'[k].job = queue'[l].job => k = l
    BY <1>1, Dequeued
  <1>4. PICK next : next = queue[1]
    OBVIOUS
  <1>5. CASE next.job = wearer /\ Can(next.command)
    <2> DEFINE b == [job |-> next.job, command |-> next.command,
                     origin |-> world.position, outcome |-> Outcome(next.command)]
    <2>1. current' = <<b>> /\ UNCHANGED <<unread, owed>>
      BY <1>3, <1>4, <1>5 DEF Start
    <2>2. PICK a : a = b
      OBVIOUS
    <2>3. /\ a.job = next.job /\ a.command = next.command /\ a.origin = world.position
          /\ a.outcome = Outcome(next.command)
      BY <2>2
    <2>4. current' = <<a>> /\ DOMAIN current' = {1} /\ current'[1] = a
      BY <2>1, <2>2
    <2> HIDE DEF b
    <2>5. ActionFits(a)
      <3>1. WorldFits(world) /\ world.position \in Places
        BY <1>2, Room DEF BodyShape
      <3>2. OutcomeFits(a.outcome) /\ CupLeft(a.command.verb, a.outcome)
        BY <1>5, <2>3, <3>1, Possible
      <3>3. QED BY <1>3, <1>4, <2>3, <3>1, <3>2 DEF ActionFits
    <2>6. BodyShape'
      BY <1>1, <1>2, <1>3, <2>1, <2>4, <2>5 DEF BodyShape
    <2>7. \A i \in Jobs : Doing(i)' <=> i = next.job
      BY <2>3, <2>4 DEF Doing
    <2>8. \A i \in Jobs : Outstanding(i)' <=> Outstanding(i)
      BY <1>3, <1>4, <2>7 DEF Outstanding
    <2>9. OneEach'
      BY <1>3, <1>4, <2>7 DEF OneEach
    <2>10. OwedInv'
      BY <1>2, <2>1, <2>8 DEF OwedInv
    <2>11. WornInv'
      BY <1>1, <1>2, <1>5, <2>3, <2>4 DEF WornInv, OnlyForItsWearer
    <2>12. QED BY <1>1, <1>4, <1>5, <2>1, <2>3, <2>4, <2>5, <2>6, <2>8, <2>9, <2>10, <2>11 DEF BodyInv, Waiting
  <1>6. CASE ~(next.job = wearer /\ Can(next.command))
    <2>1. Answer(next.job) /\ UNCHANGED current
      BY <1>3, <1>4, <1>6 DEF Start
    <2>2. \A i \in Jobs : ~Doing(i)'
      BY <1>3, <2>1 DEF Doing
    <2>3. \A i \in Jobs : Outstanding(i)' <=> Outstanding(i) /\ i # next.job
      BY <1>3, <1>4, <2>2 DEF Outstanding
    <2>4. /\ Answered(next.job) /\ OwedInv' /\ owed' \in [Jobs -> Int]
          /\ unread' \in [Behaviours -> 0 .. Capacity]
      BY <1>3, <1>4, <2>1, <2>3, Settles
    <2>5. BodyShape'
      BY <1>1, <1>2, <1>3, <2>1, <2>4 DEF BodyShape
    <2>6. OneEach'
      BY <1>3, <2>2 DEF OneEach
    <2>7. WornInv'
      BY <1>1, <1>2, <2>1 DEF WornInv, OnlyForItsWearer
    <2>8. QED BY <1>1, <1>4, <2>1, <2>4, <2>5, <2>6, <2>7 DEF BodyInv
  <1>7. QED BY <1>5, <1>6

\* Somebody changes the room, the machine falls due, a behaviour reads its answers.
LEMMA Around ==
  ASSUME BodyInv
  PROVE  /\ SetTable => /\ BodyInv' /\ Waiting /\ UNCHANGED <<wearer, queue, current>>
                        /\ \A f \in {"position", "holding", "coffee", "machine", "hotplate"} : world'[f] = world[f]
         /\ TurnHotplateOn => /\ BodyInv' /\ Waiting /\ UNCHANGED <<wearer, queue, current>>
                              /\ \A f \in Fields : f # "hotplate" => world'[f] = world[f]
         /\ CoffeeReady => /\ BodyInv' /\ Waiting /\ UNCHANGED <<wearer, queue, current>>
                           /\ world.machine = "brewing" /\ world'.machine = "ready"
                           /\ \A f \in Fields : f # "machine" => world'[f] = world[f]
         /\ \A b \in Behaviours : ReadAll(b) =>
              /\ BodyInv' /\ UNCHANGED <<wearer, queue, current, world>> /\ unread[b] > 0 /\ unread'[b] = 0
              /\ \A d \in Behaviours \ {b} : unread'[d] = unread[d]
              /\ \A i \in Jobs : Outstanding(i)' <=> Outstanding(i)
  <1>1. BodyShape /\ OneEach /\ OwedInv /\ WornInv /\ WorldFits(world)
    BY DEF BodyInv, BodyShape
  <1>2. ASSUME UNCHANGED <<wearer, policies, queue, current, unread, owed>>,
               WorldFits(world'), laidMidPut' \in BOOLEAN
        PROVE  BodyInv' /\ Waiting
    <2>1. BodyShape'
      BY <1>1, <1>2 DEF BodyShape
    <2>2. OneEach' /\ OwedInv' /\ Waiting
      BY <1>1, <1>2, HandsStill DEF Waiting
    <2>3. WornInv'
      BY <1>1, <1>2 DEF WornInv, OnlyForItsWearer
    <2>4. QED BY <2>1, <2>2, <2>3 DEF BodyInv
  <1>3. laidMidPut \in BOOLEAN
    BY <1>1 DEF BodyShape
  <1>4. ASSUME SetTable
        PROVE  /\ BodyInv' /\ Waiting /\ UNCHANGED <<wearer, queue, current>>
               /\ \A f \in {"position", "holding", "coffee", "machine", "hotplate"} : world'[f] = world[f]
    <2>1. /\ world' = [world EXCEPT !.table = Items, !.basket = {}, !.tray = {}]
          /\ laidMidPut' \in BOOLEAN /\ UNCHANGED <<wearer, policies, queue, current, unread, owed>>
      BY <1>3, <1>4 DEF SetTable
    <2>2. /\ WorldFits([world EXCEPT !.table = Items, !.basket = {}, !.tray = {}])
          /\ \A g \in {"position", "holding", "coffee", "machine", "hotplate"} :
               [world EXCEPT !.table = Items, !.basket = {}, !.tray = {}][g] = world[g]
      BY <1>1, Laid
    <2>3. QED BY <1>2, <2>1, <2>2
  <1>5. ASSUME TurnHotplateOn
        PROVE  /\ BodyInv' /\ Waiting /\ UNCHANGED <<wearer, queue, current>>
               /\ \A f \in Fields : f # "hotplate" => world'[f] = world[f]
    <2>1. /\ world' = [world EXCEPT !.hotplate = "on"]
          /\ UNCHANGED <<wearer, policies, queue, current, unread, owed, laidMidPut>>
      BY <1>5 DEF TurnHotplateOn
    <2>2. /\ WorldFits([world EXCEPT !.hotplate = "on"])
          /\ \A g \in Fields : g # "hotplate" => [world EXCEPT !.hotplate = "on"][g] = world[g]
      BY <1>1, Changed
    <2>3. QED BY <1>2, <1>3, <2>1, <2>2
  <1>6. ASSUME CoffeeReady
        PROVE  /\ BodyInv' /\ Waiting /\ UNCHANGED <<wearer, queue, current>>
               /\ world.machine = "brewing" /\ world'.machine = "ready"
               /\ \A f \in Fields : f # "machine" => world'[f] = world[f]
    <2>1. /\ world' = [world EXCEPT !.machine = "ready"] /\ world.machine = "brewing"
          /\ UNCHANGED <<wearer, policies, queue, current, unread, owed, laidMidPut>>
      BY <1>6 DEF CoffeeReady
    <2>2. /\ WorldFits([world EXCEPT !.machine = "ready"]) /\ [world EXCEPT !.machine = "ready"].machine = "ready"
          /\ \A g \in Fields : g # "machine" => [world EXCEPT !.machine = "ready"][g] = world[g]
      BY <1>1, Changed
    <2>3. QED BY <1>2, <1>3, <2>1, <2>2
  <1>7. ASSUME NEW b \in Behaviours, ReadAll(b)
        PROVE  /\ BodyInv' /\ UNCHANGED <<wearer, queue, current, world>> /\ unread[b] > 0 /\ unread'[b] = 0
               /\ \A d \in Behaviours \ {b} : unread'[d] = unread[d]
               /\ \A i \in Jobs : Outstanding(i)' <=> Outstanding(i)
    <2>1. /\ unread' = [unread EXCEPT ![b] = 0] /\ unread[b] > 0
          /\ UNCHANGED <<wearer, policies, queue, current, world, owed, laidMidPut>>
      BY <1>7 DEF ReadAll
    <2>2. unread \in [Behaviours -> 0 .. Capacity] /\ 0 \in 0 .. Capacity
      BY <1>1, BodyAssumption DEF BodyShape
    <2>3. /\ unread' \in [Behaviours -> 0 .. Capacity] /\ unread'[b] = 0
          /\ \A d \in Behaviours \ {b} : unread'[d] = unread[d]
      BY <2>1, <2>2
    <2>4. BodyShape'
      BY <1>1, <2>1, <2>3 DEF BodyShape
    <2>5. OneEach' /\ OwedInv' /\ \A i \in Jobs : Outstanding(i)' <=> Outstanding(i)
      BY <1>1, <2>1, HandsStill
    <2>6. WornInv'
      BY <1>1, <2>1 DEF WornInv, OnlyForItsWearer
    <2>7. QED BY <2>1, <2>3, <2>4, <2>5, <2>6 DEF BodyInv
  <1>8. QED BY <1>4, <1>5, <1>6, <1>7

-----------------------------------------------------------------------------
(***************************************************************************)
(* The body under any behaviours.                                          *)
(***************************************************************************)
LEMMA BodyStep == ASSUME BodyInv, [NextBody(Orders)]_body PROVE BodyInv'
  <1>1. CASE UNCHANGED body
    BY <1>1, HandsStill DEF body, BodyInv, BodyShape, WornInv, OnlyForItsWearer
  <1>2. CASE NextBody(Orders)
    BY <1>2, Given, Taken, Ordered, Done, Started, Around DEF NextBody
  <1>3. QED BY <1>1, <1>2

\* A body at its dock, with nothing asked of it, satisfies its invariant.
LEMMA BodyInit == ASSUME InitBody PROVE BodyInv
  <1>1. /\ wearer = Nobody /\ policies = {} /\ queue = <<>> /\ current = <<>> /\ laidMidPut = FALSE
        /\ unread = [b \in Behaviours |-> 0] /\ owed = [j \in Jobs |-> 0]
        /\ world = [position |-> "dock", holding |-> "nothing", coffee |-> "coffee-machine",
                    machine |-> "idle", hotplate |-> "on", table |-> Items, basket |-> {}, tray |-> {}]
    BY DEF InitBody
  <1>2. DOMAIN queue = {} /\ DOMAIN current = {}
    BY <1>1, Empty
  <1>3. WorldFits(world)
    <2>1. {"dock", "coffee-machine"} \subseteq Places
      BY DEF Places
    <2>2. QED BY <1>1, <2>1, Kinds DEF WorldFits, Fields
  <1>4. BodyShape
    <2>1. unread \in [Behaviours -> 0 .. Capacity] /\ owed \in [Jobs -> Int]
      BY <1>1, BodyAssumption
    <2>2. <<>> \in Seq([job : Jobs, command : Orders])
      OBVIOUS
    <2>3. QED BY <1>1, <1>3, <2>1, <2>2 DEF BodyShape
  <1>5. OneEach /\ WornInv
    BY <1>1, <1>2 DEF OneEach, Doing, WornInv, OnlyForItsWearer
  <1>6. OwedInv
    BY <1>1, <1>2 DEF OwedInv, Outstanding, Doing, Queued
  <1>7. QED BY <1>4, <1>5, <1>6 DEF BodyInv

\* What of a behaviour is in the queue is nothing or one place of it.
LEMMA OneAnswer == BodyInv => OneAnswerEach
  <1>1. SUFFICES ASSUME BodyInv, NEW j \in Jobs PROVE Pending(j) <= 1 /\ owed[j] = Pending(j)
    BY DEF OneAnswerEach
  <1> DEFINE Q == {k \in DOMAIN queue : queue[k].job = j}
  <1>2. OneEach /\ owed[j] = IF Outstanding(j) THEN 1 ELSE 0
    BY <1>1 DEF BodyInv, OwedInv
  <1>3. CASE Queued(j)
    <2>1. PICK k \in DOMAIN queue : queue[k].job = j
      BY <1>3 DEF Queued
    <2>2. Q = {k}
      BY <1>2, <2>1 DEF OneEach
    <2>3. Cardinality(Q) = 1
      BY <2>2, FS_Singleton
    <2>4. ~Doing(j) /\ Outstanding(j)
      BY <1>2, <1>3 DEF OneEach, Outstanding
    <2>5. QED BY <1>2, <2>3, <2>4 DEF Pending
  <1>4. CASE ~Queued(j)
    <2>1. Q = {}
      BY <1>4 DEF Queued
    <2>2. Cardinality(Q) = 0
      BY <2>1, FS_EmptySet
    <2>3. Outstanding(j) <=> Doing(j)
      BY <1>4 DEF Outstanding
    <2>4. QED BY <1>2, <2>2, <2>3 DEF Pending
  <1>5. QED BY <1>3, <1>4

\* The body's state is of its types under any behaviours.
THEOREM BodyTypes == BodySpec => []BodyTypeOK
  <1>1. ASSUME BodyInv PROVE BodyTypeOK
    <2>1. BodyShape
      BY <1>1 DEF BodyInv
    <2>2. /\ Len(current) <= 1
          /\ \A k \in DOMAIN current :
               current[k].job \in Jobs /\ current[k].command \in Orders /\ current[k].origin \in Places
      <3>1. CASE current = <<>>
        BY <3>1
      <3>2. CASE current # <<>>
        <4>1. DOMAIN current = {1} /\ current = <<current[1]>> /\ ActionFits(current[1])
          BY <2>1, <3>2, Hand
        <4>2. Len(current) = 1
          BY <4>1
        <4>3. QED BY <4>1, <4>2 DEF ActionFits
      <3>3. QED BY <3>1, <3>2
    <2>3. /\ world.position \in Places /\ world.holding \in {"nothing", "coffee"}
          /\ world.coffee \in Places \cup {"gripper"} /\ world.machine \in {"idle", "brewing", "ready"}
          /\ world.hotplate \in {"on", "off"}
          /\ {world.table, world.basket, world.tray} \subseteq SUBSET Items
      BY <2>1, Room DEF BodyShape
    <2>4. QED BY <2>1, <2>2, <2>3 DEF BodyShape, BodyTypeOK
  <1>2. QED BY <1>1, BodyInit, BodyStep, PTL DEF BodySpec

\* Whatever becomes of a command under any behaviours -- done, refused, cut short, taken back -- there
\* is one answer to it, and none twice (vla.py:310).
THEOREM OneAnswerAlways == BodySpec => []OneAnswerEach
  BY OneAnswer, BodyInit, BodyStep, PTL DEF BodySpec

\* An action of a behaviour that gives the body up at once is never under way without it (vla.py:146).
THEOREM NeverForAnother == BodySpec => []OnlyForItsWearer
  <1>1. BodyInv => OnlyForItsWearer
    BY DEF BodyInv, WornInv
  <1>2. QED BY <1>1, BodyInit, BodyStep, PTL DEF BodySpec

\* An action of a behaviour that does not is finished, with its whole outcome, whoever has the body by
\* then (vla.py:264).
THEOREM FinishesWhatItBegan == BodySpec => FinishesFirst
  <1> DEFINE Whole == \A k \in DOMAIN current :
                        DescriptorOf[current[k].job] \notin Immediate /\ current' # current
                          => \A o \in DOMAIN current[k].outcome : world'[o] = current[k].outcome[o]
  <1>1. ASSUME BodyInv, [NextBody(Orders)]_body PROVE [Whole]_body
    <2>1. CASE UNCHANGED current
      BY <2>1
    <2>2. CASE current = <<>>
      BY <2>2, Empty
    <2>3. ASSUME NEW j \in Jobs, Disembodied(j) PROVE Whole
      <3>1. \/ UNCHANGED current
            \/ current # <<>> /\ current[1].job = j /\ DescriptorOf[j] \in Immediate
        BY <1>1, <2>3, Taken
      <3>2. current # <<>> => DOMAIN current = {1}
        BY <1>1, Hand DEF BodyInv
      <3>3. QED BY <2>2, <3>1, <3>2
    <2>4. ASSUME NEW ready \in BOOLEAN, Complete(ready) PROVE Whole
      <3>1. current # <<>> /\ \A f \in DOMAIN current[1].outcome : world'[f] = current[1].outcome[f]
        BY <1>1, <2>4, Done
      <3>2. DOMAIN current = {1}
        BY <1>1, <3>1, Hand DEF BodyInv
      <3>3. QED BY <3>1, <3>2
    <2>5. CASE UNCHANGED body
      BY <2>5
    <2>6. CASE NextBody(Orders)
      <3>1. ASSUME NEW j \in Jobs, Embodied(j) PROVE UNCHANGED current
        BY <3>1 DEF Embodied
      <3>2. ASSUME NEW j \in Jobs, NEW c, Written(j, c) PROVE UNCHANGED current
        BY <3>2 DEF Written
      <3>3. ASSUME NEW b \in Behaviours, ReadAll(b) PROVE UNCHANGED current
        BY <3>3 DEF ReadAll
      <3>4. SetTable \/ TurnHotplateOn \/ CoffeeReady => UNCHANGED current
        BY DEF SetTable, TurnHotplateOn, CoffeeReady
      <3>5. Start => current = <<>>
        BY DEF Start
      <3> HIDE DEF Whole
      <3>6. QED BY <2>1, <2>2, <2>3, <2>4, <2>6, <3>1, <3>2, <3>3, <3>4, <3>5 DEF NextBody
    <2>7. QED BY <1>1, <2>5, <2>6
  <1>2. BodySpec => [][Whole]_body
    <2>1. BodySpec => []BodyInv
      BY BodyInit, BodyStep, PTL DEF BodySpec
    <2>2. QED BY <1>1, <2>1, PTL DEF BodySpec
  <1>3. QED BY <1>2 DEF FinishesFirst
-----------------------------------------------------------------------------
(***************************************************************************)
(* A morning, as far as the body sees it.                                  *)
(***************************************************************************)
\* What a step of a behaviour does to the body.
LEMMA BodyOfStep ==
  ASSUME NEW j \in Jobs
  PROVE  /\ Grant(j) => wearer = Nobody /\ Embodied(j)
         /\ Revoke(j) \/ DecideExit(j) => Disembodied(j)
         /\ Decide(j) \/ SayOrder(j) \/ Block(j) => UNCHANGED body
         /\ SayCommand(j) => saying[j] \in Orders /\ Written(j, saying[j])
         /\ ReadAnswer(j) => DescriptorOf[j] \in Behaviours /\ ReadAll(DescriptorOf[j])
  BY DEF Grant, Revoke, DecideExit, Decide, SayOrder, Block, SayCommand, ReadAnswer, Behaviours

\* The behaviours of the case are among any behaviours.
LEMMA BodyOfMorning == ASSUME [Next]_vars PROVE [NextBody(Orders)]_body
  <1>1. ASSUME NEW j \in Jobs,
               \/ Grant(j) \/ Revoke(j) \/ Decide(j) \/ DecideExit(j) \/ SayOrder(j) \/ SayCommand(j)
               \/ Block(j) \/ ReadAnswer(j)
        PROVE  NextBody(Orders) \/ UNCHANGED body
    BY <1>1, BodyOfStep DEF NextBody
  <1>2. CASE Finish \/ Brewed \/ Begin
    BY <1>2 DEF Finish, Brewed, Begin, NextBody
  <1>3. CASE People
    BY <1>3 DEF People, OrderCoffee, Alarm, Mess, Light, NextBody
  <1>4. CASE UNCHANGED vars
    BY <1>4 DEF vars
  <1>5. QED BY <1>1, <1>2, <1>3, <1>4 DEF Next, System, Lease, Behave

\* What the body promises under any behaviours it promises in a morning.
THEOREM MorningUsesTheBody == Spec => BodySpec
  <1>1. Init => InitBody
    BY DEF Init
  <1>2. QED BY <1>1, BodyOfMorning, PTL DEF Spec, BodySpec

\* In a morning too each command has its one answer (vla.py:310).
THEOREM EachOrderAnswered == Spec => []OneAnswerEach
  BY MorningUsesTheBody, OneAnswerAlways
-----------------------------------------------------------------------------
(***************************************************************************)
(* The jobs' invariant.                                                    *)
(***************************************************************************)
Stages == {"unborn", "deciding", "speaking", "listening", "blocked", "done"}
Words  == {"none", "tell", "navigate", "place", "brew", "press"}

JobShape ==
  /\ pc \in [Jobs -> Stages] /\ last \in [Jobs -> Words] /\ DOMAIN saying = Jobs /\ DOMAIN desk = Jobs
  /\ \A j \in Jobs : pc[j] = "unborn" => last[j] = "none"

Same(j, k) == DescriptorOf[j] = DescriptorOf[k]
Waits(j)   == pc[j] \in {"listening", "blocked"}
Begun(j)   == pc[j] = "speaking" \/ Waits(j) \/ last[j] # "none"

\* Jobs of a behaviour are born, and begin, one after another.
BornInOrder == \A j, k \in Jobs : j < k /\ Same(j, k) /\ pc[k] # "unborn" => pc[j] # "unborn"
InTurn      == \A j, k \in Jobs : j < k /\ Same(j, k) /\ Begun(k) => ~Live(j)

\* A job whose command is with the body waits, and has nothing to read before it is answered; one that
\* waits is to be answered, or has been.
WaitsInv == \A j \in Jobs :
  /\ Outstanding(j) => Waits(j) /\ unread[DescriptorOf[j]] = 0
  /\ Waits(j) => Outstanding(j) \/ unread[DescriptorOf[j]] > 0

\* An answer has somebody waiting for it.
MailInv == \A b \in Behaviours : unread[b] > 0 => \E j \in Of(b) : Waits(j)

TurnInv == JobShape /\ BornInOrder /\ InTurn /\ WaitsInv /\ MailInv

-----------------------------------------------------------------------------
(***************************************************************************)
(* Whose turn it is.                                                       *)
(***************************************************************************)
\* Two that have begun, of one behaviour and not over, are one.
LEMMA OneAtOnce ==
  ASSUME TurnInv, NEW j \in Jobs, NEW k \in Jobs, Same(j, k), Live(j), Live(k), Begun(j), Begun(k)
  PROVE  j = k
  <1>1. j \in Nat /\ k \in Nat
    BY AtriumAssumption
  <1>2. ~(j < k) /\ ~(k < j)
    BY DEF TurnInv, InTurn, Same
  <1>3. QED BY <1>1, <1>2

\* Who can run is alone of its behaviour to have begun, if it has.
LEMMA Alone ==
  ASSUME BodyInv, TurnInv, NEW j \in Jobs, Runnable(j)
  PROVE  /\ Live(j) /\ DescriptorOf[j] \in Behaviours
         /\ \A k \in Jobs : k < j /\ Same(k, j) => ~Live(k)
         /\ \A k \in Jobs : Same(k, j) /\ k # j => /\ ~Waits(k) /\ ~Outstanding(k) /\ pc[k] # "speaking"
                                                   /\ j < k => ~Begun(k)
         /\ unread[DescriptorOf[j]] > 0 => Waits(j)
  <1>1. Live(j) /\ DescriptorOf[j] \in Behaviours
    BY DEF Runnable, Live, Behaviours
  <1>2. \A k \in Jobs : k < j /\ Same(k, j) => ~Live(k)
    BY DEF Runnable, Of, Same
  <1>3. ASSUME NEW k \in Jobs, Same(k, j), k # j
        PROVE  ~Waits(k) /\ ~Outstanding(k) /\ pc[k] # "speaking" /\ (j < k => ~Begun(k))
    <2>1. j \in Nat /\ k \in Nat
      BY AtriumAssumption
    <2>2. j < k => ~Begun(k)
      BY <1>1, <1>3 DEF TurnInv, InTurn, Same
    <2>3. k < j => ~Live(k)
      BY <1>2, <1>3
    <2>4. ~Waits(k) /\ pc[k] # "speaking"
      BY <1>3, <2>1, <2>2, <2>3 DEF Begun, Live, Waits
    <2>5. ~Outstanding(k)
      BY <2>4 DEF TurnInv, WaitsInv
    <2>6. QED BY <2>2, <2>4, <2>5
  <1>4. unread[DescriptorOf[j]] > 0 => Waits(j)
    BY <1>1, <1>3 DEF TurnInv, MailInv, Of, Same
  <1>5. QED BY <1>1, <1>2, <1>3, <1>4

\* Jobs may be born, each after the others of its behaviour, and one may get its answer.
LEMMA OthersStep ==
  ASSUME BodyInv, TurnInv, pc' \in [Jobs -> Stages], UNCHANGED <<saying, last>>, DOMAIN desk' = Jobs,
         \A i \in Jobs : \/ pc'[i] = pc[i]
                         \/ /\ pc[i] = "unborn" /\ pc'[i] = "deciding"
                            /\ \A k \in Jobs : k < i /\ Same(k, i) => pc[k] # "unborn",
         Waiting \/ \E x : Answered(x)
  PROVE  TurnInv'
  <1>1. JobShape'
    BY DEF TurnInv, JobShape
  <1>2. \A i \in Jobs : /\ Waits(i)' <=> Waits(i)
                        /\ Begun(i)' <=> Begun(i)
                        /\ Live(i)' <=> Live(i) \/ pc'[i] # pc[i]
    BY DEF Waits, Begun, Live
  <1>3. BornInOrder'
    <2>1. SUFFICES ASSUME NEW j \in Jobs, NEW k \in Jobs, j < k, Same(j, k), pc'[k] # "unborn"
                   PROVE  pc'[j] # "unborn"
      BY DEF BornInOrder, Same
    <2>2. pc[j] # "unborn"
      BY <2>1 DEF TurnInv, BornInOrder
    <2>3. QED BY <2>2
  <1>4. InTurn'
    <2>1. SUFFICES ASSUME NEW j \in Jobs, NEW k \in Jobs, j < k, Same(j, k), Begun(k)' PROVE ~Live(j)'
      BY DEF InTurn, Same
    <2>2. Begun(k) /\ ~Live(j)
      BY <1>2, <2>1 DEF TurnInv, InTurn
    <2>3. pc[k] # "unborn"
      BY <2>2 DEF TurnInv, JobShape, Begun, Waits
    <2>4. pc'[j] = pc[j]
      BY <2>1, <2>3 DEF TurnInv, BornInOrder
    <2>5. QED BY <1>2, <2>2, <2>4
  <1>5. CASE Waiting
    BY <1>1, <1>2, <1>3, <1>4, <1>5 DEF TurnInv, WaitsInv, MailInv, Waiting, Of
  <1>6. ASSUME NEW x, Answered(x) PROVE TurnInv'
    <2>1. /\ x \in Jobs /\ Outstanding(x) /\ Arrives(x)
          /\ \A i \in Jobs : Outstanding(i)' <=> Outstanding(i) /\ i # x
      BY <1>6 DEF Answered
    <2>2. /\ DescriptorOf[x] \in Behaviours /\ unread'[DescriptorOf[x]] > 0
          /\ \A b \in Behaviours : /\ b # DescriptorOf[x] => unread'[b] = unread[b]
                                   /\ unread[b] > 0 => unread'[b] > 0
      BY <2>1, Arrived DEF BodyInv, BodyShape
    <2>3. \A i \in Jobs : DescriptorOf[i] \in Behaviours
      BY DEF Behaviours
    <2>4. ASSUME NEW j \in Jobs
          PROVE  /\ Outstanding(j)' => Waits(j)' /\ unread'[DescriptorOf[j]] = 0
                 /\ Waits(j)' => Outstanding(j)' \/ unread'[DescriptorOf[j]] > 0
      <3>1. CASE j = x
        BY <2>1, <2>2, <3>1
      <3>2. CASE j # x
        <4>1. Outstanding(j) => DescriptorOf[j] # DescriptorOf[x]
          <5>1. SUFFICES ASSUME Outstanding(j), Same(j, x) PROVE FALSE
            BY DEF Same
          <5>2. Waits(j) /\ Waits(x)
            BY <2>1, <5>1 DEF TurnInv, WaitsInv
          <5>3. QED BY <2>1, <3>2, <5>1, <5>2, OneAtOnce DEF Waits, Begun, Live
        <4>2. QED BY <1>2, <2>1, <2>2, <2>3, <3>2, <4>1 DEF TurnInv, WaitsInv
      <3>3. QED BY <3>1, <3>2
    <2>5. WaitsInv'
      BY <2>4 DEF WaitsInv
    <2>6. MailInv'
      <3>1. Waits(x)
        BY <2>1 DEF TurnInv, WaitsInv
      <3>2. QED BY <1>2, <2>1, <2>2, <3>1 DEF TurnInv, MailInv, Of
    <2>7. QED BY <1>1, <1>3, <1>4, <2>5, <2>6 DEF TurnInv
  <1>7. QED BY <1>5, <1>6

\* Who has the body takes a step of its own.
LEMMA OwnStep ==
  ASSUME BodyInv, TurnInv, NEW j \in Jobs, Runnable(j), NEW to \in Stages \ {"unborn"},
         pc' = [pc EXCEPT ![j] = to], last' \in [Jobs -> Words], DOMAIN saying' = Jobs, UNCHANGED desk,
         \A i \in Jobs \ {j} : last'[i] = last[i] /\ (Outstanding(i)' <=> Outstanding(i)),
         \A b \in Behaviours \ {DescriptorOf[j]} : unread'[b] = unread[b],
         Outstanding(j)' => Waits(j)' /\ unread'[DescriptorOf[j]] = 0,
         Waits(j)' => Outstanding(j)' \/ unread'[DescriptorOf[j]] > 0,
         unread'[DescriptorOf[j]] > 0 => Waits(j)'
  PROVE  TurnInv'
  <1>1. pc \in [Jobs -> Stages]
    BY DEF TurnInv, JobShape
  <1>2. JobShape' /\ pc'[j] = to /\ \A i \in Jobs \ {j} : pc'[i] = pc[i]
    BY <1>1 DEF TurnInv, JobShape, Stages
  <1>3. \A i \in Jobs \ {j} : /\ Waits(i)' <=> Waits(i)
                              /\ Begun(i)' <=> Begun(i)
                              /\ Live(i)' <=> Live(i)
    BY <1>2 DEF Waits, Begun, Live
  <1>4. /\ Live(j) /\ DescriptorOf[j] \in Behaviours
        /\ \A k \in Jobs : k < j /\ Same(k, j) => ~Live(k)
        /\ \A k \in Jobs : Same(k, j) /\ k # j => ~Waits(k) /\ ~Outstanding(k) /\ (j < k => ~Begun(k))
    BY Alone
  <1>5. BornInOrder'
    <2>1. pc[j] # "unborn" /\ pc'[j] # "unborn"
      BY <1>2, <1>4 DEF Live
    <2>2. QED BY <1>2, <2>1 DEF TurnInv, BornInOrder, Same
  <1>6. InTurn'
    <2>1. SUFFICES ASSUME NEW i \in Jobs, NEW k \in Jobs, i < k, Same(i, k), Begun(k)' PROVE ~Live(i)'
      BY DEF InTurn, Same
    <2>2. i # k
      BY <2>1, AtriumAssumption
    <2>3. CASE k = j
      BY <1>3, <1>4, <2>1, <2>2, <2>3
    <2>4. CASE i = j
      BY <1>3, <1>4, <2>1, <2>2, <2>4 DEF Same
    <2>5. CASE i # j /\ k # j
      BY <1>3, <2>1, <2>5 DEF TurnInv, InTurn
    <2>6. QED BY <2>3, <2>4, <2>5
  <1>7. WaitsInv'
    <2>1. ASSUME NEW i \in Jobs \ {j}
          PROVE  /\ Outstanding(i)' => Waits(i)' /\ unread'[DescriptorOf[i]] = 0
                 /\ Waits(i)' => Outstanding(i)' \/ unread'[DescriptorOf[i]] > 0
      <3>1. CASE Same(i, j)
        BY <1>3, <1>4, <3>1
      <3>2. CASE ~Same(i, j)
        <4>1. DescriptorOf[i] \in Behaviours \ {DescriptorOf[j]}
          BY <3>2 DEF Same, Behaviours
        <4>2. QED BY <1>3, <4>1 DEF TurnInv, WaitsInv
      <3>3. QED BY <3>1, <3>2
    <2>2. QED BY <2>1 DEF WaitsInv
  <1>8. MailInv'
    <2>1. ASSUME NEW b \in Behaviours, unread'[b] > 0 PROVE \E i \in Of(b) : Waits(i)'
      <3>1. CASE b = DescriptorOf[j]
        BY <2>1, <3>1 DEF Of
      <3>2. CASE b # DescriptorOf[j]
        <4>1. PICK i \in Of(b) : Waits(i)
          BY <2>1, <3>2 DEF TurnInv, MailInv
        <4>2. i \in Jobs /\ i # j
          BY <3>2, <4>1 DEF Of
        <4>3. QED BY <1>3, <4>1, <4>2
      <3>3. QED BY <3>1, <3>2
    <2>2. QED BY <2>1 DEF MailInv, Of
  <1>9. QED BY <1>2, <1>5, <1>6, <1>7, <1>8 DEF TurnInv
-----------------------------------------------------------------------------
(***************************************************************************)
(* What they say.                                                          *)
(***************************************************************************)
\* A behaviour's next command by what kind it is, and where its steps have got to.
Spoken(j, verb) ==
  /\ DescriptorOf[j] = "tidy-atrium"    => verb = "put"
  /\ DescriptorOf[j] = "deliver-coffee" => verb \in {"navigate", "pick", "place"}
  /\ DescriptorOf[j] = "smoke-response" => verb \in {"navigate", "place", "press"}
  /\ DescriptorOf[j] = "brew-coffee"    =>
       \/ verb = "tell" /\ last[j] = "none"
       \/ verb = "navigate" /\ last[j] = "tell"
       \/ verb = "brew" /\ last[j] = "navigate"

SayInv == \A j \in Jobs :
  /\ pc[j] = "speaking" => Spoken(j, saying[j].verb)
  /\ DescriptorOf[j] = "brew-coffee" =>
       last[j] \in {"none", "tell", "navigate", "brew"} /\ (pc[j] # "unborn" => desk[j] \in Desks)

\* Of a behaviour's, such a command is with the body.
Holds(verb, j) ==
  \/ \E k \in DOMAIN queue : queue[k].job = j /\ queue[k].command.verb = verb
  \/ \E k \in DOMAIN current : current[k].job = j /\ current[k].command.verb = verb

\* Only a brewer brews, and has nothing left to say after it; only a delivery picks up.
AskedInv == \A j \in Jobs :
  /\ Holds("brew", j) => DescriptorOf[j] = "brew-coffee" /\ last[j] = "brew"
  /\ Holds("pick", j) => DescriptorOf[j] = "deliver-coffee"

\* Each delivery there has been, and the one to come of what is brewing, had a brewer of its own.
Born   == {j \in Of("deliver-coffee") : pc[j] # "unborn"}
Poured == {j \in Of("brew-coffee") : last[j] = "brew" /\ ~Holds("brew", j)}

CountInv == Cardinality(Born) + (IF world.machine = "brewing" THEN 1 ELSE 0) <= Cardinality(Poured)

\* The verbs of the commands.
LEMMA Verbs ==
  /\ Tell.verb = "tell" /\ Exit.verb = "exit" /\ Nothing.verb = "nothing"
  /\ Pick.verb = "pick" /\ Place.verb = "place" /\ Brew.verb = "brew" /\ Press.verb = "press"
  /\ \A p : Navigate(p).verb = "navigate"
  /\ \A i, c : Put(i, c).verb = "put"
  /\ \A c \in Orders : c.verb \in {"navigate", "put", "pick", "place", "brew", "press", "dance"}
  <1>1. \A v, w, p : Order(v, w, p).verb = v
    BY DEF Order
  <1>2. \A p : Navigate(p).verb = "navigate"
    BY <1>1 DEF Navigate
  <1>3. \A i, c : Put(i, c).verb = "put"
    BY <1>1 DEF Put
  <1>4. Pick.verb = "pick" /\ Place.verb = "place" /\ Brew.verb = "brew" /\ Press.verb = "press"
        /\ Gibberish.verb = "dance"
    BY <1>1 DEF Pick, Place, Brew, Press, Gibberish
  <1>5. \A c \in Orders : c.verb \in {"navigate", "put", "pick", "place", "brew", "press", "dance"}
    BY <1>2, <1>3, <1>4 DEF Orders
  <1>6. Tell.verb = "tell" /\ Exit.verb = "exit" /\ Nothing.verb = "nothing"
    BY <1>1 DEF Tell, Exit, Nothing
  <1>7. QED BY <1>2, <1>3, <1>4, <1>5, <1>6

\* A job is of one of the four behaviours.
LEMMA OfTheFour ==
  ASSUME NEW j \in Jobs
  PROVE  DescriptorOf[j] \in {"tidy-atrium", "brew-coffee", "deliver-coffee", "smoke-response"}
         /\ DescriptorOf[j] \in Behaviours
  BY AtriumAssumption DEF Behaviours, Priority

\* What each may decide, and when it exits.
LEMMA Decides ==
  ASSUME SayInv, NEW j \in Jobs
  PROVE  /\ \A c \in NextCommands(j) \ {Exit} : Spoken(j, c.verb)
         /\ Exit \in NextCommands(j) =>
              /\ DescriptorOf[j] = "brew-coffee"    => last[j] = "brew"
              /\ DescriptorOf[j] = "smoke-response" => last[j] = "press"
              /\ DescriptorOf[j] = "deliver-coffee" => world.coffee = order
  <1>1. CASE DescriptorOf[j] = "tidy-atrium"
    <2>1. \A c \in NextCommands(j) \ {Exit} : \E i : c = Put(i, ContainerFor[i])
      BY <1>1 DEF NextCommands, TidyNext
    <2>2. QED BY <1>1, <2>1, Verbs DEF Spoken
  <1>2. CASE DescriptorOf[j] = "brew-coffee"
    <2>1. NextCommands(j) = BrewNext(j)
      BY <1>2 DEF NextCommands
    <2>2. last[j] \in {"none", "tell", "navigate", "brew"}
      BY <1>2 DEF SayInv
    <2>3. /\ last[j] = "none" => BrewNext(j) = {Tell}
          /\ last[j] = "tell" => BrewNext(j) = {Navigate("coffee-machine")}
          /\ last[j] = "navigate" => BrewNext(j) = {Brew}
          /\ last[j] = "brew" => BrewNext(j) = {Exit}
      BY DEF BrewNext
    <2>4. Exit # Tell /\ Exit # Brew /\ Exit # Navigate("coffee-machine")
      BY Verbs
    <2>5. QED BY <1>2, <2>1, <2>2, <2>3, <2>4, Verbs DEF Spoken
  <1>3. CASE DescriptorOf[j] = "deliver-coffee"
    <2>1. NextCommands(j) = DeliverNext
      BY <1>3 DEF NextCommands
    <2>2. \A p : Exit # Navigate(p) /\ Exit # Pick /\ Exit # Place
      BY Verbs
    <2>3. QED BY <1>3, <2>1, <2>2, Verbs DEF Spoken, DeliverNext
  <1>4. CASE DescriptorOf[j] = "smoke-response"
    <2>1. NextCommands(j) = SmokeNext(j)
      BY <1>4 DEF NextCommands
    <2>2. \A p : Exit # Navigate(p) /\ Exit # Press /\ Exit # Place
      BY Verbs
    <2>3. QED BY <1>4, <2>1, <2>2, Verbs DEF Spoken, SmokeNext
  <1>5. QED BY <1>1, <1>2, <1>3, <1>4, OfTheFour

-----------------------------------------------------------------------------
(***************************************************************************)
(* What becomes of their commands.                                         *)
(***************************************************************************)
Kept    == \A i \in Jobs : \A v : Holds(v, i)' <=> Holds(v, i)
Lost(x) == \A i \in Jobs : \A v : Holds(v, i)' <=> Holds(v, i) /\ i # x

\* A behaviour that has one of its commands with the body is to be answered.
LEMMA HoldsOne == \A i, v : Holds(v, i) => Outstanding(i)
  BY DEF Holds, Outstanding, Doing, Queued

\* Nobody's command moves while the queue and the hand stay as they are.
LEMMA HoldsStill == UNCHANGED <<queue, current>> => Kept
  BY DEF Kept, Holds

\* Taking the body away leaves its commands where they are, or ends the one in hand with an answer.
LEMMA HoldsTaken ==
  ASSUME BodyInv, NEW j \in Jobs, Disembodied(j)
  PROVE  (Kept /\ Waiting) \/ (Lost(j) /\ Answered(j))
  <1>1. CASE UNCHANGED <<queue, current>> /\ Waiting
    BY <1>1, HoldsStill
  <1>2. CASE Answered(j) /\ current # <<>> /\ current[1].job = j /\ current' = <<>> /\ UNCHANGED queue
    <2>1. DOMAIN current = {1} /\ DOMAIN current' = {} /\ ~Queued(j)
      BY <1>2, Hand, Empty DEF BodyInv, OneEach
    <2>2. Lost(j)
      BY <1>2, <2>1 DEF Lost, Holds, Queued
    <2>3. QED BY <1>2, <2>2
  <1>3. QED BY <1>1, <1>2, Taken

\* What is done is answered, and is the hand's no more.
LEMMA HoldsDone ==
  ASSUME BodyInv, NEW ready \in BOOLEAN, Complete(ready)
  PROVE  Lost(current[1].job) /\ Answered(current[1].job)
  <1>1. /\ current # <<>> /\ current' = <<>> /\ UNCHANGED queue /\ Answered(current[1].job)
        /\ current[1].job \in Jobs
    BY Done DEF Answered
  <1>2. DOMAIN current = {1} /\ DOMAIN current' = {} /\ ~Queued(current[1].job)
    BY <1>1, Hand, Empty DEF BodyInv, OneEach
  <1>3. Lost(current[1].job)
    BY <1>1, <1>2 DEF Lost, Holds, Queued
  <1>4. QED BY <1>1, <1>3

\* What is started is held as before, or refused, and then answered.
LEMMA HoldsStarted ==
  ASSUME BodyInv, Start
  PROVE  (Kept /\ Waiting) \/ (Lost(queue[1].job) /\ Answered(queue[1].job))
  <1>1. /\ current = <<>> /\ queue # <<>> /\ queue' = Tail(queue) /\ DOMAIN current = {}
        /\ \/ Answered(queue[1].job) /\ UNCHANGED current
           \/ /\ Waiting
              /\ \E a : /\ current' = <<a>> /\ a.job = queue[1].job /\ a.command = queue[1].command
    BY Started, Empty
  <1>2. /\ 1 \in DOMAIN queue /\ DOMAIN queue = 1 .. Len(queue) /\ Len(queue) \in Nat \ {0}
        /\ DOMAIN queue' = 1 .. Len(queue) - 1
        /\ \A k \in DOMAIN queue' : queue'[k] = queue[k + 1] /\ k + 1 \in DOMAIN queue
        /\ \A k, l \in DOMAIN queue : queue[k].job = queue[l].job => k = l
    BY <1>1, Dequeued DEF BodyInv, OneEach
  <1> DEFINE In(q, v, i) == \E k \in DOMAIN q : q[k].job = i /\ q[k].command.verb = v
  <1>3. \A i, v : In(queue', v, i) <=> In(queue, v, i) /\ i # queue[1].job
    <2>1. SUFFICES ASSUME NEW i, NEW v PROVE In(queue', v, i) <=> In(queue, v, i) /\ i # queue[1].job
      OBVIOUS
    <2>2. ASSUME NEW k \in DOMAIN queue', queue'[k].job = i, queue'[k].command.verb = v
          PROVE  In(queue, v, i) /\ i # queue[1].job
      <3>1. k + 1 \in DOMAIN queue /\ queue[k + 1] = queue'[k] /\ k + 1 # 1
        BY <1>2, <2>2
      <3>2. queue[k + 1].job = i /\ queue[k + 1].command.verb = v
        BY <2>2, <3>1
      <3>3. i # queue[1].job
        BY <1>2, <3>1, <3>2
      <3>4. QED BY <3>1, <3>2, <3>3
    <2>3. ASSUME NEW k \in DOMAIN queue, queue[k].job = i, queue[k].command.verb = v, i # queue[1].job
          PROVE  In(queue', v, i)
      <3>1. k # 1
        BY <2>3
      <3>2. k - 1 \in DOMAIN queue' /\ k - 1 + 1 = k
        BY <1>2, <3>1
      <3>3. queue'[k - 1] = queue[k]
        BY <1>2, <3>2
      <3>4. QED BY <2>3, <3>2, <3>3
    <2>4. QED BY <2>2, <2>3
  <1>4. \A i, v : Holds(v, i) <=> In(queue, v, i)
    BY <1>1 DEF Holds
  <1>5. CASE Answered(queue[1].job) /\ UNCHANGED current
    <2>1. \A i, v : Holds(v, i)' <=> In(queue', v, i)
      BY <1>1, <1>5 DEF Holds
    <2> HIDE DEF In
    <2>2. Lost(queue[1].job)
      BY <1>3, <1>4, <2>1 DEF Lost
    <2>3. QED BY <1>5, <2>2
  <1>6. ASSUME NEW a, Waiting, current' = <<a>>, a.job = queue[1].job, a.command = queue[1].command
        PROVE  Kept /\ Waiting
    <2>1. DOMAIN current' = {1} /\ current'[1] = a
      BY <1>6
    <2>2. \A i, v : Holds(v, i)' <=> In(queue', v, i) \/ (i = queue[1].job /\ v = queue[1].command.verb)
      BY <1>6, <2>1 DEF Holds
    <2>3. \A i, v : i = queue[1].job => (In(queue, v, i) <=> v = queue[1].command.verb)
      BY <1>2
    <2> HIDE DEF In
    <2>4. Kept
      BY <1>3, <1>4, <2>2, <2>3 DEF Kept
    <2>5. QED BY <1>6, <2>4
  <1>7. QED BY <1>1, <1>5, <1>6

\* What is ordered is held, and nothing else is held that was not.
LEMMA HoldsOrdered ==
  ASSUME BodyInv, NEW j \in Jobs, NEW c \in Orders, ~Outstanding(j), UNCHANGED current,
         queue' = Append(queue, [job |-> j, command |-> c])
  PROVE  \A i \in Jobs : \A v : Holds(v, i)' <=> Holds(v, i) \/ (i = j /\ v = c.verb)
  <1>1. /\ DOMAIN queue = 1 .. Len(queue) /\ Len(queue) \in Nat /\ DOMAIN queue' = 1 .. Len(queue) + 1
        /\ \A k \in DOMAIN queue : queue'[k] = queue[k]
        /\ queue'[Len(queue) + 1].job = j /\ queue'[Len(queue) + 1].command = c
    BY Enqueued
  <1>2. \A k \in DOMAIN queue' : k \in DOMAIN queue \/ k = Len(queue) + 1
    BY <1>1
  <1>3. DOMAIN queue \subseteq DOMAIN queue' /\ Len(queue) + 1 \in DOMAIN queue'
    BY <1>1
  <1>4. QED BY <1>1, <1>2, <1>3 DEF Holds
-----------------------------------------------------------------------------
(***************************************************************************)
(* How many there are of them.                                             *)
(***************************************************************************)
LEMMA Finite ==
  ASSUME NEW B, B \subseteq Of("deliver-coffee"), NEW P, P \subseteq Of("brew-coffee")
  PROVE  /\ IsFiniteSet(B) /\ IsFiniteSet(P) /\ Cardinality(B) \in Nat /\ Cardinality(P) \in Nat
         /\ Cardinality(P) <= Cardinality(Of("deliver-coffee"))
  <1>1. IsFiniteSet(Of("brew-coffee")) /\ IsFiniteSet(Of("deliver-coffee"))
    BY AtriumAssumption, FS_Subset DEF Of
  <1>2. IsFiniteSet(B) /\ IsFiniteSet(P) /\ Cardinality(P) <= Cardinality(Of("brew-coffee"))
    BY <1>1, FS_Subset
  <1>3. /\ Cardinality(Of("brew-coffee")) \in Nat /\ Cardinality(Of("deliver-coffee")) \in Nat
        /\ Cardinality(B) \in Nat /\ Cardinality(P) \in Nat
    BY <1>1, <1>2, FS_CardinalityType
  <1>4. Cardinality(P) <= Cardinality(Of("deliver-coffee"))
    BY <1>2, <1>3, AtriumAssumption
  <1>5. QED BY <1>2, <1>3, <1>4

\* What is brewing has a delivery to come.
LEMMA RoomForOne == CountInv /\ world.machine = "brewing" => Unborn("deliver-coffee") # {}
  <1>1. SUFFICES ASSUME CountInv, world.machine = "brewing", Unborn("deliver-coffee") = {} PROVE FALSE
    OBVIOUS
  <1>2. Born = Of("deliver-coffee") /\ Poured \subseteq Of("brew-coffee")
    BY <1>1 DEF Born, Unborn, Poured
  <1>3. Cardinality(Born) + 1 <= Cardinality(Poured)
    BY <1>1 DEF CountInv
  <1>4. /\ Cardinality(Born) \in Nat /\ Cardinality(Poured) \in Nat
        /\ Cardinality(Poured) <= Cardinality(Of("deliver-coffee"))
    BY <1>2, Finite
  <1>5. QED BY <1>2, <1>3, <1>4

\* One more of them that brewed.
OneMore == \E x : x \in Poured' /\ x \notin Poured

\* The count goes on where it was; a delivery that is born is one of what brewed.
LEMMA Counted ==
  ASSUME CountInv, Poured \subseteq Poured',
         \/ Born' = Born /\ (world'.machine = "brewing" => world.machine = "brewing" \/ OneMore)
         \/ /\ \E m : Born' = Born \cup {m}
            /\ world.machine = "brewing" /\ (world'.machine = "brewing" => OneMore)
  PROVE  CountInv'
  <1>1. /\ Born \subseteq Of("deliver-coffee") /\ Born' \subseteq Of("deliver-coffee")
        /\ Poured \subseteq Of("brew-coffee") /\ Poured' \subseteq Of("brew-coffee")
    BY DEF Born, Poured, Of
  <1>2. PICK B, P, C, Q : B = Born /\ P = Poured /\ C = Born' /\ Q = Poured'
    OBVIOUS
  <1>3. /\ IsFiniteSet(B) /\ IsFiniteSet(P) /\ IsFiniteSet(Q)
        /\ Cardinality(B) \in Nat /\ Cardinality(P) \in Nat /\ Cardinality(C) \in Nat /\ Cardinality(Q) \in Nat
    BY <1>1, <1>2, Finite
  <1>4. Cardinality(P) <= Cardinality(Q)
    BY <1>2, <1>3, FS_Subset
  <1>5. OneMore => Cardinality(P) + 1 <= Cardinality(Q)
    <2>1. SUFFICES ASSUME NEW x \in Q \ P PROVE Cardinality(P) + 1 <= Cardinality(Q)
      BY <1>2 DEF OneMore
    <2>2. IsFiniteSet(P \cup {x}) /\ Cardinality(P \cup {x}) = Cardinality(P) + 1
      BY <1>3, FS_AddElement
    <2>3. P \cup {x} \subseteq Q
      BY <1>2
    <2>4. Cardinality(P \cup {x}) <= Cardinality(Q)
      BY <1>3, <2>3, FS_Subset
    <2>5. QED BY <2>2, <2>4
  <1>6. ASSUME NEW m, C = B \cup {m} PROVE Cardinality(C) <= Cardinality(B) + 1
    <2>1. Cardinality(B \cup {m}) = IF m \in B THEN Cardinality(B) ELSE Cardinality(B) + 1
      BY <1>3, FS_AddElement
    <2>2. QED BY <1>3, <1>6, <2>1
  <1>7. Cardinality(B) + (IF world.machine = "brewing" THEN 1 ELSE 0) <= Cardinality(P)
    BY <1>2 DEF CountInv
  <1>8. Cardinality(C) + (IF world'.machine = "brewing" THEN 1 ELSE 0) <= Cardinality(Q)
    <2>1. CASE C = B /\ (world'.machine = "brewing" => world.machine = "brewing" \/ OneMore)
      BY <1>3, <1>4, <1>5, <1>7, <2>1
    <2>2. CASE (\E m : C = B \cup {m}) /\ world.machine = "brewing" /\ (world'.machine = "brewing" => OneMore)
      <3>1. Cardinality(C) <= Cardinality(B) + 1 /\ Cardinality(B) + 1 <= Cardinality(P)
        BY <1>6, <1>7, <2>2
      <3>2. CASE world'.machine = "brewing"
        BY <1>3, <1>5, <2>2, <3>1, <3>2
      <3>3. CASE world'.machine # "brewing"
        BY <1>3, <1>4, <3>1, <3>3
      <3>4. QED BY <3>2, <3>3
    <2>3. QED BY <1>2, <2>1, <2>2
  <1>9. QED BY <1>2, <1>8 DEF CountInv

-----------------------------------------------------------------------------
(***************************************************************************)
(* What the others do.                                                     *)
(***************************************************************************)
Less == {ss \in Nat \X Nat : ss[1] < ss[2]}

\* Of some jobs there is a first.
LEMMA First ==
  ASSUME NEW S, S \subseteq Jobs, S # {}
  PROVE  Min(S) \in S /\ \A k \in S : ~(k < Min(S))
  <1>1. S \subseteq Nat
    BY AtriumAssumption
  <1>2. IsWellFoundedOn(Less, Nat)
    BY NatLessThanWellFounded DEF OpToRel, Less
  <1>3. \E x \in S : \A y \in S : ~(<<y, x>> \in Less)
    BY <1>1, <1>2, WFMin, Zenon
  <1>4. \A x, y \in S : y < x => <<y, x>> \in Less
    BY <1>1 DEF Less
  <1>5. \A x, y \in S : ~(y < x) <=> x <= y
    BY <1>1, SMT
  <1>6. \E x \in S : \A y \in S : x <= y
    BY <1>3, <1>4, <1>5
  <1>7. Min(S) \in S /\ \A y \in S : Min(S) <= y
    BY <1>6 DEF Min
  <1>8. QED BY <1>5, <1>7

\* The next job of a behaviour is born.
LEMMA Spawns ==
  ASSUME JobShape, NEW b, Unborn(b) # {}, pc' = Spawned(b)
  PROVE  /\ pc' \in [Jobs -> Stages]
         /\ \E m \in Of(b) :
              /\ m = Min(Unborn(b)) /\ pc[m] = "unborn" /\ pc'[m] = "deciding"
              /\ \A i \in Jobs \ {m} : pc'[i] = pc[i]
              /\ \A k \in Jobs : k < m /\ Same(k, m) => pc[k] # "unborn"
  <1>1. Unborn(b) \subseteq Jobs
    BY DEF Unborn, Of
  <1>2. PICK m : m = Min(Unborn(b))
    OBVIOUS
  <1>3. m \in Unborn(b) /\ \A k \in Unborn(b) : ~(k < m)
    BY <1>1, <1>2, First
  <1>4. m \in Of(b) /\ m \in Jobs /\ pc[m] = "unborn" /\ DescriptorOf[m] = b
    BY <1>3 DEF Unborn, Of
  <1>5. pc \in [Jobs -> Stages] /\ pc' = [pc EXCEPT ![m] = "deciding"]
    BY <1>2 DEF JobShape, Spawned
  <1>6. pc' \in [Jobs -> Stages] /\ pc'[m] = "deciding" /\ \A i \in Jobs \ {m} : pc'[i] = pc[i]
    BY <1>4, <1>5 DEF Stages
  <1>7. \A k \in Jobs : k < m /\ Same(k, m) => pc[k] # "unborn"
    BY <1>3, <1>4 DEF Unborn, Of, Same
  <1>8. QED BY <1>2, <1>4, <1>6, <1>7

JobInv == TurnInv /\ SayInv /\ AskedInv /\ CountInv

\* Jobs stay as they are, or are born each after the others of its behaviour.
Births ==
  /\ pc' \in [Jobs -> Stages]
  /\ \A i \in Jobs : \/ pc'[i] = pc[i]
                     \/ /\ pc[i] = "unborn" /\ pc'[i] = "deciding"
                        /\ \A k \in Jobs : k < i /\ Same(k, i) => pc[k] # "unborn"

\* Who is born is of the behaviour it is born of; a delivery makes one more.
LEMMA BirthOf ==
  ASSUME JobShape, NEW b, Unborn(b) # {}, pc' = Spawned(b)
  PROVE  /\ Births /\ \A i \in Jobs \ Of(b) : pc'[i] = pc[i]
         /\ b # "deliver-coffee" => Born' = Born
         /\ b = "deliver-coffee" => \E m : Born' = Born \cup {m}
  <1>1. PICK m \in Of(b) :
          /\ m = Min(Unborn(b)) /\ pc[m] = "unborn" /\ pc'[m] = "deciding"
          /\ \A i \in Jobs \ {m} : pc'[i] = pc[i]
          /\ \A k \in Jobs : k < m /\ Same(k, m) => pc[k] # "unborn"
    BY Spawns
  <1>2. pc' \in [Jobs -> Stages]
    BY Spawns
  <1>3. Births
    BY <1>1, <1>2 DEF Births
  <1>4. \A i \in Jobs \ Of(b) : pc'[i] = pc[i]
    BY <1>1
  <1>5. ASSUME b # "deliver-coffee" PROVE Born' = Born
    <2>1. \A i \in Of("deliver-coffee") : i \in Jobs \ Of(b)
      BY <1>5 DEF Of
    <2>2. QED BY <1>4, <2>1 DEF Born, Of
  <1>6. ASSUME b = "deliver-coffee" PROVE Born' = Born \cup {m}
    <2>1. \A i \in Of(b) \ {m} : pc'[i] = pc[i]
      BY <1>1 DEF Of
    <2>2. QED BY <1>1, <1>6, <2>1 DEF Born, Of
  <1>7. QED BY <1>3, <1>4, <1>5, <1>6

\* Nobody is born.
LEMMA NoBirth == ASSUME JobShape, UNCHANGED pc PROVE Births /\ Born' = Born
  BY DEF JobShape, Births, Born, Of

\* What becomes of the commands of the others leaves the jobs in order.
LEMMA OthersKeep ==
  ASSUME BodyInv, JobInv, Births, UNCHANGED <<saying, last>>, DOMAIN desk' = Jobs,
         \A i \in Of("brew-coffee") : pc'[i] # "unborn" => desk'[i] \in Desks,
         Waiting \/ \E x : Answered(x),
         \A i \in Jobs : \A v : Holds(v, i)' => Holds(v, i),
         \/ Born' = Born /\ (world'.machine = "brewing" => world.machine = "brewing" \/ OneMore)
         \/ /\ \E m : Born' = Born \cup {m}
            /\ world.machine = "brewing" /\ (world'.machine = "brewing" => OneMore)
  PROVE  JobInv'
  <1>1. TurnInv'
    BY OthersStep DEF JobInv, Births
  <1>2. SayInv'
    <2>1. \A i \in Jobs : pc'[i] = "speaking" => pc[i] = "speaking"
      BY DEF Births
    <2>2. QED BY <2>1 DEF JobInv, SayInv, Spoken, Of
  <1>3. AskedInv'
    BY DEF JobInv, AskedInv
  <1>4. Poured \subseteq Poured'
    BY DEF Poured, Of
  <1>5. CountInv'
    BY <1>4, Counted DEF JobInv
  <1>6. QED BY <1>1, <1>2, <1>3, <1>5 DEF JobInv

\* So does a step of one that has the body.
LEMMA OwnKeep ==
  ASSUME BodyInv, JobInv, NEW j \in Jobs, Runnable(j), NEW to \in Stages \ {"unborn"},
         pc' = [pc EXCEPT ![j] = to], last' \in [Jobs -> Words], DOMAIN saying' = Jobs, UNCHANGED desk,
         world'.machine = world.machine,
         \A i \in Jobs \ {j} : /\ last'[i] = last[i] /\ saying'[i] = saying[i]
                               /\ Outstanding(i)' <=> Outstanding(i)
                               /\ \A v : Holds(v, i)' <=> Holds(v, i),
         \A b \in Behaviours \ {DescriptorOf[j]} : unread'[b] = unread[b],
         Outstanding(j)' => Waits(j)' /\ unread'[DescriptorOf[j]] = 0,
         Waits(j)' => Outstanding(j)' \/ unread'[DescriptorOf[j]] > 0,
         unread'[DescriptorOf[j]] > 0 => Waits(j)',
         to = "speaking" => Spoken(j, saying[j].verb)',
         DescriptorOf[j] = "brew-coffee" => last'[j] \in {"none", "tell", "navigate", "brew"},
         Holds("brew", j)' => DescriptorOf[j] = "brew-coffee" /\ last'[j] = "brew",
         Holds("pick", j)' => DescriptorOf[j] = "deliver-coffee",
         j \in Poured => last'[j] = "brew" /\ ~Holds("brew", j)'
  PROVE  JobInv'
  <1>1. TurnInv'
    <2>1. \A i \in Jobs \ {j} : last'[i] = last[i] /\ (Outstanding(i)' <=> Outstanding(i))
      OBVIOUS
    <2>2. QED BY <2>1, OwnStep DEF JobInv
  <1>2. pc \in [Jobs -> Stages] /\ pc'[j] = to /\ \A i \in Jobs \ {j} : pc'[i] = pc[i]
    BY DEF JobInv, TurnInv, JobShape
  <1>3. pc[j] # "unborn" /\ to # "unborn"
    BY DEF Runnable
  <1>4. SayInv'
    <2>1. ASSUME NEW i \in Jobs \ {j}
          PROVE  /\ pc'[i] = "speaking" => Spoken(i, saying[i].verb)'
                 /\ DescriptorOf[i] = "brew-coffee" =>
                      last'[i] \in {"none", "tell", "navigate", "brew"} /\ (pc'[i] # "unborn" => desk'[i] \in Desks)
      BY <1>2 DEF JobInv, SayInv, Spoken
    <2>2. DescriptorOf[j] = "brew-coffee" => desk'[j] \in Desks
      BY <1>3 DEF JobInv, SayInv
    <2>3. QED BY <1>2, <2>1, <2>2 DEF SayInv
  <1>5. AskedInv'
    BY DEF JobInv, AskedInv
  <1>6. Poured \subseteq Poured'
    BY DEF Poured, Of
  <1>7. Born' = Born
    BY <1>2, <1>3 DEF Born, Of
  <1>8. CountInv'
    BY <1>6, <1>7, Counted DEF JobInv
  <1>9. QED BY <1>1, <1>4, <1>5, <1>8 DEF JobInv

-----------------------------------------------------------------------------
(***************************************************************************)
(* The jobs, step by step.                                                 *)
(***************************************************************************)
\* The lease changes hands.
LEMMA LeaseKeeps == ASSUME BodyInv, JobInv, NEW j \in Jobs, Grant(j) \/ Revoke(j) PROVE JobInv'
  <1>1. UNCHANGED <<pc, saying, last, desk>> /\ JobShape /\ Births /\ Born' = Born
    BY NoBirth DEF Grant, Revoke, jobs, JobInv, TurnInv
  <1>2. \A i \in Of("brew-coffee") : pc'[i] # "unborn" => desk'[i] \in Desks
    BY <1>1 DEF JobInv, SayInv, Of
  <1>3. "machine" \in Fields /\ "machine" # "position"
    BY DEF Fields
  <1>4. CASE Grant(j)
    <2>1. wearer = Nobody /\ Embodied(j) /\ UNCHANGED <<queue, current, world>>
      BY <1>4 DEF Grant, Embodied
    <2>2. Waiting /\ Kept
      BY <2>1, Given, HoldsStill
    <2>3. QED BY <1>1, <1>2, <2>1, <2>2, OthersKeep DEF Kept, JobShape
  <1>5. CASE Revoke(j)
    <2>1. Disembodied(j)
      BY <1>5 DEF Revoke
    <2>2. world'["machine"] = world["machine"]
      BY <1>3, <2>1, Taken
    <2>3. (Kept /\ Waiting) \/ (Lost(j) /\ Answered(j))
      BY <2>1, HoldsTaken
    <2>4. \A i \in Jobs : \A v : Holds(v, i)' => Holds(v, i)
      BY <2>3 DEF Kept, Lost
    <2>5. QED BY <1>1, <1>2, <2>2, <2>3, <2>4, OthersKeep DEF JobShape
  <1>6. QED BY <1>4, <1>5

\* The first command of the queue begins, or is answered.
LEMMA BeginKeeps == ASSUME BodyInv, JobInv, Begin PROVE JobInv'
  <1>1. UNCHANGED <<pc, saying, last, desk, world>> /\ JobShape /\ Births /\ Born' = Born /\ Start
    BY NoBirth, Started DEF Begin, jobs, JobInv, TurnInv
  <1>2. \A i \in Of("brew-coffee") : pc'[i] # "unborn" => desk'[i] \in Desks
    BY <1>1 DEF JobInv, SayInv, Of
  <1>3. (Kept /\ Waiting) \/ (Lost(queue[1].job) /\ Answered(queue[1].job))
    BY <1>1, HoldsStarted
  <1>4. \A i \in Jobs : \A v : Holds(v, i)' => Holds(v, i)
    BY <1>3 DEF Kept, Lost
  <1>5. QED BY <1>1, <1>2, <1>3, <1>4, OthersKeep DEF JobShape

\* A delivery is born of what was brewing, or nobody is.
LEMMA Delivers ==
  ASSUME JobInv, world.machine = "brewing", pc' = Spawned("deliver-coffee")
  PROVE  Births /\ (\E m : Born' = Born \cup {m}) /\ \A i \in Of("brew-coffee") : pc'[i] = pc[i]
  <1>1. JobShape /\ Unborn("deliver-coffee") # {}
    BY RoomForOne DEF JobInv, TurnInv
  <1>2. \A i \in Of("brew-coffee") : i \in Jobs \ Of("deliver-coffee")
    BY DEF Of
  <1>3. QED BY <1>1, <1>2, BirthOf

\* The machine falls due by itself.
LEMMA BrewedKeeps == ASSUME BodyInv, JobInv, Brewed PROVE JobInv'
  <1>1. UNCHANGED <<saying, last, desk>> /\ CoffeeReady /\ pc' = Spawned("deliver-coffee") /\ JobShape
    BY DEF Brewed, JobInv, TurnInv
  <1>2. Waiting /\ UNCHANGED <<queue, current>> /\ world.machine = "brewing" /\ world'.machine = "ready"
    BY <1>1, Around
  <1>3. Kept
    BY <1>2, HoldsStill
  <1>4. Births /\ (\E m : Born' = Born \cup {m}) /\ \A i \in Of("brew-coffee") : pc'[i] = pc[i]
    BY <1>1, <1>2, Delivers
  <1>5. \A i \in Of("brew-coffee") : pc'[i] # "unborn" => desk'[i] \in Desks
    BY <1>1, <1>4 DEF JobInv, SayInv, Of
  <1>6. QED BY <1>1, <1>2, <1>3, <1>4, <1>5, OthersKeep DEF Kept, JobShape

\* What is in hand is done: the coffee it set to brew is one more.
LEMMA FinishKeeps == ASSUME BodyInv, JobInv, Finish PROVE JobInv'
  <1>1. PICK ready \in BOOLEAN : Complete(ready) /\ pc' = IF ready THEN Spawned("deliver-coffee") ELSE pc
    BY DEF Finish
  <1>2. UNCHANGED <<saying, last, desk>> /\ JobShape
    BY DEF Finish, JobInv, TurnInv
  <1>3. PICK x, a : x = current[1].job /\ a = current[1]
    OBVIOUS
  <1>4. /\ Lost(x) /\ Answered(x) /\ x \in Jobs
        /\ ready => world.machine = "brewing"
        /\ \A f \in DOMAIN a.outcome : world'[f] = a.outcome[f]
        /\ \A f \in Fields \ DOMAIN a.outcome : world'[f] = IF ready /\ f = "machine" THEN "ready" ELSE world[f]
    BY <1>1, <1>3, HoldsDone, Done DEF Answered
  <1>5. ActionFits(a) /\ DOMAIN current = {1} /\ "machine" \in Fields
    BY <1>1, <1>3, Done, Hand DEF BodyInv, Fields
  <1>6. a.command.verb = "brew" => OneMore
    <2>1. SUFFICES ASSUME a.command.verb = "brew" PROVE OneMore
      OBVIOUS
    <2>2. Holds("brew", x)
      BY <1>3, <1>5, <2>1 DEF Holds
    <2>3. DescriptorOf[x] = "brew-coffee" /\ last[x] = "brew"
      BY <1>4, <2>2 DEF JobInv, AskedInv
    <2>4. ~Holds("brew", x)'
      BY <1>4 DEF Lost
    <2>5. x \notin Poured
      BY <2>2 DEF Poured
    <2>6. x \in Poured'
      BY <1>2, <1>4, <2>3, <2>4 DEF Poured, Of
    <2>7. QED BY <2>5, <2>6 DEF OneMore
  <1>7. a.command.verb # "brew" => "machine" \notin DOMAIN a.outcome
    <2>1. a.command.verb = "pick" => DOMAIN a.outcome = {"holding", "coffee"}
      BY <1>5 DEF ActionFits, CupLeft
    <2>2. a.command.verb = "place" => DOMAIN a.outcome = {"holding", "coffee"}
      BY <1>5 DEF ActionFits, CupLeft
    <2>3. QED BY <1>5, <2>1, <2>2 DEF ActionFits, CupLeft
  <1>8. world'.machine = "brewing" => (world.machine = "brewing" /\ ~ready) \/ OneMore
    BY <1>4, <1>5, <1>6, <1>7
  <1>9. \A i \in Jobs : \A v : Holds(v, i)' => Holds(v, i)
    BY <1>4 DEF Lost
  <1>10. CASE ready
    <2>1. Births /\ (\E m : Born' = Born \cup {m}) /\ \A i \in Of("brew-coffee") : pc'[i] = pc[i]
      BY <1>1, <1>4, <1>10, Delivers
    <2>2. \A i \in Of("brew-coffee") : pc'[i] # "unborn" => desk'[i] \in Desks
      BY <1>2, <2>1 DEF JobInv, SayInv, Of
    <2>3. QED BY <1>2, <1>4, <1>8, <1>9, <1>10, <2>1, <2>2, OthersKeep DEF JobShape
  <1>11. CASE ~ready
    <2>1. Births /\ Born' = Born /\ UNCHANGED pc
      BY <1>1, <1>2, <1>11, NoBirth
    <2>2. \A i \in Of("brew-coffee") : pc'[i] # "unborn" => desk'[i] \in Desks
      BY <1>2, <2>1 DEF JobInv, SayInv, Of
    <2>3. QED BY <1>2, <1>4, <1>8, <1>9, <2>1, <2>2, OthersKeep DEF JobShape
  <1>12. QED BY <1>10, <1>11

\* The people in the room.
LEMMA PeopleKeep == ASSUME BodyInv, JobInv, People PROVE JobInv'
  <1>1. JobShape /\ UNCHANGED <<saying, last>> /\ "machine" \in Fields
    BY DEF People, OrderCoffee, Alarm, Mess, Light, jobs, JobInv, TurnInv, Fields
  <1>2. Waiting /\ UNCHANGED <<queue, current>> /\ world'.machine = world.machine
    <2>1. CASE SetTable
      BY <2>1, Around
    <2>2. CASE TurnHotplateOn
      BY <1>1, <2>2, Around
    <2>3. CASE UNCHANGED body
      BY <2>3, HandsStill DEF body, Waiting
    <2>4. QED BY <2>1, <2>2, <2>3 DEF People, OrderCoffee, Alarm, Mess, Light
  <1>3. \A i \in Jobs : \A v : Holds(v, i)' => Holds(v, i)
    BY <1>2, HoldsStill DEF Kept
  <1>4. \A i \in Of("brew-coffee") : pc[i] # "unborn" => desk[i] \in Desks
    BY DEF JobInv, SayInv, Of
  <1>5. ASSUME Births, Born' = Born, UNCHANGED desk, \A i \in Of("brew-coffee") : pc'[i] = pc[i]
        PROVE  JobInv'
    BY <1>1, <1>2, <1>3, <1>4, <1>5, OthersKeep DEF JobShape
  <1>6. CASE UNCHANGED <<pc, desk>>
    BY <1>1, <1>5, <1>6, NoBirth
  <1>7. ASSUME NEW b \in {"tidy-atrium", "smoke-response"}, Unborn(b) # {}, pc' = Spawned(b), UNCHANGED desk
        PROVE  JobInv'
    <2>1. \A i \in Of("brew-coffee") : i \in Jobs \ Of(b)
      BY <1>7 DEF Of
    <2>2. QED BY <1>1, <1>5, <1>7, <2>1, BirthOf
  <1>8. ASSUME NEW d \in Desks, OrderCoffee(d) PROVE JobInv'
    <2>1. PICK m : m = Min(Unborn("brew-coffee"))
      OBVIOUS
    <2>2. Unborn("brew-coffee") # {} /\ pc' = Spawned("brew-coffee") /\ desk' = [desk EXCEPT ![m] = d]
      BY <1>8, <2>1 DEF OrderCoffee
    <2>3. Births /\ Born' = Born
      BY <1>1, <2>2, BirthOf
    <2>4. m \in Jobs /\ \A i \in Jobs \ {m} : pc'[i] = pc[i]
      BY <1>1, <2>1, <2>2, Spawns DEF Of
    <2>5. DOMAIN desk' = Jobs /\ \A i \in Jobs : desk'[i] = IF i = m THEN d ELSE desk[i]
      BY <1>1, <2>2, <2>4 DEF JobShape
    <2>6. \A i \in Of("brew-coffee") : pc'[i] # "unborn" => desk'[i] \in Desks
      BY <1>4, <2>4, <2>5 DEF Of
    <2>7. QED BY <1>1, <1>2, <1>3, <2>3, <2>5, <2>6, OthersKeep
  <1>9. CASE Alarm
    BY <1>7, <1>9 DEF Alarm
  <1>10. CASE Mess
    BY <1>6, <1>7, <1>10 DEF Mess
  <1>11. CASE Light
    BY <1>6, <1>11 DEF Light, jobs
  <1>12. QED BY <1>8, <1>9, <1>10, <1>11 DEF People

\* A token of one that has the body.
LEMMA Token ==
  ASSUME BodyInv, JobInv, NEW j \in Jobs, NEW from, NEW to, Becomes(j, from, to)
  PROVE  /\ Runnable(j) /\ pc[j] = from /\ wearer = j /\ Settled /\ pc' = [pc EXCEPT ![j] = to]
         /\ DescriptorOf[j] \in Behaviours /\ JobShape
         /\ from \in {"deciding", "speaking"} =>
              ~Outstanding(j) /\ unread[DescriptorOf[j]] = 0 /\ \A v : ~Holds(v, j)
         /\ \A v : Holds(v, j) => Outstanding(j)
  <1>1. /\ Runnable(j) /\ pc[j] = from /\ wearer = j /\ Settled /\ pc' = [pc EXCEPT ![j] = to]
        /\ DescriptorOf[j] \in Behaviours /\ TurnInv
    BY DEF Becomes, MostUrgent, Behaviours, JobInv
  <1>2. \A v : Holds(v, j) => Outstanding(j)
    BY HoldsOne
  <1>3. unread[DescriptorOf[j]] \in Nat
    BY <1>1, BodyAssumption DEF BodyInv, BodyShape
  <1>4. from \in {"deciding", "speaking"} => ~Outstanding(j) /\ unread[DescriptorOf[j]] = 0
    <2>1. SUFFICES ASSUME from \in {"deciding", "speaking"}
                   PROVE  ~Outstanding(j) /\ unread[DescriptorOf[j]] = 0
      OBVIOUS
    <2>2. ~Waits(j)
      BY <1>1, <2>1 DEF Waits
    <2>3. ~(unread[DescriptorOf[j]] > 0)
      BY <1>1, <2>2, Alone
    <2>4. QED BY <1>1, <1>3, <2>2, <2>3 DEF TurnInv, WaitsInv
  <1>5. QED BY <1>1, <1>2, <1>4 DEF TurnInv

\* It decides on a command.
LEMMA DecideKeeps == ASSUME BodyInv, JobInv, NEW j \in Jobs, Decide(j) PROVE JobInv'
  <1>1. Becomes(j, "deciding", "speaking") /\ UNCHANGED <<body, last, desk>>
    BY DEF Decide
  <1>2. PICK c \in NextCommands(j) \ {Exit} : saying' = [saying EXCEPT ![j] = c]
    BY DEF Decide
  <1>3. /\ Runnable(j) /\ pc' = [pc EXCEPT ![j] = "speaking"] /\ pc[j] = "deciding"
        /\ DescriptorOf[j] \in Behaviours /\ JobShape
        /\ ~Outstanding(j) /\ unread[DescriptorOf[j]] = 0 /\ \A v : ~Holds(v, j)
    BY <1>1, Token
  <1>4. Waiting /\ Kept /\ UNCHANGED <<unread, world>>
    BY <1>1, HandsStill, HoldsStill DEF body, Waiting
  <1>5. DOMAIN saying' = Jobs /\ saying'[j] = c /\ \A i \in Jobs \ {j} : saying'[i] = saying[i]
    BY <1>2, <1>3 DEF JobShape
  <1>6. Spoken(j, c.verb)
    BY <1>2, Decides DEF JobInv
  <1>7. Spoken(j, saying[j].verb)'
    BY <1>1, <1>5, <1>6 DEF Spoken
  <1>8. last' \in [Jobs -> Words] /\ "speaking" \in Stages \ {"unborn"}
    BY <1>1, <1>3 DEF JobShape, Stages
  <1>9. ~Waits(j)'
    BY <1>3 DEF Waits, JobShape
  <1>10. DescriptorOf[j] = "brew-coffee" => last'[j] \in {"none", "tell", "navigate", "brew"}
    BY <1>1 DEF JobInv, SayInv
  <1>11. /\ ~Outstanding(j)' /\ unread'[DescriptorOf[j]] = 0 /\ \A v : ~Holds(v, j)'
         /\ \A i \in Jobs \ {j} : (Outstanding(i)' <=> Outstanding(i)) /\ \A v : Holds(v, i)' <=> Holds(v, i)
    BY <1>3, <1>4 DEF Waiting, Kept
  <1>12. j \in Poured => last'[j] = "brew" /\ ~Holds("brew", j)'
    BY <1>1, <1>11 DEF Poured
  <1>13. ~(unread'[DescriptorOf[j]] > 0)
    BY <1>11
  <1>14. QED BY <1>1, <1>3, <1>4, <1>5, <1>7, <1>8, <1>9, <1>10, <1>11, <1>12, <1>13, OwnKeep

\* It exits.
LEMMA ExitKeeps == ASSUME BodyInv, JobInv, NEW j \in Jobs, DecideExit(j) PROVE JobInv'
  <1>1. Becomes(j, "deciding", "done") /\ UNCHANGED <<saying, last, desk>> /\ Disembodied(j)
    BY DEF DecideExit
  <1>2. /\ Runnable(j) /\ pc' = [pc EXCEPT ![j] = "done"] /\ pc[j] = "deciding"
        /\ DescriptorOf[j] \in Behaviours /\ JobShape
        /\ ~Outstanding(j) /\ unread[DescriptorOf[j]] = 0 /\ \A v : ~Holds(v, j)
    BY <1>1, Token
  <1>3. Waiting /\ Kept
    BY <1>1, <1>2, HoldsTaken DEF Answered
  <1>4. world'["machine"] = world["machine"]
    BY <1>1, Taken DEF Fields
  <1>5. ~Waits(j)' /\ last' \in [Jobs -> Words] /\ DOMAIN saying' = Jobs /\ "done" \in Stages \ {"unborn"}
    BY <1>1, <1>2 DEF Waits, JobShape, Stages
  <1>6. /\ ~Outstanding(j)' /\ unread'[DescriptorOf[j]] = 0 /\ \A v : ~Holds(v, j)' /\ UNCHANGED unread
        /\ \A i \in Jobs \ {j} : (Outstanding(i)' <=> Outstanding(i)) /\ \A v : Holds(v, i)' <=> Holds(v, i)
    BY <1>2, <1>3 DEF Waiting, Kept
  <1>7. DescriptorOf[j] = "brew-coffee" => last'[j] \in {"none", "tell", "navigate", "brew"}
    BY <1>1 DEF JobInv, SayInv
  <1>8. j \in Poured => last'[j] = "brew" /\ ~Holds("brew", j)'
    BY <1>1, <1>6 DEF Poured
  <1>9. ~(unread'[DescriptorOf[j]] > 0)
    BY <1>6
  <1>10. QED BY <1>1, <1>2, <1>4, <1>5, <1>6, <1>7, <1>8, <1>9, OwnKeep

\* The word it said is the last, where its descriptor is steps.
LEMMA Said ==
  ASSUME JobInv, NEW j \in Jobs, pc[j] = "speaking", Says(j),
         saying[j] = Tell \/ saying[j] \in Orders
  PROVE  /\ Spoken(j, saying[j].verb)
         /\ last' \in [Jobs -> Words] /\ DOMAIN saying' = Jobs /\ UNCHANGED desk
         /\ \A i \in Jobs \ {j} : last'[i] = last[i] /\ saying'[i] = saying[i]
         /\ last'[j] = IF DescriptorOf[j] \in BySteps THEN saying[j].verb ELSE last[j]
         /\ DescriptorOf[j] = "brew-coffee" => last'[j] \in {"tell", "navigate", "brew"} /\ last[j] # "brew"
  <1>1. Spoken(j, saying[j].verb) /\ JobShape
    BY DEF JobInv, SayInv, TurnInv
  <1>2. saying' = [saying EXCEPT ![j] = Nothing] /\ UNCHANGED desk
        /\ last' = IF DescriptorOf[j] \in BySteps THEN [last EXCEPT ![j] = saying[j].verb] ELSE last
    BY DEF Says
  <1>3. DescriptorOf[j] \in BySteps => saying[j].verb \in Words
    BY <1>1 DEF Spoken, BySteps, Words
  <1>4. PICK w : w = saying[j].verb
    OBVIOUS
  <1>5. last' \in [Jobs -> Words] /\ \A i \in Jobs \ {j} : last'[i] = last[i]
    BY <1>1, <1>2, <1>3, <1>4 DEF JobShape
  <1>6. last'[j] = IF DescriptorOf[j] \in BySteps THEN w ELSE last[j]
    BY <1>1, <1>2, <1>4 DEF JobShape
  <1>7. DOMAIN saying' = Jobs /\ \A i \in Jobs \ {j} : saying'[i] = saying[i]
    BY <1>1, <1>2 DEF JobShape
  <1>8. DescriptorOf[j] = "brew-coffee" => w \in {"tell", "navigate", "brew"} /\ last[j] # "brew"
    BY <1>1, <1>4 DEF Spoken
  <1>9. DescriptorOf[j] = "brew-coffee" => last'[j] \in {"tell", "navigate", "brew"} /\ last[j] # "brew"
    BY <1>6, <1>8 DEF BySteps
  <1>10. QED BY <1>1, <1>2, <1>4, <1>5, <1>6, <1>7, <1>9

\* It tells whom the coffee is for.
LEMMA TellKeeps == ASSUME BodyInv, JobInv, NEW j \in Jobs, SayOrder(j) PROVE JobInv'
  <1>1. Becomes(j, "speaking", "deciding") /\ Says(j) /\ saying[j] = Tell /\ UNCHANGED body
    BY DEF SayOrder
  <1>2. /\ Runnable(j) /\ pc' = [pc EXCEPT ![j] = "deciding"] /\ pc[j] = "speaking"
        /\ DescriptorOf[j] \in Behaviours /\ JobShape
        /\ ~Outstanding(j) /\ unread[DescriptorOf[j]] = 0 /\ \A v : ~Holds(v, j)
    BY <1>1, Token
  <1>3. /\ last' \in [Jobs -> Words] /\ DOMAIN saying' = Jobs /\ UNCHANGED desk
        /\ \A i \in Jobs \ {j} : last'[i] = last[i] /\ saying'[i] = saying[i]
        /\ DescriptorOf[j] = "brew-coffee" => last'[j] \in {"tell", "navigate", "brew"} /\ last[j] # "brew"
    BY <1>1, <1>2, Said
  <1>4. Waiting /\ Kept /\ UNCHANGED <<unread, world>>
    BY <1>1, HandsStill, HoldsStill DEF body, Waiting
  <1>5. ~Waits(j)' /\ "deciding" \in Stages \ {"unborn"}
    BY <1>2 DEF Waits, JobShape, Stages
  <1>6. /\ ~Outstanding(j)' /\ unread'[DescriptorOf[j]] = 0 /\ \A v : ~Holds(v, j)'
        /\ \A i \in Jobs \ {j} : (Outstanding(i)' <=> Outstanding(i)) /\ \A v : Holds(v, i)' <=> Holds(v, i)
    BY <1>2, <1>4 DEF Waiting, Kept
  <1>7. j \notin Poured
    BY <1>3 DEF Poured, Of
  <1>8. ~(unread'[DescriptorOf[j]] > 0)
    BY <1>6
  <1>9. QED BY <1>1, <1>2, <1>3, <1>4, <1>5, <1>6, <1>7, <1>8, OwnKeep

\* It writes its command, which the body takes on.
LEMMA Commands ==
  ASSUME BodyInv, JobInv, NEW j \in Jobs, SayCommand(j)
  PROVE  /\ ~Outstanding(j) /\ wearer = j /\ UNCHANGED <<wearer, current, world, unread>>
         /\ queue' = Append(queue, [job |-> j, command |-> saying[j]])
         /\ saying[j] \in Orders /\ Spoken(j, saying[j].verb) /\ Says(j) /\ pc' = [pc EXCEPT ![j] = "listening"]
         /\ \A i \in Jobs : \A v : Holds(v, i)' <=> Holds(v, i) \/ (i = j /\ v = saying[j].verb)
         /\ \A i \in Jobs : Outstanding(i)' <=> Outstanding(i) \/ i = j
  <1>1. /\ Becomes(j, "speaking", "listening") /\ Says(j) /\ saying[j] \in Orders /\ Written(j, saying[j])
    BY DEF SayCommand
  <1>2. /\ pc' = [pc EXCEPT ![j] = "listening"] /\ pc[j] = "speaking" /\ ~Outstanding(j) /\ wearer = j
    BY <1>1, Token
  <1>3. Spoken(j, saying[j].verb)
    BY <1>1, <1>2, Said
  <1>4. PICK c \in Orders : c = saying[j]
    BY <1>1
  <1>5. Written(j, c)
    BY <1>1, <1>4
  <1>6. /\ UNCHANGED <<wearer, current, world, unread>> /\ queue' = Append(queue, [job |-> j, command |-> c])
        /\ \A i \in Jobs : Outstanding(i)' <=> Outstanding(i) \/ i = j
    BY <1>2, <1>5, Ordered
  <1>7. \A i \in Jobs : \A v : Holds(v, i)' <=> Holds(v, i) \/ (i = j /\ v = c.verb)
    BY <1>2, <1>6, HoldsOrdered
  <1>8. QED BY <1>1, <1>2, <1>3, <1>4, <1>6, <1>7

\* A command is said: it is with the body now, and its job has said its last word until the answer.
LEMMA SayKeeps == ASSUME BodyInv, JobInv, NEW j \in Jobs, SayCommand(j) PROVE JobInv'
  <1>1. /\ ~Outstanding(j) /\ UNCHANGED <<world, unread>> /\ saying[j] \in Orders /\ Says(j)
        /\ Spoken(j, saying[j].verb)
        /\ \A i \in Jobs : \A v : Holds(v, i)' <=> Holds(v, i) \/ (i = j /\ v = saying[j].verb)
        /\ \A i \in Jobs : Outstanding(i)' <=> Outstanding(i) \/ i = j
    BY Commands
  <1>2. Becomes(j, "speaking", "listening")
    BY DEF SayCommand
  <1>3. /\ Runnable(j) /\ pc' = [pc EXCEPT ![j] = "listening"] /\ pc[j] = "speaking"
        /\ DescriptorOf[j] \in Behaviours /\ JobShape /\ unread[DescriptorOf[j]] = 0 /\ \A v : ~Holds(v, j)
    BY <1>2, Token
  <1>4. /\ last' \in [Jobs -> Words] /\ DOMAIN saying' = Jobs /\ UNCHANGED desk
        /\ \A i \in Jobs \ {j} : last'[i] = last[i] /\ saying'[i] = saying[i]
        /\ last'[j] = IF DescriptorOf[j] \in BySteps THEN saying[j].verb ELSE last[j]
        /\ DescriptorOf[j] = "brew-coffee" => last'[j] \in {"tell", "navigate", "brew"} /\ last[j] # "brew"
    BY <1>1, <1>3, Said
  <1>5. Waits(j)' /\ Outstanding(j)' /\ unread'[DescriptorOf[j]] = 0 /\ "listening" \in Stages \ {"unborn"}
    BY <1>1, <1>3 DEF Waits, JobShape, Stages
  <1>6. saying[j].verb = "brew" => DescriptorOf[j] = "brew-coffee" /\ last'[j] = "brew"
    BY <1>1, <1>4, OfTheFour DEF Spoken, BySteps
  <1>7. saying[j].verb = "pick" => DescriptorOf[j] = "deliver-coffee"
    BY <1>1, OfTheFour DEF Spoken
  <1>8. j \notin Poured
    BY <1>4 DEF Poured, Of
  <1>9. \A v : Holds(v, j)' => v = saying[j].verb
    BY <1>1, <1>3
  <1>10. \A i \in Jobs \ {j} : (Outstanding(i)' <=> Outstanding(i)) /\ \A v : Holds(v, i)' <=> Holds(v, i)
    BY <1>1
  <1>11. QED BY <1>1, <1>3, <1>4, <1>5, <1>6, <1>7, <1>8, <1>9, <1>10, OwnKeep

\* It listens, and finds its answer there or waits for it.
LEMMA BlockKeeps == ASSUME BodyInv, JobInv, NEW j \in Jobs, Block(j) PROVE JobInv'
  <1>1. Becomes(j, "listening", "blocked") /\ UNCHANGED <<body, saying, last, desk>> /\ unread[DescriptorOf[j]] = 0
    BY DEF Block
  <1>2. /\ Runnable(j) /\ pc' = [pc EXCEPT ![j] = "blocked"] /\ pc[j] = "listening"
        /\ DescriptorOf[j] \in Behaviours /\ JobShape
    BY <1>1, Token
  <1>3. Waits(j) /\ Outstanding(j)
    BY <1>1, <1>2 DEF Waits, JobInv, TurnInv, WaitsInv
  <1>4. Waiting /\ Kept /\ UNCHANGED <<unread, world>>
    BY <1>1, HandsStill, HoldsStill DEF body, Waiting
  <1>5. Waits(j)' /\ last' \in [Jobs -> Words] /\ DOMAIN saying' = Jobs /\ "blocked" \in Stages \ {"unborn"}
    BY <1>1, <1>2 DEF Waits, JobShape, Stages
  <1>6. /\ Outstanding(j)' /\ \A v : Holds(v, j)' <=> Holds(v, j)
        /\ \A i \in Jobs \ {j} : (Outstanding(i)' <=> Outstanding(i)) /\ \A v : Holds(v, i)' <=> Holds(v, i)
    BY <1>3, <1>4 DEF Waiting, Kept
  <1>7. /\ DescriptorOf[j] = "brew-coffee" => last'[j] \in {"none", "tell", "navigate", "brew"}
        /\ Holds("brew", j)' => DescriptorOf[j] = "brew-coffee" /\ last'[j] = "brew"
        /\ Holds("pick", j)' => DescriptorOf[j] = "deliver-coffee"
        /\ j \in Poured => last'[j] = "brew" /\ ~Holds("brew", j)'
    BY <1>1, <1>6 DEF JobInv, SayInv, AskedInv, Poured
  <1>8. QED BY <1>1, <1>2, <1>4, <1>5, <1>6, <1>7, OwnKeep

\* A behaviour reads all its answers, and was owed no other.
LEMMA ReadKeeps == ASSUME BodyInv, JobInv, NEW j \in Jobs, ReadAnswer(j) PROVE JobInv'
  <1>1. PICK from \in {"listening", "blocked"} : Becomes(j, from, "deciding")
    BY DEF ReadAnswer
  <1>2. UNCHANGED <<saying, last, desk>> /\ ReadAll(DescriptorOf[j])
    BY DEF ReadAnswer
  <1>3. /\ Runnable(j) /\ pc' = [pc EXCEPT ![j] = "deciding"] /\ DescriptorOf[j] \in Behaviours /\ JobShape
    BY <1>1, Token
  <1>4. /\ UNCHANGED <<queue, current, world>> /\ unread[DescriptorOf[j]] > 0 /\ unread'[DescriptorOf[j]] = 0
        /\ \A d \in Behaviours \ {DescriptorOf[j]} : unread'[d] = unread[d]
        /\ \A i \in Jobs : Outstanding(i)' <=> Outstanding(i)
    BY <1>2, <1>3, Around
  <1>5. ~Outstanding(j) /\ Kept
    BY <1>4, HoldsStill DEF JobInv, TurnInv, WaitsInv
  <1>6. ~Waits(j)' /\ last' \in [Jobs -> Words] /\ DOMAIN saying' = Jobs /\ "deciding" \in Stages \ {"unborn"}
    BY <1>2, <1>3 DEF Waits, JobShape, Stages
  <1>7. /\ ~Outstanding(j)' /\ \A v : ~Holds(v, j)'
        /\ \A i \in Jobs \ {j} : (Outstanding(i)' <=> Outstanding(i)) /\ \A v : Holds(v, i)' <=> Holds(v, i)
    BY <1>4, <1>5, HoldsOne DEF Kept
  <1>8. /\ DescriptorOf[j] = "brew-coffee" => last'[j] \in {"none", "tell", "navigate", "brew"}
        /\ j \in Poured => last'[j] = "brew" /\ ~Holds("brew", j)'
    BY <1>2, <1>7 DEF JobInv, SayInv, Poured
  <1>9. ~(unread'[DescriptorOf[j]] > 0)
    BY <1>4
  <1>10. QED BY <1>2, <1>3, <1>4, <1>6, <1>7, <1>8, <1>9, OwnKeep

\* Nothing happens.
LEMMA NothingKeeps == ASSUME JobInv, UNCHANGED vars PROVE JobInv'
  <1>1. UNCHANGED <<pc, saying, last, desk, unread, queue, current, world>>
    BY DEF vars, body, jobs
  <1>2. TurnInv'
    BY <1>1 DEF JobInv, TurnInv, JobShape, BornInOrder, InTurn, WaitsInv, MailInv, Waits, Begun, Live,
                Outstanding, Doing, Queued, Same
  <1>3. \A v, i : Holds(v, i)' <=> Holds(v, i)
    BY <1>1 DEF Holds
  <1>4. SayInv' /\ AskedInv'
    BY <1>1, <1>3 DEF JobInv, SayInv, AskedInv, Spoken
  <1>5. Born' = Born /\ Poured' = Poured
    BY <1>1, <1>3 DEF Born, Poured
  <1>6. CountInv'
    BY <1>1, <1>5 DEF JobInv, CountInv
  <1>7. QED BY <1>2, <1>4, <1>6 DEF JobInv

\* Every step of a morning keeps the turns, the words, the answers and the counts.
LEMMA JobStep == ASSUME BodyInv, JobInv, [Next]_vars PROVE JobInv'
  <1>1. CASE Lease
    BY <1>1, LeaseKeeps DEF Lease
  <1>2. CASE Behave
    BY <1>2, DecideKeeps, ExitKeeps, TellKeeps, SayKeeps, BlockKeeps, ReadKeeps DEF Behave
  <1>3. QED BY <1>1, <1>2, FinishKeeps, BrewedKeeps, BeginKeeps, PeopleKeep, NothingKeeps DEF Next, System

\* A morning begins with one job born, which has said nothing.
LEMMA JobInit == ASSUME Init PROVE JobInv
  <1>1. /\ InitBody /\ pc = [j \in Jobs |-> IF j = Min(Of("tidy-atrium")) THEN "deciding" ELSE "unborn"]
        /\ saying = [j \in Jobs |-> Nothing] /\ last = [j \in Jobs |-> "none"] /\ desk = [j \in Jobs |-> ""]
    BY DEF Init
  <1>2. PICK m : m = Min(Of("tidy-atrium"))
    OBVIOUS
  <1>3. Of("tidy-atrium") \subseteq Jobs /\ Of("tidy-atrium") # {}
    BY AtriumAssumption DEF Of
  <1>4. m \in Of("tidy-atrium") /\ \A k \in Of("tidy-atrium") : ~(k < m)
    BY <1>2, <1>3, First
  <1>5. m \in Jobs /\ DescriptorOf[m] = "tidy-atrium" /\ \A i \in Jobs : pc[i] = IF i = m THEN "deciding" ELSE "unborn"
    BY <1>1, <1>2, <1>4 DEF Of
  <1>6. \A i \in Jobs : ~Outstanding(i)
    BY <1>1, Empty DEF InitBody, Outstanding, Doing, Queued
  <1>7. JobShape
    BY <1>1 DEF JobShape, Stages, Words
  <1>8. BornInOrder
    BY <1>4, <1>5 DEF BornInOrder, Same, Of
  <1>9. \A i \in Jobs : ~Begun(i) /\ ~Waits(i)
    BY <1>1, <1>5 DEF Begun, Waits
  <1>10. \A b \in Behaviours : unread[b] = 0
    BY <1>1 DEF InitBody
  <1>11. TurnInv
    BY <1>6, <1>7, <1>8, <1>9, <1>10 DEF TurnInv, InTurn, WaitsInv, MailInv
  <1>12. \A v : \A i \in Jobs : ~Holds(v, i)
    BY <1>6, HoldsOne
  <1>13. SayInv
    BY <1>1, <1>5 DEF SayInv
  <1>14. AskedInv
    BY <1>12 DEF AskedInv
  <1>15. CountInv
    <2>1. Born = {} /\ Poured = {} /\ world.machine = "idle"
      BY <1>1, <1>5 DEF Born, Poured, Of, InitBody
    <2>2. QED BY <2>1, FS_EmptySet DEF CountInv
  <1>16. QED BY <1>11, <1>13, <1>14, <1>15 DEF JobInv

\* No behaviour that is blocked on its answers waits in vain (pipes.yaml, vla.py:310): one is there, or
\* will be, since its command is with the body.
THEOREM NeverInVain == Spec => []NoVainWait
  <1>1. ASSUME BodyInv, JobInv PROVE NoVainWait
    <2>1. SUFFICES ASSUME NEW j \in Jobs, pc[j] = "blocked", ~(unread[DescriptorOf[j]] > 0)
                   PROVE  Pending(j) = 1
      BY DEF NoVainWait
    <2>2. Outstanding(j)
      BY <1>1, <2>1 DEF JobInv, TurnInv, WaitsInv, Waits
    <2>3. owed[j] = 1 /\ owed[j] = Pending(j)
      BY <1>1, <2>2, OneAnswer DEF BodyInv, OwedInv, OneAnswerEach
    <2>4. QED BY <2>3
  <1>2. Init => BodyInv /\ JobInv
    BY BodyInit, JobInit DEF Init
  <1>3. BodyInv /\ JobInv /\ [Next]_vars => (BodyInv /\ JobInv)'
    BY BodyOfMorning, BodyStep, JobStep
  <1>4. QED BY <1>1, <1>2, <1>3, PTL DEF Spec

-----------------------------------------------------------------------------
(***************************************************************************)
(* Who overtakes whom.                                                     *)
(***************************************************************************)
\* A behaviour whose errand with the body has begun.
Underway(j) ==
  \/ DescriptorOf[j] = "smoke-response" /\ last[j] # "none"
  \/ DescriptorOf[j] = "brew-coffee" /\ last[j] \in {"navigate", "brew"}
  \/ DescriptorOf[j] = "deliver-coffee" /\ world.coffee # "coffee-machine"

\* Of two commands with the body, the later is of the more urgent.
Fifo ==
  /\ \A k, l \in DOMAIN queue : k < l => Rank(queue[l].job) < Rank(queue[k].job)
  /\ \A x \in Jobs : Doing(x) => \A l \in DOMAIN queue : Rank(queue[l].job) < Rank(x)

\* A command of one without the body is there because somebody more urgent has it, or is to have it.
Overtaken == \A x \in Jobs : Outstanding(x) /\ wearer # x =>
  \E y \in Jobs : Live(y) /\ Rank(y) < Rank(x) /\ (wearer = y \/ (wearer = Nobody /\ Runnable(y)))

\* One whose errand has begun, and is not with the body, was overtaken by those that are.
Overtakes == \A x, y \in Jobs :
  Live(y) /\ Underway(y) /\ ~Outstanding(y) /\ Outstanding(x) => Rank(x) < Rank(y)

Delivering  == \E j \in Of("deliver-coffee") : Live(j)
OneDelivery == \A j, k \in Of("deliver-coffee") : Live(j) /\ Live(k) => j = k

\* How urgent each is.
LEMMA Ranks ==
  ASSUME NEW j \in Jobs
  PROVE  /\ DescriptorOf[j] = "tidy-atrium" => Rank(j) = 80
         /\ DescriptorOf[j] = "brew-coffee" => Rank(j) = 40
         /\ DescriptorOf[j] = "deliver-coffee" => Rank(j) = 30
         /\ DescriptorOf[j] = "smoke-response" => Rank(j) = 5
         /\ Rank(j) \in {5, 30, 40, 80} /\ Rank(j) \in Int
  <1>1. /\ Priority["tidy-atrium"] = 80 /\ Priority["brew-coffee"] = 40
        /\ Priority["deliver-coffee"] = 30 /\ Priority["smoke-response"] = 5
    BY DEF Priority
  <1>2. QED BY <1>1, OfTheFour DEF Rank

\* Two that can run are not equally urgent.
LEMMA OneMostUrgent ==
  ASSUME BodyInv, JobInv, NEW j \in Jobs, NEW k \in Jobs, Runnable(j), Runnable(k), Rank(j) = Rank(k)
  PROVE  j = k
  <1>1. Same(j, k) /\ Same(k, j)
    BY Ranks, OfTheFour DEF Same
  <1>2. Live(j) /\ Live(k)
    BY DEF Runnable, Live
  <1>3. ~(k < j) /\ ~(j < k)
    BY <1>1, <1>2 DEF Runnable, Of, Same
  <1>4. QED BY <1>3, AtriumAssumption

\* Whose errand has begun can run, but for a command with the body.
LEMMA UnderwayRuns ==
  ASSUME JobInv, OneDelivery, NEW y \in Jobs, Live(y), Underway(y), ~Outstanding(y)
  PROVE  Runnable(y)
  <1>1. ASSUME NEW k \in Of(DescriptorOf[y]), k < y PROVE ~Live(k)
    <2>1. k \in Jobs /\ Same(k, y)
      BY DEF Of, Same
    <2>2. CASE last[y] # "none"
      BY <1>1, <2>1, <2>2 DEF JobInv, TurnInv, InTurn, Begun
    <2>3. CASE last[y] = "none"
      <3>1. DescriptorOf[y] = "deliver-coffee"
        BY <2>3 DEF Underway
      <3>2. k # y
        BY <1>1, <2>1, AtriumAssumption
      <3>3. QED BY <3>1, <3>2, <2>1 DEF OneDelivery, Of, Same
    <2>4. QED BY <2>2, <2>3
  <1>2. pc[y] \in {"deciding", "speaking", "listening"} \/ (pc[y] = "blocked" /\ unread[DescriptorOf[y]] > 0)
    <2>1. pc[y] \in Stages
      BY DEF JobInv, TurnInv, JobShape
    <2>2. pc[y] = "blocked" => unread[DescriptorOf[y]] > 0
      BY DEF JobInv, TurnInv, WaitsInv, Waits
    <2>3. QED BY <2>1, <2>2 DEF Stages, Live
  <1>3. QED BY <1>1, <1>2 DEF Runnable

\* One is answered, and what is left with the body had overtaken it.
Settling(z) == Answered(z) /\ \A x \in Jobs : Outstanding(x)' => Rank(x) < Rank(z)

\* What is in hand ends, or the first in line is answered.
LEMMA HandSettles ==
  ASSUME BodyInv, Fifo, NEW z \in Jobs, Doing(z), Answered(z), current' = <<>>, UNCHANGED queue
  PROVE  Settling(z) /\ Fifo'
  <1>1. \A x \in Jobs : ~Doing(x)' /\ (Queued(x)' <=> Queued(x))
    BY Empty DEF Doing, Queued
  <1>2. \A x \in Jobs : Outstanding(x)' => Rank(x) < Rank(z)
    BY <1>1 DEF Outstanding, Queued, Fifo
  <1>3. Fifo'
    BY <1>1 DEF Fifo, Rank
  <1>4. QED BY <1>2, <1>3 DEF Settling

\* The order of the commands with the body is of the queue and the hand alone.
LEMMA HandStays == ASSUME Fifo, UNCHANGED <<queue, current>> PROVE Fifo'
  BY DEF Fifo, Doing, Rank

\* A command that starts was the oldest, so the order of the rest stays.
LEMMA LineSettles ==
  ASSUME BodyInv, Fifo, Start
  PROVE  /\ Fifo'
         /\ (\A i \in Jobs : Outstanding(i)' <=> Outstanding(i)) \/ \E z \in Jobs : Settling(z)
  <1>1. /\ current = <<>> /\ queue # <<>> /\ queue' = Tail(queue) /\ DOMAIN current = {}
        /\ \/ Answered(queue[1].job) /\ UNCHANGED current
           \/ /\ Waiting
              /\ \E a : /\ current' = <<a>> /\ a.job = queue[1].job
    BY Started, Empty
  <1>2. /\ 1 \in DOMAIN queue /\ DOMAIN queue = 1 .. Len(queue) /\ Len(queue) \in Nat \ {0}
        /\ DOMAIN queue' = 1 .. Len(queue) - 1 /\ queue[1].job \in Jobs
        /\ \A k \in DOMAIN queue' : queue'[k] = queue[k + 1] /\ k + 1 \in DOMAIN queue
    BY <1>1, Dequeued
  <1>3. \A l \in DOMAIN queue' : Rank(queue'[l].job) < Rank(queue[1].job)
    <2>1. TAKE l \in DOMAIN queue'
    <2>2. l + 1 \in DOMAIN queue /\ queue'[l] = queue[l + 1] /\ 1 < l + 1
      BY <1>2
    <2>3. QED BY <1>2, <2>2 DEF Fifo
  <1>4. \A k, l \in DOMAIN queue' : k < l => Rank(queue'[l].job) < Rank(queue'[k].job)
    <2>1. SUFFICES ASSUME NEW k \in DOMAIN queue', NEW l \in DOMAIN queue', k < l
                   PROVE  Rank(queue'[l].job) < Rank(queue'[k].job)
      OBVIOUS
    <2>2. /\ l + 1 \in DOMAIN queue /\ queue'[l] = queue[l + 1]
          /\ k + 1 \in DOMAIN queue /\ queue'[k] = queue[k + 1] /\ k + 1 < l + 1
      BY <1>2, <2>1
    <2>3. QED BY <2>2 DEF Fifo
  <1>5. \A x \in Jobs : Doing(x)' => x = queue[1].job
    <2>1. CASE UNCHANGED current
      BY <1>1, <2>1, Empty DEF Doing
    <2>2. ASSUME NEW a, current' = <<a>>, a.job = queue[1].job PROVE \A x \in Jobs : Doing(x)' => x = queue[1].job
      <3>1. DOMAIN current' = {1} /\ current'[1] = a
        BY <2>2
      <3>2. QED BY <2>2, <3>1 DEF Doing
    <2>3. QED BY <1>1, <2>1, <2>2
  <1>6. Fifo'
    BY <1>3, <1>4, <1>5 DEF Fifo, Rank
  <1>7. ASSUME Answered(queue[1].job), UNCHANGED current PROVE Settling(queue[1].job)
    <2>1. \A x \in Jobs : ~Doing(x)'
      BY <1>1, <1>7, Empty DEF Doing
    <2>2. \A x \in Jobs : Outstanding(x)' => Rank(x) < Rank(queue[1].job)
      BY <1>3, <2>1 DEF Outstanding, Queued
    <2>3. QED BY <1>7, <2>2 DEF Settling
  <1>8. QED BY <1>1, <1>2, <1>6, <1>7 DEF Waiting

\* A command of the most urgent, whom the others were overtaken by, goes to the end of the line.
LEMMA LineGrows ==
  ASSUME BodyInv, Fifo, NEW j \in Jobs, NEW c \in Orders, ~Outstanding(j), UNCHANGED current,
         queue' = Append(queue, [job |-> j, command |-> c]),
         \A x \in Jobs : Outstanding(x) => Rank(j) < Rank(x)
  PROVE  Fifo'
  <1>1. /\ DOMAIN queue = 1 .. Len(queue) /\ Len(queue) \in Nat /\ DOMAIN queue' = 1 .. Len(queue) + 1
        /\ \A k \in DOMAIN queue : queue'[k] = queue[k]
        /\ queue'[Len(queue) + 1].job = j
    BY Enqueued
  <1>2. \A k \in DOMAIN queue' : k \in DOMAIN queue \/ k = Len(queue) + 1
    BY <1>1
  <1>3. \A k \in DOMAIN queue : k < Len(queue) + 1 /\ ~(Len(queue) + 1 < k) /\ ~(Len(queue) + 1 < Len(queue) + 1)
    BY <1>1
  <1>4. \A k \in DOMAIN queue : Rank(j) < Rank(queue[k].job)
    <2>1. TAKE k \in DOMAIN queue
    <2>2. PICK S : S = [job : Jobs, command : Orders]
      OBVIOUS
    <2>3. queue \in Seq(S)
      BY <2>2 DEF BodyInv, BodyShape
    <2>4. queue[k] \in S
      BY <1>1, <2>3
    <2>5. queue[k].job \in Jobs
      BY <2>2, <2>4
    <2>6. QED BY <2>5 DEF Outstanding, Queued
  <1>5. \A k, l \in DOMAIN queue' : k < l => Rank(queue'[l].job) < Rank(queue'[k].job)
    <2>1. SUFFICES ASSUME NEW k \in DOMAIN queue', NEW l \in DOMAIN queue', k < l
                   PROVE  Rank(queue'[l].job) < Rank(queue'[k].job)
      OBVIOUS
    <2>2. k \in DOMAIN queue
      BY <1>2, <1>3, <2>1
    <2>3. CASE l \in DOMAIN queue
      BY <1>1, <2>1, <2>2, <2>3 DEF Fifo
    <2>4. CASE l = Len(queue) + 1
      BY <1>1, <1>4, <2>2, <2>4
    <2>5. QED BY <1>2, <2>3, <2>4
  <1>6. \A x \in Jobs : Doing(x)' => \A l \in DOMAIN queue' : Rank(queue'[l].job) < Rank(x)
    <2>1. SUFFICES ASSUME NEW x \in Jobs, Doing(x), NEW l \in DOMAIN queue' PROVE Rank(queue'[l].job) < Rank(x)
      BY DEF Doing
    <2>2. CASE l \in DOMAIN queue
      BY <1>1, <2>1, <2>2 DEF Fifo
    <2>3. CASE l = Len(queue) + 1
      BY <1>1, <2>1, <2>3 DEF Outstanding
    <2>4. QED BY <1>2, <2>2, <2>3
  <1>7. QED BY <1>5, <1>6 DEF Fifo, Rank

\* Births and answers stop nobody from running.
LEMMA RunsOn ==
  ASSUME TurnInv, Births, \A b \in Behaviours : unread[b] > 0 => unread'[b] > 0,
         NEW y \in Jobs
  PROVE  (Live(y) => Live(y)') /\ (Runnable(y) => Runnable(y)')
  <1>1. Live(y) => pc'[y] = pc[y]
    BY DEF Births, Live
  <1>2. DescriptorOf[y] \in Behaviours
    BY DEF Behaviours
  <1>3. ASSUME Runnable(y), NEW k \in Of(DescriptorOf[y]), k < y PROVE ~Live(k)'
    <2>1. ~Live(k) /\ k \in Jobs /\ Same(k, y) /\ Live(y)
      BY <1>3 DEF Runnable, Of, Same, Live
    <2>2. pc[k] # "unborn"
      BY <1>3, <2>1 DEF TurnInv, BornInOrder, Live
    <2>3. QED BY <2>1, <2>2 DEF Births, Live
  <1>4. QED BY <1>1, <1>2, <1>3 DEF Runnable, Live, Of

\* Commands are answered, jobs born: who overtook whom stays so.
LEMMA OvertakenStays ==
  ASSUME TurnInv, Overtaken, Births, UNCHANGED wearer,
         \A b \in Behaviours : unread[b] > 0 => unread'[b] > 0,
         \A i \in Jobs : Outstanding(i)' => Outstanding(i)
  PROVE  Overtaken'
  <1>1. SUFFICES ASSUME NEW x \in Jobs, Outstanding(x)', wearer # x
                 PROVE  \E y \in Jobs : /\ Live(y)' /\ Rank(y) < Rank(x)
                                        /\ wearer = y \/ (wearer = Nobody /\ Runnable(y)')
    BY DEF Overtaken, Rank
  <1>2. PICK y \in Jobs : Live(y) /\ Rank(y) < Rank(x) /\ (wearer = y \/ (wearer = Nobody /\ Runnable(y)))
    BY <1>1 DEF Overtaken
  <1>3. Live(y)' /\ (Runnable(y) => Runnable(y)')
    BY <1>2, RunsOn
  <1>4. QED BY <1>2, <1>3

\* So it does in the body's turn of one that has it.
LEMMA OvertakenByOwn ==
  ASSUME Overtaken, NEW j \in Jobs, wearer = j, wearer' = j, Live(j)',
         \A i \in Jobs : Outstanding(i)' => Outstanding(i) \/ i = j
  PROVE  Overtaken'
  <1>1. SUFFICES ASSUME NEW x \in Jobs, Outstanding(x)', x # j PROVE Rank(j) < Rank(x)
    BY DEF Overtaken, Rank
  <1>2. QED BY <1>1, BodyAssumption DEF Overtaken

\* Whoever has the body is more urgent than all others that have a command with it.
LEMMA WearerFirst ==
  ASSUME Overtaken, NEW j \in Jobs, wearer = j, NEW x \in Jobs, Outstanding(x), x # j
  PROVE  Rank(j) < Rank(x)
  BY BodyAssumption DEF Overtaken

\* It is so too for who has begun and was overtaken.
LEMMA OvertakesStays ==
  ASSUME Overtakes,
         (\A i \in Jobs : Outstanding(i)' <=> Outstanding(i)) \/ \E z \in Jobs : Settling(z),
         \A y \in Jobs : Live(y)' /\ Underway(y)' => (Live(y) /\ Underway(y)) \/ Outstanding(y)' \/ Settling(y)
  PROVE  Overtakes'
  <1>1. SUFFICES ASSUME NEW x \in Jobs, NEW y \in Jobs, Live(y)', Underway(y)', ~Outstanding(y)', Outstanding(x)'
                 PROVE  Rank(x) < Rank(y)
    BY DEF Overtakes, Rank
  <1>2. CASE Settling(y)
    BY <1>1, <1>2 DEF Settling
  <1>3. CASE ~Settling(y)
    <2>1. Outstanding(x) /\ ~Outstanding(y)
      BY <1>1, <1>3 DEF Settling, Answered
    <2>2. QED BY <1>1, <1>3, <2>1 DEF Overtakes
  <1>4. QED BY <1>2, <1>3

\* Nobody's errand waits with the body when one that has begun its own has it and nothing with it.
LEMMA NothingBehind ==
  ASSUME Overtaken, Overtakes, NEW j \in Jobs, wearer = j, ~Outstanding(j), Live(j),
         Underway(j) \/ DescriptorOf[j] = "tidy-atrium"
  PROVE  /\ \A x \in Jobs : ~Outstanding(x)
  <1>1. SUFFICES ASSUME NEW x \in Jobs, Outstanding(x) PROVE FALSE
    OBVIOUS
  <1>2. x # j /\ Rank(j) < Rank(x)
    BY <1>1, WearerFirst
  <1>3. CASE Underway(j)
    <2>1. Rank(x) < Rank(j)
      BY <1>1, <1>3 DEF Overtakes
    <2>2. Rank(x) \in Int /\ Rank(j) \in Int
      BY Ranks
    <2>3. QED BY <1>2, <2>1, <2>2
  <1>4. CASE DescriptorOf[j] = "tidy-atrium"
    <2>1. Rank(j) = 80 /\ Rank(x) \in {5, 30, 40, 80}
      BY <1>4, Ranks
    <2>2. QED BY <1>2, <2>1
  <1>5. QED BY <1>3, <1>4
-----------------------------------------------------------------------------
(***************************************************************************)
(* The cup.                                                                *)
(***************************************************************************)
InHand(verb) == \E k \in DOMAIN current : current[k].command.verb = verb
InLine(verb) == \E k \in DOMAIN queue : queue[k].command.verb = verb

\* Where the cup is, and that whoever is to deliver it is there, and alone.
CupInv ==
  /\ world.holding = "coffee" <=> world.coffee = "gripper"
  /\ world.machine # "ready" => world.coffee = "coffee-machine" /\ ~Delivering
  /\ world.machine = "ready" /\ world.coffee \notin Desks => Delivering
  /\ OneDelivery
  /\ world.machine # "idle" \/ (\E j \in Of("brew-coffee") : last[j] # "none") => order \in Desks

\* A coffee is set to brew when the last was delivered, and by nobody before another's command; a cup
\* put down is the one held.
BrewInv ==
  /\ InHand("brew") => world.machine # "brewing" /\ ~Delivering
  /\ InLine("brew") => DOMAIN queue = {1} /\ current = <<>> /\ ~Delivering
  /\ InHand("place") => world.coffee = "gripper"

OrderInv == Fifo /\ Overtaken /\ Overtakes /\ CupInv /\ BrewInv

CupStays == UNCHANGED <<world.holding, world.coffee, world.machine>>

\* Nothing of it changes, but that a delivery is over when the coffee is on a desk.
LEMMA CupKept ==
  ASSUME CupInv, CupStays,
         \A i \in Of("deliver-coffee") : Live(i)' => Live(i),
         \A i \in Of("deliver-coffee") : Live(i) => Live(i)' \/ world.coffee \in Desks,
         order' = order \/ order' \in Desks,
         \A i \in Of("brew-coffee") : last'[i] # "none" => last[i] # "none" \/ order' \in Desks
  PROVE  CupInv'
  <1>1. Delivering' => Delivering
    BY DEF Delivering, Of
  <1>2. Delivering => Delivering' \/ world.coffee \in Desks
    BY DEF Delivering, Of
  <1>3. OneDelivery'
    BY DEF CupInv, OneDelivery, Of
  <1>4. world'.machine # "idle" \/ (\E j \in Of("brew-coffee") : last'[j] # "none") => order' \in Desks
    BY DEF CupInv, CupStays
  <1>5. QED BY <1>1, <1>2, <1>3, <1>4 DEF CupInv, CupStays, Of

\* Nor of what is with the body, but that it may be taken from the hand.
LEMMA BrewKept ==
  ASSUME BrewInv, CupStays, Delivering' => Delivering, UNCHANGED queue, current' \in {current, <<>>}
  PROVE  BrewInv'
  <1>1. \A v : InHand(v)' => InHand(v)
    BY Empty DEF InHand
  <1>2. \A v : InLine(v)' <=> InLine(v)
    BY DEF InLine
  <1>3. QED BY <1>1, <1>2 DEF BrewInv, CupStays

-----------------------------------------------------------------------------
(***************************************************************************)
(* The cup and the order of the commands, step by step.                    *)
(***************************************************************************)
MorningInv == BodyInv /\ JobInv /\ OrderInv

\* Nobody is where no cup or delivery can be.
LEMMA NotADesk == "coffee-machine" \notin Desks /\ "gripper" \notin Desks /\ "gripper" \notin Places
  BY BodyAssumption DEF Kitchen, Places

\* Moving, and pressing, leave the cup and the machine alone.
LEMMA CupFields == {"holding", "coffee", "machine"} \subseteq Fields \ {"position", "hotplate"}
  BY DEF Fields

\* The body is given to the most urgent.
LEMMA GrantOrders == ASSUME MorningInv, NEW j \in Jobs, Grant(j) PROVE OrderInv'
  <1>1. /\ wearer = Nobody /\ MostUrgent(j) /\ wearer' = j /\ UNCHANGED <<queue, current, world, unread>>
        /\ UNCHANGED <<pc, saying, last, desk, order>>
    BY DEF Grant, Embodied, jobs
  <1>2. Fifo /\ Overtaken /\ Overtakes /\ CupInv /\ BrewInv /\ CupStays
    BY <1>1 DEF MorningInv, OrderInv, CupStays
  <1>3. \A i : (Outstanding(i)' <=> Outstanding(i)) /\ (Live(i)' <=> Live(i)) /\ (Underway(i)' <=> Underway(i))
    BY <1>1, HandsStill DEF Live, Underway
  <1>4. Overtaken'
    <2>1. SUFFICES ASSUME NEW x \in Jobs, Outstanding(x), x # j PROVE Live(j) /\ Rank(j) < Rank(x)
      BY <1>1, <1>3 DEF Overtaken, Rank
    <2>2. PICK y \in Jobs : Rank(y) < Rank(x) /\ Runnable(y)
      BY <1>1, <2>1, BodyAssumption DEF Overtaken, MorningInv, OrderInv
    <2>3. Rank(j) <= Rank(y) /\ Live(j)
      BY <1>1, <2>2 DEF MostUrgent, Runnable, Live
    <2>4. QED BY <2>2, <2>3, Ranks
  <1>5. QED BY <1>1, <1>2, <1>3, <1>4, HandStays, OvertakesStays, CupKept, BrewKept DEF OrderInv, Of, Delivering

\* ... and taken from one for a more urgent.
LEMMA RevokeOrders == ASSUME MorningInv, NEW j \in Jobs, Revoke(j) PROVE OrderInv'
  <1>1. PICK k \in Jobs : Runnable(k) /\ Rank(k) < Rank(j)
    BY DEF Revoke
  <1>2. Disembodied(j) /\ UNCHANGED <<pc, saying, last, desk, order>>
    BY DEF Revoke, jobs
  <1>3. /\ wearer = j /\ wearer' = Nobody /\ UNCHANGED queue
        /\ \A f \in Fields : f # "position" => world'[f] = world[f]
        /\ \/ Waiting /\ UNCHANGED <<current, world>>
           \/ /\ Answered(j) /\ current # <<>> /\ current[1].job = j /\ current' = <<>>
    BY <1>2, Taken DEF MorningInv
  <1>4. Fifo /\ Overtaken /\ Overtakes /\ CupInv /\ BrewInv /\ BodyInv /\ TurnInv
    BY DEF MorningInv, OrderInv, JobInv
  <1>5. CupStays
    BY <1>3, CupFields DEF CupStays
  <1>6. \A i : (Live(i)' <=> Live(i)) /\ (Underway(i)' <=> Underway(i))
    BY <1>2, <1>5 DEF Live, Underway, CupStays
  <1>7. Fifo' /\ ((\A i \in Jobs : Outstanding(i)' <=> Outstanding(i)) \/ Settling(j))
    <2>1. CASE Waiting /\ UNCHANGED current
      BY <1>3, <1>4, <2>1, HandStays DEF Waiting
    <2>2. CASE Answered(j) /\ current # <<>> /\ current[1].job = j /\ current' = <<>>
      <3>1. Doing(j)
        BY <1>4, <2>2, Hand DEF BodyInv
      <3>2. QED BY <1>3, <1>4, <2>2, <3>1, HandSettles
    <2>3. QED BY <1>3, <2>1, <2>2
  <1>8. \A i \in Jobs : Outstanding(i)' => Outstanding(i)
    BY <1>3 DEF Waiting, Answered
  <1>9. \A b \in Behaviours : unread[b] > 0 => unread'[b] > 0
    BY <1>3, <1>4, Arrived DEF Waiting, Answered, BodyInv, BodyShape
  <1>10. Runnable(k)'
    BY <1>1, <1>2, <1>4, <1>9, NoBirth, RunsOn DEF TurnInv
  <1>11. Live(k)'
    BY <1>10 DEF Runnable, Live
  <1>12. Overtaken'
    <2>1. SUFFICES ASSUME NEW x \in Jobs, Outstanding(x)' PROVE Rank(k) < Rank(x)
      BY <1>3, <1>10, <1>11 DEF Overtaken, Rank
    <2>2. x # j => Rank(j) < Rank(x)
      BY <1>3, <1>4, <1>8, <2>1, WearerFirst
    <2>3. QED BY <1>1, <2>2, Ranks
  <1>13. Overtakes'
    BY <1>4, <1>6, <1>7, OvertakesStays
  <1>14. CupInv' /\ BrewInv'
    BY <1>2, <1>3, <1>4, <1>5, <1>6, CupKept, BrewKept DEF Delivering
  <1>15. QED BY <1>7, <1>12, <1>13, <1>14 DEF OrderInv

\* A token of one that has the body, and does not end it: it asks nothing of the body.
LEMMA TokenOrders ==
  ASSUME MorningInv, NEW j \in Jobs, wearer = j, Live(j), NEW to \in Stages \ {"unborn", "done"},
         pc' = [pc EXCEPT ![j] = to], UNCHANGED <<wearer, queue, current, world>>,
         order' = order \/ order' \in Desks,
         \A i \in Jobs : last'[i] # last[i] => DescriptorOf[i] = "brew-coffee" /\ last'[i] = "tell" /\ order' \in Desks
  PROVE  OrderInv'
  <1>1. Fifo /\ Overtaken /\ Overtakes /\ CupInv /\ BrewInv /\ JobShape
    BY DEF MorningInv, OrderInv, JobInv, TurnInv
  <1>2. \A i \in Jobs : (Live(i)' <=> Live(i)) /\ (Outstanding(i)' <=> Outstanding(i))
    <2>1. \A i \in Jobs : pc'[i] = IF i = j THEN to ELSE pc[i]
      BY <1>1 DEF JobShape
    <2>2. QED BY <2>1, HandsStill DEF Live
  <1>3. \A i \in Jobs : Underway(i)' => Underway(i)
    BY DEF Underway
  <1>4. Fifo'
    BY <1>1, HandStays
  <1>5. Overtaken'
    BY <1>1, <1>2, OvertakenByOwn
  <1>6. Overtakes'
    BY <1>1, <1>2, <1>3, OvertakesStays
  <1>7. CupStays
    BY DEF CupStays
  <1>8. CupInv'
    BY <1>1, <1>2, <1>7, CupKept DEF Of
  <1>9. BrewInv'
    BY <1>1, <1>2, <1>7, BrewKept DEF Delivering, Of
  <1>10. QED BY <1>4, <1>5, <1>6, <1>8, <1>9 DEF OrderInv

\* It decides, tells whom the coffee is for, blocks or reads its answer.
LEMMA TokensOrder ==
  ASSUME MorningInv, NEW j \in Jobs, Decide(j) \/ SayOrder(j) \/ Block(j) \/ ReadAnswer(j)
  PROVE  OrderInv'
  <1>1. BodyInv /\ JobInv
    BY DEF MorningInv
  <1>2. CASE Decide(j)
    <2>1. Becomes(j, "deciding", "speaking") /\ UNCHANGED <<wearer, queue, current, world, last, order>>
      BY <1>2 DEF Decide, body
    <2>2. wearer = j /\ Live(j) /\ pc' = [pc EXCEPT ![j] = "speaking"]
      BY <1>1, <2>1, Token DEF Live
    <2>3. QED BY <2>1, <2>2, TokenOrders DEF Stages
  <1>3. CASE Block(j)
    <2>1. Becomes(j, "listening", "blocked") /\ UNCHANGED <<wearer, queue, current, world, last, order>>
      BY <1>3 DEF Block, body
    <2>2. wearer = j /\ Live(j) /\ pc' = [pc EXCEPT ![j] = "blocked"]
      BY <1>1, <2>1, Token DEF Live
    <2>3. QED BY <2>1, <2>2, TokenOrders DEF Stages
  <1>4. CASE ReadAnswer(j)
    <2>1. PICK from \in {"listening", "blocked"} : Becomes(j, from, "deciding")
      BY <1>4 DEF ReadAnswer
    <2>2. UNCHANGED <<wearer, queue, current, world, last, order>>
      BY <1>4 DEF ReadAnswer, ReadAll
    <2>3. wearer = j /\ Live(j) /\ pc' = [pc EXCEPT ![j] = "deciding"]
      BY <1>1, <2>1, Token DEF Live
    <2>4. QED BY <2>2, <2>3, TokenOrders DEF Stages
  <1>5. CASE SayOrder(j)
    <2>1. /\ Becomes(j, "speaking", "deciding") /\ Says(j) /\ saying[j] = Tell /\ order' = desk[j]
          /\ UNCHANGED <<wearer, queue, current, world>>
      BY <1>5 DEF SayOrder, body
    <2>2. wearer = j /\ Live(j) /\ pc[j] = "speaking" /\ pc' = [pc EXCEPT ![j] = "deciding"]
      BY <1>1, <2>1, Token DEF Live
    <2>3. /\ Spoken(j, "tell") /\ \A i \in Jobs \ {j} : last'[i] = last[i]
          /\ last'[j] = IF DescriptorOf[j] \in BySteps THEN "tell" ELSE last[j]
      BY <1>1, <2>1, <2>2, Said, Verbs
    <2>4. DescriptorOf[j] = "brew-coffee"
      BY <2>3, OfTheFour DEF Spoken
    <2>5. order' \in Desks
      BY <1>1, <2>1, <2>2, <2>4 DEF JobInv, SayInv
    <2>6. QED BY <2>1, <2>2, <2>3, <2>4, <2>5, TokenOrders DEF Stages, BySteps
  <1>6. QED BY <1>2, <1>3, <1>4, <1>5

\* It exits: it leaves nothing behind.
LEMMA ExitOrders == ASSUME MorningInv, NEW j \in Jobs, DecideExit(j) PROVE OrderInv'
  <1>1. /\ Becomes(j, "deciding", "done") /\ Exit \in NextCommands(j) /\ Disembodied(j)
        /\ UNCHANGED <<saying, last, desk, order>>
    BY DEF DecideExit
  <1>2. Fifo /\ Overtaken /\ Overtakes /\ CupInv /\ BrewInv /\ BodyInv /\ JobInv /\ SayInv
    BY DEF MorningInv, OrderInv, JobInv
  <1>3. /\ wearer = j /\ pc[j] = "deciding" /\ pc' = [pc EXCEPT ![j] = "done"] /\ ~Outstanding(j) /\ JobShape
    BY <1>1, <1>2, Token
  <1>4. Live(j)
    BY <1>3 DEF Live
  <1>5. /\ DescriptorOf[j] = "brew-coffee"    => last[j] = "brew"
        /\ DescriptorOf[j] = "smoke-response" => last[j] = "press"
        /\ DescriptorOf[j] = "deliver-coffee" => world.coffee = order
    BY <1>1, <1>2, Decides
  <1>6. DescriptorOf[j] = "deliver-coffee" => world.coffee \in Desks
    <2>1. SUFFICES ASSUME DescriptorOf[j] = "deliver-coffee" PROVE order \in Desks
      BY <1>5
    <2>2. Delivering
      BY <1>4, <2>1 DEF Delivering, Of
    <2>3. world.machine = "ready"
      BY <1>2, <2>2 DEF CupInv
    <2>4. QED BY <1>2, <2>3 DEF CupInv
  <1>7. Underway(j) \/ DescriptorOf[j] = "tidy-atrium"
    BY <1>5, <1>6, NotADesk, OfTheFour DEF Underway
  <1>8. \A x \in Jobs : ~Outstanding(x)
    BY <1>2, <1>3, <1>4, <1>7, NothingBehind
  <1>9. /\ UNCHANGED <<queue, current>> /\ \A f \in Fields : f # "position" => world'[f] = world[f]
    BY <1>1, <1>2, <1>8, Taken DEF Answered
  <1>10. CupStays
    BY <1>9, CupFields DEF CupStays
  <1>11. \A x \in Jobs : ~Outstanding(x)'
    BY <1>8, <1>9, HandsStill
  <1>12. Overtaken' /\ Overtakes' /\ Fifo'
    BY <1>2, <1>9, <1>11, HandStays DEF Overtaken, Overtakes
  <1>13. \A i \in Jobs : (Live(i)' => Live(i)) /\ (Live(i) => Live(i)' \/ i = j)
    BY <1>3 DEF Live, JobShape
  <1>14. CupInv'
    BY <1>1, <1>2, <1>6, <1>10, <1>13, CupKept DEF Of
  <1>15. BrewInv'
    BY <1>2, <1>9, <1>10, <1>13, BrewKept DEF Delivering, Of
  <1>16. QED BY <1>12, <1>14, <1>15 DEF OrderInv

\* It writes a command.  A brewer's is written when nothing else is with the body, and no delivery is
\* there: one that can run is more urgent, one that waits has a command of its own there.
LEMMA SayOrders == ASSUME MorningInv, NEW j \in Jobs, SayCommand(j) PROVE OrderInv'
  <1>1. /\ ~Outstanding(j) /\ wearer = j /\ UNCHANGED <<wearer, current, world, unread>>
        /\ queue' = Append(queue, [job |-> j, command |-> saying[j]])
        /\ saying[j] \in Orders /\ Spoken(j, saying[j].verb) /\ Says(j) /\ pc' = [pc EXCEPT ![j] = "listening"]
        /\ \A i \in Jobs : Outstanding(i)' <=> Outstanding(i) \/ i = j
    BY Commands DEF MorningInv
  <1>2. Becomes(j, "speaking", "listening") /\ UNCHANGED order
    BY DEF SayCommand
  <1>3. Fifo /\ Overtaken /\ Overtakes /\ CupInv /\ BrewInv /\ BodyInv /\ JobInv
    BY DEF MorningInv, OrderInv
  <1>4. pc[j] = "speaking" /\ Settled /\ JobShape /\ Runnable(j)
    BY <1>2, <1>3, Token
  <1>5. MostUrgent(j) /\ Live(j)
    BY <1>2, <1>4 DEF Becomes, Live
  <1>6. \A i \in Jobs : Live(i)' <=> Live(i)
    BY <1>1, <1>4 DEF Live, JobShape
  <1>7. /\ \A i \in Jobs \ {j} : last'[i] = last[i]
        /\ DescriptorOf[j] = "brew-coffee" => last'[j] \in {"tell", "navigate", "brew"}
    BY <1>1, <1>3, <1>4, Said
  <1>8. PICK c \in Orders : c = saying[j]
    BY <1>1
  <1>9. \A x \in Jobs : Outstanding(x) => Rank(j) < Rank(x)
    BY <1>1, <1>3, WearerFirst
  <1>10. Fifo'
    BY <1>1, <1>3, <1>8, <1>9, LineGrows
  <1>11. Overtaken'
    BY <1>1, <1>3, <1>5, <1>6, OvertakenByOwn
  <1>12. Overtakes'
    <2>1. SUFFICES ASSUME NEW x \in Jobs, NEW y \in Jobs, Live(y)', Underway(y)', ~Outstanding(y)', Outstanding(x)'
                   PROVE  Rank(x) < Rank(y)
      BY DEF Overtakes, Rank
    <2>2. y # j /\ ~Outstanding(y) /\ Live(y) /\ Underway(y)
      BY <1>1, <1>6, <1>7, <2>1 DEF Underway
    <2>3. CASE x = j
      <3>1. Runnable(y)
        BY <1>3, <2>2, UnderwayRuns DEF CupInv
      <3>2. Rank(j) <= Rank(y) /\ Rank(j) # Rank(y)
        BY <1>3, <1>4, <1>5, <2>2, <3>1, OneMostUrgent DEF MostUrgent
      <3>3. Rank(j) \in Int /\ Rank(y) \in Int
        BY Ranks
      <3>4. QED BY <2>3, <3>2, <3>3
    <2>4. CASE x # j
      BY <1>1, <1>3, <2>1, <2>2, <2>4 DEF Overtakes
    <2>5. QED BY <2>3, <2>4
  <1>13. CupStays /\ (Delivering' <=> Delivering)
    BY <1>1, <1>6 DEF CupStays, Delivering, Of
  <1>14. CupInv'
    <2>1. \A i \in Of("brew-coffee") : last'[i] # "none" => last[i] # "none" \/ order \in Desks
      <3>1. SUFFICES ASSUME DescriptorOf[j] = "brew-coffee", last[j] = "none" PROVE FALSE
        BY <1>7 DEF Of
      <3>2. saying[j].verb = "tell"
        BY <1>1, <3>1 DEF Spoken
      <3>3. QED BY <1>1, <3>2, Verbs
    <2>2. QED BY <1>2, <1>3, <1>6, <1>13, <2>1, CupKept DEF Of
  <1>15. BrewInv'
    <2>1. \A v : InHand(v)' <=> InHand(v)
      BY <1>1 DEF InHand
    <2>2. ~InLine("brew")
      <3>1. SUFFICES ASSUME InLine("brew") PROVE FALSE
        OBVIOUS
      <3>2. DOMAIN queue = {1} /\ current = <<>>
        BY <1>3, <3>1 DEF BrewInv
      <3>3. QED BY <1>4, <3>2, Empty DEF Settled
    <2>3. ASSUME InLine("brew")' PROVE DOMAIN queue' = {1} /\ current' = <<>> /\ ~Delivering'
      <3>1. /\ DOMAIN queue = 1 .. Len(queue) /\ Len(queue) \in Nat /\ DOMAIN queue' = 1 .. Len(queue) + 1
            /\ \A k \in DOMAIN queue : queue'[k] = queue[k]
            /\ queue'[Len(queue) + 1].command = c
        BY <1>1, <1>3, <1>8, Enqueued
      <3>2. \A k \in DOMAIN queue' : k \in DOMAIN queue \/ k = Len(queue) + 1
        BY <3>1
      <3>3. c.verb = "brew"
        BY <2>2, <2>3, <3>1, <3>2 DEF InLine
      <3>4. DescriptorOf[j] = "brew-coffee" /\ last[j] = "navigate"
        BY <1>1, <1>8, <3>3, OfTheFour DEF Spoken
      <3>5. \A x \in Jobs : ~Outstanding(x)
        BY <1>1, <1>3, <1>5, <3>4, NothingBehind DEF Underway
      <3>6. current = <<>>
        BY <1>3, <3>5, Hand DEF BodyInv, Outstanding, ActionFits
      <3>7. queue = <<>>
        BY <1>4, <3>6 DEF Settled
      <3>8. DOMAIN queue' = {1}
        BY <3>1, <3>7
      <3>9. ~Delivering
        <4>1. SUFFICES ASSUME NEW y \in Of("deliver-coffee"), Live(y) PROVE FALSE
          BY DEF Delivering
        <4>2. y \in Jobs /\ DescriptorOf[y] = "deliver-coffee" /\ ~Outstanding(y)
          BY <3>5 DEF Of
        <4>3. \A k \in Of("deliver-coffee") : k < y => ~Live(k)
          <5>1. SUFFICES ASSUME NEW k \in Of("deliver-coffee"), k < y, Live(k) PROVE FALSE
            OBVIOUS
          <5>2. k = y
            BY <1>3, <4>1, <5>1 DEF CupInv, OneDelivery
          <5>3. QED BY <4>2, <5>1, <5>2, AtriumAssumption
        <4>4. pc[y] \in Stages /\ (pc[y] = "blocked" => unread["deliver-coffee"] > 0)
          BY <1>3, <1>4, <4>2 DEF JobShape, JobInv, TurnInv, WaitsInv, Waits
        <4>5. Runnable(y)
          BY <4>1, <4>2, <4>3, <4>4 DEF Runnable, Live, Stages
        <4>6. Rank(j) <= Rank(y) /\ Rank(j) = 40 /\ Rank(y) = 30
          BY <1>5, <3>4, <4>2, <4>5, Ranks DEF MostUrgent
        <4>7. QED BY <4>6
      <3>10. QED BY <1>1, <1>13, <3>6, <3>8, <3>9
    <2>4. QED BY <1>3, <1>13, <2>1, <2>3 DEF BrewInv, CupStays
  <1>16. QED BY <1>10, <1>11, <1>12, <1>14, <1>15 DEF OrderInv

\* The first command begins, or is answered.
LEMMA BeginOrders == ASSUME MorningInv, Begin PROVE OrderInv'
  <1>1. Start /\ UNCHANGED <<pc, saying, last, desk, order>>
    BY DEF Begin, jobs
  <1>2. Fifo /\ Overtaken /\ Overtakes /\ CupInv /\ BrewInv /\ BodyInv /\ TurnInv
    BY DEF MorningInv, OrderInv, JobInv
  <1>3. /\ UNCHANGED <<wearer, world>> /\ current = <<>> /\ queue # <<>> /\ queue' = Tail(queue)
        /\ \/ Answered(queue[1].job) /\ UNCHANGED current
           \/ /\ Waiting /\ Can(queue[1].command)
              /\ \E a : current' = <<a>> /\ a.command = queue[1].command
    BY <1>1, <1>2, Started
  <1>4. Fifo' /\ ((\A i \in Jobs : Outstanding(i)' <=> Outstanding(i)) \/ \E z \in Jobs : Settling(z))
    BY <1>1, <1>2, LineSettles
  <1>5. \A i : (Live(i)' <=> Live(i)) /\ (Underway(i)' <=> Underway(i))
    BY <1>1, <1>3 DEF Live, Underway
  <1>6. \A i \in Jobs : Outstanding(i)' => Outstanding(i)
    BY <1>3 DEF Waiting, Answered
  <1>7. \A b \in Behaviours : unread[b] > 0 => unread'[b] > 0
    BY <1>2, <1>3, Arrived DEF Waiting, Answered, BodyInv, BodyShape
  <1>8. Overtaken'
    BY <1>1, <1>2, <1>3, <1>6, <1>7, NoBirth, OvertakenStays DEF TurnInv
  <1>9. Overtakes'
    BY <1>2, <1>4, <1>5, OvertakesStays
  <1>10. CupStays /\ (Delivering' <=> Delivering)
    BY <1>3, <1>5 DEF CupStays, Delivering
  <1>11. CupInv'
    BY <1>1, <1>2, <1>5, <1>10, CupKept
  <1>12. BrewInv'
    <2>1. /\ 1 \in DOMAIN queue /\ DOMAIN queue' = 1 .. Len(queue) - 1 /\ DOMAIN queue = 1 .. Len(queue)
          /\ Len(queue) \in Nat \ {0}
          /\ \A k \in DOMAIN queue' : queue'[k] = queue[k + 1] /\ k + 1 \in DOMAIN queue
      BY <1>2, <1>3, Dequeued
    <2>2. ~InLine("brew")'
      <3>1. SUFFICES ASSUME NEW k \in DOMAIN queue', queue'[k].command.verb = "brew" PROVE FALSE
        BY DEF InLine
      <3>2. k + 1 \in DOMAIN queue /\ InLine("brew") /\ k + 1 # 1
        BY <2>1, <3>1 DEF InLine
      <3>3. QED BY <1>2, <3>2 DEF BrewInv
    <2>3. \A v : InHand(v)' => v = queue[1].command.verb /\ Can(queue[1].command)
      <3>1. CASE UNCHANGED current
        BY <1>3, <3>1, Empty DEF InHand
      <3>2. ASSUME NEW a, current' = <<a>>, a.command = queue[1].command, Can(queue[1].command)
            PROVE  \A v : InHand(v)' => v = queue[1].command.verb /\ Can(queue[1].command)
        <4>1. DOMAIN current' = {1} /\ current'[1] = a
          BY <3>2
        <4>2. QED BY <3>2, <4>1 DEF InHand
      <3>3. QED BY <1>3, <3>1, <3>2
    <2>4. InHand("brew")' => world.machine # "brewing" /\ ~Delivering
      <3>1. SUFFICES ASSUME queue[1].command.verb = "brew", Can(queue[1].command)
                     PROVE  world.machine # "brewing" /\ ~Delivering
        BY <2>3
      <3>2. InLine("brew")
        BY <2>1, <3>1 DEF InLine
      <3>3. QED BY <1>2, <3>1, <3>2 DEF BrewInv, Can
    <2>5. InHand("place")' => world.coffee = "gripper"
      <3>1. SUFFICES ASSUME queue[1].command.verb = "place", Can(queue[1].command)
                     PROVE  world.coffee = "gripper"
        BY <2>3
      <3>2. QED BY <1>2, <3>1 DEF CupInv, Can
    <2>6. QED BY <1>10, <2>2, <2>4, <2>5 DEF BrewInv, CupStays
  <1>13. QED BY <1>4, <1>8, <1>9, <1>11, <1>12 DEF OrderInv

\* The coffee is ready, and its delivery is there, the only one.
LEMMA ReadyCup ==
  ASSUME JobInv, CupInv, world.machine = "brewing", pc' = Spawned("deliver-coffee"),
         UNCHANGED <<last, order, world.holding, world.coffee>>, world'.machine = "ready"
  PROVE  /\ CupInv' /\ Births
         /\ \A y \in Jobs : Live(y)' /\ Underway(y)' => Live(y) /\ Underway(y)
  <1>1. Unborn("deliver-coffee") # {} /\ JobShape /\ Births
    BY RoomForOne, Delivers DEF JobInv, TurnInv
  <1>2. PICK m \in Of("deliver-coffee") : pc'[m] = "deciding" /\ \A i \in Jobs \ {m} : pc'[i] = pc[i]
    BY <1>1, Spawns
  <1>3. ~Delivering /\ world.coffee = "coffee-machine" /\ order \in Desks
    BY DEF CupInv
  <1>4. \A i \in Of("deliver-coffee") : Live(i)' <=> i = m
    BY <1>2, <1>3 DEF Delivering, Live, Of
  <1>5. Delivering' /\ OneDelivery'
    BY <1>4 DEF Delivering, OneDelivery, Of
  <1>6. CupInv'
    BY <1>3, <1>5 DEF CupInv
  <1>7. ASSUME NEW y \in Jobs, Live(y)', Underway(y)' PROVE Live(y) /\ Underway(y)
    <2>1. DescriptorOf[y] # "deliver-coffee" /\ Underway(y)
      BY <1>3, <1>7 DEF Underway
    <2>2. y # m
      BY <2>1 DEF Of
    <2>3. QED BY <1>2, <1>7, <2>1, <2>2 DEF Live
  <1>8. QED BY <1>1, <1>6, <1>7

\* The machine falls due by itself.
LEMMA BrewedOrders == ASSUME MorningInv, Brewed PROVE OrderInv'
  <1>1. CoffeeReady /\ pc' = Spawned("deliver-coffee") /\ UNCHANGED <<last, order>>
    BY DEF Brewed
  <1>2. Fifo /\ Overtaken /\ Overtakes /\ CupInv /\ BrewInv /\ BodyInv /\ JobInv /\ TurnInv
    BY DEF MorningInv, OrderInv, JobInv
  <1>3. /\ Waiting /\ UNCHANGED <<wearer, queue, current>> /\ Settled
        /\ world.machine = "brewing" /\ world'.machine = "ready"
        /\ \A f \in Fields : f # "machine" => world'[f] = world[f]
    BY <1>1, <1>2, Around DEF CoffeeReady
  <1>4. UNCHANGED <<world.holding, world.coffee>>
    BY <1>3, CupFields
  <1>5. /\ CupInv' /\ Births
        /\ \A y \in Jobs : Live(y)' /\ Underway(y)' => Live(y) /\ Underway(y)
    BY <1>1, <1>2, <1>3, <1>4, ReadyCup
  <1>6. Fifo' /\ Overtaken' /\ Overtakes'
    BY <1>2, <1>3, <1>5, HandStays, OvertakenStays, OvertakesStays DEF Waiting
  <1>7. BrewInv'
    <2>1. ~InLine("brew")
      <3>1. SUFFICES ASSUME InLine("brew") PROVE FALSE
        OBVIOUS
      <3>2. DOMAIN queue = {1} /\ current = <<>>
        BY <1>2, <3>1 DEF BrewInv
      <3>3. QED BY <1>3, <3>2, Empty DEF Settled
    <2>2. ~InHand("brew")
      BY <1>2, <1>3 DEF BrewInv
    <2>3. \A v : (InHand(v)' <=> InHand(v)) /\ (InLine(v)' <=> InLine(v))
      BY <1>3 DEF InHand, InLine
    <2>4. QED BY <1>2, <1>4, <2>1, <2>2, <2>3 DEF BrewInv
  <1>8. QED BY <1>5, <1>6, <1>7 DEF OrderInv

\* What is in hand is done: the cup goes with it.
LEMMA FinishOrders == ASSUME MorningInv, Finish PROVE OrderInv'
  <1>1. PICK ready \in BOOLEAN : Complete(ready) /\ pc' = IF ready THEN Spawned("deliver-coffee") ELSE pc
    BY DEF Finish
  <1>2. UNCHANGED <<last, order>>
    BY DEF Finish
  <1>3. Fifo /\ Overtaken /\ Overtakes /\ CupInv /\ BrewInv /\ BodyInv /\ JobInv /\ TurnInv /\ AskedInv
    BY DEF MorningInv, OrderInv, JobInv
  <1>4. PICK x, a, verb : x = current[1].job /\ a = current[1] /\ verb = a.command.verb
    OBVIOUS
  <1>5. /\ Answered(x) /\ UNCHANGED <<wearer, queue>> /\ current # <<>> /\ current' = <<>>
        /\ ready => world.machine = "brewing"
        /\ \A f \in DOMAIN a.outcome : world'[f] = a.outcome[f]
        /\ \A f \in Fields \ DOMAIN a.outcome : world'[f] = IF ready /\ f = "machine" THEN "ready" ELSE world[f]
    BY <1>1, <1>3, <1>4, Done
  <1>6. /\ DOMAIN current = {1} /\ ActionFits(a) /\ x \in Jobs /\ Doing(x)
        /\ CupLeft(verb, a.outcome)
    BY <1>3, <1>4, <1>5, Hand DEF BodyInv, ActionFits
  <1>7. InHand(verb) /\ Holds(verb, x) /\ Live(x)
    <2>1. Outstanding(x) /\ Waits(x)
      BY <1>3, <1>5 DEF Answered, TurnInv, WaitsInv
    <2>2. QED BY <1>4, <1>6, <2>1 DEF InHand, Holds, Waits, Live
  <1>8. Settling(x) /\ Fifo'
    BY <1>3, <1>5, <1>6, HandSettles
  <1>9. \A b \in Behaviours : unread[b] > 0 => unread'[b] > 0
    BY <1>3, <1>5, Arrived DEF Answered, BodyInv, BodyShape
  <1>10. Births => Overtaken'
    <2>1. \A i \in Jobs : Outstanding(i)' => Outstanding(i)
      BY <1>5 DEF Answered
    <2>2. QED BY <1>3, <1>5, <1>9, <2>1, OvertakenStays
  <1>11. BrewInv'
    <2>1. \A v : ~InHand(v)' /\ (InLine(v)' <=> InLine(v))
      BY <1>5, Empty DEF InHand, InLine
    <2>2. ~InLine("brew")
      BY <1>3, <1>5 DEF BrewInv
    <2>3. QED BY <2>1, <2>2 DEF BrewInv
  <1>12. SUFFICES /\ CupInv' /\ Births
                  /\ \A y \in Jobs : Live(y)' /\ Underway(y)' => (Live(y) /\ Underway(y)) \/ Settling(y)
    BY <1>3, <1>6, <1>8, <1>10, <1>11, OvertakesStays DEF OrderInv
  <1>13. CASE verb = "brew"
    <2>1. world.machine # "brewing" /\ ~Delivering /\ ~ready
      BY <1>3, <1>5, <1>7, <1>13 DEF BrewInv
    <2>2. DescriptorOf[x] = "brew-coffee" /\ last[x] = "brew"
      BY <1>3, <1>6, <1>7, <1>13 DEF AskedInv
    <2>3. order \in Desks
      BY <1>3, <1>6, <2>2 DEF CupInv, Of
    <2>4. DOMAIN a.outcome = {"machine", "coffee"}
          /\ a.outcome["machine"] = "brewing" /\ a.outcome["coffee"] = "coffee-machine"
      BY <1>6, <1>13 DEF CupLeft
    <2>5. world'.machine = "brewing" /\ world'.coffee = "coffee-machine" /\ world'.holding = world.holding
      BY <1>5, <2>1, <2>4, CupFields
    <2>6. world.holding # "coffee"
      BY <1>3, <2>1, NotADesk DEF CupInv
    <2>7. UNCHANGED pc /\ Births
      BY <1>1, <1>3, <2>1, NoBirth DEF TurnInv
    <2>8. (Delivering' <=> Delivering) /\ OneDelivery'
      BY <1>3, <2>7 DEF CupInv, OneDelivery, Delivering, Live, Of
    <2>9. CupInv'
      BY <1>2, <2>1, <2>3, <2>5, <2>6, <2>8 DEF CupInv
    <2>10. \A y \in Jobs : Live(y)' /\ Underway(y)' => Live(y) /\ Underway(y)
      BY <1>2, <2>5, <2>7 DEF Live, Underway
    <2>11. QED BY <2>7, <2>9, <2>10
  <1>14. CASE verb = "pick"
    <2>1. DescriptorOf[x] = "deliver-coffee" /\ x \in Of("deliver-coffee") /\ Delivering
      BY <1>3, <1>6, <1>7, <1>14 DEF AskedInv, Of, Delivering
    <2>2. world.machine = "ready" /\ ~ready
      BY <1>3, <1>5, <2>1 DEF CupInv
    <2>3. DOMAIN a.outcome = {"holding", "coffee"}
          /\ a.outcome["holding"] = "coffee" /\ a.outcome["coffee"] = "gripper"
      BY <1>6, <1>14 DEF CupLeft
    <2>4. world'.holding = "coffee" /\ world'.coffee = "gripper" /\ world'.machine = "ready"
      BY <1>5, <2>2, <2>3, CupFields
    <2>5. UNCHANGED pc /\ Births
      BY <1>1, <1>3, <2>2, NoBirth DEF TurnInv
    <2>6. Delivering' /\ OneDelivery'
      BY <1>3, <2>1, <2>5 DEF CupInv, OneDelivery, Delivering, Live, Of
    <2>7. CupInv'
      BY <1>2, <1>3, <2>2, <2>4, <2>6 DEF CupInv
    <2>8. ASSUME NEW y \in Jobs, Live(y)', Underway(y)' PROVE (Live(y) /\ Underway(y)) \/ Settling(y)
      <3>1. Live(y)
        BY <2>5, <2>8 DEF Live
      <3>2. CASE DescriptorOf[y] = "deliver-coffee"
        <4>1. y = x
          BY <1>3, <1>7, <2>1, <3>1, <3>2 DEF CupInv, OneDelivery, Of
        <4>2. QED BY <1>8, <4>1
      <3>3. CASE DescriptorOf[y] # "deliver-coffee"
        BY <1>2, <2>8, <3>1, <3>3 DEF Underway
      <3>4. QED BY <3>2, <3>3
    <2>9. QED BY <2>5, <2>7, <2>8
  <1>15. CASE verb = "place"
    <2>1. world.coffee = "gripper"
      BY <1>3, <1>7, <1>15 DEF BrewInv
    <2>2. world.machine = "ready" /\ ~ready /\ Delivering
      BY <1>3, <1>5, <2>1, NotADesk DEF CupInv
    <2>3. PICK p \in Places : a.outcome = [holding |-> "nothing", coffee |-> p]
      BY <1>6, <1>15 DEF CupLeft
    <2>4. DOMAIN a.outcome = {"holding", "coffee"}
          /\ a.outcome["holding"] = "nothing" /\ a.outcome["coffee"] = p
      BY <2>3
    <2>5. world'.holding = "nothing" /\ world'.coffee = p /\ p # "gripper" /\ world'.machine = "ready"
      BY <1>5, <2>2, <2>4, CupFields, NotADesk
    <2>6. UNCHANGED pc /\ Births
      BY <1>1, <1>3, <2>2, NoBirth DEF TurnInv
    <2>7. Delivering' /\ OneDelivery'
      BY <1>3, <2>2, <2>6 DEF CupInv, OneDelivery, Delivering, Live, Of
    <2>8. CupInv'
      BY <1>2, <1>3, <2>2, <2>5, <2>7 DEF CupInv
    <2>9. \A y \in Jobs : Live(y)' /\ Underway(y)' => Live(y) /\ Underway(y)
      BY <1>2, <2>1, <2>6 DEF Live, Underway
    <2>10. QED BY <2>6, <2>8, <2>9
  <1>16. CASE verb \notin {"brew", "pick", "place"}
    <2>1. DOMAIN a.outcome \cap {"holding", "coffee", "machine"} = {}
      BY <1>6, <1>16 DEF CupLeft
    <2>2. /\ world'.holding = world.holding /\ world'.coffee = world.coffee
          /\ world'.machine = IF ready THEN "ready" ELSE world.machine
      BY <1>5, <2>1, CupFields
    <2>3. CASE ready
      BY <1>1, <1>2, <1>3, <1>5, <2>2, <2>3, ReadyCup
    <2>4. CASE ~ready
      <3>1. UNCHANGED pc /\ Births
        BY <1>1, <1>3, <2>4, NoBirth DEF TurnInv
      <3>2. CupStays
        BY <2>2, <2>4 DEF CupStays
      <3>3. CupInv'
        BY <1>2, <1>3, <3>1, <3>2, CupKept DEF Live
      <3>4. \A y \in Jobs : Live(y)' /\ Underway(y)' => Live(y) /\ Underway(y)
        BY <1>2, <2>2, <3>1 DEF Live, Underway
      <3>5. QED BY <3>1, <3>3, <3>4
    <2>5. QED BY <2>3, <2>4
  <1>17. QED BY <1>13, <1>14, <1>15, <1>16

\* The people in the room give the body no command, and bring no delivery.
LEMMA PeopleOrder == ASSUME MorningInv, People PROVE OrderInv'
  <1>1. Fifo /\ Overtaken /\ Overtakes /\ CupInv /\ BrewInv /\ BodyInv /\ JobInv /\ TurnInv /\ JobShape
    BY DEF MorningInv, OrderInv, JobInv, TurnInv
  <1>2. UNCHANGED <<last, order>>
    BY DEF People, OrderCoffee, Alarm, Mess, Light, jobs
  <1>3. Waiting /\ UNCHANGED <<wearer, queue, current>> /\ CupStays
    <2>1. CASE SetTable
      BY <1>1, <2>1, Around DEF CupStays
    <2>2. CASE TurnHotplateOn
      BY <1>1, <2>2, CupFields, Around DEF CupStays
    <2>3. CASE UNCHANGED body
      BY <2>3, HandsStill DEF body, Waiting, CupStays
    <2>4. QED BY <2>1, <2>2, <2>3 DEF People, OrderCoffee, Alarm, Mess, Light
  <1>4. \/ UNCHANGED pc
        \/ \E b \in {"tidy-atrium", "brew-coffee", "smoke-response"} : Unborn(b) # {} /\ pc' = Spawned(b)
    BY DEF People, OrderCoffee, Alarm, Mess, Light, jobs
  <1>5. Births /\ \A i \in Of("deliver-coffee") : pc'[i] = pc[i]
    <2>1. CASE UNCHANGED pc
      BY <1>1, <2>1, NoBirth
    <2>2. ASSUME NEW b \in {"tidy-atrium", "brew-coffee", "smoke-response"}, Unborn(b) # {}, pc' = Spawned(b)
          PROVE  Births /\ \A i \in Of("deliver-coffee") : pc'[i] = pc[i]
      <3>1. \A i \in Of("deliver-coffee") : i \in Jobs \ Of(b)
        BY <2>2 DEF Of
      <3>2. QED BY <1>1, <2>2, <3>1, BirthOf
    <2>3. QED BY <1>4, <2>1, <2>2
  <1>6. ASSUME NEW y \in Jobs, Live(y)', Underway(y)' PROVE Live(y) /\ Underway(y)
    <2>1. Underway(y)
      BY <1>2, <1>3, <1>6 DEF Underway, CupStays
    <2>2. pc'[y] = pc[y]
      <3>1. pc[y] = "unborn" => last[y] = "none"
        BY <1>1 DEF JobShape
      <3>2. QED BY <1>5, <2>1, <3>1 DEF Births, Underway, Of
    <2>3. QED BY <1>6, <2>1, <2>2 DEF Live
  <1>7. Fifo' /\ Overtaken' /\ Overtakes'
    BY <1>1, <1>3, <1>5, <1>6, HandStays, OvertakenStays, OvertakesStays DEF Waiting
  <1>8. \A i \in Of("deliver-coffee") : Live(i)' <=> Live(i)
    BY <1>5 DEF Live
  <1>9. CupInv' /\ BrewInv'
    BY <1>1, <1>2, <1>3, <1>8, CupKept, BrewKept DEF Delivering, Of
  <1>10. QED BY <1>7, <1>9 DEF OrderInv

\* Nothing happens.
LEMMA NothingOrders == ASSUME MorningInv, UNCHANGED vars PROVE OrderInv'
  <1>1. UNCHANGED <<pc, last, order, wearer, queue, current, world, unread>>
    BY DEF vars, body, jobs
  <1>2. Fifo /\ Overtaken /\ Overtakes /\ CupInv /\ BrewInv /\ TurnInv /\ CupStays /\ Births
    BY <1>1, NoBirth DEF MorningInv, OrderInv, JobInv, TurnInv, CupStays
  <1>3. \A i : (Outstanding(i)' <=> Outstanding(i)) /\ (Live(i)' <=> Live(i)) /\ (Underway(i)' <=> Underway(i))
    BY <1>1, HandsStill DEF Live, Underway
  <1>4. Fifo' /\ Overtaken' /\ Overtakes'
    BY <1>1, <1>2, <1>3, HandStays, OvertakenStays, OvertakesStays
  <1>5. CupInv' /\ BrewInv'
    BY <1>1, <1>2, <1>3, CupKept, BrewKept DEF Delivering
  <1>6. QED BY <1>4, <1>5 DEF OrderInv

\* Every step of a morning keeps the order of the commands, and the cup.
LEMMA OrderStep == ASSUME MorningInv, [Next]_vars PROVE OrderInv'
  <1>1. CASE Lease
    BY <1>1, GrantOrders, RevokeOrders DEF Lease
  <1>2. CASE Behave
    BY <1>2, TokensOrder, ExitOrders, SayOrders DEF Behave
  <1>3. QED BY <1>1, <1>2, FinishOrders, BrewedOrders, BeginOrders, PeopleOrder, NothingOrders DEF Next, System

\* A morning begins with nothing ordered and the cup under the spout.
LEMMA OrderInit == ASSUME Init PROVE OrderInv
  <1>1. /\ InitBody /\ last = [j \in Jobs |-> "none"]
        /\ pc = [j \in Jobs |-> IF j = Min(Of("tidy-atrium")) THEN "deciding" ELSE "unborn"]
    BY DEF Init
  <1>2. /\ queue = <<>> /\ current = <<>> /\ world.holding = "nothing"
        /\ world.coffee = "coffee-machine" /\ world.machine = "idle"
    BY <1>1 DEF InitBody
  <1>3. \A i \in Jobs : ~Outstanding(i) /\ ~Doing(i)
    BY <1>2, Empty DEF Outstanding, Doing, Queued
  <1>4. Fifo /\ Overtaken /\ Overtakes
    BY <1>2, <1>3, Empty DEF Fifo, Overtaken, Overtakes
  <1>5. \A i \in Of("deliver-coffee") : ~Live(i)
    <2>1. SUFFICES ASSUME NEW i \in Of("deliver-coffee"), i = Min(Of("tidy-atrium")) PROVE FALSE
      BY <1>1 DEF Live, Of
    <2>2. Of("tidy-atrium") \subseteq Jobs /\ Of("tidy-atrium") # {}
      BY AtriumAssumption DEF Of
    <2>3. i \in Of("tidy-atrium")
      BY <2>1, <2>2, First
    <2>4. QED BY <2>1, <2>3 DEF Of
  <1>6. CupInv
    BY <1>1, <1>2, <1>5 DEF CupInv, Delivering, OneDelivery, Of
  <1>7. BrewInv
    BY <1>2, Empty DEF BrewInv, InHand, InLine
  <1>8. QED BY <1>4, <1>6, <1>7 DEF OrderInv

\* No coffee is set to brew over one that is not yet on its desk, nor one taken for another on the way
\* there (vla.py:252, story.py): the machine brews when nothing but an errand to it is with the body.
THEOREM NoCupIsLost == Spec => []OneCup
  <1>1. ASSUME MorningInv PROVE OneCup
    <2>1. CupInv /\ BrewInv
      BY <1>1 DEF MorningInv, OrderInv
    <2>2. ASSUME NEW k \in DOMAIN current, current[k].command = Brew, world.machine = "ready"
          PROVE  world.coffee \in Desks
      <3>1. InHand("brew")
        BY <2>2, Verbs DEF InHand
      <3>2. QED BY <2>1, <2>2, <3>1 DEF CupInv, BrewInv
    <2>3. QED BY <2>1, <2>2 DEF OneCup, CupInv
  <1>2. Init => MorningInv
    BY BodyInit, JobInit, OrderInit DEF Init, MorningInv
  <1>3. MorningInv /\ [Next]_vars => MorningInv'
    BY BodyOfMorning, BodyStep, JobStep, OrderStep DEF MorningInv
  <1>4. QED BY <1>1, <1>2, <1>3, PTL DEF Spec

-----------------------------------------------------------------------------
(***************************************************************************)
(* The morning's types: a command is one the body knows, and a coffee is   *)
(* carried to a desk.                                                      *)
(***************************************************************************)
StoryShape ==
  /\ saying \in [Jobs -> Orders \cup {Tell, Nothing}]
  /\ desk \in [Jobs -> Desks \cup {""}] /\ order \in Desks \cup {"none"}
  /\ deeds \in 0 .. MaxDeeds /\ delivered \subseteq Desks
  /\ relit \in BOOLEAN /\ leaving \in BOOLEAN /\ crossed \in BOOLEAN

\* Whatever one decides, the body knows it: a delivery that lives has a desk to go to.
LEMMA DecidesOrders ==
  ASSUME MorningInv, StoryShape, NEW j \in Jobs, Live(j)
  PROVE  NextCommands(j) \ {Exit} \subseteq Orders \cup {Tell}
  <1>1. BodyShape /\ SayInv /\ CupInv
    BY DEF MorningInv, BodyInv, JobInv, OrderInv
  <1>2. world.position \in Places /\ world.coffee \in Places \cup {"gripper"} /\ world.table \subseteq Items
    BY <1>1, Room DEF BodyShape
  <1>3. /\ \A p \in Places : Navigate(p) \in Orders
        /\ \A i \in Items, c \in Containers : Put(i, c) \in Orders
        /\ Pick \in Orders /\ Place \in Orders /\ Brew \in Orders /\ Press \in Orders
    BY DEF Orders
  <1>4. "coffee-machine" \in Places /\ "hotplate" \in Places /\ Desks \subseteq Places
    BY DEF Places
  <1>5. CASE DescriptorOf[j] = "tidy-atrium"
    <2>1. \A i \in world.table : Put(i, ContainerFor[i]) \in Orders
      BY <1>2, <1>3, AtriumAssumption
    <2>2. QED BY <1>5, <2>1 DEF NextCommands, TidyNext
  <1>6. CASE DescriptorOf[j] = "brew-coffee"
    <2>1. last[j] \in {"none", "tell", "navigate", "brew"} /\ NextCommands(j) = BrewNext(j)
      BY <1>1, <1>6 DEF SayInv, NextCommands
    <2>2. /\ last[j] = "none" => BrewNext(j) = {Tell}
          /\ last[j] = "tell" => BrewNext(j) = {Navigate("coffee-machine")}
          /\ last[j] = "navigate" => BrewNext(j) = {Brew}
          /\ last[j] = "brew" => BrewNext(j) = {Exit}
      BY DEF BrewNext
    <2>3. QED BY <1>3, <1>4, <2>1, <2>2
  <1>7. CASE DescriptorOf[j] = "deliver-coffee"
    <2>1. order \in Places
      <3>1. Delivering
        BY <1>7 DEF Delivering, Of
      <3>2. order \in Desks
        BY <1>1, <3>1 DEF CupInv
      <3>3. QED BY <1>4, <3>2
    <2>2. NextCommands(j) = DeliverNext
      BY <1>7 DEF NextCommands
    <2>3. QED BY <1>2, <1>3, <2>1, <2>2 DEF DeliverNext
  <1>8. CASE DescriptorOf[j] = "smoke-response"
    <2>1. NextCommands(j) = SmokeNext(j)
      BY <1>8 DEF NextCommands
    <2>2. QED BY <1>3, <1>4, <2>1 DEF SmokeNext
  <1>9. QED BY <1>5, <1>6, <1>7, <1>8, OfTheFour

\* Every step of a morning keeps what the jobs say, and the story's history, of their types.
LEMMA StoryStep == ASSUME MorningInv, StoryShape, [Next]_vars PROVE StoryShape'
  <1>1. /\ saying \in [Jobs -> Orders \cup {Tell, Nothing}] /\ desk \in [Jobs -> Desks \cup {""}]
        /\ order \in Desks \cup {"none"} /\ deeds \in 0 .. MaxDeeds /\ delivered \subseteq Desks
        /\ relit \in BOOLEAN /\ leaving \in BOOLEAN /\ crossed \in BOOLEAN
    BY DEF StoryShape
  <1>2. BodyInv /\ JobInv /\ SayInv /\ JobShape
    BY DEF MorningInv, JobInv, TurnInv
  <1>3. ASSUME NEW j \in Jobs, Decide(j) PROVE StoryShape'
    <2>1. PICK c \in NextCommands(j) \ {Exit} : saying' = [saying EXCEPT ![j] = c]
      BY <1>3 DEF Decide
    <2>2. Live(j)
      BY <1>3 DEF Decide, Becomes, Live
    <2>3. c \in Orders \cup {Tell}
      BY <2>1, <2>2, DecidesOrders
    <2>4. saying' \in [Jobs -> Orders \cup {Tell, Nothing}]
      BY <1>1, <2>1, <2>3
    <2>5. UNCHANGED <<desk, order, deeds, delivered, relit, leaving, crossed>>
      BY <1>3 DEF Decide, story
    <2>6. QED BY <1>1, <2>4, <2>5 DEF StoryShape
  <1>4. ASSUME NEW j \in Jobs, SayOrder(j) \/ SayCommand(j) PROVE StoryShape'
    <2>1. Says(j)
      BY <1>4 DEF SayOrder, SayCommand
    <2>2. saying' = [saying EXCEPT ![j] = Nothing] /\ UNCHANGED <<desk, deeds, delivered, relit, leaving, crossed>>
      BY <2>1 DEF Says, story
    <2>3. saying' \in [Jobs -> Orders \cup {Tell, Nothing}]
      BY <1>1, <2>2
    <2>4. order' \in Desks \cup {"none"}
      <3>1. CASE SayCommand(j)
        BY <1>1, <3>1 DEF SayCommand
      <3>2. CASE SayOrder(j)
        <4>1. saying[j] = Tell /\ pc[j] = "speaking" /\ order' = desk[j]
          BY <3>2 DEF SayOrder, Becomes
        <4>2. DescriptorOf[j] = "brew-coffee"
          BY <1>2, <4>1, Verbs, OfTheFour DEF SayInv, Spoken
        <4>3. QED BY <1>2, <4>1, <4>2 DEF SayInv
      <3>3. QED BY <1>4, <3>1, <3>2
    <2>5. QED BY <1>1, <2>2, <2>3, <2>4 DEF StoryShape
  <1>5. ASSUME NEW d \in Desks, OrderCoffee(d) PROVE StoryShape'
    <2>1. PICK m : m = Min(Unborn("brew-coffee"))
      OBVIOUS
    <2>2. desk' = [desk EXCEPT ![m] = d] /\ UNCHANGED <<saying, order, deeds, delivered, relit, leaving>>
      BY <1>5, <2>1 DEF OrderCoffee
    <2>3. desk' \in [Jobs -> Desks \cup {""}]
      BY <1>1, <2>2
    <2>4. crossed' \in BOOLEAN
      BY <1>1, <1>5 DEF OrderCoffee, OrderOpen, Someone
    <2>5. QED BY <1>1, <2>2, <2>3, <2>4 DEF StoryShape
  <1>6. CASE Alarm
    <2>1. UNCHANGED <<saying, desk, order, deeds, delivered>> /\ relit' \in BOOLEAN /\ leaving' \in BOOLEAN
      BY <1>6 DEF Alarm
    <2>2. crossed' \in BOOLEAN
      BY <1>1, <1>6 DEF Alarm, Someone
    <2>3. QED BY <1>1, <2>1, <2>2 DEF StoryShape
  <1>7. CASE Mess \/ Light
    <2>1. deeds < MaxDeeds /\ deeds' = deeds + 1
      BY <1>7 DEF Mess, Light
    <2>2. deeds' \in 0 .. MaxDeeds
      <3>1. MaxDeeds \in Nat
        BY AtriumAssumption
      <3>2. deeds \in 0 .. MaxDeeds
        BY <1>1
      <3>3. QED BY <2>1, <3>1, <3>2
    <2>3. UNCHANGED <<saying, desk, order, delivered, leaving, crossed>> /\ relit' \in {relit, TRUE}
      BY <1>7 DEF Mess, Light, jobs
    <2>4. QED BY <1>1, <2>2, <2>3 DEF StoryShape
  <1>8. CASE Finish
    BY <1>1, <1>8 DEF Finish, StoryShape
  <1>9. ASSUME UNCHANGED <<saying, desk, order, deeds, delivered, relit, leaving, crossed>> PROVE StoryShape'
    BY <1>1, <1>9 DEF StoryShape
  <1>10. CASE Lease \/ Brewed \/ Begin \/ UNCHANGED vars
    BY <1>9, <1>10 DEF Lease, Grant, Revoke, Brewed, Begin, vars, jobs, story
  <1>11. ASSUME NEW j \in Jobs, DecideExit(j) \/ Block(j) \/ ReadAnswer(j) PROVE StoryShape'
    BY <1>9, <1>11 DEF DecideExit, Block, ReadAnswer, story
  <1>12. QED BY <1>3, <1>4, <1>5, <1>6, <1>7, <1>8, <1>10, <1>11 DEF Next, System, Behave, People

\* A morning begins with nothing asked of the body, and nothing told of it yet.
LEMMA MorningInit == ASSUME Init PROVE MorningInv /\ StoryShape
  <1>1. MorningInv
    BY BodyInit, JobInit, OrderInit DEF Init, MorningInv
  <1>2. MaxDeeds \in Nat /\ 0 \in 0 .. MaxDeeds
    <2>1. MaxDeeds \in Nat
      BY AtriumAssumption
    <2>2. QED BY <2>1
  <1>3. StoryShape
    <2>1. saying = [j \in Jobs |-> Nothing] /\ desk = [j \in Jobs |-> ""] /\ order = "none" /\ deeds = 0
          /\ delivered = {}
      BY DEF Init
    <2>2. relit \in BOOLEAN /\ leaving \in BOOLEAN /\ crossed \in BOOLEAN
      BY Zenon DEF Init
    <2>3. saying \in [Jobs -> Orders \cup {Tell, Nothing}] /\ desk \in [Jobs -> Desks \cup {""}]
      BY <2>1
    <2>4. QED BY <1>2, <2>1, <2>2, <2>3 DEF StoryShape
  <1>4. QED BY <1>1, <1>3

\* Every step of it keeps the body, the jobs, the order of the commands and the story as they are to be.
LEMMA MorningStep == MorningInv /\ StoryShape /\ [Next]_vars => (MorningInv /\ StoryShape)'
  BY BodyOfMorning, BodyStep, JobStep, OrderStep, StoryStep DEF MorningInv

\* The morning's state is of its types: in particular, every command a behaviour decides on is one the
\* body knows, and a coffee that is delivered has a desk to go to.
THEOREM MorningTypes == Spec => []TypeOK
  <1>1. Init => MorningInv /\ StoryShape
    BY MorningInit
  <1>2. MorningInv /\ StoryShape /\ [Next]_vars => (MorningInv /\ StoryShape)'
    BY MorningStep
  <1>3. ASSUME BodyTypeOK, MorningInv, StoryShape PROVE TypeOK
    <2>1. JobShape
      BY <1>3 DEF MorningInv, JobInv, TurnInv
    <2>2. QED BY <1>3, <2>1 DEF TypeOK, StoryShape, JobShape, Stages, Words
  <1>4. Spec => []BodyTypeOK
    BY MorningUsesTheBody, BodyTypes
  <1>5. QED BY <1>1, <1>2, <1>3, <1>4, PTL DEF Spec

-----------------------------------------------------------------------------
(***************************************************************************)
(* Who is born, and who speaks.                                            *)
(***************************************************************************)
Smoke  == Of("smoke-response")
Brewer == Of("brew-coffee")
Idle   == \A x \in Jobs : ~Outstanding(x)

Speaks(j) ==
  Decide(j) \/ DecideExit(j) \/ SayOrder(j) \/ SayCommand(j) \/ Block(j) \/ ReadAnswer(j)

\* Steps in which no behaviour says a word.
Silent == (\E j \in Jobs : Grant(j) \/ Revoke(j)) \/ Begin \/ Brewed \/ Finish \/ People

\* There is no other step.
LEMMA StepIs == ASSUME [Next]_vars PROVE Silent \/ (\E j \in Jobs : Speaks(j)) \/ UNCHANGED vars
  BY DEF Next, System, Lease, Behave, Silent, Speaks

\* In a silent one jobs are born: a response by an alarm, a brewer by an order.
LEMMA Newborn ==
  ASSUME BodyInv, JobInv, Silent
  PROVE  /\ Births /\ UNCHANGED <<saying, last, order>>
         /\ Alarm \/ \A i \in Smoke : pc'[i] = pc[i]
         /\ (\E d \in Desks : OrderCoffee(d)) \/ \A i \in Brewer : pc'[i] = pc[i]
         /\ \A i \in Jobs : Live(i) => pc'[i] = pc[i]
  <1>1. JobShape
    BY DEF JobInv, TurnInv
  <1>2. \A b1, b2 : b1 # b2 => Of(b1) \subseteq Jobs \ Of(b2)
    BY DEF Of
  <1>3. UNCHANGED <<saying, last, order>>
    BY DEF Silent, Grant, Revoke, Begin, Brewed, Finish, People, OrderCoffee, Alarm, Mess, Light, jobs
  <1> SUFFICES /\ Births
               /\ Alarm \/ \A i \in Smoke : pc'[i] = pc[i]
               /\ (\E d \in Desks : OrderCoffee(d)) \/ \A i \in Brewer : pc'[i] = pc[i]
    BY <1>3 DEF Births, Live
  <1>4. CASE UNCHANGED pc
    BY <1>1, <1>4, NoBirth DEF Smoke, Brewer, Of
  <1>5. ASSUME NEW b, Unborn(b) # {}, pc' = Spawned(b)
        PROVE  Births /\ \A c : c # b => \A i \in Of(c) : pc'[i] = pc[i]
    BY <1>1, <1>2, <1>5, BirthOf
  <1>6. CASE (\E j \in Jobs : Grant(j) \/ Revoke(j)) \/ Begin \/ Light
    BY <1>4, <1>6 DEF Grant, Revoke, Begin, Light, jobs
  <1>7. CASE Brewed \/ Finish
    <2>1. UNCHANGED pc \/ (world.machine = "brewing" /\ pc' = Spawned("deliver-coffee"))
      BY <1>7 DEF Brewed, Finish, CoffeeReady, Complete
    <2>2. world.machine = "brewing" => Unborn("deliver-coffee") # {}
      BY RoomForOne DEF JobInv
    <2>3. QED BY <1>4, <1>5, <2>1, <2>2 DEF Smoke, Brewer
  <1>8. CASE \E d \in Desks : OrderCoffee(d)
    BY <1>5, <1>8 DEF OrderCoffee, Smoke, Brewer
  <1>9. CASE Alarm
    BY <1>5, <1>9 DEF Alarm, Smoke, Brewer
  <1>10. CASE Mess
    <2>1. UNCHANGED pc \/ (Unborn("tidy-atrium") # {} /\ pc' = Spawned("tidy-atrium"))
      BY <1>10 DEF Mess
    <2>2. QED BY <1>4, <1>5, <2>1 DEF Smoke, Brewer
  <1>11. QED BY <1>6, <1>7, <1>8, <1>9, <1>10 DEF Silent, People

\* Who speaks wears the body and has nobody more urgent; the others stay as they are.
LEMMA Speaker ==
  ASSUME BodyInv, JobInv, NEW j \in Jobs, Speaks(j)
  PROVE  /\ wearer = j /\ Settled /\ MostUrgent(j) /\ Runnable(j) /\ Live(j) /\ pc'[j] # "unborn"
         /\ \A i \in Jobs \ {j} : pc'[i] = pc[i] /\ saying'[i] = saying[i] /\ last'[i] = last[i]
         /\ DecideExit(j) \/ Live(j)'
         /\ Decide(j) \/ pc'[j] # "speaking"
         /\ SayOrder(j) \/ SayCommand(j) \/ UNCHANGED last
         /\ UNCHANGED <<deeds, delivered, relit, leaving, crossed>>
  <1>1. JobShape
    BY DEF JobInv, TurnInv
  <1>2. PICK from \in Stages \ {"unborn", "done"}, to \in Stages \ {"unborn"} :
          Becomes(j, from, to) /\ (to # "done" \/ DecideExit(j)) /\ (to # "speaking" \/ Decide(j))
    BY DEF Speaks, Decide, DecideExit, SayOrder, SayCommand, Block, ReadAnswer, Stages
  <1>3. /\ wearer = j /\ Settled /\ MostUrgent(j) /\ Runnable(j) /\ Live(j)
        /\ pc'[j] = to /\ \A i \in Jobs \ {j} : pc'[i] = pc[i]
    <2>1. wearer = j /\ Settled /\ MostUrgent(j) /\ Runnable(j) /\ pc[j] = from
      BY <1>2 DEF Becomes, MostUrgent
    <2>2. pc' = [pc EXCEPT ![j] = to] /\ DOMAIN pc = Jobs
      BY <1>1, <1>2 DEF Becomes, JobShape
    <2>3. QED BY <1>2, <2>1, <2>2 DEF Live
  <1>4. \A i \in Jobs \ {j} : saying'[i] = saying[i] /\ last'[i] = last[i]
    BY <1>1 DEF Speaks, Decide, DecideExit, SayOrder, SayCommand, Block, ReadAnswer, Says, JobShape
  <1>5. SayOrder(j) \/ SayCommand(j) \/ UNCHANGED last
    BY DEF Speaks, Decide, DecideExit, Block, ReadAnswer
  <1>6. UNCHANGED <<deeds, delivered, relit, leaving, crossed>>
    BY DEF Speaks, Decide, DecideExit, SayOrder, SayCommand, Block, ReadAnswer, Says, story
  <1>7. pc'[j] # "unborn" /\ (DecideExit(j) \/ Live(j)') /\ (Decide(j) \/ pc'[j] # "speaking")
    BY <1>2, <1>3 DEF Live
  <1>8. QED BY <1>3, <1>4, <1>5, <1>6, <1>7

\* Of all it says, only a command reaches the body, and only an exit takes it.
LEMMA WordsOnly ==
  ASSUME NEW j \in Jobs, Decide(j) \/ SayOrder(j) \/ Block(j) \/ ReadAnswer(j)
  PROVE  UNCHANGED <<wearer, queue, current, world, laidMidPut>>
  BY DEF Decide, SayOrder, Block, ReadAnswer, ReadAll, body

-----------------------------------------------------------------------------
(***************************************************************************)
(* The room's invariant: what a morning comes to.                          *)
(***************************************************************************)
\* A command for the behaviour it is of: a put takes an item to its container, a brewer goes to the
\* machine.
Proper(j, c) ==
  /\ c.verb = "put" => /\ DescriptorOf[j] = "tidy-atrium"
                       /\ c.what \in Items /\ c.where = ContainerFor[c.what]
  /\ c.verb = "navigate" => DescriptorOf[j] # "tidy-atrium"
  /\ c.verb = "navigate" /\ DescriptorOf[j] = "brew-coffee" => c.where = "coffee-machine"
  /\ c.verb = "press" => DescriptorOf[j] = "smoke-response"

Furniture == {"table", "basket", "tray"}

\* What each command leaves of the room, besides the cup.
RoomLeft(c, o) ==
  /\ c.verb # "put" => DOMAIN o \cap Furniture = {}
  /\ c.verb = "navigate" => o = [position |-> c.where]
  /\ c.verb = "put" => DOMAIN o \subseteq {"position"} \cup Furniture /\ o.position = "table"
  /\ c.verb \notin {"navigate", "put"} => "position" \notin DOMAIN o
  /\ c.verb = "press" => o = [hotplate |-> "off"]
  /\ c.verb # "press" => "hotplate" \notin DOMAIN o

\* What is said and what is under way is proper, and the command in hand begins where the body stands.
ProperInv ==
  /\ \A j \in Jobs : pc[j] = "speaking" => Proper(j, saying[j])
  /\ \A k \in DOMAIN queue : Proper(queue[k].job, queue[k].command)
  /\ \A k \in DOMAIN current : /\ Proper(current[k].job, current[k].command)
                               /\ RoomLeft(current[k].command, current[k].outcome)
                               /\ current[k].origin = world.position

\* Each item is on the table or where it belongs.
Tidied(w) == \A i \in Items : i \in w.table \/ i \in w[ContainerFor[i]]

\* A table with something on it has its tidier, and a put that nobody disturbs leaves nothing lost.
TableInv ==
  /\ world.table # {} => Someone("tidy-atrium")
  /\ ~laidMidPut => Tidied(world) /\ \A k \in DOMAIN current : Tidied(Updated(world, current[k].outcome))

\* There is one response at a time, which keeps the body.
ResponseInv ==
  /\ \A j, k \in Smoke : Live(j) /\ Live(k) => j = k
  /\ \A j \in Smoke : Live(j) => Runnable(j) \/ wearer = j
  /\ \A j \in Jobs : DescriptorOf[j] \in BySteps /\ Waits(j) => last[j] # "none"
  /\ \A j \in Jobs : DescriptorOf[j] \in BySteps => \A v : Holds(v, j) => last[j] = v
  /\ \A j \in Smoke : pc[j] = "speaking" => last[j] # "press"

\* It presses at the hotplate.
PressInv ==
  /\ ~leaving => \A j \in Smoke :
       /\ Live(j) /\ last[j] = "none" /\ world.position = "hotplate" => Idle
       /\ pc[j] = "speaking" /\ saying[j].verb = "press" => world.position = "hotplate" /\ Idle
       /\ \A k \in DOMAIN queue : queue[k].job = j /\ queue[k].command.verb = "press" =>
            k = 1 /\ current = <<>> /\ wearer = j /\ world.position = "hotplate"
  /\ ~relit /\ ~leaving /\ (\E j \in Smoke : pc[j] # "unborn") =>
       \/ world.hotplate = "off"
       \/ \E j \in Smoke : Live(j) /\ (last[j] # "press" \/ Holds("press", j))

\* A brewer whose brew is still to come, or in hand.
Early(j) == Live(j) /\ (last[j] # "brew" \/ Holds("brew", j))

\* An order that nothing crosses is brewed, and delivered.
Errand ==
  /\ \A j, k \in Brewer : Live(j) /\ Live(k) => j = k
  /\ \A j \in Brewer : Early(j) => world.machine # "brewing" /\ ~Delivering
  /\ \A j \in Brewer : Live(j) /\ Begun(j) => ~Someone("smoke-response")
  /\ \A j \in Brewer : Early(j) /\ Begun(j) => wearer = j
  /\ \A j \in Brewer : Live(j) /\ ( \/ last[j] = "navigate" /\ ~Outstanding(j)
                                    \/ \E k \in DOMAIN queue : queue[k].job = j /\ queue[k].command.verb = "brew") =>
       world.position = "coffee-machine"
  /\ (\E j \in Brewer : Live(j) /\ ~Early(j)) => world.machine = "brewing" \/ Delivering \/ world.coffee = order
  /\ order # "none" => OrderOpen \/ world.coffee = order

-----------------------------------------------------------------------------
(***************************************************************************)
(* What the body does with proper commands.                                *)
(***************************************************************************)
\* The parts of the room that are neither the cup's nor the machine's.
LEMMA RoomFields == Furniture \cup {"position", "hotplate"} \subseteq Fields
  BY DEF Furniture, Fields

\* What a command that can be done will leave of the room.
LEMMA RoomLeftBy ==
  ASSUME NEW c, Can(c), c.verb = "put" => c.where \in Containers
  PROVE  RoomLeft(c, Outcome(c))
  <1>1. CASE c.verb = "navigate"
    BY <1>1 DEF Outcome, RoomLeft, Furniture
  <1>2. CASE c.verb = "put"
    <2> DEFINE o == Outcome(c)
    <2>1. o = [f \in {"position", "table", c.where} |->
                 CASE f = "position" -> "table"
                   [] f = "table"    -> world.table \ {c.what}
                   [] f = c.where    -> world[c.where] \cup {c.what}]
      BY <1>2 DEF Outcome
    <2> HIDE DEF o
    <2>2. c.where \in {"basket", "tray"}
      BY <1>2 DEF Containers
    <2>3. DOMAIN o = {"position", "table", c.where} /\ o["position"] = "table"
      BY <2>1, <2>2
    <2>4. QED BY <1>2, <2>2, <2>3 DEF RoomLeft, Furniture, o
  <1>3. CASE c.verb = "pick"
    BY <1>3 DEF Outcome, RoomLeft, Furniture
  <1>4. CASE c.verb = "place"
    BY <1>4 DEF Outcome, RoomLeft, Furniture, Placed
  <1>5. CASE c.verb = "brew"
    BY <1>5 DEF Outcome, RoomLeft, Furniture
  <1>6. CASE c.verb = "press"
    BY <1>6 DEF Outcome, RoomLeft, Furniture
  <1>7. QED BY <1>1, <1>2, <1>3, <1>4, <1>5, <1>6 DEF Can

\* A command of the wearer's that can be done begins.
LEMMA Begins ==
  ASSUME BodyInv, Start, queue[1].job = wearer, Can(queue[1].command)
  PROVE  /\ current' = <<[job |-> queue[1].job, command |-> queue[1].command,
                          origin |-> world.position, outcome |-> Outcome(queue[1].command)]>>
         /\ Waiting /\ Kept
  <1>1. current = <<>> /\ queue # <<>> /\ queue' = Tail(queue)
    BY DEF Start
  <1>2. Head(queue) = queue[1]
    BY <1>1, Dequeued
  <1>3. PICK a : a = [job |-> queue[1].job, command |-> queue[1].command,
                      origin |-> world.position, outcome |-> Outcome(queue[1].command)]
    OBVIOUS
  <1>4. current' = <<a>> /\ UNCHANGED unread
    BY <1>2, <1>3 DEF Start
  <1>5. DOMAIN current' = {1} /\ current'[1] = a
    BY <1>4
  <1>6. ~UNCHANGED current
    BY <1>1, <1>5, Empty
  <1>7. Waiting /\ 1 \in DOMAIN queue /\ queue[1].job \in Jobs
    BY <1>1, <1>6, Dequeued, Started
  <1>8. Outstanding(queue[1].job)
    BY <1>1, <1>7, Dequeued
  <1>9. Kept
    BY <1>7, <1>8, HoldsStarted DEF Answered, Waiting
  <1>10. QED BY <1>3, <1>4, <1>7, <1>9

\* A command begins that can be done, or nothing does.
LEMMA BeginsOrNot ==
  ASSUME BodyInv, Start
  PROVE  \/ queue[1].job = wearer /\ Can(queue[1].command)
         \/ Answered(queue[1].job) /\ Lost(queue[1].job) /\ UNCHANGED current
  <1>1. CASE Answered(queue[1].job) /\ UNCHANGED current
    BY <1>1, HoldsStarted DEF Answered, Waiting
  <1>2. QED BY <1>1, Started

\* A body taken away stays where it is, or is on its way; it is still when nothing was asked of it.
LEMMA TakenFrom ==
  ASSUME BodyInv, ProperInv, NEW j \in Jobs, Disembodied(j)
  PROVE  /\ \A f \in Fields : f # "position" => world'[f] = world[f]
         /\ world'.position \in {world.position, "corridor"}
         /\ current' \in {current, <<>>} /\ UNCHANGED <<queue, laidMidPut>>
         /\ Doing(j) \/ UNCHANGED <<world, current>>
         /\ current' = <<>> \/ UNCHANGED world
  <1>1. /\ wearer = j /\ wearer' = Nobody /\ UNCHANGED queue
        /\ \A f \in Fields : f # "position" => world'[f] = world[f]
        /\ \/ Waiting /\ UNCHANGED <<current, world>>
           \/ /\ Answered(j) /\ current # <<>> /\ current[1].job = j /\ current' = <<>>
    BY Taken
  <1>2. CASE UNCHANGED <<current, world>>
    BY <1>1, <1>2 DEF Disembodied
  <1>3. CASE current # <<>> /\ current[1].job = j /\ current' = <<>> /\ ~UNCHANGED <<current, world>>
    <2>1. Abort /\ Doing(j)
      BY <1>3 DEF Disembodied
    <2>2. world' = [world EXCEPT !.position = Stopped(current[1])]
      BY <2>1 DEF Abort
    <2>3. DOMAIN current = {1}
      BY <1>3, Hand DEF BodyInv
    <2>4. current[1].origin = world.position
      BY <2>3 DEF ProperInv
    <2>5. Stopped(current[1]) \in {world.position, "corridor"}
      BY <2>4 DEF Stopped, StopsAt
    <2>6. "position" \in DOMAIN world
      BY DEF BodyInv, BodyShape, WorldFits, Fields
    <2>7. world'.position \in {world.position, "corridor"}
      BY <2>2, <2>5, <2>6
    <2>8. QED BY <1>1, <1>3, <2>1, <2>7 DEF Disembodied
  <1>4. QED BY <1>1, <1>2, <1>3

-----------------------------------------------------------------------------
(***************************************************************************)
(* Proper commands, and the table.                                         *)
(***************************************************************************)
TidyInv == ProperInv /\ TableInv

\* A behaviour decides on proper commands only.
LEMMA DecidesProper ==
  ASSUME BodyInv, SayInv, NEW j \in Jobs, NEW c \in NextCommands(j) \ {Exit}
  PROVE  Proper(j, c)
  <1>1. CASE DescriptorOf[j] = "tidy-atrium"
    <2>1. PICK i \in world.table : c = Put(i, ContainerFor[i])
      BY <1>1 DEF NextCommands, TidyNext
    <2>2. i \in Items
      BY Room DEF BodyInv, BodyShape
    <2>3. c.verb = "put" /\ c.what = i /\ c.where = ContainerFor[i]
      BY <2>1 DEF Put, Order
    <2>4. QED BY <1>1, <2>2, <2>3 DEF Proper
  <1>2. CASE DescriptorOf[j] = "brew-coffee"
    <2>1. c = Tell \/ c = Brew \/ c = Navigate("coffee-machine")
      BY <1>2 DEF SayInv, NextCommands, BrewNext
    <2>2. /\ c.verb \in {"tell", "navigate", "brew"}
          /\ Navigate("coffee-machine").where = "coffee-machine"
          /\ Tell.verb # "navigate" /\ Brew.verb # "navigate"
      BY <2>1, Verbs DEF Navigate, Order
    <2>3. QED BY <1>2, <2>1, <2>2 DEF Proper
  <1>3. CASE DescriptorOf[j] = "deliver-coffee"
    <2>1. c = Place \/ c = Pick \/ \E p : c = Navigate(p)
      BY <1>3 DEF NextCommands, DeliverNext
    <2>2. c.verb \in {"place", "pick", "navigate"}
      BY <2>1, Verbs
    <2>3. QED BY <1>3, <2>2 DEF Proper
  <1>4. CASE DescriptorOf[j] = "smoke-response"
    <2>1. c = Place \/ c = Press \/ c = Navigate("hotplate")
      BY <1>4 DEF NextCommands, SmokeNext
    <2>2. c.verb \in {"place", "press", "navigate"}
      BY <2>1, Verbs
    <2>3. QED BY <1>4, <2>2 DEF Proper
  <1>5. QED BY <1>1, <1>2, <1>3, <1>4, OfTheFour

\* Proper commands stay so, as long as what is added to them is.
LEMMA ProperKept ==
  ASSUME ProperInv,
         \A i \in Jobs : pc'[i] = "speaking" => (pc[i] = "speaking" /\ saying'[i] = saying[i]) \/ Proper(i, saying'[i]),
         \A k \in DOMAIN queue' : Proper(queue'[k].job, queue'[k].command),
         current' = <<>> \/ (current' = current /\ world'.position = world.position)
  PROVE  ProperInv'
  <1>1. \A i \in Jobs : pc'[i] = "speaking" => Proper(i, saying'[i])
    BY DEF ProperInv
  <1>2. \A k \in DOMAIN current' : /\ Proper(current'[k].job, current'[k].command)
                                   /\ RoomLeft(current'[k].command, current'[k].outcome)
                                   /\ current'[k].origin = world'.position
    BY Empty DEF ProperInv
  <1>3. QED BY <1>1, <1>2 DEF ProperInv, Proper, RoomLeft

\* The table is cleared as far as its furniture is not touched, and somebody is at it.
LEMMA TableKept ==
  ASSUME BodyInv, TableInv, UNCHANGED laidMidPut, \A f \in Furniture : world'[f] = world[f],
         current' = current \/ current' = <<>>, WorldFits(world'),
         \A i \in Of("tidy-atrium") : Live(i) => Live(i)' \/ world.table = {}
  PROVE  TableInv'
  <1>1. world'.table = world.table /\ world'.basket = world.basket /\ world'.tray = world.tray
    BY DEF Furniture
  <1>2. world'.table # {} => Someone("tidy-atrium")'
    BY <1>1 DEF TableInv, Someone, Of
  <1>3. \A i \in Items : ContainerFor[i] \in {"basket", "tray"}
    BY AtriumAssumption DEF Containers
  <1>4. Tidied(world) => Tidied(world)'
    BY <1>1, <1>3 DEF Tidied
  <1>5. SUFFICES ASSUME ~laidMidPut, NEW k \in DOMAIN current, current' = current
                 PROVE  Tidied(Updated(world', current[k].outcome))
    BY <1>2, <1>4, <1>5, Empty DEF TableInv
  <1> DEFINE o == current[k].outcome
  <1>6. Tidied(Updated(world, o))
    BY <1>5 DEF TableInv
  <1>7. OutcomeFits(o) /\ WorldFits(world)
    BY <1>5, Hand, Empty DEF BodyInv, BodyShape, ActionFits
  <1>8. \A f \in Furniture : Updated(world', o)[f] = Updated(world, o)[f]
    BY <1>7, Writes, RoomFields
  <1>9. QED BY <1>3, <1>6, <1>8 DEF Tidied, Furniture

\* Nothing is said, and what is with the body stays or goes.
LEMMA TidyKept ==
  ASSUME BodyInv, BodyInv', TidyInv, UNCHANGED <<queue, laidMidPut>>,
         \A f \in Furniture : world'[f] = world[f],
         current' = <<>> \/ (current' = current /\ world'.position = world.position),
         \A i \in Jobs : pc'[i] = "speaking" => (pc[i] = "speaking" /\ saying'[i] = saying[i]) \/ Proper(i, saying'[i]),
         \A i \in Of("tidy-atrium") : Live(i) => Live(i)' \/ world.table = {}
  PROVE  TidyInv'
  <1>1. TableInv'
    BY TableKept DEF TidyInv, BodyInv, BodyShape
  <1>2. \A k \in DOMAIN queue' : Proper(queue'[k].job, queue'[k].command)
    BY DEF TidyInv, ProperInv
  <1>3. ProperInv'
    BY <1>2, ProperKept DEF TidyInv
  <1>4. QED BY <1>1, <1>3 DEF TidyInv

\* The body begins, or answers, a proper command.
LEMMA BeginTidies == ASSUME BodyInv, JobInv, TidyInv, Begin PROVE TidyInv'
  <1>1. Start /\ UNCHANGED <<pc, saying, laidMidPut, world>>
    BY DEF Begin, Start, jobs
  <1>2. BodyInv' /\ current = <<>> /\ queue # <<>> /\ queue' = Tail(queue)
    BY <1>1, Started
  <1>3. \A k \in DOMAIN queue' : Proper(queue'[k].job, queue'[k].command)
    BY <1>2, Dequeued DEF TidyInv, ProperInv
  <1>4. CASE UNCHANGED current
    <2>1. ProperInv'
      BY <1>1, <1>3, <1>4, ProperKept DEF TidyInv
    <2>2. TableInv'
      BY <1>1, <1>2, <1>4, TableKept DEF TidyInv, BodyInv, BodyShape, Live
    <2>3. QED BY <2>1, <2>2 DEF TidyInv
  <1>5. CASE queue[1].job = wearer /\ Can(queue[1].command)
    <2> DEFINE c == queue[1].command
    <2>1. 1 \in DOMAIN queue /\ Proper(queue[1].job, c) /\ WorldFits(world)
      BY <1>2, Dequeued DEF TidyInv, ProperInv, BodyInv, BodyShape
    <2>2. PICK a : a = [job |-> queue[1].job, command |-> c, origin |-> world.position, outcome |-> Outcome(c)]
      OBVIOUS
    <2>3. current' = <<a>>
      BY <1>1, <1>5, <2>2, Begins
    <2>4. DOMAIN current' = {1} /\ current'[1] = a
      BY <2>3
    <2>5. Can(c) /\ (c.verb = "put" => c.where \in Containers)
      BY <1>5 DEF Can
    <2>6. RoomLeft(c, Outcome(c)) /\ OutcomeFits(Outcome(c))
      BY <2>1, <2>5, RoomLeftBy, Possible
    <2>7. \A i \in Jobs : pc'[i] = "speaking" => Proper(i, saying'[i])
      BY <1>1 DEF TidyInv, ProperInv
    <2>8. /\ a.job = queue[1].job /\ a.command = c /\ a.outcome = Outcome(c) /\ a.origin = world.position
      BY <2>2
    <2> HIDE DEF c
    <2>9. \A k \in DOMAIN current' : /\ Proper(current'[k].job, current'[k].command)
                                     /\ RoomLeft(current'[k].command, current'[k].outcome)
                                     /\ current'[k].origin = world'.position
      BY <1>1, <2>1, <2>4, <2>6, <2>8 DEF c
    <2>10. ProperInv'
      BY <1>3, <2>7, <2>9 DEF ProperInv, Proper, RoomLeft
    <2>11. ASSUME Tidied(world) PROVE Tidied(Updated(world, Outcome(c)))
      <3>1. ContainerFor \in [Items -> {"basket", "tray"}]
        BY AtriumAssumption DEF Containers
      <3>2. CASE c.verb # "put"
        <4>1. \A f \in Furniture : Updated(world, Outcome(c))[f] = world[f]
          BY <2>1, <2>6, <3>2, Writes, RoomFields DEF RoomLeft
        <4>2. QED BY <2>11, <3>1, <4>1 DEF Tidied, Furniture
      <3>3. CASE c.verb = "put"
        <4> DEFINE o == Outcome(c)
        <4>1. c.what \in Items /\ c.where = ContainerFor[c.what] /\ c.where \in {"basket", "tray"}
          BY <2>1, <3>1, <3>3 DEF Proper
        <4>2. o = [f \in {"position", "table", c.where} |->
                     CASE f = "position" -> "table"
                       [] f = "table"    -> world.table \ {c.what}
                       [] f = c.where    -> world[c.where] \cup {c.what}]
          BY <3>3 DEF Outcome
        <4> HIDE DEF o
        <4>3. /\ DOMAIN o = {"position", "table", c.where}
              /\ o["table"] = world.table \ {c.what} /\ o[c.where] = world[c.where] \cup {c.what}
          BY <4>1, <4>2
        <4> DEFINE w == Updated(world, o)
        <4>4. /\ w.table = world.table \ {c.what} /\ w[c.where] = world[c.where] \cup {c.what}
              /\ \A f \in {"basket", "tray"} : f # c.where => w[f] = world[f]
          BY <2>1, <2>6, <4>1, <4>3, Writes DEF Fields, o
        <4> HIDE DEF w
        <4>5. \A i \in Items : i \in w.table \/ i \in w[ContainerFor[i]]
          BY <2>11, <3>1, <4>1, <4>4 DEF Tidied
        <4>6. QED BY <4>5 DEF Tidied, w, o
      <3>4. QED BY <3>2, <3>3
    <2>12. ~laidMidPut => /\ Tidied(world)
                          /\ \A k \in DOMAIN current' : Tidied(Updated(world, current'[k].outcome))
      BY <2>4, <2>8, <2>11 DEF TidyInv, TableInv
    <2>13. TableInv'
      BY <1>1, <2>12 DEF TidyInv, TableInv, Someone, Live, Tidied
    <2>14. QED BY <2>10, <2>13 DEF TidyInv
  <1>6. QED BY <1>1, <1>4, <1>5, BeginsOrNot

\* What was put away is where it belongs.
LEMMA FinishTidies == ASSUME BodyInv, JobInv, TidyInv, Finish PROVE TidyInv'
  <1>1. PICK ready \in BOOLEAN : Complete(ready)
    BY DEF Finish
  <1>2. /\ BodyInv' /\ UNCHANGED <<queue, laidMidPut>> /\ current # <<>> /\ current' = <<>>
        /\ \A f \in DOMAIN current[1].outcome : world'[f] = current[1].outcome[f]
        /\ \A f \in Fields \ DOMAIN current[1].outcome :
             world'[f] = IF ready /\ f = "machine" THEN "ready" ELSE world[f]
    BY <1>1, Done DEF Complete
  <1>3. Births /\ UNCHANGED saying /\ \A i \in Jobs : Live(i) => pc'[i] = pc[i]
    BY Newborn DEF Silent
  <1>4. ProperInv'
    <2>1. \A i \in Jobs : pc'[i] = "speaking" => pc[i] = "speaking" /\ saying'[i] = saying[i]
      BY <1>3 DEF Births
    <2>2. QED BY <1>2, <2>1, ProperKept DEF TidyInv, ProperInv
  <1>5. 1 \in DOMAIN current /\ Doing(current[1].job) /\ current[1].job \in Jobs /\ OutcomeFits(current[1].outcome)
    BY <1>2, Hand DEF BodyInv, ActionFits
  <1>6. Live(current[1].job)
    BY <1>5 DEF JobInv, TurnInv, WaitsInv, Outstanding, Waits, Live
  <1>7. Someone("tidy-atrium") => Someone("tidy-atrium")'
    BY <1>3 DEF Someone, Of, Live
  <1>8. world'.table # {} => Someone("tidy-atrium")'
    <2>1. CASE current[1].command.verb = "put"
      BY <1>5, <1>6, <1>7, <2>1 DEF TidyInv, ProperInv, Proper, Someone, Of
    <2>2. CASE current[1].command.verb # "put"
      <3>1. world'.table = world.table
        BY <1>2, <1>5, <2>2, RoomFields DEF TidyInv, ProperInv, RoomLeft, Furniture
      <3>2. QED BY <1>7, <3>1 DEF TidyInv, TableInv
    <2>3. QED BY <2>1, <2>2
  <1>9. ~laidMidPut => Tidied(world)'
    <2>1. \A f \in Furniture : world'[f] = Updated(world, current[1].outcome)[f]
      BY <1>2, <1>5, Writes, RoomFields DEF BodyInv, BodyShape, Furniture
    <2>2. \A i \in Items : ContainerFor[i] \in {"basket", "tray"}
      BY AtriumAssumption DEF Containers
    <2>3. ~laidMidPut => Tidied(Updated(world, current[1].outcome))
      BY <1>5 DEF TidyInv, TableInv
    <2>4. QED BY <2>1, <2>2, <2>3 DEF Tidied, Furniture
  <1>10. TableInv'
    BY <1>2, <1>8, <1>9, Empty DEF TableInv
  <1>11. QED BY <1>4, <1>10 DEF TidyInv

\* Somebody lays the table: it is somebody's to clear.
LEMMA MessTidies == ASSUME BodyInv, JobInv, TidyInv, Mess PROVE TidyInv'
  <1>1. /\ UNCHANGED <<queue, current>> /\ world' = [world EXCEPT !.table = Items, !.basket = {}, !.tray = {}]
        /\ laidMidPut' = (laidMidPut \/ \E k \in DOMAIN current : current[k].command.verb = "put")
    BY DEF Mess, SetTable
  <1>2. Births /\ UNCHANGED saying /\ \A i \in Jobs : Live(i) => pc'[i] = pc[i]
    BY Newborn DEF Silent, People
  <1>3. BodyInv' /\ WorldFits(world) /\ WorldFits(world')
    BY Around DEF Mess, BodyInv, BodyShape
  <1>4. world'.position = world.position /\ world'.table = Items
    BY <1>1, <1>3, Laid DEF WorldFits, Fields
  <1>5. ProperInv'
    <2>1. \A i \in Jobs : pc'[i] = "speaking" => pc[i] = "speaking" /\ saying'[i] = saying[i]
      BY <1>2 DEF Births
    <2>2. QED BY <1>1, <1>4, <2>1, ProperKept DEF TidyInv, ProperInv
  <1>6. Someone("tidy-atrium")'
    <2>1. CASE Someone("tidy-atrium")
      BY <1>2, <2>1 DEF Someone, Of, Live
    <2>2. CASE Unborn("tidy-atrium") # {} /\ pc' = Spawned("tidy-atrium")
      <3>1. \E m \in Of("tidy-atrium") : pc'[m] = "deciding"
        BY <2>2, Spawns DEF JobInv, TurnInv
      <3>2. QED BY <3>1 DEF Someone, Live, Of
    <2>3. QED BY <2>1, <2>2 DEF Mess
  <1>7. Tidied(world')
    BY <1>4 DEF Tidied
  <1>8. ASSUME ~laidMidPut', NEW k \in DOMAIN current PROVE Tidied(Updated(world', current[k].outcome))
    <2>1. OutcomeFits(current[k].outcome)
      BY Hand, Empty DEF BodyInv, BodyShape, ActionFits
    <2>2. current[k].command.verb # "put"
      BY <1>1, <1>8
    <2>3. DOMAIN current[k].outcome \cap Furniture = {}
      BY <2>2 DEF TidyInv, ProperInv, RoomLeft
    <2>4. "table" \in Fields \ DOMAIN current[k].outcome
      BY <2>3 DEF Furniture, Fields
    <2>5. Updated(world', current[k].outcome)["table"] = world'["table"]
      BY <1>3, <2>1, <2>4, Writes
    <2>6. QED BY <1>4, <2>5 DEF Tidied
  <1>9. TableInv'
    BY <1>1, <1>6, <1>7, <1>8 DEF TableInv, Tidied
  <1>10. QED BY <1>5, <1>9 DEF TidyInv

\* A command joins the queue as it was said.
LEMMA SayTidies == ASSUME BodyInv, JobInv, TidyInv, NEW j \in Jobs, SayCommand(j) PROVE TidyInv'
  <1>1. /\ ~Outstanding(j) /\ UNCHANGED <<current, world>>
        /\ queue' = Append(queue, [job |-> j, command |-> saying[j]]) /\ saying[j] \in Orders
    BY Commands
  <1>2. /\ \A i \in Jobs \ {j} : pc'[i] = pc[i] /\ saying'[i] = saying[i]
        /\ Live(j)' /\ pc'[j] # "speaking" /\ pc[j] = "speaking"
    BY Speaker DEF Speaks, SayCommand, Decide, DecideExit, Becomes
  <1>3. \A i \in Jobs : pc'[i] = "speaking" => pc[i] = "speaking" /\ saying'[i] = saying[i]
    BY <1>2
  <1>4. Proper(j, saying[j])
    BY <1>2 DEF TidyInv, ProperInv
  <1>5. \A k \in DOMAIN queue' : Proper(queue'[k].job, queue'[k].command)
    <2>1. \A k \in DOMAIN queue' : k \in DOMAIN queue \/ k = Len(queue) + 1
      BY <1>1, Enqueued
    <2>2. /\ \A k \in DOMAIN queue : queue'[k] = queue[k]
          /\ queue'[Len(queue) + 1].job = j /\ queue'[Len(queue) + 1].command = saying[j]
      BY <1>1, Enqueued
    <2>3. QED BY <1>4, <2>1, <2>2 DEF TidyInv, ProperInv
  <1>6. ProperInv'
    BY <1>1, <1>3, <1>5, ProperKept DEF TidyInv
  <1>7. UNCHANGED laidMidPut
    BY DEF SayCommand, Written
  <1>8. TableInv'
    <2>1. \A i \in Of("tidy-atrium") : Live(i) => Live(i)'
      BY <1>2 DEF Live, Of
    <2>2. QED BY <1>1, <1>7, <2>1, TableKept DEF TidyInv, BodyInv, BodyShape
  <1>9. QED BY <1>6, <1>8 DEF TidyInv

\* Each step keeps the commands proper and the table in hand.
LEMMA TidyStep == ASSUME BodyInv, JobInv, TidyInv, [Next]_vars PROVE TidyInv'
  <1>1. BodyInv'
    BY BodyOfMorning, BodyStep
  <1>2. CASE Silent
    <2>1. Births /\ UNCHANGED saying /\ \A i \in Jobs : Live(i) => pc'[i] = pc[i]
      BY <1>2, Newborn
    <2>2. /\ \A i \in Jobs : pc'[i] = "speaking" => pc[i] = "speaking" /\ saying'[i] = saying[i]
          /\ \A i \in Of("tidy-atrium") : Live(i) => Live(i)'
      BY <2>1 DEF Births, Live, Of
    <2>3. ASSUME UNCHANGED <<queue, current, laidMidPut>>, \A f \in Furniture \cup {"position"} : world'[f] = world[f]
          PROVE  TidyInv'
      BY <1>1, <2>2, <2>3, TidyKept
    <2>4. CASE \E j \in Jobs : Grant(j)
      BY <2>3, <2>4 DEF Grant, Embodied
    <2>5. CASE \E j \in Jobs : Revoke(j)
      <3>1. PICK j \in Jobs : Disembodied(j)
        BY <2>5 DEF Revoke
      <3>2. /\ \A f \in Fields : f # "position" => world'[f] = world[f]
            /\ current' \in {current, <<>>} /\ UNCHANGED <<queue, laidMidPut>>
            /\ current' = <<>> \/ UNCHANGED world
        BY <3>1, TakenFrom DEF TidyInv
      <3>3. QED BY <1>1, <2>2, <3>2, TidyKept, RoomFields DEF Furniture
    <2>6. CASE \E d \in Desks : OrderCoffee(d)
      BY <2>3, <2>6 DEF OrderCoffee, body
    <2>7. CASE Alarm
      BY <2>3, <2>7 DEF Alarm, body
    <2>8. CASE Light
      <3>1. UNCHANGED <<queue, current, laidMidPut>> /\ \A f \in Fields : f # "hotplate" => world'[f] = world[f]
        BY <2>8, Around DEF Light, TurnHotplateOn
      <3>2. QED BY <2>3, <3>1, RoomFields DEF Furniture
    <2>9. CASE Brewed
      <3>1. UNCHANGED <<queue, current, laidMidPut>> /\ \A f \in Fields : f # "machine" => world'[f] = world[f]
        BY <2>9, Around DEF Brewed, CoffeeReady
      <3>2. QED BY <2>3, <3>1, RoomFields DEF Furniture
    <2>10. QED BY <1>2, <2>4, <2>5, <2>6, <2>7, <2>8, <2>9, BeginTidies, FinishTidies, MessTidies DEF Silent, People
  <1>3. ASSUME NEW j \in Jobs, Speaks(j) PROVE TidyInv'
    <2>1. \A i \in Jobs \ {j} : pc'[i] = pc[i] /\ saying'[i] = saying[i]
      BY <1>3, Speaker
    <2>2. CASE Decide(j) \/ SayOrder(j) \/ Block(j) \/ ReadAnswer(j)
      <3>1. UNCHANGED <<queue, current, world, laidMidPut>>
        BY <2>2, WordsOnly
      <3>2. pc'[j] = "speaking" => Proper(j, saying'[j])
        <4>1. pc'[j] = "speaking" => Decide(j)
          BY <1>3, Speaker
        <4>2. Decide(j) => \E c \in NextCommands(j) \ {Exit} : saying' = [saying EXCEPT ![j] = c]
          BY DEF Decide
        <4>3. DOMAIN saying = Jobs
          BY DEF JobInv, TurnInv, JobShape
        <4>4. QED BY <4>1, <4>2, <4>3, DecidesProper DEF JobInv
      <3>3. Live(j)'
        <4>1. PICK to \in {"speaking", "deciding", "blocked"} : pc' = [pc EXCEPT ![j] = to]
          BY <2>2 DEF Decide, SayOrder, Block, ReadAnswer, Becomes
        <4>2. DOMAIN pc = Jobs
          BY DEF JobInv, TurnInv, JobShape
        <4>3. QED BY <4>1, <4>2 DEF Live
      <3>4. \A i \in Of("tidy-atrium") : Live(i) => Live(i)'
        BY <2>1, <3>3 DEF Live, Of
      <3>5. QED BY <1>1, <2>1, <3>1, <3>2, <3>4, TidyKept
    <2>3. CASE DecideExit(j)
      <3>1. Disembodied(j) /\ UNCHANGED saying /\ pc'[j] # "speaking" /\ Exit \in NextCommands(j)
        BY <1>3, <2>3, Speaker DEF DecideExit, Decide, Becomes
      <3>2. /\ \A f \in Fields : f # "position" => world'[f] = world[f]
            /\ current' \in {current, <<>>} /\ UNCHANGED <<queue, laidMidPut>>
            /\ current' = <<>> \/ UNCHANGED world
        BY <3>1, TakenFrom DEF TidyInv
      <3>3. DescriptorOf[j] = "tidy-atrium" => world.table = {}
        <4>1. \A i, c : Put(i, c) # Exit
          BY Verbs
        <4>2. QED BY <3>1, <4>1 DEF NextCommands, TidyNext
      <3>4. \A i \in Of("tidy-atrium") : Live(i) => Live(i)' \/ world.table = {}
        BY <2>1, <3>3 DEF Live, Of
      <3>5. QED BY <1>1, <2>1, <3>1, <3>2, <3>4, TidyKept, RoomFields DEF Furniture
    <2>4. QED BY <1>3, <2>2, <2>3, SayTidies DEF Speaks
  <1>4. CASE UNCHANGED vars
    BY <1>1, <1>4, TidyKept DEF vars, body, jobs, Live
  <1>5. QED BY <1>2, <1>3, <1>4, StepIs

\* At first the table is to be cleared.
LEMMA TidyInit == ASSUME Init PROVE TidyInv
  <1> DEFINE m == Min(Of("tidy-atrium"))
  <1>1. m \in Of("tidy-atrium")
    BY First, AtriumAssumption DEF Of
  <1>2. pc = [j \in Jobs |-> IF j = m THEN "deciding" ELSE "unborn"]
        /\ queue = <<>> /\ current = <<>> /\ world.table = Items
    BY DEF Init, InitBody
  <1> HIDE DEF m
  <1>3. Someone("tidy-atrium")
    BY <1>1, <1>2 DEF Someone, Live, Of
  <1>4. \A j \in Jobs : pc[j] # "speaking"
    BY <1>2
  <1>5. QED BY <1>2, <1>3, <1>4, Empty DEF TidyInv, ProperInv, TableInv, Tidied

-----------------------------------------------------------------------------
(***************************************************************************)
(* The response to an alarm.                                               *)
(***************************************************************************)
\* In a silent step a command is lost only to its answer, and no answer is read.
LEMMA SilentBody ==
  ASSUME BodyInv, JobInv, Silent
  PROVE  /\ (Kept /\ Waiting) \/ \E x \in Jobs : Lost(x) /\ Answered(x)
         /\ \A b \in Behaviours : unread[b] > 0 => unread'[b] > 0
  <1>1. (Kept /\ Waiting) \/ \E x \in Jobs : Lost(x) /\ Answered(x)
    <2>1. CASE \E j \in Jobs : Grant(j)
      BY <2>1, HoldsStill, Given DEF Grant, Embodied
    <2>2. CASE \E j \in Jobs : Revoke(j)
      BY <2>2, HoldsTaken DEF Revoke
    <2>3. CASE Begin
      BY <2>3, HoldsStarted DEF Begin, Answered
    <2>4. CASE Finish
      BY <2>4, HoldsDone DEF Finish, Answered
    <2>5. CASE Brewed \/ Mess \/ Light
      BY <2>5, Around, HoldsStill DEF Brewed, Mess, Light
    <2>6. CASE Alarm \/ \E d \in Desks : OrderCoffee(d)
      BY <2>6, HandsStill, HoldsStill DEF Alarm, OrderCoffee, body, Waiting
    <2>7. QED BY <2>1, <2>2, <2>3, <2>4, <2>5, <2>6 DEF Silent, People
  <1>2. unread \in [Behaviours -> 0 .. Capacity]
    BY DEF BodyInv, BodyShape
  <1>3. \A b \in Behaviours : unread[b] > 0 => unread'[b] > 0
    <2>1. CASE Waiting
      BY <2>1 DEF Waiting
    <2>2. CASE \E x \in Jobs : Answered(x)
      BY <1>2, <2>2, Arrived DEF Answered
    <2>3. QED BY <1>1, <2>1, <2>2
  <1>4. QED BY <1>1, <1>3

\* While it is under way nobody else says a word, and it is not put off.
LEMMA OnlyItSpeaks ==
  ASSUME BodyInv, JobInv, ResponseInv, NEW j \in Smoke, Live(j)
  PROVE  /\ \A i \in Jobs : Speaks(i) => i = j
         /\ \A i \in Jobs : Revoke(i) => i # j
  <1>1. j \in Jobs /\ DescriptorOf[j] = "smoke-response" /\ Rank(j) = 5
    BY Ranks DEF Smoke, Of
  <1>2. ASSUME NEW i \in Jobs, Speaks(i) PROVE i = j
    <2>1. wearer = i /\ MostUrgent(i) /\ Runnable(i)
      BY <1>2, Speaker
    <2>2. CASE Runnable(j)
      <3>1. Rank(i) <= Rank(j)
        BY <1>1, <2>1, <2>2 DEF MostUrgent
      <3>2. Rank(i) = 5 /\ Rank(i) = Rank(j)
        BY <1>1, <1>2, <3>1, Ranks
      <3>3. QED BY <1>1, <1>2, <2>1, <2>2, <3>2, OneMostUrgent
    <2>3. QED BY <2>1, <2>2 DEF ResponseInv
  <1>3. ASSUME NEW i \in Jobs, Revoke(i) PROVE i # j
    <2>1. PICK k \in Jobs : Rank(k) < Rank(i)
      BY <1>3 DEF Revoke
    <2>2. Rank(k) \in {5, 30, 40, 80}
      BY Ranks
    <2>3. QED BY <1>1, <2>1, <2>2
  <1>4. QED BY <1>2, <1>3

\* An alarm starts one.
LEMMA AlarmStarts ==
  ASSUME JobInv, Alarm
  PROVE  \E m \in Smoke : /\ pc[m] = "unborn" /\ pc'[m] = "deciding" /\ last[m] = "none"
                          /\ \A i \in Smoke : Live(i)' <=> i = m
  <1>1. JobShape /\ Unborn("smoke-response") # {} /\ pc' = Spawned("smoke-response") /\ \A i \in Smoke : ~Live(i)
    BY DEF JobInv, TurnInv, Alarm, Someone, Smoke
  <1>2. PICK m \in Smoke : pc[m] = "unborn" /\ pc'[m] = "deciding" /\ \A i \in Jobs \ {m} : pc'[i] = pc[i]
    BY <1>1, Spawns DEF Smoke
  <1>3. m \in Jobs /\ last[m] = "none"
    BY <1>1, <1>2 DEF JobShape, Smoke, Of
  <1>4. \A i \in Smoke : Live(i)' <=> i = m
    BY <1>1, <1>2 DEF Live, Smoke, Of
  <1>5. QED BY <1>2, <1>3, <1>4

\* A step in which nobody speaks leaves the response the body.
LEMMA ResponseSilent == ASSUME BodyInv, JobInv, ResponseInv, Silent PROVE ResponseInv'
  <1>1. /\ Births /\ UNCHANGED <<saying, last>> /\ \A i \in Jobs : Live(i) => pc'[i] = pc[i]
        /\ Alarm \/ \A i \in Smoke : pc'[i] = pc[i]
    BY Newborn
  <1>2. /\ \A b \in Behaviours : unread[b] > 0 => unread'[b] > 0
        /\ \A i \in Jobs : \A v : Holds(v, i)' => Holds(v, i)
    BY SilentBody DEF Kept, Lost
  <1>3. \A i \in Jobs : (Waits(i)' => Waits(i)) /\ (pc'[i] = "speaking" => pc[i] = "speaking")
    BY <1>1 DEF Births, Waits
  <1>4. Smoke \subseteq Jobs /\ TurnInv
    BY DEF Smoke, Of, JobInv
  <1>5. \A j, k \in Smoke : Live(j)' /\ Live(k)' => j = k
    BY <1>1, AlarmStarts DEF ResponseInv, Live
  <1>6. \A j \in Smoke : Live(j)' => Runnable(j)' \/ wearer' = j
    <2>1. SUFFICES ASSUME NEW j \in Smoke, Live(j)' PROVE Runnable(j)' \/ wearer' = j
      OBVIOUS
    <2>2. CASE Runnable(j)
      BY <1>1, <1>2, <1>4, <2>2, RunsOn
    <2>3. CASE Live(j) /\ wearer = j
      <3>1. UNCHANGED wearer \/ \E i \in Jobs : Grant(i) \/ Revoke(i)
        BY DEF Silent, Begin, Start, Brewed, CoffeeReady, Finish, Complete, People,
        OrderCoffee, Alarm, Mess, SetTable,
               Light, TurnHotplateOn, body
      <3>2. \A i \in Jobs : ~Grant(i)
        BY <1>4, <2>3, BodyAssumption DEF Grant
      <3>3. \A i \in Jobs : ~Revoke(i)
        BY <2>3, OnlyItSpeaks DEF Revoke, Disembodied
      <3>4. QED BY <2>3, <3>1, <3>2, <3>3
    <2>4. CASE ~Live(j)
      <3>1. Alarm
        BY <1>1, <2>1, <2>4 DEF Live
      <3>2. /\ pc'[j] = "deciding" /\ \A i \in Smoke : Live(i)' => i = j
        BY <2>1, <3>1, AlarmStarts
      <3>3. Of(DescriptorOf[j]) = Smoke
        BY DEF Smoke, Of
      <3>4. ~(j < j)
        BY <1>4, AtriumAssumption
      <3>5. \A k \in Of(DescriptorOf[j]) : k < j => ~Live(k)'
        BY <3>2, <3>3, <3>4
      <3>6. QED BY <3>2, <3>5 DEF Runnable
    <2>5. QED BY <2>2, <2>3, <2>4 DEF ResponseInv
  <1>7. QED BY <1>1, <1>2, <1>3, <1>4, <1>5, <1>6 DEF ResponseInv, Smoke, Of

\* Whoever speaks, the last it finished is what the body has of it.
LEMMA ResponseSpeaks == ASSUME BodyInv, JobInv, ResponseInv, NEW i \in Jobs, Speaks(i) PROVE ResponseInv'
  <1>1. /\ wearer = i /\ Live(i)
        /\ \A x \in Jobs \ {i} : pc'[x] = pc[x] /\ saying'[x] = saying[x] /\ last'[x] = last[x]
        /\ DecideExit(i) \/ Live(i)'
        /\ Decide(i) \/ pc'[i] # "speaking"
        /\ SayOrder(i) \/ SayCommand(i) \/ UNCHANGED last
    BY Speaker
  <1>2. Smoke \subseteq Jobs /\ JobShape
    BY DEF Smoke, Of, JobInv, TurnInv
  <1>3. \A x \in Smoke : Live(x)' => Live(x)
    BY <1>1, <1>2 DEF Live
  <1>4. \A x \in Smoke : Live(x)' => wearer' = x
    <2>1. SUFFICES ASSUME NEW x \in Smoke, Live(x)' PROVE wearer' = x
      OBVIOUS
    <2>2. i = x
      BY <1>3, <2>1, OnlyItSpeaks
    <2>3. CASE DecideExit(i)
      <3>1. pc'[i] = "done"
        BY <1>2, <2>3 DEF DecideExit, Becomes, JobShape
      <3>2. QED BY <2>1, <2>2, <3>1 DEF Live
    <2>4. CASE SayCommand(i)
      BY <1>1, <2>2, <2>4, Commands
    <2>5. CASE Decide(i) \/ SayOrder(i) \/ Block(i) \/ ReadAnswer(i)
      BY <1>1, <2>2, <2>5, WordsOnly
    <2>6. QED BY <2>3, <2>4, <2>5 DEF Speaks
  <1>5. ASSUME SayCommand(i) \/ SayOrder(i)
        PROVE  /\ DescriptorOf[i] \in BySteps => last'[i] = saying[i].verb
               /\ saying[i].verb # "none"
    <2>1. /\ pc[i] = "speaking" /\ Says(i) /\ (saying[i] = Tell \/ saying[i] \in Orders)
      BY <1>5 DEF SayCommand, SayOrder, Becomes
    <2>2. saying[i].verb # "none"
      BY <2>1, Verbs
    <2>3. QED BY <2>1, <2>2, Said
  <1>6. ASSUME NEW x \in Jobs, DescriptorOf[x] \in BySteps, Waits(x)' PROVE last'[x] # "none"
    <2>1. CASE x # i
      BY <1>1, <1>6, <2>1 DEF ResponseInv, Waits
    <2>2. CASE x = i /\ ~(SayCommand(i) \/ SayOrder(i))
      <3>1. UNCHANGED last
        BY <1>1, <2>2
      <3>2. Waits(i)
        <4>1. PICK from, to : Becomes(i, from, to) /\ (to \in {"listening", "blocked"} => from = "listening")
          BY <2>2 DEF Speaks, Decide, DecideExit, Block, ReadAnswer
        <4>2. pc'[i] = to /\ pc[i] = from
          BY <1>2, <4>1 DEF Becomes, JobShape
        <4>3. QED BY <1>6, <2>2, <4>1, <4>2 DEF Waits
      <3>3. QED BY <1>6, <2>2, <3>1, <3>2 DEF ResponseInv
    <2>3. QED BY <1>5, <1>6, <2>1, <2>2
  <1>7. ASSUME NEW x \in Jobs, DescriptorOf[x] \in BySteps, NEW v, Holds(v, x)' PROVE last'[x] = v
    <2>1. CASE SayCommand(i)
      <3>1. ~Outstanding(i) /\ (Holds(v, x) \/ (x = i /\ v = saying[i].verb))
        BY <1>7, <2>1, Commands
      <3>2. Holds(v, x) => x # i /\ last[x] = v
        BY <1>7, <3>1, HoldsOne DEF ResponseInv
      <3>3. QED BY <1>1, <1>5, <1>7, <2>1, <3>1, <3>2
    <2>2. CASE ~SayCommand(i)
      <3>1. Holds(v, x)
        <4>1. CASE DecideExit(i)
          <5>1. Kept \/ Lost(i)
            BY <4>1, HoldsTaken DEF DecideExit
          <5>2. QED BY <1>7, <5>1 DEF Kept, Lost
        <4>2. CASE Decide(i) \/ SayOrder(i) \/ Block(i) \/ ReadAnswer(i)
          BY <1>7, <4>2, WordsOnly, HoldsStill DEF Kept
        <4>3. QED BY <2>2, <4>1, <4>2 DEF Speaks
      <3>2. last[x] = v
        BY <1>7, <3>1 DEF ResponseInv
      <3>3. SayOrder(i) => x # i
        BY <3>1, Token DEF SayOrder
      <3>4. QED BY <1>1, <2>2, <3>2, <3>3
    <2>3. QED BY <2>1, <2>2
  <1>8. ASSUME NEW x \in Smoke, pc'[x] = "speaking" PROVE last'[x] # "press"
    <2>1. CASE x # i
      BY <1>1, <1>2, <1>8, <2>1 DEF ResponseInv
    <2>2. CASE x = i
      <3>1. Decide(i)
        BY <1>1, <1>8, <2>2
      <3>2. NextCommands(i) \ {Exit} # {} /\ UNCHANGED last
        BY <3>1 DEF Decide
      <3>3. last[i] # "press"
        BY <2>2, <3>2 DEF NextCommands, SmokeNext, Smoke, Of
      <3>4. QED BY <2>2, <3>2, <3>3
    <2>3. QED BY <2>1, <2>2
  <1>9. QED BY <1>2, <1>3, <1>4, <1>6, <1>7, <1>8 DEF ResponseInv

-----------------------------------------------------------------------------
(***************************************************************************)
(* The hotplate.                                                           *)
(***************************************************************************)
\* Where nothing is with the body there is nothing in hand and nothing in line.
LEMMA IdleBody == ASSUME BodyInv PROVE Idle <=> current = <<>> /\ queue = <<>>
  <1>1. ASSUME Idle PROVE current = <<>> /\ queue = <<>>
    <2>1. current = <<>>
      BY <1>1, Hand DEF Idle, BodyInv, Outstanding, ActionFits
    <2>2. ASSUME queue # <<>> PROVE FALSE
      <3>1. 1 \in DOMAIN queue /\ queue[1] \in [job : Jobs, command : Orders]
        BY <2>2, Dropped DEF BodyInv, BodyShape
      <3>2. QED BY <1>1, <3>1 DEF Idle, Outstanding, Queued
    <2>3. QED BY <2>1, <2>2
  <1>2. ASSUME current = <<>>, queue = <<>> PROVE Idle
    BY <1>2, Empty DEF Idle, Outstanding, Doing, Queued
  <1>3. QED BY <1>1, <1>2

\* A step of the room's, or the kernel's, keeps the press where it is to be.
LEMMA PressKept ==
  ASSUME PressInv, Settled, UNCHANGED <<saying, last, leaving, queue>>, relit' = relit \/ relit',
         \A i \in Smoke : pc'[i] = pc[i],
         Idle => world'.position = world.position /\ Idle',
         \A i \in Smoke : Live(i) /\ last[i] = "none" /\ world'.position = "hotplate"
                          => world.position = "hotplate" \/ Idle',
         ~relit' => (world.hotplate = "off" => world'.hotplate = "off"),
         \A i \in Smoke : Live(i) /\ Holds("press", i) => Holds("press", i)' \/ world'.hotplate = "off"
  PROVE  PressInv'
  <1>1. \A i \in Smoke : (Live(i)' <=> Live(i)) /\ last'[i] = last[i] /\ saying'[i] = saying[i]
    BY DEF Live
  <1>2. ASSUME ~leaving', NEW j \in Smoke
        PROVE  /\ Live(j)' /\ last'[j] = "none" /\ world'.position = "hotplate" => Idle'
               /\ pc'[j] = "speaking" /\ saying'[j].verb = "press" => world'.position = "hotplate" /\ Idle'
               /\ \A k \in DOMAIN queue' : ~(queue'[k].job = j /\ queue'[k].command.verb = "press")
    <2>1. ~leaving
      BY <1>2
    <2>2. Live(j)' /\ last'[j] = "none" /\ world'.position = "hotplate" => Idle'
      BY <1>1, <2>1 DEF PressInv
    <2>3. pc'[j] = "speaking" /\ saying'[j].verb = "press" => world'.position = "hotplate" /\ Idle'
      BY <1>1, <2>1 DEF PressInv
    <2>4. \A k \in DOMAIN queue : ~(queue[k].job = j /\ queue[k].command.verb = "press")
      BY <2>1, Empty DEF PressInv, Settled
    <2>5. QED BY <2>2, <2>3, <2>4
  <1>3. ASSUME ~relit', ~leaving', \E j \in Smoke : pc'[j] # "unborn"
        PROVE  \/ world'.hotplate = "off"
               \/ \E j \in Smoke : Live(j)' /\ (last'[j] # "press" \/ Holds("press", j)')
    <2>1. world.hotplate = "off" \/ \E j \in Smoke : Live(j) /\ (last[j] # "press" \/ Holds("press", j))
      BY <1>3 DEF PressInv
    <2>2. QED BY <1>1, <1>3, <2>1
  <1>4. QED BY <1>2, <1>3 DEF PressInv, Live, Smoke, Of

\* An alarm before the body leaves the hotplate finds it away, or idle.
LEMMA AlarmPresses == ASSUME BodyInv, JobInv, PressInv, Alarm PROVE PressInv'
  <1>1. /\ UNCHANGED <<world, current, queue, saying, last>> /\ Settled
        /\ leaving' = (world.position = "hotplate" /\ current # <<>>)
        /\ \A i \in Smoke : ~Live(i)
    BY DEF Alarm, body, Someone, Smoke
  <1>2. PICK m \in Smoke : /\ pc'[m] = "deciding" /\ last[m] = "none" /\ \A i \in Smoke : Live(i)' <=> i = m
    BY AlarmStarts
  <1>3. \A i \in Jobs : pc'[i] = "speaking" => pc[i] = "speaking"
    BY Newborn DEF Births, Silent, People
  <1>4. \A i \in Smoke : pc'[i] # "speaking" /\ ~Outstanding(i)
    BY <1>1, <1>3 DEF Live, Smoke, Of, JobInv, TurnInv, WaitsInv, Waits
  <1>5. ASSUME ~leaving', world.position = "hotplate" PROVE Idle'
    <2>1. current = <<>> /\ queue = <<>>
      BY <1>1, <1>5 DEF Settled
    <2>2. Idle
      BY <2>1, IdleBody
    <2>3. QED BY <1>1, <2>2, HandsStill DEF Idle
  <1>6. \A k \in DOMAIN queue' : queue'[k].job \notin Smoke
    BY <1>1, <1>4 DEF Outstanding, Queued
  <1>7. Live(m)' /\ last'[m] # "press"
    BY <1>1, <1>2
  <1>8. QED BY <1>1, <1>4, <1>5, <1>6, <1>7 DEF PressInv, Smoke, Of, Live

\* A press that is begun is possible; while one is in line nothing else is with the body.
LEMMA BeginPresses == ASSUME BodyInv, JobInv, TidyInv, PressInv, Begin PROVE PressInv'
  <1>1. Start /\ UNCHANGED <<pc, saying, last, relit, leaving>>
    BY DEF Begin, jobs, story
  <1>2. UNCHANGED <<wearer, world>> /\ current = <<>> /\ queue # <<>> /\ queue' = Tail(queue)
    BY <1>1, Started
  <1>3. ~Idle
    BY <1>2, IdleBody
  <1>4. /\ 1 \in DOMAIN queue /\ DOMAIN queue' = 1 .. Len(queue) - 1 /\ Len(queue) \in Nat
        /\ \A k \in DOMAIN queue' : queue'[k] = queue[k + 1] /\ k + 1 \in DOMAIN queue
    BY <1>2, Dequeued
  <1>5. \A k \in DOMAIN queue' : k + 1 # 1
    BY <1>4
  <1>6. ASSUME ~leaving, NEW j \in Smoke
        PROVE  \A k \in DOMAIN queue' : ~(queue'[k].job = j /\ queue'[k].command.verb = "press")
    BY <1>4, <1>5, <1>6 DEF PressInv
  <1>7. ASSUME ~leaving, NEW j \in Smoke, Holds("press", j) PROVE Holds("press", j)'
    <2>1. PICK k \in DOMAIN queue : queue[k].job = j /\ queue[k].command.verb = "press"
      BY <1>2, <1>7, Empty DEF Holds
    <2>2. k = 1 /\ wearer = j /\ world.position = "hotplate"
      BY <1>7, <2>1 DEF PressInv
    <2>3. queue[1].job = wearer /\ Can(queue[1].command)
      BY <2>1, <2>2 DEF Can
    <2>4. Kept
      BY <1>1, <2>3, Begins
    <2>5. QED BY <1>7, <2>4 DEF Kept, Smoke, Of
  <1>8. QED BY <1>1, <1>2, <1>3, <1>6, <1>7 DEF PressInv, Live, Smoke, Of

\* What is done leaves the body at the hotplate with nothing more to do there, or is the press.
LEMMA FinishPresses == ASSUME MorningInv, TidyInv, ResponseInv, PressInv, Finish PROVE PressInv'
  <1>1. BodyInv /\ JobInv /\ Fifo
    BY DEF MorningInv, OrderInv
  <1>2. PICK ready \in BOOLEAN : Complete(ready)
    BY DEF Finish
  <1> DEFINE a == current[1]
  <1>3. /\ UNCHANGED queue /\ current # <<>> /\ current' = <<>>
        /\ \A f \in DOMAIN a.outcome : world'[f] = a.outcome[f]
        /\ \A f \in Fields \ DOMAIN a.outcome : world'[f] = IF ready /\ f = "machine" THEN "ready" ELSE world[f]
    BY <1>1, <1>2, Done
  <1>4. Lost(a.job) /\ Answered(a.job)
    BY <1>1, <1>2, HoldsDone
  <1>5. 1 \in DOMAIN current /\ DOMAIN current = {1} /\ Doing(a.job) /\ a.job \in Jobs /\ Outstanding(a.job)
    BY <1>1, <1>3, Hand DEF BodyInv, ActionFits, Outstanding
  <1>6. Proper(a.job, a.command) /\ RoomLeft(a.command, a.outcome)
    BY <1>5 DEF TidyInv, ProperInv
  <1>7. Settling(a.job)
    BY <1>1, <1>3, <1>4, <1>5, HandSettles
  <1>8. \A i \in Smoke : pc'[i] = pc[i] /\ i \in Jobs
                         /\ DescriptorOf[i] = "smoke-response" /\ i \in Of("smoke-response")
    <2>1. ~Alarm
      BY <1>3 DEF Alarm, body
    <2>2. QED BY <1>1, <2>1, Newborn DEF Silent, Smoke, Of
  <1>9. UNCHANGED <<saying, last, leaving, relit>> /\ Settled
    BY <1>3 DEF Finish, Settled
  <1>10. \A i \in Smoke : last[i] = "none" => ~Outstanding(i)
    BY <1>1, <1>8 DEF ResponseInv, JobInv, TurnInv, WaitsInv, BySteps
  <1> HIDE DEF a
  <1>11. ASSUME NEW i \in Smoke, Live(i), last[i] = "none", world'.position = "hotplate"
         PROVE  world.position = "hotplate" \/ Idle'
    <2>1. CASE a.command.verb = "navigate"
      <3>1. a.job # i
        BY <1>5, <1>10, <1>11
      <3>2. a.outcome = [position |-> a.command.where]
        BY <1>6, <2>1 DEF RoomLeft
      <3>3. "position" \in DOMAIN a.outcome /\ a.outcome["position"] = a.command.where
        BY <3>2
      <3>4. a.command.where = "hotplate"
        BY <1>3, <1>11, <3>3
      <3>5. DescriptorOf[a.job] \notin {"tidy-atrium", "brew-coffee"}
        BY <1>6, <2>1, <3>4 DEF Proper
      <3>6. DescriptorOf[a.job] # "smoke-response"
        <4>1. Live(a.job)
          BY <1>1, <1>5 DEF JobInv, TurnInv, WaitsInv, Waits, Live
        <4>2. QED BY <1>5, <1>11, <3>1, <4>1 DEF ResponseInv, Smoke, Of
      <3>7. Rank(a.job) = 30
        BY <1>5, <3>5, <3>6, OfTheFour, Ranks
      <3>8. ASSUME NEW x \in Jobs, Outstanding(x)' PROVE FALSE
        <4>1. Rank(x) < Rank(a.job) /\ Outstanding(x)
          BY <1>4, <1>7, <3>8 DEF Settling, Answered
        <4>2. DescriptorOf[x] = "smoke-response"
          BY <3>7, <4>1, OfTheFour, Ranks
        <4>3. Live(x)
          BY <1>1, <4>1 DEF JobInv, TurnInv, WaitsInv, Waits, Live
        <4>4. x = i
          BY <1>11, <4>2, <4>3 DEF ResponseInv, Smoke, Of
        <4>5. QED BY <1>10, <1>11, <4>1, <4>4
      <3>9. QED BY <3>8 DEF Idle
    <2>2. CASE a.command.verb = "put"
      BY <1>3, <1>6, <1>11, <2>2, RoomFields DEF RoomLeft
    <2>3. CASE a.command.verb \notin {"navigate", "put"}
      <3>1. "position" \in Fields \ DOMAIN a.outcome
        BY <1>6, <2>3, RoomFields DEF RoomLeft
      <3>2. QED BY <1>3, <1>11, <3>1
    <2>4. QED BY <2>1, <2>2, <2>3
  <1>12. a.command.verb = "press" => world'.hotplate = "off"
    <2>1. ASSUME a.command.verb = "press" PROVE world'.hotplate = "off"
      <3>1. a.outcome = [hotplate |-> "off"]
        BY <1>6, <2>1 DEF RoomLeft
      <3>2. "hotplate" \in DOMAIN a.outcome /\ a.outcome["hotplate"] = "off"
        BY <3>1
      <3>3. QED BY <1>3, <3>2
    <2>2. QED BY <2>1
  <1>13. world.hotplate = "off" => world'.hotplate = "off"
    <2>1. a.command.verb # "press" => "hotplate" \in Fields \ DOMAIN a.outcome
      BY <1>6, RoomFields DEF RoomLeft
    <2>2. QED BY <1>3, <1>12, <2>1
  <1>14. ASSUME NEW i \in Smoke, Holds("press", i) PROVE Holds("press", i)' \/ world'.hotplate = "off"
    <2>1. CASE i # a.job
      BY <1>4, <1>8, <1>14, <2>1 DEF Lost
    <2>2. CASE i = a.job
      <3>1. ~Queued(i)
        BY <1>1, <1>5, <2>2 DEF BodyInv, OneEach
      <3>2. a.command.verb = "press"
        BY <1>5, <1>14, <3>1 DEF Holds, Queued, a
      <3>3. QED BY <1>12, <3>2
    <2>3. QED BY <2>1, <2>2
  <1>15. ~Idle
    BY <1>5 DEF Idle
  <1>16. QED BY <1>3, <1>8, <1>9, <1>11, <1>13, <1>14, <1>15, PressKept

\* Only it speaks of a press, where the body stands at the hotplate with nothing else to do.
LEMMA SpeaksPress ==
  ASSUME MorningInv, ResponseInv, PressInv, NEW i \in Jobs, Speaks(i) PROVE PressInv'
  <1>1. BodyInv /\ JobInv /\ Overtaken /\ Overtakes /\ JobShape
    BY DEF MorningInv, OrderInv, JobInv, TurnInv
  <1>2. /\ wearer = i /\ Settled /\ Live(i) /\ pc'[i] # "unborn"
        /\ \A x \in Jobs \ {i} : pc'[x] = pc[x] /\ saying'[x] = saying[x] /\ last'[x] = last[x]
        /\ DecideExit(i) \/ Live(i)'
        /\ Decide(i) \/ pc'[i] # "speaking"
        /\ SayOrder(i) \/ SayCommand(i) \/ UNCHANGED last
        /\ UNCHANGED <<relit, leaving>>
    BY <1>1, Speaker
  <1>3. Smoke \subseteq Jobs /\ \A x \in Smoke : DescriptorOf[x] = "smoke-response"
    BY DEF Smoke, Of
  <1>4. ASSUME NEW j \in Smoke, Live(j)' PROVE i = j /\ Live(j)
    <2>1. Live(j)
      BY <1>2, <1>3, <1>4 DEF Live
    <2>2. QED BY <1>1, <1>2, <2>1, OnlyItSpeaks
  <1>5. ASSUME SayOrder(i) \/ SayCommand(i), i \in Smoke PROVE last'[i] = saying[i].verb /\ pc[i] = "speaking"
    <2>1. /\ pc[i] = "speaking" /\ Says(i) /\ (saying[i] = Tell \/ saying[i] \in Orders)
      BY <1>5 DEF SayCommand, SayOrder, Becomes
    <2>2. QED BY <1>1, <1>3, <1>5, <2>1, Said DEF BySteps
  <1>6. ASSUME ~leaving, NEW j \in Smoke, NEW k \in DOMAIN queue, queue[k].job = j, queue[k].command.verb = "press"
        PROVE  FALSE
    <2>1. current = <<>> /\ queue # <<>>
      BY <1>6, Empty DEF PressInv
    <2>2. QED BY <1>2, <2>1 DEF Settled
  <1>7. ASSUME ~leaving, NEW j \in Smoke, Live(j)', last'[j] = "none", world'.position = "hotplate" PROVE Idle'
    <2>1. i = j /\ Live(j)
      BY <1>4, <1>7
    <2>2. ~(SayOrder(i) \/ SayCommand(i))
      <3>1. ASSUME SayOrder(i) \/ SayCommand(i) PROVE FALSE
        <4>1. saying[i].verb = "none" /\ (saying[i] = Tell \/ saying[i] \in Orders)
          BY <1>5, <1>7, <2>1, <3>1 DEF SayOrder, SayCommand
        <4>2. QED BY <4>1, Verbs
      <3>2. QED BY <3>1
    <2>3. ~DecideExit(i)
      BY <1>1, <1>7, <2>1 DEF DecideExit, Becomes, Live, JobShape
    <2>4. UNCHANGED <<wearer, queue, current, world, last>>
      BY <1>2, <2>2, <2>3, WordsOnly DEF Speaks
    <2>5. Idle
      BY <1>7, <2>1, <2>4 DEF PressInv
    <2>6. QED BY <2>4, <2>5, HandsStill DEF Idle
  <1>8. ASSUME ~leaving, NEW j \in Smoke, pc'[j] = "speaking", saying'[j].verb = "press"
        PROVE  world'.position = "hotplate" /\ Idle'
    <2>1. i = j /\ Live(j)
      BY <1>4, <1>8 DEF Live
    <2>2. Decide(i)
      BY <1>2, <1>8, <2>1
    <2>3. PICK c \in NextCommands(i) \ {Exit} : saying' = [saying EXCEPT ![i] = c]
      BY <2>2 DEF Decide
    <2>4. c.verb = "press"
      BY <1>1, <1>8, <2>1, <2>3 DEF JobShape
    <2>5. c \in SmokeNext(i) \ {Exit}
      BY <1>3, <2>1, <2>3 DEF NextCommands
    <2>6. \A p : Navigate(p) # c /\ Place # c
      BY <2>4, Verbs
    <2>7. world.position = "hotplate" /\ last[i] # "press"
      BY <2>5, <2>6 DEF SmokeNext
    <2>8. ~Outstanding(i)
      BY <1>1, <2>2, Token DEF Decide
    <2>9. Idle
      <3>1. CASE last[i] = "none"
        BY <1>8, <2>1, <2>7, <3>1 DEF PressInv
      <3>2. CASE last[i] # "none"
        BY <1>1, <1>2, <1>3, <2>1, <2>8, <3>2, NothingBehind DEF Underway, Idle
      <3>3. QED BY <3>1, <3>2
    <2>10. UNCHANGED <<queue, current, world>>
      BY <2>2, WordsOnly
    <2>11. QED BY <2>7, <2>9, <2>10, HandsStill DEF Idle
  <1>9. ASSUME ~leaving, NEW j \in Smoke, NEW k \in DOMAIN queue', queue'[k].job = j, queue'[k].command.verb = "press"
        PROVE  k = 1 /\ current' = <<>> /\ wearer' = j /\ world'.position = "hotplate"
    <2>1. CASE SayCommand(i)
      <3>1. /\ ~Outstanding(i) /\ UNCHANGED <<wearer, current, world>> /\ saying[i] \in Orders
            /\ queue' = Append(queue, [job |-> i, command |-> saying[i]])
        BY <1>1, <2>1, Commands
      <3>2. /\ DOMAIN queue = 1 .. Len(queue) /\ Len(queue) \in Nat /\ DOMAIN queue' = 1 .. Len(queue) + 1
            /\ \A l \in DOMAIN queue : queue'[l] = queue[l]
            /\ queue'[Len(queue) + 1].job = i /\ queue'[Len(queue) + 1].command = saying[i]
        BY <1>1, <3>1, Enqueued
      <3>3. k \notin DOMAIN queue
        BY <1>6, <1>9, <3>2
      <3>4. k = Len(queue) + 1
        BY <3>2, <3>3
      <3>5. j = i /\ saying[i].verb = "press"
        BY <1>9, <3>2, <3>4
      <3>6. pc[i] = "speaking"
        BY <2>1 DEF SayCommand, Becomes
      <3>7. world.position = "hotplate" /\ Idle
        BY <1>9, <3>5, <3>6 DEF PressInv
      <3>8. current = <<>> /\ queue = <<>>
        BY <1>1, <3>7, IdleBody
      <3>9. Len(queue) = 0
        BY <3>8
      <3>10. QED BY <1>2, <3>1, <3>4, <3>5, <3>7, <3>8, <3>9
    <2>2. CASE ~SayCommand(i)
      <3>1. UNCHANGED queue
        BY <2>2, WordsOnly DEF Speaks, DecideExit, Disembodied
      <3>2. QED BY <1>6, <1>9, <3>1
    <2>3. QED BY <2>1, <2>2
  <1>10. ASSUME ~relit, ~leaving, \E j \in Smoke : pc'[j] # "unborn"
         PROVE  \/ world'.hotplate = "off"
                \/ \E j \in Smoke : Live(j)' /\ (last'[j] # "press" \/ Holds("press", j)')
    <2>1. \E j \in Smoke : pc[j] # "unborn"
      BY <1>2, <1>3, <1>10 DEF Live
    <2>2. world'.hotplate = world.hotplate
      <3>1. CASE DecideExit(i)
        BY <1>1, <3>1, Taken, RoomFields DEF DecideExit
      <3>2. CASE SayCommand(i)
        BY <1>1, <3>2, Commands
      <3>3. CASE Decide(i) \/ SayOrder(i) \/ Block(i) \/ ReadAnswer(i)
        BY <3>3, WordsOnly
      <3>4. QED BY <1>2, <3>1, <3>2, <3>3 DEF Speaks
    <2>3. CASE world.hotplate = "off"
      BY <2>2, <2>3
    <2>4. ASSUME NEW j \in Smoke, Live(j), last[j] # "press" \/ Holds("press", j)
          PROVE  Live(j)' /\ (last'[j] # "press" \/ Holds("press", j)')
      <3>1. i = j
        BY <1>1, <1>2, <2>4, OnlyItSpeaks
      <3>2. ~DecideExit(i)
        <4>1. ASSUME DecideExit(i) PROVE FALSE
          <5>1. Exit \in NextCommands(i) /\ ~Holds("press", i)
            BY <1>1, <4>1, Token DEF DecideExit
          <5>2. last[i] = "press"
            BY <1>1, <1>3, <3>1, <5>1, Decides DEF JobInv
          <5>3. QED BY <2>4, <3>1, <5>1, <5>2
        <4>2. QED BY <4>1
      <3>3. Live(i)'
        BY <1>2, <3>2
      <3>4. CASE SayCommand(i)
        <4>1. last'[i] = saying[i].verb
          BY <1>5, <3>1, <3>4
        <4>2. \A v : v = saying[i].verb => Holds(v, i)'
          BY <1>1, <3>4, Commands
        <4>3. QED BY <3>1, <3>3, <4>1, <4>2
      <3>5. CASE SayOrder(i)
        <4>1. last'[i] = "tell"
          BY <1>5, <3>1, <3>5, Verbs DEF SayOrder
        <4>2. QED BY <3>1, <3>3, <4>1
      <3>6. CASE Decide(i) \/ Block(i) \/ ReadAnswer(i)
        <4>1. UNCHANGED <<last, queue, current>>
          BY <3>6, WordsOnly DEF Decide, Block, ReadAnswer
        <4>2. Holds("press", j) => Holds("press", j)'
          BY <1>3, <4>1, HoldsStill DEF Kept
        <4>3. QED BY <2>4, <3>1, <3>3, <4>1, <4>2
      <3>7. QED BY <1>2, <3>2, <3>4, <3>5, <3>6 DEF Speaks
    <2>5. QED BY <1>10, <2>1, <2>3, <2>4 DEF PressInv
  <1>11. QED BY <1>2, <1>7, <1>8, <1>9, <1>10 DEF PressInv, Live, Smoke, Of

\* So do the kernel, the machine and the people in the room.
LEMMA RoomPresses ==
  ASSUME MorningInv, TidyInv, ResponseInv, PressInv,
         (\E j \in Jobs : Grant(j) \/ Revoke(j)) \/ Brewed \/ Mess \/ Light \/ \E d \in Desks : OrderCoffee(d)
  PROVE  PressInv'
  <1>1. BodyInv /\ JobInv
    BY DEF MorningInv
  <1>2. Silent /\ Settled
    BY DEF Silent, People, Grant, Embodied, Revoke, Disembodied, Brewed, CoffeeReady, Mess, SetTable, Light,
           TurnHotplateOn, OrderCoffee
  <1>3. Smoke \subseteq Jobs
    BY DEF Smoke, Of
  <1>4. \A i \in Smoke : pc'[i] = pc[i]
    <2>1. CASE ~Alarm
      BY <1>1, <1>2, <2>1, Newborn
    <2>2. CASE Alarm
      <3>1. \A i \in Smoke : ~Live(i)
        BY <2>2 DEF Alarm, Someone, Smoke
      <3>2. UNCHANGED pc \/ \E b : b # "smoke-response" /\ Unborn(b) # {} /\ pc' = Spawned(b)
        <4>1. world.machine = "brewing" => Unborn("deliver-coffee") # {}
          BY <1>1, RoomForOne DEF JobInv
        <4>2. QED BY <4>1 DEF Grant, Revoke, Brewed, CoffeeReady, Mess, Light, OrderCoffee, jobs
      <3>3. QED BY <1>1, <3>2, BirthOf, NoBirth DEF JobInv, TurnInv, Smoke, Of
    <2>3. QED BY <2>1, <2>2
  <1>5. UNCHANGED <<saying, last, leaving, queue>>
    BY DEF Grant, Embodied, Revoke, Disembodied, Brewed, CoffeeReady, Mess, SetTable, Light, TurnHotplateOn,
    OrderCoffee,
           body, jobs, story
  <1>6. CASE \E j \in Jobs : Revoke(j)
    <2>1. PICK j \in Jobs : Revoke(j)
      BY <1>6
    <2>2. Disembodied(j) /\ UNCHANGED relit
      BY <2>1 DEF Revoke, story
    <2>3. /\ world'.hotplate = world.hotplate
          /\ world'.position \in {world.position, "corridor"}
          /\ Doing(j) \/ UNCHANGED <<world, current>>
      BY <1>1, <2>2, TakenFrom, RoomFields DEF TidyInv
    <2>4. Idle => UNCHANGED <<world, current>>
      BY <2>3 DEF Idle, Outstanding
    <2>5. Idle => world'.position = world.position /\ Idle'
      BY <1>5, <2>4, HandsStill DEF Idle
    <2>6. ASSUME NEW i \in Smoke, Live(i), Holds("press", i) PROVE Holds("press", i)'
      <3>1. i # j
        BY <1>1, <2>1, <2>6, OnlyItSpeaks
      <3>2. Kept \/ Lost(j)
        BY <1>1, <2>2, HoldsTaken
      <3>3. QED BY <1>3, <2>6, <3>1, <3>2 DEF Kept, Lost
    <2>7. QED BY <1>2, <1>4, <1>5, <2>2, <2>3, <2>5, <2>6, PressKept
  <1>7. CASE ~\E j \in Jobs : Revoke(j)
    <2>1. /\ UNCHANGED <<queue, current>> /\ world'.position = world.position
          /\ relit' \/ (relit' = relit /\ world'.hotplate = world.hotplate)
      <3>1. CASE (\E j \in Jobs : Grant(j)) \/ \E d \in Desks : OrderCoffee(d)
        BY <3>1 DEF Grant, Embodied, OrderCoffee, body, story
      <3>2. CASE Brewed \/ Mess \/ Light
        <4>1. (Mess => SetTable /\ UNCHANGED relit) /\ (Light => TurnHotplateOn /\ relit')
              /\ (Brewed => CoffeeReady /\ UNCHANGED relit)
          BY DEF Mess, Light, Brewed, story
        <4>2. QED BY <1>1, <3>2, <4>1, Around, RoomFields DEF Furniture
      <3>3. QED BY <1>7, <3>1, <3>2
    <2>2. Kept /\ (Idle => Idle')
      BY <2>1, HoldsStill, HandsStill DEF Idle
    <2>3. \A i \in Smoke : Live(i) /\ Holds("press", i) => Holds("press", i)'
      BY <1>3, <2>2 DEF Kept
    <2>4. QED BY <1>2, <1>4, <1>5, <2>1, <2>2, <2>3, PressKept
  <1>8. QED BY <1>6, <1>7

AlarmInv == ResponseInv /\ PressInv

\* Each step keeps the response the body, and its press where it is to be.
LEMMA AlarmStep == ASSUME MorningInv, TidyInv, AlarmInv, [Next]_vars PROVE AlarmInv'
  <1>1. BodyInv /\ JobInv /\ ResponseInv /\ PressInv
    BY DEF MorningInv, AlarmInv
  <1>2. CASE Silent
    <2>1. ResponseInv'
      BY <1>1, <1>2, ResponseSilent
    <2>2. PressInv'
      BY <1>1, <1>2, AlarmPresses, BeginPresses, FinishPresses, RoomPresses DEF Silent, People
    <2>3. QED BY <2>1, <2>2 DEF AlarmInv
  <1>3. CASE \E j \in Jobs : Speaks(j)
    BY <1>1, <1>3, ResponseSpeaks, SpeaksPress DEF AlarmInv
  <1>4. CASE UNCHANGED vars
    <2>1. /\ UNCHANGED <<pc, saying, last, queue, current, wearer, unread, world, relit, leaving>>
          /\ \A i : (Outstanding(i)' <=> Outstanding(i))
      BY <1>4, HandsStill DEF vars, body, jobs, story
    <2>2. ResponseInv'
      BY <1>1, <2>1 DEF ResponseInv, Live, Runnable, Waits, Holds, Smoke, Of
    <2>3. PressInv'
      BY <1>1, <2>1 DEF PressInv, Live, Idle, Holds, Smoke, Of
    <2>4. QED BY <2>2, <2>3 DEF AlarmInv
  <1>5. QED BY <1>2, <1>3, <1>4, StepIs

\* At first nothing has gone off.
LEMMA AlarmInit == ASSUME Init PROVE AlarmInv
  <1> DEFINE m == Min(Of("tidy-atrium"))
  <1>1. m \in Of("tidy-atrium")
    BY First, AtriumAssumption DEF Of
  <1>2. /\ pc = [j \in Jobs |-> IF j = m THEN "deciding" ELSE "unborn"]
        /\ last = [j \in Jobs |-> "none"] /\ queue = <<>> /\ current = <<>>
    BY DEF Init, InitBody
  <1> HIDE DEF m
  <1>3. \A j \in Smoke : pc[j] = "unborn" /\ j \in Jobs
    BY <1>1, <1>2 DEF Smoke, Of
  <1>4. \A j \in Jobs : ~Waits(j) /\ \A v : ~Holds(v, j)
    BY <1>2, Empty DEF Waits, Holds
  <1>5. ResponseInv
    BY <1>3, <1>4 DEF ResponseInv, Live
  <1>6. PressInv
    BY <1>2, <1>3, Empty DEF PressInv, Live
  <1>7. QED BY <1>5, <1>6 DEF AlarmInv

-----------------------------------------------------------------------------
(***************************************************************************)
(* The order.                                                              *)
(***************************************************************************)
\* A job with a command with the body is not over.
LEMMA HoldersLive == ASSUME JobInv, NEW x \in Jobs, NEW v, Holds(v, x) PROVE Live(x) /\ Outstanding(x)
  BY HoldsOne DEF JobInv, TurnInv, WaitsInv, Waits, Live

\* Of what is done, only a brew starts the machine, and takes the cup from where it was.
LEMMA FinishBrews ==
  ASSUME MorningInv, Finish
  PROVE  /\ current # <<>> /\ current[1].job \in Jobs /\ Lost(current[1].job)
         /\ Holds(current[1].command.verb, current[1].job) /\ 1 \in DOMAIN current
         /\ \A v : Holds(v, current[1].job) => v = current[1].command.verb
         /\ current[1].command.verb = "brew" => world'.machine = "brewing"
         /\ current[1].command.verb # "brew" =>
              world'.machine = world.machine \/ (world.machine = "brewing" /\ world'.machine = "ready")
         /\ current[1].command.verb \notin {"brew", "pick", "place"} => world'.coffee = world.coffee
         /\ current[1].command.verb = "place" => world.coffee = "gripper"
         /\ UNCHANGED queue /\ current' = <<>>
         /\ world.machine = "brewing" /\ world'.machine # "brewing" => pc' = Spawned("deliver-coffee")
  <1> DEFINE a == current[1]
  <1>1. BodyInv
    BY DEF MorningInv
  <1>2. PICK ready \in BOOLEAN : Complete(ready) /\ pc' = IF ready THEN Spawned("deliver-coffee") ELSE pc
    BY DEF Finish
  <1>3. /\ UNCHANGED queue /\ current # <<>> /\ current' = <<>>
        /\ \A f \in DOMAIN a.outcome : world'[f] = a.outcome[f]
        /\ \A f \in Fields \ DOMAIN a.outcome : world'[f] = IF ready /\ f = "machine" THEN "ready" ELSE world[f]
        /\ ready => world.machine = "brewing"
    BY <1>1, <1>2, Done
  <1>4. Lost(a.job) /\ a.job \in Jobs
    BY <1>1, <1>2, HoldsDone DEF Answered
  <1>5. 1 \in DOMAIN current /\ DOMAIN current = {1} /\ CupLeft(a.command.verb, a.outcome) /\ Doing(a.job)
    BY <1>1, <1>3, Hand DEF BodyInv, ActionFits
  <1>6. ~Queued(a.job)
    BY <1>1, <1>4, <1>5 DEF BodyInv, OneEach
  <1>7. Holds(a.command.verb, a.job) /\ \A v : Holds(v, a.job) => v = a.command.verb
    BY <1>5, <1>6 DEF Holds, Queued
  <1>8. a.command.verb = "place" => world.coffee = "gripper"
    BY <1>5 DEF MorningInv, OrderInv, BrewInv, InHand
  <1> HIDE DEF a
  <1>9. ASSUME a.command.verb = "brew" PROVE world'.machine = "brewing"
    <2>1. a.outcome = [machine |-> "brewing", coffee |-> "coffee-machine"]
      BY <1>5, <1>9 DEF CupLeft
    <2>2. "machine" \in DOMAIN a.outcome /\ a.outcome["machine"] = "brewing"
      BY <2>1
    <2>3. QED BY <1>3, <2>2
  <1>10. ASSUME a.command.verb # "brew" PROVE "machine" \in Fields \ DOMAIN a.outcome
    <2>1. CASE a.command.verb = "pick"
      BY <1>5, <2>1 DEF CupLeft, Fields
    <2>2. CASE a.command.verb = "place"
      <3>1. PICK p \in Places : a.outcome = [holding |-> "nothing", coffee |-> p]
        BY <1>5, <2>2 DEF CupLeft
      <3>2. DOMAIN a.outcome = {"holding", "coffee"}
        BY <3>1
      <3>3. QED BY <3>2 DEF Fields
    <2>3. CASE a.command.verb \notin {"brew", "pick", "place"}
      BY <1>5, <2>3 DEF CupLeft, Fields
    <2>4. QED BY <1>10, <2>1, <2>2, <2>3
  <1>11. ASSUME a.command.verb \notin {"brew", "pick", "place"} PROVE world'.coffee = world.coffee
    <2>1. "coffee" \in Fields \ DOMAIN a.outcome
      BY <1>5, <1>11 DEF CupLeft, Fields
    <2>2. QED BY <1>3, <2>1
  <1>12. a.command.verb # "brew" => world'.machine = world.machine
         \/ (world.machine = "brewing" /\ world'.machine = "ready")
    BY <1>3, <1>10
  <1>13. world.machine = "brewing" /\ world'.machine # "brewing" => pc' = Spawned("deliver-coffee")
    BY <1>2, <1>3, <1>9, <1>10
  <1>14. QED BY <1>3, <1>4, <1>5, <1>7, <1>8, <1>9, <1>11, <1>12, <1>13 DEF a

\* What becomes of a coffee while nobody says a word.
LEMMA SilentBrew ==
  ASSUME MorningInv, Silent
  PROVE  /\ Delivering => Delivering'
         /\ Delivering' => Delivering \/ world.machine = "brewing"
         /\ world.machine = "brewing" => world'.machine = "brewing" \/ Delivering'
         /\ world'.machine = "brewing" =>
              \/ world.machine = "brewing"
              \/ \E x \in Brewer : Live(x) /\ last[x] = "brew" /\ Holds("brew", x) /\ ~Holds("brew", x)'
         /\ world'.coffee = world.coffee \/ Delivering \/ world.coffee = "gripper"
              \/ \E x \in Brewer : Live(x) /\ Holds("brew", x)
  <1>1. BodyInv /\ JobInv /\ JobShape
    BY DEF MorningInv, JobInv, TurnInv
  <1>2. Births /\ UNCHANGED last /\ \A i \in Jobs : Live(i) => pc'[i] = pc[i]
    BY <1>1, Newborn
  <1>3. Delivering => Delivering'
    BY <1>2 DEF Delivering, Live, Of
  <1>4. ASSUME world.machine = "brewing", pc' = Spawned("deliver-coffee") PROVE Delivering'
    <2>1. Unborn("deliver-coffee") # {}
      BY <1>1, <1>4, RoomForOne DEF JobInv
    <2>2. PICK m \in Of("deliver-coffee") : pc'[m] = "deciding"
      BY <1>1, <1>4, <2>1, Spawns
    <2>3. QED BY <2>2 DEF Delivering, Live
  <1>5. ASSUME \A i \in Of("deliver-coffee") : pc'[i] = pc[i] PROVE Delivering' => Delivering
    BY <1>5 DEF Delivering, Live
  <1>6. CASE Finish
    <2>1. PICK x : x = current[1].job
      OBVIOUS
    <2>2. PICK v : v = current[1].command.verb
      OBVIOUS
    <2>3. /\ x \in Jobs /\ Lost(x) /\ Holds(v, x)
          /\ v # "brew" => world'.machine = world.machine \/ (world.machine = "brewing" /\ world'.machine = "ready")
          /\ v \notin {"brew", "pick", "place"} => world'.coffee = world.coffee
          /\ v = "place" => world.coffee = "gripper"
          /\ world.machine = "brewing" /\ world'.machine # "brewing" => pc' = Spawned("deliver-coffee")
      BY <1>6, <2>1, <2>2, FinishBrews
    <2>4. Live(x) /\ ~Holds(v, x)'
      BY <1>1, <2>3, HoldersLive DEF Lost
    <2>5. v = "brew" => x \in Brewer /\ last[x] = "brew"
      BY <1>1, <2>3 DEF JobInv, AskedInv, Brewer, Of
    <2>6. v = "pick" => Delivering
      BY <1>1, <2>3, <2>4 DEF JobInv, AskedInv, Delivering, Of
    <2>7. Delivering' => Delivering \/ world.machine = "brewing"
      BY <1>5, <1>6 DEF Finish, Complete
    <2>8. QED BY <1>3, <1>4, <2>3, <2>4, <2>5, <2>6, <2>7
  <1>7. CASE Brewed
    <2>1. /\ world.machine = "brewing" /\ pc' = Spawned("deliver-coffee")
          /\ world'.machine = "ready" /\ world'.coffee = world.coffee
      BY <1>1, <1>7, Around, CupFields DEF Brewed
    <2>2. QED BY <1>3, <1>4, <2>1
  <1>8. CASE ~Finish /\ ~Brewed
    <2>1. \A i \in Of("deliver-coffee") : pc'[i] = pc[i]
      <3>1. UNCHANGED pc \/ \E b : b # "deliver-coffee" /\ Unborn(b) # {} /\ pc' = Spawned(b)
        BY <1>8 DEF Silent, People, Grant, Revoke, Begin, OrderCoffee, Alarm, Mess, Light, jobs
      <3>2. QED BY <1>1, <3>1, BirthOf, NoBirth DEF Of
    <2>2. world'.machine = world.machine /\ world'.coffee = world.coffee
      <3>1. CASE \E j \in Jobs : Grant(j)
        BY <3>1 DEF Grant, Embodied
      <3>2. CASE \E j \in Jobs : Revoke(j)
        BY <1>1, <3>2, Taken, CupFields DEF Revoke
      <3>3. CASE Begin
        BY <1>1, <3>3, Started DEF Begin
      <3>4. CASE Mess \/ Light
        BY <1>1, <3>4, Around, CupFields DEF Mess, Light
      <3>5. CASE Alarm \/ \E d \in Desks : OrderCoffee(d)
        BY <3>5 DEF Alarm, OrderCoffee, body
      <3>6. QED BY <1>8, <3>1, <3>2, <3>3, <3>4, <3>5 DEF Silent, People
    <2>3. QED BY <1>3, <1>5, <2>1, <2>2
  <1>9. QED BY <1>6, <1>7, <1>8

\* Nobody takes the body from a brewer that has begun.
LEMMA NotPutOff ==
  ASSUME Errand, NEW j \in Brewer, Early(j), Begun(j)
  PROVE  ~Revoke(j) /\ wearer = j
  <1>1. j \in Jobs /\ Rank(j) = 40 /\ Live(j) /\ wearer = j
    BY Ranks DEF Brewer, Of, Early, Errand
  <1>2. ASSUME NEW k \in Jobs, Runnable(k), Rank(k) < Rank(j) PROVE FALSE
    <2>1. Live(k)
      BY <1>2 DEF Runnable, Live
    <2>2. DescriptorOf[k] \in {"smoke-response", "deliver-coffee"}
      BY <1>1, <1>2, Ranks, OfTheFour
    <2>3. CASE DescriptorOf[k] = "smoke-response"
      BY <1>1, <2>1, <2>3 DEF Errand, Someone, Of
    <2>4. CASE DescriptorOf[k] = "deliver-coffee"
      BY <1>1, <2>1, <2>4 DEF Errand, Delivering, Of
    <2>5. QED BY <2>2, <2>3, <2>4
  <1>3. QED BY <1>1, <1>2 DEF Revoke

\* What it asked for is done where it stands: it is at the machine after it went there.
LEMMA AtTheMachine ==
  ASSUME MorningInv, TidyInv, AlarmInv, Errand, Silent, NEW j \in Brewer,
         Live(j), last[j] = "navigate", ~Outstanding(j)'
  PROVE  world'.position = "coffee-machine"
  <1>1. BodyInv /\ JobInv /\ Overtaken /\ Overtakes
    BY DEF MorningInv, OrderInv
  <1>2. Early(j) /\ Begun(j) /\ j \in Jobs /\ DescriptorOf[j] = "brew-coffee"
    BY DEF Early, Begun, Brewer, Of
  <1>3. wearer = j /\ ~Revoke(j)
    BY <1>2, NotPutOff
  <1>4. CASE ~Outstanding(j)
    <2>1. world.position = "coffee-machine"
      BY <1>2, <1>4 DEF Errand
    <2>2. Idle
      BY <1>1, <1>2, <1>3, <1>4, NothingBehind DEF Underway, Idle
    <2>3. current = <<>> /\ queue = <<>>
      BY <1>1, <2>2, IdleBody
    <2>4. ~Begin /\ ~Finish
      BY <2>3 DEF Begin, Start, Finish, Complete
    <2>5. \A i \in Jobs : ~Grant(i) /\ ~Revoke(i)
      BY <1>2, <1>3, BodyAssumption DEF Grant, Revoke, Disembodied
    <2>6. CASE Brewed \/ Mess \/ Light
      <3>1. (Mess => SetTable) /\ (Light => TurnHotplateOn) /\ (Brewed => CoffeeReady)
        BY DEF Mess, Light, Brewed
      <3>2. world'.position = world.position
        BY <1>1, <2>6, <3>1, Around, RoomFields
      <3>3. QED BY <2>1, <3>2
    <2>7. CASE Alarm \/ \E d \in Desks : OrderCoffee(d)
      BY <2>1, <2>7 DEF Alarm, OrderCoffee, body
    <2>8. QED BY <2>4, <2>5, <2>6, <2>7 DEF Silent, People
  <1>5. CASE Outstanding(j)
    <2>1. \A v : Holds(v, j) => v = "navigate"
      BY <1>2 DEF AlarmInv, ResponseInv, BySteps
    <2>2. ~Waiting /\ \A i \in Jobs : Answered(i) => i = j
      BY <1>2, <1>5 DEF Waiting, Answered
    <2>3. CASE Finish
      <3> DEFINE a == current[1]
      <3>1. PICK ready \in BOOLEAN : Complete(ready)
        BY <2>3 DEF Finish
      <3>2. current # <<>> /\ Answered(a.job) /\ \A f \in DOMAIN a.outcome : world'[f] = a.outcome[f]
        BY <1>1, <3>1, Done
      <3>3. a.job = j
        BY <2>2, <3>2 DEF Answered
      <3>4. 1 \in DOMAIN current
        BY <1>1, <3>2, Hand DEF BodyInv
      <3>5. Holds(a.command.verb, j)
        BY <3>3, <3>4 DEF Holds
      <3>6. a.command.verb = "navigate"
        BY <2>1, <3>5
      <3>7. Proper(a.job, a.command) /\ RoomLeft(a.command, a.outcome)
        BY <3>4 DEF TidyInv, ProperInv
      <3> HIDE DEF a
      <3>8. a.outcome = [position |-> "coffee-machine"]
        BY <1>2, <3>3, <3>6, <3>7 DEF Proper, RoomLeft
      <3>9. "position" \in DOMAIN a.outcome /\ a.outcome["position"] = "coffee-machine"
        BY <3>8
      <3>10. QED BY <3>2, <3>9
    <2>4. CASE Begin
      <3>1. Start /\ current = <<>> /\ queue # <<>>
        BY <2>4, Started DEF Begin, Start
      <3>2. 1 \in DOMAIN queue
        BY <1>1, <3>1, Dropped DEF BodyInv, BodyShape
      <3>3. ~(queue[1].job = wearer /\ Can(queue[1].command))
        BY <1>1, <2>2, <3>1, Begins
      <3>4. Answered(queue[1].job)
        BY <1>1, <3>1, <3>3, BeginsOrNot
      <3>5. queue[1].job = j
        BY <2>2, <3>4 DEF Answered
      <3>6. Holds(queue[1].command.verb, j)
        BY <3>2, <3>5 DEF Holds
      <3>7. queue[1].command.verb = "navigate" /\ Proper(queue[1].job, queue[1].command)
        BY <2>1, <3>2, <3>6 DEF TidyInv, ProperInv
      <3>8. queue[1].command.where = "coffee-machine"
        BY <1>2, <3>5, <3>7 DEF Proper
      <3>9. Can(queue[1].command)
        BY <3>7, <3>8 DEF Can, Places
      <3>10. QED BY <1>3, <3>3, <3>5, <3>9
    <2>5. CASE \E i \in Jobs : Grant(i)
      BY <1>1, <2>2, <2>5, Given DEF Grant
    <2>6. CASE \E i \in Jobs : Revoke(i)
      <3>1. PICK i \in Jobs : Revoke(i) /\ Disembodied(i)
        BY <2>6 DEF Revoke
      <3>2. Answered(i)
        BY <1>1, <2>2, <3>1, Taken
      <3>3. QED BY <1>3, <2>2, <3>1, <3>2
    <2>7. CASE Brewed \/ Mess \/ Light
      BY <1>1, <2>2, <2>7, Around DEF Brewed, Mess, Light
    <2>8. CASE Alarm \/ \E d \in Desks : OrderCoffee(d)
      BY <1>5, <2>8, HandsStill DEF Alarm, OrderCoffee, body
    <2>9. QED BY <2>3, <2>4, <2>5, <2>6, <2>7, <2>8 DEF Silent, People
  <1>6. QED BY <1>4, <1>5

\* Only the body's own beginning moves the queue while nobody speaks, and only the lease the wearer.
LEMMA SilentLine ==
  ASSUME Silent
  PROVE  /\ Begin \/ (Settled /\ UNCHANGED queue)
         /\ UNCHANGED wearer \/ \E i \in Jobs : Grant(i) \/ Revoke(i)
  BY DEF Silent, Grant, Embodied, Revoke, Disembodied, Begin, Start, Brewed, CoffeeReady, Finish, Complete, People,
         OrderCoffee, Alarm, Mess, SetTable, Light, TurnHotplateOn, body, Settled

\* A brew that is no longer with the body is under way.
LEMMA BrewsOn ==
  ASSUME MorningInv, AlarmInv, Errand, Silent, NEW j \in Brewer, Early(j), Holds("brew", j), ~Holds("brew", j)'
  PROVE  world'.machine = "brewing"
  <1>1. BodyInv /\ JobInv
    BY DEF MorningInv
  <1>2. j \in Jobs /\ DescriptorOf[j] = "brew-coffee" /\ last[j] = "brew" /\ Begun(j) /\ Live(j)
    BY <1>1, HoldersLive DEF Brewer, Of, Begun, JobInv, AskedInv
  <1>3. wearer = j /\ ~Revoke(j) /\ world.machine # "brewing"
    BY <1>2, NotPutOff DEF Errand
  <1>4. ~Kept /\ \A x \in Jobs : Lost(x) => x = j
    BY <1>2 DEF Kept, Lost
  <1>5. CASE Finish
    BY <1>4, <1>5, FinishBrews
  <1>6. CASE Begin
    <2>1. Start /\ current = <<>> /\ queue # <<>>
      BY <1>6 DEF Begin, Start
    <2>2. 1 \in DOMAIN queue /\ queue[1].job \in Jobs
      <3>1. 1 \in DOMAIN queue /\ queue[1] \in [job : Jobs, command : Orders]
        BY <1>1, <2>1, Dropped DEF BodyInv, BodyShape
      <3>2. QED BY <3>1
    <2>3. ~(queue[1].job = wearer /\ Can(queue[1].command))
      BY <1>1, <1>4, <2>1, Begins
    <2>4. queue[1].job = j
      BY <1>1, <1>4, <2>1, <2>2, <2>3, BeginsOrNot
    <2>5. queue[1].command.verb = "brew"
      <3>1. Holds(queue[1].command.verb, j)
        BY <2>2, <2>4 DEF Holds
      <3>2. QED BY <1>2, <3>1 DEF AlarmInv, ResponseInv, BySteps
    <2>6. world.position = "coffee-machine"
      BY <1>2, <2>2, <2>4, <2>5 DEF Errand
    <2>7. Can(queue[1].command)
      BY <1>3, <2>5, <2>6 DEF Can
    <2>8. QED BY <1>3, <2>3, <2>4, <2>7
  <1>7. CASE \E i \in Jobs : Revoke(i)
    BY <1>1, <1>3, <1>4, <1>7, HoldsTaken DEF Revoke
  <1>8. CASE ~Finish /\ ~Begin /\ ~\E i \in Jobs : Revoke(i)
    <2>1. UNCHANGED <<queue, current>>
      BY <1>8 DEF Silent, Grant, Embodied, Brewed, CoffeeReady, People, OrderCoffee, Alarm, Mess, SetTable, Light,
             TurnHotplateOn, body
    <2>2. QED BY <1>4, <2>1, HoldsStill
  <1>9. QED BY <1>5, <1>6, <1>7, <1>8

\* While nobody speaks, alarms or orders, an order goes on as it was.
LEMMA ErrandKept ==
  ASSUME MorningInv, TidyInv, AlarmInv, StoryShape, Errand, Silent, ~Alarm, ~\E d \in Desks : OrderCoffee(d)
  PROVE  Errand'
  <1>1. BodyInv /\ JobInv /\ JobShape
    BY DEF MorningInv, JobInv, TurnInv
  <1>2. /\ UNCHANGED <<last, order>> /\ \A i \in Smoke \cup Brewer : pc'[i] = pc[i]
        /\ \A i \in Jobs : Live(i) => pc'[i] = pc[i]
    BY <1>1, Newborn
  <1>3. Brewer \subseteq Jobs /\ Smoke \subseteq Jobs
    BY DEF Brewer, Smoke, Of
  <1>4. \A i \in Jobs : \A v : Holds(v, i)' => Holds(v, i)
    BY <1>1, SilentBody DEF Kept, Lost
  <1>5. \A j \in Brewer : (Live(j)' <=> Live(j)) /\ (Begun(j)' <=> Begun(j)) /\ (Early(j)' => Early(j))
    BY <1>2, <1>3, <1>4 DEF Live, Begun, Waits, Early
  <1>6. Someone("smoke-response")' <=> Someone("smoke-response")
    BY <1>2 DEF Someone, Live, Smoke
  <1>7. \A j, k \in Brewer : Live(j)' /\ Live(k)' => j = k
    BY <1>5 DEF Errand
  <1>8. ASSUME NEW j \in Brewer, Early(j)' PROVE world'.machine # "brewing" /\ ~Delivering'
    <2>1. Early(j) /\ Live(j) /\ world.machine # "brewing" /\ ~Delivering
      BY <1>5, <1>8 DEF Errand, Early
    <2>2. ASSUME NEW x \in Brewer, Live(x), last[x] = "brew", ~Holds("brew", x)' PROVE FALSE
      <3>1. x = j
        BY <2>1, <2>2 DEF Errand
      <3>2. QED BY <1>2, <1>8, <2>2, <3>1 DEF Early
    <2>3. QED BY <2>1, <2>2, SilentBrew
  <1>9. ASSUME NEW j \in Brewer, Early(j)', Begun(j)' PROVE wearer' = j
    <2>1. wearer = j /\ ~Revoke(j) /\ j \in Jobs
      BY <1>3, <1>5, <1>9, NotPutOff
    <2>2. \A i \in Jobs : ~Grant(i) /\ ~Revoke(i)
      BY <2>1, BodyAssumption DEF Grant, Revoke, Disembodied
    <2>3. QED BY <2>1, <2>2, SilentLine
  <1>10. ASSUME NEW j \in Brewer, Live(j)', last'[j] = "navigate", ~Outstanding(j)'
         PROVE world'.position = "coffee-machine"
    BY <1>2, <1>5, <1>10, AtTheMachine
  <1>11. ASSUME NEW k \in DOMAIN queue', queue'[k].command.verb = "brew" PROVE FALSE
    <2>1. CASE Begin
      <3>1. current = <<>> /\ queue # <<>> /\ queue' = Tail(queue)
        BY <2>1 DEF Begin, Start
      <3>2. k + 1 \in DOMAIN queue /\ queue'[k] = queue[k + 1] /\ k \in Nat \ {0}
        BY <1>1, <1>11, <3>1, Dequeued
      <3>3. DOMAIN queue = {1}
        BY <1>11, <3>2 DEF MorningInv, OrderInv, BrewInv, InLine
      <3>4. QED BY <3>2, <3>3
    <2>2. CASE ~Begin
      <3>1. Settled /\ UNCHANGED queue
        BY <2>2, SilentLine
      <3>2. current = <<>> /\ queue # <<>>
        BY <1>11, <3>1, Empty DEF MorningInv, OrderInv, BrewInv, InLine
      <3>3. QED BY <3>1, <3>2 DEF Settled
    <2>3. QED BY <2>1, <2>2
  <1>12. ASSUME NEW j \in Brewer, Live(j)', ~Early(j)'
         PROVE  world'.machine = "brewing" \/ Delivering' \/ world'.coffee = order'
    <2>1. Live(j) /\ last[j] = "brew" /\ ~Holds("brew", j)'
      BY <1>2, <1>5, <1>12 DEF Early
    <2>2. CASE Holds("brew", j)
      <3>1. Early(j)
        BY <2>1, <2>2 DEF Early
      <3>2. QED BY <2>1, <2>2, <3>1, BrewsOn
    <2>3. CASE ~Holds("brew", j)
      <3>1. world.machine = "brewing" \/ Delivering \/ world.coffee = order
        BY <2>1, <2>3 DEF Errand, Early
      <3>2. order \in Desks
        BY <2>1 DEF MorningInv, OrderInv, CupInv, Brewer
      <3>3. \A x \in Brewer : Live(x) => ~Holds("brew", x)
        BY <2>1, <2>3 DEF Errand
      <3>4. QED BY <1>2, <3>1, <3>2, <3>3, NotADesk, SilentBrew
    <2>4. QED BY <2>2, <2>3
  <1>13. ASSUME order' # "none" PROVE OrderOpen' \/ world'.coffee = order'
    <2>1. CASE Someone("brew-coffee")
      BY <1>5, <2>1 DEF OrderOpen, Someone, Brewer
    <2>2. CASE Delivering \/ world.machine = "brewing"
      BY <2>2, SilentBrew DEF OrderOpen, Someone, Delivering
    <2>3. CASE ~OrderOpen
      <3>1. order \in Desks /\ world.coffee = order
        BY <1>2, <1>13, <2>3 DEF StoryShape, Errand
      <3>2. ~Delivering /\ \A x \in Brewer : ~Live(x)
        BY <2>3 DEF OrderOpen, Someone, Delivering, Brewer
      <3>3. QED BY <1>2, <3>1, <3>2, NotADesk, SilentBrew
    <2>4. QED BY <2>1, <2>2, <2>3 DEF OrderOpen, Someone, Delivering
  <1>14. QED BY <1>3, <1>5, <1>6, <1>7, <1>8, <1>9, <1>10, <1>11, <1>12, <1>13 DEF Errand, Brewer, Of

\* An order when all is done with the last is the only one.
LEMMA OrderKept ==
  ASSUME BodyInv, JobInv, Errand, ~OrderOpen, NEW d \in Desks, OrderCoffee(d) PROVE Errand'
  <1>1. /\ JobShape /\ UNCHANGED <<last, queue, current, world>> /\ pc' = Spawned("brew-coffee")
        /\ Unborn("brew-coffee") # {}
    BY DEF JobInv, TurnInv, OrderCoffee, body
  <1>2. PICK m \in Brewer : pc[m] = "unborn" /\ pc'[m] = "deciding" /\ \A i \in Jobs \ {m} : pc'[i] = pc[i]
    BY <1>1, Spawns DEF Brewer
  <1>3. m \in Jobs /\ last[m] = "none" /\ ~Outstanding(m) /\ ~Waits(m)
    BY <1>1, <1>2 DEF JobShape, Brewer, Of, JobInv, TurnInv, WaitsInv, Waits
  <1>4. \A j \in Brewer : Live(j)' <=> j = m
    BY <1>2 DEF OrderOpen, Someone, Live, Brewer, Of
  <1>5. world'.machine # "brewing" /\ ~Delivering'
    BY <1>1, <1>2 DEF OrderOpen, Someone, Delivering, Live, Brewer, Of
  <1>6. ~Begun(m)' /\ last'[m] = "none"
    BY <1>1, <1>2, <1>3 DEF Begun, Waits
  <1>7. \A k \in DOMAIN queue' : queue'[k].job # m
    BY <1>1, <1>3 DEF Outstanding, Queued
  <1>8. OrderOpen'
    BY <1>4 DEF OrderOpen, Someone, Brewer
  <1>9. \A j \in Brewer : Live(j)' => Early(j)'
    BY <1>4, <1>6 DEF Early
  <1>10. QED BY <1>4, <1>5, <1>6, <1>7, <1>8, <1>9 DEF Errand, Early, Brewer, Of

\* An alarm while nobody brews is the order's only afterwards.
LEMMA AlarmKept ==
  ASSUME BodyInv, JobInv, Errand, ~Someone("brew-coffee"), Alarm PROVE Errand'
  <1>1. JobShape /\ UNCHANGED <<order, world>> /\ pc' = Spawned("smoke-response") /\ Unborn("smoke-response") # {}
    BY DEF JobInv, TurnInv, Alarm, body
  <1>2. \A i \in Brewer \cup Of("deliver-coffee") : pc'[i] = pc[i]
    BY <1>1, BirthOf DEF Brewer, Of
  <1>3. \A i \in Brewer : ~Live(i)'
    BY <1>2 DEF Someone, Live, Brewer
  <1>4. OrderOpen => OrderOpen'
    BY <1>1, <1>2 DEF OrderOpen, Someone, Live
  <1>5. QED BY <1>1, <1>3, <1>4 DEF Errand, Early, Brewer, Of

\* Whoever speaks, an order that is begun is not begun again, nor is it left undone.
LEMMA SpeaksErrand ==
  ASSUME MorningInv, TidyInv, AlarmInv, Errand, NEW i \in Jobs, Speaks(i) PROVE Errand'
  <1>1. BodyInv /\ JobInv /\ JobShape /\ ResponseInv
    BY DEF MorningInv, JobInv, TurnInv, AlarmInv
  <1>2. /\ wearer = i /\ Settled /\ Live(i)
        /\ \A x \in Jobs \ {i} : pc'[x] = pc[x] /\ saying'[x] = saying[x] /\ last'[x] = last[x]
        /\ DecideExit(i) \/ Live(i)'
        /\ SayOrder(i) \/ SayCommand(i) \/ UNCHANGED last
    BY <1>1, Speaker
  <1>3. Brewer \subseteq Jobs /\ Smoke \subseteq Jobs /\ \A x \in Brewer : DescriptorOf[x] = "brew-coffee"
    BY DEF Brewer, Smoke, Of
  <1>4. \A x \in Jobs : Live(x)' => Live(x)
    BY <1>2 DEF Live
  <1>5. world'.machine = world.machine /\ world'.coffee = world.coffee
    <2>1. CASE DecideExit(i)
      BY <1>1, <2>1, Taken, CupFields DEF DecideExit
    <2>2. CASE SayCommand(i)
      BY <1>1, <2>2, Commands
    <2>3. CASE Decide(i) \/ SayOrder(i) \/ Block(i) \/ ReadAnswer(i)
      BY <2>3, WordsOnly
    <2>4. QED BY <2>1, <2>2, <2>3 DEF Speaks
  <1>6. SayCommand(i) \/ \A x \in Jobs : \A v : Holds(v, x)' => Holds(v, x)
    <2>1. CASE DecideExit(i)
      BY <1>1, <2>1, HoldsTaken DEF DecideExit, Kept, Lost
    <2>2. CASE Decide(i) \/ SayOrder(i) \/ Block(i) \/ ReadAnswer(i)
      BY <2>2, WordsOnly, HoldsStill DEF Kept
    <2>3. QED BY <2>1, <2>2 DEF Speaks
  <1>7. ASSUME SayOrder(i) \/ SayCommand(i)
        PROVE  /\ pc[i] = "speaking" /\ Spoken(i, saying[i].verb)
               /\ i \in Brewer => last'[i] = saying[i].verb /\ last[i] # "brew"
    <2>1. pc[i] = "speaking" /\ Says(i) /\ (saying[i] = Tell \/ saying[i] \in Orders)
      BY <1>7 DEF SayCommand, SayOrder, Becomes
    <2>2. QED BY <1>1, <1>3, <2>1, Said DEF BySteps
  <1>8. SayOrder(i) => i \in Brewer
    <2>1. SayOrder(i) => saying[i].verb = "tell"
      BY Verbs DEF SayOrder
    <2>2. QED BY <1>7, <2>1, OfTheFour DEF Spoken, Brewer, Of
  <1>9. \A j \in Brewer : Early(j)' => Early(j)
    <2>1. SUFFICES ASSUME NEW j \in Brewer, Early(j)' PROVE Early(j)
      OBVIOUS
    <2>2. Live(j)
      BY <1>3, <1>4, <2>1 DEF Early
    <2>3. CASE j = i /\ (SayOrder(i) \/ SayCommand(i))
      BY <1>7, <2>2, <2>3 DEF Early
    <2>4. CASE ~(j = i /\ (SayOrder(i) \/ SayCommand(i)))
      <3>1. last'[j] = last[j]
        BY <1>2, <1>3, <2>4
      <3>2. Holds("brew", j)' => Holds("brew", j)
        BY <1>1, <1>3, <1>6, <2>4, Commands
      <3>3. QED BY <2>1, <2>2, <3>1, <3>2 DEF Early
    <2>5. QED BY <2>3, <2>4
  <1>10. Delivering' => Delivering
    BY <1>4 DEF Delivering, Of
  <1>11. \A j, k \in Brewer : Live(j)' /\ Live(k)' => j = k
    BY <1>3, <1>4 DEF Errand
  <1>12. \A j \in Brewer : Early(j)' => world'.machine # "brewing" /\ ~Delivering'
    BY <1>5, <1>9, <1>10 DEF Errand
  <1>13. ASSUME NEW j \in Brewer, Live(j)', Begun(j)', Someone("smoke-response")' PROVE FALSE
    <2>1. PICK s \in Smoke : Live(s)
      BY <1>3, <1>4, <1>13 DEF Someone, Smoke
    <2>2. i = s /\ j # i
      BY <1>1, <2>1, OnlyItSpeaks DEF Smoke, Brewer, Of
    <2>3. Begun(j) /\ Live(j)
      BY <1>2, <1>3, <1>4, <1>13, <2>2 DEF Begun, Waits
    <2>4. QED BY <2>1, <2>3 DEF Errand, Someone, Smoke
  <1>14. DecideExit(i) => ~Live(i)'
    BY <1>1 DEF DecideExit, Becomes, Live, JobShape
  <1>15. DecideExit(i) \/ wearer' = i
    BY <1>1, <1>2, WordsOnly, Commands DEF Speaks
  <1>16. ASSUME NEW j \in Brewer, Early(j)', Begun(j)' PROVE j = i /\ wearer' = j
    <2>1. CASE j = i
      BY <1>14, <1>15, <1>16, <2>1 DEF Early
    <2>2. CASE j # i
      <3>1. Early(j) /\ Begun(j)
        BY <1>2, <1>3, <1>9, <1>16, <2>2 DEF Begun, Waits
      <3>2. QED BY <1>2, <2>2, <3>1 DEF Errand
    <2>3. QED BY <2>1, <2>2
  <1>17. ASSUME NEW j \in Brewer, Live(j)', last'[j] = "navigate", ~Outstanding(j)'
         PROVE world'.position = "coffee-machine"
    <2>1. j = i /\ ~DecideExit(i)
      BY <1>14, <1>16, <1>17 DEF Early, Begun
    <2>2. ~SayCommand(i)
      BY <1>1, <1>17, <2>1, Commands
    <2>3. ~SayOrder(i)
      BY <1>7, <1>17, <2>1, Verbs DEF SayOrder
    <2>4. UNCHANGED <<last, queue, current, world>>
      BY <1>2, <2>1, <2>2, <2>3, WordsOnly DEF Speaks
    <2>5. last[i] = "navigate" /\ ~Outstanding(i)
      BY <1>17, <2>1, <2>4, HandsStill
    <2>6. QED BY <1>2, <1>17, <2>1, <2>4, <2>5 DEF Errand
  <1>18. ASSUME NEW j \in Brewer, NEW k \in DOMAIN queue', queue'[k].job = j, queue'[k].command.verb = "brew"
         PROVE  world'.position = "coffee-machine"
    <2>1. ASSUME NEW l \in DOMAIN queue, queue[l].command.verb = "brew" PROVE FALSE
      <3>1. current = <<>> /\ queue # <<>>
        BY <2>1, Empty DEF MorningInv, OrderInv, BrewInv, InLine
      <3>2. QED BY <1>2, <3>1 DEF Settled
    <2>2. SayCommand(i)
      <3>1. ~SayCommand(i) => UNCHANGED queue
        BY WordsOnly DEF Speaks, DecideExit, Disembodied
      <3>2. QED BY <1>18, <2>1, <3>1
    <2>3. /\ ~Outstanding(i) /\ UNCHANGED <<current, world>> /\ saying[i] \in Orders
          /\ queue' = Append(queue, [job |-> i, command |-> saying[i]])
      BY <1>1, <2>2, Commands
    <2>4. /\ DOMAIN queue = 1 .. Len(queue) /\ Len(queue) \in Nat /\ DOMAIN queue' = 1 .. Len(queue) + 1
          /\ \A l \in DOMAIN queue : queue'[l] = queue[l]
          /\ queue'[Len(queue) + 1].job = i /\ queue'[Len(queue) + 1].command = saying[i]
      BY <1>1, <2>3, Enqueued
    <2>5. k \notin DOMAIN queue
      BY <1>18, <2>1, <2>4
    <2>6. k = Len(queue) + 1
      BY <2>4, <2>5
    <2>7. j = i /\ saying[i].verb = "brew"
      BY <1>18, <2>4, <2>6
    <2>8. last[i] = "navigate"
      BY <1>3, <1>7, <2>2, <2>7 DEF Spoken
    <2>9. QED BY <1>2, <2>3, <2>7, <2>8 DEF Errand
  <1>19. ASSUME NEW j \in Brewer, Live(j)', ~Early(j)'
         PROVE  world'.machine = "brewing" \/ Delivering' \/ world'.coffee = order'
    <2>1. last'[j] = "brew" /\ ~Holds("brew", j)' /\ Live(j)
      BY <1>3, <1>4, <1>19 DEF Early
    <2>2. ~(j = i /\ SayCommand(i))
      <3>1. ASSUME j = i, SayCommand(i) PROVE Holds("brew", j)'
        <4>1. saying[i].verb = "brew"
          BY <1>7, <2>1, <3>1
        <4>2. QED BY <1>1, <3>1, <4>1, Commands
      <3>2. QED BY <2>1, <3>1
    <2>3. ~(j = i /\ SayOrder(i))
      BY <1>7, <2>1, Verbs DEF SayOrder
    <2>4. last[j] = "brew"
      BY <1>2, <1>3, <2>1, <2>2, <2>3
    <2>5. ~Holds("brew", j)
      <3>1. CASE DecideExit(i)
        <4>1. j # i
          BY <1>14, <1>19, <3>1
        <4>2. Kept \/ Lost(i)
          BY <1>1, <3>1, HoldsTaken DEF DecideExit
        <4>3. QED BY <1>3, <2>1, <4>1, <4>2 DEF Kept, Lost
      <3>2. CASE SayCommand(i)
        BY <1>1, <1>3, <2>1, <3>2, Commands
      <3>3. CASE Decide(i) \/ SayOrder(i) \/ Block(i) \/ ReadAnswer(i)
        BY <1>3, <2>1, <3>3, WordsOnly, HoldsStill DEF Kept
      <3>4. QED BY <3>1, <3>2, <3>3 DEF Speaks
    <2>6. world.machine = "brewing" \/ Delivering \/ world.coffee = order
      BY <2>1, <2>4, <2>5 DEF Errand, Early
    <2>7. ~SayOrder(i)
      <3>1. ASSUME SayOrder(i) PROVE FALSE
        <4>1. i = j
          BY <1>2, <1>8, <2>1, <3>1 DEF Errand
        <4>2. QED BY <2>3, <3>1, <4>1
      <3>2. QED BY <3>1
    <2>8. order' = order
      BY <2>7 DEF Speaks, Decide, DecideExit, SayCommand, Block, ReadAnswer
    <2>9. Delivering => Delivering' \/ world.coffee = order
      <3>1. ASSUME NEW x \in Of("deliver-coffee"), Live(x), ~Live(x)' PROVE world.coffee = order
        <4>1. x = i /\ DecideExit(i)
          BY <1>2, <3>1 DEF Live, Of
        <4>2. QED BY <1>1, <3>1, <4>1, Decides DEF DecideExit, JobInv, Of
      <3>2. QED BY <3>1 DEF Delivering
    <2>10. QED BY <1>5, <2>6, <2>8, <2>9
  <1>20. ASSUME order' # "none" PROVE OrderOpen' \/ world'.coffee = order'
    <2>1. CASE SayOrder(i)
      <3>1. i \in Of("brew-coffee") /\ Live(i)'
        BY <1>2, <1>8, <1>14, <2>1 DEF Brewer, SayOrder, DecideExit, Becomes
      <3>2. QED BY <3>1 DEF OrderOpen, Someone
    <2>2. CASE ~SayOrder(i)
      <3>1. order' = order
        BY <2>2 DEF Speaks, Decide, DecideExit, SayCommand, Block, ReadAnswer
      <3>2. OrderOpen \/ world.coffee = order
        BY <1>20, <3>1 DEF Errand
      <3>3. CASE world.coffee = order \/ world.machine = "brewing"
        BY <1>5, <3>1, <3>3 DEF OrderOpen
      <3>4. ASSUME NEW x \in Jobs, Live(x), DescriptorOf[x] \in {"brew-coffee", "deliver-coffee"}
            PROVE  OrderOpen' \/ world'.coffee = order'
        <4>1. CASE Live(x)'
          BY <3>4, <4>1 DEF OrderOpen, Someone, Of
        <4>2. CASE ~Live(x)'
          <5>1. x = i /\ DecideExit(i)
            BY <1>2, <3>4, <4>2 DEF Live
          <5>2. Exit \in NextCommands(i) /\ ~Holds("brew", i)
            BY <1>1, <5>1, Token DEF DecideExit
          <5>3. CASE DescriptorOf[i] = "deliver-coffee"
            BY <1>1, <1>5, <3>1, <5>2, <5>3, Decides DEF JobInv
          <5>4. CASE DescriptorOf[i] = "brew-coffee"
            <6>1. last[i] = "brew" /\ i \in Brewer
              BY <1>1, <5>2, <5>4, Decides DEF JobInv, Brewer, Of
            <6>2. world.machine = "brewing" \/ Delivering \/ world.coffee = order
              BY <1>2, <5>2, <6>1 DEF Errand, Early
            <6>3. Delivering => Delivering'
              BY <1>2, <5>4 DEF Delivering, Of, Live
            <6>4. QED BY <1>5, <3>1, <6>2, <6>3 DEF OrderOpen, Someone, Delivering
          <5>5. QED BY <3>4, <5>1, <5>3, <5>4
        <4>3. QED BY <4>1, <4>2
      <3>5. QED BY <3>2, <3>3, <3>4 DEF OrderOpen, Someone, Of
    <2>3. QED BY <2>1, <2>2
  <1>21. QED BY <1>11, <1>12, <1>13, <1>16, <1>17, <1>18, <1>19, <1>20 DEF Errand, Brewer, Of

-----------------------------------------------------------------------------
(***************************************************************************)
(* The end of a morning.                                                   *)
(***************************************************************************)
\* An order crossed by another, or by an alarm, promises nothing.
ErrandInv == ~crossed => Errand

EndInv == TidyInv /\ AlarmInv /\ ErrandInv

\* Each step keeps what the end of a morning rests on.
LEMMA EndStep == ASSUME MorningInv, StoryShape, EndInv, [Next]_vars PROVE EndInv'
  <1>1. BodyInv /\ JobInv /\ TidyInv /\ AlarmInv /\ ErrandInv /\ JobShape
    BY DEF MorningInv, EndInv, JobInv, TurnInv
  <1>2. TidyInv' /\ AlarmInv'
    BY <1>1, TidyStep, AlarmStep
  <1>3. ErrandInv'
    <2>1. SUFFICES ASSUME ~crossed' PROVE Errand'
      BY DEF ErrandInv
    <2>2. CASE \E d \in Desks : OrderCoffee(d)
      <3>1. PICK d \in Desks : OrderCoffee(d)
        BY <2>2
      <3>2. ~crossed /\ ~OrderOpen
        BY <2>1, <3>1, <1>1 DEF OrderCoffee
      <3>3. QED BY <1>1, <3>1, <3>2, OrderKept DEF ErrandInv
    <2>3. CASE Alarm
      <3>1. ~crossed /\ ~Someone("brew-coffee")
        BY <2>1, <2>3 DEF Alarm
      <3>2. QED BY <1>1, <2>3, <3>1, AlarmKept DEF ErrandInv
    <2>4. CASE Silent /\ ~Alarm /\ ~\E d \in Desks : OrderCoffee(d)
      <3>1. UNCHANGED crossed
        BY <2>4 DEF Silent, People, Grant, Revoke, Begin, Brewed, Finish, Mess, Light, story
      <3>2. QED BY <1>1, <2>1, <2>4, <3>1, ErrandKept DEF ErrandInv
    <2>5. CASE \E i \in Jobs : Speaks(i)
      <3>1. PICK i \in Jobs : Speaks(i)
        BY <2>5
      <3>2. UNCHANGED crossed
        BY <1>1, <3>1, Speaker
      <3>3. QED BY <1>1, <2>1, <3>1, <3>2, SpeaksErrand DEF ErrandInv
    <2>6. CASE UNCHANGED vars
      <3>1. /\ UNCHANGED <<pc, last, order, queue, current, wearer, world, crossed>>
            /\ \A i : Outstanding(i)' <=> Outstanding(i)
        BY <2>6, HandsStill DEF vars, body, jobs, story
      <3>2. Errand
        BY <1>1, <2>1, <3>1 DEF ErrandInv
      <3>3. /\ \A i : (Live(i)' <=> Live(i)) /\ (Early(i)' <=> Early(i)) /\ (Begun(i)' <=> Begun(i))
            /\ \A b : Someone(b)' <=> Someone(b)
            /\ (Delivering' <=> Delivering) /\ (OrderOpen' <=> OrderOpen)
        BY <3>1 DEF Live, Early, Begun, Waits, Holds, Someone, Delivering, OrderOpen
      <3>4. QED BY <3>1, <3>2, <3>3 DEF Errand, Brewer, Of
    <2>7. QED BY <2>2, <2>3, <2>4, <2>5, <2>6, StepIs
  <1>4. QED BY <1>2, <1>3 DEF EndInv

\* A morning begins with nobody brewing and nothing ordered.
LEMMA EndInit == ASSUME Init PROVE EndInv
  <1> DEFINE m == Min(Of("tidy-atrium"))
  <1>1. m \in Of("tidy-atrium")
    BY First, AtriumAssumption DEF Of
  <1>2. pc = [j \in Jobs |-> IF j = m THEN "deciding" ELSE "unborn"] /\ order = "none"
    BY DEF Init
  <1> HIDE DEF m
  <1>3. \A j \in Brewer : ~Live(j)
    BY <1>1, <1>2 DEF Brewer, Of, Live
  <1>4. ErrandInv
    BY <1>2, <1>3 DEF ErrandInv, Errand, Early
  <1>5. QED BY <1>4, TidyInit, AlarmInit DEF EndInv

\* When all is quiet it is as the case's check wants it (story.py:51-60): the table cleared, each item
\* where it belongs, the hotplate off after an alarm, and a coffee nothing crossed at its desk.
THEOREM EverythingEndsWell == Spec => []EndsWell
  <1>1. ASSUME MorningInv, EndInv, Quiet PROVE world.table = {}
    BY <1>1 DEF EndInv, TidyInv, TableInv, Someone, Quiet, Of
  <1>2. ASSUME EndInv, Quiet, ~laidMidPut, world.table = {} PROVE \A i \in Items : i \in world[ContainerFor[i]]
    BY <1>2 DEF EndInv, TidyInv, TableInv, Tidied
  <1>3. ASSUME EndInv, Quiet, \E j \in Of("smoke-response") : pc[j] = "done", ~relit, ~leaving
        PROVE  world.hotplate = "off"
    BY <1>3 DEF EndInv, AlarmInv, PressInv, Smoke, Quiet, Of
  <1>4. ASSUME EndInv, Quiet, ~crossed, order # "none" PROVE world.coffee = order
    BY <1>4 DEF EndInv, ErrandInv, Errand, OrderOpen, Someone, Quiet, Of
  <1>5. MorningInv /\ EndInv => EndsWell
    BY <1>1, <1>2, <1>3, <1>4 DEF EndsWell
  <1>6. Init => MorningInv /\ StoryShape /\ EndInv
    BY MorningInit, EndInit
  <1>7. MorningInv /\ StoryShape /\ EndInv /\ [Next]_vars => (MorningInv /\ StoryShape /\ EndInv)'
    BY MorningStep, EndStep
  <1>8. QED BY <1>5, <1>6, <1>7, PTL DEF Spec

-----------------------------------------------------------------------------
(***************************************************************************)
(* The items, under any behaviours.                                        *)
(***************************************************************************)
\* Each item is in one place.
Sorted(w) ==
  /\ w.table \cup w.basket \cup w.tray = Items
  /\ w.table \cap w.basket = {} /\ w.table \cap w.tray = {} /\ w.basket \cap w.tray = {}

\* It is so now, and once the action in hand is done; only a put is about items.
ItemInv ==
  /\ \A k \in DOMAIN current :
       current[k].command.verb # "put" => DOMAIN current[k].outcome \cap Furniture = {}
  /\ ~laidMidPut => Sorted(world) /\ \A k \in DOMAIN current : Sorted(Updated(world, current[k].outcome))

\* It is said of the table, the basket and the tray only.
LEMMA SortedAlike ==
  ASSUME NEW v, NEW w, Sorted(w), \A f \in Furniture : v[f] = w[f]
  PROVE  Sorted(v)
  BY DEF Sorted, Furniture

\* What is written elsewhere leaves it so.
LEMMA SortedBeside ==
  ASSUME NEW w, WorldFits(w), NEW o, OutcomeFits(o), DOMAIN o \cap Furniture = {}, Sorted(w)
  PROVE  Sorted(Updated(w, o))
  <1>1. \A f \in Furniture : Updated(w, o)[f] = w[f]
    BY Writes, RoomFields
  <1>2. QED BY <1>1, SortedAlike

\* An item is taken off the table, and into one container.
LEMMA SortedByPut ==
  ASSUME WorldFits(world), Sorted(world), NEW c, c.verb = "put", Can(c)
  PROVE  Sorted(Updated(world, Outcome(c)))
  <1> DEFINE o == Outcome(c)
             w == Updated(world, o)
  <1>1. c.what \in world.table /\ c.where \in {"basket", "tray"}
    BY DEF Can, Containers
  <1>2. o = [f \in {"position", "table", c.where} |->
               CASE f = "position" -> "table"
                 [] f = "table"    -> world.table \ {c.what}
                 [] f = c.where    -> world[c.where] \cup {c.what}]
    BY DEF Outcome
  <1>3. OutcomeFits(o)
    BY Possible
  <1> HIDE DEF o
  <1>4. /\ DOMAIN o = {"position", "table", c.where}
        /\ o["table"] = world.table \ {c.what} /\ o[c.where] = world[c.where] \cup {c.what}
    BY <1>1, <1>2
  <1>5. /\ w.table = world.table \ {c.what} /\ w[c.where] = world[c.where] \cup {c.what}
        /\ \A f \in {"basket", "tray"} : f # c.where => w[f] = world[f]
    BY <1>1, <1>3, <1>4, Writes DEF Fields
  <1> HIDE DEF w
  <1>6. Sorted(w)
    BY <1>1, <1>5 DEF Sorted
  <1>7. QED BY <1>6 DEF w, o

\* Nobody touches the items.
LEMMA ItemsKept ==
  ASSUME BodyInv, BodyInv', ItemInv, UNCHANGED laidMidPut, \A f \in Furniture : world'[f] = world[f],
         current' \in {current, <<>>}
  PROVE  ItemInv'
  <1>1. WorldFits(world) /\ WorldFits(world')
    BY DEF BodyInv, BodyShape
  <1>2. Sorted(world) => Sorted(world')
    BY SortedAlike
  <1>3. ASSUME NEW k \in DOMAIN current, Sorted(Updated(world, current[k].outcome))
        PROVE  Sorted(Updated(world', current[k].outcome))
    <2>1. OutcomeFits(current[k].outcome)
      BY Hand, Empty DEF BodyInv, ActionFits
    <2>2. \A f \in Furniture : Updated(world', current[k].outcome)[f] = Updated(world, current[k].outcome)[f]
      BY <1>1, <2>1, Writes, RoomFields
    <2>3. QED BY <1>3, <2>2, SortedAlike
  <1>4. QED BY <1>2, <1>3, Empty DEF ItemInv, Sorted

\* A put, or anything else, begins.
LEMMA StartSorts == ASSUME BodyInv, ItemInv, Start PROVE ItemInv'
  <1>1. BodyInv' /\ UNCHANGED <<world, laidMidPut>> /\ WorldFits(world)
    BY Started DEF Start, BodyInv, BodyShape
  <1>2. CASE UNCHANGED current
    BY <1>1, <1>2, ItemsKept
  <1>3. CASE queue[1].job = wearer /\ Can(queue[1].command)
    <2>1. PICK c : c = queue[1].command
      OBVIOUS
    <2>2. PICK a : a = [job |-> queue[1].job, command |-> c, origin |-> world.position, outcome |-> Outcome(c)]
      OBVIOUS
    <2>3. current' = <<a>>
      BY <1>3, <2>1, <2>2, Begins
    <2>4. DOMAIN current' = {1} /\ current'[1] = a /\ a.command = c /\ a.outcome = Outcome(c)
      BY <2>2, <2>3
    <2>5. OutcomeFits(Outcome(c)) /\ Can(c)
      BY <1>1, <1>3, <2>1, Possible
    <2>6. c.verb # "put" => DOMAIN Outcome(c) \cap Furniture = {}
      BY <2>5, RoomLeftBy DEF RoomLeft
    <2>7. ASSUME Sorted(world) PROVE Sorted(Updated(world, Outcome(c)))
      BY <1>1, <2>5, <2>6, <2>7, SortedByPut, SortedBeside
    <2>8. QED BY <1>1, <2>4, <2>6, <2>7 DEF ItemInv, Sorted
  <1>4. QED BY <1>2, <1>3, BeginsOrNot

\* An action ends, and what it did is there.
LEMMA CompleteSorts == ASSUME BodyInv, ItemInv, NEW ready \in BOOLEAN, Complete(ready) PROVE ItemInv'
  <1>1. /\ BodyInv' /\ current # <<>> /\ current' = <<>> /\ UNCHANGED laidMidPut
        /\ \A f \in DOMAIN current[1].outcome : world'[f] = current[1].outcome[f]
        /\ \A f \in Fields \ DOMAIN current[1].outcome :
             world'[f] = IF ready /\ f = "machine" THEN "ready" ELSE world[f]
    BY Done DEF Complete
  <1>2. 1 \in DOMAIN current /\ OutcomeFits(current[1].outcome) /\ WorldFits(world)
    BY <1>1, Hand DEF BodyInv, BodyShape, ActionFits
  <1>3. \A f \in Furniture : world'[f] = Updated(world, current[1].outcome)[f]
    BY <1>1, <1>2, Writes, RoomFields DEF Furniture
  <1>4. ~laidMidPut => Sorted(world')
    BY <1>2, <1>3, SortedAlike DEF ItemInv
  <1>5. QED BY <1>1, <1>4, Empty DEF ItemInv, Sorted

\* Somebody lays the table, but for the item that was being put away.
LEMMA LaySorts == ASSUME BodyInv, ItemInv, SetTable PROVE ItemInv'
  <1>1. /\ UNCHANGED current /\ world' = [world EXCEPT !.table = Items, !.basket = {}, !.tray = {}]
        /\ laidMidPut' = (laidMidPut \/ \E k \in DOMAIN current : current[k].command.verb = "put")
    BY DEF SetTable
  <1>2. WorldFits(world) /\ WorldFits(world')
    BY Around DEF BodyInv, BodyShape
  <1>3. world'.table = Items /\ world'.basket = {} /\ world'.tray = {}
    BY <1>1, <1>2 DEF WorldFits, Fields
  <1>4. Sorted(world')
    BY <1>3 DEF Sorted
  <1>5. ASSUME ~laidMidPut', NEW k \in DOMAIN current PROVE Sorted(Updated(world', current[k].outcome))
    <2>1. OutcomeFits(current[k].outcome)
      BY Hand, Empty DEF BodyInv, ActionFits
    <2>2. DOMAIN current[k].outcome \cap Furniture = {}
      BY <1>1, <1>5 DEF ItemInv
    <2>3. QED BY <1>2, <1>4, <2>1, <2>2, SortedBeside
  <1>6. QED BY <1>1, <1>4, <1>5 DEF ItemInv, Sorted

\* The items stay sorted, whatever is asked of the body.
LEMMA ItemStep == ASSUME BodyInv, ItemInv, [NextBody(Orders)]_body PROVE ItemInv'
  <1>1. BodyInv'
    BY BodyStep
  <1>2. Furniture \subseteq Fields /\ "position" \notin Furniture /\ "hotplate" \notin Furniture
        /\ "machine" \notin Furniture
    BY DEF Furniture, Fields
  <1>3. CASE UNCHANGED body
    BY <1>1, <1>3, ItemsKept DEF body
  <1>4. ASSUME NEW j \in Jobs, Embodied(j) PROVE ItemInv'
    BY <1>1, <1>4, ItemsKept DEF Embodied
  <1>5. ASSUME NEW j \in Jobs, Disembodied(j) PROVE ItemInv'
    <2>1. UNCHANGED laidMidPut /\ current' \in {current, <<>>}
      BY <1>5, Taken DEF Disembodied
    <2>2. \A f \in Furniture : world'[f] = world[f]
      BY <1>2, <1>5, Taken
    <2>3. QED BY <1>1, <2>1, <2>2, ItemsKept
  <1>6. ASSUME NEW j \in Jobs, NEW c \in Orders, Written(j, c) PROVE ItemInv'
    BY <1>1, <1>6, ItemsKept DEF Written
  <1>7. ASSUME NEW b \in Behaviours, ReadAll(b) PROVE ItemInv'
    BY <1>1, <1>7, ItemsKept DEF ReadAll
  <1>8. ASSUME TurnHotplateOn \/ CoffeeReady PROVE ItemInv'
    <2>1. UNCHANGED <<current, laidMidPut>>
      BY <1>8 DEF TurnHotplateOn, CoffeeReady
    <2>2. \A f \in Furniture : world'[f] = world[f]
      BY <1>2, <1>8, Around
    <2>3. QED BY <1>1, <2>1, <2>2, ItemsKept
  <1>9. QED BY <1>3, <1>4, <1>5, <1>6, <1>7, <1>8, StartSorts, CompleteSorts, LaySorts DEF NextBody

\* Sets that share nothing count as one.
LEMMA CountOfTwo ==
  ASSUME NEW A, NEW B, IsFiniteSet(A), IsFiniteSet(B), A \cap B = {}
  PROVE  IsFiniteSet(A \cup B) /\ Cardinality(A \cup B) = Cardinality(A) + Cardinality(B)
  <1>1. Cardinality(A) \in Nat /\ Cardinality(B) \in Nat
    BY FS_CardinalityType
  <1>2. Cardinality(A \cap B) = 0
    BY FS_EmptySet
  <1>3. IsFiniteSet(A \cup B) /\ Cardinality(A \cup B) = Cardinality(A) + Cardinality(B) - Cardinality(A \cap B)
    BY FS_Union
  <1>4. QED BY <1>1, <1>2, <1>3

LEMMA CountOfThree ==
  ASSUME NEW A, NEW B, NEW C, IsFiniteSet(A), IsFiniteSet(B), IsFiniteSet(C),
         A \cap B = {}, A \cap C = {}, B \cap C = {}
  PROVE  Cardinality(A \cup B \cup C) = Cardinality(A) + Cardinality(B) + Cardinality(C)
  <1>1. (A \cup B) \cap C = {}
    OBVIOUS
  <1>2. IsFiniteSet(A \cup B) /\ Cardinality(A \cup B) = Cardinality(A) + Cardinality(B)
    BY CountOfTwo
  <1>3. Cardinality((A \cup B) \cup C) = Cardinality(A \cup B) + Cardinality(C)
    BY <1>1, <1>2, CountOfTwo
  <1>4. QED BY <1>2, <1>3

\* No item is lost or doubled, whatever is asked of the body, cut short or taken back, unless somebody
\* lays the table in the middle of a put (vla.py:205, 264).
THEOREM NoItemIsLost == BodySpec => []EachItemSomewhere
  <1>1. ASSUME BodyInv, ItemInv, ~laidMidPut
        PROVE  /\ world.table \cup world.basket \cup world.tray = Items
               /\ Cardinality(world.table) + Cardinality(world.basket) + Cardinality(world.tray)
                    = Cardinality(Items)
    <2>1. Sorted(world)
      BY <1>1 DEF ItemInv
    <2>2. IsFiniteSet(world.table) /\ IsFiniteSet(world.basket) /\ IsFiniteSet(world.tray)
      BY <1>1, Room, BodyAssumption, FS_Subset DEF BodyInv, BodyShape
    <2>3. QED BY <2>1, <2>2, CountOfThree DEF Sorted
  <1>2. BodyInv /\ ItemInv => EachItemSomewhere
    BY <1>1 DEF EachItemSomewhere
  <1>3. ASSUME InitBody PROVE ItemInv
    <2>1. current = <<>> /\ world.table = Items /\ world.basket = {} /\ world.tray = {}
      BY <1>3 DEF InitBody
    <2>2. QED BY <2>1, Empty DEF ItemInv, Sorted
  <1>4. QED BY <1>2, <1>3, BodyInit, BodyStep, ItemStep, PTL DEF BodySpec
=============================================================================
