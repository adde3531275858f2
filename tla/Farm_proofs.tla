----------------------------- MODULE Farm_proofs -----------------------------
(***************************************************************************)
(* What is proved of Farm and of the Drone under it, for any map, jobs and *)
(* mornings: the drone is kept in, a look is of one place, and a spent     *)
(* battery is brought home.                                                *)
(***************************************************************************)
EXTENDS Farm, WellFoundedInduction, SequenceTheorems, TLAPS

-----------------------------------------------------------------------------
(***************************************************************************)
(* The invariant.                                                          *)
(***************************************************************************)
\* What is in hand, what waits and what is unread are sequences; of what, is left open.
DroneType ==
  /\ wearer \in Jobs \cup {Nobody}
  /\ queue \in Seq(Range(queue)) /\ \A k \in DOMAIN queue : queue[k].job \in Jobs
  /\ current = <<>> \/ (\E a : current = <<a>> /\ a.job \in Jobs)
  /\ DOMAIN unread = Behaviours /\ \A b \in Behaviours : unread[b] \in Seq(Range(unread[b]))

MindType ==
  /\ DOMAIN pc = Jobs /\ DOMAIN saying = Jobs /\ DOMAIN mind = Jobs
  /\ \A j \in Jobs : "home" \in DOMAIN mind[j] /\ mind[j].home \in BOOLEAN

\* Every command on its way was allowed, and the one in hand was begun where the drone still is.
PlaceInv ==
  /\ position \in ON_FARM /\ altitude <= CEILING_M
  /\ \A k \in DOMAIN queue : Allowed(queue[k].command)
  /\ \A k \in DOMAIN current :
       LET a == current[k] IN
         /\ a.origin = position /\ a.target \in ON_FARM
         /\ a.outcome.position \in ON_FARM /\ a.outcome.altitude <= CEILING_M
         /\ IF a.command.verb \in MOTIONS THEN a.job = wearer ELSE a.target = a.origin
         /\ a.command = Return => a.outcome.position = "shed" /\ a.outcome.altitude = 0

Returners == Of("battery-return")
Home(j)   == mind[j].home = TRUE
Waits(j)  == pc[j] \in {"listening", "blocked"}
Owed(j)   == Doing(j) \/ Queued(j)
Mail      == unread["battery-return"]

\* A behaviour has one command on its way at most.
OneEach ==
  /\ \A j \in Jobs : Doing(j) => ~Queued(j)
  /\ \A k, l \in DOMAIN queue : queue[k].job = queue[l].job => k = l

\* The behaviour of the battery is never two, and orders nothing but the way home.
SoleInv == \A j, k \in Returners : Live(j) /\ Live(k) => j = k

OrdersInv == \A j \in Returners :
  /\ Owed(j) => Waits(j)
  /\ Waits(j) \/ pc[j] \in {"unborn", "held"} => ~Home(j)
  /\ pc[j] = "speaking" => saying[j].to = "farmer" \/ (saying[j].to = "drone" /\ ~Home(j))
  /\ pc[j] = "held" \/ (pc[j] = "speaking" /\ saying[j].to = "drone") => saying[j].order = Return
  /\ \A k \in DOMAIN queue : queue[k].job = j => queue[k].command = Return
  /\ \A k \in DOMAIN current : current[k].job = j => current[k].command = Return

\* It reads each answer before it orders again, and knows it is home only when it is.
MailInv == "battery-return" \in Behaviours =>
  /\ Mail # <<>> => \E j \in Returners : Waits(j) /\ ~Owed(j)
  /\ ToldHome(Mail) => OnPad /\ wearer \in Returners /\ Waits(wearer) /\ ~Owed(wearer)

HomeInv == \A j \in Returners : Live(j) /\ Home(j) => wearer = j /\ OnPad

\* Off its pad with a spent battery, the drone has it on its way.
AlarmInv ==
  /\ critical \in BOOLEAN /\ alarmed = critical
  /\ critical /\ ~OnPad => \E j \in Returners : Live(j) /\ ~Home(j)

DroneInv == DroneType /\ PlaceInv /\ OneEach
HomewardInv == SoleInv /\ OrdersInv /\ MailInv /\ HomeInv /\ AlarmInv

IInv == DroneInv /\ MindType /\ HomewardInv

-----------------------------------------------------------------------------
(***************************************************************************)
(* Sequences of what is left open, and the drone's hand.                   *)
(***************************************************************************)
\* A sequence is one of its own elements.
LEMMA OfItsOwn == ASSUME NEW S, NEW q \in Seq(S) PROVE q \in Seq(Range(q))
  <1>1. \A k \in 1 .. Len(q) : q[k] \in Range(q)
    BY DEF Range
  <1>2. q = [k \in 1 .. Len(q) |-> q[k]] /\ Len(q) \in Nat
    OBVIOUS
  <1>3. QED BY <1>1, <1>2

\* Nothing has no place in it.
LEMMA Nothing == DOMAIN <<>> = {}
  OBVIOUS

\* Something added at the end.
LEMMA Added ==
  ASSUME NEW q, q \in Seq(Range(q)), NEW e
  PROVE  /\ Append(q, e) \in Seq(Range(Append(q, e))) /\ DOMAIN q = 1 .. Len(q) /\ Len(q) \in Nat
         /\ DOMAIN Append(q, e) = 1 .. Len(q) + 1
         /\ \A k \in DOMAIN q : Append(q, e)[k] = q[k]
         /\ Append(q, e)[Len(q) + 1] = e
  <1> DEFINE S == Range(q) \cup {e}
  <1>1. q \in Seq(S)
    <2>1. \A k \in 1 .. Len(q) : q[k] \in S
      BY DEF Range
    <2>2. q = [k \in 1 .. Len(q) |-> q[k]] /\ Len(q) \in Nat
      OBVIOUS
    <2>3. QED BY <2>1, <2>2
  <1>2. e \in S
    OBVIOUS
  <1> HIDE DEF S
  <1>3. Append(q, e) \in Seq(S)
    BY <1>1, <1>2
  <1>4. Append(q, e) \in Seq(Range(Append(q, e)))
    BY <1>3, OfItsOwn
  <1>5. QED BY <1>1, <1>2, <1>4

\* The first taken away.
LEMMA Dropped ==
  ASSUME NEW q, q \in Seq(Range(q)), q # <<>>
  PROVE  /\ Tail(q) \in Seq(Range(Tail(q))) /\ DOMAIN q = 1 .. Len(q) /\ Len(q) \in Nat \ {0}
         /\ DOMAIN Tail(q) = 1 .. Len(q) - 1
         /\ \A k \in DOMAIN Tail(q) : Tail(q)[k] = q[k + 1] /\ k + 1 \in DOMAIN q
         /\ Head(q) = q[1] /\ 1 \in DOMAIN q
  <1>1. Tail(q) \in Seq(Range(q))
    OBVIOUS
  <1>2. Tail(q) \in Seq(Range(Tail(q)))
    BY <1>1, OfItsOwn
  <1>3. QED BY <1>2

\* What is in hand is one thing.
LEMMA Hand ==
  ASSUME DroneType
  PROVE  /\ current = <<>> => ~Moving /\ (\A j : ~Doing(j)) /\ DOMAIN current = {}
         /\ current # <<>> =>
              /\ DOMAIN current = {1} /\ current = <<current[1]>> /\ current[1].job \in Jobs
              /\ Moving <=> current[1].command.verb \in MOTIONS
              /\ \A j : Doing(j) <=> current[1].job = j
  <1>1. CASE current = <<>>
    <2>1. DOMAIN current = {}
      BY <1>1
    <2>2. QED BY <1>1, <2>1 DEF Moving, Doing
  <1>2. CASE current # <<>>
    <2>1. PICK a : current = <<a>> /\ a.job \in Jobs
      BY <1>2 DEF DroneType
    <2>2. DOMAIN current = {1} /\ current[1] = a
      BY <2>1
    <2>3. QED BY <1>2, <2>1, <2>2 DEF Moving, Doing
  <1>3. QED BY <1>1, <1>2

\* An answer reaches the one behaviour it is for, or does not fit.
LEMMA Arrived ==
  ASSUME DroneType, NEW j \in Jobs, NEW a, Arrives(j, a)
  PROVE  /\ DescriptorOf[j] \in Behaviours /\ DOMAIN unread' = Behaviours
         /\ \A b \in Behaviours : /\ unread'[b] \in Seq(Range(unread'[b]))
                                  /\ b # DescriptorOf[j] => unread'[b] = unread[b]
                                  /\ \/ unread'[b] = unread[b]
                                     \/ unread'[b] = Append(unread[b], a)
  <1>1. DescriptorOf[j] \in Behaviours
    BY DEF Behaviours
  <1> DEFINE d == DescriptorOf[j]
  <1>2. unread' = [unread EXCEPT ![d] = IF Len(unread[d]) < Capacity THEN Append(unread[d], a) ELSE unread[d]]
    BY DEF Arrives
  <1>3. DOMAIN unread = Behaviours /\ \A b \in Behaviours : unread[b] \in Seq(Range(unread[b]))
    BY DEF DroneType
  <1>4. \A b \in Behaviours : Append(unread[b], a) \in Seq(Range(Append(unread[b], a)))
    BY <1>3, Added
  <1> HIDE DEF d
  <1>5. DOMAIN unread' = Behaviours
    BY <1>2, <1>3
  <1>6. \A b \in Behaviours : /\ b # d => unread'[b] = unread[b]
                              /\ unread'[b] = unread[b] \/ unread'[b] = Append(unread[b], a)
    BY <1>1, <1>2, <1>3 DEF d
  <1>7. \A b \in Behaviours : unread'[b] \in Seq(Range(unread'[b]))
    BY <1>3, <1>4, <1>6
  <1>8. QED BY <1>1, <1>5, <1>6, <1>7 DEF d

-----------------------------------------------------------------------------
(***************************************************************************)
(* The drone.                                                              *)
(***************************************************************************)
\* The property has the shed on it, and a flight cut short ends on it.
LEMMA OnTheFarm ==
  /\ "shed" \in ON_FARM /\ ON_FARM \subseteq Places /\ Nobody \notin Jobs
  /\ \A o \in ON_FARM, t \in ON_FARM : CutShort[o][t] \subseteq ON_FARM
  <1>1. "shed" \in ON_FARM /\ ON_FARM \subseteq Places /\ Nobody \notin Jobs
    BY DroneAssumption DEF ON_FARM, OFF_FARM
  <1>2. \A point : nearest_on_farm(point) \subseteq ON_FARM
    BY DEF nearest_on_farm
  <1>3. ASSUME NEW o \in ON_FARM, NEW t \in ON_FARM PROVE CutShort[o][t] \subseteq ON_FARM
    <2>1. CutShort[o][t] = UNION {nearest_on_farm(Along(o, t, k)) : k \in 0 .. Steps}
      BY <1>1 DEF CutShort
    <2>2. QED BY <1>2, <2>1
  <1>4. QED BY <1>1, <1>3

\* The way home is a motion the rules allow.
LEMMA TheWayHome == Return.verb = "return" /\ Return.verb \in MOTIONS /\ Allowed(Return)
  BY DEF Return, Command, MOTIONS, Allowed

\* An answer that tells a behaviour it is home.
TellsHome(a) == a.kind = "done" /\ a.command = Return

\* The drone is taken from the behaviour that flies it: what it was doing stops, unless it is a look.
LEMMA TakenAway ==
  ASSUME DroneType, PlaceInv, NEW j \in Jobs, Disembodied(j)
  PROVE  /\ Settled /\ wearer = j /\ wearer' = Nobody /\ UNCHANGED <<queue, altitude, power, farm>>
         /\ position' \in ON_FARM
         /\ ~Moving => position' = position
         /\ \/ /\ current # <<>> /\ current' = <<>> /\ Doing(j)
               /\ \E a : Arrives(j, a) /\ ~TellsHome(a)
            \/ UNCHANGED <<current, position, unread>> /\ ~Moving
  <1>1. Settled /\ wearer = j /\ wearer' = Nobody /\ UNCHANGED <<queue, altitude, power, farm>>
    BY DEF Disembodied
  <1>2. CASE StopsFor(j)
    <2> DEFINE a == current[1]
    <2>1. current # <<>> /\ a.job = j /\ Doing(j) /\ 1 \in DOMAIN current
      BY <1>2, Hand DEF StopsFor, Doing
    <2>2. /\ current' = <<>>
          /\ position' \in IF a.target = a.origin THEN {position} ELSE CutShort[a.origin][a.target]
          /\ Arrives(j, Answer("interrupted", a.command, position'))
      BY <1>2, <2>1 DEF Disembodied, Abort, Answers
    <2>3. /\ a.origin = position /\ a.target \in ON_FARM /\ position \in ON_FARM
          /\ a.command.verb \notin MOTIONS => a.target = a.origin
      BY <2>1 DEF PlaceInv
    <2>4. ~TellsHome(Answer("interrupted", a.command, position'))
      BY DEF TellsHome, Answer
    <2>5. Moving <=> a.command.verb \in MOTIONS
      BY <2>1, Hand
    <2> HIDE DEF a
    <2>6. position' \in ON_FARM /\ (~Moving => position' = position)
      BY <2>2, <2>3, <2>5, OnTheFarm
    <2>7. QED BY <1>1, <2>1, <2>2, <2>4, <2>6
  <1>3. CASE ~StopsFor(j)
    <2>1. UNCHANGED <<current, position, unread>>
      BY <1>3 DEF Disembodied
    <2>2. ~Moving
      BY <1>1, <1>3 DEF PlaceInv, Moving, StopsFor
    <2>3. QED BY <1>1, <2>1, <2>2 DEF PlaceInv
  <1>4. QED BY <1>2, <1>3

\* The next command is begun, or handed back.
LEMMA Started ==
  ASSUME DroneType, PlaceInv, StartCommand
  PROVE  /\ current = <<>> /\ queue # <<>> /\ ~(OnPad /\ critical) /\ queue' = Tail(queue) /\ queue[1].job \in Jobs
         /\ UNCHANGED <<wearer, position, altitude, power, farm>>
         /\ \/ UNCHANGED current /\ \E a : Arrives(queue[1].job, a) /\ ~TellsHome(a)
            \/ /\ queue[1].job = wearer /\ UNCHANGED unread
               /\ current' = <<[job |-> wearer, command |-> queue[1].command, origin |-> position,
                                target |-> Target(queue[1].command), outcome |-> Outcome(queue[1].command)]>>
  <1> DEFINE next == queue[1]
  <1>1. /\ current = <<>> /\ queue # <<>> /\ ~(OnPad /\ critical) /\ queue' = Tail(queue)
        /\ UNCHANGED <<wearer, position, altitude, power, farm>>
    BY DEF StartCommand
  <1>2. Head(queue) = next /\ next.job \in Jobs
    BY <1>1, Dropped DEF DroneType
  <1>3. \A kind : kind # "done" => ~TellsHome(Answer(kind, next.command, ""))
    BY DEF TellsHome, Answer
  <1>4. \/ Arrives(next.job, Answer("taken", next.command, "")) /\ UNCHANGED current
        \/ Arrives(next.job, Answer("refused", next.command, "")) /\ UNCHANGED current
        \/ /\ next.job = wearer /\ UNCHANGED unread
           /\ current' = <<[job |-> next.job, command |-> next.command, origin |-> position,
                            target |-> Target(next.command), outcome |-> Outcome(next.command)]>>
    BY <1>2 DEF StartCommand, TakenBack, Answers
  <1> HIDE DEF next
  <1>5. \/ UNCHANGED current /\ \E a : Arrives(next.job, a) /\ ~TellsHome(a)
        \/ /\ next.job = wearer /\ UNCHANGED unread
           /\ current' = <<[job |-> wearer, command |-> next.command, origin |-> position,
                            target |-> Target(next.command), outcome |-> Outcome(next.command)]>>
    BY <1>3, <1>4
  <1>6. QED BY <1>1, <1>2, <1>5 DEF next

\* What is in hand is over.
LEMMA Completed ==
  ASSUME DroneType, PlaceInv, Complete
  PROVE  /\ current # <<>> /\ current' = <<>> /\ UNCHANGED <<wearer, queue, power>> /\ current[1].job \in Jobs
         /\ position' \in ON_FARM /\ altitude' <= CEILING_M
         /\ ~Moving => UNCHANGED <<position, altitude>>
         /\ current[1].command = Return => position' = "shed" /\ altitude' = 0
         /\ \E a : Arrives(current[1].job, a) /\ a.command = current[1].command
  <1> DEFINE a == current[1]
  <1>1. /\ current # <<>> /\ current' = <<>> /\ UNCHANGED <<wearer, queue, power>>
        /\ IF a.command.verb \in MOTIONS
              THEN position' = a.outcome.position /\ altitude' = a.outcome.altitude
              ELSE UNCHANGED <<position, altitude>>
        /\ Arrives(a.job, Saw(a.command, position))
    BY DEF Complete, Answers
  <1>2. 1 \in DOMAIN current /\ a.job \in Jobs /\ (Moving <=> a.command.verb \in MOTIONS)
    BY <1>1, Hand
  <1>3. /\ a.outcome.position \in ON_FARM /\ a.outcome.altitude <= CEILING_M
        /\ a.command = Return => a.outcome.position = "shed" /\ a.outcome.altitude = 0
        /\ position \in ON_FARM /\ altitude <= CEILING_M
    BY <1>2 DEF PlaceInv
  <1>4. \A c, p : Saw(c, p).command = c
    BY DEF Saw, Answer
  <1>5. a.command = Return => a.command.verb \in MOTIONS
    BY TheWayHome
  <1> HIDE DEF a
  <1>6. /\ position' \in ON_FARM /\ altitude' <= CEILING_M
        /\ ~Moving => UNCHANGED <<position, altitude>>
        /\ a.command = Return => position' = "shed" /\ altitude' = 0
    BY <1>1, <1>2, <1>3, <1>5
  <1>7. \E b : Arrives(a.job, b) /\ b.command = a.command
    BY <1>1, <1>4
  <1>8. QED BY <1>1, <1>2, <1>6, <1>7 DEF a

\* Whatever leaves the drone and the answers as they are.
LEMMA DroneStill == ASSUME DroneInv, UNCHANGED <<flight, unread>> PROVE DroneInv'
  BY DEF DroneInv, DroneType, PlaceInv, OneEach, Doing, Queued, flight

\* A behaviour is given the drone: nobody's motion is in hand.
LEMMA DroneGiven == ASSUME DroneInv, NEW j \in Jobs, Embodied(j) PROVE DroneInv'
  <1>1. wearer = Nobody /\ wearer' = j /\ UNCHANGED <<queue, current, position, altitude, unread>>
    BY DEF Embodied
  <1>2. DroneType'
    BY <1>1 DEF DroneInv, DroneType
  <1>3. \A k \in DOMAIN current : current[k].job # Nobody
    <2>1. current # <<>> => current[1].job # Nobody /\ DOMAIN current = {1}
      BY Hand, OnTheFarm DEF DroneInv
    <2>2. current = <<>> => DOMAIN current = {}
      OBVIOUS
    <2>3. QED BY <2>1, <2>2
  <1>4. PlaceInv'
    BY <1>1, <1>3 DEF DroneInv, PlaceInv
  <1>5. OneEach'
    BY <1>1 DEF DroneInv, OneEach, Doing, Queued
  <1>6. QED BY <1>2, <1>4, <1>5 DEF DroneInv

\* ... and loses it.
LEMMA DroneTaken == ASSUME DroneInv, NEW j \in Jobs, Disembodied(j) PROVE DroneInv'
  <1>1. DroneType /\ PlaceInv
    BY DEF DroneInv
  <1>2. /\ wearer' = Nobody /\ UNCHANGED <<queue, altitude>> /\ position' \in ON_FARM
        /\ \/ current' = <<>> /\ \E a : Arrives(j, a) /\ ~TellsHome(a)
           \/ UNCHANGED <<current, position, unread>> /\ ~Moving
    BY <1>1, TakenAway
  <1>3. DroneType'
    <2>1. DOMAIN unread' = Behaviours /\ \A b \in Behaviours : unread'[b] \in Seq(Range(unread'[b]))
      <3>1. CASE UNCHANGED unread
        BY <1>1, <3>1 DEF DroneType
      <3>2. CASE \E a : Arrives(j, a)
        BY <1>1, <3>2, Arrived
      <3>3. QED BY <1>2, <3>1, <3>2
    <2>2. QED BY <1>1, <1>2, <2>1 DEF DroneType
  <1>4. PlaceInv'
    <2>1. CASE current' = <<>>
      BY <1>1, <1>2, <2>1 DEF PlaceInv
    <2>2. CASE UNCHANGED <<current, position, unread>> /\ ~Moving
      BY <1>1, <1>2, <2>2 DEF PlaceInv, Moving
    <2>3. QED BY <1>2, <2>1, <2>2
  <1>5. OneEach'
    <2>1. \A i \in Jobs : (Doing(i)' => Doing(i)) /\ (Queued(i)' <=> Queued(i))
      BY <1>2 DEF Doing, Queued
    <2>2. QED BY <1>2, <2>1 DEF DroneInv, OneEach
  <1>6. QED BY <1>3, <1>4, <1>5 DEF DroneInv

\* The behaviour that flies it orders something the rules allow; anyone else is refused.
LEMMA DroneOrdered == ASSUME DroneInv, NEW j \in Jobs, NEW c, Written(j, c), Allowed(c) PROVE DroneInv'
  <1>1. DroneType /\ UNCHANGED <<wearer, current, position, altitude>>
    BY DEF DroneInv, Written
  <1>2. CASE j # wearer \/ Doing(j) \/ Queued(j)
    <2>1. UNCHANGED queue /\ \E a : Arrives(j, a)
      BY <1>2 DEF Written
    <2>2. DroneType'
      BY <1>1, <2>1, Arrived DEF DroneType
    <2>3. PlaceInv' /\ OneEach'
      BY <1>1, <2>1 DEF DroneInv, PlaceInv, OneEach, Doing, Queued
    <2>4. QED BY <2>2, <2>3 DEF DroneInv
  <1>3. CASE ~(j # wearer \/ Doing(j) \/ Queued(j))
    <2> DEFINE e == [job |-> j, command |-> c]
    <2>1. queue' = Append(queue, e) /\ UNCHANGED unread /\ e.job = j /\ e.command = c
      BY <1>3 DEF Written
    <2> HIDE DEF e
    <2> DEFINE n == Len(queue)
    <2>2. /\ queue' \in Seq(Range(queue')) /\ DOMAIN queue = 1 .. n /\ n \in Nat
          /\ DOMAIN queue' = 1 .. n + 1 /\ \A k \in DOMAIN queue : queue'[k] = queue[k]
          /\ queue'[n + 1] = e
      BY <1>1, <2>1, Added DEF DroneType
    <2> HIDE DEF n
    <2>3. \A k \in DOMAIN queue' : k \in DOMAIN queue \/ k = n + 1
      BY <2>2
    <2>4. DroneType'
      BY <1>1, <2>1, <2>2, <2>3 DEF DroneType
    <2>5. PlaceInv'
      BY <1>1, <2>1, <2>2, <2>3 DEF DroneInv, PlaceInv
    <2>6. OneEach'
      <3>1. \A i \in Jobs : /\ Doing(i)' <=> Doing(i)
                            /\ Queued(i)' => Queued(i) \/ i = j
        BY <1>1, <2>1, <2>2, <2>3 DEF Doing, Queued
      <3>2. \A k \in DOMAIN queue : queue[k].job # j
        BY <1>3 DEF Queued
      <3>3. QED BY <1>3, <2>1, <2>2, <2>3, <3>1, <3>2 DEF DroneInv, OneEach
    <2>7. QED BY <2>4, <2>5, <2>6 DEF DroneInv
  <1>4. QED BY <1>2, <1>3

\* The next command is begun where the drone is.
LEMMA DroneStarts == ASSUME DroneInv, StartCommand PROVE DroneInv'
  <1>1. DroneType /\ PlaceInv
    BY DEF DroneInv
  <1>2. /\ current = <<>> /\ queue # <<>> /\ queue' = Tail(queue) /\ queue[1].job \in Jobs
        /\ UNCHANGED <<wearer, position, altitude>>
        /\ \/ UNCHANGED current /\ \E a : Arrives(queue[1].job, a)
           \/ /\ queue[1].job = wearer /\ UNCHANGED unread
              /\ current' = <<[job |-> wearer, command |-> queue[1].command, origin |-> position,
                               target |-> Target(queue[1].command), outcome |-> Outcome(queue[1].command)]>>
    BY <1>1, Started
  <1>3. /\ queue' \in Seq(Range(queue')) /\ 1 \in DOMAIN queue /\ DOMAIN queue = 1 .. Len(queue)
        /\ Len(queue) \in Nat /\ DOMAIN queue' = 1 .. Len(queue) - 1
        /\ \A k \in DOMAIN queue' : queue'[k] = queue[k + 1] /\ k + 1 \in DOMAIN queue
    BY <1>1, <1>2, Dropped DEF DroneType
  <1>4. \A k \in DOMAIN queue' : queue'[k].job # queue[1].job
    <2>1. TAKE k \in DOMAIN queue'
    <2>2. k + 1 # 1 /\ k + 1 \in DOMAIN queue /\ queue'[k] = queue[k + 1]
      BY <1>3
    <2>3. QED BY <1>3, <2>2 DEF DroneInv, OneEach
  <1>5. /\ \A k \in DOMAIN queue' : queue'[k].job \in Jobs /\ Allowed(queue'[k].command)
        /\ \A k, l \in DOMAIN queue' : queue'[k].job = queue'[l].job => k = l
    <2>1. \A k \in DOMAIN queue' : queue'[k].job \in Jobs /\ Allowed(queue'[k].command)
      BY <1>1, <1>3 DEF DroneType, PlaceInv
    <2>2. ASSUME NEW k \in DOMAIN queue', NEW l \in DOMAIN queue', queue'[k].job = queue'[l].job
          PROVE  k = l
      <3>1. k + 1 = l + 1
        BY <1>3, <2>2 DEF DroneInv, OneEach
      <3>2. QED BY <1>3, <3>1
    <2>3. QED BY <2>1, <2>2
  <1>6. CASE UNCHANGED current /\ \E a : Arrives(queue[1].job, a)
    <2>1. DroneType'
      BY <1>1, <1>2, <1>3, <1>5, <1>6, Arrived DEF DroneType
    <2>2. PlaceInv'
      BY <1>1, <1>2, <1>5, <1>6 DEF PlaceInv
    <2>3. OneEach'
      BY <1>2, <1>5, <1>6 DEF OneEach, Doing
    <2>4. QED BY <2>1, <2>2, <2>3 DEF DroneInv
  <1>7. CASE ~(UNCHANGED current /\ \E a : Arrives(queue[1].job, a))
    <2> DEFINE c == queue[1].command
    <2> DEFINE b == [job |-> wearer, command |-> c, origin |-> position, target |-> Target(c),
                     outcome |-> Outcome(c)]
    <2>1. /\ current' = <<b>> /\ DOMAIN current' = {1} /\ current'[1] = b
          /\ queue[1].job = wearer /\ UNCHANGED unread
      <3>1. current' = <<b>> /\ queue[1].job = wearer /\ UNCHANGED unread
        BY <1>2, <1>7
      <3>2. QED BY <3>1
    <2>2. /\ b.job = wearer /\ b.command = c /\ b.origin = position /\ b.target = Target(c)
          /\ b.outcome = Outcome(c)
      OBVIOUS
    <2>3. Allowed(c)
      BY <1>1, <1>3 DEF PlaceInv
    <2> HIDE DEF b, c
    <2>4. /\ Target(c) \in ON_FARM /\ Outcome(c).position \in ON_FARM /\ Outcome(c).altitude <= CEILING_M
          /\ c.verb \notin MOTIONS => Target(c) = position
      <3>1. position \in ON_FARM /\ altitude <= CEILING_M /\ "shed" \in ON_FARM
        BY <1>1, OnTheFarm DEF PlaceInv
      <3>2. Outcome(c).position \in ON_FARM /\ Outcome(c).altitude <= CEILING_M
        BY <2>3, <3>1 DEF Outcome, Allowed, CEILING_M, CRUISE_M
      <3>3. QED BY <2>3, <3>1, <3>2 DEF Target, Allowed, MOTIONS
    <2>5. c = Return => Outcome(c).position = "shed" /\ Outcome(c).altitude = 0
      BY TheWayHome DEF Outcome
    <2>6. DroneType'
      BY <1>1, <1>2, <1>3, <1>5, <1>7, <2>1, <2>2 DEF DroneType
    <2>7. PlaceInv'
      BY <1>1, <1>2, <1>5, <2>1, <2>2, <2>4, <2>5 DEF PlaceInv
    <2>8. OneEach'
      BY <1>4, <1>5, <1>7, <2>1, <2>2 DEF OneEach, Doing, Queued
    <2>9. QED BY <2>6, <2>7, <2>8 DEF DroneInv
  <1>8. QED BY <1>2, <1>6, <1>7

\* What is in hand is over.
LEMMA DroneCompletes == ASSUME DroneInv, Complete PROVE DroneInv'
  <1>1. DroneType /\ PlaceInv
    BY DEF DroneInv
  <1>2. /\ current' = <<>> /\ UNCHANGED <<wearer, queue>> /\ current[1].job \in Jobs
        /\ position' \in ON_FARM /\ altitude' <= CEILING_M /\ \E a : Arrives(current[1].job, a)
    BY <1>1, Completed
  <1>3. DroneType'
    BY <1>1, <1>2, Arrived DEF DroneType
  <1>4. PlaceInv'
    BY <1>1, <1>2 DEF PlaceInv
  <1>5. OneEach'
    BY <1>2 DEF DroneInv, OneEach, Doing, Queued
  <1>6. QED BY <1>3, <1>4, <1>5 DEF DroneInv

\* A behaviour reads what there is for it.
LEMMA DroneRead ==
  ASSUME DroneInv, NEW b \in Behaviours, ReadAll(b)
  PROVE  DroneInv' /\ unread'[b] = <<>> /\ \A d \in Behaviours : d # b => unread'[d] = unread[d]
  <1>1. unread' = [unread EXCEPT ![b] = <<>>] /\ UNCHANGED flight /\ DOMAIN unread = Behaviours
    BY DEF ReadAll, DroneInv, DroneType
  <1>2. <<>> \in Seq(Range(<<>>))
    OBVIOUS
  <1>3. unread'[b] = <<>> /\ \A d \in Behaviours : d # b => unread'[d] = unread[d]
    BY <1>1
  <1>4. DroneType'
    <2>1. DOMAIN unread' = Behaviours /\ \A d \in Behaviours : unread'[d] \in Seq(Range(unread'[d]))
      BY <1>1, <1>2, <1>3 DEF DroneInv, DroneType
    <2>2. QED BY <1>1, <2>1 DEF DroneInv, DroneType, flight
  <1>5. PlaceInv' /\ OneEach'
    BY <1>1 DEF DroneInv, PlaceInv, OneEach, Doing, Queued, flight
  <1>6. QED BY <1>3, <1>4, <1>5 DEF DroneInv

\* Every step of the morning keeps it.
LEMMA DroneStep == ASSUME DroneInv, [Next]_vars PROVE DroneInv'
  <1>1. ASSUME NEW j \in Jobs,
               \/ Grant(j) \/ Revoke(j) \/ Decide(j) \/ DecideExit(j) \/ SayOrder(j) \/ SayAlert(j)
               \/ SayFinding(j) \/ SayRecords(j) \/ Land(j) \/ Vetoed(j) \/ Block(j) \/ ReadAnswer(j)
        PROVE  DroneInv'
    <2>1. CASE Grant(j)
      BY <2>1, DroneGiven DEF Grant
    <2>2. CASE Revoke(j) \/ DecideExit(j)
      BY <2>2, DroneTaken DEF Revoke, DecideExit
    <2>3. CASE Decide(j) \/ SayOrder(j) \/ SayAlert(j) \/ SayFinding(j) \/ SayRecords(j) \/ Vetoed(j) \/ Block(j)
      BY <2>3, DroneStill DEF Decide, SayOrder, SayAlert, SayFinding, SayRecords, Vetoed, Block, drone
    <2>4. CASE Land(j)
      BY <2>4, DroneOrdered DEF Land
    <2>5. CASE ReadAnswer(j)
      <3>1. DescriptorOf[j] \in Behaviours
        BY DEF Behaviours
      <3>2. QED BY <2>5, <3>1, DroneRead DEF ReadAnswer
    <2>6. QED BY <1>1, <2>1, <2>2, <2>3, <2>4, <2>5
  <1>2. CASE Fly1
    BY <1>2, DroneStill, DroneStarts, DroneCompletes DEF Fly1, Swap, DroveOff, Aside
  <1>3. CASE Drives \/ Leaves \/ Calves \/ Strays \/ Trough \/ Parks
    BY <1>3, DroneStill DEF Drives, Leaves, Calves, Strays, Trough, Parks, vehicle_enters, vehicle_leaves,
                            calves_born, stray, trough_fault, park, Aside
  <1>4. CASE Fire \/ Battery \/ Drained \/ Find \/ Dawn
    BY <1>4, DroneStill DEF Fire, Battery, Drained, Find, Dawn, start_fire, battery_fails, RunsDown, Aside, drone
  <1>5. CASE UNCHANGED vars
    BY <1>5, DroneStill DEF vars, drone
  <1>6. QED BY <1>1, <1>2, <1>3, <1>4, <1>5 DEF Next, System, Behave, Happens

\* The morning begins on the pad.
LEMMA DroneInit == ASSUME Init PROVE DroneInv
  <1>1. /\ wearer = Nobody /\ position = "shed" /\ altitude = 0
        /\ queue = <<>> /\ DOMAIN queue = {} /\ current = <<>> /\ DOMAIN current = {}
    <2>1. DOMAIN <<>> = {}
      BY Nothing
    <2>2. QED BY <2>1 DEF Init, InitDrone
  <1>2. DroneType
    <2>1. <<>> \in Seq(Range(<<>>))
      OBVIOUS
    <2>2. DOMAIN unread = Behaviours /\ \A b \in Behaviours : unread[b] = <<>>
      BY DEF Init, InitDrone
    <2>3. QED BY <1>1, <2>1, <2>2 DEF DroneType
  <1>3. PlaceInv
    BY <1>1, OnTheFarm DEF PlaceInv, CEILING_M
  <1>4. OneEach
    BY <1>1 DEF OneEach, Doing
  <1>5. QED BY <1>2, <1>3, <1>4 DEF DroneInv

\* The drone stays on the property and below its ceiling, wherever a flight is cut short and
\* whoever has it then (rules.py, farm.py:67).
THEOREM StaysIn == Spec => []KeptIn
  <1>1. DroneInv => KeptIn
    BY DEF DroneInv, PlaceInv, KeptIn
  <1>2. QED BY <1>1, DroneInit, DroneStep, PTL DEF Spec

\* A look in hand is a look at the place it was begun over, though its behaviour may have lost the
\* drone (sim.py:206).
THEOREM LooksAreWhole == Spec => []LooksWhole
  <1>1. DroneInv => LooksWhole
    BY DEF DroneInv, PlaceInv, LooksWhole
  <1>2. QED BY <1>1, DroneInit, DroneStep, PTL DEF Spec

-----------------------------------------------------------------------------
(***************************************************************************)
(* The way home.                                                           *)
(***************************************************************************)
Less == {ss \in Nat \X Nat : ss[1] < ss[2]}

\* The next job of a behaviour is one of its that has not begun.
LEMMA NextOne ==
  ASSUME NEW b, Unborn(b) # {}
  PROVE  Next1(b) \in Of(b) /\ Next1(b) \in Jobs /\ pc[Next1(b)] = "unborn"
  <1>1. Unborn(b) \subseteq Nat
    BY FarmAssumption DEF Unborn, Of
  <1>2. IsWellFoundedOn(Less, Nat)
    BY NatLessThanWellFounded DEF OpToRel, Less
  <1>3. \E x \in Unborn(b) : \A y \in Unborn(b) : ~(<<y, x>> \in Less)
    BY <1>1, <1>2, WFMin, Zenon
  <1>4. \A x, y \in Unborn(b) : y < x => <<y, x>> \in Less
    BY <1>1 DEF Less
  <1>5. \A x, y \in Unborn(b) : ~(y < x) => x <= y
    BY <1>1, SMT
  <1>6. \E x \in Unborn(b) : \A y \in Unborn(b) : x <= y
    BY <1>3, <1>4, <1>5
  <1>7. Next1(b) \in Unborn(b)
    BY <1>6 DEF Next1
  <1>8. QED BY <1>7 DEF Unborn, Of

\* Nobody is more urgent than who brings a spent battery home.
LEMMA NoneMoreUrgent == ASSUME NEW j \in Returners, NEW k \in Jobs PROVE ~(Rank(k) < Rank(j))
  <1>1. DescriptorOf[j] = "battery-return" /\ j \in Jobs
    BY DEF Returners, Of
  <1>2. Rank(j) = 5
    BY <1>1 DEF Rank, Priority
  <1>3. DescriptorOf[k] \in DOMAIN Priority
    BY FarmAssumption DEF Behaviours
  <1>4. Rank(k) \in {5, 15, 20, 30, 40, 80}
    BY <1>3 DEF Rank, Priority
  <1>5. QED BY <1>2, <1>4

\* What it says next depends on whether it knows it is home.
LEMMA WhatItSays ==
  ASSUME NEW j \in Returners
  PROVE  /\ ~mind[j].home => /\ NextCommand(j).to = "drone" /\ NextCommand(j).order = Return
                             /\ NextCommand(j) # Exit
         /\ mind[j].home => NextCommand(j).to = "farmer" \/ NextCommand(j) = Exit
  <1>1. NextCommand(j) = battery_return(mind[j])
    BY DEF Returners, Of, NextCommand
  <1>2. Order(Return).to = "drone" /\ Order(Return).order = Return /\ Order(Return) # Exit
    <2> DEFINE say == Say("drone", "", "")
    <2>1. Order(Return) = [say EXCEPT !.order = Return]
      BY DEF Order
    <2>2. say.to = "drone" /\ "order" \in DOMAIN say
      BY DEF Say
    <2> HIDE DEF say
    <2>3. Order(Return).to = "drone" /\ Order(Return).order = Return
      BY <2>1, <2>2
    <2>4. Exit.to = "exit"
      BY DEF Exit, Say
    <2>5. QED BY <2>3, <2>4
  <1>3. Tell("battery", "shed").to = "farmer"
    BY DEF Tell, Say
  <1>4. QED BY <1>1, <1>2, <1>3 DEF battery_return

\* A transcript tells of the way home what its answers do.
LEMMA WhatIsHeard ==
  ASSUME NEW m, NEW as, "home" \in DOMAIN m, m.home \in BOOLEAN
  PROVE  /\ "home" \in DOMAIN HearAll(m, as) /\ HearAll(m, as).home \in BOOLEAN
         /\ HearAll(m, as).home = TRUE <=> (m.home = TRUE \/ ToldHome(as))
  <1> DEFINE o == Heard(m, as).over
  <1> DEFINE l == Heard(m, as).altitude
  <1> DEFINE s == Heard(m, as).looks
  <1> DEFINE h == m.home \/ ToldHome(as)
  <1>1. HearAll(m, as) = [m EXCEPT !.over = o, !.altitude = l, !.looks = s, !.home = h]
    BY DEF HearAll
  <1>2. h \in BOOLEAN /\ (h = TRUE <=> (m.home = TRUE \/ ToldHome(as)))
    BY DEF ToldHome
  <1> HIDE DEF o, l, s, h
  <1>3. "home" \in DOMAIN HearAll(m, as) /\ HearAll(m, as).home = h
    BY <1>1
  <1>4. QED BY <1>2, <1>3

\* One more answer.
LEMMA OneMoreTold ==
  ASSUME NEW q, q \in Seq(Range(q)), NEW a
  PROVE  Append(q, a) # <<>> /\ (ToldHome(Append(q, a)) => ToldHome(q) \/ TellsHome(a))
  <1>1. /\ DOMAIN q = 1 .. Len(q) /\ Len(q) \in Nat /\ DOMAIN Append(q, a) = 1 .. Len(q) + 1
        /\ \A k \in DOMAIN q : Append(q, a)[k] = q[k]
        /\ Append(q, a)[Len(q) + 1] = a
    BY Added
  <1>2. Append(q, a) # <<>>
    BY <1>1
  <1>3. \A k \in DOMAIN Append(q, a) : k \in DOMAIN q \/ k = Len(q) + 1
    BY <1>1
  <1>4. QED BY <1>1, <1>2, <1>3 DEF ToldHome, TellsHome

\* While one of them is about, no other is and no other is owed anything.
LEMMA TheOnlyOne ==
  ASSUME IInv, NEW r \in Returners, Live(r)
  PROVE  /\ \A j \in Returners \ {r} : ~Live(j) /\ ~Owed(j)
         /\ "battery-return" \in Behaviours /\ r \in Jobs /\ DescriptorOf[r] = "battery-return"
         /\ Mail # <<>> => Waits(r) /\ ~Owed(r)
         /\ ToldHome(Mail) => OnPad /\ wearer = r /\ Waits(r) /\ ~Owed(r)
         /\ Mail = <<>> => ~ToldHome(Mail)
  <1>1. r \in Jobs /\ DescriptorOf[r] = "battery-return" /\ "battery-return" \in Behaviours
    BY DEF Returners, Of, Behaviours
  <1>2. \A j \in Returners : Waits(j) => Live(j)
    BY DEF Waits, Live
  <1>3. \A j \in Returners \ {r} : ~Live(j) /\ ~Owed(j)
    BY <1>2 DEF IInv, HomewardInv, SoleInv, OrdersInv
  <1>4. /\ Mail # <<>> => Waits(r) /\ ~Owed(r)
        /\ ToldHome(Mail) => OnPad /\ wearer = r /\ Waits(r) /\ ~Owed(r)
    BY <1>1, <1>2, <1>3 DEF IInv, HomewardInv, MailInv
  <1>5. Mail = <<>> => ~ToldHome(Mail)
    <2>1. DOMAIN <<>> = {}
      BY Nothing
    <2>2. QED BY <2>1 DEF ToldHome
  <1>6. QED BY <1>1, <1>3, <1>4, <1>5

\* What they say and know, and what they are owed, as it was; anything a behaviour of the battery has
\* ordered is the way home.
Alike(j) == /\ pc'[j] = pc[j] /\ saying'[j] = saying[j]
            /\ Home(j)' <=> Home(j)
            /\ Owed(j)' => Owed(j)

OnlyHome(q) == \A k \in DOMAIN q : q[k].job \in Returners => q[k].command = Return

\* The alarm is where it was, or the drone came to its pad.
AlarmStays ==
  /\ critical' \in BOOLEAN /\ alarmed' = critical'
  /\ critical' /\ ~OnPad' => critical /\ ~OnPad

\* What is in the queue and in hand, in the words above.
LEMMA OrdersHome == OrdersInv => OnlyHome(queue) /\ OnlyHome(current)
  BY DEF OrdersInv, OnlyHome

\* Nothing that is theirs: where one of them has the drone it keeps it where it is.
LEMMA Quiet ==
  ASSUME IInv, \A j \in Returners : Alike(j), OnlyHome(queue)', OnlyHome(current)',
         "battery-return" \in Behaviours => Mail' = Mail,
         wearer \in Returners /\ ~Owed(wearer) => wearer' = wearer /\ (OnPad => OnPad')
  PROVE  SoleInv' /\ OrdersInv' /\ MailInv' /\ HomeInv' /\ (AlarmStays => AlarmInv')
  <1>1. SoleInv /\ OrdersInv /\ MailInv /\ HomeInv /\ AlarmInv
    BY DEF IInv, HomewardInv
  <1>2. \A j \in Returners : /\ Live(j)' <=> Live(j)
                             /\ Waits(j)' <=> Waits(j)
    BY DEF Alike, Live, Waits
  <1>3. SoleInv'
    BY <1>1, <1>2 DEF SoleInv
  <1>4. OrdersInv'
    BY <1>1, <1>2 DEF OrdersInv, Alike, OnlyHome
  <1>5. MailInv'
    <2>1. SUFFICES ASSUME "battery-return" \in Behaviours PROVE MailInv'
      BY DEF MailInv
    <2>2. Mail' = Mail
      BY <2>1
    <2>3. Mail' # <<>> => \E j \in Returners : Waits(j)' /\ ~Owed(j)'
      BY <1>1, <1>2, <2>1, <2>2 DEF MailInv, Alike
    <2>4. ToldHome(Mail)' => OnPad' /\ wearer' \in Returners /\ (Waits(wearer) /\ ~Owed(wearer))'
      <3>1. SUFFICES ASSUME ToldHome(Mail)' PROVE OnPad' /\ wearer' \in Returners /\ (Waits(wearer) /\ ~Owed(wearer))'
        OBVIOUS
      <3>2. ToldHome(Mail)
        BY <2>2, <3>1 DEF ToldHome
      <3>3. OnPad /\ wearer \in Returners /\ Waits(wearer) /\ ~Owed(wearer)
        BY <1>1, <2>1, <3>2 DEF MailInv
      <3>4. wearer' = wearer /\ OnPad'
        BY <3>3
      <3>5. (Waits(wearer) /\ ~Owed(wearer))'
        <4> DEFINE w == wearer
        <4>1. ASSUME NEW w1 \in Returners, Waits(w1), ~Owed(w1) PROVE Waits(w1)' /\ ~Owed(w1)'
          BY <1>2, <4>1 DEF Alike
        <4>2. QED BY <3>3, <3>4, <4>1 DEF Waits, Owed, Doing, Queued
      <3>6. QED BY <3>3, <3>4, <3>5
    <2>5. QED BY <2>3, <2>4 DEF MailInv, Returners
  <1>6. HomeInv'
    <2>1. ASSUME NEW j \in Returners, Live(j)', Home(j)' PROVE wearer' = j /\ OnPad'
      <3>1. Live(j) /\ Home(j)
        BY <1>2, <2>1 DEF Alike
      <3>2. wearer = j /\ OnPad /\ ~Owed(j)
        BY <1>1, <3>1 DEF HomeInv, OrdersInv
      <3>3. QED BY <3>2
    <2>2. QED BY <2>1 DEF HomeInv
  <1>7. AlarmStays => AlarmInv'
    BY <1>1, <1>2 DEF AlarmStays, AlarmInv, Alike
  <1>8. QED BY <1>3, <1>4, <1>5, <1>6, <1>7

\* One of them gets the answer it was owed; if that says it is home, it has the drone there.
LEMMA Answered ==
  ASSUME IInv, NEW r \in Returners, Owed(r), ~Owed(r)', \A j \in Returners : Alike(j),
         OnlyHome(queue)', OnlyHome(current)', AlarmStays,
         \/ Mail' = Mail
         \/ \E a : Mail' = Append(Mail, a) /\ (TellsHome(a) => OnPad' /\ wearer' = r)
  PROVE  HomewardInv'
  <1>1. SoleInv /\ OrdersInv /\ HomeInv /\ AlarmInv /\ DroneType
    BY DEF IInv, HomewardInv, DroneInv
  <1>2. \A j \in Returners : /\ Live(j)' <=> Live(j)
                             /\ Waits(j)' <=> Waits(j)
    BY DEF Alike, Live, Waits
  <1>3. Waits(r) /\ Live(r) /\ ~Home(r)
    BY <1>1 DEF OrdersInv, Waits, Live
  <1>4. "battery-return" \in Behaviours /\ ~ToldHome(Mail)
    BY <1>3, TheOnlyOne
  <1>5. SoleInv'
    BY <1>1, <1>2 DEF SoleInv
  <1>6. OrdersInv'
    BY <1>1, <1>2 DEF OrdersInv, Alike, OnlyHome
  <1>7. MailInv'
    <2>1. \E j \in Returners : Waits(j)' /\ ~Owed(j)'
      BY <1>2, <1>3
    <2>2. ToldHome(Mail)' => OnPad' /\ wearer' = r
      <3>1. CASE Mail' = Mail
        BY <1>4, <3>1 DEF ToldHome
      <3>2. ASSUME NEW a, Mail' = Append(Mail, a), TellsHome(a) => OnPad' /\ wearer' = r
            PROVE  ToldHome(Mail)' => OnPad' /\ wearer' = r
        <4>1. Mail \in Seq(Range(Mail))
          BY <1>1, <1>4 DEF DroneType, Mail
        <4>2. ToldHome(Mail') => ToldHome(Mail) \/ TellsHome(a)
          BY <3>2, <4>1, OneMoreTold
        <4>3. ToldHome(Mail)' <=> ToldHome(Mail')
          BY DEF ToldHome
        <4>4. QED BY <1>4, <3>2, <4>2, <4>3
      <3>3. QED BY <3>1, <3>2
    <2>3. wearer' = r => (wearer \in Returners /\ Waits(wearer) /\ ~Owed(wearer))'
      BY <1>2, <1>3 DEF Waits, Owed, Doing, Queued, Returners
    <2>4. QED BY <2>1, <2>2, <2>3 DEF MailInv, Returners
  <1>8. HomeInv'
    <2>1. \A j \in Returners : ~(Live(j)' /\ Home(j)')
      BY <1>1, <1>2, <1>3 DEF SoleInv, Alike
    <2>2. QED BY <2>1 DEF HomeInv, Returners
  <1>9. AlarmInv'
    BY <1>1, <1>2 DEF AlarmStays, AlarmInv, Alike
  <1>10. QED BY <1>5, <1>6, <1>7, <1>8, <1>9 DEF HomewardInv

\* What holds of one of them by itself.
InOrder(j) ==
  /\ Owed(j) => Waits(j)
  /\ Waits(j) \/ pc[j] \in {"unborn", "held"} => ~Home(j)
  /\ pc[j] = "speaking" => saying[j].to = "farmer" \/ (saying[j].to = "drone" /\ ~Home(j))
  /\ pc[j] = "held" \/ (pc[j] = "speaking" /\ saying[j].to = "drone") => saying[j].order = Return

\* The one that is about, with the drone, takes a step of its own.
LEMMA OwnStep ==
  ASSUME IInv, NEW r \in Returners, Live(r), wearer = r,
         \A j \in Returners \ {r} : Alike(j), OnlyHome(queue)', OnlyHome(current)', InOrder(r)',
         Mail' # <<>> => Waits(r)' /\ ~Owed(r)',
         ToldHome(Mail)' => OnPad' /\ wearer' = r /\ Waits(r)' /\ ~Owed(r)',
         Live(r)' /\ Home(r)' => wearer' = r /\ OnPad',
         AlarmInv'
  PROVE  HomewardInv'
  <1>1. SoleInv /\ OrdersInv
    BY DEF IInv, HomewardInv
  <1>2. \A j \in Returners \ {r} : ~Live(j) /\ ~Owed(j)
    BY TheOnlyOne
  <1>3. \A j \in Returners \ {r} : ~Live(j)' /\ ~Owed(j)' /\ ~Waits(j)'
    BY <1>2 DEF Alike, Live, Waits
  <1>4. SoleInv'
    BY <1>3 DEF SoleInv, Returners
  <1>5. OrdersInv'
    <2>1. ASSUME NEW j \in Returners \ {r} PROVE InOrder(j)'
      <3>1. pc'[j] \in {"unborn", "done"} /\ pc'[j] = pc[j]
        BY <1>3 DEF Live, Alike
      <3>2. pc[j] = "unborn" => ~Home(j)'
        BY <1>1 DEF OrdersInv, Alike
      <3>3. QED BY <1>3, <3>1, <3>2 DEF InOrder
    <2>2. \A j \in Returners : InOrder(j)'
      BY <2>1
    <2>3. QED BY <2>2 DEF OrdersInv, InOrder, OnlyHome, Returners
  <1>6. MailInv'
    BY DEF MailInv, Returners, Waits, Owed, Doing, Queued
  <1>7. HomeInv'
    BY <1>3 DEF HomeInv, Returners
  <1>8. QED BY <1>4, <1>5, <1>6, <1>7 DEF HomewardInv

\* A step of its own that leaves the drone alone.
LEMMA OwnWord ==
  ASSUME IInv, NEW r \in Returners, Live(r), wearer = r, UNCHANGED drone, Live(r)',
         \A j \in Returners \ {r} : pc'[j] = pc[j] /\ saying'[j] = saying[j],
         \A j \in Returners : Home(j)' <=> Home(j),
         Waits(r) => Waits(r)',
         Waits(r)' \/ pc'[r] \in {"unborn", "held"} => ~Home(r),
         pc'[r] = "speaking" => saying'[r].to = "farmer" \/ (saying'[r].to = "drone" /\ ~Home(r)),
         pc'[r] = "held" \/ (pc'[r] = "speaking" /\ saying'[r].to = "drone") => saying'[r].order = Return
  PROVE  HomewardInv'
  <1>1. /\ UNCHANGED <<wearer, queue, current, unread, critical, alarmed>> /\ (OnPad' <=> OnPad)
        /\ \A j : Owed(j)' <=> Owed(j)
    BY DEF drone, flight, power, OnPad, airborne, Moving, Owed, Doing, Queued
  <1>2. OrdersInv /\ AlarmInv /\ HomeInv
    BY DEF IInv, HomewardInv
  <1>3. \A j \in Returners \ {r} : Alike(j)
    BY <1>1 DEF Alike
  <1>4. OnlyHome(queue)' /\ OnlyHome(current)'
    BY <1>1, <1>2, OrdersHome DEF OnlyHome
  <1>5. InOrder(r)'
    <2>1. Owed(r)' => Waits(r)'
      BY <1>1, <1>2 DEF OrdersInv
    <2>2. QED BY <2>1 DEF InOrder
  <1>6. Mail' = Mail /\ (ToldHome(Mail)' <=> ToldHome(Mail))
    BY <1>1 DEF Mail, ToldHome
  <1>7. /\ Mail' # <<>> => Waits(r)' /\ ~Owed(r)'
        /\ ToldHome(Mail)' => OnPad' /\ wearer' = r /\ Waits(r)' /\ ~Owed(r)'
    BY <1>1, <1>6, TheOnlyOne
  <1>8. Live(r)' /\ Home(r)' => wearer' = r /\ OnPad'
    BY <1>1, <1>2 DEF HomeInv
  <1>9. AlarmInv'
    <2>1. \A j \in Returners : Live(j) => Live(j)'
      BY <1>3 DEF Alike, Live
    <2>2. QED BY <1>1, <1>2, <2>1 DEF AlarmInv
  <1>10. QED BY <1>3, <1>4, <1>5, <1>7, <1>8, <1>9, OwnStep

\* What a transcript gains of other kinds leaves what it tells of the way home.
LEMMA Remembered ==
  ASSUME MindType, NEW j \in Jobs,
         \/ \E x : mind' = [mind EXCEPT ![j].given = x]
         \/ \E x : mind' = [mind EXCEPT ![j].vetoed = x]
  PROVE  /\ DOMAIN mind' = Jobs
         /\ \A k \in Jobs : "home" \in DOMAIN mind'[k] /\ mind'[k].home = mind[k].home
  <1>1. ASSUME NEW x, mind' = [mind EXCEPT ![j].given = x]
        PROVE  /\ DOMAIN mind' = Jobs
               /\ \A k \in Jobs : "home" \in DOMAIN mind'[k] /\ mind'[k].home = mind[k].home
    <2> DEFINE m == [mind[j] EXCEPT !.given = x]
    <2>1. "home" \in DOMAIN m /\ m.home = mind[j].home
      BY DEF MindType
    <2>2. mind' = [mind EXCEPT ![j] = m]
      BY <1>1
    <2> HIDE DEF m
    <2>3. QED BY <2>1, <2>2 DEF MindType
  <1>2. ASSUME NEW x, mind' = [mind EXCEPT ![j].vetoed = x]
        PROVE  /\ DOMAIN mind' = Jobs
               /\ \A k \in Jobs : "home" \in DOMAIN mind'[k] /\ mind'[k].home = mind[k].home
    <2> DEFINE m == [mind[j] EXCEPT !.vetoed = x]
    <2>1. "home" \in DOMAIN m /\ m.home = mind[j].home
      BY DEF MindType
    <2>2. mind' = [mind EXCEPT ![j] = m]
      BY <1>2
    <2> HIDE DEF m
    <2>3. QED BY <2>1, <2>2 DEF MindType
  <1>3. QED BY <1>1, <1>2

\* The same of a change to the records, which some forget where they were at.
LEMMA RecordsChange ==
  ASSUME MindType, NEW j \in Jobs, SayRecords(j)
  PROVE  /\ DOMAIN mind' = Jobs
         /\ \A k \in Jobs : "home" \in DOMAIN mind'[k] /\ mind'[k].home = mind[k].home
  <1>1. DOMAIN mind' = Jobs
    BY DEF SayRecords
  <1>2. ASSUME NEW k \in Jobs
        PROVE  "home" \in DOMAIN mind'[k] /\ mind'[k].home = mind[k].home
    <2> DEFINE g == mind[k].given \cup {saying[j]}
    <2>1. \/ mind'[k] = [mind[k] EXCEPT !.given = g]
          \/ mind'[k] = [mind[k] EXCEPT !.over = ""]
          \/ mind'[k] = mind[k]
      BY DEF SayRecords
    <2> HIDE DEF g
    <2>2. QED BY <2>1 DEF MindType
  <1>3. QED BY <1>1, <1>2

\* A job reads what there is for it.
LEMMA ReadsOn ==
  ASSUME IInv, NEW j \in Jobs, ReadAnswer(j)
  PROVE  /\ DOMAIN mind' = Jobs
         /\ \A k \in Jobs : "home" \in DOMAIN mind'[k] /\ mind'[k].home \in BOOLEAN
         /\ \A k \in Jobs \ {j} : mind'[k] = mind[k]
         /\ mind'[j].home = TRUE <=> (mind[j].home = TRUE \/ ToldHome(unread[DescriptorOf[j]]))
  <1> DEFINE m == HearAll(mind[j], unread[DescriptorOf[j]])
  <1>1. mind' = [mind EXCEPT ![j] = m]
    BY DEF ReadAnswer
  <1>2. MindType
    BY DEF IInv
  <1>3. /\ "home" \in DOMAIN m /\ m.home \in BOOLEAN
        /\ m.home = TRUE <=> (mind[j].home = TRUE \/ ToldHome(unread[DescriptorOf[j]]))
    BY <1>2, WhatIsHeard DEF MindType
  <1> HIDE DEF m
  <1>4. QED BY <1>1, <1>2, <1>3 DEF MindType

\* Every step keeps the shape of what they know.
LEMMA MindStep == ASSUME IInv, [Next]_vars PROVE MindType'
  <1>1. MindType
    BY DEF IInv
  <1>2. ASSUME UNCHANGED mind, DOMAIN pc' = Jobs, DOMAIN saying' = Jobs PROVE MindType'
    BY <1>1, <1>2 DEF MindType
  <1>3. ASSUME NEW j \in Jobs,
               \/ Grant(j) \/ Revoke(j) \/ Decide(j) \/ DecideExit(j) \/ SayOrder(j) \/ SayAlert(j)
               \/ SayFinding(j) \/ SayRecords(j) \/ Land(j) \/ Vetoed(j) \/ Block(j) \/ ReadAnswer(j)
        PROVE  MindType'
    <2>1. CASE Grant(j) \/ Revoke(j)
      BY <1>1, <1>2, <2>1 DEF Grant, Revoke, behaviours, MindType
    <2>2. CASE Decide(j) \/ DecideExit(j) \/ SayOrder(j) \/ Land(j) \/ Block(j)
      BY <1>1, <1>2, <2>2 DEF Decide, DecideExit, SayOrder, Land, Block, Becomes, MindType
    <2>3. CASE SayAlert(j) \/ SayFinding(j) \/ Vetoed(j) \/ SayRecords(j)
      <3>1. DOMAIN pc' = Jobs /\ DOMAIN saying' = Jobs
        BY <1>1, <2>3 DEF SayAlert, SayFinding, Vetoed, SayRecords, Becomes, MindType
      <3>2. DOMAIN mind' = Jobs /\ \A k \in Jobs : "home" \in DOMAIN mind'[k] /\ mind'[k].home = mind[k].home
        BY <1>1, <2>3, Remembered, RecordsChange DEF SayAlert, SayFinding, Vetoed, Given
      <3>3. QED BY <1>1, <3>1, <3>2 DEF MindType
    <2>4. CASE ReadAnswer(j)
      <3>1. DOMAIN pc' = Jobs /\ DOMAIN saying' = Jobs
        BY <1>1, <2>4 DEF ReadAnswer, Becomes, MindType
      <3>2. QED BY <2>4, <3>1, ReadsOn DEF MindType
    <2>5. QED BY <1>3, <2>1, <2>2, <2>3, <2>4
  <1>4. CASE Fly1
    BY <1>1, <1>2, <1>4 DEF Fly1, behaviours, MindType
  <1>5. ASSUME NEW b, NEW p, NEW c, Starts(b, p, c) PROVE DOMAIN pc' = Jobs
    BY <1>1, <1>5 DEF Starts, MindType
  <1>6. CASE Happens
    <2>1. UNCHANGED <<saying, mind>>
      BY <1>6 DEF Happens, Drives, Leaves, Calves, Strays, Trough, Parks, Fire, Battery, Drained, Find, Dawn,
                  Quietly, Due
    <2>2. DOMAIN pc' = Jobs
      <3>1. CASE Fire \/ Find \/ Dawn \/ Battery \/ Drained
        BY <1>1, <1>5, <3>1 DEF Fire, Battery, Drained, Find, Dawn, MindType
      <3>2. CASE Drives \/ Leaves \/ Calves \/ Strays \/ Trough \/ Parks
        BY <1>1, <3>2 DEF Drives, Leaves, Calves, Strays, Trough, Parks, Quietly, MindType
      <3>3. QED BY <1>6, <3>1, <3>2 DEF Happens
    <2>3. QED BY <1>1, <1>2, <2>1, <2>2 DEF MindType
  <1>7. CASE UNCHANGED vars
    BY <1>1, <1>2, <1>7 DEF vars, behaviours, MindType
  <1>8. QED BY <1>3, <1>4, <1>6, <1>7 DEF Next, System, Behave

\* The steps of a behaviour of the battery.
LEMMA OwnActs ==
  ASSUME IInv, NEW r \in Returners,
         \/ Decide(r) \/ SayOrder(r) \/ SayAlert(r) \/ SayFinding(r) \/ SayRecords(r) \/ Vetoed(r) \/ Block(r)
  PROVE  HomewardInv'
  <1>1. r \in Jobs /\ MindType /\ OrdersInv /\ HomeInv
    BY DEF Returners, Of, IInv, HomewardInv
  <1>2. ASSUME NEW from, NEW to, Becomes(r, from, to)
        PROVE  /\ wearer = r /\ pc[r] = from /\ pc'[r] = to
               /\ \A j \in Returners \ {r} : pc'[j] = pc[j]
    <2>1. Returners \subseteq Jobs
      BY DEF Returners, Of
    <2>2. QED BY <1>1, <1>2, <2>1 DEF Becomes, Runs, MindType
  <1>3. CASE Decide(r)
    <2>1. /\ wearer = r /\ pc[r] = "deciding" /\ pc'[r] = "speaking"
          /\ \A j \in Returners \ {r} : pc'[j] = pc[j]
      BY <1>2, <1>3 DEF Decide
    <2>2. /\ UNCHANGED <<drone, mind>> /\ saying' = [saying EXCEPT ![r] = NextCommand(r)] /\ NextCommand(r) # Exit
      BY <1>3 DEF Decide
    <2>3. saying'[r] = NextCommand(r) /\ \A j \in Returners \ {r} : saying'[j] = saying[j]
      BY <1>1, <2>2 DEF MindType, Returners, Of
    <2>4. /\ Home(r) => saying'[r].to = "farmer"
          /\ ~Home(r) => saying'[r].to = "drone" /\ saying'[r].order = Return
      <3>1. mind[r].home \in BOOLEAN
        BY <1>1 DEF MindType
      <3>2. CASE mind[r].home = TRUE
        BY <2>2, <2>3, <3>2, WhatItSays DEF Home
      <3>3. CASE mind[r].home = FALSE
        BY <2>2, <2>3, <3>3, WhatItSays DEF Home
      <3>4. QED BY <3>1, <3>2, <3>3
    <2>5. \A j \in Returners : Home(j)' <=> Home(j)
      BY <2>2 DEF Home
    <2>6. Live(r) /\ Live(r)' /\ ~Waits(r) /\ ~Waits(r)'
      BY <2>1 DEF Live, Waits
    <2>7. QED BY <2>1, <2>2, <2>3, <2>4, <2>5, <2>6, OwnWord
  <1>4. CASE SayOrder(r)
    <2>1. /\ wearer = r /\ pc[r] = "speaking" /\ pc'[r] = "held"
          /\ \A j \in Returners \ {r} : pc'[j] = pc[j]
      BY <1>2, <1>4 DEF SayOrder
    <2>2. UNCHANGED <<drone, mind, saying>> /\ saying[r].to = "drone"
      BY <1>4 DEF SayOrder
    <2>3. ~Home(r) /\ saying[r].order = Return
      <3>1. "drone" # "farmer"
        OBVIOUS
      <3>2. QED BY <1>1, <2>1, <2>2, <3>1 DEF OrdersInv
    <2>4. \A j \in Returners : Home(j)' <=> Home(j)
      BY <2>2 DEF Home
    <2>5. Live(r) /\ Live(r)' /\ ~Waits(r) /\ ~Waits(r)'
      BY <2>1 DEF Live, Waits
    <2>6. QED BY <2>1, <2>2, <2>3, <2>4, <2>5, OwnWord
  <1>5. CASE SayAlert(r)
    <2>1. /\ wearer = r /\ pc[r] = "speaking" /\ pc'[r] = "deciding"
          /\ \A j \in Returners \ {r} : pc'[j] = pc[j]
      BY <1>2, <1>5 DEF SayAlert
    <2>2. UNCHANGED <<drone, saying>> /\ Given(r)
      BY <1>5 DEF SayAlert
    <2>3. \A j \in Returners : Home(j)' <=> Home(j)
      BY <1>1, <2>2, Remembered DEF Given, Home, Returners, Of
    <2>4. Live(r) /\ Live(r)' /\ ~Waits(r) /\ ~Waits(r)'
      BY <2>1 DEF Live, Waits
    <2>5. QED BY <2>1, <2>2, <2>3, <2>4, OwnWord
  <1>6. CASE Block(r)
    <2>1. /\ wearer = r /\ pc[r] = "listening" /\ pc'[r] = "blocked"
          /\ \A j \in Returners \ {r} : pc'[j] = pc[j]
      BY <1>2, <1>6 DEF Block
    <2>2. UNCHANGED <<drone, saying, mind>>
      BY <1>6 DEF Block
    <2>3. \A j \in Returners : Home(j)' <=> Home(j)
      BY <2>2 DEF Home
    <2>4. Live(r) /\ Live(r)' /\ Waits(r) /\ Waits(r)' /\ ~Home(r)
      BY <1>1, <2>1 DEF Live, Waits, OrdersInv
    <2>5. QED BY <2>1, <2>2, <2>3, <2>4, OwnWord
  <1>7. CASE SayFinding(r) \/ SayRecords(r)
    <2>1. pc[r] = "speaking" /\ saying[r].to \in {"vehicles", "livestock", "tools"}
      BY <1>7 DEF SayFinding, SayRecords, Becomes, Runs
    <2>2. QED BY <1>1, <2>1 DEF OrdersInv
  <1>8. CASE Vetoed(r)
    <2>1. pc[r] = "held" /\ ~Allowed(saying[r].order)
      BY <1>8 DEF Vetoed, Becomes, Runs
    <2>2. QED BY <1>1, <2>1, TheWayHome DEF OrdersInv
  <1>9. QED BY <1>3, <1>4, <1>5, <1>6, <1>7, <1>8

\* A behaviour of the battery comes to its end: it is home.
LEMMA OwnExit == ASSUME IInv, NEW r \in Returners, DecideExit(r) PROVE HomewardInv'
  <1>1. r \in Jobs /\ MindType /\ OrdersInv /\ HomeInv /\ AlarmInv /\ DroneType /\ PlaceInv
    BY DEF Returners, Of, IInv, HomewardInv, DroneInv
  <1>2. /\ wearer = r /\ pc[r] = "deciding" /\ pc'[r] = "done" /\ NextCommand(r) = Exit
        /\ \A j \in Returners \ {r} : pc'[j] = pc[j]
        /\ UNCHANGED <<saying, mind>> /\ Disembodied(r)
    BY <1>1 DEF DecideExit, Becomes, Runs, MindType, Returners, Of
  <1>3. Home(r)
    BY <1>1, <1>2, WhatItSays DEF MindType, Home
  <1>4. Live(r) /\ ~Waits(r) /\ ~Owed(r) /\ OnPad
    BY <1>1, <1>2, <1>3 DEF Live, Waits, OrdersInv, HomeInv
  <1>5. UNCHANGED <<queue, altitude, power, current, position, unread>>
    BY <1>1, <1>2, <1>4, TakenAway DEF Owed
  <1>6. (OnPad' <=> OnPad) /\ \A j : Owed(j)' <=> Owed(j)
    BY <1>5 DEF OnPad, airborne, Moving, Owed, Doing, Queued
  <1>7. \A j \in Returners \ {r} : Alike(j)
    BY <1>2, <1>6 DEF Alike, Home
  <1>8. OnlyHome(queue)' /\ OnlyHome(current)'
    BY <1>1, <1>5, OrdersHome DEF OnlyHome
  <1>9. InOrder(r)' /\ ~Live(r)'
    BY <1>2, <1>4, <1>6 DEF InOrder, Waits, Live
  <1>10. Mail' = <<>> /\ ~ToldHome(Mail)'
    BY <1>4, <1>5, TheOnlyOne DEF Mail, ToldHome
  <1>11. AlarmInv'
    BY <1>1, <1>4, <1>5, <1>6 DEF AlarmInv, power
  <1>12. QED BY <1>2, <1>4, <1>7, <1>8, <1>9, <1>10, <1>11, OwnStep

\* Its order home lands.
LEMMA OwnOrder == ASSUME IInv, NEW r \in Returners, Land(r) PROVE HomewardInv'
  <1>1. r \in Jobs /\ MindType /\ OrdersInv /\ AlarmInv /\ DroneType
    BY DEF Returners, Of, IInv, HomewardInv, DroneInv
  <1>2. /\ wearer = r /\ pc[r] = "held" /\ pc'[r] = "listening"
        /\ \A j \in Returners \ {r} : pc'[j] = pc[j]
        /\ UNCHANGED <<saying, mind>> /\ Written(r, saying[r].order)
    BY <1>1 DEF Land, Becomes, Runs, MindType, Returners, Of
  <1>3. Live(r) /\ ~Waits(r) /\ ~Owed(r) /\ ~Home(r) /\ saying[r].order = Return
    BY <1>1, <1>2 DEF Live, Waits, OrdersInv
  <1> DEFINE e == [job |-> r, command |-> Return]
  <1>4. /\ queue' = Append(queue, e) /\ UNCHANGED <<wearer, current, power, unread>>
        /\ e.job = r /\ e.command = Return
    BY <1>2, <1>3 DEF Written, Owed
  <1> HIDE DEF e
  <1> DEFINE n == Len(queue)
  <1>5. /\ DOMAIN queue = 1 .. n /\ n \in Nat /\ DOMAIN queue' = 1 .. n + 1
        /\ \A k \in DOMAIN queue : queue'[k] = queue[k]
        /\ queue'[n + 1] = e
    BY <1>1, <1>4, Added DEF DroneType
  <1> HIDE DEF n
  <1>6. \A k \in DOMAIN queue' : k \in DOMAIN queue \/ k = n + 1
    BY <1>5
  <1>7. \A j \in Returners \ {r} : Owed(j)' => Owed(j)
    BY <1>4, <1>5, <1>6 DEF Owed, Doing, Queued
  <1>8. \A j \in Returners \ {r} : Alike(j)
    BY <1>2, <1>7 DEF Alike, Home
  <1>9. OnlyHome(queue)' /\ OnlyHome(current)'
    BY <1>1, <1>4, <1>5, <1>6, OrdersHome DEF OnlyHome
  <1>10. InOrder(r)' /\ Live(r)' /\ ~Home(r)'
    BY <1>2, <1>3 DEF InOrder, Waits, Live, Home
  <1>11. Mail' = <<>> /\ ~ToldHome(Mail)'
    BY <1>3, <1>4, TheOnlyOne DEF Mail, ToldHome
  <1>12. AlarmInv'
    BY <1>1, <1>4, <1>10 DEF AlarmInv, power, Returners
  <1>13. QED BY <1>2, <1>3, <1>8, <1>9, <1>10, <1>11, <1>12, OwnStep

\* It reads the answer it waits for.
LEMMA OwnAnswer == ASSUME IInv, NEW r \in Returners, ReadAnswer(r) PROVE HomewardInv'
  <1>1. r \in Jobs /\ MindType /\ OrdersInv /\ AlarmInv /\ DroneInv
    BY DEF Returners, Of, IInv, HomewardInv
  <1>2. /\ wearer = r /\ Waits(r) /\ pc'[r] = "deciding"
        /\ \A j \in Returners \ {r} : pc'[j] = pc[j]
        /\ UNCHANGED saying /\ ReadAll(DescriptorOf[r])
    BY <1>1 DEF ReadAnswer, Becomes, Runs, MindType, Returners, Of, Waits
  <1>3. Live(r) /\ Live(r)' /\ ~Waits(r)' /\ ~Home(r)
    BY <1>1, <1>2 DEF Live, Waits, OrdersInv
  <1>4. DescriptorOf[r] = "battery-return" /\ "battery-return" \in Behaviours
    BY <1>3, TheOnlyOne
  <1>5. UNCHANGED <<flight, power>> /\ Mail # <<>> /\ Mail' = <<>>
    BY <1>1, <1>2, <1>4, DroneRead DEF ReadAll, Mail
  <1>6. ~Owed(r) /\ (ToldHome(Mail) => OnPad)
    BY <1>3, <1>5, TheOnlyOne
  <1>7. UNCHANGED <<wearer, queue, current>> /\ (OnPad' <=> OnPad) /\ \A j : Owed(j)' <=> Owed(j)
    BY <1>5 DEF flight, OnPad, airborne, Moving, Owed, Doing, Queued
  <1>8. /\ \A j \in Returners \ {r} : mind'[j] = mind[j]
        /\ Home(r)' => ToldHome(Mail)
    <2>1. Returners \subseteq Jobs
      BY DEF Returners, Of
    <2>2. QED BY <1>1, <1>3, <1>4, <2>1, ReadsOn DEF Home, Mail
  <1>9. \A j \in Returners \ {r} : Alike(j)
    BY <1>2, <1>7, <1>8 DEF Alike, Home
  <1>10. OnlyHome(queue)' /\ OnlyHome(current)'
    BY <1>1, <1>7, OrdersHome DEF OnlyHome
  <1>11. InOrder(r)'
    BY <1>2, <1>6, <1>7 DEF InOrder, Waits
  <1>12. ~ToldHome(Mail)'
    <2>1. DOMAIN <<>> = {}
      BY Nothing
    <2>2. QED BY <1>5, <2>1 DEF ToldHome
  <1>13. Live(r)' /\ Home(r)' => wearer' = r /\ OnPad'
    BY <1>2, <1>6, <1>7, <1>8
  <1>14. AlarmInv'
    BY <1>1, <1>3, <1>5, <1>6, <1>7, <1>8 DEF AlarmInv, power, Returners
  <1>15. QED BY <1>2, <1>3, <1>5, <1>9, <1>10, <1>11, <1>12, <1>13, <1>14, OwnStep

\* A step that is not theirs and leaves the drone alone.
LEMMA Elsewhere ==
  ASSUME IInv, UNCHANGED <<flight, unread>>,
         \A j \in Returners : pc'[j] = pc[j] /\ saying'[j] = saying[j] /\ (Home(j)' <=> Home(j)),
         critical' \in BOOLEAN, alarmed' = critical', critical' => critical
  PROVE  HomewardInv'
  <1>1. UNCHANGED <<wearer, queue, current>> /\ (OnPad' <=> OnPad) /\ \A j : Owed(j)' <=> Owed(j)
    BY DEF flight, OnPad, airborne, Moving, Owed, Doing, Queued
  <1>2. \A j \in Returners : Alike(j)
    BY <1>1 DEF Alike
  <1>3. OnlyHome(queue)' /\ OnlyHome(current)'
    BY <1>1, OrdersHome DEF IInv, HomewardInv, OnlyHome
  <1>4. Mail' = Mail
    BY DEF Mail
  <1>5. AlarmStays
    BY <1>1 DEF AlarmStays
  <1>6. QED BY <1>1, <1>2, <1>3, <1>4, <1>5, Quiet DEF HomewardInv

\* What another behaviour says or thinks.
LEMMA OthersActs ==
  ASSUME IInv, NEW k \in Jobs, k \notin Returners,
         \/ Decide(k) \/ SayOrder(k) \/ SayAlert(k) \/ SayFinding(k) \/ SayRecords(k) \/ Vetoed(k) \/ Block(k)
  PROVE  HomewardInv'
  <1>1. MindType /\ AlarmInv /\ Returners \subseteq Jobs
    BY DEF Returners, Of, IInv, HomewardInv
  <1>2. UNCHANGED <<flight, unread, power>>
    BY DEF Decide, SayOrder, SayAlert, SayFinding, SayRecords, Vetoed, Block, drone
  <1>3. \A j \in Returners : pc'[j] = pc[j]
    <2>1. CASE SayFinding(k)
      <3>1. PICK b \in {"vehicle-check", "livestock-check"} :
              /\ Unborn(b) # {}
              /\ pc' = [pc EXCEPT ![k] = "deciding", ![Next1(b)] = "deciding"]
        BY <2>1 DEF SayFinding
      <3>2. Next1(b) \notin Returners
        BY <3>1, NextOne DEF Of, Returners
      <3>3. QED BY <1>1, <3>1, <3>2 DEF MindType
    <2>2. CASE Decide(k) \/ SayOrder(k) \/ SayAlert(k) \/ SayRecords(k) \/ Vetoed(k) \/ Block(k)
      <3>1. \E to : pc' = [pc EXCEPT ![k] = to]
        BY <2>2 DEF Decide, SayOrder, SayAlert, SayRecords, Vetoed, Block, Becomes
      <3>2. QED BY <1>1, <3>1 DEF MindType
    <2>3. QED BY <2>1, <2>2
  <1>4. \A j \in Returners : saying'[j] = saying[j]
    <2>1. CASE Decide(k)
      BY <1>1, <2>1 DEF Decide, MindType
    <2>2. CASE SayOrder(k) \/ SayAlert(k) \/ SayFinding(k) \/ SayRecords(k) \/ Vetoed(k) \/ Block(k)
      BY <2>2 DEF SayOrder, SayAlert, SayFinding, SayRecords, Vetoed, Block
    <2>3. QED BY <2>1, <2>2
  <1>5. \A j \in Returners : mind'[j].home = mind[j].home
    <2>1. CASE SayRecords(k)
      BY <1>1, <2>1, RecordsChange
    <2>2. CASE SayAlert(k) \/ SayFinding(k) \/ Vetoed(k)
      BY <1>1, <2>2, Remembered DEF SayAlert, SayFinding, Vetoed, Given
    <2>3. CASE Decide(k) \/ SayOrder(k) \/ Block(k)
      BY <2>3 DEF Decide, SayOrder, Block
    <2>4. QED BY <2>1, <2>2, <2>3
  <1>6. \A j \in Returners : Home(j)' <=> Home(j)
    BY <1>5 DEF Home
  <1>7. critical' \in BOOLEAN /\ alarmed' = critical' /\ critical' = critical
    BY <1>1, <1>2 DEF power, AlarmInv
  <1>8. QED BY <1>2, <1>3, <1>4, <1>6, <1>7, Elsewhere

\* The drone is lost by another behaviour, which may be at its end.
LEMMA OthersLose ==
  ASSUME IInv, NEW k \in Jobs, k \notin Returners, Disembodied(k),
         \A j \in Returners : pc'[j] = pc[j], UNCHANGED <<saying, mind>>
  PROVE  HomewardInv'
  <1>1. DroneType /\ PlaceInv /\ OrdersInv /\ AlarmInv
    BY DEF IInv, DroneInv, HomewardInv
  <1>2. /\ wearer = k /\ UNCHANGED <<queue, altitude, power>> /\ (~Moving => position' = position)
        /\ \/ current' = <<>> /\ \E a : Arrives(k, a)
           \/ UNCHANGED <<current, position, unread>>
    BY <1>1, TakenAway
  <1>3. OnPad => OnPad'
    <2>1. CASE current' = <<>>
      <3>1. DOMAIN <<>> = {}
        BY Nothing
      <3>2. ~Moving'
        BY <2>1, <3>1 DEF Moving
      <3>3. QED BY <1>2, <3>2 DEF OnPad, airborne
    <2>2. CASE UNCHANGED <<current, position>>
      BY <1>2, <2>2 DEF OnPad, airborne, Moving
    <2>3. QED BY <1>2, <2>1, <2>2
  <1>4. (\A j : Owed(j)' => Owed(j)) /\ OnlyHome(queue)' /\ OnlyHome(current)'
    <2>1. CASE current' = <<>>
      <3>1. DOMAIN <<>> = {}
        BY Nothing
      <3>2. QED BY <1>1, <1>2, <2>1, <3>1, OrdersHome DEF Owed, Doing, Queued, OnlyHome
    <2>2. CASE UNCHANGED current
      BY <1>1, <1>2, <2>2, OrdersHome DEF Owed, Doing, Queued, OnlyHome
    <2>3. QED BY <1>2, <2>1, <2>2
  <1>5. \A j \in Returners : Alike(j)
    BY <1>4 DEF Alike, Home
  <1>6. "battery-return" \in Behaviours => Mail' = Mail
    <2>1. DescriptorOf[k] # "battery-return"
      BY DEF Returners, Of
    <2>2. QED BY <1>1, <1>2, <2>1, Arrived DEF Mail
  <1>7. AlarmStays
    BY <1>1, <1>2, <1>3 DEF AlarmStays, power, AlarmInv
  <1>8. QED BY <1>2, <1>4, <1>5, <1>6, <1>7, Quiet DEF HomewardInv

\* Another behaviour's order lands.
LEMMA OthersOrder == ASSUME IInv, NEW k \in Jobs, k \notin Returners, Land(k) PROVE HomewardInv'
  <1>1. DroneType /\ OrdersInv /\ AlarmInv /\ MindType /\ Returners \subseteq Jobs
    BY DEF IInv, DroneInv, HomewardInv, Returners, Of
  <1>2. /\ wearer = k /\ UNCHANGED <<saying, mind, wearer, current, position, altitude, power>>
        /\ \A j \in Returners : pc'[j] = pc[j]
    BY <1>1 DEF Land, Becomes, Runs, Written, MindType
  <1> DEFINE c == saying[k].order
  <1> DEFINE e == [job |-> k, command |-> c]
  <1>3. \/ UNCHANGED queue /\ \E a : Arrives(k, a)
        \/ queue' = Append(queue, e) /\ UNCHANGED unread /\ e.job = k
    BY DEF Land, Written
  <1> HIDE DEF c, e
  <1>4. (OnPad' <=> OnPad) /\ \A j : Doing(j)' <=> Doing(j)
    BY <1>2 DEF OnPad, airborne, Moving, Doing
  <1>5. /\ \A j \in Returners : Queued(j)' => Queued(j)
        /\ OnlyHome(queue)'
    <2>1. CASE UNCHANGED queue
      BY <1>1, <2>1, OrdersHome DEF Queued, OnlyHome
    <2>2. CASE queue' = Append(queue, e) /\ e.job = k
      <3> DEFINE n == Len(queue)
      <3>1. /\ DOMAIN queue = 1 .. n /\ n \in Nat /\ DOMAIN queue' = 1 .. n + 1
            /\ \A i \in DOMAIN queue : queue'[i] = queue[i]
            /\ queue'[n + 1] = e
        BY <1>1, <2>2, Added DEF DroneType
      <3> HIDE DEF n
      <3>2. \A i \in DOMAIN queue' : i \in DOMAIN queue \/ i = n + 1
        BY <3>1
      <3>3. QED BY <1>1, <2>2, <3>1, <3>2, OrdersHome DEF Queued, OnlyHome
    <2>3. QED BY <1>3, <2>1, <2>2
  <1>6. OnlyHome(current)'
    BY <1>1, <1>2, OrdersHome DEF OnlyHome
  <1>7. \A j \in Returners : Alike(j)
    BY <1>2, <1>4, <1>5 DEF Alike, Home, Owed
  <1>8. "battery-return" \in Behaviours => Mail' = Mail
    <2>1. DescriptorOf[k] # "battery-return"
      BY DEF Returners, Of
    <2>2. QED BY <1>1, <1>3, <2>1, Arrived DEF Mail
  <1>9. AlarmStays
    BY <1>1, <1>2, <1>4 DEF AlarmStays, power, AlarmInv
  <1>10. QED BY <1>2, <1>5, <1>6, <1>7, <1>8, <1>9, Quiet DEF HomewardInv

\* Another behaviour reads its answers.
LEMMA OthersAnswer == ASSUME IInv, NEW k \in Jobs, k \notin Returners, ReadAnswer(k) PROVE HomewardInv'
  <1>1. DroneInv /\ OrdersInv /\ AlarmInv /\ MindType /\ Returners \subseteq Jobs
    BY DEF IInv, HomewardInv, Returners, Of
  <1>2. /\ wearer = k /\ UNCHANGED <<saying, flight, power>> /\ ReadAll(DescriptorOf[k])
        /\ \A j \in Returners : pc'[j] = pc[j]
    BY <1>1 DEF ReadAnswer, Becomes, Runs, ReadAll, MindType
  <1>3. \A j \in Returners : mind'[j] = mind[j]
    BY <1>1, ReadsOn
  <1>4. "battery-return" \in Behaviours => Mail' = Mail
    <2>1. DescriptorOf[k] # "battery-return" /\ DescriptorOf[k] \in Behaviours
      BY DEF Returners, Of, Behaviours
    <2>2. QED BY <1>1, <1>2, <2>1, DroneRead DEF Mail
  <1>5. UNCHANGED <<queue, current>> /\ (OnPad' <=> OnPad) /\ \A j : Owed(j)' <=> Owed(j)
    BY <1>2 DEF flight, OnPad, airborne, Moving, Owed, Doing, Queued
  <1>6. OnlyHome(queue)' /\ OnlyHome(current)'
    BY <1>1, <1>5, OrdersHome DEF OnlyHome
  <1>7. \A j \in Returners : Alike(j)
    BY <1>2, <1>3, <1>5 DEF Alike, Home
  <1>8. AlarmStays
    BY <1>1, <1>2, <1>5 DEF AlarmStays, power, AlarmInv
  <1>9. QED BY <1>2, <1>4, <1>6, <1>7, <1>8, Quiet DEF HomewardInv

\* A behaviour is given the drone nobody had.
LEMMA SomeoneFlies == ASSUME IInv, NEW k \in Jobs, Grant(k) PROVE HomewardInv'
  <1>1. OrdersInv /\ AlarmInv /\ wearer \notin Returners
    BY OnTheFarm DEF IInv, HomewardInv, Grant, Embodied, Returners, Of
  <1>2. UNCHANGED <<queue, current, position, altitude, power, unread, pc, saying, mind>>
    BY DEF Grant, Embodied, behaviours
  <1>3. (OnPad' <=> OnPad) /\ \A j : Owed(j)' <=> Owed(j)
    BY <1>2 DEF OnPad, airborne, Moving, Owed, Doing, Queued
  <1>4. OnlyHome(queue)' /\ OnlyHome(current)'
    BY <1>1, <1>2, OrdersHome DEF OnlyHome
  <1>5. (\A j \in Returners : Alike(j)) /\ Mail' = Mail
    BY <1>2, <1>3 DEF Alike, Home, Mail
  <1>6. AlarmStays
    BY <1>1, <1>2, <1>3 DEF AlarmStays, power, AlarmInv
  <1>7. QED BY <1>1, <1>4, <1>5, <1>6, Quiet DEF HomewardInv

\* Whatever a behaviour does.
LEMMA BehaviourStep == ASSUME IInv, Behave PROVE HomewardInv'
  <1>1. PICK k \in Jobs :
          \/ Grant(k) \/ Revoke(k) \/ Decide(k) \/ DecideExit(k) \/ SayOrder(k) \/ SayAlert(k)
          \/ SayFinding(k) \/ SayRecords(k) \/ Land(k) \/ Vetoed(k) \/ Block(k) \/ ReadAnswer(k)
    BY DEF Behave
  <1>2. CASE Grant(k)
    BY <1>2, SomeoneFlies
  <1>3. CASE Revoke(k)
    <2>1. k \notin Returners
      BY <1>3, NoneMoreUrgent DEF Revoke
    <2>2. UNCHANGED <<pc, saying, mind>> /\ Disembodied(k)
      BY <1>3 DEF Revoke, behaviours
    <2>3. QED BY <2>1, <2>2, OthersLose
  <1>4. CASE DecideExit(k)
    <2>1. CASE k \in Returners
      BY <1>4, <2>1, OwnExit
    <2>2. CASE k \notin Returners
      <3>1. \A j \in Returners : pc'[j] = pc[j]
        BY <1>4, <2>2 DEF DecideExit, Becomes, IInv, MindType, Returners, Of
      <3>2. UNCHANGED <<saying, mind>> /\ Disembodied(k)
        BY <1>4 DEF DecideExit
      <3>3. QED BY <2>2, <3>1, <3>2, OthersLose
    <2>3. QED BY <2>1, <2>2
  <1>5. CASE Land(k)
    BY <1>5, OwnOrder, OthersOrder
  <1>6. CASE ReadAnswer(k)
    BY <1>6, OwnAnswer, OthersAnswer
  <1>7. CASE Decide(k) \/ SayOrder(k) \/ SayAlert(k) \/ SayFinding(k) \/ SayRecords(k) \/ Vetoed(k) \/ Block(k)
    <2>1. CASE k \in Returners
      BY <1>7, <2>1, OwnActs
    <2>2. CASE k \notin Returners
      BY <1>7, <2>2, OthersActs
    <2>3. QED BY <2>1, <2>2
  <1>8. QED BY <1>1, <1>2, <1>3, <1>4, <1>5, <1>6, <1>7

\* What the drone was doing for a behaviour is done.
LEMMA FlightEnds == ASSUME IInv, Complete, UNCHANGED behaviours PROVE HomewardInv'
  <1>1. DroneType /\ PlaceInv /\ OneEach /\ OrdersInv /\ AlarmInv
    BY DEF IInv, HomewardInv, DroneInv
  <1> DEFINE b == current[1]
  <1>2. PICK r : r = b.job
    OBVIOUS
  <1>3. /\ current # <<>> /\ current' = <<>> /\ UNCHANGED <<wearer, queue, power>> /\ r \in Jobs
        /\ ~Moving => UNCHANGED <<position, altitude>>
        /\ b.command = Return => position' = "shed" /\ altitude' = 0
        /\ \E a : Arrives(r, a) /\ a.command = b.command
    BY <1>2, <1>1, Completed
  <1>4. DOMAIN current' = {} /\ ~Moving' /\ OnlyHome(current)' /\ \A j : ~Doing(j)'
    <2>1. DOMAIN <<>> = {}
      OBVIOUS
    <2>2. QED BY <1>3, <2>1 DEF Moving, OnlyHome, Doing
  <1>5. /\ 1 \in DOMAIN current /\ (\A j : Doing(j) <=> r = j)
        /\ b.command = Return => r = wearer
    BY <1>2, <1>1, <1>3, Hand, TheWayHome DEF PlaceInv
  <1>6. /\ OnPad => OnPad'
        /\ b.command = Return => OnPad' /\ r = wearer /\ wearer' = r
    BY <1>3, <1>4, <1>5 DEF OnPad, airborne
  <1>7. (\A j : Queued(j)' <=> Queued(j)) /\ OnlyHome(queue)'
    BY <1>1, <1>3, OrdersHome DEF Queued, OnlyHome
  <1>8. UNCHANGED <<pc, saying, mind>>
    BY DEF behaviours
  <1>9. \A j \in Returners : Alike(j)
    BY <1>4, <1>7, <1>8 DEF Alike, Home, Owed
  <1>10. AlarmStays
    BY <1>1, <1>3, <1>6 DEF AlarmStays, power, AlarmInv
  <1>11. PICK a : Arrives(r, a) /\ a.command = b.command
    BY <1>3
  <1> HIDE DEF b
  <1>12. CASE r \in Returners
    <2>1. DescriptorOf[r] = "battery-return"
      BY <1>12 DEF Returners, Of
    <2>2. Owed(r) /\ ~Owed(r)'
      BY <1>1, <1>3, <1>4, <1>5, <1>7 DEF Owed, OneEach
    <2>3. "battery-return" \in Behaviours
      BY <1>3, <2>1 DEF Behaviours
    <2>4. Mail' = Mail \/ Mail' = Append(Mail, a)
      BY <1>1, <1>3, <1>11, <2>3, Arrived DEF Mail
    <2>5. TellsHome(a) => OnPad' /\ wearer' = r
      BY <1>6, <1>11 DEF TellsHome
    <2>6. QED BY <1>4, <1>7, <1>9, <1>10, <1>12, <2>2, <2>4, <2>5, Answered
  <1>13. CASE r \notin Returners
    <2>1. DescriptorOf[r] # "battery-return"
      BY <1>3, <1>13 DEF Returners, Of
    <2>2. "battery-return" \in Behaviours => Mail' = Mail
      BY <1>1, <1>3, <1>11, <2>1, Arrived DEF Mail
    <2>3. QED BY <1>3, <1>4, <1>6, <1>7, <1>9, <1>10, <2>2, Quiet DEF HomewardInv
  <1>14. QED BY <1>12, <1>13

\* The next command is begun, or handed back to who ordered it.
LEMMA FlightBegins == ASSUME IInv, StartCommand, UNCHANGED behaviours PROVE HomewardInv'
  <1>1. DroneType /\ PlaceInv /\ OneEach /\ OrdersInv /\ AlarmInv
    BY DEF IInv, HomewardInv, DroneInv
  <1>2. PICK q : q = queue[1].job
    OBVIOUS
  <1> DEFINE b == [job |-> wearer, command |-> queue[1].command, origin |-> position,
                   target |-> Target(queue[1].command), outcome |-> Outcome(queue[1].command)]
  <1>3. /\ current = <<>> /\ queue # <<>> /\ ~(OnPad /\ critical) /\ queue' = Tail(queue) /\ q \in Jobs
        /\ UNCHANGED <<wearer, position, altitude, power>>
        /\ \/ UNCHANGED current /\ \E a : Arrives(q, a) /\ ~TellsHome(a)
           \/ q = wearer /\ UNCHANGED unread /\ current' = <<b>>
    BY <1>2, <1>1, Started
  <1>4. b.job = wearer /\ b.command = queue[1].command
    OBVIOUS
  <1>5. /\ 1 \in DOMAIN queue
        /\ \A k \in DOMAIN queue' : queue'[k] = queue[k + 1] /\ k + 1 \in DOMAIN queue /\ k + 1 # 1
    <2>1. /\ 1 \in DOMAIN queue /\ Len(queue) \in Nat /\ DOMAIN queue' = 1 .. Len(queue) - 1
          /\ \A k \in DOMAIN queue' : queue'[k] = queue[k + 1] /\ k + 1 \in DOMAIN queue
      BY <1>1, <1>3, Dropped DEF DroneType
    <2>2. QED BY <2>1
  <1>6. /\ Queued(q) /\ ~Queued(q)' /\ OnlyHome(queue)'
        /\ \A j : Queued(j)' => Queued(j)
    <2>1. Queued(q) /\ \A j : Queued(j)' => Queued(j)
      BY <1>2, <1>5 DEF Queued
    <2>2. ~Queued(q)'
      BY <1>2, <1>1, <1>5 DEF Queued, OneEach
    <2>3. OnlyHome(queue)'
      BY <1>1, <1>5, OrdersHome DEF OnlyHome
    <2>4. QED BY <2>1, <2>2, <2>3
  <1>7. queue[1].job \in Returners => queue[1].command = Return
    BY <1>1, <1>5, OrdersHome DEF OnlyHome
  <1>8. UNCHANGED <<pc, saying, mind>>
    BY DEF behaviours
  <1>9. critical' = critical /\ critical' \in BOOLEAN /\ alarmed' = critical'
    BY <1>1, <1>3 DEF power, AlarmInv
  <1> HIDE DEF b
  <1>10. CASE UNCHANGED current /\ \E a : Arrives(q, a) /\ ~TellsHome(a)
    <2>1. PICK a : Arrives(q, a) /\ ~TellsHome(a)
      BY <1>10
    <2>2. (OnPad' <=> OnPad) /\ (\A j : Doing(j)' <=> Doing(j)) /\ OnlyHome(current)' /\ ~Doing(q)
      <3>1. (OnPad' <=> OnPad) /\ (\A j : Doing(j)' <=> Doing(j))
        BY <1>3, <1>10 DEF OnPad, airborne, Moving, Doing
      <3>2. QED BY <1>1, <1>3, <1>10, <3>1, OrdersHome, Hand DEF OnlyHome
    <2>3. \A j \in Returners : Alike(j)
      BY <1>6, <1>8, <2>2 DEF Alike, Home, Owed
    <2>4. AlarmStays
      BY <1>9, <2>2 DEF AlarmStays
    <2>5. CASE q \in Returners
      <3>1. DescriptorOf[q] = "battery-return"
        BY <2>5 DEF Returners, Of
      <3>2. Owed(q) /\ ~Owed(q)'
        BY <1>6, <2>2 DEF Owed
      <3>3. "battery-return" \in Behaviours
        BY <1>3, <3>1 DEF Behaviours
      <3>4. Mail' = Mail \/ Mail' = Append(Mail, a)
        BY <1>1, <1>3, <2>1, <3>3, Arrived DEF Mail
      <3>5. QED BY <1>6, <2>1, <2>2, <2>3, <2>4, <2>5, <3>2, <3>4, Answered
    <2>6. CASE q \notin Returners
      <3>1. DescriptorOf[q] # "battery-return"
        BY <1>3, <2>6 DEF Returners, Of
      <3>2. "battery-return" \in Behaviours => Mail' = Mail
        BY <1>1, <1>3, <2>1, <3>1, Arrived DEF Mail
      <3>3. QED BY <1>3, <1>6, <2>2, <2>3, <2>4, <3>2, Quiet DEF HomewardInv
    <2>7. QED BY <2>5, <2>6
  <1>11. CASE q = wearer /\ UNCHANGED unread /\ current' = <<b>>
    <2>1. DOMAIN current' = {1} /\ current'[1] = b
      BY <1>11
    <2>2. \A j : Owed(j)' => Owed(j)
      BY <1>4, <1>6, <1>11, <2>1 DEF Owed, Doing
    <2>3. \A j \in Returners : Alike(j)
      BY <1>8, <2>2 DEF Alike, Home
    <2>4. OnlyHome(current)'
      BY <1>2, <1>4, <1>7, <1>11, <2>1 DEF OnlyHome
    <2>5. AlarmStays
      BY <1>3, <1>9 DEF AlarmStays
    <2>6. Owed(wearer) /\ Mail' = Mail
      BY <1>6, <1>11 DEF Owed, Mail
    <2>7. QED BY <1>6, <2>3, <2>4, <2>5, <2>6, Quiet DEF HomewardInv
  <1>12. QED BY <1>3, <1>10, <1>11

\* The battery is spent: one of them starts, unless one is about already.
LEMMA AlarmRaised ==
  ASSUME IInv, UNCHANGED <<flight, unread, saying, mind>>, critical' = TRUE, alarmed' = TRUE, ~alarmed,
         Starts("battery-return", "", TRUE)
  PROVE  HomewardInv'
  <1>1. SoleInv /\ OrdersInv /\ MailInv /\ HomeInv /\ AlarmInv /\ MindType /\ DroneType
    BY DEF IInv, HomewardInv, DroneInv
  <1>2. /\ UNCHANGED <<wearer, queue, current>> /\ (OnPad' <=> OnPad) /\ (\A j : Owed(j)' <=> Owed(j))
        /\ \A j : Home(j)' <=> Home(j)
    BY DEF flight, OnPad, airborne, Moving, Owed, Doing, Queued, Home
  <1>3. OnlyHome(queue)' /\ OnlyHome(current)' /\ Mail' = Mail
    BY <1>1, <1>2, OrdersHome DEF OnlyHome, Mail
  <1>4. CASE Someone("battery-return")
    <2>1. UNCHANGED pc
      BY <1>4 DEF Starts
    <2>2. \A j \in Returners : Alike(j)
      BY <1>2, <2>1 DEF Alike
    <2>3. SoleInv' /\ OrdersInv' /\ MailInv' /\ HomeInv'
      BY <1>2, <1>3, <2>2, Quiet
    <2>4. AlarmInv'
      <3>1. PICK j \in Returners : Live(j)
        BY <1>4 DEF Someone, Returners
      <3>2. Live(j)' /\ (~OnPad' => ~Home(j)')
        BY <1>1, <1>2, <2>1, <3>1 DEF Live, HomeInv
      <3>3. QED BY <3>1, <3>2 DEF AlarmInv, Returners
    <2>5. QED BY <2>3, <2>4 DEF HomewardInv
  <1>5. CASE ~Someone("battery-return")
    <2>1. PICK n : n = Next1("battery-return")
      OBVIOUS
    <2>2. /\ Unborn("battery-return") # {} /\ pc' = [pc EXCEPT ![n] = "deciding"]
      BY <1>5, <2>1 DEF Starts
    <2>3. n \in Returners /\ n \in Jobs /\ pc[n] = "unborn" /\ DescriptorOf[n] = "battery-return"
      BY <2>1, <2>2, NextOne DEF Returners, Of
    <2>4. pc'[n] = "deciding" /\ \A j \in Jobs \ {n} : pc'[j] = pc[j]
      BY <1>1, <2>2, <2>3 DEF MindType
    <2>5. \A j \in Returners : ~Live(j) /\ ~Waits(j) /\ ~Owed(j)
      <3>1. \A j \in Returners : ~Live(j) /\ ~Waits(j)
        BY <1>5 DEF Someone, Returners, Waits, Live
      <3>2. QED BY <1>1, <3>1 DEF OrdersInv
    <2>6. ~Home(n) /\ Live(n)'
      BY <1>1, <2>3, <2>4 DEF OrdersInv, Live
    <2>7. \A j \in Returners : ~Waits(j)' /\ ~Owed(j)' /\ (j # n => ~Live(j)')
      <3>1. Returners \subseteq Jobs
        BY DEF Returners, Of
      <3>2. QED BY <1>2, <2>4, <2>5, <3>1 DEF Waits, Live
    <2>8. SoleInv'
      BY <2>7 DEF SoleInv, Returners
    <2>9. OrdersInv'
      <3>1. ASSUME NEW j \in Returners PROVE InOrder(j)'
        <4>1. pc'[j] \in {"unborn", "done"} \/ j = n
          BY <2>7 DEF Live
        <4>2. pc'[j] = "unborn" => pc[j] = "unborn"
          BY <2>4 DEF Returners, Of
        <4>3. pc[j] = "unborn" => ~Home(j)'
          BY <1>1, <1>2 DEF OrdersInv
        <4>4. QED BY <2>4, <2>7, <4>1, <4>2, <4>3 DEF InOrder
      <3>2. \A j \in Returners : InOrder(j)'
        BY <3>1
      <3>3. QED BY <1>3, <3>2 DEF OrdersInv, InOrder, OnlyHome, Returners
    <2>10. MailInv'
      <3>1. Mail' = <<>> /\ DOMAIN Mail' = {}
        <4>1. DOMAIN <<>> = {}
          BY Nothing
        <4>2. "battery-return" \in Behaviours
          BY <2>3 DEF Behaviours
        <4>3. QED BY <1>1, <1>3, <2>5, <4>1, <4>2 DEF MailInv
      <3>2. ~ToldHome(Mail)'
        BY <3>1 DEF ToldHome
      <3>3. QED BY <3>1, <3>2 DEF MailInv
    <2>11. HomeInv'
      BY <1>2, <2>6, <2>7 DEF HomeInv, Returners
    <2>12. AlarmInv'
      BY <1>2, <2>3, <2>6 DEF AlarmInv, Returners
    <2>13. QED BY <2>8, <2>9, <2>10, <2>11, <2>12 DEF HomewardInv
  <1>6. QED BY <1>4, <1>5

\* Whatever the drone does by itself.
LEMMA FlightStep == ASSUME IInv, Fly1 PROVE HomewardInv'
  <1>1. AlarmInv /\ UNCHANGED behaviours
    BY DEF IInv, HomewardInv, Fly1
  <1>2. \A j \in Returners : pc'[j] = pc[j] /\ saying'[j] = saying[j] /\ (Home(j)' <=> Home(j))
    BY <1>1 DEF behaviours, Home
  <1>3. CASE Swap
    BY <1>2, <1>3, Elsewhere DEF Swap
  <1>4. CASE DroveOff
    BY <1>1, <1>2, <1>4, Elsewhere DEF DroveOff, Aside, power, AlarmInv
  <1>5. QED BY <1>1, <1>3, <1>4, FlightEnds, FlightBegins DEF Fly1

\* What happens on the farm.
LEMMA FarmStep == ASSUME IInv, Happens PROVE HomewardInv'
  <1>1. AlarmInv /\ MindType
    BY DEF IInv, HomewardInv
  <1>2. UNCHANGED <<saying, mind>> /\ \A j \in Returners : Home(j)' <=> Home(j)
    BY DEF Happens, Drives, Leaves, Calves, Strays, Trough, Parks, Fire, Battery, Drained, Find, Dawn,
           Quietly, Due, Home
  <1>3. CASE Drives \/ Leaves \/ Calves \/ Strays \/ Trough \/ Parks
    <2>1. UNCHANGED <<pc, flight, unread, power>>
      BY <1>3 DEF Drives, Leaves, Calves, Strays, Trough, Parks, Quietly, vehicle_enters, vehicle_leaves,
                  calves_born, stray, trough_fault, park, Aside
    <2>2. QED BY <1>1, <1>2, <2>1, Elsewhere DEF power, AlarmInv
  <1>4. CASE Fire \/ Find \/ Dawn
    <2>1. UNCHANGED <<flight, unread, power>>
      BY <1>4 DEF Fire, Find, Dawn, start_fire, Aside, drone
    <2>2. PICK b \in {"fire-watch", "find-item", "patrol"}, c \in BOOLEAN : Starts(b, "", c)
      BY <1>4 DEF Fire, Find, Dawn
    <2>3. \A j \in Returners : pc'[j] = pc[j]
      <3>1. CASE UNCHANGED pc
        BY <3>1
      <3>2. CASE Unborn(b) # {} /\ pc' = [pc EXCEPT ![Next1(b)] = "deciding"]
        <4>1. Next1(b) \notin Returners /\ Returners \subseteq Jobs
          BY <2>2, <3>2, NextOne DEF Of, Returners
        <4>2. QED BY <1>1, <3>2, <4>1 DEF MindType
      <3>3. QED BY <2>2, <3>1, <3>2 DEF Starts
    <2>4. QED BY <1>1, <1>2, <2>1, <2>3, Elsewhere DEF power, AlarmInv
  <1>5. CASE Battery \/ Drained
    <2>1. UNCHANGED <<flight, unread>> /\ critical' = TRUE /\ alarmed' = TRUE
      BY <1>5 DEF Battery, Drained, battery_fails, RunsDown, Aside
    <2>2. CASE alarmed
      <3>1. UNCHANGED pc
        BY <1>5, <2>2 DEF Battery, Drained
      <3>2. critical
        BY <1>1, <2>2 DEF AlarmInv
      <3>3. QED BY <1>2, <2>1, <3>1, <3>2, Elsewhere
    <2>3. CASE ~alarmed
      <3>1. Starts("battery-return", "", TRUE)
        BY <1>5, <2>3 DEF Battery, Drained
      <3>2. QED BY <1>2, <2>1, <2>3, <3>1, AlarmRaised
    <2>4. QED BY <2>2, <2>3
  <1>6. QED BY <1>3, <1>4, <1>5 DEF Happens

\* The morning begins with nobody sent home.
LEMMA HomewardInit == ASSUME Init PROVE MindType /\ HomewardInv
  <1>1. MindType /\ \A j \in Jobs : mind[j].home = FALSE /\ pc[j] \in {"unborn", "deciding"}
    BY DEF Init, MindType, Blank
  <1>2. /\ queue = <<>> /\ DOMAIN queue = {} /\ current = <<>> /\ DOMAIN current = {}
        /\ critical = FALSE /\ alarmed = FALSE
    BY Nothing DEF Init, InitDrone
  <1>3. \A j \in Returners : /\ ~Owed(j) /\ ~Waits(j) /\ ~Home(j) /\ pc[j] \in {"unborn", "deciding"}
                             /\ Live(j) => j = 1
    BY <1>1, <1>2 DEF Returners, Of, Owed, Doing, Queued, Waits, Home, Live, Init
  <1>4. SoleInv
    BY <1>3 DEF SoleInv
  <1>5. OrdersInv
    BY <1>2, <1>3 DEF OrdersInv
  <1>6. MailInv
    <2>1. "battery-return" \in Behaviours => Mail = <<>>
      BY DEF Init, InitDrone, Mail
    <2>2. Mail = <<>> => ~ToldHome(Mail)
      BY Nothing DEF ToldHome
    <2>3. QED BY <2>1, <2>2 DEF MailInv
  <1>7. HomeInv
    BY <1>3 DEF HomeInv
  <1>8. AlarmInv
    BY <1>2 DEF AlarmInv
  <1>9. QED BY <1>1, <1>4, <1>5, <1>6, <1>7, <1>8 DEF HomewardInv

\* Every step keeps all of it.
LEMMA InvStep == ASSUME IInv, [Next]_vars PROVE IInv'
  <1>1. DroneInv' /\ MindType'
    BY DroneStep, MindStep DEF IInv
  <1>2. HomewardInv'
    <2>1. CASE Behave
      BY <2>1, BehaviourStep
    <2>2. CASE Fly1
      BY <2>2, FlightStep
    <2>3. CASE Happens
      BY <2>3, FarmStep
    <2>4. CASE UNCHANGED vars
      <3>1. UNCHANGED <<flight, unread, power, pc, saying, mind>>
        BY <2>4 DEF vars, drone, behaviours
      <3>2. \A j \in Returners : Home(j)' <=> Home(j)
        BY <3>1 DEF Home
      <3>3. AlarmInv
        BY DEF IInv, HomewardInv
      <3>4. QED BY <3>1, <3>2, <3>3, Elsewhere DEF power, AlarmInv
    <2>5. QED BY <2>1, <2>2, <2>3, <2>4 DEF Next, System
  <1>3. QED BY <1>1, <1>2 DEF IInv

\* While a drone with a spent battery is in the air, the behaviour that brings it home is on its way
\* and has not come to its end: whatever it was taken from, whatever else was ordered, and however
\* often the battery is found to be spent (sim.py:390).
THEOREM SpentBatteryHeeded == Spec => []AlarmHeeded
  <1>1. Init => IInv
    BY DroneInit, HomewardInit DEF IInv
  <1>2. IInv /\ [Next]_vars => IInv'
    BY InvStep
  <1>3. IInv => AlarmHeeded
    <2>1. SUFFICES ASSUME IInv, critical, airborne PROVE AlarmHeeded
      BY DEF AlarmHeeded
    <2>2. PICK j \in Returners : Live(j) /\ ~Home(j)
      BY <2>1 DEF IInv, HomewardInv, AlarmInv, OnPad
    <2>3. mind[j].home \in BOOLEAN
      BY <2>1 DEF IInv, MindType, Returners, Of
    <2>4. ~mind[j].home
      BY <2>2, <2>3 DEF Home
    <2>5. QED BY <2>2, <2>4 DEF AlarmHeeded, Returners
  <1>4. QED BY <1>1, <1>2, <1>3, PTL DEF Spec
=============================================================================
