-------------------------------- MODULE Drone --------------------------------
(***************************************************************************)
(* The farm's one drone and the farm under it: the device on the end of    *)
(* the command pipe (zeos-farm-drone/src/zeos_farm_drone/sim.py) and the   *)
(* map it flies over (farm.py).                                            *)
(*                                                                         *)
(* Virtual time is abstracted: an action under way may or may not be due,  *)
(* a flight cut short may have got anywhere along its way, and a battery   *)
(* in the air may or may not have run down.  Herds are counted from what   *)
(* each paddock held at the start of the morning; an answer is a record of *)
(* what a behaviour reads out of it.                                       *)
(***************************************************************************)
EXTENDS Integers, Sequences, FiniteSets, SequencesExt

CONSTANTS
  Jobs, Nobody,
  DescriptorOf,  \* the behaviour a job is of
  Immediate,     \* behaviours whose release policy is `immediate`; the rest end their looks
  Places,        \* what of the map the instance has
  PADDOCKS,      \* the paddocks, in the order the patrol flies them
  Truth,         \* what is really on the farm in the morning
  Capacity       \* answers a behaviour's stdin holds

Behaviours == {DescriptorOf[j] : j \in Jobs}
Paddocks   == Range(PADDOCKS)

\* Map coordinates, in tenths.
PLACES ==
  [p \in {"shed", "house", "north-flat", "ridge", "creek", "dam", "back-block", "boundary-west",
          "boundary-east", "road", "neighbour"} |->
     CASE p = "shed" -> <<10, 16>>         [] p = "house" -> <<10, 10>>
       [] p = "north-flat" -> <<10, 0>>    [] p = "ridge" -> <<20, 0>>
       [] p = "creek" -> <<20, 10>>        [] p = "dam" -> <<30, 10>>
       [] p = "back-block" -> <<30, 0>>    [] p = "boundary-west" -> <<3, 5>>
       [] p = "boundary-east" -> <<37, 5>> [] p = "road" -> <<-4, 5>>
       [] p = "neighbour" -> <<44, 5>>]

OFF_FARM == {"road", "neighbour"} \cap Places
ON_FARM  == Places \ OFF_FARM

ASSUME DroneAssumption ==
  /\ Nobody \notin Jobs /\ Capacity \in Nat \ {0}
  /\ Truth \in [calves : [Paddocks -> Nat], dry : SUBSET Paddocks, item : Paddocks]
  /\ "shed" \in Places /\ Paddocks \subseteq Places /\ Places \subseteq DOMAIN PLACES

VARIABLES
  wearer, queue, current,  \* _Drone: who flies it, what waits, the action in hand if any
  position, altitude,
  critical, alarmed,       \* battery <= CRITICAL_PCT, and whether the monitor said so
  calves, gone, strays,    \* each paddock's calves, head strayed from it and into it
  dry,                     \* paddocks whose trough is below 30 %
  vehicle,                 \* where the vehicle is and where it is heading; "none": not come yet
  fire,                    \* whether one is burning
  item,                    \* where the thing the farmer may ask for is
  looked,                  \* calves born in each paddock before its last close look
  expected,                \* herd.expected, from what it was in the morning
  unread,                  \* answers on each behaviour's stdin
  owed                     \* history: commands of each job taken on, less the answers to them

flight == <<wearer, queue, current, position, altitude>>
power  == <<critical, alarmed>>
farm   == <<calves, gone, strays, dry, vehicle, fire, item, looked, expected>>
drone  == <<flight, power, farm, unread, owed>>

-----------------------------------------------------------------------------
(***************************************************************************)
(* The map.                                                                *)
(***************************************************************************)
Steps == 8  \* bound: places along a flight at which it may be cut short

\* position_between, in 80ths; nearest_on_farm, with every place a tie allows.
Along(start, end, k) ==
  [i \in 1 .. 2 |-> Steps * PLACES[start][i] + k * (PLACES[end][i] - PLACES[start][i])]

Far(p, point) ==
  LET d == [i \in 1 .. 2 |-> Steps * PLACES[p][i] - point[i]] IN d[1] * d[1] + d[2] * d[2]

nearest_on_farm(point) == {p \in ON_FARM : \A q \in ON_FARM : Far(p, point) <= Far(q, point)}

CutShort == [o \in ON_FARM |-> [t \in Places |->
               UNION {nearest_on_farm(Along(o, t, k)) : k \in 0 .. Steps}]]

CRUISE_M       == 40
PANORAMA_MIN_M == 100
CEILING_M      == 120
Heights        == {0, CRUISE_M, CEILING_M}

Command(verb, arg) == [verb |-> verb, arg |-> arg]
Fly(p)   == Command("fly", p)
Climb(m) == Command("climb", m)
Return   == Command("return", "")
Observe  == Command("observe", "")
Zoom(t)  == Command("zoom", t)
Search   == Command("search", "item")
Panorama == Command("panorama", "")

Commands == {Fly(p) : p \in Places} \cup {Climb(m) : m \in {CRUISE_M, CEILING_M, 150}}
              \cup {Return, Observe, Zoom("vehicle"), Zoom("cattle"), Search, Panorama}

MOTIONS == {"fly", "climb", "return"}

Answer(kind, command, where) == [kind |-> kind, command |-> command, where |-> where]

-----------------------------------------------------------------------------
InitDrone ==
  /\ wearer = Nobody /\ queue = <<>> /\ current = <<>> /\ position = "shed" /\ altitude = 0
  /\ critical = FALSE /\ alarmed = FALSE
  /\ calves = Truth.calves /\ dry = Truth.dry /\ item = Truth.item
  /\ gone = [p \in Paddocks |-> 0] /\ strays = gone
  /\ vehicle = [place |-> "none", heading |-> "parked"] /\ fire = FALSE
  /\ looked = gone /\ expected = gone
  /\ unread = [b \in Behaviours |-> <<>>] /\ owed = [j \in Jobs |-> 0]

Doing(j)  == \E k \in DOMAIN current : current[k].job = j
Queued(j) == \E k \in DOMAIN queue : queue[k].job = j
Moving    == \E k \in DOMAIN current : current[k].command.verb \in MOTIONS

airborne == altitude > 0 \/ Moving

OnPad == ~airborne /\ position = "shed"

Settled == (current # <<>> \/ queue = <<>>) /\ ~(OnPad /\ critical)

\* _answer: what does not fit is dropped.
Arrives(j, a) ==
  unread' = [unread EXCEPT ![DescriptorOf[j]] = IF Len(@) < Capacity THEN Append(@, a) ELSE @]

Answers(j, a) == Arrives(j, a) /\ owed' = [owed EXCEPT ![j] = @ - 1]

(***************************************************************************)
(* What the kernel did: `observe`.                                         *)
(***************************************************************************)
Embodied(j) ==
  /\ Settled /\ wearer = Nobody /\ wearer' = j
  /\ UNCHANGED <<queue, current, position, altitude, power, farm, unread, owed>>

\* _abort, _halt: a flight stops on its way, anything else where it is.
Abort ==
  LET a == current[1] IN
  /\ current' = <<>>
  /\ position' \in IF a.target = a.origin THEN {position} ELSE CutShort[a.origin][a.target]
  /\ Answers(a.job, Answer("interrupted", a.command, position'))

\* Mutant: at an action boundary nothing stops, motions included.
StopsForLooks(j) == Doing(j) /\ DescriptorOf[j] \in Immediate

StopsFor(j) ==
  \E k \in DOMAIN current :
    current[k].job = j /\ (DescriptorOf[j] \in Immediate \/ current[k].command.verb \in MOTIONS)

Disembodied(j) ==
  /\ Settled /\ wearer = j /\ wearer' = Nobody
  /\ IF StopsFor(j) THEN Abort ELSE UNCHANGED <<current, position, unread, owed>>
  /\ UNCHANGED <<queue, altitude, power, farm>>

Written(j, c) ==
  /\ Settled
  /\ IF j # wearer \/ Doing(j) \/ Queued(j)
       THEN Arrives(j, Answer("refused", c, "")) /\ UNCHANGED <<queue, owed>>
       ELSE /\ queue' = Append(queue, [job |-> j, command |-> c])
            /\ owed' = [owed EXCEPT ![j] = @ + 1]
            /\ UNCHANGED unread
  /\ UNCHANGED <<wearer, current, position, altitude, power, farm>>

-----------------------------------------------------------------------------
(***************************************************************************)
(* `advance`: swap a spent battery on the pad, finish what is due, start   *)
(* the next.                                                               *)
(***************************************************************************)
\* Mutant: the monitor of a fresh battery still thinks it has raised the alarm.
SwapUnsaid ==
  /\ OnPad /\ critical
  /\ critical' = FALSE
  /\ UNCHANGED <<flight, alarmed, farm, unread, owed>>

Swap ==
  /\ OnPad /\ critical
  /\ critical' = FALSE /\ alarmed' = FALSE
  /\ UNCHANGED <<flight, farm, unread, owed>>

\* _start's refusals.
Can(c) ==
  \/ c.verb = "fly" /\ c.arg \in Places
  \/ c.verb \in {"climb", "return"}
  \/ c.verb \in {"observe", "search"} /\ position \in Paddocks /\ altitude > 0
  \/ c.verb = "zoom" /\ altitude > 0
  \/ c.verb = "panorama" /\ altitude >= PANORAMA_MIN_M

\* Mutant: a flight does not take off.
OutcomeFlat(c) ==
  CASE c.verb = "fly"    -> [position |-> c.arg, altitude |-> altitude]
    [] c.verb = "return" -> [position |-> "shed", altitude |-> 0]
    [] c.verb = "climb"  -> [position |-> position, altitude |-> c.arg]
    [] OTHER             -> [position |-> position, altitude |-> altitude]

\* Where the drone is once the action is complete.
Outcome(c) ==
  CASE c.verb = "fly"    -> [position |-> c.arg,
                             altitude |-> IF altitude = 0 THEN CRUISE_M ELSE altitude]
    [] c.verb = "return" -> [position |-> "shed", altitude |-> 0]
    [] c.verb = "climb"  -> [position |-> position, altitude |-> c.arg]
    [] OTHER             -> [position |-> position, altitude |-> altitude]

Target(c) == IF c.verb = "fly" THEN c.arg ELSE IF c.verb = "return" THEN "shed" ELSE position

TakenBack(next) == Answers(next.job, Answer("taken", next.command, ""))

StartCommand ==
  /\ current = <<>> /\ queue # <<>> /\ ~(OnPad /\ critical)
  /\ queue' = Tail(queue)
  /\ LET next == Head(queue) IN
       \/ /\ next.job # wearer
          /\ TakenBack(next) /\ UNCHANGED current
       \/ /\ next.job = wearer /\ ~Can(next.command)
          /\ Answers(next.job, Answer("refused", next.command, "")) /\ UNCHANGED current
       \/ /\ next.job = wearer /\ Can(next.command)
          /\ current' = <<[job |-> next.job, command |-> next.command, origin |-> position,
                           target |-> Target(next.command), outcome |-> Outcome(next.command)]>>
          /\ UNCHANGED <<unread, owed>>
  /\ UNCHANGED <<wearer, position, altitude, power, farm>>

OVERLOOKS == [p \in Places |-> IF p = "boundary-west" THEN "road"
                               ELSE IF p = "boundary-east" THEN "neighbour" ELSE p]

InView(p) == vehicle.place \in {p, OVERLOOKS[p]}
Heads(p)  == calves[p] - gone[p] + strays[p]

InSight(p) == [where |-> p, cattle |-> Heads(p), vehicle |-> InView(p), dry |-> p \in dry]

unrecorded(p) == IF calves[p] > expected[p] THEN calves[p] - expected[p] ELSE 0

\* What the drone says it saw, over p, when the action is complete.
Saw(c, p) ==
  CASE c.verb = "observe" -> [kind |-> "observed", command |-> c, where |-> p, sight |-> InSight(p)]
    [] c.verb = "search"  -> [kind |-> "searched", command |-> c, where |-> p, sight |-> InSight(p),
                              found |-> item = p]
    [] c = Zoom("vehicle") -> [kind |-> "zoomed", command |-> c, where |-> p,
                               seen |-> InView(p), away |-> vehicle.place # p,
                               heading |-> vehicle.heading]
    [] c = Zoom("cattle") -> IF p \in Paddocks
                               THEN [kind |-> "zoomed", command |-> c, where |-> p,
                                     head |-> Heads(p), calves |-> unrecorded(p),
                                     strays |-> strays[p]]
                               ELSE Answer("nothing", c, p)
    [] c = Panorama -> Answer("panorama", c, "")
    [] OTHER -> Answer("done", c, IF c.verb = "fly" THEN c.arg
                                  ELSE IF c.verb = "return" THEN "shed" ELSE "")

Complete ==
  LET a == current[1] IN
  /\ current # <<>>
  /\ current' = <<>>
  /\ IF a.command.verb \in MOTIONS
       THEN position' = a.outcome.position /\ altitude' = a.outcome.altitude
       ELSE UNCHANGED <<position, altitude>>
  /\ looked' = IF a.command = Zoom("cattle") /\ position \in Paddocks
                 THEN [looked EXCEPT ![position] = calves[position]] ELSE looked
  /\ Answers(a.job, Saw(a.command, position))
  /\ UNCHANGED <<wearer, queue, power, calves, gone, strays, dry, vehicle, fire, item, expected>>

\* _drain, _alarm; the alarm itself is the composition's.
RunsDown ==
  /\ Settled /\ airborne /\ ~critical
  /\ critical' = TRUE /\ alarmed' = TRUE
  /\ UNCHANGED <<flight, farm, unread, owed>>

ReadAll(b) ==
  /\ Settled /\ unread[b] # <<>>
  /\ unread' = [unread EXCEPT ![b] = <<>>]
  /\ UNCHANGED <<flight, power, farm, owed>>

-----------------------------------------------------------------------------
(***************************************************************************)
(* The farm, changed by hand.                                              *)
(***************************************************************************)
Aside == Settled /\ UNCHANGED <<flight, unread, owed>>

vehicle_enters(p) ==
  /\ Aside /\ vehicle.place = "none" /\ p \in Paddocks
  /\ vehicle' = [place |-> p, heading |-> "parked"]
  /\ UNCHANGED <<power, calves, gone, strays, dry, fire, item, looked, expected>>

vehicle_leaves(towards) ==
  /\ Aside /\ vehicle.place \in Paddocks /\ vehicle.heading = "parked" /\ towards \in OFF_FARM
  /\ vehicle' = [vehicle EXCEPT !.heading = towards]
  /\ UNCHANGED <<power, calves, gone, strays, dry, fire, item, looked, expected>>

DroveOff ==
  /\ Aside /\ vehicle.place \in Paddocks /\ vehicle.heading \in OFF_FARM
  /\ vehicle' = [place |-> vehicle.heading, heading |-> "away"]
  /\ UNCHANGED <<power, calves, gone, strays, dry, fire, item, looked, expected>>

calves_born(p) ==
  /\ Aside /\ calves' = [calves EXCEPT ![p] = @ + 1]
  /\ UNCHANGED <<power, gone, strays, dry, vehicle, fire, item, looked, expected>>

stray(start, end) ==
  /\ Aside /\ start # end
  /\ gone' = [gone EXCEPT ![start] = @ + 1] /\ strays' = [strays EXCEPT ![end] = @ + 1]
  /\ UNCHANGED <<power, calves, dry, vehicle, fire, item, looked, expected>>

trough_fault(p) ==
  /\ Aside /\ dry' = dry \cup {p}
  /\ UNCHANGED <<power, calves, gone, strays, vehicle, fire, item, looked, expected>>

start_fire ==
  /\ Aside /\ fire' = TRUE
  /\ UNCHANGED <<power, calves, gone, strays, dry, vehicle, item, looked, expected>>

park(p) ==
  /\ Aside /\ item' = p
  /\ UNCHANGED <<power, calves, gone, strays, dry, vehicle, fire, looked, expected>>

battery_fails == Aside /\ critical' = TRUE /\ alarmed' = TRUE /\ UNCHANGED farm
=============================================================================
