--------------------------------- MODULE Farm ---------------------------------
(***************************************************************************)
(* A morning on the farm: the drone under the behaviours of the case, each *)
(* answered by its rules (zeos-farm-drone/src/zeos_farm_drone/policies.py),*)
(* the flight rules that gate every command (rules.py), the lease, and     *)
(* what happens on the farm (run.py).                                      *)
(*                                                                         *)
(* A policy reads its job's transcript; `mind` keeps what it reads out of  *)
(* it.  A command is chosen, spoken over some ticks, held while the guard  *)
(* judges it, and lands when its job next runs, whatever became of the     *)
(* drone meanwhile.  Jobs of a behaviour are numbered as they spawn.       *)
(***************************************************************************)
EXTENDS Drone

CONSTANTS
  SEARCH_ORDER,  \* the paddocks, nearest the shed first
  Mornings       \* bound: the sets of deeds a morning may bring, each deed once

VARIABLES
  pc,       \* what each job is doing
  saying,   \* the command it chose
  mind,     \* what its transcript tells it
  payload,  \* the paddock it was started for
  plan,     \* deeds still to come
  told      \* alerts on the farmer's phone

behaviours == <<pc, saying, mind, payload>>
vars       == <<drone, behaviours, plan, told>>

Priority == [b \in {"battery-return", "fire-watch", "vehicle-check", "livestock-check",
                    "find-item", "patrol"} |->
               CASE b = "battery-return" -> 5   [] b = "fire-watch" -> 15
                 [] b = "vehicle-check" -> 20   [] b = "livestock-check" -> 30
                 [] b = "find-item" -> 40       [] b = "patrol" -> 80]

\* A behaviour is one of these; its jobs are numbered.
ASSUME FarmAssumption == Jobs \subseteq Nat /\ Behaviours \subseteq DOMAIN Priority

ReadsHerd == {"patrol", "livestock-check", "find-item"}

WATCH_FROM == [t \in OFF_FARM |-> IF t = "road" THEN "boundary-west" ELSE "boundary-east"]

\* What a job can say: an order to the drone, a write elsewhere, the end.
Say(to, kind, where) == [to |-> to, kind |-> kind, where |-> where, n |-> 0, order |-> Observe]
Order(c)             == [Say("drone", "", "") EXCEPT !.order = c]
Tell(kind, where)    == Say("farmer", kind, where)
Exit                 == Say("exit", "", "")

Of(b)      == {j \in Jobs : DescriptorOf[j] = b}
Live(j)    == pc[j] \notin {"unborn", "done"}
Someone(b) == \E j \in Of(b) : Live(j)
Unborn(b)  == {j \in Of(b) : pc[j] = "unborn"}
Next1(b)   == CHOOSE j \in Unborn(b) : \A k \in Unborn(b) : j <= k

Blank == [over |-> "", altitude |-> 0, looks |-> <<>>, given |-> {}, vetoed |-> {}, home |-> FALSE]

-----------------------------------------------------------------------------
(***************************************************************************)
(* What a transcript tells: Seen.                                          *)
(***************************************************************************)
\* over: the last answer that says where the drone is, unless a refusal came after it.
Over(m, a) == IF a.kind = "refused" THEN "" ELSE IF a.where # "" THEN a.where ELSE m.over

LooksLike == {"observed", "searched", "zoomed", "panorama"}

Hear(m, a) ==
  [m EXCEPT
     !.over     = Over(m, a),
     !.altitude = IF a.kind = "done" /\ a.command.verb = "climb" THEN a.command.arg ELSE @,
     !.looks    = IF a.kind \in LooksLike THEN Append(@, a) ELSE @]

Heard(m, as) == FoldLeft(Hear, m, as)

ToldHome(as) == \E k \in DOMAIN as : as[k].kind = "done" /\ as[k].command = Return

HearAll(m, as) ==
  LET heard == Heard(m, as) IN
    [m EXCEPT !.over = heard.over, !.altitude = heard.altitude, !.looks = heard.looks,
              !.home = @ \/ ToldHome(as)]

-----------------------------------------------------------------------------
(***************************************************************************)
(* The policies.                                                           *)
(***************************************************************************)
\* _reports: what a look at a paddock calls for, in order.
Reports(m, look) ==
  LET p == look.where IN
    (IF look.sight.dry THEN <<Tell("trough", p)>> ELSE <<>>)
      \o (IF look.sight.vehicle THEN <<Tell("vehicle", p), Say("vehicles", "", p)>> ELSE <<>>)
      \o (IF look.sight.cattle # expected[p] /\ Say("livestock", "", p) \notin m.given
            THEN <<Say("livestock", "", p)>> ELSE <<>>)

Unsaid(m, looks) == SelectSeq(FlattenSeq([k \in DOMAIN looks |-> Reports(m, looks[k])]),
                              LAMBDA w : w \notin m.given)

At(m, p, c) == IF m.over = p THEN Order(c) ELSE Order(Fly(p))

Remaining(order, m) ==
  SelectSeq(order, LAMBDA p : \A k \in DOMAIN m.looks : m.looks[k].where # p)

patrol(m) ==
  LET unsaid == Unsaid(m, m.looks)
      left   == Remaining(PADDOCKS, m)
  IN IF unsaid # <<>> THEN Head(unsaid)
     ELSE IF left # <<>> THEN At(m, Head(left), Observe)
     ELSE IF m.home THEN Exit ELSE Order(Return)

\* How many alerts a vehicle check has given: one for each look.
Alerts(m) == {w \in m.given : w.to = "farmer"}

vehicle_check(m, paddock) ==
  LET look == Last(m.looks)
      told1 == \E w \in Alerts(m) : w.n = Len(m.looks)
      alert == [Tell(IF look.seen THEN "vehicle" ELSE "gone", look.where) EXCEPT !.n = Len(m.looks)]
  IN IF m.looks = <<>> THEN At(m, paddock, Zoom("vehicle"))
     ELSE IF ~told1 THEN alert
     ELSE IF ~look.seen \/ look.heading \notin OFF_FARM THEN Exit
     ELSE IF Fly(look.heading) \notin m.vetoed /\ look.where # WATCH_FROM[look.heading]
       THEN Order(Fly(look.heading))
     ELSE IF look.where = WATCH_FROM[look.heading] THEN Exit
     ELSE At(m, WATCH_FROM[look.heading], Zoom("vehicle"))

\* Only a close look at its own paddock counts.
livestock_check(m, paddock) ==
  LET looks == SelectSeq(m.looks, LAMBDA a : a.where = paddock)
      look  == Last(looks)
  IN IF looks = <<>> THEN At(m, paddock, Zoom("cattle"))
     ELSE IF Alerts(m) = {} THEN Tell("livestock", paddock)
     ELSE IF look.calves > 0 /\ \A w \in m.given : w.to # "tools"
       THEN [Say("tools", "", paddock) EXCEPT !.n = expected[paddock] + look.calves]
     ELSE Exit

fire_watch(m) ==
  IF m.looks = <<>>
    THEN IF m.altitude >= PANORAMA_MIN_M THEN Order(Panorama)
         ELSE IF Climb(150) \notin m.vetoed THEN Order(Climb(150))
         ELSE Order(Climb(CEILING_M))
  ELSE IF Alerts(m) = {} THEN Tell("fire", "")
  ELSE IF m.altitude > CRUISE_M THEN Order(Climb(CRUISE_M))
  ELSE Exit

find_item(m) ==
  LET found  == SelectSeq(m.looks, LAMBDA a : a.found)
      unsaid == Unsaid(m, m.looks)
      left   == Remaining(SEARCH_ORDER, m)
  IN IF \E w \in m.given : w.to = "farmer" /\ w.kind = "item" THEN Exit
     ELSE IF unsaid # <<>> THEN Head(unsaid)
     ELSE IF found # <<>> THEN Tell("item", Head(found).where)
     ELSE IF left # <<>> THEN At(m, Head(left), Search)
     ELSE Tell("item", "nowhere")

battery_return(m) ==
  IF ~m.home THEN Order(Return) ELSE IF Alerts(m) = {} THEN Tell("battery", "shed") ELSE Exit

NextCommand(j) ==
  CASE DescriptorOf[j] = "patrol"          -> patrol(mind[j])
    [] DescriptorOf[j] = "vehicle-check"   -> vehicle_check(mind[j], payload[j])
    [] DescriptorOf[j] = "livestock-check" -> livestock_check(mind[j], payload[j])
    [] DescriptorOf[j] = "fire-watch"      -> fire_watch(mind[j])
    [] DescriptorOf[j] = "find-item"       -> find_item(mind[j])
    [] DescriptorOf[j] = "battery-return"  -> battery_return(mind[j])

\* Mutant: the guard looks at heights only.
HeightsOnly(c) == ~(c.verb = "climb" /\ c.arg > CEILING_M)

\* rules.verdict: what the guard allows.
Allowed(c) ==
  /\ c.verb = "fly" => c.arg \in ON_FARM
  /\ c.verb = "climb" => c.arg <= CEILING_M

-----------------------------------------------------------------------------
Init ==
  /\ InitDrone
  /\ pc = [j \in Jobs |-> IF j = 1 THEN "deciding" ELSE "unborn"]
  /\ saying = [j \in Jobs |-> Exit] /\ mind = [j \in Jobs |-> Blank]
  /\ payload = [j \in Jobs |-> ""]
  /\ plan \in Mornings /\ told = {}

\* What a vector starts; a write behind a running handler is that handler, if it coalesces.
Starts(b, p, coalesce) ==
  IF coalesce /\ Someone(b) THEN UNCHANGED <<pc, payload>>
  ELSE /\ Unborn(b) # {}
       /\ pc' = [pc EXCEPT ![Next1(b)] = "deciding"]
       /\ payload' = [payload EXCEPT ![Next1(b)] = p]

Runnable(j) ==
  /\ \A k \in Of(DescriptorOf[j]) : k < j => ~Live(k)
  /\ \/ pc[j] \in {"deciding", "speaking", "held", "listening"}
     \/ pc[j] = "blocked" /\ unread[DescriptorOf[j]] # <<>>

Rank(j)       == Priority[DescriptorOf[j]]
MostUrgent(j) == Runnable(j) /\ \A k \in Jobs : Runnable(k) => Rank(j) <= Rank(k)

Grant(j) == Embodied(j) /\ MostUrgent(j) /\ UNCHANGED <<behaviours, plan, told>>

Revoke(j) ==
  /\ Disembodied(j)
  /\ \E k \in Jobs : Runnable(k) /\ Rank(k) < Rank(j)
  /\ UNCHANGED <<behaviours, plan, told>>

Runs(j, from) == wearer = j /\ pc[j] = from /\ Settled /\ MostUrgent(j)

Becomes(j, from, to) == Runs(j, from) /\ pc' = [pc EXCEPT ![j] = to]

Decide(j) ==
  /\ Becomes(j, "deciding", "speaking") /\ NextCommand(j) # Exit
  /\ saying' = [saying EXCEPT ![j] = NextCommand(j)]
  /\ UNCHANGED <<drone, mind, payload, plan, told>>

DecideExit(j) ==
  /\ Becomes(j, "deciding", "done") /\ NextCommand(j) = Exit
  /\ Disembodied(j)
  /\ UNCHANGED <<saying, mind, payload, plan, told>>

Given(j) == mind' = [mind EXCEPT ![j].given = @ \cup {saying[j]}]

\* An order is held for the guard, which outranks everyone and answers at once.
SayOrder(j) ==
  /\ Becomes(j, "speaking", "held") /\ saying[j].to = "drone"
  /\ UNCHANGED <<drone, saying, mind, payload, plan, told>>

SayAlert(j) ==
  /\ Becomes(j, "speaking", "deciding") /\ saying[j].to = "farmer" /\ Given(j)
  /\ told' = told \cup {saying[j]}
  /\ UNCHANGED <<drone, saying, payload, plan>>

SayFinding(j) ==
  /\ Runs(j, "speaking") /\ saying[j].to \in {"vehicles", "livestock"} /\ Given(j)
  /\ LET b == IF saying[j].to = "vehicles" THEN "vehicle-check" ELSE "livestock-check" IN
       /\ Unborn(b) # {}
       /\ pc' = [pc EXCEPT ![j] = "deciding", ![Next1(b)] = "deciding"]
       /\ payload' = [payload EXCEPT ![Next1(b)] = saying[j].where]
  /\ UNCHANGED <<drone, saying, plan, told>>

\* Who reads the records and was away is told they changed, and trusts no place since.
SayRecords(j) ==
  /\ Becomes(j, "speaking", "deciding") /\ saying[j].to = "tools"
  /\ expected' = [expected EXCEPT ![saying[j].where] = saying[j].n]
  /\ mind' = [k \in Jobs |->
                IF k = j THEN [mind[k] EXCEPT !.given = @ \cup {saying[j]}]
                ELSE IF DescriptorOf[k] \in ReadsHerd THEN [mind[k] EXCEPT !.over = ""]
                ELSE mind[k]]
  /\ UNCHANGED <<flight, power, calves, gone, strays, dry, vehicle, fire, item, looked, unread,
                 owed, saying, payload, plan, told>>

\* The held order lands, or comes back as a fault.
Land(j) ==
  /\ Becomes(j, "held", "listening") /\ Allowed(saying[j].order)
  /\ Written(j, saying[j].order)
  /\ UNCHANGED <<saying, mind, payload, plan, told>>

Vetoed(j) ==
  /\ Becomes(j, "held", "deciding") /\ ~Allowed(saying[j].order)
  /\ mind' = [mind EXCEPT ![j].vetoed = @ \cup {saying[j].order}]
  /\ UNCHANGED <<drone, saying, payload, plan, told>>

Block(j) ==
  /\ Becomes(j, "listening", "blocked") /\ unread[DescriptorOf[j]] = <<>>
  /\ UNCHANGED <<drone, saying, mind, payload, plan, told>>

ReadAnswer(j) ==
  /\ \E from \in {"listening", "blocked"} : Becomes(j, from, "deciding")
  /\ ReadAll(DescriptorOf[j])
  /\ mind' = [mind EXCEPT ![j] = HearAll(@, unread[DescriptorOf[j]])]
  /\ UNCHANGED <<saying, payload, plan, told>>

Behave == \E j \in Jobs :
  \/ Grant(j) \/ Revoke(j) \/ Decide(j) \/ DecideExit(j) \/ SayOrder(j) \/ SayAlert(j)
  \/ SayFinding(j) \/ SayRecords(j) \/ Land(j) \/ Vetoed(j) \/ Block(j) \/ ReadAnswer(j)

Fly1 == (Swap \/ Complete \/ StartCommand \/ DroveOff) /\ UNCHANGED <<behaviours, plan, told>>

-----------------------------------------------------------------------------
(***************************************************************************)
(* What happens on the farm: Farm.act.                                     *)
(***************************************************************************)
Due(deed) == deed \in plan /\ plan' = plan \ {deed} /\ UNCHANGED <<saying, mind, told>>

Quietly(deed) == Due(deed) /\ UNCHANGED <<pc, payload>>

Drives  == Quietly("vehicle-enters") /\ \E p \in Paddocks : vehicle_enters(p)
Leaves  == Quietly("vehicle-leaves") /\ \E t \in OFF_FARM : vehicle_leaves(t)
Calves  == Quietly("calves") /\ \E p \in Paddocks : calves_born(p)
Strays  == Quietly("stray") /\ \E p, q \in Paddocks : stray(p, q)
Trough  == Quietly("trough") /\ \E p \in Paddocks : trough_fault(p)
Parks   == Quietly("park") /\ \E p \in Paddocks : park(p)
Fire    == Due("fire") /\ start_fire /\ Starts("fire-watch", "", TRUE)
Battery == Due("battery") /\ battery_fails
             /\ IF alarmed THEN UNCHANGED <<pc, payload>> ELSE Starts("battery-return", "", TRUE)
Drained == Due("drained") /\ RunsDown
             /\ IF alarmed THEN UNCHANGED <<pc, payload>> ELSE Starts("battery-return", "", TRUE)
Find    == Due("find") /\ Settled /\ Starts("find-item", "", FALSE) /\ UNCHANGED drone
Dawn    == Due("dawn") /\ Settled /\ Starts("patrol", "", TRUE) /\ UNCHANGED drone

Happens == Drives \/ Leaves \/ Calves \/ Strays \/ Trough \/ Parks \/ Fire \/ Battery \/ Drained
             \/ Find \/ Dawn

System == Behave \/ Fly1

Next == System \/ Happens

(***************************************************************************)
(* Fairness: the loop steps for ever, and each step runs a tick and        *)
(* advances the drone; which thing happens is left open.                   *)
(***************************************************************************)
Spec     == Init /\ [][Next]_vars
FairSpec == Spec /\ WF_vars(System)
-----------------------------------------------------------------------------
TypeOK ==
  /\ wearer \in Jobs \cup {Nobody} /\ position \in Places /\ altitude \in Heights
  /\ \A k \in DOMAIN queue : queue[k].job \in Jobs /\ queue[k].command \in Commands
  /\ Len(current) <= 1
  /\ \A k \in DOMAIN current : current[k].command \in Commands /\ current[k].origin \in Places
  /\ critical \in BOOLEAN /\ alarmed \in BOOLEAN /\ fire \in BOOLEAN /\ dry \subseteq Paddocks
  /\ \A f \in {calves, gone, strays, looked, expected} : f \in [Paddocks -> Nat]
  /\ vehicle.place \in Paddocks \cup OFF_FARM \cup {"none"} /\ item \in Paddocks
  /\ \A b \in Behaviours : Len(unread[b]) <= Capacity
  /\ owed \in [Jobs -> 0 .. 1]
  /\ pc \in [Jobs -> {"unborn", "deciding", "speaking", "held", "listening", "blocked", "done"}]
  /\ payload \in [Jobs -> Paddocks \cup {""}]

(* The drone never leaves the property nor climbs above the ceiling, wherever
   a flight is cut short and whoever it is handed to (rules.py, farm.py:67). *)
KeptIn ==
  /\ position \in ON_FARM /\ altitude <= CEILING_M
  /\ \A k \in DOMAIN current : current[k].target \in ON_FARM

(* A look in hand is a look at the place it was begun over: no one else has
   moved the drone since, though its behaviour may have lost it (sim.py:206). *)
LooksWhole ==
  \A k \in DOMAIN current :
    /\ position = current[k].origin
    /\ current[k].command.verb \notin MOTIONS \/ current[k].job = wearer

(* Each command taken on is answered once: none is lost when the drone changes
   hands, and no behaviour waits for an answer nobody will give (sim.py:600). *)
NoVainWait ==
  \A j \in Jobs :
    /\ owed[j] = IF Doing(j) \/ Queued(j) THEN 1 ELSE 0
    /\ pc[j] = "blocked" => owed[j] = 1 \/ unread[DescriptorOf[j]] # <<>>

(* While a drone with a spent battery is in the air, the behaviour that brings
   it home is on its way and has not yet come to its end (sim.py:390). *)
AlarmHeeded ==
  critical /\ airborne =>
    \E j \in Of("battery-return") : Live(j) /\ ~mind[j].home

Over1(j) == {w \in mind[j].given : w.to = "farmer"}

Rested == plan = {} /\ current = <<>> /\ queue = <<>> /\ \A j \in Jobs : ~Live(j)

(* What the morning must come to (story.py:65): every paddock looked at, every
   vehicle sighted looked for where it was sighted or where it was followed to,
   every count that differed looked into, the records right, every dry trough
   that was seen told, every alarm and request answered. *)
EndsWell ==
  Rested =>
    /\ \A p \in Paddocks : \E k \in DOMAIN mind[1].looks : mind[1].looks[k].where = p
    /\ expected = looked
    /\ \A j \in Jobs : pc[j] = "done" =>
         /\ DescriptorOf[j] = "vehicle-check" =>
              \E w \in Over1(j) : w.where \in {payload[j]} \cup Range(WATCH_FROM)
         /\ DescriptorOf[j] = "livestock-check" => Tell("livestock", payload[j]) \in told
         /\ DescriptorOf[j] \in {"patrol", "find-item"} =>
              \A k \in DOMAIN mind[j].looks :
                LET look == mind[j].looks[k] IN
                  /\ look.sight.dry => Tell("trough", look.where) \in told
                  /\ look.sight.vehicle => Tell("vehicle", look.where) \in told
    /\ fire => Tell("fire", "") \in told
    /\ Of("find-item") \ Unborn("find-item") # {} =>
         \E p \in Paddocks \cup {"nowhere"} : Tell("item", p) \in told

(* Every morning comes to rest, whatever is clicked and whenever: each
   behaviour the drone was taken from still finishes (story.py:160). *)
MorningEnds == <>[](\A j \in Jobs : ~Live(j))
=============================================================================
