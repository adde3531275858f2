------------------------------- MODULE Airframe -------------------------------
(***************************************************************************)
(* The farm's drone flown by PX4 in Gazebo (zeos-farm-drone/src/           *)
(* zeos_farm_drone/px4.py): the stepping thread that begins, watches and   *)
(* cuts motions, the link's coroutines on a thread of their own, PX4       *)
(* itself, telemetry that lags behind it, a morning restarted, and the     *)
(* camera's thread and folders (camera.py).                                *)
(*                                                                         *)
(* What to fly comes from the farm (module Drone) and is left open here.   *)
(* A flight is told apart at its two ends and in between.                  *)
(***************************************************************************)
EXTENDS Integers, Sequences, FiniteSets, SequencesExt

CONSTANTS
  Places,       \* the shed and what else of the map the instance has
  MaxActions,   \* bound: actions begun
  MaxMornings,  \* bound: mornings started
  Refuses       \* whether PX4 may refuse a command, or be too slow at it

Nowhere == "between"

ASSUME AirframeAssumption ==
  /\ "shed" \in Places /\ Nowhere \notin Places
  /\ MaxActions \in Nat /\ MaxMornings \in Nat \ {0}
  /\ Refuses \in BOOLEAN

VARIABLES
  mode, goal, at, up,    \* PX4: its flight mode, where to, where it is and how high
  inAir, latest,         \* whether it flies: as last heard, and as of the position last heard
  pending,               \* commands the link has in hand, each a coroutine; one that is done leaves
  phase,                 \* the stepping thread: "flying", "parking", "crashed"
  current,               \* the action in hand, if any
  position, altitude,    \* where the farm believes the drone is
  answered,              \* the last motion done, or "interrupted"
  morning, begun,        \* counts, for the bounds
  refused,               \* history: whether PX4 or the camera ever refused anything
  astray,                \* history: whether, since the last restart, a motion was cut with a takeoff
                         \* still to come or under way; or that restart preceded the telemetry
  folder, queued, taking, disk,  \* the camera: where it files, what waits, what is in hand, on disk
  jammed,                \* whether the camera's thread has failed
  asked                  \* history: photos asked for this morning

px4    == <<mode, goal, at, up>>
heard  == <<inAir, latest>>
sim    == <<current, position, altitude, answered>>
count  == <<morning, begun>>
camera == <<folder, queued, taking, disk, jammed, asked>>
story  == <<refused, astray>>
vars   == <<px4, heard, pending, phase, sim, count, story, camera>>

CRUISE_M == 40
LIFT_OFF == 1
Heights  == {0, LIFT_OFF, CRUISE_M, 120}

\* A command on the link; `place` and `above` say where to, for the ones that say.
Command(does, place, above) == [does |-> does, place |-> place, above |-> above, stage |-> "asked"]

MOTIONS == {"fly", "climb", "return"}

Unfinished(does) == \E k \in DOMAIN pending : pending[k].does \in does /\ pending[k].stage # "failed"
TakingOff ==
  \E k \in DOMAIN pending :
    /\ pending[k].does \in {"fly", "climb"} /\ pending[k].stage # "failed"
    /\ pending[k].stage = "asked" => ~inAir \/ up = 0
Refused          == \E k \in DOMAIN pending : pending[k].stage = "failed"
InHand(does)     == \E k \in DOMAIN current : current[k].does \in does

Ask(commands) == pending' = pending \o commands

Init ==
  /\ mode = "landed" /\ goal = [place |-> "shed", above |-> 0] /\ at = "shed" /\ up = 0
  /\ inAir = FALSE /\ latest = FALSE
  /\ pending = <<>> /\ phase = "flying" /\ current = <<>>
  /\ position = "shed" /\ altitude = 0 /\ answered = "return"
  /\ morning = 1 /\ begun = 0 /\ refused = FALSE /\ astray = FALSE
  /\ folder = 1 /\ queued = <<>> /\ taking = <<>> /\ disk = {} /\ jammed = FALSE /\ asked = 0

-----------------------------------------------------------------------------
(***************************************************************************)
(* PX4, external: takeoff, goto, hold and return to launch, one thing at a *)
(* time, the newest command replacing what it was doing.                   *)
(***************************************************************************)
PX4Does(m, place, above) == mode' = m /\ goal' = [place |-> place, above |-> above]

\* The telemetry has caught up with PX4; and whether it shows a takeoff begun.
Caught == latest = inAir /\ inAir = (up > 0)
Told   == Caught /\ ~(mode = "takeoff" /\ up = 0)

\* Timing assumed: to climb or to travel takes longer than the streams lag, than a hold takes to be
\* sent, and than a coroutine that follows the flight mode takes to see it change.
Unhurried ==
  /\ Caught /\ ~Unfinished({"hold"})
  /\ \A k \in DOMAIN pending : pending[k].stage = "waits" => mode # "takeoff"
  /\ \A k \in DOMAIN pending : pending[k].stage = "rises" => mode = "takeoff"

LiftsOff ==
  /\ mode = "takeoff" /\ up = 0
  /\ up' = LIFT_OFF /\ UNCHANGED <<mode, goal, at>>

Climbs ==
  /\ mode = "takeoff" /\ up \notin {0, goal.above} /\ Unhurried
  /\ up' = goal.above /\ UNCHANGED <<mode, goal, at>>

TakeoffOver ==
  /\ mode = "takeoff" /\ up = goal.above
  /\ mode' = "hold" /\ UNCHANGED <<goal, at, up>>

Travels ==
  /\ mode \in {"goto", "return"} /\ up > 0 /\ Unhurried
  /\ \/ at \notin {goal.place, Nowhere} /\ at' = Nowhere /\ UNCHANGED <<mode, up>>
     \/ at = Nowhere /\ at' = goal.place /\ UNCHANGED <<mode, up>>
     \/ /\ at = goal.place /\ up # goal.above
        /\ up' = goal.above /\ mode' = (IF mode = "return" THEN "landed" ELSE mode)
        /\ UNCHANGED at
  /\ UNCHANGED goal

Px4Moves == (LiftsOff \/ Climbs \/ TakeoffOver \/ Travels)
              /\ UNCHANGED <<heard, pending, phase, sim, count, story, camera>>

\* _follow_in_air and _follow_position: two streams, in step with neither PX4 nor each other.
\* A position heard is the drone's at this grain; whether it flies is as old as the streams are.
FollowInAir ==
  /\ inAir # (up > 0) /\ inAir' = (up > 0)
  /\ UNCHANGED <<px4, latest, pending, phase, sim, count, story, camera>>

FollowPosition ==
  /\ latest # inAir /\ latest' = inAir
  /\ UNCHANGED <<px4, inAir, pending, phase, sim, count, story, camera>>

-----------------------------------------------------------------------------
(***************************************************************************)
(* The link's coroutines.                                                  *)
(***************************************************************************)
Stage(k, s) == pending' = [pending EXCEPT ![k].stage = s]

\* A coroutine that is done: nothing asks for it again but check, which forgets it.
Was(k, j) == IF j < k THEN j ELSE j + 1
Done(k)   == pending' = [j \in 1 .. Len(pending) - 1 |-> pending[Was(k, j)]]

LinkStep(k) == UNCHANGED <<at, up, heard, phase, sim, count, camera>> /\ pending[k].stage # "failed"

\* A coroutine sends its first command as soon as it runs, and the loop runs them in order.
ItsTurn(k) ==
  /\ pending[k].stage = "asked"
  /\ \A j \in 1 .. k - 1 : pending[j].stage = "asked" => pending[j].does = "gimbal"

\* _fly_to, _climb_to: a climb is a flight to where the telemetry says it is.
Goto(c) ==
  IF up = 0 THEN UNCHANGED <<mode, goal>>
  ELSE PX4Does("goto", IF c.does = "fly" THEN c.place ELSE at, c.above)

\* _airborne: from the ground, arm and take off first.
Airborne(k) ==
  /\ pending[k].does \in {"fly", "climb"} /\ ItsTurn(k)
  /\ IF inAir THEN Done(k) /\ Goto(pending[k])
     ELSE Stage(k, "waits") /\ PX4Does("takeoff", at, pending[k].above)
  /\ LinkStep(k) /\ UNCHANGED story

\* The takeoff is over once its mode has been seen and then left; the flight follows.
SeesTakeoff(k) ==
  /\ pending[k].stage = "waits" /\ mode = "takeoff" /\ Stage(k, "rises")
  /\ LinkStep(k) /\ UNCHANGED <<mode, goal, story>>

SeesItOver(k) ==
  /\ pending[k].stage = "rises" /\ mode # "takeoff" /\ Done(k) /\ Goto(pending[k])
  /\ LinkStep(k) /\ UNCHANGED story

Hold(k) ==
  /\ pending[k].does = "hold" /\ ItsTurn(k) /\ Done(k)
  /\ PX4Does(IF up = 0 THEN "landed" ELSE "hold", at, up)
  /\ LinkStep(k) /\ UNCHANGED story

ReturnToLaunch(k) ==
  /\ pending[k].does = "return" /\ ItsTurn(k) /\ Done(k)
  /\ IF up = 0 THEN PX4Does("landed", at, 0) ELSE PX4Does("return", "shed", 0)
  /\ LinkStep(k) /\ UNCHANGED story

\* _aim, _look_ahead.
Gimbal(k) ==
  /\ pending[k].does = "gimbal" /\ Done(k)
  /\ LinkStep(k) /\ UNCHANGED <<mode, goal, story>>

Refusal(k) ==
  /\ Refuses /\ ~refused /\ pending[k].stage \in {"asked", "rises"} /\ Stage(k, "failed") /\ refused' = TRUE
  /\ LinkStep(k) /\ UNCHANGED <<mode, goal, astray>>

Link == \E k \in DOMAIN pending :
  \/ Airborne(k) \/ SeesTakeoff(k) \/ SeesItOver(k) \/ Hold(k) \/ ReturnToLaunch(k)
  \/ Gimbal(k)

-----------------------------------------------------------------------------
(***************************************************************************)
(* The stepping thread: Px4Farm.                                           *)
(***************************************************************************)
Steps == phase = "flying" /\ UNCHANGED <<px4, heard>>

Take(action) == current' = <<action>> /\ begun' = begun + 1
End(how)     == current' = <<>> /\ answered' = how

\* _begin; a flight keeps its height, or climbs to the cruise from the ground.
BeginMotion ==
  /\ Steps /\ current = <<>> /\ begun < MaxActions
  /\ \E a \in {Command("fly", p, IF altitude = 0 THEN CRUISE_M ELSE altitude) : p \in Places}
                \cup {Command("climb", "", m) : m \in Heights \ {0, LIFT_OFF}}
                \cup {Command("return", "shed", 0)} :
       Take(a) /\ Ask(<<Command("gimbal", "", 0), a>>)
  /\ UNCHANGED <<phase, position, altitude, answered, morning, story, camera>>

BeginLook ==
  /\ Steps /\ current = <<>> /\ begun < MaxActions /\ altitude > 0
  /\ Take(Command("look", "", 0)) /\ Ask(<<Command("gimbal", "", 0)>>)
  /\ UNCHANGED <<phase, position, altitude, answered, morning, story, camera>>

\* Mutant: a flight is over once it is over the place, at whatever height.
ThereAtAnyHeight(a) ==
  CASE a.does = "fly"    -> at = a.place
    [] a.does = "climb"  -> latest
    [] a.does = "return" -> ~latest /\ at = "shed"

\* _finished, by what the telemetry says.
There(a) ==
  CASE a.does = "fly"    -> at = a.place /\ up = a.above
    [] a.does = "climb"  -> up = a.above
    [] a.does = "return" -> ~latest /\ at = "shed"

FinishMotion ==
  LET a == current[1] IN
  /\ Steps /\ InHand(MOTIONS) /\ There(a) /\ ~Refused
  /\ End(a.does)
  /\ position' = (IF a.does = "climb" THEN position ELSE a.place) /\ altitude' = a.above
  /\ UNCHANGED <<pending, phase, count, story, camera>>

\* A look is over in its time; some leave a photo, unless the camera has failed.
FinishLook ==
  /\ Steps /\ InHand({"look"}) /\ ~jammed
  /\ End(answered)
  /\ \/ UNCHANGED camera
     \/ /\ asked' = asked + 1 /\ queued' = Append(queued, [of |-> morning, n |-> asked + 1])
        /\ UNCHANGED <<folder, taking, disk, jammed>>
  /\ UNCHANGED <<pending, phase, position, altitude, count, story>>

\* Mutant: a motion cut is only forgotten.
HaltForgets == UNCHANGED pending

\* _halt: hold, and say where the telemetry puts the drone.
Halt == IF InHand(MOTIONS) THEN Ask(<<Command("hold", "", 0)>>) ELSE UNCHANGED pending

nearest(where) == IF where = Nowhere THEN Places ELSE {where}

Cut ==
  /\ Steps /\ current # <<>>
  /\ Halt /\ End(IF InHand(MOTIONS) THEN "interrupted" ELSE answered)
  /\ position' \in nearest(at)
  /\ astray' = (astray \/ (InHand(MOTIONS) /\ TakingOff))
  /\ UNCHANGED <<phase, altitude, count, refused, camera>>

Crash == phase' = "crashed" /\ UNCHANGED <<px4, heard, pending, sim, count, story, camera>>

\* What a motion in hand, or the camera, has to say of a refusal stops the farm.
FindsRefusal ==
  /\ phase = "flying" /\ ((InHand(MOTIONS) /\ Refused) \/ jammed)
  /\ Crash

\* The deadlines, MOTION_TIMEOUT_S and PARK_TIMEOUT_S: how slow PX4 may be is left open.
TimesOut ==
  /\ Refuses /\ ~Refused
  /\ \/ phase = "parking" /\ (latest \/ at # "shed")
     \/ phase = "flying" /\ InHand(MOTIONS)
  /\ Crash

-----------------------------------------------------------------------------
(***************************************************************************)
(* A new morning (live.py _build): park, new folder, new farm.             *)
(***************************************************************************)
\* Mutant: the folder is the old morning's.
FileIntoOld == folder' = folder

FileInto == folder' = morning + 1

NewMorning ==
  /\ phase' = "flying" /\ morning' = morning + 1 /\ FileInto /\ asked' = 0
  /\ current' = <<>> /\ answered' = "return"
  /\ position' \in IF latest THEN nearest(at) ELSE {"shed"}
  /\ altitude' = IF latest THEN up ELSE 0
  /\ UNCHANGED <<queued, taking, disk, jammed>>

\* Mutant: what the old morning has in hand is left to it.
ParkLeaves(commands) == Ask(commands)

ParkCancels(commands) == pending' = commands

Restart ==
  /\ Steps /\ morning < MaxMornings
  /\ astray' = ~Told
  /\ IF latest
       THEN /\ ParkCancels(<<Command("return", "shed", 0)>>) /\ phase' = "parking"
            /\ UNCHANGED <<sim, morning, camera>>
       ELSE ParkCancels(<<>>) /\ NewMorning
  /\ UNCHANGED <<begun, refused>>

Parked ==
  /\ phase = "parking" /\ ~latest /\ at = "shed"
  /\ ~Refused
  /\ NewMorning
  /\ UNCHANGED <<px4, heard, pending, begun, story>>

ParkRefused == phase = "parking" /\ Refused /\ Crash

-----------------------------------------------------------------------------
(***************************************************************************)
(* The camera's thread: one photo at a time, aside and then renamed into   *)
(* the folder it found when it began.                                      *)
(***************************************************************************)
CameraStep == UNCHANGED <<px4, heard, pending, phase, sim, count>>

TakePhoto ==
  /\ taking = <<>> /\ queued # <<>> /\ ~jammed
  /\ taking' = <<[photo |-> Head(queued), into |-> folder]>> /\ queued' = Tail(queued)
  /\ CameraStep /\ UNCHANGED <<folder, disk, jammed, asked, story>>

KeepPhoto ==
  /\ taking # <<>> /\ taking' = <<>>
  /\ disk' = {f \in disk : f.into # taking[1].into \/ f.photo.n # taking[1].photo.n}
               \cup {taking[1]}
  /\ CameraStep /\ UNCHANGED <<folder, queued, jammed, asked, story>>

CameraFails ==
  /\ Refuses /\ ~refused /\ taking # <<>>
  /\ taking' = <<>> /\ jammed' = TRUE /\ refused' = TRUE
  /\ CameraStep /\ UNCHANGED <<folder, queued, disk, asked, astray>>

-----------------------------------------------------------------------------
Next ==
  \/ Px4Moves \/ FollowInAir \/ FollowPosition \/ Link \/ (\E k \in DOMAIN pending : Refusal(k))
  \/ BeginMotion \/ BeginLook \/ FinishMotion \/ FinishLook \/ Cut \/ FindsRefusal \/ TimesOut
  \/ Restart \/ Parked \/ ParkRefused \/ TakePhoto \/ KeepPhoto \/ CameraFails

Spec == Init /\ [][Next]_vars

-----------------------------------------------------------------------------
TypeOK ==
  /\ mode \in {"landed", "takeoff", "goto", "hold", "return"}
  /\ goal \in [place : Places \cup {Nowhere}, above : Heights]
  /\ at \in Places \cup {Nowhere} /\ up \in Heights /\ inAir \in BOOLEAN
  /\ latest \in BOOLEAN
  /\ \A k \in DOMAIN pending :
       pending[k].stage \in {"asked", "waits", "rises", "failed"}
  /\ phase \in {"flying", "parking", "crashed"} /\ Len(current) <= 1
  /\ position \in Places /\ altitude \in Heights /\ folder \in 1 .. MaxMornings

(* A motion that was cut stops where it is: once PX4 has had the hold, it flies
   nowhere until the next motion, whatever the cut one still had in hand but a
   takeoff, whose coroutine sends its flight when the hold ends it (sim.py:353,
   px4.py:434). *)
Halted ==
  answered = "interrupted" /\ phase = "flying" /\ ~InHand(MOTIONS) /\ ~Unfinished({"hold"})
    /\ ~refused /\ ~astray
  => mode \in {"landed", "hold"}

(* A behaviour told its flight is done is over the place it asked for, at the
   height the farm believes, and stays there until its next motion, though the
   flight may end while its takeoff's coroutine still waits (px4.py:407). *)
TruthTold ==
  current = <<>> /\ phase = "flying" /\ ~refused /\ ~astray =>
    /\ answered \in {"fly", "return"} => at = position
    /\ answered \in MOTIONS => up = altitude

(* A morning starts with the drone on its pad, and nothing of the old morning
   left to set it off again, unless it was restarted before the telemetry showed
   the takeoff under way (px4.py:288, live.py:199). *)
StartsOnPad ==
  [][morning' # morning /\ ~astray' =>
       /\ up = 0 /\ at = "shed" /\ mode # "takeoff"
       /\ \A k \in DOMAIN pending' : pending'[k].stage = "failed" \/ pending'[k].does = "return"]_vars

(* Every photo this morning asked for waits, is being taken, or is this
   morning's in its own folder; only a camera that failed loses one
   (camera.py:78, camera.py:104). *)
PhotosKept ==
  ~jammed =>
    \A n \in 1 .. asked :
      LET photo == [of |-> morning, n |-> n] IN
        photo \in Range(queued) \/ [photo |-> photo, into |-> morning] \in Range(taking) \cup disk

(* "Stop the action in hand where it is" (sim.py:239): a motion that was cut is
   not flown on with. *)
StopsTheAction ==
  answered = "interrupted" /\ phase = "flying" /\ ~InHand(MOTIONS) /\ ~Unfinished({"hold"}) /\ ~refused =>
    mode \in {"landed", "hold"}
=============================================================================
