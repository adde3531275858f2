--------------------------- MODULE Airframe_proofs ---------------------------
(***************************************************************************)
(* What is proved of Airframe, for any map and any bounds: that no photo   *)
(* is lost; that a motion cut stops, and one said to be done is done,      *)
(* unless a takeoff was cut or PX4 refused; and that a morning starts on   *)
(* the pad, unless it was restarted before the telemetry showed a takeoff. *)
(***************************************************************************)
EXTENDS Airframe, FiniteSetTheorems, TLAPS

-----------------------------------------------------------------------------
(***************************************************************************)
(* The camera.                                                             *)
(***************************************************************************)
Photos == [of : Nat, n : Nat]
Files  == [photo : Photos, into : Nat]

CameraType ==
  /\ morning \in Nat /\ folder = morning /\ asked \in Nat
  /\ queued \in Seq(Photos) /\ disk \subseteq Files
  /\ \/ taking = <<>>
     \/ taking \in Seq(Files) /\ Len(taking) = 1

\* A photo is of this morning or of one before.
NoneAhead ==
  /\ \A i \in DOMAIN queued : queued[i].of <= morning
  /\ \A f \in disk : f.into <= morning /\ f.photo.of <= morning
  /\ taking # <<>> => taking[1].into <= morning /\ taking[1].photo.of <= morning

\* The camera's thread takes them in the order they were asked for: while one of an earlier
\* morning waits or is being taken, none of this morning's is on the disk, and none that
\* follows one of this morning's is of an earlier.
InOrder ==
  /\ \A i, j \in DOMAIN queued : i < j /\ queued[i].of = morning => queued[j].of = morning
  /\ taking # <<>> /\ taking[1].photo.of = morning => \A i \in DOMAIN queued : queued[i].of = morning
  /\ (\E f \in disk : f.photo.of = morning) =>
       /\ \A i \in DOMAIN queued : queued[i].of = morning
       /\ taking # <<>> => taking[1].photo.of = morning

CameraInv == CameraType /\ NoneAhead /\ InOrder /\ PhotosKept

\* The first morning has asked for no photo.
LEMMA CameraInit == Init => CameraInv
  <1>1. SUFFICES ASSUME Init PROVE CameraInv
    OBVIOUS
  <1>2. /\ morning = 1 /\ folder = 1 /\ asked = 0 /\ queued = <<>> /\ taking = <<>> /\ disk = {}
        /\ jammed = FALSE
    BY <1>1 DEF Init
  <1>3. CameraType /\ NoneAhead /\ InOrder
    BY <1>2 DEF CameraType, NoneAhead, InOrder
  <1>4. PhotosKept
    BY <1>2 DEF PhotosKept
  <1>5. QED BY <1>3, <1>4 DEF CameraInv

\* Most actions are nothing to the camera.
LEMMA CameraStill == ASSUME CameraInv, UNCHANGED <<morning, camera>> PROVE CameraInv'
  BY DEF CameraInv, CameraType, NoneAhead, InOrder, PhotosKept, camera

\* A new morning has asked for nothing, and whatever is on its way is of one before.
LEMMA CameraMorning == ASSUME CameraInv, NewMorning PROVE CameraInv'
  <1>1. /\ morning \in Nat /\ morning' = morning + 1 /\ folder' = morning + 1 /\ asked' = 0
        /\ UNCHANGED <<queued, taking, disk, jammed>>
    BY DEF CameraInv, CameraType, NewMorning, FileInto
  <1>2. /\ queued \in Seq(Photos) /\ disk \subseteq Files
        /\ \A i \in DOMAIN queued : queued[i] \in Photos
        /\ taking # <<>> => taking[1] \in Files
    BY DEF CameraInv, CameraType
  <1>3. CameraType'
    BY <1>1 DEF CameraInv, CameraType
  <1>4. NoneAhead'
    BY <1>1, <1>2 DEF CameraInv, NoneAhead, Photos, Files
  <1>5. InOrder'
    <2>1. \A i \in DOMAIN queued : queued[i].of # morning'
      BY <1>1, <1>2 DEF CameraInv, NoneAhead, Photos
    <2>2. \A f \in disk : f.photo.of # morning'
      BY <1>1, <1>2 DEF CameraInv, NoneAhead, Photos, Files
    <2>3. taking # <<>> => taking[1].photo.of # morning'
      BY <1>1, <1>2 DEF CameraInv, NoneAhead, Photos, Files
    <2>4. QED BY <1>1, <2>1, <2>2, <2>3 DEF InOrder
  <1>6. PhotosKept'
    BY <1>1 DEF PhotosKept
  <1>7. QED BY <1>3, <1>4, <1>5, <1>6 DEF CameraInv

\* A photo asked for waits behind all the others.
LEMMA CameraAsked ==
  ASSUME CameraInv, morning' = morning, asked' = asked + 1,
         queued' = Append(queued, [of |-> morning, n |-> asked + 1]),
         UNCHANGED <<folder, taking, disk, jammed>>
  PROVE  CameraInv'
  <1> DEFINE new == [of |-> morning, n |-> asked + 1]
  <1> DEFINE last == Len(queued) + 1
  <1>1. /\ morning \in Nat /\ asked \in Nat /\ queued \in Seq(Photos) /\ new \in Photos
        /\ new.of = morning
    BY DEF CameraInv, CameraType, Photos
  <1>2. /\ last \in Nat /\ DOMAIN queued = 1 .. last - 1 /\ DOMAIN queued' = 1 .. last
        /\ queued'[last] = new /\ \A i \in 1 .. last - 1 : queued'[i] = queued[i]
        /\ queued' \in Seq(Photos)
    BY <1>1
  <1> HIDE DEF new, last
  <1>3. CameraType'
    BY <1>1, <1>2 DEF CameraInv, CameraType
  <1>4. \A i \in DOMAIN queued' : i = last \/ i \in DOMAIN queued
    BY <1>2
  <1>5. NoneAhead'
    BY <1>1, <1>2, <1>4 DEF CameraInv, NoneAhead
  <1>6. InOrder'
    BY <1>1, <1>2, <1>4 DEF CameraInv, InOrder
  <1>7. PhotosKept'
    <2>1. ASSUME ~jammed, NEW n \in 1 .. asked + 1
          PROVE  \/ \E i \in DOMAIN queued' : queued'[i] = [of |-> morning, n |-> n]
                 \/ [photo |-> [of |-> morning, n |-> n], into |-> morning] \in Range(taking) \cup disk
      <3>1. CASE n = asked + 1
        BY <1>1, <1>2, <3>1 DEF new
      <3>2. CASE n \in 1 .. asked
        <4>1. \/ \E i \in DOMAIN queued : queued[i] = [of |-> morning, n |-> n]
              \/ [photo |-> [of |-> morning, n |-> n], into |-> morning] \in Range(taking) \cup disk
          BY <2>1, <3>2 DEF CameraInv, PhotosKept, Range
        <4>2. \A i \in DOMAIN queued : i \in DOMAIN queued' /\ queued'[i] = queued[i]
          BY <1>2
        <4>3. QED BY <4>1, <4>2
      <3>3. QED BY <1>1, <2>1, <3>1, <3>2
    <2>2. QED BY <2>1 DEF PhotosKept, Range
  <1>8. QED BY <1>3, <1>5, <1>6, <1>7 DEF CameraInv

\* The camera's thread takes the one that waited longest, into the folder there is.
LEMMA CameraTakes == ASSUME CameraInv, TakePhoto PROVE CameraInv'
  <1> DEFINE n == Len(queued)
  <1> DEFINE file == [photo |-> Head(queued), into |-> folder]
  <1>1. /\ morning \in Nat /\ morning' = morning /\ folder = morning /\ queued \in Seq(Photos)
        /\ queued # <<>> /\ taking = <<>> /\ taking' = <<file>> /\ queued' = Tail(queued)
        /\ UNCHANGED <<folder, disk, jammed, asked>> /\ disk \subseteq Files
    BY DEF CameraInv, CameraType, TakePhoto, CameraStep, count
  <1>2. /\ n \in Nat \ {0} /\ DOMAIN queued = 1 .. n /\ DOMAIN queued' = 1 .. n - 1
        /\ queued[1] \in Photos /\ Head(queued) = queued[1] /\ queued' \in Seq(Photos)
        /\ \A i \in 1 .. n - 1 : queued'[i] = queued[i + 1] /\ i + 1 \in 1 .. n
    BY <1>1
  <1>3. /\ file \in Files /\ taking' \in Seq(Files) /\ Len(taking') = 1 /\ taking'[1] = file
        /\ taking' # <<>> /\ file.photo = queued[1] /\ file.into = morning
        /\ DOMAIN taking' = {1}
    BY <1>1, <1>2 DEF Files
  <1> HIDE DEF n, file
  <1>4. CameraType'
    BY <1>1, <1>2, <1>3 DEF CameraInv, CameraType
  <1>5. NoneAhead'
    BY <1>1, <1>2, <1>3 DEF CameraInv, NoneAhead
  <1>6. InOrder'
    <2>1. \A i, j \in DOMAIN queued' : i < j /\ queued'[i].of = morning => queued'[j].of = morning
      BY <1>1, <1>2 DEF CameraInv, InOrder
    <2>2. taking'[1].photo.of = morning => \A i \in DOMAIN queued' : queued'[i].of = morning
      BY <1>1, <1>2, <1>3 DEF CameraInv, InOrder
    <2>3. (\E f \in disk : f.photo.of = morning) => \A i \in DOMAIN queued : queued[i].of = morning
      BY DEF CameraInv, InOrder
    <2>4. QED BY <1>1, <1>2, <1>3, <2>1, <2>2, <2>3 DEF InOrder
  <1>7. PhotosKept'
    <2>1. ASSUME ~jammed, NEW k \in 1 .. asked
          PROVE  \/ \E i \in DOMAIN queued' : queued'[i] = [of |-> morning, n |-> k]
                 \/ [photo |-> [of |-> morning, n |-> k], into |-> morning] \in {file} \cup disk
      <3>1. \/ \E i \in DOMAIN queued : queued[i] = [of |-> morning, n |-> k]
            \/ [photo |-> [of |-> morning, n |-> k], into |-> morning] \in disk
        BY <1>1, <2>1 DEF CameraInv, PhotosKept, Range
      <3>2. queued[1] = [of |-> morning, n |-> k] =>
              [photo |-> [of |-> morning, n |-> k], into |-> morning] = file
        BY <1>1, <1>2 DEF file
      <3>3. ASSUME NEW i \in DOMAIN queued, i # 1
            PROVE  i - 1 \in DOMAIN queued' /\ queued'[i - 1] = queued[i]
        <4>1. i - 1 \in 1 .. n - 1 /\ (i - 1) + 1 = i
          BY <1>2, <3>3
        <4>2. QED BY <1>2, <4>1
      <3>4. QED BY <3>1, <3>2, <3>3
    <2>2. Range(taking') = {file}
      BY <1>1, <1>3 DEF Range
    <2>3. QED BY <1>1, <2>1, <2>2 DEF PhotosKept, Range
  <1>8. QED BY <1>4, <1>5, <1>6, <1>7 DEF CameraInv

\* It is renamed into its folder over one of the same number, which is none of this morning's
\* unless it is the same photo.
LEMMA CameraKeeps == ASSUME CameraInv, KeepPhoto PROVE CameraInv'
  <1> DEFINE file == taking[1]
  <1>1. /\ morning \in Nat /\ morning' = morning /\ folder = morning /\ queued \in Seq(Photos)
        /\ taking # <<>> /\ file \in Files /\ Range(taking) = {file} /\ taking' = <<>>
        /\ UNCHANGED <<folder, queued, jammed, asked>> /\ disk \subseteq Files
    BY DEF CameraInv, CameraType, KeepPhoto, CameraStep, count, Range
  <1>2. /\ disk' \subseteq disk \cup {file} /\ file \in disk'
        /\ \A f \in disk : (f.into = file.into /\ f.photo.n = file.photo.n) \/ f \in disk'
    BY DEF KeepPhoto
  <1> HIDE DEF file
  <1>3. CameraType'
    BY <1>1, <1>2 DEF CameraInv, CameraType
  <1>4. NoneAhead'
    BY <1>1, <1>2 DEF CameraInv, NoneAhead, file
  <1>5. InOrder'
    BY <1>1, <1>2 DEF CameraInv, InOrder, file
  <1>6. PhotosKept'
    <2>1. ASSUME ~jammed, NEW k \in 1 .. asked
          PROVE  \/ [of |-> morning, n |-> k] \in Range(queued)
                 \/ [photo |-> [of |-> morning, n |-> k], into |-> morning] \in disk'
      <3> DEFINE this == [photo |-> [of |-> morning, n |-> k], into |-> morning]
      <3>1. [of |-> morning, n |-> k] \in Range(queued) \/ this \in {file} \cup disk
        BY <1>1, <2>1 DEF CameraInv, PhotosKept
      <3>2. CASE this \in disk /\ this \notin disk'
        <4>1. file.into = morning /\ file.photo.n = k
          BY <1>2, <3>2
        <4>2. this.photo.of = morning
          OBVIOUS
        <4>3. file.photo.of = morning
          BY <1>1, <3>2, <4>2 DEF CameraInv, InOrder, file
        <4>4. file = this
          BY <1>1, <4>1, <4>3 DEF Files, Photos
        <4>5. QED BY <1>2, <3>2, <4>4
      <3>3. QED BY <1>2, <3>1, <3>2
    <2>2. QED BY <1>1, <2>1 DEF PhotosKept
  <1>7. QED BY <1>3, <1>4, <1>5, <1>6 DEF CameraInv

\* A camera that failed promises nothing any more.
LEMMA CameraLost == ASSUME CameraInv, CameraFails PROVE CameraInv'
  <1>1. /\ jammed' = TRUE /\ taking' = <<>> /\ morning' = morning
        /\ UNCHANGED <<folder, queued, disk, asked>>
    BY DEF CameraFails, CameraStep, count
  <1>2. QED BY <1>1 DEF CameraInv, CameraType, NoneAhead, InOrder, PhotosKept

\* Each action keeps it.
LEMMA CameraNext == ASSUME CameraInv, [Next]_vars PROVE CameraInv'
  <1>1. ASSUME Px4Moves \/ FollowInAir \/ FollowPosition PROVE CameraInv'
    BY <1>1, CameraStill DEF Px4Moves, FollowInAir, FollowPosition, count
  <1>2. ASSUME NEW k \in DOMAIN pending, LinkStep(k) PROVE CameraInv'
    BY <1>2, CameraStill DEF LinkStep, count
  <1>3. CASE Link \/ \E k \in DOMAIN pending : Refusal(k)
    BY <1>2, <1>3 DEF Link, Refusal, Airborne, SeesTakeoff, SeesItOver, Hold, ReturnToLaunch, Gimbal
  <1>4. CASE BeginMotion \/ BeginLook
    BY <1>4, CameraStill DEF BeginMotion, BeginLook
  <1>5. CASE FinishMotion \/ Cut \/ FindsRefusal \/ TimesOut \/ ParkRefused
    BY <1>5, CameraStill DEF FinishMotion, Cut, FindsRefusal, TimesOut, ParkRefused, Crash, count
  <1>6. CASE FinishLook
    <2>1. morning' = morning
      BY <1>6 DEF FinishLook, count
    <2>2. QED BY <1>6, <2>1, CameraStill, CameraAsked DEF FinishLook
  <1>7. CASE Restart \/ Parked
    BY <1>7, CameraStill, CameraMorning DEF Restart, Parked
  <1>8. CASE TakePhoto \/ KeepPhoto \/ CameraFails
    BY <1>8, CameraTakes, CameraKeeps, CameraLost
  <1>9. CASE UNCHANGED vars
    BY <1>9, CameraStill DEF vars, count
  <1>10. QED BY <1>1, <1>3, <1>4, <1>5, <1>6, <1>7, <1>8, <1>9 DEF Next

\* Every photo this morning asked for waits, is being taken or is in this morning's own folder,
\* across restarts that change the folder under the camera's thread (camera.py:78).
THEOREM NoPhotoLost == Spec => []PhotosKept
  <1>1. CameraInv => PhotosKept
    BY DEF CameraInv
  <1>2. QED BY <1>1, CameraInit, CameraNext, PTL DEF Spec

-----------------------------------------------------------------------------
(***************************************************************************)
(* The airframe: the invariant.                                            *)
(***************************************************************************)
Stages   == {"asked", "waits", "rises", "failed"}
Commands == [does : {"fly", "climb", "return", "hold", "gimbal", "look"}, place : Places \cup {""},
             above : Heights, stage : Stages]
High     == Heights \ {0, LIFT_OFF}

Flight(c) == c.does \in {"fly", "climb"}
Moves(c)  == c.does # "gimbal"

\* A flight is to somewhere well above the ground, a return to the pad.
Sensible(c) ==
  /\ c.does = "fly" => c.place \in Places
  /\ Flight(c) => c.above \in High
  /\ c.does = "return" => c.place = "shed" /\ c.above = 0
  /\ c.stage \in {"waits", "rises"} => Flight(c)

TypeInv ==
  /\ mode \in {"landed", "takeoff", "goto", "hold", "return"}
  /\ goal \in [place : Places \cup {Nowhere}, above : Heights]
  /\ at \in Places \cup {Nowhere} /\ up \in Heights /\ inAir \in BOOLEAN /\ latest \in BOOLEAN
  /\ pending \in Seq(Commands) /\ \A k \in DOMAIN pending : Sensible(pending[k]) /\ pending[k].does # "look"
  /\ phase \in {"flying", "parking", "crashed"}
  /\ \/ current = <<>>
     \/ \E a \in Commands : current = <<a>> /\ Sensible(a) /\ a.does \in MOTIONS \cup {"look"}
  /\ position \in Places /\ altitude \in Heights \ {LIFT_OFF} /\ answered \in MOTIONS \cup {"interrupted"}
  /\ refused \in BOOLEAN /\ astray \in BOOLEAN

\* What PX4 does, how high it is, and what has been heard of it.
AirInv ==
  /\ mode = "landed" => up = 0
  /\ mode \in {"hold", "goto", "return"} => up # 0
  /\ mode = "takeoff" => goal.above \in High
  /\ mode = "goto" => goal.above # 0
  /\ mode = "return" => goal.place = "shed" /\ goal.above = 0
  /\ up = 0 => at = "shed"
  /\ up \in High => inAir = TRUE /\ latest = TRUE

\* While the drone is parked only its return is left, and it is down before it is heard of.
ParkInv == phase = "parking" =>
  /\ \A k \in DOMAIN pending : pending[k].does = "return"
  /\ ~astray =>
       /\ up # 0 => inAir = TRUE /\ latest = TRUE
       /\ mode = "takeoff" => up # 0

RefusedInv == ~refused => \A k \in DOMAIN pending : pending[k].stage # "failed"

Newest       == pending[Len(pending)]
HoldAfter(k) == \E j \in DOMAIN pending : j > k /\ pending[j].does = "hold"

\* The newest command is that of the motion in hand.
Mine(k) ==
  /\ InHand(MOTIONS) /\ k \in DOMAIN pending /\ k = Len(pending)
  /\ pending[k].does = current[1].does /\ pending[k].place = current[1].place
  /\ pending[k].above = current[1].above

\* What a flight told done still sends: to stay where the drone is.
Stays(c) == c.stage \in {"asked", "rises"} /\ c.above = up /\ (c.does = "fly" => c.place = at)

\* What is left of motions before the one in hand: of those cut, with their hold still to come, no
\* takeoff; of those done, nothing that moves the drone.
LeftInv == \A k \in DOMAIN pending :
  /\ Flight(pending[k]) /\ HoldAfter(k) => pending[k].stage = "asked" /\ inAir = TRUE /\ up \in High
  /\ Flight(pending[k]) /\ ~HoldAfter(k) => Mine(k) \/ Stays(pending[k])
  /\ pending[k].does = "return" /\ ~HoldAfter(k) => Mine(k) \/ up = 0

Alone      == \A k \in DOMAIN pending : Moves(pending[k]) => k = Len(pending)
OnlyRising == \A k \in DOMAIN pending : Moves(pending[k]) => pending[k].stage = "rises" /\ Stays(pending[k])
Quiet      == \A k \in DOMAIN pending : ~Moves(pending[k])

Resting    == mode = "goto" /\ goal.above = up /\ goal.place = at
SentTo(a)  == mode = "goto" /\ goal.above = a.above /\ goal.place = IF a.does = "fly" THEN a.place ELSE at

\* How far the motion in hand has come: asked for, taking off, flying, or come to nothing.
Waiting  == Mine(Len(pending)) /\ Newest.stage = "asked"
Lifting  == Mine(Len(pending)) /\ Alone /\ goal.above = Newest.above /\
              \/ Newest.stage = "waits" /\ mode = "takeoff" /\ up \in {0, LIFT_OFF}
              \/ Newest.stage = "rises" /\ mode = "takeoff"
              \/ Newest.stage = "rises" /\ mode = "hold" /\ up = goal.above
Flying   == OnlyRising /\ Flight(current[1]) /\ (SentTo(current[1]) \/ Resting)
Homing   == OnlyRising /\ current[1].does = "return" /\ (mode = "return" \/ Resting)
Grounded == Quiet /\ mode = "landed"

HandInv == InHand(MOTIONS) => Waiting \/ Lifting \/ Flying \/ Homing \/ Grounded

\* PX4 takes off for the motion in hand, or has done for one told done.
TakeoffInv ==
  /\ mode = "takeoff" =>
       \/ InHand(MOTIONS) /\ Lifting
       \/ goal.above = up /\ \E k \in DOMAIN pending : pending[k].stage = "rises"
  /\ up = LIFT_OFF => mode = "takeoff"

\* Before the motion in hand is sent, and with none, PX4 stays, or is about to be told to.
Calm ==
  \/ \E k \in DOMAIN pending : pending[k].does = "hold"
  \/ \E k \in DOMAIN pending : pending[k].stage = "rises" /\ mode # "takeoff"
  \/ mode \in {"landed", "hold"} \/ Resting \/ (mode = "takeoff" /\ goal.above = up)
CalmInv == ~InHand(MOTIONS) \/ Waiting => Calm

\* With no motion in hand and the last one done, the drone is where that one ends.
RestInv == ~InHand(MOTIONS) =>
  /\ answered = "return" => mode = "landed" /\ position = "shed" /\ altitude = 0
  /\ answered \in {"fly", "climb"} => up = altitude /\ up \in High
  /\ answered = "fly" => at = position

\* With the last one cut, there is a hold to come and nothing after it, or PX4 has had it.
HaltInv == ~InHand(MOTIONS) /\ answered = "interrupted" =>
  \/ \E k \in DOMAIN pending : /\ pending[k].does = "hold"
                               /\ \A j \in DOMAIN pending : j > k => ~Moves(pending[j])
  \/ Quiet /\ mode \in {"landed", "hold"}

FlightInv == LeftInv /\ HandInv /\ TakeoffInv /\ CalmInv /\ RestInv /\ HaltInv

Good == phase = "flying" /\ ~refused /\ ~astray

IInv == TypeInv /\ AirInv /\ ParkInv /\ RefusedInv /\ (Good => FlightInv)

-----------------------------------------------------------------------------
(***************************************************************************)
(* Heights, and what the farm has in hand.                                 *)
(***************************************************************************)
\* The ground, just above it, and higher.
LEMMA Levels ==
  /\ 0 \in Heights /\ LIFT_OFF \in Heights /\ CRUISE_M \in High /\ LIFT_OFF # 0
  /\ 0 \notin High /\ LIFT_OFF \notin High /\ High \subseteq Heights /\ Heights \subseteq Nat
  /\ \A h \in Heights : h = 0 \/ h = LIFT_OFF \/ h \in High
  /\ \A h \in Heights : (h > 0) = (h # 0)
  BY DEF Heights, High, LIFT_OFF, CRUISE_M

\* What the farm has in hand.
LEMMA Hands ==
  ASSUME TypeInv
  PROVE  /\ current = <<>> => ~InHand(MOTIONS) /\ ~InHand({"look"})
         /\ current # <<>> =>
              /\ current[1] \in Commands /\ Sensible(current[1]) /\ current[1].does \in MOTIONS \cup {"look"}
              /\ InHand(MOTIONS) <=> current[1].does \in MOTIONS
              /\ InHand({"look"}) <=> current[1].does = "look"
  <1>1. CASE current = <<>>
    BY <1>1 DEF InHand
  <1>2. CASE current # <<>>
    <2>1. PICK a \in Commands : current = <<a>> /\ Sensible(a) /\ a.does \in MOTIONS \cup {"look"}
      BY <1>2 DEF TypeInv
    <2>2. DOMAIN current = {1} /\ current[1] = a
      BY <2>1
    <2>3. QED BY <1>2, <2>1, <2>2 DEF InHand
  <1>3. QED BY <1>1, <1>2

\* What the telemetry has caught up with.
LEMMA WhatIsCaught ==
  ASSUME TypeInv, Caught
  PROVE  latest = inAir /\ (inAir = TRUE => up # 0) /\ (inAir = FALSE => up = 0)
  <1>1. (up > 0) <=> up # 0
    BY Levels DEF TypeInv
  <1>2. QED BY <1>1 DEF Caught, TypeInv

-----------------------------------------------------------------------------
(***************************************************************************)
(* The commands on the link.                                               *)
(***************************************************************************)
\* A coroutine comes to another stage.
LEMMA Staged ==
  ASSUME TypeInv, NEW k \in DOMAIN pending, NEW s \in Stages, Stage(k, s)
  PROVE  /\ pending' \in Seq(Commands) /\ Len(pending') = Len(pending) /\ DOMAIN pending' = DOMAIN pending
         /\ \A j \in DOMAIN pending : j # k => pending'[j] = pending[j]
         /\ pending'[k].does = pending[k].does /\ pending'[k].place = pending[k].place
         /\ pending'[k].above = pending[k].above /\ pending'[k].stage = s
  <1>1. pending \in Seq(Commands) /\ pending[k] \in Commands
    BY DEF TypeInv
  <1>2. [pending[k] EXCEPT !.stage = s] \in Commands
    BY <1>1 DEF Commands
  <1>3. pending' = [pending EXCEPT ![k] = [pending[k] EXCEPT !.stage = s]]
    BY DEF Stage
  <1>4. pending'[k] = [pending[k] EXCEPT !.stage = s]
    BY <1>1, <1>3
  <1>5. /\ pending'[k].does = pending[k].does /\ pending'[k].place = pending[k].place
        /\ pending'[k].above = pending[k].above /\ pending'[k].stage = s
    BY <1>1, <1>4 DEF Commands
  <1>6. /\ pending' \in Seq(Commands) /\ Len(pending') = Len(pending) /\ DOMAIN pending' = DOMAIN pending
        /\ \A j \in DOMAIN pending : j # k => pending'[j] = pending[j]
    <2> DEFINE r == [pending[k] EXCEPT !.stage = s]
    <2>1. r \in Commands /\ pending' = [pending EXCEPT ![k] = r]
      BY <1>2, <1>3
    <2> HIDE DEF r
    <2>2. QED BY <1>1, <2>1
  <1>7. QED BY <1>5, <1>6

\* Without one that is done the others keep their order.
LEMMA Shorter ==
  ASSUME TypeInv, NEW k \in DOMAIN pending, Done(k)
  PROVE  /\ pending' \in Seq(Commands) /\ DOMAIN pending \subseteq Nat /\ DOMAIN pending' \subseteq Nat
         /\ \A j \in DOMAIN pending' :
              Was(k, j) \in DOMAIN pending /\ Was(k, j) # k /\ pending'[j] = pending[Was(k, j)]
         /\ \A i, j \in DOMAIN pending' : i < j <=> Was(k, i) < Was(k, j)
         /\ \A i \in DOMAIN pending : i # k => \E j \in DOMAIN pending' : Was(k, j) = i
         /\ k # Len(pending) => Len(pending') \in DOMAIN pending' /\ Was(k, Len(pending')) = Len(pending)
  <1> DEFINE n == Len(pending)
  <1>1. /\ n \in Nat /\ DOMAIN pending = 1 .. n /\ k \in 1 .. n
        /\ \A j \in 1 .. n : pending[j] \in Commands
    BY DEF TypeInv
  <1>2. pending' = [j \in 1 .. n - 1 |-> pending[Was(k, j)]]
    BY DEF Done
  <1> HIDE DEF n
  <1>3. \A j \in 1 .. n - 1 : Was(k, j) \in 1 .. n /\ Was(k, j) # k
    BY <1>1 DEF Was
  <1>4. n - 1 \in Nat
    BY <1>1
  <1>5. pending' \in [1 .. n - 1 -> Commands]
    BY <1>1, <1>2, <1>3
  <1>6. pending' \in Seq(Commands) /\ Len(pending') = n - 1 /\ DOMAIN pending' = 1 .. n - 1
    BY <1>4, <1>5
  <1>7. \A i, j \in 1 .. n - 1 : i < j <=> Was(k, i) < Was(k, j)
    BY <1>1 DEF Was
  <1>8. ASSUME NEW i \in 1 .. n, i # k PROVE \E j \in 1 .. n - 1 : Was(k, j) = i
    <2>1. CASE i < k
      BY <1>1, <2>1 DEF Was
    <2>2. CASE i > k
      <3>1. i - 1 \in 1 .. n - 1 /\ Was(k, i - 1) = i
        BY <1>1, <2>2 DEF Was
      <3>2. QED BY <3>1
    <2>3. QED BY <1>1, <1>8, <2>1, <2>2
  <1>9. k # n => n - 1 \in 1 .. n - 1 /\ Was(k, n - 1) = n
    BY <1>1 DEF Was
  <1>10. QED BY <1>1, <1>2, <1>3, <1>6, <1>7, <1>8, <1>9 DEF n

\* Commands asked for come after all the others.
LEMMA AskedOne ==
  ASSUME TypeInv, NEW c \in Commands, Ask(<<c>>)
  PROVE  /\ pending' \in Seq(Commands) /\ Len(pending') = Len(pending) + 1
         /\ Len(pending) \in Nat /\ DOMAIN pending = 1 .. Len(pending)
         /\ DOMAIN pending' = 1 .. Len(pending) + 1
         /\ \A j \in DOMAIN pending : pending'[j] = pending[j]
         /\ pending'[Len(pending) + 1] = c
  <1>1. pending \in Seq(Commands) /\ <<c>> \in Seq(Commands) /\ Len(<<c>>) = 1
    BY DEF TypeInv
  <1>2. pending' = pending \o <<c>>
    BY DEF Ask
  <1>3. QED BY <1>1, <1>2

\* The same of two at once: a motion is asked for with the camera's angle before it.
LEMMA AskedTwo ==
  ASSUME TypeInv, NEW c \in Commands, NEW d \in Commands, Ask(<<c, d>>)
  PROVE  /\ pending' \in Seq(Commands) /\ Len(pending') = Len(pending) + 2
         /\ Len(pending) \in Nat /\ DOMAIN pending = 1 .. Len(pending)
         /\ DOMAIN pending' = 1 .. Len(pending) + 2
         /\ \A j \in DOMAIN pending : pending'[j] = pending[j]
         /\ pending'[Len(pending) + 1] = c /\ pending'[Len(pending) + 2] = d
  <1>1. pending \in Seq(Commands) /\ <<c, d>> \in Seq(Commands) /\ Len(<<c, d>>) = 2
    BY DEF TypeInv
  <1>2. pending' = pending \o <<c, d>>
    BY DEF Ask
  <1>3. QED BY <1>1, <1>2

\* What is said of the commands and the motion in hand alone.
LEMMA SameCommands ==
  ASSUME UNCHANGED <<pending, current>>
  PROVE  /\ InHand(MOTIONS)' <=> InHand(MOTIONS)
         /\ Newest' = Newest
         /\ \A k : Mine(k)' <=> Mine(k)
         /\ \A k : HoldAfter(k)' <=> HoldAfter(k)
         /\ Alone' <=> Alone
         /\ Quiet' <=> Quiet
         /\ Waiting' <=> Waiting
  <1>1. /\ InHand(MOTIONS)' <=> InHand(MOTIONS)
        /\ Newest' = Newest
        /\ \A k : HoldAfter(k)' <=> HoldAfter(k)
        /\ Alone' <=> Alone
        /\ Quiet' <=> Quiet
    BY DEF InHand, Newest, HoldAfter, Alone, Quiet, Moves
  <1>2. \A k : Mine(k)' <=> Mine(k)
    BY <1>1 DEF Mine
  <1>3. Waiting' <=> Waiting
    BY <1>1 DEF Waiting, Mine, Newest
  <1>4. QED BY <1>1, <1>2, <1>3

\* A motion of the farm's is none of the camera's.
LEMMA MineMoves ==
  ASSUME TypeInv, NEW k, Mine(k)
  PROVE  /\ k \in DOMAIN pending /\ k = Len(pending) /\ pending[k] = Newest /\ Moves(pending[k])
         /\ pending[k].does \in MOTIONS /\ pending[k].does = current[1].does /\ current # <<>>
         /\ pending[k].place = current[1].place /\ pending[k].above = current[1].above
  <1>1. InHand(MOTIONS) /\ current # <<>>
    BY Hands DEF Mine
  <1>2. current[1].does \in MOTIONS
    BY <1>1, Hands
  <1>3. QED BY <1>1, <1>2 DEF Mine, Moves, Newest, MOTIONS

\* A takeoff under way is the only command but the camera's.
LEMMA AloneLeft ==
  ASSUME TypeInv, Alone, Mine(Len(pending))
  PROVE  \A k \in DOMAIN pending : Moves(pending[k]) => Mine(k) /\ ~HoldAfter(k)
  <1>1. SUFFICES ASSUME NEW k \in DOMAIN pending, Moves(pending[k]) PROVE Mine(k) /\ ~HoldAfter(k)
    OBVIOUS
  <1>2. k = Len(pending) /\ DOMAIN pending \subseteq Nat /\ k \in Nat
    BY <1>1 DEF Alone, TypeInv
  <1>3. ~HoldAfter(k)
    <2>1. SUFFICES ASSUME NEW j \in DOMAIN pending, j > k, pending[j].does = "hold" PROVE FALSE
      BY DEF HoldAfter
    <2>2. j = Len(pending)
      BY <2>1 DEF Alone, Moves
    <2>3. QED BY <1>2, <2>1, <2>2
  <1>4. QED BY <1>2, <1>3

-----------------------------------------------------------------------------
(***************************************************************************)
(* PX4 and its telemetry.                                                  *)
(***************************************************************************)
\* PX4 takes off, for the motion in hand: nothing else is left that asks for anything.
LEMMA TakesOff ==
  ASSUME TypeInv, AirInv, FlightInv, mode = "takeoff", InHand(MOTIONS), Lifting,
         UNCHANGED <<goal, heard, pending, sim>>,
         \/ up = 0 /\ up' = LIFT_OFF /\ mode' = mode
         \/ Newest.stage # "waits" /\ up' = goal.above /\ mode' = mode
         \/ up = goal.above /\ up' = up /\ mode' = "hold"
  PROVE  FlightInv'
  <1>1. UNCHANGED <<pending, current, goal>>
    BY DEF sim
  <1>2. InHand(MOTIONS)' /\ Mine(Len(pending)) /\ Alone /\ goal.above \in High
    BY <1>1, SameCommands DEF Lifting, AirInv
  <1>3. \A k \in DOMAIN pending : Moves(pending[k]) => Mine(k) /\ ~HoldAfter(k)
    BY <1>2, AloneLeft
  <1>4. LeftInv'
    BY <1>1, <1>3, SameCommands DEF LeftInv, Flight, Moves
  <1>5. Lifting'
    BY <1>1, <1>2, SameCommands, Levels DEF Lifting
  <1>6. HandInv' /\ TakeoffInv'
    BY <1>2, <1>5, Levels DEF HandInv, TakeoffInv, FlightInv
  <1>7. ~Waiting'
    BY <1>1, <1>2, SameCommands DEF Waiting, Lifting
  <1>8. CalmInv' /\ RestInv' /\ HaltInv'
    BY <1>2, <1>7 DEF CalmInv, RestInv, HaltInv
  <1>9. QED BY <1>4, <1>6, <1>8 DEF FlightInv

\* PX4 flies where the motion in hand sent it; with any other before it, it stays.
LEMMA FliesOn ==
  ASSUME TypeInv, AirInv, FlightInv, RefusedInv, ~refused, Travels,
         UNCHANGED <<heard, pending, sim>>
  PROVE  FlightInv'
  <1>1. UNCHANGED <<pending, current, goal>> /\ mode \in {"goto", "return"} /\ up # 0 /\ up \in Heights
    BY Levels DEF sim, Travels, TypeInv
  <1>2. /\ ~\E k \in DOMAIN pending : pending[k].does = "hold"
        /\ ~\E k \in DOMAIN pending : pending[k].stage = "rises"
    BY <1>1 DEF Travels, Unhurried, Unfinished, RefusedInv
  <1>3. CASE Resting
    <2>1. UNCHANGED <<mode, at, up>>
      BY <1>1, <1>3 DEF Travels, Resting, TypeInv
    <2>2. UNCHANGED <<px4, heard, pending, sim>>
      BY <1>1, <2>1 DEF px4
    <2>3. QED BY <2>2 DEF px4, heard, sim, FlightInv, LeftInv, HandInv, TakeoffInv, CalmInv, RestInv, HaltInv,
            Flight, Moves, HoldAfter, Mine, InHand, Stays, Newest, Waiting, Lifting, Flying, Homing,
            Grounded, Alone, OnlyRising, Quiet, Resting, SentTo, Calm
  <1>4. CASE ~Resting
    <2>1. InHand(MOTIONS) /\ ~Waiting
      BY <1>1, <1>2, <1>4 DEF FlightInv, CalmInv, Calm
    <2>2. \/ OnlyRising /\ Flight(current[1]) /\ SentTo(current[1])
          \/ OnlyRising /\ current[1].does = "return" /\ mode = "return"
      BY <1>1, <1>4, <2>1 DEF FlightInv, HandInv, Lifting, Flying, Homing, Grounded
    <2>3. Quiet /\ Quiet'
      BY <1>1, <1>2, <2>2, SameCommands DEF OnlyRising, Quiet
    <2>4. current[1].above \in Heights /\ (Flight(current[1]) => current[1].above \in High)
      BY <2>1, Hands DEF Sensible, Commands
    <2>5. LeftInv'
      BY <1>1, <2>3 DEF LeftInv, Quiet, Moves, Flight
    <2>6. OnlyRising' /\ InHand(MOTIONS)' /\ ~Waiting'
      BY <1>1, <2>1, <2>3, SameCommands DEF OnlyRising, Quiet
    <2>7. HandInv' /\ mode' # "takeoff"
      <3>1. CASE Flight(current[1]) /\ SentTo(current[1])
        <4>1. mode' = "goto" /\ (goal.place = at => at' = at)
          BY <1>1, <3>1 DEF SentTo, Travels
        <4>2. SentTo(current[1])' /\ Flight(current[1])'
          BY <1>1, <3>1, <4>1 DEF SentTo, Flight
        <4>3. QED BY <2>6, <4>1, <4>2 DEF HandInv, Flying
      <3>2. CASE current[1].does = "return" /\ mode = "return"
        <4>1. mode' \in {"return", "landed"}
          BY <1>1, <3>2 DEF Travels
        <4>2. QED BY <1>1, <2>3, <2>6, <3>2, <4>1 DEF HandInv, Homing, Grounded
      <3>3. QED BY <2>2, <3>1, <3>2
    <2>8. up' # LIFT_OFF
      <3>1. up # LIFT_OFF
        BY <1>1 DEF FlightInv, TakeoffInv
      <3>2. goal.above # LIFT_OFF
        BY <2>2, <2>4, Levels DEF SentTo, AirInv
      <3>3. QED BY <3>1, <3>2 DEF Travels
    <2>9. TakeoffInv' /\ CalmInv' /\ RestInv' /\ HaltInv'
      BY <2>6, <2>7, <2>8 DEF TakeoffInv, CalmInv, RestInv, HaltInv
    <2>10. QED BY <2>5, <2>7, <2>9 DEF FlightInv
  <1>5. QED BY <1>3, <1>4

\* PX4 calls a takeoff over that a motion told done had asked for.
LEMMA StaysUp ==
  ASSUME TypeInv, AirInv, FlightInv, mode = "takeoff", ~(InHand(MOTIONS) /\ Lifting), mode' = "hold",
         up = goal.above, UNCHANGED <<goal, at, up, heard, pending, sim>>
  PROVE  FlightInv'
  <1>1. UNCHANGED <<pending, current, goal, at, up, inAir, latest, position, altitude, answered>>
    BY DEF sim, heard
  <1>2. LeftInv'
    BY <1>1, SameCommands DEF FlightInv, LeftInv, Flight, Stays
  <1>3. HandInv'
    BY <1>1, SameCommands DEF FlightInv, HandInv, Flying, Homing, Grounded, SentTo, Resting
  <1>4. TakeoffInv'
    BY <1>1, Levels DEF TakeoffInv, AirInv
  <1>5. CalmInv'
    BY DEF CalmInv, Calm
  <1>6. RestInv' /\ HaltInv'
    BY <1>1, SameCommands DEF FlightInv, RestInv, HaltInv, Moves
  <1>7. QED BY <1>2, <1>3, <1>4, <1>5, <1>6 DEF FlightInv

\* Each move of PX4's.
LEMMA Px4Flies == ASSUME IInv, Px4Moves PROVE IInv'
  <1>1. UNCHANGED <<goal, heard, pending, phase, sim, count, story>> /\ goal.above \in Heights /\ up \in Heights
    BY DEF Px4Moves, LiftsOff, Climbs, TakeoffOver, Travels, IInv, TypeInv
  <1>2. /\ mode' \in {"landed", "takeoff", "goto", "hold", "return"}
        /\ at' \in Places \cup {Nowhere} /\ up' \in Heights
    BY Levels DEF IInv, TypeInv, Px4Moves, LiftsOff, Climbs, TakeoffOver, Travels
  <1>3. TypeInv'
    BY <1>1, <1>2 DEF IInv, TypeInv, heard, sim, story
  <1>4. \/ mode = "takeoff" /\ mode' = "takeoff" /\ up = 0 /\ up' = LIFT_OFF /\ at' = at
        \/ /\ mode = "takeoff" /\ mode' = "takeoff" /\ up' = goal.above /\ at' = at /\ up # goal.above
           /\ up # 0 /\ Unhurried
        \/ mode = "takeoff" /\ mode' = "hold" /\ up' = up /\ at' = at /\ up = goal.above
        \/ mode \in {"goto", "return"} /\ Travels /\ up # 0 /\ Unhurried
    BY <1>1, Levels DEF Px4Moves, LiftsOff, Climbs, TakeoffOver, Travels
  <1>5. Unhurried /\ up # 0 => inAir = TRUE /\ latest = TRUE
    BY WhatIsCaught DEF Unhurried, IInv, TypeInv
  <1>6. AirInv'
    <2>1. CASE mode = "takeoff"
      BY <1>1, <1>4, <1>5, <2>1, Levels DEF IInv, AirInv, heard
    <2>2. CASE Travels /\ up # 0 /\ Unhurried /\ mode \in {"goto", "return"}
      BY <1>1, <1>5, <2>2, Levels DEF IInv, AirInv, heard, Travels
    <2>3. QED BY <1>4, <2>1, <2>2
  <1>7. ParkInv'
    <2>1. mode' = "takeoff" => mode = "takeoff"
      BY <1>4 DEF Travels
    <2>2. QED BY <1>1, <1>4, <1>5, <2>1, Levels DEF IInv, ParkInv, AirInv, heard, story
  <1>8. RefusedInv'
    BY <1>1 DEF IInv, RefusedInv, story
  <1>9. ASSUME Good' PROVE FlightInv'
    <2>1. Good /\ FlightInv /\ TypeInv /\ AirInv /\ RefusedInv /\ ~refused
      BY <1>1, <1>9 DEF Good, IInv, story
    <2>2. CASE mode = "takeoff" /\ InHand(MOTIONS) /\ Lifting
      <3>1. Unhurried => Newest.stage # "waits"
        <4>1. Len(pending) \in DOMAIN pending
          BY <2>2 DEF Lifting, Mine
        <4>2. QED BY <2>2, <4>1 DEF Unhurried, Newest
      <3>2. QED BY <1>1, <1>4, <2>1, <2>2, <3>1, TakesOff
    <2>3. CASE mode = "takeoff" /\ ~(InHand(MOTIONS) /\ Lifting)
      <3>1. goal.above = up
        BY <2>1, <2>3 DEF FlightInv, TakeoffInv
      <3>2. goal.above # 0
        BY <2>1, <2>3, Levels DEF AirInv
      <3>3. mode' = "hold" /\ up' = up /\ at' = at
        BY <1>4, <2>3, <3>1, <3>2
      <3>4. QED BY <1>1, <2>1, <2>3, <3>1, <3>3, StaysUp
    <2>4. CASE Travels
      BY <1>1, <2>1, <2>4, FliesOn
    <2>5. QED BY <1>4, <2>2, <2>3, <2>4
  <1>10. QED BY <1>3, <1>6, <1>7, <1>8, <1>9 DEF IInv

\* Hearing of it changes nothing but what was heard.
LEMMA TelemetryFollows == ASSUME IInv, FollowInAir \/ FollowPosition PROVE IInv'
  <1>1. /\ UNCHANGED <<px4, pending, phase, sim, story>>
        /\ inAir' \in BOOLEAN /\ latest' \in BOOLEAN
        /\ \/ inAir' = (up > 0) /\ latest' = latest
           \/ inAir' = inAir /\ latest' = inAir
    <2>1. inAir \in BOOLEAN /\ latest \in BOOLEAN /\ (up > 0) \in BOOLEAN
      BY DEF IInv, TypeInv
    <2>2. CASE FollowInAir
      BY <2>1, <2>2, Zenon DEF FollowInAir
    <2>3. CASE FollowPosition
      BY <2>1, <2>3, Zenon DEF FollowPosition
    <2>4. QED BY <2>2, <2>3
  <1>2. UNCHANGED <<mode, goal, at, up, pending, phase, current, position, altitude, answered, refused, astray>>
    BY <1>1 DEF px4, sim, story
  <1>3. TypeInv'
    BY <1>1, <1>2 DEF IInv, TypeInv
  <1>4. up # 0 => (up > 0) = TRUE
    BY Levels DEF IInv, TypeInv
  <1>5. AirInv' /\ ParkInv' /\ RefusedInv'
    BY <1>1, <1>2, <1>4, Levels DEF IInv, AirInv, ParkInv, RefusedInv
  <1>6. ASSUME Good' PROVE FlightInv'
    <2>1. FlightInv
      BY <1>2, <1>6 DEF Good, IInv
    <2>2. LeftInv'
      <3>1. inAir = TRUE /\ up \in High => inAir' = TRUE
        BY <1>1, <1>4, Levels
      <3>2. QED BY <1>2, <2>1, <3>1, SameCommands DEF FlightInv, LeftInv, Flight, Stays
    <2>3. HandInv' /\ TakeoffInv' /\ CalmInv' /\ RestInv' /\ HaltInv'
      BY <1>2, <2>1 DEF FlightInv, HandInv, TakeoffInv, CalmInv, RestInv, HaltInv,
            Flight, Moves, HoldAfter, Mine, InHand, Stays, Newest, Waiting, Lifting, Flying, Homing,
            Grounded, Alone, OnlyRising, Quiet, Resting, SentTo, Calm
    <2>4. QED BY <2>2, <2>3 DEF FlightInv
  <1>7. QED BY <1>3, <1>5, <1>6 DEF IInv

-----------------------------------------------------------------------------
(***************************************************************************)
(* The link's coroutines.                                                  *)
(***************************************************************************)
Facts == TypeInv /\ AirInv /\ FlightInv /\ RefusedInv /\ ~refused

\* What waits or rises is a flight, and without a refusal all else is still asked.
LEMMA StagesOf ==
  ASSUME Facts, NEW k \in DOMAIN pending
  PROVE  /\ pending[k] \in Commands /\ Sensible(pending[k])
         /\ pending[k].stage \in {"asked", "waits", "rises"}
         /\ ~Flight(pending[k]) => pending[k].stage = "asked"
         /\ Flight(pending[k]) => pending[k].above \in High
  <1>1. pending[k] \in Commands /\ Sensible(pending[k])
    BY DEF Facts, TypeInv
  <1>2. pending[k].stage # "failed"
    BY DEF Facts, RefusedInv
  <1>3. pending[k].stage \in {"asked", "waits", "rises"}
    BY <1>1, <1>2 DEF Commands, Stages
  <1>4. QED BY <1>1, <1>3 DEF Sensible

\* While a hold is to come, a motion in hand is yet to be sent.
LEMMA HoldWaits ==
  ASSUME Facts, NEW h \in DOMAIN pending, pending[h].does = "hold"
  PROVE  /\ InHand(MOTIONS) => Waiting /\ Newest.does # "hold" /\ h # Len(pending)
         /\ ~Lifting /\ up # LIFT_OFF /\ ~Quiet
  <1>1. Moves(pending[h]) /\ ~Flight(pending[h]) /\ pending[h].stage = "asked"
    BY StagesOf DEF Moves, Flight
  <1>2. ~Lifting
    BY <1>1, MineMoves DEF Lifting, Alone, Facts, MOTIONS
  <1>3. ~OnlyRising /\ ~Quiet
    BY <1>1 DEF OnlyRising, Quiet
  <1>4. InHand(MOTIONS) => Waiting
    BY <1>2, <1>3 DEF Facts, FlightInv, HandInv, Flying, Homing, Grounded
  <1>5. Waiting => Newest.does # "hold" /\ h # Len(pending)
    BY MineMoves DEF Waiting, Facts, MOTIONS, Newest
  <1>6. up # LIFT_OFF
    BY <1>2, Levels DEF Facts, FlightInv, TakeoffInv, AirInv
  <1>7. QED BY <1>2, <1>3, <1>4, <1>5, <1>6

\* When it is a command's turn, all that is left before it are takeoffs of motions told done.
LEMMA TurnOf ==
  ASSUME Facts, NEW k \in DOMAIN pending, ItsTurn(k)
  PROVE  \A i \in DOMAIN pending : i < k /\ Moves(pending[i]) =>
           Flight(pending[i]) /\ pending[i].stage = "rises" /\ Stays(pending[i]) /\ ~HoldAfter(i)
  <1>1. SUFFICES ASSUME NEW i \in DOMAIN pending, i < k, Moves(pending[i])
                 PROVE  Flight(pending[i]) /\ pending[i].stage = "rises" /\ Stays(pending[i]) /\ ~HoldAfter(i)
    OBVIOUS
  <1>2. DOMAIN pending = 1 .. Len(pending) /\ Len(pending) \in Nat
    BY DEF Facts, TypeInv
  <1>3. i \in 1 .. k - 1 /\ i # Len(pending)
    BY <1>1, <1>2
  <1>4. pending[i].stage # "asked"
    BY <1>1, <1>3 DEF ItsTurn, Moves
  <1>5. Flight(pending[i])
    BY <1>4, StagesOf
  <1>6. ~HoldAfter(i) /\ Stays(pending[i])
    BY <1>3, <1>4, <1>5 DEF Facts, FlightInv, LeftInv, Mine
  <1>7. QED BY <1>4, <1>5, <1>6 DEF Stays

\* Without a coroutine that is done, what was so of the others stays so.
LEMMA Forgotten ==
  ASSUME Facts, NEW k \in DOMAIN pending, Done(k), UNCHANGED <<at, up, inAir, current>>,
         pending[k].does = "hold" => \A i \in DOMAIN pending : i < k => ~Moves(pending[i])
  PROVE  /\ LeftInv'
         /\ InHand(MOTIONS)' <=> InHand(MOTIONS)
         /\ Quiet => Quiet'
         /\ (\A i \in DOMAIN pending : i # k => ~Moves(pending[i])) => Quiet'
         /\ OnlyRising => OnlyRising'
         /\ (\A i \in DOMAIN pending : i # k /\ Moves(pending[i]) => pending[i].stage = "rises" /\ Stays(pending[i]))
              => OnlyRising'
         /\ Mine(Len(pending)) /\ k # Len(pending) => Mine(Len(pending))' /\ Newest' = Newest
         /\ Waiting /\ k # Len(pending) => Waiting'
         /\ Alone /\ k # Len(pending) => Alone'
         /\ \A i \in DOMAIN pending : i # k => \E j \in DOMAIN pending' : pending'[j] = pending[i]
         /\ \A h \in DOMAIN pending :
              /\ h # k /\ pending[h].does = "hold"
              /\ \A j \in DOMAIN pending : j > h => ~Moves(pending[j])
              => \E g \in DOMAIN pending' : /\ pending'[g].does = "hold"
                                            /\ \A j \in DOMAIN pending' : j > g => ~Moves(pending'[j])
  <1>1. /\ pending' \in Seq(Commands) /\ DOMAIN pending \subseteq Nat /\ DOMAIN pending' \subseteq Nat
        /\ \A j \in DOMAIN pending' :
             Was(k, j) \in DOMAIN pending /\ Was(k, j) # k /\ pending'[j] = pending[Was(k, j)]
        /\ \A i, j \in DOMAIN pending' : i < j <=> Was(k, i) < Was(k, j)
        /\ \A i \in DOMAIN pending : i # k => \E j \in DOMAIN pending' : Was(k, j) = i
        /\ k # Len(pending) => Len(pending') \in DOMAIN pending' /\ Was(k, Len(pending')) = Len(pending)
    BY Shorter DEF Facts
  <1>2. InHand(MOTIONS)' <=> InHand(MOTIONS)
    BY DEF InHand
  <1>3. /\ Quiet => Quiet'
        /\ (\A i \in DOMAIN pending : i # k => ~Moves(pending[i])) => Quiet'
        /\ OnlyRising => OnlyRising'
        /\ (\A i \in DOMAIN pending : i # k /\ Moves(pending[i]) => pending[i].stage = "rises" /\ Stays(pending[i]))
              => OnlyRising'
    BY <1>1 DEF Quiet, OnlyRising, Moves, Stays
  <1>4. Mine(Len(pending)) /\ k # Len(pending) => Mine(Len(pending))' /\ Newest' = Newest
    BY <1>1, <1>2 DEF Mine, Newest
  <1>5. Waiting /\ k # Len(pending) => Waiting'
    BY <1>4 DEF Waiting
  <1>6. Alone /\ k # Len(pending) => Alone'
    <2>1. SUFFICES ASSUME Alone, k # Len(pending), NEW j \in DOMAIN pending', Moves(pending'[j])
                   PROVE  j = Len(pending')
      BY DEF Alone, Moves
    <2>2. Was(k, j) = Len(pending) /\ Len(pending') \in DOMAIN pending' /\ Was(k, Len(pending')) = Len(pending)
      BY <1>1, <2>1 DEF Alone
    <2>3. ~(j < Len(pending')) /\ ~(Len(pending') < j) /\ j \in Nat /\ Len(pending') \in Nat
      <3>1. j \in Nat /\ Len(pending') \in Nat /\ Len(pending) \in Nat
        BY <1>1, <2>2 DEF Facts, TypeInv
      <3>2. QED BY <1>1, <2>1, <2>2, <3>1
    <2>4. QED BY <2>3
  <1>7. \A i \in DOMAIN pending : i # k => \E j \in DOMAIN pending' : pending'[j] = pending[i]
    BY <1>1
  <1>8. ASSUME NEW h \in DOMAIN pending, h # k, pending[h].does = "hold",
               \A j \in DOMAIN pending : j > h => ~Moves(pending[j])
        PROVE  \E g \in DOMAIN pending' : /\ pending'[g].does = "hold"
                                          /\ \A j \in DOMAIN pending' : j > g => ~Moves(pending'[j])
    <2>1. PICK g \in DOMAIN pending' : Was(k, g) = h
      BY <1>1, <1>8
    <2>2. ASSUME NEW j \in DOMAIN pending', j > g PROVE ~Moves(pending'[j])
      <3>1. Was(k, j) \in DOMAIN pending /\ Was(k, g) < Was(k, j) /\ pending'[j] = pending[Was(k, j)]
        BY <1>1, <2>1, <2>2
      <3>2. Was(k, j) > h
        BY <1>1, <2>1, <3>1
      <3>3. QED BY <1>8, <3>1, <3>2
    <2>3. QED BY <1>1, <1>8, <2>1, <2>2
  <1>9. LeftInv'
    <2>1. SUFFICES ASSUME NEW j \in DOMAIN pending'
                   PROVE  /\ Flight(pending'[j]) /\ HoldAfter(j)' =>
                               pending'[j].stage = "asked" /\ inAir = TRUE /\ up \in High
                          /\ Flight(pending'[j]) /\ ~HoldAfter(j)' => Mine(j)' \/ Stays(pending[Was(k, j)])
                          /\ pending'[j].does = "return" /\ ~HoldAfter(j)' => Mine(j)' \/ up = 0
      BY <1>1 DEF LeftInv, Flight, Stays, High, Heights
    <2> DEFINE i == Was(k, j)
    <2>2. i \in DOMAIN pending /\ i # k /\ pending'[j] = pending[i] /\ i \in Nat /\ j \in Nat
      BY <1>1
    <2>3. HoldAfter(j)' => HoldAfter(i)
      <3>1. SUFFICES ASSUME NEW g \in DOMAIN pending', g > j, pending'[g].does = "hold"
                     PROVE  HoldAfter(i)
        BY DEF HoldAfter
      <3>2. Was(k, g) \in DOMAIN pending /\ pending[Was(k, g)].does = "hold" /\ i < Was(k, g)
        BY <1>1, <2>2, <3>1
      <3>3. Was(k, g) > i
        BY <1>1, <2>2, <3>2
      <3>4. QED BY <3>2, <3>3 DEF HoldAfter
    <2>4. HoldAfter(i) /\ ~HoldAfter(j)' => ~Moves(pending[i])
      <3>1. SUFFICES ASSUME NEW h \in DOMAIN pending, h > i, pending[h].does = "hold", ~HoldAfter(j)'
                     PROVE  ~Moves(pending[i])
        BY DEF HoldAfter
      <3>2. CASE h = k
        BY <1>1, <2>2, <3>1, <3>2
      <3>3. CASE h # k
        <4>1. PICK g \in DOMAIN pending' : Was(k, g) = h
          BY <1>1, <3>3
        <4>2. g > j /\ pending'[g].does = "hold"
          BY <1>1, <2>2, <3>1, <4>1
        <4>3. QED BY <3>1, <4>1, <4>2 DEF HoldAfter
      <3>4. QED BY <3>2, <3>3
    <2>5. Mine(i) => Mine(j)'
      <3>1. SUFFICES ASSUME Mine(i) PROVE Mine(j)'
        OBVIOUS
      <3>2. i = Len(pending) /\ k # Len(pending)
        BY <2>2, <3>1 DEF Mine
      <3>3. Len(pending') \in DOMAIN pending' /\ Was(k, Len(pending')) = i /\ Len(pending') \in Nat
        BY <1>1, <3>2
      <3>4. ~(j < Len(pending')) /\ ~(Len(pending') < j)
        BY <1>1, <2>2, <3>3
      <3>5. j = Len(pending')
        BY <2>2, <3>3, <3>4
      <3>6. QED BY <1>2, <2>2, <3>1, <3>5 DEF Mine
    <2> HIDE DEF i
    <2>6. LeftInv
      BY DEF Facts, FlightInv
    <2>7. Flight(pending[i]) \/ pending[i].does = "return" => Moves(pending[i])
      BY DEF Flight, Moves
    <2>8. QED BY <2>2, <2>3, <2>4, <2>5, <2>6, <2>7 DEF LeftInv, i, Flight
  <1>10. QED BY <1>2, <1>3, <1>4, <1>5, <1>6, <1>7, <1>8, <1>9

\* A coroutine's step leaves the farm and the telemetry alone.
Aside == UNCHANGED <<at, up, inAir, latest, current, position, altitude, answered>>

\* Nothing that is left but takeoffs of motions told done is a motion's yet to be sent.
LEMMA NotWaiting == ASSUME TypeInv, current' = current, OnlyRising' \/ Quiet' PROVE ~Waiting'
  <1>1. SUFFICES ASSUME Waiting' PROVE FALSE
    OBVIOUS
  <1>2. /\ Len(pending') \in DOMAIN pending' /\ pending'[Len(pending')].stage = "asked"
        /\ pending'[Len(pending')].does = current[1].does /\ InHand(MOTIONS)
    BY <1>1 DEF Waiting, Mine, Newest, InHand
  <1>3. Moves(pending'[Len(pending')])
    BY <1>2, Hands DEF Moves, MOTIONS
  <1>4. QED BY <1>2, <1>3 DEF OnlyRising, Quiet, Moves

\* The camera's commands are nothing to PX4's flight.
LEMMA GimbalTurns ==
  ASSUME Facts, NEW k \in DOMAIN pending, pending[k].does = "gimbal", Done(k), Aside,
         UNCHANGED <<mode, goal>>
  PROVE  FlightInv'
  <1>1. UNCHANGED <<at, up, inAir, current>> /\ ~Moves(pending[k]) /\ pending[k].stage # "rises"
        /\ ~(pending[k].does = "hold")
    BY StagesOf DEF Aside, Moves, Flight
  <1>2. LeftInv' /\ (InHand(MOTIONS)' <=> InHand(MOTIONS)) /\ (Quiet => Quiet') /\ (OnlyRising => OnlyRising')
    BY <1>1, Forgotten
  <1>3. Mine(Len(pending)) => k # Len(pending)
    BY <1>1, MineMoves DEF Facts
  <1>4. (Waiting => Waiting') /\ (Lifting => Lifting')
    <2>1. /\ Mine(Len(pending)) => Mine(Len(pending))' /\ Newest' = Newest
          /\ Mine(Len(pending)) /\ Alone => Alone'
      BY <1>1, <1>3, Forgotten
    <2>2. QED BY <1>1, <2>1 DEF Waiting, Lifting
  <1>5. ~InHand(MOTIONS)' \/ Waiting' => ~InHand(MOTIONS) \/ Waiting
    <2>1. SUFFICES ASSUME InHand(MOTIONS), Waiting', ~Waiting PROVE FALSE
      BY <1>2
    <2>2. CASE Lifting
      BY <1>4, <2>1, <2>2 DEF Waiting, Lifting
    <2>3. CASE OnlyRising \/ Quiet
      BY <1>1, <1>2, <2>1, <2>3, NotWaiting DEF Facts
    <2>4. QED BY <2>1, <2>2, <2>3 DEF Facts, FlightInv, HandInv, Flying, Homing, Grounded
  <1>6. HandInv'
    BY <1>1, <1>2, <1>4 DEF Facts, FlightInv, HandInv, Flying, Homing, Grounded, SentTo, Resting, Flight
  <1>7. /\ (\E i \in DOMAIN pending : pending[i].stage = "rises") => \E j \in DOMAIN pending' : pending'[j].stage = "rises"
        /\ (\E i \in DOMAIN pending : pending[i].does = "hold") => \E j \in DOMAIN pending' : pending'[j].does = "hold"
    BY <1>1, Forgotten DEF Moves
  <1>8. TakeoffInv'
    BY <1>1, <1>2, <1>4, <1>7 DEF Facts, FlightInv, TakeoffInv
  <1>9. Calm => Calm'
    BY <1>1, <1>7 DEF Calm, Resting
  <1>10. CalmInv'
    BY <1>5, <1>9 DEF Facts, FlightInv, CalmInv
  <1>11. RestInv'
    BY <1>2 DEF Facts, FlightInv, RestInv, Aside
  <1>12. HaltInv'
    <2>1. \A h \in DOMAIN pending :
            pending[h].does = "hold" /\ (\A j \in DOMAIN pending : j > h => ~Moves(pending[j]))
              => \E g \in DOMAIN pending' : /\ pending'[g].does = "hold"
                                            /\ \A j \in DOMAIN pending' : j > g => ~Moves(pending'[j])
      BY <1>1, Forgotten
    <2>2. SUFFICES ASSUME ~InHand(MOTIONS), answered = "interrupted" PROVE HaltInv'
      BY <1>2 DEF HaltInv, Aside
    <2>3. \/ \E h \in DOMAIN pending : pending[h].does = "hold" /\ \A j \in DOMAIN pending : j > h => ~Moves(pending[j])
          \/ Quiet /\ mode \in {"landed", "hold"}
      BY <2>2 DEF Facts, FlightInv, HaltInv
    <2>4. QED BY <1>2, <2>1, <2>3 DEF HaltInv, Moves
  <1>13. QED BY <1>2, <1>6, <1>8, <1>10, <1>11, <1>12 DEF FlightInv

\* A flight sends its goto: one that is to be held again, one told done, or that of the motion in
\* hand.
LEMMA FlightSent ==
  ASSUME Facts, NEW k \in DOMAIN pending, Flight(pending[k]), Done(k), Aside, Goto(pending[k]),
         \/ pending[k].stage = "asked" /\ ItsTurn(k) /\ inAir = TRUE
         \/ pending[k].stage = "rises" /\ mode # "takeoff"
  PROVE  FlightInv'
  <1> DEFINE c == pending[k]
  <1>1. UNCHANGED <<at, up, inAir, current>> /\ Moves(c) /\ c.above \in High /\ c.does # "hold"
    BY StagesOf DEF Aside, Moves, Flight
  <1>2. LeftInv' /\ (InHand(MOTIONS)' <=> InHand(MOTIONS))
    BY <1>1, Forgotten
  <1>3. k \in Nat /\ k <= Len(pending) /\ DOMAIN pending = 1 .. Len(pending) /\ Len(pending) \in Nat
    BY DEF Facts, TypeInv
  <1>4. c.stage \in {"asked", "rises"} /\ ~Quiet
    BY <1>1 DEF Quiet
  <1>5. up # 0 => /\ mode' = "goto" /\ goal'.above = c.above
                  /\ goal'.place = IF c.does = "fly" THEN c.place ELSE at
    BY DEF Goto, PX4Does
  <1>6. Facts /\ (mode = "landed" => up = 0)
    BY DEF Facts, AirInv
  <1> HIDE DEF c
  <1>7. CASE HoldAfter(k)
    <2>1. up \in High /\ up # 0 /\ up # LIFT_OFF /\ mode' = "goto"
      BY <1>5, <1>7, Levels DEF Facts, FlightInv, LeftInv, c
    <2>2. PICK h \in DOMAIN pending : h > k /\ pending[h].does = "hold"
      BY <1>7 DEF HoldAfter
    <2>3. k # Len(pending) /\ h # k
      BY <1>3, <2>2
    <2>4. InHand(MOTIONS) => Waiting'
      BY <1>1, <2>2, <2>3, HoldWaits, Forgotten DEF c
    <2>5. \E j \in DOMAIN pending' : pending'[j].does = "hold"
      BY <1>1, <2>2, <2>3, Forgotten DEF c
    <2>6. HandInv' /\ TakeoffInv' /\ CalmInv'
      BY <1>1, <1>2, <2>1, <2>4, <2>5 DEF HandInv, TakeoffInv, CalmInv, Calm
    <2>7. RestInv'
      BY <1>2, <1>6, <2>1 DEF Facts, FlightInv, RestInv, Aside
    <2>8. HaltInv'
      <3>1. SUFFICES ASSUME ~InHand(MOTIONS), answered = "interrupted" PROVE HaltInv'
        BY <1>2 DEF HaltInv, Aside
      <3>2. PICK g \in DOMAIN pending :
              pending[g].does = "hold" /\ \A j \in DOMAIN pending : j > g => ~Moves(pending[j])
        BY <1>4, <3>1 DEF Facts, FlightInv, HaltInv
      <3>3. g # k
        BY <1>1, <3>2 DEF c
      <3>4. \E i \in DOMAIN pending' : /\ pending'[i].does = "hold"
                                        /\ \A j \in DOMAIN pending' : j > i => ~Moves(pending'[j])
        BY <1>1, <3>2, <3>3, Forgotten DEF c
      <3>5. QED BY <3>4 DEF HaltInv, Moves
    <2>9. QED BY <1>2, <2>6, <2>7, <2>8 DEF FlightInv
  <1>8. CASE ~HoldAfter(k) /\ Stays(c) /\ ~Mine(k)
    <2>1. up \in High /\ up # 0 /\ up # LIFT_OFF /\ Resting'
      BY <1>1, <1>5, <1>8, Levels DEF Stays, Resting
    <2>2. InHand(MOTIONS) /\ Waiting => Waiting'
      BY <1>1, <1>8, Forgotten DEF Waiting, c
    <2>3. ~(InHand(MOTIONS) /\ Lifting)
      BY <1>1, <1>8 DEF Lifting, Alone, Mine, c
    <2>4. OnlyRising => OnlyRising'
      BY <1>1, Forgotten DEF c
    <2>5. HandInv'
      BY <1>1, <1>2, <1>4, <2>1, <2>2, <2>3, <2>4
         DEF Facts, FlightInv, HandInv, Flying, Homing, Grounded, Flight
    <2>6. TakeoffInv' /\ CalmInv'
      BY <1>1, <2>1 DEF TakeoffInv, CalmInv, Calm, Resting
    <2>7. RestInv'
      BY <1>2, <1>6, <2>1 DEF Facts, FlightInv, RestInv, Aside
    <2>8. HaltInv'
      <3>1. SUFFICES ASSUME ~InHand(MOTIONS), answered = "interrupted" PROVE FALSE
        BY <1>2 DEF HaltInv, Aside
      <3>2. PICK g \in DOMAIN pending :
              pending[g].does = "hold" /\ \A j \in DOMAIN pending : j > g => ~Moves(pending[j])
        BY <1>4, <3>1 DEF Facts, FlightInv, HaltInv
      <3>3. g # k /\ ~(g > k) /\ ~(k > g)
        BY <1>1, <1>8, <3>2 DEF HoldAfter, c
      <3>4. QED BY <1>3, <3>3
    <2>9. QED BY <1>2, <2>5, <2>6, <2>7, <2>8 DEF FlightInv
  <1>9. CASE Mine(k) /\ ~HoldAfter(k)
    <2>1. /\ InHand(MOTIONS) /\ k = Len(pending) /\ c = Newest
          /\ c.does = current[1].does /\ c.place = current[1].place /\ c.above = current[1].above
      BY <1>9 DEF Mine, Newest, c
    <2>2. Flight(current[1])
      BY <2>1 DEF Flight, c
    <2>3. OnlyRising' /\ (up = 0 => Quiet')
      <3>1. ASSUME NEW i \in DOMAIN pending, i # k, Moves(pending[i])
            PROVE  pending[i].stage = "rises" /\ Stays(pending[i]) /\ pending[i].above \in High
        <4>1. i < k
          BY <1>3, <2>1, <3>1
        <4>2. CASE c.stage = "asked"
          BY <3>1, <4>1, <4>2, TurnOf, StagesOf DEF c
        <4>3. CASE c.stage = "rises"
          <5>1. ~Alone
            BY <2>1, <3>1 DEF Alone
          <5>2. OnlyRising
            BY <1>4, <2>1, <4>3, <5>1 DEF Facts, FlightInv, HandInv, Waiting, Lifting, Flying, Homing, Grounded
          <5>3. pending[i].stage = "rises" /\ Stays(pending[i])
            BY <3>1, <5>2 DEF OnlyRising
          <5>4. QED BY <5>3, StagesOf
        <4>4. QED BY <1>4, <4>2, <4>3
      <3>2. OnlyRising'
        BY <1>1, <3>1, Forgotten DEF c
      <3>3. ASSUME up = 0 PROVE Quiet'
        <4>1. \A i \in DOMAIN pending : i # k => ~Moves(pending[i])
          BY <3>1, <3>3, Levels DEF Stays
        <4>2. QED BY <1>1, <4>1, Forgotten DEF c
      <3>4. QED BY <3>2, <3>3
    <2>4. ~Waiting'
      BY <1>1, <2>3, NotWaiting DEF Facts
    <2>5. ~Lifting \/ (c.stage = "rises" /\ mode = "hold")
      BY <2>1 DEF Lifting, c
    <2>6. CASE up = 0
      <3>1. mode' = mode /\ mode \notin {"hold", "goto", "return"}
        BY <2>6 DEF Goto, Facts, AirInv
      <3>2. mode # "takeoff"
        BY <2>5, <2>6, Levels DEF Facts, FlightInv, TakeoffInv, AirInv
      <3>3. mode' = "landed"
        BY <3>1, <3>2 DEF Facts, TypeInv
      <3>4. HandInv' /\ TakeoffInv'
        BY <1>1, <2>3, <2>6, <3>3, Levels DEF HandInv, Grounded, TakeoffInv
      <3>5. CalmInv' /\ RestInv' /\ HaltInv'
        BY <1>2, <2>1, <2>4 DEF CalmInv, RestInv, HaltInv
      <3>6. QED BY <1>2, <3>4, <3>5 DEF FlightInv
    <2>7. CASE up # 0
      <3>1. SentTo(current[1])'
        BY <1>1, <1>5, <2>1, <2>7 DEF SentTo
      <3>2. HandInv'
        BY <1>1, <2>2, <2>3, <3>1 DEF HandInv, Flying, Flight
      <3>3. up # LIFT_OFF
        BY <2>5, Levels DEF Facts, FlightInv, TakeoffInv, AirInv
      <3>4. TakeoffInv'
        BY <1>1, <1>5, <2>7, <3>3 DEF TakeoffInv
      <3>5. CalmInv' /\ RestInv' /\ HaltInv'
        BY <1>2, <2>1, <2>4 DEF CalmInv, RestInv, HaltInv
      <3>6. QED BY <1>2, <3>2, <3>4, <3>5 DEF FlightInv
    <2>8. QED BY <2>6, <2>7
  <1>10. HoldAfter(k) \/ Mine(k) \/ Stays(c)
    BY DEF Facts, FlightInv, LeftInv, c
  <1>11. QED BY <1>7, <1>8, <1>9, <1>10

\* A takeoff is asked for by the motion in hand, with nothing else left.
LEMMA TakeoffAsked ==
  ASSUME Facts, NEW k \in DOMAIN pending, Flight(pending[k]), Stage(k, "waits"), Aside,
         pending[k].stage = "asked", ItsTurn(k), inAir = FALSE,
         mode' = "takeoff", goal' = [place |-> at, above |-> pending[k].above]
  PROVE  FlightInv'
  <1>1. /\ pending' \in Seq(Commands) /\ Len(pending') = Len(pending) /\ DOMAIN pending' = DOMAIN pending
        /\ \A j \in DOMAIN pending : j # k => pending'[j] = pending[j]
        /\ pending'[k].does = pending[k].does /\ pending'[k].place = pending[k].place
        /\ pending'[k].above = pending[k].above /\ pending'[k].stage = "waits"
    BY Staged DEF Facts, Stages
  <1>2. /\ up \notin High /\ up \in {0, LIFT_OFF} /\ pending[k].above \in High /\ goal'.above = pending[k].above
        /\ UNCHANGED <<at, up, inAir, current>>
    BY StagesOf, Levels DEF Facts, AirInv, TypeInv, Aside
  <1>3. Mine(k)
    BY <1>2 DEF Facts, FlightInv, LeftInv, Stays
  <1>4. k = Len(pending) /\ InHand(MOTIONS) /\ DOMAIN pending = 1 .. Len(pending) /\ Len(pending) \in Nat
    BY <1>3 DEF Mine, Facts, TypeInv
  <1>5. Mine(Len(pending))' /\ InHand(MOTIONS)' /\ Newest' = pending'[k]
    BY <1>1, <1>2, <1>3, <1>4 DEF Mine, Newest, InHand
  <1>6. Alone'
    <2>1. SUFFICES ASSUME NEW i \in DOMAIN pending, i # k PROVE ~Moves(pending[i])
      BY <1>1, <1>4 DEF Alone, Moves
    <2>2. i < k
      BY <1>4, <2>1
    <2>3. Moves(pending[i]) => Stays(pending[i]) /\ pending[i].above \in High
      BY <2>2, TurnOf, StagesOf
    <2>4. QED BY <1>2, <2>3 DEF Stays
  <1>7. Lifting'
    BY <1>1, <1>2, <1>5, <1>6 DEF Lifting
  <1>8. LeftInv'
    <2>1. ASSUME NEW i \in DOMAIN pending', Moves(pending'[i]) PROVE i = k /\ ~HoldAfter(i)'
      <3>1. i = k
        BY <1>1, <1>4, <1>6, <2>1 DEF Alone, Moves
      <3>2. ~HoldAfter(i)'
        BY <1>1, <1>4, <3>1 DEF HoldAfter
      <3>3. QED BY <3>1, <3>2
    <2>2. Mine(k)'
      BY <1>1, <1>4, <1>5
    <2>3. QED BY <2>1, <2>2 DEF LeftInv, Flight, Moves
  <1>9. HandInv' /\ TakeoffInv'
    BY <1>5, <1>7 DEF HandInv, TakeoffInv
  <1>10. CalmInv' /\ RestInv' /\ HaltInv'
    BY <1>1, <1>5 DEF CalmInv, RestInv, HaltInv, Waiting
  <1>11. QED BY <1>8, <1>9, <1>10 DEF FlightInv

\* The takeoff is seen: it is that of the motion in hand.
LEMMA TakeoffSeen ==
  ASSUME Facts, NEW k \in DOMAIN pending, Flight(pending[k]), Stage(k, "rises"), Aside,
         pending[k].stage = "waits", mode = "takeoff", UNCHANGED <<mode, goal>>
  PROVE  FlightInv'
  <1>1. /\ pending' \in Seq(Commands) /\ Len(pending') = Len(pending) /\ DOMAIN pending' = DOMAIN pending
        /\ \A j \in DOMAIN pending : j # k => pending'[j] = pending[j]
        /\ pending'[k].does = pending[k].does /\ pending'[k].place = pending[k].place
        /\ pending'[k].above = pending[k].above /\ pending'[k].stage = "rises"
    BY Staged DEF Facts, Stages
  <1>2. UNCHANGED <<at, up, inAir, current>> /\ Moves(pending[k])
    BY DEF Aside, Moves, Flight
  <1>3. Mine(k) /\ k = Len(pending) /\ InHand(MOTIONS) /\ Newest = pending[k]
    BY DEF Facts, FlightInv, LeftInv, Stays, Mine, Newest
  <1>4. Lifting
    BY <1>2, <1>3 DEF Facts, FlightInv, HandInv, Waiting, Flying, Homing, Grounded, OnlyRising, Quiet
  <1>5. Mine(Len(pending))' /\ InHand(MOTIONS)' /\ Newest' = pending'[k]
    BY <1>1, <1>2, <1>3 DEF Mine, Newest, InHand
  <1>6. Alone'
    BY <1>1, <1>4 DEF Lifting, Alone, Moves
  <1>7. Lifting'
    BY <1>1, <1>3, <1>4, <1>5, <1>6 DEF Lifting
  <1>8. DOMAIN pending \subseteq Nat /\ Len(pending) \in Nat /\ DOMAIN pending = 1 .. Len(pending)
    BY DEF Facts, TypeInv
  <1>9. LeftInv'
    <2>1. ASSUME NEW i \in DOMAIN pending', Moves(pending'[i]) PROVE i = k /\ ~HoldAfter(i)'
      <3>1. i = k
        BY <1>1, <1>3, <1>6, <2>1 DEF Alone, Moves
      <3>2. ~HoldAfter(i)'
        BY <1>1, <1>3, <1>8, <3>1 DEF HoldAfter
      <3>3. QED BY <3>1, <3>2
    <2>2. Mine(k)'
      BY <1>1, <1>3, <1>5
    <2>3. QED BY <2>1, <2>2 DEF LeftInv, Flight, Moves
  <1>10. HandInv' /\ TakeoffInv'
    BY <1>5, <1>7 DEF HandInv, TakeoffInv
  <1>11. CalmInv' /\ RestInv' /\ HaltInv'
    BY <1>1, <1>5 DEF CalmInv, RestInv, HaltInv, Waiting
  <1>12. QED BY <1>9, <1>10, <1>11 DEF FlightInv

\* A hold is sent: whatever was cut before it has sent all it had.
LEMMA HoldSent ==
  ASSUME Facts, NEW k \in DOMAIN pending, pending[k].does = "hold", ItsTurn(k), Done(k), Aside,
         mode' = IF up = 0 THEN "landed" ELSE "hold"
  PROVE  FlightInv'
  <1>1. UNCHANGED <<at, up, inAir, current>> /\ Moves(pending[k]) /\ pending[k].stage = "asked"
    BY StagesOf DEF Aside, Moves, Flight
  <1>2. DOMAIN pending \subseteq Nat /\ k \in Nat
    BY DEF Facts, TypeInv
  <1>3. \A i \in DOMAIN pending : i < k => ~Moves(pending[i])
    <2>1. SUFFICES ASSUME NEW i \in DOMAIN pending, i < k, Moves(pending[i]) PROVE FALSE
      OBVIOUS
    <2>2. k > i
      BY <1>2, <2>1
    <2>3. HoldAfter(i)
      BY <2>2 DEF HoldAfter
    <2>4. QED BY <2>1, <2>3, TurnOf
  <1>4. LeftInv' /\ (InHand(MOTIONS)' <=> InHand(MOTIONS))
    BY <1>1, <1>3, Forgotten
  <1>5. up # LIFT_OFF /\ ~Quiet /\ (InHand(MOTIONS) => Waiting /\ k # Len(pending))
    BY HoldWaits
  <1>6. InHand(MOTIONS) => Waiting'
    BY <1>1, <1>3, <1>5, Forgotten
  <1>7. HandInv' /\ TakeoffInv' /\ CalmInv'
    BY <1>1, <1>4, <1>5, <1>6 DEF HandInv, TakeoffInv, CalmInv, Calm
  <1>8. RestInv'
    BY <1>4 DEF Facts, AirInv, FlightInv, RestInv, Aside
  <1>9. HaltInv'
    <2>1. SUFFICES ASSUME ~InHand(MOTIONS), answered = "interrupted" PROVE HaltInv'
      BY <1>4 DEF HaltInv, Aside
    <2>2. PICK g \in DOMAIN pending :
            pending[g].does = "hold" /\ \A j \in DOMAIN pending : j > g => ~Moves(pending[j])
      BY <1>5, <2>1 DEF Facts, FlightInv, HaltInv
    <2>3. CASE g = k
      <3>1. \A i \in DOMAIN pending : i # k => ~Moves(pending[i])
        BY <1>2, <1>3, <2>2, <2>3
      <3>2. Quiet'
        BY <1>1, <1>3, <3>1, Forgotten
      <3>3. QED BY <3>2 DEF HaltInv
    <2>4. CASE g # k
      <3>1. \E i \in DOMAIN pending' : /\ pending'[i].does = "hold"
                                       /\ \A j \in DOMAIN pending' : j > i => ~Moves(pending'[j])
        BY <1>1, <1>3, <2>2, <2>4, Forgotten
      <3>2. QED BY <3>1 DEF HaltInv, Moves
    <2>5. QED BY <2>3, <2>4
  <1>10. QED BY <1>4, <1>7, <1>8, <1>9 DEF FlightInv

\* A return is sent: that of the motion in hand, one to be held again, or one told done on the pad.
LEMMA ReturnSent ==
  ASSUME Facts, NEW k \in DOMAIN pending, pending[k].does = "return", ItsTurn(k), Done(k), Aside,
         mode' = IF up = 0 THEN "landed" ELSE "return"
  PROVE  FlightInv'
  <1>1. UNCHANGED <<at, up, inAir, current>> /\ Moves(pending[k]) /\ pending[k].stage = "asked"
        /\ pending[k].does # "hold" /\ ~Quiet /\ ~OnlyRising
    BY StagesOf DEF Aside, Moves, Flight, Quiet, OnlyRising
  <1>2. DOMAIN pending = 1 .. Len(pending) /\ Len(pending) \in Nat /\ k \in Nat
    BY DEF Facts, TypeInv
  <1>3. LeftInv' /\ (InHand(MOTIONS)' <=> InHand(MOTIONS))
    BY <1>1, Forgotten
  <1>4. InHand(MOTIONS) => Waiting \/ Lifting
    BY <1>1 DEF Facts, FlightInv, HandInv, Flying, Homing, Grounded
  <1>5. Lifting => FALSE
    <2>1. SUFFICES ASSUME Lifting PROVE FALSE
      OBVIOUS
    <2>2. k = Len(pending)
      BY <1>1, <2>1 DEF Lifting, Alone
    <2>3. QED BY <1>1, <2>1, <2>2 DEF Lifting, Newest
  <1>6. up # LIFT_OFF
    BY <1>5, Levels DEF Facts, FlightInv, TakeoffInv, AirInv
  <1>7. TakeoffInv'
    BY <1>1, <1>6 DEF TakeoffInv
  <1>8. RestInv'
    BY <1>3 DEF Facts, AirInv, FlightInv, RestInv, Aside
  <1>9. ASSUME ~Mine(k) PROVE HandInv' /\ CalmInv' /\ HaltInv'
    <2>1. InHand(MOTIONS) => k # Len(pending)
      BY <1>4, <1>5, <1>9 DEF Waiting
    <2>2. InHand(MOTIONS) => Waiting'
      BY <1>1, <1>4, <1>5, <2>1, Forgotten
    <2>3. HandInv'
      BY <1>3, <2>2 DEF HandInv
    <2>4. CalmInv'
      <3>1. CASE HoldAfter(k)
        <4>1. \E j \in DOMAIN pending' : pending'[j].does = "hold"
          BY <1>1, <1>2, <3>1, Forgotten DEF HoldAfter
        <4>2. QED BY <4>1 DEF CalmInv, Calm
      <3>2. CASE ~HoldAfter(k)
        <4>1. up = 0
          BY <1>9, <3>2 DEF Facts, FlightInv, LeftInv
        <4>2. QED BY <4>1 DEF CalmInv, Calm
      <3>3. QED BY <3>1, <3>2
    <2>5. HaltInv'
      <3>1. SUFFICES ASSUME ~InHand(MOTIONS), answered = "interrupted" PROVE HaltInv'
        BY <1>3 DEF HaltInv, Aside
      <3>2. PICK g \in DOMAIN pending :
              pending[g].does = "hold" /\ \A j \in DOMAIN pending : j > g => ~Moves(pending[j])
        BY <1>1, <3>1 DEF Facts, FlightInv, HaltInv
      <3>3. \E i \in DOMAIN pending' : /\ pending'[i].does = "hold"
                                       /\ \A j \in DOMAIN pending' : j > i => ~Moves(pending'[j])
        BY <1>1, <3>2, Forgotten
      <3>4. QED BY <3>3 DEF HaltInv, Moves
    <2>6. QED BY <2>3, <2>4, <2>5
  <1>10. ASSUME Mine(k) PROVE HandInv' /\ CalmInv' /\ HaltInv'
    <2>1. InHand(MOTIONS) /\ k = Len(pending) /\ current[1].does = "return"
      BY <1>10 DEF Mine
    <2>2. ASSUME NEW i \in DOMAIN pending, i # k, Moves(pending[i])
          PROVE  pending[i].stage = "rises" /\ Stays(pending[i]) /\ pending[i].above \in High
      <3>1. i < k
        BY <1>2, <2>1, <2>2
      <3>2. QED BY <2>2, <3>1, TurnOf, StagesOf
    <2>3. OnlyRising'
      BY <1>1, <2>2, Forgotten
    <2>4. ASSUME up = 0 PROVE Quiet'
      <3>1. \A i \in DOMAIN pending : i # k => ~Moves(pending[i])
        BY <2>2, <2>4, Levels DEF Stays
      <3>2. QED BY <1>1, <3>1, Forgotten
    <2>5. HandInv'
      BY <1>1, <2>1, <2>3, <2>4 DEF HandInv, Grounded, Homing
    <2>6. ~Waiting'
      BY <1>1, <2>3, NotWaiting DEF Facts
    <2>7. QED BY <1>3, <2>1, <2>5, <2>6 DEF CalmInv, HaltInv
  <1>11. QED BY <1>3, <1>7, <1>8, <1>9, <1>10 DEF FlightInv

\* Each step of a coroutine leaves what is always so.
LEMMA LinkAlways ==
  ASSUME IInv, NEW k \in DOMAIN pending,
         \/ Airborne(k) \/ SeesTakeoff(k) \/ SeesItOver(k)
         \/ Hold(k) \/ ReturnToLaunch(k) \/ Gimbal(k) \/ Refusal(k)
  PROVE  TypeInv' /\ AirInv' /\ ParkInv' /\ RefusedInv'
  <1>1. /\ UNCHANGED <<at, up, inAir, latest, phase, current, position, altitude, answered, astray>>
        /\ refused' \in {refused, TRUE}
    BY DEF Airborne, SeesTakeoff, SeesItOver, Hold, ReturnToLaunch, Gimbal, Refusal, LinkStep, heard, sim, story
  <1>2. /\ pending[k] \in Commands /\ Sensible(pending[k]) /\ at \in Places \cup {Nowhere} /\ up \in Heights
        /\ goal \in [place : Places \cup {Nowhere}, above : Heights]
        /\ mode \in {"landed", "takeoff", "goto", "hold", "return"}
    BY DEF IInv, TypeInv
  <1>3. /\ pending' \in Seq(Commands)
        /\ \A j \in DOMAIN pending' :
             \/ \E i \in DOMAIN pending : pending'[j] = pending[i]
             \/ /\ Sensible(pending'[j]) /\ pending'[j].does = pending[k].does
                /\ pending'[j].stage = "failed" => refused' = TRUE
    <2>1. CASE Done(k)
      BY <2>1, Shorter DEF IInv
    <2>2. ASSUME NEW s \in {"waits", "rises", "failed"}, Stage(k, s),
                 s = "failed" => refused' = TRUE, s # "failed" => Flight(pending[k])
          PROVE  /\ pending' \in Seq(Commands)
                 /\ \A j \in DOMAIN pending' :
                      \/ \E i \in DOMAIN pending : pending'[j] = pending[i]
                      \/ /\ Sensible(pending'[j]) /\ pending'[j].does = pending[k].does
                         /\ pending'[j].stage = "failed" => refused' = TRUE
      <3>1. /\ pending' \in Seq(Commands) /\ Len(pending') = Len(pending) /\ DOMAIN pending' = DOMAIN pending
            /\ \A j \in DOMAIN pending : j # k => pending'[j] = pending[j]
            /\ pending'[k].does = pending[k].does /\ pending'[k].place = pending[k].place
            /\ pending'[k].above = pending[k].above /\ pending'[k].stage = s
        BY <2>2, Staged DEF IInv, Stages
      <3>2. Sensible(pending'[k])
        BY <1>2, <2>2, <3>1 DEF Sensible, Flight
      <3>3. QED BY <2>2, <3>1, <3>2
    <2>3. CASE Airborne(k) /\ ~Done(k)
      BY <2>2, <2>3 DEF Airborne, Flight
    <2>4. CASE SeesTakeoff(k)
      BY <1>2, <2>2, <2>4 DEF SeesTakeoff, Sensible
    <2>5. CASE Refusal(k)
      BY <2>2, <2>5 DEF Refusal
    <2>6. QED BY <2>1, <2>3, <2>4, <2>5 DEF SeesItOver, Hold, ReturnToLaunch, Gimbal
  <1>4. \/ mode' = mode /\ goal' = goal
        \/ /\ mode' = "takeoff" /\ goal' = [place |-> at, above |-> pending[k].above] /\ Flight(pending[k])
        \/ /\ mode' = "goto" /\ up # 0 /\ Flight(pending[k])
           /\ goal' = [place |-> IF pending[k].does = "fly" THEN pending[k].place ELSE at, above |-> pending[k].above]
        \/ mode' = (IF up = 0 THEN "landed" ELSE "hold") /\ goal' = [place |-> at, above |-> up]
        \/ up = 0 /\ mode' = "landed" /\ goal' = [place |-> at, above |-> 0]
        \/ up # 0 /\ mode' = "return" /\ goal' = [place |-> "shed", above |-> 0]
    <2>1. CASE Airborne(k)
      BY <2>1 DEF Airborne, Goto, PX4Does, Flight
    <2>2. CASE SeesItOver(k)
      BY <1>2, <2>2 DEF SeesItOver, Goto, PX4Does, Sensible
    <2>3. CASE Hold(k)
      BY <2>3 DEF Hold, PX4Does
    <2>4. CASE ReturnToLaunch(k)
      BY <2>4 DEF ReturnToLaunch, PX4Does
    <2>5. QED BY <2>1, <2>2, <2>3, <2>4 DEF SeesTakeoff, Gimbal, Refusal
  <1>5. /\ mode' \in {"landed", "takeoff", "goto", "hold", "return"}
        /\ goal' \in [place : Places \cup {Nowhere}, above : Heights]
    <2>1. /\ Flight(pending[k]) => pending[k].above \in Heights
          /\ pending[k].does = "fly" => pending[k].place \in Places
          /\ "shed" \in Places /\ 0 \in Heights
      BY <1>2, Levels, AirframeAssumption DEF Sensible
    <2>2. mode' \in {"landed", "takeoff", "goto", "hold", "return"}
      BY <1>2, <1>4
    <2>3. goal' \in [place : Places \cup {Nowhere}, above : Heights]
      BY <1>2, <1>4, <2>1
    <2>4. QED BY <2>2, <2>3
  <1>6. TypeInv'
    <2>1. \A j \in DOMAIN pending' : Sensible(pending'[j]) /\ pending'[j].does # "look"
      BY <1>3 DEF IInv, TypeInv
    <2>2. refused' \in BOOLEAN
      BY <1>1 DEF IInv, TypeInv
    <2>3. QED BY <1>1, <1>3, <1>5, <2>1, <2>2 DEF IInv, TypeInv
  <1>7. AirInv'
    <2>1. Flight(pending[k]) => pending[k].above \in High
      BY <1>2 DEF Sensible
    <2>2. goal'.above # 0 \/ mode' # "goto"
      BY <1>4, <2>1, Levels DEF IInv, AirInv
    <2>3. mode' = "takeoff" => goal'.above \in High
      BY <1>4, <2>1 DEF IInv, AirInv
    <2>4. mode' = "return" => goal'.place = "shed" /\ goal'.above = 0
      BY <1>4 DEF IInv, AirInv
    <2>5. (mode' = "landed" => up = 0) /\ (mode' \in {"hold", "goto", "return"} => up # 0)
      BY <1>4 DEF IInv, AirInv
    <2>6. QED BY <1>1, <2>2, <2>3, <2>4, <2>5 DEF IInv, AirInv
  <1>8. ParkInv'
    <2>1. SUFFICES ASSUME phase = "parking" PROVE ParkInv'
      BY <1>1 DEF ParkInv
    <2>2. /\ \A j \in DOMAIN pending : pending[j].does = "return"
          /\ ~astray => (up # 0 => inAir = TRUE /\ latest = TRUE) /\ (mode = "takeoff" => up # 0)
      BY <2>1 DEF IInv, ParkInv
    <2>3. \A j \in DOMAIN pending' : pending'[j].does = "return"
      BY <1>3, <2>2
    <2>4. mode' = "takeoff" => mode = "takeoff"
      BY <1>4, <2>2 DEF Flight
    <2>5. QED BY <1>1, <2>2, <2>3, <2>4 DEF ParkInv
  <1>9. RefusedInv'
    BY <1>1, <1>3 DEF IInv, RefusedInv
  <1>10. QED BY <1>6, <1>7, <1>8, <1>9

\* Each step of a coroutine.
LEMMA LinkTurns ==
  ASSUME IInv, NEW k \in DOMAIN pending,
         \/ Airborne(k) \/ SeesTakeoff(k) \/ SeesItOver(k)
         \/ Hold(k) \/ ReturnToLaunch(k) \/ Gimbal(k) \/ Refusal(k)
  PROVE  IInv'
  <1>1. TypeInv' /\ AirInv' /\ ParkInv' /\ RefusedInv'
    BY LinkAlways
  <1>2. ASSUME Good' PROVE FlightInv'
    <2>1. Aside /\ phase' = phase /\ astray' = astray /\ refused' \in {refused, TRUE}
      BY DEF Airborne, SeesTakeoff, SeesItOver, Hold, ReturnToLaunch, Gimbal, Refusal, LinkStep, heard, sim,
             story, Aside
    <2>2. Facts /\ ~Refusal(k)
      <3>1. refused' # TRUE /\ refused' = refused
        BY <1>2, <2>1 DEF Good
      <3>2. ~Refusal(k)
        BY <3>1 DEF Refusal
      <3>3. Good
        BY <1>2, <2>1, <3>1 DEF Good
      <3>4. QED BY <3>2, <3>3 DEF Good, IInv, Facts
    <2>3. CASE Airborne(k)
      <3>1. Flight(pending[k]) /\ ItsTurn(k) /\ pending[k].stage = "asked" /\ inAir \in BOOLEAN
        BY <2>2, <2>3 DEF Airborne, ItsTurn, Flight, Facts, TypeInv
      <3>2. CASE inAir
        BY <2>1, <2>2, <2>3, <3>1, <3>2, FlightSent DEF Airborne
      <3>3. CASE ~inAir
        BY <2>1, <2>2, <2>3, <3>1, <3>3, TakeoffAsked DEF Airborne, PX4Does
      <3>4. QED BY <3>2, <3>3
    <2>4. CASE SeesTakeoff(k)
      BY <2>1, <2>2, <2>4, StagesOf, TakeoffSeen DEF SeesTakeoff
    <2>5. CASE SeesItOver(k)
      BY <2>1, <2>2, <2>5, StagesOf, FlightSent DEF SeesItOver
    <2>6. CASE Hold(k)
      BY <2>1, <2>2, <2>6, HoldSent DEF Hold, PX4Does
    <2>7. CASE ReturnToLaunch(k)
      BY <2>1, <2>2, <2>7, ReturnSent DEF ReturnToLaunch, PX4Does
    <2>8. CASE Gimbal(k)
      BY <2>1, <2>2, <2>8, GimbalTurns DEF Gimbal
    <2>9. QED BY <2>2, <2>3, <2>4, <2>5, <2>6, <2>7, <2>8
  <1>3. QED BY <1>1, <1>2 DEF IInv

-----------------------------------------------------------------------------
(***************************************************************************)
(* The farm.                                                               *)
(***************************************************************************)
\* Nothing the invariant is about but whether anything was refused.
LEMMA OnlyRefused ==
  ASSUME IInv, UNCHANGED <<px4, heard, pending, phase, sim, astray>>, refused' \in {refused, TRUE}
  PROVE  IInv'
  <1>1. /\ UNCHANGED <<mode, goal, at, up, inAir, latest, pending, phase, current, position, altitude>>
        /\ UNCHANGED <<answered, astray>> /\ refused' \in BOOLEAN
    BY DEF px4, heard, sim, IInv, TypeInv
  <1>2. TypeInv' /\ AirInv' /\ ParkInv'
    BY <1>1 DEF IInv, TypeInv, AirInv, ParkInv
  <1>3. RefusedInv'
    BY <1>1 DEF IInv, RefusedInv
  <1>4. ASSUME Good' PROVE FlightInv'
    <2>1. refused' = refused
      BY <1>4 DEF Good
    <2>2. FlightInv
      BY <1>1, <1>4, <2>1 DEF Good, IInv
    <2>3. QED BY <1>1, <2>2 DEF FlightInv, LeftInv, HandInv, TakeoffInv, CalmInv, RestInv, HaltInv,
            Flight, Moves, HoldAfter, Mine, InHand, Stays, Newest, Waiting, Lifting, Flying, Homing,
            Grounded, Alone, OnlyRising, Quiet, Resting, SentTo, Calm
  <1>5. QED BY <1>2, <1>3, <1>4 DEF IInv

\* A farm that raised promises nothing more.
LEMMA Crashes == ASSUME IInv, Crash PROVE IInv'
  <1>1. phase' = "crashed" /\ UNCHANGED <<px4, heard, pending, sim, story>>
    BY DEF Crash
  <1>2. TypeInv'
    BY <1>1 DEF IInv, TypeInv, px4, heard, sim, story
  <1>3. AirInv' /\ RefusedInv'
    BY <1>1 DEF IInv, AirInv, RefusedInv, px4, heard, story
  <1>4. QED BY <1>1, <1>2, <1>3 DEF IInv, ParkInv, Good

\* What a motion begins with.
LEMMA MotionAsked ==
  ASSUME TypeInv, BeginMotion
  PROVE  \E a \in Commands : /\ Sensible(a) /\ a.does \in MOTIONS /\ a.stage = "asked"
                             /\ Take(a) /\ Ask(<<Command("gimbal", "", 0), a>>)
  <1> DEFINE Fine(a) == a \in Commands /\ Sensible(a) /\ a.does \in MOTIONS /\ a.stage = "asked"
  <1>1. Fine(Command("return", "shed", 0))
    BY AirframeAssumption, Levels DEF Command, Commands, Stages, Sensible, Flight, MOTIONS
  <1>2. \A m \in Heights \ {0, LIFT_OFF} : Fine(Command("climb", "", m))
    BY DEF Command, Commands, Stages, Sensible, Flight, MOTIONS, High
  <1>3. ASSUME NEW p \in Places
        PROVE  Fine(Command("fly", p, IF altitude = 0 THEN CRUISE_M ELSE altitude))
    <2> DEFINE m == IF altitude = 0 THEN CRUISE_M ELSE altitude
    <2>1. m \in High /\ m \in Heights
      BY Levels DEF TypeInv
    <2> HIDE DEF m
    <2>2. Fine(Command("fly", p, m))
      BY <2>1 DEF Command, Commands, Stages, Sensible, Flight, MOTIONS
    <2>3. QED BY <2>2 DEF m
  <1> HIDE DEF Fine
  <1>4. \E a : Fine(a) /\ Take(a) /\ Ask(<<Command("gimbal", "", 0), a>>)
    BY <1>1, <1>2, <1>3 DEF BeginMotion
  <1>5. QED BY <1>4 DEF Fine

\* A motion begins: its command is the newest.
LEMMA MotionBegins == ASSUME IInv, BeginMotion PROVE IInv'
  <1>1. /\ phase = "flying" /\ current = <<>> /\ TypeInv
        /\ UNCHANGED <<px4, heard, phase, position, altitude, answered, story>>
        /\ UNCHANGED <<mode, goal, at, up, inAir, latest, refused, astray>>
    BY DEF BeginMotion, Steps, IInv, px4, heard, story
  <1>2. PICK a \in Commands :
          /\ Sensible(a) /\ a.does \in MOTIONS /\ a.stage = "asked"
          /\ Take(a) /\ Ask(<<Command("gimbal", "", 0), a>>)
    BY <1>1, MotionAsked
  <1> DEFINE g == Command("gimbal", "", 0)
  <1>3. g \in Commands /\ Sensible(g) /\ g.does = "gimbal" /\ g.stage = "asked"
    BY Levels DEF Command, Commands, Stages, Sensible, Flight
  <1>0. PICK n \in Nat : n = Len(pending)
    BY <1>1 DEF TypeInv
  <1>4. /\ pending' \in Seq(Commands) /\ Len(pending') = n + 2 /\ n \in Nat /\ DOMAIN pending = 1 .. n
        /\ DOMAIN pending' = 1 .. n + 2 /\ \A j \in 1 .. n : pending'[j] = pending[j]
        /\ pending'[n + 1] = g /\ pending'[n + 2] = a
    BY <1>0, <1>1, <1>2, <1>3, AskedTwo
  <1> HIDE DEF g
  <1>5. \A j \in DOMAIN pending' : j \in DOMAIN pending \/ j = n + 1 \/ j = n + 2
    BY <1>4
  <1>6. current' = <<a>> /\ current'[1] = a /\ InHand(MOTIONS)' /\ ~InHand(MOTIONS)
    <2>1. current' = <<a>>
      BY <1>2 DEF Take
    <2>2. DOMAIN current' = {1} /\ current'[1] = a
      BY <2>1
    <2>3. InHand(MOTIONS)'
      BY <1>2, <2>2 DEF InHand
    <2>4. QED BY <1>1, <2>1, <2>2, <2>3, Hands
  <1>7. TypeInv'
    <2>1. \A j \in DOMAIN pending' : Sensible(pending'[j]) /\ pending'[j].does # "look"
      BY <1>1, <1>2, <1>3, <1>4, <1>5 DEF TypeInv, MOTIONS
    <2>2. \E b \in Commands : current' = <<b>> /\ Sensible(b) /\ b.does \in MOTIONS \cup {"look"}
      BY <1>2, <1>6
    <2>3. QED BY <1>1, <1>4, <2>1, <2>2 DEF TypeInv
  <1>8. AirInv' /\ ParkInv'
    BY <1>1 DEF IInv, AirInv, ParkInv
  <1>9. RefusedInv'
    BY <1>1, <1>2, <1>3, <1>4, <1>5 DEF IInv, RefusedInv
  <1>10. ASSUME Good' PROVE FlightInv'
    <2>1. FlightInv
      BY <1>1, <1>10 DEF Good, IInv
    <2>2. Mine(n + 2)' /\ Newest' = a /\ Len(pending') = n + 2
      BY <1>4, <1>6 DEF Mine, Newest
    <2>3. Waiting'
      BY <1>2, <2>2 DEF Waiting
    <2>4. \A j \in DOMAIN pending : HoldAfter(j)' <=> HoldAfter(j)
      <3>1. ~(g.does = "hold") /\ ~(a.does = "hold")
        BY <1>2, <1>3 DEF MOTIONS
      <3>2. QED BY <1>4, <1>5, <3>1 DEF HoldAfter
    <2>5. LeftInv'
      <3>1. \A j \in DOMAIN pending : /\ pending'[j] = pending[j] /\ ~Mine(j)
                                      /\ Stays(pending[j])' <=> Stays(pending[j])
        BY <1>1, <1>4, <1>6 DEF Mine, Stays
      <3>2. ~Flight(pending'[n + 1]) /\ pending'[n + 1].does # "return"
        BY <1>3, <1>4 DEF Flight
      <3>3. ~HoldAfter(n + 2)'
        BY <1>4 DEF HoldAfter
      <3>4. QED BY <1>1, <1>5, <2>1, <2>2, <2>4, <3>1, <3>2, <3>3 DEF FlightInv, LeftInv, Flight
    <2>6. HandInv' /\ RestInv' /\ HaltInv'
      BY <1>6, <2>3 DEF HandInv, RestInv, HaltInv
    <2>7. TakeoffInv'
      BY <1>1, <1>4, <1>6, <2>1 DEF FlightInv, TakeoffInv
    <2>8. CalmInv'
      <3>1. Calm
        BY <1>6, <2>1 DEF FlightInv, CalmInv
      <3>2. \A j \in DOMAIN pending : j \in DOMAIN pending' /\ pending'[j] = pending[j]
        BY <1>4
      <3>3. Calm'
        BY <1>1, <3>1, <3>2 DEF Calm, Resting
      <3>4. QED BY <3>3 DEF CalmInv
    <2>9. QED BY <2>5, <2>6, <2>7, <2>8 DEF FlightInv
  <1>11. QED BY <1>7, <1>8, <1>9, <1>10 DEF IInv

\* A look begins where the drone is.
LEMMA LookBegins == ASSUME IInv, BeginLook PROVE IInv'
  <1> DEFINE a == Command("look", "", 0)
  <1> DEFINE g == Command("gimbal", "", 0)
  <1> DEFINE n == Len(pending)
  <1>1. /\ phase = "flying" /\ current = <<>> /\ TypeInv /\ current' = <<a>> /\ Ask(<<g>>)
        /\ UNCHANGED <<mode, goal, at, up, inAir, latest, phase, position, altitude, answered, refused, astray>>
    BY DEF BeginLook, Steps, Take, IInv, px4, heard, story
  <1>2. /\ g \in Commands /\ Sensible(g) /\ g.does = "gimbal" /\ g.stage = "asked"
        /\ a \in Commands /\ Sensible(a) /\ a.does = "look"
    BY Levels DEF Command, Commands, Stages, Sensible, Flight
  <1>3. /\ pending' \in Seq(Commands) /\ Len(pending') = n + 1 /\ n \in Nat /\ DOMAIN pending = 1 .. n
        /\ DOMAIN pending' = 1 .. n + 1 /\ \A j \in 1 .. n : pending'[j] = pending[j]
        /\ pending'[n + 1] = g
    BY <1>1, <1>2, AskedOne
  <1> HIDE DEF a, g, n
  <1>4. \A j \in DOMAIN pending' : j \in DOMAIN pending \/ j = n + 1
    BY <1>3
  <1>5. ~InHand(MOTIONS)' /\ ~InHand(MOTIONS)
    <2>1. DOMAIN current' = {1} /\ current'[1] = a
      BY <1>1
    <2>2. ~InHand(MOTIONS)'
      BY <1>2, <2>1 DEF InHand, MOTIONS
    <2>3. QED BY <1>1, <2>2, Hands
  <1>6. TypeInv'
    <2>1. \A j \in DOMAIN pending' : Sensible(pending'[j]) /\ pending'[j].does # "look"
      BY <1>1, <1>2, <1>3, <1>4 DEF TypeInv
    <2>2. \E b \in Commands : current' = <<b>> /\ Sensible(b) /\ b.does \in MOTIONS \cup {"look"}
      BY <1>1, <1>2
    <2>3. QED BY <1>1, <1>3, <2>1, <2>2 DEF TypeInv
  <1>7. AirInv' /\ ParkInv'
    BY <1>1 DEF IInv, AirInv, ParkInv
  <1>8. RefusedInv'
    BY <1>1, <1>2, <1>3, <1>4 DEF IInv, RefusedInv
  <1>9. ASSUME Good' PROVE FlightInv'
    <2>1. FlightInv
      BY <1>1, <1>9 DEF Good, IInv
    <2>2. /\ \A j \in DOMAIN pending : j \in DOMAIN pending' /\ pending'[j] = pending[j] /\ ~Mine(j)
          /\ ~Moves(pending'[n + 1]) /\ ~Flight(pending'[n + 1]) /\ pending'[n + 1].does # "return"
      BY <1>2, <1>3, <1>5 DEF Mine, Moves, Flight
    <2>3. \A j \in DOMAIN pending : HoldAfter(j)' <=> HoldAfter(j)
      BY <1>2, <1>3, <1>4 DEF HoldAfter
    <2>4. LeftInv'
      <3>1. \A j \in DOMAIN pending : Stays(pending[j])' <=> Stays(pending[j])
        BY <1>1, <2>2 DEF Stays
      <3>2. QED BY <1>1, <1>4, <2>1, <2>2, <2>3, <3>1 DEF FlightInv, LeftInv, Flight
    <2>5. HandInv'
      BY <1>5 DEF HandInv
    <2>6. TakeoffInv'
      BY <1>1, <1>5, <2>1, <2>2 DEF FlightInv, TakeoffInv
    <2>7. CalmInv'
      BY <1>1, <1>5, <2>1, <2>2 DEF FlightInv, CalmInv, Calm, Resting
    <2>8. RestInv'
      BY <1>1, <1>5, <2>1 DEF FlightInv, RestInv
    <2>9. HaltInv'
      <3>1. SUFFICES ASSUME answered = "interrupted" PROVE HaltInv'
        BY <1>1 DEF HaltInv
      <3>2. CASE Quiet /\ mode \in {"landed", "hold"}
        BY <1>1, <1>4, <2>2, <3>2 DEF HaltInv, Quiet, Moves
      <3>3. ASSUME NEW h \in DOMAIN pending, pending[h].does = "hold",
                   \A j \in DOMAIN pending : j > h => ~Moves(pending[j])
            PROVE  HaltInv'
        <4>1. h \in DOMAIN pending' /\ pending'[h].does = "hold"
          BY <2>2, <3>3
        <4>2. \A j \in DOMAIN pending' : j > h => ~Moves(pending'[j])
          BY <1>4, <2>2, <3>3
        <4>3. QED BY <4>1, <4>2 DEF HaltInv, Moves
      <3>4. QED BY <1>5, <2>1, <3>1, <3>2, <3>3 DEF FlightInv, HaltInv
    <2>10. QED BY <2>4, <2>5, <2>6, <2>7, <2>8, <2>9 DEF FlightInv
  <1>10. QED BY <1>6, <1>7, <1>8, <1>9 DEF IInv

\* A look that is over leaves everything about the flight as it was.
LEMMA LookEnds ==
  ASSUME IInv, ~InHand(MOTIONS), current' = <<>>, position' \in Places, Good => position' = position
           \/ answered \notin {"fly", "return"},
         UNCHANGED <<px4, heard, pending, phase, altitude, answered, refused, astray>>
  PROVE  IInv'
  <1>1. ~InHand(MOTIONS)' /\ UNCHANGED <<mode, goal, at, up, inAir, latest>>
    BY DEF InHand, px4, heard
  <1>2. TypeInv'
    BY <1>1 DEF IInv, TypeInv
  <1>3. AirInv' /\ ParkInv' /\ RefusedInv'
    BY <1>1 DEF IInv, AirInv, ParkInv, RefusedInv
  <1>4. ASSUME Good' PROVE FlightInv'
    <2>1. FlightInv /\ Good
      BY <1>4 DEF Good, IInv
    <2>2. /\ \A k : ~Mine(k) /\ ~Mine(k)'
          /\ \A k : HoldAfter(k)' <=> HoldAfter(k)
          /\ Quiet' <=> Quiet
      BY <1>1 DEF Mine, HoldAfter, Quiet, Moves
    <2>3. LeftInv'
      BY <1>1, <2>1, <2>2 DEF FlightInv, LeftInv, Flight, Stays
    <2>4. HandInv' /\ TakeoffInv'
      BY <1>1, <2>1 DEF FlightInv, HandInv, TakeoffInv
    <2>5. CalmInv'
      BY <1>1, <2>1 DEF FlightInv, CalmInv, Calm, Resting
    <2>6. RestInv'
      BY <1>1, <2>1 DEF FlightInv, RestInv
    <2>7. HaltInv'
      BY <1>1, <2>1, <2>2 DEF FlightInv, HaltInv, Moves
    <2>8. QED BY <2>3, <2>4, <2>5, <2>6, <2>7 DEF FlightInv
  <1>5. QED BY <1>2, <1>3, <1>4 DEF IInv

\* A look is over in its time, or cut: the farm is told where the drone is, which is where it
\* believed it if it had rested there.
LEMMA LooksOver == ASSUME IInv, FinishLook \/ (Cut /\ ~InHand(MOTIONS)) PROVE IInv'
  <1>1. TypeInv /\ at \in Places \cup {Nowhere} /\ position \in Places /\ Nowhere \notin Places
    BY AirframeAssumption DEF IInv, TypeInv
  <1>2. CASE FinishLook
    <2>1. /\ InHand({"look"}) /\ current' = <<>> /\ position' = position
          /\ UNCHANGED <<px4, heard, pending, phase, altitude, answered, refused, astray>>
      BY <1>2 DEF FinishLook, Steps, End, story
    <2>2. ~InHand(MOTIONS)
      BY <1>1, <2>1, Hands DEF MOTIONS
    <2>3. QED BY <1>1, <2>1, <2>2, LookEnds
  <1>3. CASE Cut /\ ~InHand(MOTIONS)
    <2>1. /\ current' = <<>> /\ position' \in nearest(at) /\ astray' = (astray \/ FALSE)
          /\ UNCHANGED <<px4, heard, pending, phase, altitude, answered, refused>>
      BY <1>3 DEF Cut, Steps, Halt, End
    <2>2. astray' = astray
      BY <1>1, <2>1 DEF TypeInv
    <2>3. position' \in Places
      BY <1>1, <2>1 DEF nearest
    <2>4. Good /\ answered \in {"fly", "return"} => at = position
      BY <1>3 DEF IInv, FlightInv, RestInv, AirInv
    <2>5. Good => position' = position \/ answered \notin {"fly", "return"}
      BY <1>1, <2>1, <2>4 DEF nearest
    <2>6. QED BY <1>3, <2>1, <2>2, <2>3, <2>5, LookEnds
  <1>4. QED BY <1>2, <1>3

\* A motion is done when PX4 is where it was sent; what its takeoff still sends keeps it there.
LEMMA MotionDone ==
  ASSUME TypeInv, AirInv, FlightInv, RefusedInv, ~refused, InHand(MOTIONS), There(current[1]),
         UNCHANGED <<mode, goal, at, up, inAir, latest, pending>>, current' = <<>>,
         answered' = current[1].does, altitude' = current[1].above,
         position' = IF current[1].does = "climb" THEN position ELSE current[1].place
  PROVE  FlightInv'
  <1> DEFINE a == current[1]
  <1>1. a \in Commands /\ Sensible(a) /\ a.does \in MOTIONS /\ ~InHand(MOTIONS)'
    <2>1. ~InHand(MOTIONS)'
      BY DEF InHand
    <2>2. QED BY <2>1, Hands
  <1>2. /\ a.does \in {"fly", "climb"} => a.above \in High /\ up = a.above /\ up \in High
        /\ a.does = "fly" => at = a.place
        /\ a.does = "return" => ~latest /\ a.place = "shed" /\ a.above = 0
    BY <1>1 DEF There, Sensible, Flight
  <1>3. Mine(Len(pending)) =>
          /\ Newest.does = a.does /\ Newest.place = a.place /\ Newest.above = a.above
          /\ Sensible(Newest) /\ Newest.stage \in {"asked", "waits", "rises"}
    BY StagesOf DEF Mine, Newest, Facts
  <1>4. Lifting => /\ a.does \in {"fly", "climb"} /\ Newest.stage = "rises" /\ goal.above = up
                   /\ Len(pending) \in DOMAIN pending /\ mode \in {"takeoff", "hold"}
    BY <1>2, <1>3, Levels DEF Lifting, Sensible, Flight, Mine
  <1>5. a.does = "return" => up = 0 /\ mode = "landed"
    <2>1. SUFFICES ASSUME a.does = "return" PROVE up = 0 /\ mode = "landed"
      OBVIOUS
    <2>2. ~Lifting /\ up \notin High
      BY <1>2, <1>4, <2>1 DEF AirInv, TypeInv
    <2>3. mode # "takeoff"
      BY <2>2 DEF FlightInv, TakeoffInv, AirInv
    <2>4. up = 0
      BY <2>2, <2>3, Levels DEF FlightInv, TakeoffInv, TypeInv
    <2>5. QED BY <2>3, <2>4 DEF AirInv, TypeInv
  <1>6. \A k : HoldAfter(k)' <=> HoldAfter(k)
    BY DEF HoldAfter
  <1>7. LeftInv'
    <2>1. ASSUME NEW k \in DOMAIN pending, Flight(pending[k]), Mine(k) PROVE Stays(pending[k])
      <3>1. k = Len(pending) /\ Newest = pending[k] /\ Mine(Len(pending))
        BY <2>1 DEF Mine, Newest
      <3>2. a.does \in {"fly", "climb"} /\ pending[k].does = a.does
        BY <1>3, <2>1, <3>1 DEF Flight
      <3>3. Newest.stage # "waits"
        BY <1>4, <2>1, <3>1
           DEF FlightInv, HandInv, Waiting, Flying, Homing, Grounded, OnlyRising, Quiet, Moves, Flight
      <3>4. QED BY <1>2, <1>3, <3>1, <3>2, <3>3 DEF Stays
    <2>2. ASSUME NEW k \in DOMAIN pending, pending[k].does = "return", Mine(k) PROVE up = 0
      BY <1>5, <2>2 DEF Mine
    <2>3. QED BY <1>6, <2>1, <2>2 DEF FlightInv, LeftInv, Flight, Stays
  <1>8. HandInv' /\ HaltInv'
    BY <1>1 DEF HandInv, HaltInv, MOTIONS
  <1>9. TakeoffInv'
    BY <1>1, <1>4 DEF FlightInv, TakeoffInv, Newest
  <1>10. CalmInv'
    <2>1. Calm
      <3>1. CASE Waiting
        BY <3>1 DEF FlightInv, CalmInv
      <3>2. CASE Lifting
        BY <1>4, <3>2 DEF Calm
      <3>3. CASE Flying
        BY <1>2, <3>3 DEF Flying, Flight, SentTo, Calm, Resting
      <3>4. CASE Homing
        BY <1>5, <3>4 DEF Homing, Calm
      <3>5. CASE Grounded
        BY <3>5 DEF Grounded, Calm
      <3>6. QED BY <3>1, <3>2, <3>3, <3>4, <3>5 DEF FlightInv, HandInv
    <2>2. Calm'
      BY <2>1 DEF Calm, Resting
    <2>3. QED BY <2>2 DEF CalmInv
  <1>11. RestInv'
    BY <1>1, <1>2, <1>5 DEF RestInv, MOTIONS
  <1>12. QED BY <1>7, <1>8, <1>9, <1>10, <1>11 DEF FlightInv

\* A motion is done: the farm believes the drone where it sent it.
LEMMA MotionEnds == ASSUME IInv, FinishMotion PROVE IInv'
  <1> DEFINE a == current[1]
  <1>1. /\ TypeInv /\ phase = "flying" /\ InHand(MOTIONS) /\ There(a)
        /\ UNCHANGED <<mode, goal, at, up, inAir, latest, pending, phase, refused, astray>>
        /\ current' = <<>> /\ answered' = a.does
        /\ position' = (IF a.does = "climb" THEN position ELSE a.place) /\ altitude' = a.above
    BY DEF FinishMotion, Steps, IInv, End, px4, heard, story
  <1>2. a \in Commands /\ Sensible(a) /\ a.does \in MOTIONS
    BY <1>1, Hands
  <1>3. altitude' \in Heights \ {LIFT_OFF} /\ answered' \in MOTIONS /\ position' \in Places
    <2>1. a.does # "climb" => a.place \in Places
      BY <1>2, AirframeAssumption DEF Sensible, MOTIONS
    <2>2. a.above \in Heights \ {LIFT_OFF}
      BY <1>2, Levels DEF Sensible, Flight, MOTIONS
    <2>3. QED BY <1>1, <1>2, <2>1, <2>2 DEF TypeInv
  <1> HIDE DEF a
  <1>4. TypeInv'
    BY <1>1, <1>3 DEF TypeInv
  <1>5. AirInv' /\ ParkInv' /\ RefusedInv'
    BY <1>1 DEF IInv, AirInv, ParkInv, RefusedInv
  <1>6. ASSUME Good' PROVE FlightInv'
    <2>1. FlightInv /\ AirInv /\ RefusedInv /\ ~refused
      BY <1>1, <1>6 DEF Good, IInv
    <2>2. QED BY <1>1, <2>1, MotionDone DEF a
  <1>7. QED BY <1>4, <1>5, <1>6 DEF IInv

\* A motion cut, with no takeoff to come or under way: the hold is the newest command.
LEMMA MotionCut == ASSUME IInv, Cut, InHand(MOTIONS) PROVE IInv'
  <1> DEFINE h == Command("hold", "", 0)
  <1>0. PICK n \in Nat : n = Len(pending)
    BY DEF IInv, TypeInv
  <1>1. /\ TypeInv /\ phase = "flying" /\ Ask(<<h>>)
        /\ UNCHANGED <<mode, goal, at, up, inAir, latest, phase, refused, altitude>>
        /\ current' = <<>> /\ answered' = "interrupted" /\ position' \in nearest(at)
        /\ astray' = (astray \/ TakingOff)
    BY DEF Cut, Steps, IInv, End, Halt, px4, heard
  <1>2. h \in Commands /\ Sensible(h) /\ h.does = "hold" /\ h.stage = "asked"
    BY Levels DEF Command, Commands, Stages, Sensible, Flight
  <1>3. /\ pending' \in Seq(Commands) /\ Len(pending') = n + 1 /\ DOMAIN pending = 1 .. n
        /\ DOMAIN pending' = 1 .. n + 1 /\ \A j \in 1 .. n : pending'[j] = pending[j]
        /\ pending'[n + 1] = h
    BY <1>0, <1>1, <1>2, AskedOne
  <1> HIDE DEF h
  <1>4. \A j \in DOMAIN pending' : j \in DOMAIN pending \/ j = n + 1
    BY <1>3
  <1>5. ~InHand(MOTIONS)'
    BY <1>1 DEF InHand
  <1>6. TypeInv'
    <2>1. \A j \in DOMAIN pending' : Sensible(pending'[j]) /\ pending'[j].does # "look"
      BY <1>1, <1>2, <1>3, <1>4 DEF TypeInv
    <2>2. position' \in Places
      BY <1>1 DEF nearest, TypeInv
    <2>3. astray' \in BOOLEAN
      BY <1>1 DEF TypeInv, TakingOff
    <2>4. QED BY <1>1, <1>3, <2>1, <2>2, <2>3 DEF TypeInv
  <1>7. AirInv' /\ ParkInv'
    BY <1>1 DEF IInv, AirInv, ParkInv
  <1>8. RefusedInv'
    BY <1>1, <1>2, <1>3, <1>4 DEF IInv, RefusedInv
  <1>9. ASSUME Good' PROVE FlightInv'
    <2>1. ~astray' /\ ~refused
      BY <1>1, <1>9 DEF Good
    <2>2. ~astray /\ ~TakingOff
      BY <1>1, <2>1, Zenon
    <2>3. FlightInv /\ AirInv /\ Facts
      BY <1>1, <2>1, <2>2 DEF Good, IInv, Facts
    <2>4. \A k \in DOMAIN pending : Flight(pending[k]) => pending[k].stage = "asked" /\ inAir /\ up # 0
      <3>1. SUFFICES ASSUME NEW k \in DOMAIN pending, Flight(pending[k])
                     PROVE  pending[k].stage = "asked" /\ inAir /\ up # 0
        OBVIOUS
      <3>2. pending[k].stage # "failed"
        BY <2>3, StagesOf
      <3>3. pending[k].does \in {"fly", "climb"}
        BY <3>1 DEF Flight
      <3>4. QED BY <2>2, <3>2, <3>3, Zenon DEF TakingOff
    <2>5. \A k \in DOMAIN pending : pending[k].stage # "rises" /\ pending[k].stage # "waits"
      BY <2>3, <2>4, StagesOf
    <2>6. ~Lifting
      BY <2>5 DEF Lifting, Mine, Newest
    <2>7. mode # "takeoff" /\ up # LIFT_OFF
      BY <2>3, <2>5, <2>6 DEF FlightInv, TakeoffInv
    <2>8. \A k \in DOMAIN pending : HoldAfter(k)'
      <3>1. SUFFICES ASSUME NEW k \in DOMAIN pending PROVE HoldAfter(k)'
        OBVIOUS
      <3>2. n + 1 \in DOMAIN pending' /\ n + 1 > k /\ pending'[n + 1].does = "hold"
        BY <1>2, <1>3
      <3>3. QED BY <3>2 DEF HoldAfter
    <2>9. LeftInv'
      <3>1. ASSUME NEW k \in DOMAIN pending, Flight(pending[k])
            PROVE  pending[k].stage = "asked" /\ inAir = TRUE /\ up \in High
        <4>1. up \in High
          BY <1>1, <2>4, <2>7, <3>1, Levels DEF TypeInv
        <4>2. QED BY <1>1, <2>4, <3>1, <4>1 DEF TypeInv
      <3>2. ~Flight(pending'[n + 1]) /\ pending'[n + 1].does # "return"
        BY <1>2, <1>3 DEF Flight
      <3>3. QED BY <1>1, <1>3, <1>4, <2>8, <3>1, <3>2 DEF LeftInv, Flight
    <2>10. HandInv' /\ TakeoffInv' /\ RestInv'
      BY <1>1, <1>5, <2>7 DEF HandInv, TakeoffInv, RestInv
    <2>11. n + 1 \in DOMAIN pending' /\ \A j \in DOMAIN pending' : ~(j > n + 1)
      BY <1>3
    <2>12. CalmInv' /\ HaltInv'
      BY <1>2, <1>3, <2>11 DEF CalmInv, Calm, HaltInv
    <2>13. QED BY <2>9, <2>10, <2>12 DEF FlightInv
  <1>10. QED BY <1>6, <1>7, <1>8, <1>9 DEF IInv

-----------------------------------------------------------------------------
(***************************************************************************)
(* The morning.                                                            *)
(***************************************************************************)
\* A morning starts anew when the drone is heard to be down, which it is unless it went astray.
LEMMA MorningBegins ==
  ASSUME IInv, NewMorning, ~latest, UNCHANGED <<px4, heard, refused>>, astray' \in BOOLEAN,
         ~astray' => up = 0 /\ mode # "takeoff",
         pending' \in Seq(Commands),
         \A k \in DOMAIN pending' : /\ Sensible(pending'[k]) /\ pending'[k].does = "return"
                                    /\ ~refused => pending'[k].stage # "failed"
  PROVE  IInv'
  <1>1. /\ phase' = "flying" /\ current' = <<>> /\ answered' = "return" /\ position' = "shed" /\ altitude' = 0
        /\ UNCHANGED <<mode, goal, at, up, inAir, latest, refused>>
    BY DEF NewMorning, px4, heard
  <1>2. ~InHand(MOTIONS)'
    BY <1>1 DEF InHand
  <1>3. TypeInv'
    BY <1>1, AirframeAssumption, Levels DEF IInv, TypeInv, MOTIONS
  <1>4. AirInv' /\ ParkInv' /\ RefusedInv'
    BY <1>1 DEF IInv, AirInv, ParkInv, RefusedInv
  <1>5. ASSUME Good' PROVE FlightInv'
    <2>1. up = 0 /\ mode = "landed"
      BY <1>5 DEF Good, IInv, AirInv, TypeInv
    <2>2. LeftInv'
      BY <1>1, <2>1 DEF LeftInv, Flight
    <2>3. QED BY <1>1, <1>2, <2>1, <2>2, Levels
              DEF FlightInv, HandInv, TakeoffInv, CalmInv, Calm, RestInv, HaltInv
  <1>6. QED BY <1>3, <1>4, <1>5 DEF IInv

\* A morning is restarted: at once when the drone is heard to be down, else by sending it home.
LEMMA Restarts ==
  ASSUME IInv, Restart
  PROVE  /\ IInv'
         /\ latest => morning' = morning
         /\ ~latest /\ ~astray' => up = 0 /\ at = "shed" /\ mode # "takeoff"
         /\ ~latest => pending' = <<>>
  <1>1. /\ TypeInv /\ phase = "flying" /\ UNCHANGED <<px4, heard, refused>>
        /\ astray' = ~Told /\ astray' \in BOOLEAN
    BY DEF IInv, Restart, Steps
  <1>2. ~astray' => Told /\ latest = inAir /\ (inAir = TRUE => up # 0) /\ (inAir = FALSE => up = 0)
    BY <1>1, WhatIsCaught DEF Told
  <1>3. CASE latest
    <2> DEFINE c == Command("return", "shed", 0)
    <2>1. pending' = <<c>> /\ phase' = "parking" /\ UNCHANGED sim /\ morning' = morning
      BY <1>3 DEF Restart, ParkCancels
    <2>2. c \in Commands /\ Sensible(c) /\ c.does = "return" /\ c.stage = "asked"
      BY AirframeAssumption, Levels DEF Command, Commands, Stages, Sensible, Flight
    <2> HIDE DEF c
    <2>3. pending' \in Seq(Commands) /\ DOMAIN pending' = {1} /\ pending'[1] = c
      BY <2>1, <2>2
    <2>4. TypeInv'
      BY <1>1, <2>1, <2>2, <2>3 DEF TypeInv, px4, heard, sim
    <2>5. ParkInv'
      BY <1>1, <1>2, <1>3, <2>2, <2>3 DEF TypeInv, ParkInv, px4, heard
    <2>6. AirInv' /\ RefusedInv'
      BY <1>1, <2>2, <2>3 DEF IInv, AirInv, RefusedInv, px4, heard
    <2>7. QED BY <1>3, <2>1, <2>4, <2>5, <2>6 DEF IInv, Good
  <1>4. CASE ~latest
    <2>1. pending' = <<>> /\ NewMorning
      BY <1>4 DEF Restart, ParkCancels
    <2>2. ~astray' => up = 0 /\ mode # "takeoff"
      BY <1>1, <1>2, <1>4 DEF Told, TypeInv
    <2>3. ~astray' => at = "shed"
      BY <2>2 DEF IInv, AirInv
    <2>4. QED BY <1>1, <1>4, <2>1, <2>2, <2>3, MorningBegins
  <1>5. QED BY <1>3, <1>4

\* The drone has come home: what it was sent to do is all that can be left.
LEMMA ComesHome ==
  ASSUME IInv, Parked
  PROVE  /\ IInv'
         /\ ~astray' => up = 0 /\ at = "shed" /\ mode # "takeoff"
         /\ \A k \in DOMAIN pending' : pending'[k].does = "return"
  <1>1. /\ TypeInv /\ phase = "parking" /\ ~latest /\ at = "shed" /\ NewMorning
        /\ UNCHANGED <<px4, heard, pending, refused>> /\ astray' = astray /\ astray \in BOOLEAN
    BY DEF IInv, TypeInv, Parked, story
  <1>2. \A k \in DOMAIN pending : pending[k].does = "return"
    BY <1>1 DEF IInv, ParkInv
  <1>3. ~astray' => up = 0 /\ mode # "takeoff"
    BY <1>1 DEF IInv, ParkInv
  <1>4. /\ pending' \in Seq(Commands)
        /\ \A k \in DOMAIN pending' : /\ Sensible(pending'[k]) /\ pending'[k].does = "return"
                                      /\ ~refused => pending'[k].stage # "failed"
    BY <1>1, <1>2 DEF IInv, TypeInv, RefusedInv
  <1>5. QED BY <1>1, <1>3, <1>4, MorningBegins

-----------------------------------------------------------------------------
(***************************************************************************)
(* The invariant, and what it gives.                                       *)
(***************************************************************************)
\* The first morning: landed on its pad, nothing asked.
LEMMA InvInit == ASSUME Init PROVE IInv
  <1>1. TypeInv
    <2>1. goal \in [place : Places \cup {Nowhere}, above : Heights]
      BY AirframeAssumption, Levels DEF Init
    <2>2. pending \in Seq(Commands) /\ DOMAIN pending = {}
      BY DEF Init
    <2>3. QED BY <2>1, <2>2, AirframeAssumption, Levels DEF Init, TypeInv, MOTIONS
  <1>2. ~InHand(MOTIONS)
    BY DEF Init, InHand
  <1>3. AirInv /\ ParkInv /\ RefusedInv
    BY Levels DEF Init, AirInv, ParkInv, RefusedInv
  <1>4. FlightInv
    BY <1>2, Levels DEF Init, FlightInv, LeftInv, HandInv, TakeoffInv, CalmInv, Calm, RestInv, HaltInv
  <1>5. QED BY <1>1, <1>3, <1>4 DEF IInv

\* Every step keeps it.
LEMMA InvStep == ASSUME IInv, [Next]_vars PROVE IInv'
  <1>1. CASE Px4Moves \/ FollowInAir \/ FollowPosition
    BY <1>1, Px4Flies, TelemetryFollows
  <1>2. CASE Link \/ \E k \in DOMAIN pending : Refusal(k)
    BY <1>2, LinkTurns DEF Link
  <1>3. CASE BeginMotion \/ BeginLook
    BY <1>3, MotionBegins, LookBegins
  <1>4. CASE FinishMotion \/ FinishLook \/ Cut
    BY <1>4, MotionEnds, MotionCut, LooksOver
  <1>5. CASE FindsRefusal \/ TimesOut \/ ParkRefused
    BY <1>5, Crashes DEF FindsRefusal, TimesOut, ParkRefused
  <1>6. CASE Restart \/ Parked
    BY <1>6, Restarts, ComesHome
  <1>7. CASE TakePhoto \/ KeepPhoto \/ CameraFails
    <2>1. UNCHANGED <<px4, heard, pending, phase, sim, astray>> /\ refused' \in {refused, TRUE}
      BY <1>7 DEF TakePhoto, KeepPhoto, CameraFails, CameraStep, story
    <2>2. QED BY <2>1, OnlyRefused
  <1>8. CASE UNCHANGED vars
    BY <1>8, OnlyRefused DEF vars, story
  <1>9. QED BY <1>1, <1>2, <1>3, <1>4, <1>5, <1>6, <1>7, <1>8 DEF Next

\* A cut motion stops where it is, whatever it still had in hand but a takeoff (sim.py:353,
\* px4.py:434).
THEOREM StopsWhereItIs == Spec => []Halted
  <1>1. IInv => Halted
    <2>1. SUFFICES ASSUME IInv, answered = "interrupted", phase = "flying", ~InHand(MOTIONS), ~refused,
                          ~astray, ~Unfinished({"hold"})
                   PROVE  mode \in {"landed", "hold"}
      BY DEF Halted
    <2>2. FlightInv /\ RefusedInv
      BY <2>1 DEF IInv, Good
    <2>3. ~\E k \in DOMAIN pending : pending[k].does = "hold"
      BY <2>1, <2>2 DEF Unfinished, RefusedInv
    <2>4. QED BY <2>1, <2>2, <2>3 DEF FlightInv, HaltInv
  <1>2. QED BY <1>1, InvInit, InvStep, PTL DEF Spec

\* A flight said to be done has the drone over its place, at the height the farm believes, and
\* stays there until the next, whatever its takeoff's coroutine still sends (px4.py:407).
THEOREM DoneIsDone == Spec => []TruthTold
  <1>1. IInv => TruthTold
    <2>1. SUFFICES ASSUME IInv, current = <<>>, phase = "flying", ~refused, ~astray
                   PROVE  /\ answered \in {"fly", "return"} => at = position
                          /\ answered \in MOTIONS => up = altitude
      BY DEF TruthTold
    <2>2. ~InHand(MOTIONS)
      BY <2>1, Hands DEF IInv
    <2>3. RestInv /\ AirInv
      BY <2>1 DEF IInv, Good, FlightInv
    <2>4. QED BY <2>2, <2>3 DEF RestInv, AirInv, MOTIONS
  <1>2. QED BY <1>1, InvInit, InvStep, PTL DEF Spec

\* A morning starts with the drone on its pad and nothing left that would fly it off, unless it was
\* restarted before the telemetry showed the takeoff (px4.py:288, live.py:199).
THEOREM MorningsStartParked == Spec => StartsOnPad
  <1> DEFINE OnPad ==
        morning' # morning /\ ~astray' =>
          /\ up = 0 /\ at = "shed" /\ mode # "takeoff"
          /\ \A k \in DOMAIN pending' : pending'[k].stage = "failed" \/ pending'[k].does = "return"
  <1>1. ASSUME IInv, [Next]_vars PROVE OnPad
    <2>1. CASE Parked
      BY <1>1, <2>1, ComesHome
    <2>2. CASE Restart
      <3>1. latest \/ ~latest
        OBVIOUS
      <3>2. QED BY <1>1, <2>2, <3>1, Restarts
    <2>3. CASE ~Parked /\ ~Restart
      <3>1. ASSUME NEW k \in DOMAIN pending, LinkStep(k) PROVE morning' = morning
        BY <3>1 DEF LinkStep, count
      <3>2. CASE Link \/ \E k \in DOMAIN pending : Refusal(k)
        BY <3>1, <3>2 DEF Link, Refusal, Airborne, SeesTakeoff, SeesItOver, Hold, ReturnToLaunch, Gimbal
      <3>3. CASE ~Link /\ ~\E k \in DOMAIN pending : Refusal(k)
        BY <1>1, <2>3, <3>3 DEF Next, Px4Moves, FollowInAir, FollowPosition, BeginMotion, BeginLook,
          FinishMotion, FinishLook, Cut, FindsRefusal, TimesOut, ParkRefused, Crash, TakePhoto, KeepPhoto,
          CameraFails, CameraStep, count, vars
      <3>4. QED BY <3>2, <3>3
    <2>4. QED BY <2>1, <2>2, <2>3
  <1>2. QED BY <1>1, InvInit, InvStep, PTL DEF Spec, StartsOnPad
=============================================================================
