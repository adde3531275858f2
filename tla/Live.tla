--------------------------------- MODULE Live ---------------------------------
(***************************************************************************)
(* The live pages of the farm and of the atrium and their recordings       *)
(* (live.py and recording.py of zeos-farm-drone and zeos-stretch): the     *)
(* HTTP threads that queue what a person asks, the thread that steps the   *)
(* kernel, builds a new morning on a restart and records every step, the   *)
(* end of the process by close or by kill, and the replay of what is left  *)
(* on disk.                                                                *)
(*                                                                         *)
(* What a step does is left open, but for the one question it may put to   *)
(* its command source; the kernel is deterministic, so the replay of a     *)
(* step asks when the step asked.                                          *)
(***************************************************************************)
EXTENDS Integers, Sequences, FiniteSets, SequencesExt

CONSTANTS
  Apps,         \* which of the two pages: a subset of {"farm", "stretch"}
  Controls,     \* what the page can ask for, restart aside
  Single,       \* those the farm refuses while one is queued or under way
  MaxClicks,    \* bound: clicks
  MaxSteps,     \* bound: steps of a morning
  MaxMornings   \* bound: mornings built

ASSUME LiveAssumption ==
  /\ Apps \subseteq {"farm", "stretch"} /\ Single \subseteq Controls /\ "restart" \notin Controls
  /\ MaxClicks \in Nat /\ MaxSteps \in Nat /\ MaxMornings \in Nat \ {0}

VARIABLES
  app,        \* which page this is
  process,    \* "up", "closing", "closed", "left" (closed, a turn still in hand) or "killed",
              \* then "replaying" and "replayed" or "lost"
  restart,    \* farm: _restart, a restart is wanted
  inbox,      \* _inbox: what the person asked, in order
  pc,         \* where the stepping thread is
  asked,      \* what it took from the inbox
  on,         \* the single things under way on this morning's farm
  crash,      \* _crash: what the page says stopped it, or "none"
  recorder,   \* whether this morning's recorder is open
  buffered,   \* what it has written and not flushed: step lines, journal
  disk,       \* per recording: step lines, the steps whose command is there, journal
  lived,      \* history, per morning: whether each step asked its source
  doubled,    \* history: the single things begun while under way
  played,     \* a replay: which recording, of what end, and how many of its steps
  judged,     \* farm: what HTTP threads have found possible and not yet queued
  misjudged,  \* history: the single things found possible while one like it was in an HTTP thread's
              \* hands, or taken and not yet under way
  between,    \* history: whether a restart fell between the two looks `once` takes at the inbox
  clicks      \* count, for the bound

pressed  == <<judged, misjudged, between, clicks>>
page     == <<restart, inbox, pressed>>
stepping == <<pc, asked, on, crash, doubled>>
files    == <<recorder, buffered, disk, lived>>
vars     == <<app, process, page, stepping, files, played>>

morning == Len(disk)
Blank   == [steps |-> 0, journal |-> 0]

Init ==
  /\ app \in Apps /\ process = "up"
  /\ restart = FALSE /\ inbox = <<>>
  /\ judged = <<>> /\ misjudged = {} /\ between = FALSE /\ clicks = 0
  /\ pc = "build" /\ asked = <<>> /\ on = {} /\ crash = "none" /\ doubled = {}
  /\ recorder = FALSE /\ buffered = Blank /\ disk = <<>> /\ lived = <<>>
  /\ played = [of |-> 0, after |-> "none", steps |-> 0]

-----------------------------------------------------------------------------
(***************************************************************************)
(* The HTTP threads.                                                       *)
(***************************************************************************)
\* The page is served from the first build on, until the process ends.
Served == process = "up" /\ morning > 0

Click == Served /\ clicks < MaxClicks /\ clicks' = clicks + 1

Aside == UNCHANGED <<app, process, stepping, files, played>>

\* Mutant: what is queued is not looked at.
PossibleOnTheFarm(what) == what \in Single => what \notin on

\* _possible: refused while one is queued or under way.
Possible(what) == what \in Single => what \notin on \cup Range(inbox)

\* ask (farm): found possible, by the farm as it is then; before the first is built there is none.
Judge(what) ==
  /\ app = "farm" /\ Click /\ (morning > 1 \/ disk[1].journal > 0)
  /\ Possible(what) /\ judged' = Append(judged, what)
  /\ misjudged' = misjudged \cup ({what} \cap Single \cap (Range(judged) \cup Range(asked)))
  /\ UNCHANGED <<restart, inbox, between>> /\ Aside

\* ... and then queued, under the lock taken anew.
Queue(k) ==
  /\ Served /\ inbox' = Append(inbox, judged[k])
  /\ judged' = RemoveAt(judged, k)
  /\ UNCHANGED <<restart, misjudged, between, clicks>> /\ Aside

AskRestart ==
  /\ app = "farm" /\ Click /\ morning < MaxMornings
  /\ restart' = TRUE /\ UNCHANGED <<inbox, judged, misjudged, between>> /\ Aside

\* ask (stretch) refuses nothing that it has a control for.
AskStretch(what) ==
  /\ app = "stretch" /\ Click /\ (what = "restart" => morning < MaxMornings)
  /\ inbox' = Append(inbox, what)
  /\ between' = (between \/ (what = "restart" /\ pc = "take"))
  /\ UNCHANGED <<restart, judged, misjudged>> /\ Aside

Asks ==
  \/ (\E what \in Controls : Judge(what)) \/ (\E k \in DOMAIN judged : Queue(k)) \/ AskRestart
  \/ \E what \in Controls \cup {"restart"} : AskStretch(what)

-----------------------------------------------------------------------------
(***************************************************************************)
(* The stepping thread: _build, then once after once.                      *)
(***************************************************************************)
Thread == process \in {"up", "closing", "left"} /\ UNCHANGED <<app, process, played, pressed>>

Flushed(r) ==
  [steps    |-> r.steps + buffered.steps,
   commands |-> r.commands,
   journal  |-> r.journal + buffered.journal]

\* Recorder.close writes out what is buffered.
Shut(recordings) ==
  IF recorder THEN [recordings EXCEPT ![Len(recordings)] = Flushed(@)] ELSE recordings

\* _build, to the new recording.
Open ==
  /\ pc = "build" /\ morning < MaxMornings /\ pc' = "open"
  /\ disk' = Append(Shut(disk), [steps |-> 0, commands |-> {}, journal |-> 0])
  /\ lived' = Append(lived, <<>>) /\ recorder' = TRUE /\ buffered' = Blank
  /\ UNCHANGED <<restart, inbox, asked, on, crash, doubled>> /\ Thread

\* _build, the drone parked, a new farm started and the journal of that kept.
Start ==
  /\ pc = "open" /\ recorder /\ pc' = "once" /\ on' = {}
  /\ disk' = [disk EXCEPT ![morning].journal = 1]
  /\ UNCHANGED <<restart, inbox, asked, crash, doubled, recorder, buffered, lived>> /\ Thread

\* A build may raise, before its recording is there or after. The first has no one to catch it, so
\* the page does not say; a later one is part of a step.
FailsToBuild ==
  /\ pc \in {"build", "open"} /\ pc' = "stopped"
  /\ crash' = IF morning = 0 \/ (morning = 1 /\ pc = "open") THEN crash ELSE "build"
  /\ UNCHANGED <<restart, inbox, asked, on, doubled, files>> /\ Thread

\* loop looks at _stopping only here.
Stops ==
  /\ pc = "once" /\ process = "closing" /\ pc' = "stopped"
  /\ UNCHANGED <<restart, inbox, asked, on, crash, doubled, files>> /\ Thread

\* Mutant: a restart is looked for only at the head.
RestartAsksFirst == inbox # <<>> /\ Head(inbox) = "restart"

RestartAsked == "restart" \in Range(inbox)

\* once, under its first lock.
TakeRestart ==
  LET wanted == IF app = "farm" THEN restart ELSE RestartAsked IN
  /\ pc = "once" /\ process = "up"
  /\ restart' = FALSE
  /\ IF wanted
       THEN pc' = "build" /\ inbox' = <<>>
       ELSE pc' = "take" /\ UNCHANGED inbox
  /\ UNCHANGED <<asked, on, crash, doubled, files>> /\ Thread

\* once, under its second lock.
TakeClicks ==
  /\ pc = "take" /\ Len(lived[morning]) < MaxSteps
  /\ asked' = inbox /\ inbox' = <<>> /\ pc' = "act"
  /\ UNCHANGED <<restart, on, crash, doubled, files>> /\ Thread

Raise(why) == pc' = "stopped" /\ crash' = why

Begun(what) == Cardinality({k \in DOMAIN asked : asked[k] = what}) + (IF what \in on THEN 1 ELSE 0)

\* act, then the step's line, which stays in its buffer; some acts begin what they are for at once.
\* The atrium has no act for a restart.
Act ==
  /\ pc = "act"
  /\ IF "restart" \in Range(asked)
       THEN Raise("no such act") /\ UNCHANGED <<on, doubled, buffered, lived>>
       ELSE /\ pc' = "step"
            /\ on' \in {on \cup begun : begun \in SUBSET (Range(asked) \cap Single)}
            /\ doubled' = doubled \cup {what \in Single : Begun(what) > 1}
            /\ buffered' = [buffered EXCEPT !.steps = @ + 1]
            /\ lived' = [lived EXCEPT ![morning] = Append(@, FALSE)]
            /\ UNCHANGED crash
  /\ UNCHANGED <<restart, inbox, asked, recorder, disk>> /\ Thread

\* The tick: what was asked is under way, some of it over; and it may need a command.
Step ==
  /\ pc = "step" /\ on' \in SUBSET (on \cup (Range(asked) \cap Single)) /\ asked' = <<>>
  /\ \/ pc' = "journal" /\ UNCHANGED lived
     \/ pc' = "ask" /\ lived' = [lived EXCEPT ![morning][Len(lived[morning])] = TRUE]
  /\ UNCHANGED <<restart, inbox, crash, doubled, recorder, buffered, disk>> /\ Thread

\* Mutant: the command waits in its buffer.
CommandBuffered == UNCHANGED disk

\* Recorder.command writes and flushes at once.
CommandKept == disk' = [disk EXCEPT ![morning].commands = @ \cup {Len(lived[morning])}]

Answered ==
  /\ pc = "ask" /\ recorder /\ pc' = "journal"
  /\ CommandKept
  /\ UNCHANGED <<restart, inbox, asked, on, crash, doubled, recorder, buffered, lived>> /\ Thread

SourceFails ==
  /\ pc = "ask" /\ Raise("source")
  /\ UNCHANGED <<restart, inbox, asked, on, doubled, files>> /\ Thread

\* A recorder closed under the thread's feet.
WritesToClosed ==
  /\ pc = "ask" /\ ~recorder /\ Raise("closed file")
  /\ UNCHANGED <<restart, inbox, asked, on, doubled, files>> /\ Thread

\* Recorder.journal flushes the steps, then the journal.
FlushSteps ==
  /\ pc = "journal" /\ pc' = "publish"
  /\ disk' = [disk EXCEPT ![morning].steps = @ + buffered.steps]
  /\ buffered' = [steps |-> 0, journal |-> 1]
  /\ UNCHANGED <<restart, inbox, asked, on, crash, doubled, recorder, lived>> /\ Thread

FlushJournal ==
  /\ pc = "publish" /\ pc' = "once"
  /\ disk' = [disk EXCEPT ![morning].journal = @ + buffered.journal]
  /\ buffered' = Blank
  /\ UNCHANGED <<restart, inbox, asked, on, crash, doubled, recorder, lived>> /\ Thread

-----------------------------------------------------------------------------
(***************************************************************************)
(* The end of the process, and a replay of what it left.                   *)
(***************************************************************************)
Close ==
  /\ process = "up" /\ process' = "closing"
  /\ UNCHANGED <<app, page, stepping, files, played>>

\* Mutant: the recording is closed, then the thread waited for.
JoinedFirst == TRUE

\* A thread waiting for an answer, or for the drone to be parked, may outlast close's patience.
Outlasts == pc = "ask" \/ (pc = "open" /\ app = "farm")
Joined   == pc = "stopped" \/ Outlasts

CloseRecorder ==
  /\ process = "closing" /\ Joined /\ process' = (IF Outlasts THEN "left" ELSE "closed")
  /\ disk' = Shut(disk) /\ buffered' = Blank /\ recorder' = FALSE
  /\ UNCHANGED <<app, page, stepping, lived, played>>

Kill ==
  /\ process \in {"up", "closing"} /\ process' = "killed"
  /\ buffered' = Blank /\ recorder' = FALSE /\ pc' = "stopped"
  /\ UNCHANGED <<app, page, asked, on, crash, doubled, disk, lived, played>>

\* Recording.load of any of them.
Replay(m) ==
  /\ process \in {"closed", "left", "killed"} /\ process' = "replaying"
  /\ played' = [of |-> m, after |-> process, steps |-> 0]
  /\ UNCHANGED <<app, page, stepping, files>>

\* RecordedSource: the command that the recorded session's source gave.
Recorded(m, n) == lived[m][n] => n \in disk[m].commands

ReplayStep ==
  LET next == played.steps + 1 IN
  /\ process = "replaying" /\ next <= disk[played.of].steps
  /\ IF Recorded(played.of, next) THEN played' = [played EXCEPT !.steps = next] /\ UNCHANGED process
     ELSE process' = "lost" /\ UNCHANGED played
  /\ UNCHANGED <<app, page, stepping, files>>

ReplayEnds ==
  /\ process = "replaying" /\ played.steps = disk[played.of].steps /\ process' = "replayed"
  /\ UNCHANGED <<app, page, stepping, files, played>>

-----------------------------------------------------------------------------
Farm ==
  \/ Open \/ Start \/ FailsToBuild \/ Stops \/ TakeRestart \/ TakeClicks \/ Act \/ Step
  \/ Answered \/ WritesToClosed \/ FlushSteps \/ FlushJournal

Next ==
  \/ Asks \/ Farm \/ SourceFails \/ Close \/ CloseRecorder \/ Kill
  \/ (\E m \in DOMAIN disk : Replay(m)) \/ ReplayStep \/ ReplayEnds

Spec == Init /\ [][Next]_vars

-----------------------------------------------------------------------------
(* Every command that a step on disk needs is on disk, whenever the server was
   killed: the replay reaches its last step. A session whose last turn failed
   or was left at the close ends where it ended then (recording.py:67,
   recording.py:106). *)
RecordingsReplay ==
  process = "lost" => played.of = morning /\ (crash # "none" \/ played.after = "left")

(* Every morning but the last replays to the journal it recorded, and so does the
   last if its page was closed after whole steps; one that was killed, left or
   crashed replays to no less, and one never built has recorded nothing
   (recording.py:17, live.py:335). *)
JournalsMatch ==
  process = "replayed" =>
    LET r == disk[played.of] IN
      \/ r.journal = 1 + r.steps
      \/ /\ played.of = morning /\ r.journal <= r.steps + 1
         /\ played.after # "closed" \/ crash # "none" \/ r.steps + r.journal = 0

(* No click stops the farm, and none the atrium but a restart that falls between
   the two looks a step takes at the inbox (live.py:552, stretch live.py:213,
   stretch live.py:376). *)
ClicksNeverStopIt == crash = "no such act" => app = "stretch" /\ between

(* The patrol and the like are one at a time, unless two HTTP threads judged one
   each, or one was judged while the step was taking another: by what is queued
   and what is under way it never is (live.py:521, live.py:302). *)
OneOfEach == doubled \subseteq misjudged \/ app = "stretch"

(* "a click queued behind a model's turn is judged by the farm it finds"
   (live.py:522); no patrol sets out while one is out. *)
NeverTwo == app = "farm" => doubled = {}

(* A restart, like any control the page has, stops nothing (stretch live.py:376). *)
NothingStopsIt == crash # "no such act"
=============================================================================
