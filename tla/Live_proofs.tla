------------------------------ MODULE Live_proofs ------------------------------
(***************************************************************************)
(* What is proved of Live, for either page, any controls and any number of *)
(* clicks, steps and mornings; and of Claude, the source that its steps    *)
(* ask, for any number of jobs and acts.                                   *)
(***************************************************************************)
EXTENDS Live, Claude, FiniteSetTheorems, SequenceTheorems, TLAPS

(***************************************************************************)
(* The inductive invariant.  What a replay finds on disk depends on where  *)
(* the stepping thread was when the process ended, so the invariant says,  *)
(* for every place the thread can be in, what of the latest morning is     *)
(* flushed, what waits in the buffer, and whether the last step has its    *)
(* command; every earlier morning is whole.                                *)
(***************************************************************************)
Wishes     == Controls \cup {"restart"}
Lines      == [steps : Nat, journal : Nat]
Recording  == [steps : Nat, commands : SUBSET Nat, journal : Nat]
Recordings == Seq(Recording)
Replayed   == {"replaying", "replayed", "lost"}
Replays    == [of : Nat, after : {"none", "closed", "left", "killed"}, steps : Nat]

TypeOK ==
  /\ app \in Apps
  /\ process \in {"up", "closing", "closed", "left", "killed"} \cup Replayed
  /\ restart \in BOOLEAN /\ inbox \in Seq(Wishes)
  /\ judged \in Seq(Controls) /\ misjudged \subseteq Single /\ between \in BOOLEAN /\ clicks \in Nat
  /\ pc \in {"build", "open", "once", "take", "act", "step", "ask", "journal", "publish", "stopped"}
  /\ asked \in Seq(Wishes) /\ on \subseteq Single
  /\ crash \in {"none", "no such act", "source", "closed file", "build"}
  /\ recorder \in BOOLEAN /\ buffered \in Lines
  /\ disk \in Recordings
  /\ lived \in Seq(Seq(BOOLEAN)) /\ doubled \subseteq Single
  /\ played \in Replays

\* How the server ended, also while what it left is replayed.
End == IF process \in Replayed THEN played.after ELSE process

EndInv ==
  /\ process \in Replayed => played.after # "none"
  /\ pc \notin {"ask", "open", "stopped"} =>
       End \in {"up", "closing"} /\ (recorder \/ (pc = "build" /\ morning = 0))
  /\ pc \in {"ask", "open"} =>
       End \in {"up", "closing", "left"} /\ (recorder <=> End # "left")
  /\ recorder => End \in {"up", "closing"} /\ morning > 0
  /\ ~recorder => buffered = Blank
  /\ crash # "none" => pc = "stopped"
  /\ morning = 0 => pc \in {"build", "stopped"}

Latest      == Len(lived[morning])
Whole(m)    == disk[m].steps = Len(lived[m]) /\ disk[m].journal = Len(lived[m]) + 1
OnDisk(s, j) == disk[morning].steps = s /\ disk[morning].journal = j
Waits(s, j) == buffered.steps = s /\ buffered.journal = j

\* What of the latest morning is on disk and what in the buffer.
LinesInv ==
  /\ Len(lived) = morning
  /\ \A m \in 1 .. morning - 1 : Whole(m)
  /\ morning > 0 =>
       /\ pc \in {"build", "once", "take", "act"} => Waits(0, 0) /\ Whole(morning)
       /\ pc = "open" => Waits(0, 0) /\ OnDisk(0, 0) /\ Latest = 0
       /\ pc \in {"step", "journal"} \/ (pc = "ask" /\ recorder) =>
            Waits(1, 0) /\ Latest > 0 /\ OnDisk(Latest - 1, Latest)
       /\ pc = "ask" /\ ~recorder => Waits(0, 0) /\ Latest > 0 /\ OnDisk(Latest, Latest)
       /\ pc = "publish" => Waits(0, 1) /\ OnDisk(Latest, Latest)
       /\ pc = "stopped" =>
            /\ disk[morning].steps + buffered.steps <= Latest
            /\ buffered.journal = 0 /\ disk[morning].journal <= disk[morning].steps + 1
       /\ pc = "stopped" /\ crash = "none" =>
            Waits(0, 0) /\ (Whole(morning) \/ OnDisk(0, 0) \/ End = "killed")

\* The one step that may want for its command.
Unanswered(m, n) ==
  /\ m = morning /\ n = Latest /\ pc \in {"ask", "stopped"}
  /\ crash # "none" \/ End = "left" \/ disk[m].steps < n

AnswersInv ==
  /\ \A m \in 1 .. morning :
       /\ \A n \in disk[m].commands : n \in 1 .. Len(lived[m]) /\ lived[m][n]
       /\ \A n \in 1 .. Len(lived[m]) : lived[m][n] => n \in disk[m].commands \/ Unanswered(m, n)
  /\ pc = "step" => ~lived[morning][Latest]
  /\ pc = "ask" => lived[morning][Latest] /\ Latest \notin disk[morning].commands

ReplayInv ==
  process \in Replayed =>
    /\ played.of \in 1 .. morning /\ played.steps <= disk[played.of].steps
    /\ \A n \in 1 .. played.steps : Recorded(played.of, n)
    /\ process = "replayed" => played.steps = disk[played.of].steps
    /\ process = "lost" =>
         played.steps < disk[played.of].steps /\ ~Recorded(played.of, played.steps + 1)

FilesInv == TypeOK /\ EndInv /\ LinesInv /\ AnswersInv /\ ReplayInv

\* A restart is where the thread would act on it only if it fell between its two looks.
TurnInv ==
  /\ app = "farm" => "restart" \notin Range(inbox) \cup Range(asked)
  /\ app = "stretch" /\ ~between =>
       "restart" \notin Range(asked) /\ (pc = "take" => "restart" \notin Range(inbox))
  /\ ClicksNeverStopIt

AtMostOnce(what, s) == \A i, j \in DOMAIN s : s[i] = what /\ s[j] = what => i = j

\* What was never misjudged is judged, queued, taken or under way, and that once.
Apart(what) ==
  /\ AtMostOnce(what, judged) /\ AtMostOnce(what, inbox) /\ AtMostOnce(what, asked)
  /\ what \in Range(judged) => what \notin Range(inbox) \cup Range(asked)
  /\ what \in Range(inbox) => what \notin Range(asked)
  /\ what \in on => what \notin Range(judged) \cup Range(inbox)
  /\ what \in on /\ pc = "act" => what \notin Range(asked)

SinglyInv ==
  app = "farm" => doubled \subseteq misjudged /\ \A what \in Single \ misjudged : Apart(what)

-----------------------------------------------------------------------------
(***************************************************************************)
(* Sequences: the empty one, one more element, one element replaced.       *)
(***************************************************************************)
LEMMA EmptySequence == \A S : <<>> \in Seq(S)
  OBVIOUS

\* One more element at the end.
LEMMA OneMore ==
  \A S : \A s \in Seq(S), c \in S :
    /\ Append(s, c) \in Seq(S) /\ Len(Append(s, c)) = Len(s) + 1
    /\ Append(s, c)[Len(s) + 1] = c /\ \A i \in 1 .. Len(s) : Append(s, c)[i] = s[i]
  OBVIOUS

\* One more step lived, that has not asked.
LEMMA OneMoreUntrue ==
  ASSUME NEW s \in Seq(BOOLEAN)
  PROVE  /\ Len(Append(s, FALSE)) = Len(s) + 1 /\ ~Append(s, FALSE)[Len(s) + 1]
         /\ \A i \in 1 .. Len(s) : Append(s, FALSE)[i] = s[i]
  OBVIOUS

\* One element replaced.
LEMMA OneReplaced ==
  ASSUME NEW S, NEW s \in Seq(S), NEW i \in 1 .. Len(s), NEW c \in S
  PROVE  /\ [s EXCEPT ![i] = c] \in Seq(S) /\ Len([s EXCEPT ![i] = c]) = Len(s)
         /\ [s EXCEPT ![i] = c][i] = c
         /\ \A j \in 1 .. Len(s) : j # i => [s EXCEPT ![i] = c][j] = s[j]
  OBVIOUS

\* One element taken out.
LEMMA OneRemoved ==
  ASSUME NEW S, NEW s \in Seq(S), NEW k \in DOMAIN s
  PROVE  /\ RemoveAt(s, k) \in Seq(S) /\ Len(RemoveAt(s, k)) = Len(s) - 1
         /\ \A i \in 1 .. Len(s) - 1 : RemoveAt(s, k)[i] = IF i < k THEN s[i] ELSE s[i + 1]
  <1> DEFINE p == SubSeq(s, 1, k - 1)
             q == SubSeq(s, k + 1, Len(s))
  <1>1. k \in 1 .. Len(s) /\ Len(s) \in Nat
    OBVIOUS
  <1>2. p \in Seq(S) /\ Len(p) = k - 1 /\ \A i \in 1 .. k - 1 : p[i] = s[i]
    BY <1>1
  <1>3. q \in Seq(S) /\ Len(q) = Len(s) - k /\ \A i \in 1 .. Len(s) - k : q[i] = s[i + k]
    BY <1>1
  <1> HIDE DEF p, q
  <1>4. /\ p \o q \in Seq(S) /\ Len(p \o q) = Len(s) - 1
        /\ \A i \in 1 .. Len(s) - 1 : (p \o q)[i] = IF i < k THEN s[i] ELSE s[i + 1]
    BY <1>1, <1>2, <1>3
  <1>5. QED BY <1>4 DEF p, q, RemoveAt

-----------------------------------------------------------------------------
(***************************************************************************)
(* What each action writes, point by point.                                *)
(***************************************************************************)

\* A step leaves the latest recording with these three, the others as they were.
Writes(s, c, j) ==
  /\ disk' \in Recordings /\ Len(disk') = morning
  /\ \A m \in 1 .. morning :
       disk'[m] = IF m = morning THEN [steps |-> s, commands |-> c, journal |-> j] ELSE disk[m]

\* A step leaves the latest morning having lived this.
Lives(l) ==
  /\ lived' \in Seq(Seq(BOOLEAN)) /\ Len(lived') = Len(lived)
  /\ \A m \in 1 .. Len(lived) : lived'[m] = IF m = morning THEN l ELSE lived[m]

\* What the types say of the files.
LEMMA FilesTyped ==
  ASSUME TypeOK
  PROVE  /\ disk \in Seq(Recording) /\ lived \in Seq(Seq(BOOLEAN)) /\ <<>> \in Seq(BOOLEAN)
         /\ morning = Len(disk) /\ morning \in Nat
         /\ buffered \in Lines /\ buffered.steps \in Nat /\ buffered.journal \in Nat
  <1>1. disk \in Seq(Recording) /\ lived \in Seq(Seq(BOOLEAN)) /\ buffered \in Lines
    BY DEF TypeOK, Recordings
  <1>2. QED BY <1>1, EmptySequence DEF Lines, morning

\* One more line in the buffer.
LEMMA OneMoreLine ==
  ASSUME TypeOK, buffered' = [buffered EXCEPT !.steps = @ + 1]
  PROVE  buffered'.steps = buffered.steps + 1 /\ buffered'.journal = buffered.journal
  <1>1. buffered \in Lines
    BY FilesTyped
  <1>2. QED BY <1>1 DEF Lines

\* What the types say of the counts, and of one more.
LEMMA CountsTyped ==
  ASSUME TypeOK
  PROVE  /\ clicks \in Nat /\ clicks + 1 \in Nat
         /\ played \in Replays /\ played.of \in Nat
         /\ played.steps \in Nat /\ played.steps + 1 \in Nat
         /\ [buffered EXCEPT !.steps = @ + 1] \in Lines
         /\ [played EXCEPT !.steps = played.steps + 1] \in Replays
         /\ [played EXCEPT !.steps = played.steps + 1].after = played.after
         /\ [played EXCEPT !.steps = played.steps + 1].of = played.of
         /\ [played EXCEPT !.steps = played.steps + 1].steps = played.steps + 1
  <1>1. clicks \in Nat /\ played \in Replays
    BY DEF TypeOK
  <1>2. buffered \in Lines
    BY FilesTyped
  <1>3. played.of \in Nat /\ played.steps \in Nat /\ played.steps + 1 \in Nat
    BY <1>1 DEF Replays
  <1>4. buffered.steps + 1 \in Nat
    BY FilesTyped
  <1>5. [buffered EXCEPT !.steps = buffered.steps + 1] \in Lines
    BY <1>2, <1>4 DEF Lines
  <1>6. /\ [played EXCEPT !.steps = played.steps + 1] \in Replays
        /\ [played EXCEPT !.steps = played.steps + 1].after = played.after
        /\ [played EXCEPT !.steps = played.steps + 1].of = played.of
        /\ [played EXCEPT !.steps = played.steps + 1].steps = played.steps + 1
    BY <1>1, <1>3 DEF Replays
  <1>7. QED BY <1>1, <1>3, <1>5, <1>6

\* The thread is at work on a morning.
LEMMA AtWork ==
  ASSUME TypeOK, EndInv, pc \notin {"build", "stopped"} \/ recorder
  PROVE  morning > 0 /\ morning \in 1 .. Len(disk) /\ disk[morning] \in Recording
  <1>1. morning # 0
    BY DEF EndInv
  <1>2. QED BY <1>1, FilesTyped

\* A recording is its three fields.
LEMMA RecordingFields ==
  ASSUME NEW r \in Recording
  PROVE  /\ r.steps \in Nat /\ r.commands \in SUBSET Nat /\ r.journal \in Nat
         /\ r = [steps |-> r.steps, commands |-> r.commands, journal |-> r.journal]
  BY DEF Recording

\* One field of a recording rewritten.
LEMMA FieldRewritten ==
  ASSUME NEW r \in Recording, NEW c
  PROVE  /\ [r EXCEPT !.steps = c] = [steps |-> c, commands |-> r.commands, journal |-> r.journal]
         /\ [r EXCEPT !.commands = c] = [steps |-> r.steps, commands |-> c, journal |-> r.journal]
         /\ [r EXCEPT !.journal = c] = [steps |-> r.steps, commands |-> r.commands, journal |-> c]
  BY DEF Recording

\* What the types say of the latest morning.
LEMMA LatestTyped ==
  ASSUME TypeOK, LinesInv, morning > 0
  PROVE  /\ morning \in 1 .. Len(lived) /\ lived[morning] \in Seq(BOOLEAN) /\ Latest \in Nat
         /\ disk[morning] \in Recording
         /\ disk[morning].steps \in Nat /\ disk[morning].journal \in Nat
  <1>1. morning \in 1 .. Len(lived) /\ morning \in 1 .. Len(disk)
    BY FilesTyped DEF LinesInv
  <1>2. lived[morning] \in Seq(BOOLEAN) /\ disk[morning] \in Recording
    BY <1>1, FilesTyped
  <1>3. QED BY <1>1, <1>2, RecordingFields DEF Latest

\* The latest recording rewritten, the others are as they were.
LEMMA LatestRewritten ==
  ASSUME TypeOK, morning > 0, NEW s \in Nat, NEW c \in SUBSET Nat, NEW j \in Nat,
         disk' = [disk EXCEPT ![morning] = [steps |-> s, commands |-> c, journal |-> j]]
  PROVE  Writes(s, c, j)
  <1>1. [steps |-> s, commands |-> c, journal |-> j] \in Recording
    BY DEF Recording
  <1>2. morning \in 1 .. Len(disk) /\ morning = Len(disk) /\ disk \in Seq(Recording)
    BY FilesTyped
  <1>3. QED BY <1>1, <1>2, OneReplaced DEF Writes, Recordings

\* The journal of the start.
LEMMA StartWrites ==
  ASSUME TypeOK, EndInv, Start
  PROVE  Writes(disk[morning].steps, disk[morning].commands, 1)
  <1>1. morning > 0 /\ disk[morning] \in Recording
    BY AtWork DEF Start
  <1>2. disk' = [disk EXCEPT ![morning] =
                  [steps |-> disk[morning].steps, commands |-> disk[morning].commands,
                     journal |-> 1]]
    BY <1>1, FilesTyped, FieldRewritten DEF Start
  <1>3. QED BY <1>1, <1>2, LatestRewritten, RecordingFields

\* The command of the step.
LEMMA AnsweredWrites ==
  ASSUME TypeOK, EndInv, LinesInv, Answered
  PROVE  Writes(disk[morning].steps, disk[morning].commands \cup {Latest}, disk[morning].journal)
  <1>1. morning > 0 /\ disk[morning] \in Recording
    BY AtWork DEF Answered
  <1>2. Latest \in Nat /\ disk[morning].commands \cup {Latest} \in SUBSET Nat
    BY <1>1, FilesTyped, RecordingFields DEF LinesInv, Latest
  <1>3. disk' = [disk EXCEPT ![morning] =
                  [steps |-> disk[morning].steps, commands |-> disk[morning].commands \cup {Latest},
                   journal |-> disk[morning].journal]]
    BY <1>1, FilesTyped, FieldRewritten DEF Answered, CommandKept, Latest
  <1>4. QED BY <1>1, <1>2, <1>3, LatestRewritten, RecordingFields

\* The buffered step lines.
LEMMA FlushStepsWrites ==
  ASSUME TypeOK, EndInv, FlushSteps
  PROVE  Writes(disk[morning].steps + buffered.steps, disk[morning].commands, disk[morning].journal)
  <1>1. morning > 0 /\ disk[morning] \in Recording
    BY AtWork DEF FlushSteps
  <1>2. disk' = [disk EXCEPT ![morning] =
                  [steps |-> disk[morning].steps + buffered.steps,
                   commands |-> disk[morning].commands, journal |-> disk[morning].journal]]
    BY <1>1, FilesTyped, FieldRewritten DEF FlushSteps
  <1>3. disk[morning].steps + buffered.steps \in Nat
    BY <1>1, FilesTyped, RecordingFields, SMTT(30)
  <1>4. QED BY <1>1, <1>2, <1>3, LatestRewritten, RecordingFields

\* The buffered journal.
LEMMA FlushJournalWrites ==
  ASSUME TypeOK, EndInv, FlushJournal
  PROVE  Writes(disk[morning].steps, disk[morning].commands,
     disk[morning].journal + buffered.journal)
  <1>1. morning > 0 /\ disk[morning] \in Recording
    BY AtWork DEF FlushJournal
  <1>2. disk' = [disk EXCEPT ![morning] =
                  [steps |-> disk[morning].steps, commands |-> disk[morning].commands,
                   journal |-> disk[morning].journal + buffered.journal]]
    BY <1>1, FilesTyped, FieldRewritten DEF FlushJournal
  <1>3. disk[morning].journal + buffered.journal \in Nat
    BY <1>1, FilesTyped, RecordingFields, SMTT(30)
  <1>4. QED BY <1>1, <1>2, <1>3, LatestRewritten, RecordingFields

\* Closing the recorder: nothing if it is closed, else the buffer is written.
LEMMA ShutWrites ==
  ASSUME TypeOK, EndInv
  PROVE  /\ ~recorder => Shut(disk) = disk
         /\ recorder => /\ morning > 0
                        /\ disk[morning] \in Recording /\ buffered \in Lines
                        /\ Shut(disk) = [disk EXCEPT ![morning] =
                             [steps |-> disk[morning].steps + buffered.steps,
                              commands |-> disk[morning].commands,
                              journal |-> disk[morning].journal + buffered.journal]]
  <1>1. recorder => morning > 0 /\ disk[morning] \in Recording
    BY AtWork
  <1>2. recorder => Shut(disk) = [disk EXCEPT ![morning] = Flushed(disk[morning])]
    BY FilesTyped DEF Shut
  <1>3. recorder => Flushed(disk[morning]) =
          [steps |-> disk[morning].steps + buffered.steps,
           commands |-> disk[morning].commands,
           journal |-> disk[morning].journal + buffered.journal]
    BY DEF Flushed
  <1>4. QED BY <1>1, <1>2, <1>3, FilesTyped DEF Shut

\* What the close of the page writes.
LEMMA CloseRecorderWrites ==
  ASSUME TypeOK, EndInv, CloseRecorder
  PROVE  /\ ~recorder => disk' = disk
         /\ recorder => Writes(disk[morning].steps + buffered.steps, disk[morning].commands,
                               disk[morning].journal + buffered.journal)
  <1>1. disk' = Shut(disk)
    BY DEF CloseRecorder
  <1>2. CASE ~recorder
    BY <1>1, <1>2, ShutWrites
  <1>3. CASE recorder
    <2>1. disk[morning] \in Recording /\ morning > 0
      BY <1>3, AtWork
    <2>2. disk[morning].steps + buffered.steps \in Nat
      BY <2>1, FilesTyped, RecordingFields, SMTT(30)
    <2>3. disk[morning].journal + buffered.journal \in Nat
      BY <2>1, FilesTyped, RecordingFields, SMTT(30)
    <2>4. disk[morning].commands \in SUBSET Nat
      BY <2>1, RecordingFields
    <2>5. QED BY <1>1, <1>3, <2>1, <2>2, <2>3, <2>4, ShutWrites, LatestRewritten
  <1>4. QED BY <1>2, <1>3

\* A new morning: the one before is closed, and the new recording is blank.
LEMMA OpenWrites ==
  ASSUME TypeOK, EndInv, LinesInv, Open
  PROVE  /\ disk' \in Recordings /\ Len(disk') = morning + 1
         /\ disk'[morning + 1] = [steps |-> 0, commands |-> {}, journal |-> 0]
         /\ \A m \in 1 .. morning : disk'[m] = disk[m]
         /\ lived' \in Seq(Seq(BOOLEAN)) /\ Len(lived') = morning + 1 /\ lived'[morning + 1] = <<>>
         /\ \A m \in 1 .. morning : lived'[m] = lived[m]
  <1>1. Shut(disk) = disk
    <2>1. CASE ~recorder
      BY <2>1, ShutWrites
    <2>2. CASE recorder
      <3>1. buffered.steps = 0 /\ buffered.journal = 0
        BY <2>2 DEF Open, LinesInv, Waits, EndInv
      <3>2. /\ disk[morning] \in Recording /\ disk \in Seq(Recording)
            /\ morning \in 1 .. Len(disk) /\ morning = Len(disk)
        BY <2>2, AtWork, FilesTyped
      <3>3. disk[morning] = [steps |-> disk[morning].steps + 0, commands |-> disk[morning].commands,
                             journal |-> disk[morning].journal + 0]
        BY <3>2, RecordingFields
      <3>4. Shut(disk) = [disk EXCEPT ![morning] = disk[morning]]
        BY <2>2, <3>1, <3>3, ShutWrites
      <3>5. QED BY <3>2, <3>4
    <2>3. QED BY <2>1, <2>2
  <1>2. [steps |-> 0, commands |-> {}, journal |-> 0] \in Recording
    BY DEF Recording
  <1>3. /\ disk' = Append(disk, [steps |-> 0, commands |-> {}, journal |-> 0])
        /\ lived' = Append(lived, <<>>)
    BY <1>1 DEF Open
  <1>4. disk \in Seq(Recording) /\ lived \in Seq(Seq(BOOLEAN)) /\ <<>> \in Seq(BOOLEAN)
    BY FilesTyped
  <1>5. Len(disk) = morning /\ Len(lived) = morning
    BY FilesTyped DEF LinesInv
  <1>6. QED BY <1>2, <1>3, <1>4, <1>5, OneMore DEF Recordings

\* A write that leaves the commands alone.
LEMMA CommandsUntouched ==
  ASSUME NEW s, NEW j, Writes(s, disk[morning].commands, j)
  PROVE  \A m \in 1 .. morning : disk'[m].commands = disk[m].commands
  BY DEF Writes

\* Only the latest morning lives on.
LEMMA LivesElsewhere ==
  ASSUME TypeOK, LinesInv, morning > 0, NEW l, Lives(l)
  PROVE  /\ Len(lived') = morning /\ lived'[morning] = l
         /\ \A m \in 1 .. morning - 1 : lived'[m] = lived[m]
  <1>1. Len(lived) = morning /\ morning \in Nat
    BY FilesTyped DEF LinesInv
  <1>2. QED BY <1>1 DEF Lives

\* A step begins, and has not asked.
LEMMA ActLives ==
  ASSUME TypeOK, EndInv, LinesInv, Act, "restart" \notin Range(asked)
  PROVE  Lives(Append(lived[morning], FALSE))
  <1>1. morning \in 1 .. Len(lived) /\ lived \in Seq(Seq(BOOLEAN))
    BY AtWork, FilesTyped DEF Act, LinesInv
  <1>2. lived[morning] \in Seq(BOOLEAN)
    BY <1>1
  <1> DEFINE l == Append(lived[morning], FALSE)
  <1>3. l \in Seq(BOOLEAN)
    BY <1>2
  <1>4. lived' = [lived EXCEPT ![morning] = l]
    BY DEF Act
  <1> HIDE DEF l
  <1>5. Lives(l)
    BY <1>1, <1>3, <1>4, OneReplaced DEF Lives
  <1>6. QED BY <1>5 DEF l

\* The step asks.
LEMMA AsksLives ==
  ASSUME TypeOK, EndInv, LinesInv, Step, pc' = "ask"
  PROVE  /\ Latest \in 1 .. Len(lived[morning])
         /\ Lives([lived[morning] EXCEPT ![Latest] = TRUE])
  <1>1. morning \in 1 .. Len(lived) /\ lived \in Seq(Seq(BOOLEAN))
    BY AtWork, FilesTyped DEF Step, LinesInv
  <1>2. lived[morning] \in Seq(BOOLEAN)
    BY <1>1
  <1>3. Latest \in 1 .. Len(lived[morning])
    <2>1. Latest > 0
      BY AtWork DEF Step, LinesInv
    <2>2. QED BY <1>2, <2>1 DEF Latest
  <1>4. [lived[morning] EXCEPT ![Latest] = TRUE] \in Seq(BOOLEAN)
    BY <1>2, <1>3, OneReplaced
  <1>5. lived' = [lived EXCEPT ![morning] = [lived[morning] EXCEPT ![Latest] = TRUE]]
    BY DEF Step, Latest
  <1>6. QED BY <1>1, <1>3, <1>4, <1>5, OneReplaced DEF Lives

\* A click is not the stepping thread's affair.
LEMMA AsksAside == Asks => Aside
  BY DEF Asks, Judge, Queue, AskRestart, AskStretch

\* What the clicks write.
LEMMA AsksTyped ==
  ASSUME TypeOK, Asks
  PROVE  /\ restart' \in BOOLEAN /\ inbox' \in Seq(Wishes) /\ judged' \in Seq(Controls)
         /\ misjudged' \subseteq Single /\ between' \in BOOLEAN /\ clicks' \in Nat
  <1>1. /\ restart \in BOOLEAN /\ inbox \in Seq(Wishes) /\ judged \in Seq(Controls)
        /\ misjudged \subseteq Single /\ between \in BOOLEAN /\ clicks \in Nat
    BY DEF TypeOK
  <1>2. ASSUME NEW what \in Controls, Judge(what) PROVE judged' \in Seq(Controls)
    BY <1>1, <1>2, OneMore DEF Judge
  <1>3. ASSUME NEW k \in DOMAIN judged, Queue(k)
        PROVE  judged' \in Seq(Controls) /\ inbox' \in Seq(Wishes)
    <2>1. judged' \in Seq(Controls)
      BY <1>1, <1>3, OneRemoved DEF Queue
    <2>2. judged[k] \in Wishes
      BY <1>1 DEF Wishes
    <2>3. QED BY <1>1, <1>3, <2>1, <2>2, OneMore DEF Queue
  <1>4. ASSUME NEW what \in Wishes, AskStretch(what) PROVE inbox' \in Seq(Wishes) /\ between' \in BOOLEAN
    BY <1>1, <1>4, OneMore DEF AskStretch
  <1>5. CASE \E what \in Controls : Judge(what)
    BY <1>1, <1>2, <1>5 DEF Judge, Click
  <1>6. CASE \E k \in DOMAIN judged : Queue(k)
    BY <1>1, <1>3, <1>6 DEF Queue
  <1>7. CASE AskRestart
    BY <1>1, <1>7 DEF AskRestart, Click
  <1>8. CASE \E what \in Wishes : AskStretch(what)
    BY <1>1, <1>4, <1>8 DEF AskStretch, Click
  <1>9. QED BY <1>5, <1>6, <1>7, <1>8 DEF Asks, Wishes

-----------------------------------------------------------------------------
(***************************************************************************)
(* Each part of the invariant is kept by every step.                       *)
(***************************************************************************)
LEMMA TypeKept ==
  ASSUME TypeOK, EndInv, LinesInv, [Next]_vars
  PROVE  TypeOK'
  <1>1. CASE UNCHANGED vars
    <2>1. /\ app' = app /\ process' = process /\ restart' = restart /\ inbox' = inbox
          /\ judged' = judged /\ misjudged' = misjudged /\ between' = between
          /\ clicks' = clicks /\ pc' = pc /\ asked' = asked /\ on' = on /\ crash' = crash
      BY <1>1 DEF vars, page, pressed, stepping
    <2>2. /\ recorder' = recorder /\ buffered' = buffered /\ disk' = disk /\ lived' = lived
          /\ doubled' = doubled /\ played' = played
      BY <1>1 DEF vars, stepping, files
    <2>3. QED BY <2>1, <2>2, ZenonT(60) DEF TypeOK
  <1>2. CASE Asks
    <2>1. UNCHANGED <<app, process, stepping, files, played>>
      BY <1>2, AsksAside DEF Aside
    <2>2. QED BY <1>2, <2>1, AsksTyped DEF stepping, files, TypeOK
  <1>3. CASE Open
    BY <1>3, OpenWrites DEF Open, Thread, pressed, Blank, Lines, TypeOK
  <1>4. CASE Start
    BY <1>4, StartWrites DEF Start, Thread, pressed, Writes, TypeOK
  <1>5. CASE FailsToBuild
    BY <1>5 DEF FailsToBuild, Thread, pressed, files, TypeOK
  <1>6. CASE Stops
    BY <1>6 DEF Stops, Thread, pressed, files, TypeOK
  <1>7. CASE TakeRestart
    BY <1>7, EmptySequence DEF TakeRestart, Thread, pressed, files, TypeOK
  <1>8. CASE TakeClicks
    BY <1>8, EmptySequence DEF TakeClicks, Thread, pressed, files, TypeOK
  <1>9. CASE Act
    <2>1. buffered' \in Lines
      BY <1>9, CountsTyped, FilesTyped DEF Act
    <2>2. lived' \in Seq(Seq(BOOLEAN))
      BY <1>9, ActLives, FilesTyped DEF Act, Lives
    <2>3. asked' \in Seq(Wishes) /\ on' \subseteq Single /\ doubled' \subseteq Single
      BY <1>9, EmptySequence DEF Act, TypeOK
    <2>4. QED BY <1>9, <2>1, <2>2, <2>3 DEF Act, Thread, pressed, Raise, TypeOK
  <1>10. CASE Step
    <2>1. asked' \in Seq(Wishes) /\ on' \subseteq Single
      BY <1>10, EmptySequence DEF Step, TypeOK
    <2>2. lived' \in Seq(Seq(BOOLEAN)) /\ pc' \in {"journal", "ask"}
      BY <1>10, AsksLives, FilesTyped DEF Step, Lives
    <2>3. QED BY <1>10, <2>1, <2>2 DEF Step, Thread, pressed, TypeOK
  <1>11. CASE Answered
    BY <1>11, AnsweredWrites DEF Answered, Thread, pressed, Writes, TypeOK
  <1>12. CASE WritesToClosed
    BY <1>12 DEF WritesToClosed, Thread, pressed, files, Raise, TypeOK
  <1>13. CASE FlushSteps
    BY <1>13, FlushStepsWrites DEF FlushSteps, Thread, pressed, Writes, Lines, TypeOK
  <1>14. CASE FlushJournal
    BY <1>14, FlushJournalWrites DEF FlushJournal, Thread, pressed, Writes, Blank, Lines, TypeOK
  <1>15. CASE SourceFails
    BY <1>15 DEF SourceFails, Thread, pressed, files, Raise, TypeOK
  <1>16. CASE Close
    BY <1>16 DEF Close, page, pressed, stepping, files, TypeOK
  <1>17. CASE CloseRecorder
    BY <1>17, CloseRecorderWrites DEF CloseRecorder, page, pressed, stepping, files, Writes, Blank, Lines,
       TypeOK
  <1>18. CASE Kill
    BY <1>18 DEF Kill, page, pressed, stepping, files, Blank, Lines, TypeOK
  <1>19. CASE ReplayStep
    <2>1. played' \in Replays
      BY <1>19, CountsTyped DEF ReplayStep
    <2>2. process' \in Replayed
      BY <1>19 DEF ReplayStep, Replayed
    <2>3. QED BY <1>19, <2>1, <2>2 DEF ReplayStep, page, pressed, stepping, files, TypeOK
  <1>20. CASE ReplayEnds
    BY <1>20 DEF ReplayEnds, page, pressed, stepping, files, Replayed, TypeOK
  <1>21. ASSUME NEW m \in DOMAIN disk, Replay(m) PROVE TypeOK'
    <2>1. m \in Nat
      BY FilesTyped
    <2>2. played' \in Replays /\ process' \in Replayed
      BY <1>21, <2>1 DEF Replay, Replays, Replayed
    <2>3. QED BY <1>21, <2>2 DEF Replay, page, pressed, stepping, files, TypeOK
  <1>22. QED
    BY <1>1, <1>2, <1>3, <1>4, <1>5, <1>6, <1>7, <1>8, <1>9, <1>10, <1>11, <1>12, <1>13, <1>14,
       <1>15, <1>16, <1>17, <1>18, <1>19, <1>20, <1>21 DEF Next, Farm, Wishes

\* Every step keeps what the end of the process says of the thread.
LEMMA EndKept ==
  ASSUME TypeOK, EndInv, LinesInv, [Next]_vars
  PROVE  EndInv'
  <1> USE DEF EndInv, End, Replayed
  <1>1. CASE UNCHANGED vars
    BY <1>1 DEF vars, page, pressed, stepping, files, morning
  <1>2. CASE Asks
    BY <1>2, AsksAside DEF Aside, stepping, files, morning
  <1>3. CASE Open
    BY <1>3, OpenWrites DEF Open, Thread, morning
  <1>4. CASE Start
    BY <1>4, StartWrites DEF Start, Thread, Writes, morning
  <1>5. CASE FailsToBuild
    BY <1>5 DEF FailsToBuild, Thread, files, morning
  <1>6. CASE Stops
    BY <1>6 DEF Stops, Thread, files, morning
  <1>7. CASE TakeRestart
    BY <1>7 DEF TakeRestart, Thread, files, morning
  <1>8. CASE TakeClicks
    BY <1>8 DEF TakeClicks, Thread, files, morning
  <1>9. CASE Act
    BY <1>9 DEF Act, Thread, Raise, morning
  <1>10. CASE Step
    BY <1>10 DEF Step, Thread, morning
  <1>11. CASE Answered
    BY <1>11, AnsweredWrites DEF Answered, Thread, Writes, morning
  <1>12. CASE WritesToClosed
    BY <1>12 DEF WritesToClosed, Thread, files, Raise, morning
  <1>13. CASE FlushSteps
    BY <1>13, FlushStepsWrites DEF FlushSteps, Thread, Writes, morning
  <1>14. CASE FlushJournal
    BY <1>14, FlushJournalWrites DEF FlushJournal, Thread, Writes, morning
  <1>15. CASE SourceFails
    BY <1>15 DEF SourceFails, Thread, files, Raise, morning
  <1>16. CASE Close
    BY <1>16 DEF Close, page, stepping, files, morning
  <1>17. CASE CloseRecorder
    BY <1>17, CloseRecorderWrites, FilesTyped DEF CloseRecorder, page, stepping, files, Writes,
       Blank, Joined, Outlasts, morning
  <1>18. CASE Kill
    BY <1>18 DEF Kill, page, stepping, files, Blank, morning
  <1>19. CASE ReplayStep
    <2>1. played'.after = played.after
      BY <1>19, CountsTyped DEF ReplayStep
    <2>2. process' \in Replayed /\ process \in Replayed
      BY <1>19 DEF ReplayStep, Replayed
    <2>3. QED BY <1>19, <2>1, <2>2 DEF ReplayStep, page, stepping, files, morning, Replayed
  <1>20. CASE ReplayEnds
    BY <1>20 DEF ReplayEnds, page, stepping, files, morning
  <1>21. ASSUME NEW m \in DOMAIN disk, Replay(m) PROVE EndInv'
    BY <1>21 DEF Replay, page, stepping, files, morning
  <1>22. QED
    BY <1>1, <1>2, <1>3, <1>4, <1>5, <1>6, <1>7, <1>8, <1>9, <1>10, <1>11, <1>12, <1>13, <1>14,
       <1>15, <1>16, <1>17, <1>18, <1>19, <1>20, <1>21 DEF Next, Farm, Wishes

\* Every step keeps the count of lines.
LEMMA LinesKept ==
  ASSUME TypeOK, EndInv, LinesInv, [Next]_vars
  PROVE  LinesInv'
  <1>1. CASE UNCHANGED vars
    BY <1>1 DEF vars, page, pressed, stepping, files, LinesInv, Whole, OnDisk, Waits, Latest, End,
       Replayed, morning
  <1>2. CASE Asks
    BY <1>2, AsksAside DEF Aside, stepping, files, LinesInv, Whole, OnDisk, Waits, Latest, End, Replayed, morning
  <1>3. CASE Open
    <2>1. morning' = morning + 1 /\ Len(lived') = morning + 1
      BY <1>3, OpenWrites DEF morning
    <2>2. \A m \in 1 .. morning : Whole(m)'
      <3>1. \A m \in 1 .. morning : Whole(m)
        BY <1>3, FilesTyped DEF Open, LinesInv
      <3>2. QED BY <1>3, <3>1, OpenWrites DEF Whole
    <2>3. Waits(0, 0)' /\ OnDisk(0, 0)' /\ Latest' = 0 /\ pc' = "open"
      BY <1>3, <2>1, OpenWrites DEF Open, Blank, Waits, OnDisk, Latest
    <2>4. QED BY <2>1, <2>2, <2>3, FilesTyped DEF LinesInv
  <1>4. CASE Start
    BY <1>4, StartWrites, AtWork DEF Start, Thread, Writes, LinesInv, Whole, OnDisk, Waits,
       Latest, End, Replayed, morning
  <1>5. CASE FailsToBuild
    BY <1>5 DEF FailsToBuild, Thread, files, EndInv, LinesInv, Whole, OnDisk, Waits, Latest, End,
       Replayed, morning
  <1>6. CASE Stops
    BY <1>6 DEF Stops, Thread, files, LinesInv, Whole, OnDisk, Waits, Latest, End, Replayed, morning
  <1>7. CASE TakeRestart
    BY <1>7, FilesTyped DEF TakeRestart, Thread, files, LinesInv, Whole, OnDisk, Waits, Latest,
       End, Replayed, morning
  <1>8. CASE TakeClicks
    BY <1>8 DEF TakeClicks, Thread, files, LinesInv, Whole, OnDisk, Waits, Latest, End, Replayed,
       morning
  <1>9. CASE Act
    <2>1. morning > 0 /\ Waits(0, 0) /\ Whole(morning) /\ UNCHANGED disk
      BY <1>9, AtWork DEF Act, LinesInv
    <2>2. CASE "restart" \in Range(asked)
      <3>1. UNCHANGED <<buffered, lived>> /\ pc' = "stopped" /\ crash' # "none"
        BY <1>9, <2>2 DEF Act, Raise
      <3>2. /\ disk[morning].steps + buffered.steps <= Latest
            /\ buffered.journal = 0 /\ disk[morning].journal <= disk[morning].steps + 1
        BY <2>1, LatestTyped DEF Waits, Whole, Latest
      <3>3. QED BY <2>1, <3>1, <3>2 DEF LinesInv, Whole, Latest, morning
    <2>3. CASE "restart" \notin Range(asked)
      <3>1. pc' = "step" /\ morning' = morning
        BY <1>9, <2>1, <2>3 DEF Act, morning
      <3>2. Waits(1, 0)'
        <4>1. buffered' = [buffered EXCEPT !.steps = buffered.steps + 1]
          BY <1>9, <2>3 DEF Act
        <4>2. buffered'.steps = buffered.steps + 1 /\ buffered'.journal = buffered.journal
          BY <4>1, OneMoreLine
        <4>3. QED BY <2>1, <4>2 DEF Waits
      <3>3. Len(lived') = morning /\ \A m \in 1 .. morning - 1 : lived'[m] = lived[m]
        BY <1>9, <2>1, <2>3, ActLives, LivesElsewhere
      <3>4. Latest' = Latest + 1
        <4>1. lived'[morning] = Append(lived[morning], FALSE)
          BY <1>9, <2>1, <2>3, ActLives, LivesElsewhere
        <4>2. lived[morning] \in Seq(BOOLEAN)
          BY <2>1, LatestTyped
        <4>3. QED BY <3>1, <4>1, <4>2 DEF Latest
      <3>5. Latest' > 0 /\ OnDisk(Latest - 1, Latest)'
        BY <2>1, <3>1, <3>4, LatestTyped DEF OnDisk, Whole, Latest
      <3>6. \A m \in 1 .. morning - 1 : Whole(m)'
        BY <2>1, <3>3 DEF LinesInv, Whole
      <3>7. QED BY <3>1, <3>2, <3>3, <3>5, <3>6 DEF LinesInv
    <2>4. QED BY <2>2, <2>3
  <1>10. CASE Step
    <2>1. morning > 0 /\ UNCHANGED <<disk, buffered, recorder>> /\ morning' = morning
      BY <1>10, AtWork DEF Step, morning
    <2>2. Waits(1, 0) /\ Latest > 0 /\ OnDisk(Latest - 1, Latest) /\ recorder
      BY <1>10, <2>1 DEF Step, LinesInv, EndInv
    <2>3. CASE pc' = "journal"
      BY <1>10, <2>1, <2>2, <2>3 DEF Step, LinesInv, Whole, Latest, Waits, OnDisk
    <2>4. CASE pc' = "ask"
      <3>1. Len(lived') = morning /\ \A m \in 1 .. morning - 1 : lived'[m] = lived[m]
        BY <1>10, <2>4, AsksLives, FilesTyped DEF Lives, LinesInv
      <3>2. Latest' = Latest
        BY <1>10, <2>1, <2>4, AsksLives, LatestTyped, OneReplaced DEF Lives, Latest
      <3>3. \A m \in 1 .. morning - 1 : Whole(m)'
        BY <2>1, <3>1 DEF LinesInv, Whole
      <3>4. QED BY <2>1, <2>2, <2>4, <3>1, <3>2, <3>3 DEF LinesInv, Waits, OnDisk
    <2>5. QED BY <1>10, <2>3, <2>4 DEF Step
  <1>11. CASE Answered
    <2>1. /\ morning > 0 /\ pc' = "journal" /\ recorder
          /\ UNCHANGED <<buffered, lived, crash>>
      BY <1>11, AtWork DEF Answered
    <2>2. Waits(1, 0) /\ Latest > 0 /\ OnDisk(Latest - 1, Latest)
      BY <1>11, <2>1 DEF Answered, LinesInv
    <2>3. /\ morning' = morning /\ morning \in Nat
          /\ \A m \in 1 .. morning :
               disk'[m].steps = disk[m].steps /\ disk'[m].journal = disk[m].journal
      BY <1>11, AnsweredWrites, FilesTyped DEF Writes, morning
    <2>4. QED BY <2>1, <2>2, <2>3 DEF LinesInv, Whole, OnDisk, Waits, Latest
  <1>12. CASE WritesToClosed
    <2>1. morning > 0 /\ UNCHANGED <<disk, buffered, recorder, lived>> /\ morning' = morning
      BY <1>12, AtWork DEF WritesToClosed, Thread, files, morning
    <2>2. pc' = "stopped" /\ crash' # "none"
      BY <1>12 DEF WritesToClosed, Raise
    <2>3. /\ disk[morning].steps + buffered.steps <= Latest
          /\ buffered.journal = 0 /\ disk[morning].journal <= disk[morning].steps + 1
      <3>1. Waits(0, 0) /\ OnDisk(Latest, Latest)
        BY <1>12, <2>1 DEF WritesToClosed, LinesInv
      <3>2. QED BY <2>1, <3>1, LatestTyped DEF Waits, OnDisk
    <2>4. QED BY <2>1, <2>2, <2>3 DEF LinesInv, Whole, Latest
  <1>13. CASE FlushSteps
    BY <1>13, FlushStepsWrites, AtWork DEF FlushSteps, Thread, Writes, LinesInv, Whole, OnDisk,
       Waits, Latest, End, Replayed, morning
  <1>14. CASE FlushJournal
    BY <1>14, FlushJournalWrites, AtWork DEF FlushJournal, Thread, Writes, Blank, LinesInv, Whole,
       OnDisk, Waits, Latest, End, Replayed, morning
  <1>15. CASE SourceFails
    BY <1>15 DEF SourceFails, Thread, files, Raise, EndInv, LinesInv, Whole, OnDisk, Waits,
       Latest, End, Replayed, morning
  <1>16. CASE Close
    BY <1>16 DEF Close, page, stepping, files, LinesInv, Whole, OnDisk, Waits, Latest, End,
       Replayed, morning
  <1>17. CASE CloseRecorder
    <2>1. UNCHANGED <<lived, pc, crash>> /\ Len(disk') = morning /\ morning' = morning
      BY <1>17, CloseRecorderWrites, FilesTyped DEF CloseRecorder, stepping, Writes, morning
    <2>2. Waits(0, 0)' /\ recorder' = FALSE
      BY <1>17 DEF CloseRecorder, Waits, Blank
    <2>3. \A m \in 1 .. morning - 1 : Whole(m)'
      <3>1. \A m \in 1 .. morning - 1 : disk'[m] = disk[m]
        BY <1>17, CloseRecorderWrites, FilesTyped DEF Writes
      <3>2. QED BY <2>1, <3>1 DEF LinesInv, Whole
    <2>4. ASSUME morning > 0, pc = "ask"
          PROVE  Latest' = Latest /\ Latest > 0 /\ OnDisk(Latest, Latest)'
      <3>1. recorder /\ Waits(1, 0) /\ Latest > 0 /\ OnDisk(Latest - 1, Latest)
        BY <1>17, <2>4 DEF CloseRecorder, EndInv, End, Replayed, LinesInv
      <3>2. disk'[morning].steps = Latest /\ disk'[morning].journal = Latest
        BY <1>17, <2>4, <3>1, CloseRecorderWrites, LatestTyped, FilesTyped DEF Writes, Waits, OnDisk
      <3>3. QED BY <2>1, <3>1, <3>2 DEF OnDisk, Latest
    <2>5. ASSUME morning > 0, pc = "open" PROVE Latest' = Latest /\ Latest = 0 /\ OnDisk(0, 0)'
      <3>1. recorder /\ Waits(0, 0) /\ Latest = 0 /\ OnDisk(0, 0)
        BY <1>17, <2>5 DEF CloseRecorder, EndInv, End, Replayed, LinesInv
      <3>2. disk'[morning].steps = 0 /\ disk'[morning].journal = 0
        BY <1>17, <2>5, <3>1, CloseRecorderWrites, LatestTyped, FilesTyped DEF Writes, Waits, OnDisk
      <3>3. QED BY <2>1, <3>1, <3>2 DEF OnDisk, Latest
    <2>6. ASSUME morning > 0, pc = "stopped"
          PROVE  /\ disk'[morning].steps \in Nat /\ disk'[morning].steps <= Latest
                 /\ disk'[morning].journal <= disk'[morning].steps + 1
                 /\ crash = "none" => Whole(morning)' \/ OnDisk(0, 0)'
      <3>1. /\ disk[morning].steps \in Nat /\ disk[morning].journal \in Nat /\ Latest \in Nat
            /\ buffered.steps \in Nat /\ buffered.journal \in Nat
        BY <2>6, LatestTyped, FilesTyped
      <3>2. /\ disk'[morning].steps = disk[morning].steps + buffered.steps
            /\ disk'[morning].journal = disk[morning].journal + buffered.journal
        <4>1. CASE ~recorder
          BY <1>17, <3>1, <4>1, CloseRecorderWrites DEF EndInv, Blank
        <4>2. CASE recorder
          BY <1>17, <2>6, <4>2, CloseRecorderWrites, FilesTyped DEF Writes
        <4>3. QED BY <4>1, <4>2
      <3>3. /\ disk[morning].steps + buffered.steps <= Latest
            /\ buffered.journal = 0 /\ disk[morning].journal <= disk[morning].steps + 1
        BY <2>6 DEF LinesInv
      <3>4. crash = "none" => Waits(0, 0) /\ (Whole(morning) \/ OnDisk(0, 0))
        BY <1>17, <2>6 DEF LinesInv, CloseRecorder, End, Replayed
      <3>5. ASSUME crash = "none" PROVE Whole(morning)' \/ OnDisk(0, 0)'
        <4>1. disk'[morning].steps = disk[morning].steps /\ disk'[morning].journal = disk[morning].journal
          BY <3>1, <3>2, <3>4, <3>5 DEF Waits
        <4>2. QED BY <2>1, <3>4, <3>5, <4>1 DEF Whole, OnDisk
      <3>6. QED BY <3>1, <3>2, <3>3, <3>5
    <2>7. pc \in {"ask", "open", "stopped"}
      BY <1>17 DEF CloseRecorder, Joined, Outlasts
    <2>8. QED
      <3>1. Len(lived) = morning
        BY DEF LinesInv
      <3>2. CASE pc = "ask"
        BY <2>1, <2>2, <2>3, <2>4, <3>1, <3>2 DEF LinesInv
      <3>3. CASE pc = "open"
        BY <2>1, <2>2, <2>3, <2>5, <3>1, <3>3 DEF LinesInv
      <3>4. CASE pc = "stopped"
        BY <2>1, <2>2, <2>3, <2>6, <3>1, <3>4 DEF LinesInv, Waits, Latest
      <3>5. QED BY <2>7, <3>2, <3>3, <3>4
  <1>18. CASE Kill
    <2>1. UNCHANGED <<disk, lived,
       crash>> /\ morning' = morning /\ pc' = "stopped" /\ process' = "killed"
      BY <1>18 DEF Kill, morning
    <2>2. Waits(0, 0)' /\ End' = "killed"
      BY <1>18 DEF Kill, Waits, Blank, End, Replayed
    <2>3. ASSUME morning > 0
          PROVE  /\ disk[morning].steps + 0 <= Latest
                 /\ disk[morning].journal <= disk[morning].steps + 1
      <3>1. End \notin {"left", "killed"}
        BY <1>18 DEF Kill, End, Replayed
      <3>2. /\ disk[morning].steps \in Nat /\ disk[morning].journal \in Nat /\ Latest \in Nat
            /\ buffered.steps \in Nat
        BY <2>3, LatestTyped, FilesTyped
      <3>3. CASE pc = "ask"
        <4>1. recorder
          BY <3>1, <3>3 DEF EndInv
        <4>2. QED BY <2>3, <3>2, <3>3, <4>1 DEF LinesInv, OnDisk
      <3>4. CASE pc = "stopped"
        BY <2>3, <3>1, <3>2, <3>4 DEF LinesInv, Whole, Latest
      <3>5. CASE pc \in {"build", "once", "take", "act"}
        BY <2>3, <3>2, <3>5 DEF LinesInv, Whole, Latest
      <3>6. CASE pc \in {"open", "step", "journal", "publish"}
        BY <2>3, <3>2, <3>6 DEF LinesInv, OnDisk
      <3>7. QED BY <3>3, <3>4, <3>5, <3>6 DEF TypeOK
    <2>4. QED BY <2>1, <2>2, <2>3 DEF LinesInv, Whole, Waits, Latest
  <1>19. CASE ReplayStep
    <2>1. UNCHANGED <<disk, buffered, recorder, lived, pc, crash>> /\ morning' = morning
      BY <1>19 DEF ReplayStep, stepping, files, morning
    <2>2. End' = End
      BY <1>19, CountsTyped DEF ReplayStep, End, Replayed
    <2>3. QED BY <2>1, <2>2 DEF LinesInv, Whole, OnDisk, Waits, Latest
  <1>20. CASE ReplayEnds
    BY <1>20 DEF ReplayEnds, page, stepping, files, LinesInv, Whole, OnDisk, Waits, Latest, End,
       Replayed, morning
  <1>21. ASSUME NEW m \in DOMAIN disk, Replay(m) PROVE LinesInv'
    BY <1>21 DEF Replay, page, stepping, files, LinesInv, Whole, OnDisk, Waits, Latest, End,
       Replayed, morning
  <1>22. QED
    BY <1>1, <1>2, <1>3, <1>4, <1>5, <1>6, <1>7, <1>8, <1>9, <1>10, <1>11, <1>12, <1>13, <1>14,
       <1>15, <1>16, <1>17, <1>18, <1>19, <1>20, <1>21 DEF Next, Farm, Wishes

\* Every step keeps the commands in step with the questions.
LEMMA AnswersKept ==
  ASSUME TypeOK, EndInv, LinesInv, AnswersInv, [Next]_vars
  PROVE  AnswersInv'
  <1>1. CASE UNCHANGED vars
    BY <1>1 DEF vars, page, pressed, stepping, files, AnswersInv, Unanswered, Latest, End, Replayed, morning
  <1>2. CASE Asks
    BY <1>2, AsksAside DEF Aside, stepping, files, AnswersInv, Unanswered, Latest, End, Replayed, morning
  <1>3. CASE Open
    BY <1>3, OpenWrites DEF Open, Thread, AnswersInv, Unanswered, Latest, End, Replayed, morning
  <1>4. CASE Start
    BY <1>4, StartWrites, AtWork DEF Start, Thread, Writes, EndInv, AnswersInv, Unanswered,
       Latest, End, Replayed, morning
  <1>5. CASE FailsToBuild
    BY <1>5 DEF FailsToBuild, Thread, files, EndInv, AnswersInv, Unanswered, Latest, End,
       Replayed, morning
  <1>6. CASE Stops
    BY <1>6 DEF Stops, Thread, files, AnswersInv, Unanswered, Latest, End, Replayed, morning
  <1>7. CASE TakeRestart
    BY <1>7 DEF TakeRestart, Thread, files, AnswersInv, Unanswered, Latest, End, Replayed, morning
  <1>8. CASE TakeClicks
    BY <1>8 DEF TakeClicks, Thread, files, AnswersInv, Unanswered, Latest, End, Replayed, morning
  <1>9. CASE Act
    <2>1. morning > 0 /\ pc = "act" /\ UNCHANGED disk /\ morning' = morning
      BY <1>9, AtWork DEF Act, morning
    <2>2. CASE "restart" \in Range(asked)
      <3>1. UNCHANGED lived /\ pc' = "stopped"
        BY <1>9, <2>2 DEF Act, Raise
      <3>2. QED BY <2>1, <3>1 DEF AnswersInv, Unanswered
    <2>3. CASE "restart" \notin Range(asked)
      <3>1. pc' = "step"
        BY <1>9, <2>3 DEF Act
      <3>2. /\ lived'[morning] = Append(lived[morning], FALSE)
            /\ \A m \in 1 .. morning - 1 : lived'[m] = lived[m]
        BY <1>9, <2>1, <2>3, ActLives, LivesElsewhere
      <3>3. lived[morning] \in Seq(BOOLEAN) /\ Latest = Len(lived[morning]) /\ Latest \in Nat
        BY <2>1, LatestTyped DEF Latest
      <3>4. /\ Len(lived'[morning]) = Latest + 1 /\ ~lived'[morning][Latest + 1]
            /\ \A n \in 1 .. Latest : lived'[morning][n] = lived[morning][n]
        BY <3>2, <3>3, OneMoreUntrue
      <3>5. ~lived'[morning][Latest'] /\ morning \in Nat
        BY <2>1, <3>4, FilesTyped DEF Latest
      <3>6. ASSUME NEW m \in 1 .. morning
            PROVE  /\ \A n \in disk[m].commands : n \in 1 .. Len(lived'[m]) /\ lived'[m][n]
                   /\ \A n \in 1 .. Len(lived'[m]) : lived'[m][n] => n \in disk[m].commands
        <4>1. CASE m = morning
          <5>1. \A n \in disk[m].commands : n \in 1 .. Latest /\ lived[m][n]
            BY <4>1 DEF AnswersInv, Latest
          <5>2. \A n \in 1 .. Latest : lived[m][n] => n \in disk[m].commands
            BY <2>1, <4>1 DEF AnswersInv, Unanswered, Latest
          <5>3. \A n \in 1 .. Len(lived'[m]) : lived'[m][n] => n \in 1 .. Latest
            BY <3>3, <3>4, <4>1
          <5>4. Latest \in Nat /\ Len(lived'[m]) = Latest + 1
            BY <3>3, <3>4, <4>1
          <5>5. \A n \in 1 .. Latest : lived'[m][n] = lived[m][n] /\ n \in 1 .. Latest + 1
            BY <3>4, <4>1, <5>4
          <5>6. \A n \in disk[m].commands : n \in 1 .. Len(lived'[m]) /\ lived'[m][n]
            BY <5>1, <5>4, <5>5
          <5>7. \A n \in 1 .. Len(lived'[m]) : lived'[m][n] => n \in disk[m].commands
            BY <5>2, <5>3, <5>5
          <5>8. QED BY <5>6, <5>7
        <4>2. CASE m # morning
          BY <2>1, <3>2, <3>5, <4>2 DEF AnswersInv, Unanswered
        <4>3. QED BY <4>1, <4>2
      <3>7. QED BY <2>1, <3>1, <3>5, <3>6 DEF AnswersInv
    <2>4. QED BY <2>2, <2>3
  <1>10. CASE Step
    <2>1. morning > 0 /\ pc = "step" /\ UNCHANGED <<disk, crash, process,
       played>> /\ morning' = morning
      BY <1>10, AtWork DEF Step, Thread, morning
    <2>2. OnDisk(Latest - 1, Latest) /\ Latest > 0 /\ ~lived[morning][Latest]
      BY <2>1 DEF LinesInv, AnswersInv
    <2>3. CASE pc' = "journal"
      BY <1>10, <2>1, <2>3 DEF Step, AnswersInv, Unanswered
    <2>4. CASE pc' = "ask"
      <3>1. /\ lived'[morning] = [lived[morning] EXCEPT ![Latest] = TRUE]
            /\ \A m \in 1 .. morning - 1 : lived'[m] = lived[m]
        BY <1>10, <2>1, <2>4, AsksLives, LivesElsewhere
      <3>2. /\ lived[morning] \in Seq(BOOLEAN) /\ Latest = Len(lived[morning]) /\ Latest \in Nat
            /\ morning \in Nat
        BY <2>1, LatestTyped, FilesTyped DEF Latest
      <3>3. /\ Len(lived'[morning]) = Latest /\ lived'[morning][Latest] = TRUE
            /\ \A n \in 1 .. Latest : n # Latest => lived'[morning][n] = lived[morning][n]
        BY <2>2, <3>1, <3>2, OneReplaced
      <3>4. Latest' = Latest /\ Latest \notin disk[morning].commands /\ disk[morning].steps < Latest
        BY <2>1, <2>2, <3>2, <3>3 DEF AnswersInv, Latest, OnDisk
      <3>5. ASSUME NEW m \in 1 .. morning
            PROVE  /\ \A n \in disk[m].commands : n \in 1 .. Len(lived'[m]) /\ lived'[m][n]
                   /\ \A n \in 1 .. Len(lived'[m]) :
                        lived'[m][n] => n \in disk[m].commands \/ (m = morning /\ n = Latest)
        <4>1. CASE m = morning
          <5>1. /\ \A n \in disk[m].commands : n \in 1 .. Latest /\ lived[m][n] /\ n # Latest
                /\ \A n \in 1 .. Latest : lived[m][n] => n \in disk[m].commands
            BY <2>1, <3>2, <3>4, <4>1 DEF AnswersInv, Unanswered
          <5>2. QED BY <3>3, <4>1, <5>1
        <4>2. CASE m # morning
          <5>1. m \in 1 .. morning - 1
            BY <3>2, <4>2
          <5>2. lived'[m] = lived[m]
            BY <3>1, <5>1
          <5>3. QED BY <4>2, <5>2 DEF AnswersInv, Unanswered
        <4>3. QED BY <4>1, <4>2
      <3>6. QED BY <2>1, <2>4, <3>3, <3>4, <3>5 DEF AnswersInv, Unanswered
    <2>5. QED BY <1>10, <2>3, <2>4 DEF Step
  <1>11. CASE Answered
    <2>1. morning > 0 /\ pc = "ask" /\ pc' = "journal" /\ UNCHANGED lived /\ recorder
      BY <1>11, AtWork DEF Answered
    <2>2. /\ morning' = morning
          /\ disk'[morning].commands = disk[morning].commands \cup {Latest}
          /\ \A m \in 1 .. morning - 1 : disk'[m] = disk[m]
      BY <1>11, <2>1, AnsweredWrites, FilesTyped DEF Writes, morning
    <2>3. Latest \in 1 .. Len(lived[morning]) /\ lived[morning][Latest] /\ morning \in Nat
      BY <2>1, LatestTyped, FilesTyped DEF LinesInv, AnswersInv, Latest
    <2>4. ASSUME NEW m \in 1 .. morning
          PROVE  /\ \A n \in disk'[m].commands : n \in 1 .. Len(lived[m]) /\ lived[m][n]
                 /\ \A n \in 1 .. Len(lived[m]) : lived[m][n] => n \in disk'[m].commands
      <3>1. CASE m = morning
        BY <2>2, <2>3, <3>1 DEF AnswersInv, Unanswered
      <3>2. CASE m # morning
        BY <2>2, <2>3, <3>2 DEF AnswersInv, Unanswered
      <3>3. QED BY <3>1, <3>2
    <2>5. QED BY <2>1, <2>2, <2>4 DEF AnswersInv
  <1>12. CASE WritesToClosed
    BY <1>12 DEF WritesToClosed, Thread, files, Raise, EndInv, AnswersInv, Unanswered, Latest,
       End, Replayed, morning
  <1>13. CASE FlushSteps
    BY <1>13, FlushStepsWrites, AtWork DEF FlushSteps, Thread, Writes, EndInv, AnswersInv,
       Unanswered, Latest, End, Replayed, morning
  <1>14. CASE FlushJournal
    BY <1>14, FlushJournalWrites, AtWork DEF FlushJournal, Thread, Writes, EndInv, AnswersInv,
       Unanswered, Latest, End, Replayed, morning
  <1>15. CASE SourceFails
    BY <1>15 DEF SourceFails, Thread, files, Raise, EndInv, AnswersInv, Unanswered, Latest, End,
       Replayed, morning
  <1>16. CASE Close
    BY <1>16 DEF Close, page, stepping, files, AnswersInv, Unanswered, Latest, End, Replayed,
       morning
  <1>17. CASE CloseRecorder
    <2>1. /\ UNCHANGED <<lived, pc, crash>> /\ morning' = morning /\ morning \in Nat
          /\ (pc = "ask" => process' = "left") /\ pc \in {"ask", "open", "stopped"}
      BY <1>17, CloseRecorderWrites, FilesTyped DEF CloseRecorder, stepping, Writes, morning,
         Joined, Outlasts
    <2>2. \A m \in 1 .. morning : disk'[m].commands = disk[m].commands
      <3>1. CASE ~recorder
        BY <1>17, <3>1, CloseRecorderWrites
      <3>2. CASE recorder
        BY <1>17, <3>2, CloseRecorderWrites, CommandsUntouched
      <3>3. QED BY <3>1, <3>2
    <2>3. \A m \in 1 .. morning : m # morning => disk'[m].steps = disk[m].steps
      BY <1>17, CloseRecorderWrites, FilesTyped DEF Writes
    <2>4. morning > 0 /\ pc = "stopped" /\ crash = "none" =>
            disk'[morning].steps = disk[morning].steps
      BY <1>17, CloseRecorderWrites, LatestTyped DEF Writes, LinesInv, Waits
    <2>5. End' = process' /\ End \notin {"left"}
      BY <1>17 DEF CloseRecorder, End, Replayed
    <2>6. ASSUME NEW m, NEW n, m \in 1 .. morning, Unanswered(m, n) PROVE Unanswered(m, n)'
      BY <2>1, <2>4, <2>5, <2>6 DEF Unanswered, Latest
    <2>7. pc = "ask" => morning \in 1 .. morning
      BY <2>1, AtWork
    <2>8. QED BY <2>1, <2>2, <2>6, <2>7 DEF AnswersInv, Latest, Unanswered
  <1>18. CASE Kill
    BY <1>18 DEF Kill, page, stepping, files, EndInv, LinesInv, AnswersInv, Unanswered, Latest,
       End, Replayed, morning
  <1>19. CASE ReplayStep
    <2>1. UNCHANGED <<disk, lived, pc, crash>> /\ morning' = morning
      BY <1>19 DEF ReplayStep, stepping, files, morning
    <2>2. End' = End
      BY <1>19, CountsTyped DEF ReplayStep, End, Replayed
    <2>3. QED BY <2>1, <2>2 DEF AnswersInv, Unanswered, Latest
  <1>20. CASE ReplayEnds
    BY <1>20 DEF ReplayEnds, page, stepping, files, AnswersInv, Unanswered, Latest, End, Replayed,
       morning
  <1>21. ASSUME NEW m \in DOMAIN disk, Replay(m) PROVE AnswersInv'
    BY <1>21 DEF Replay, page, stepping, files, AnswersInv, Unanswered, Latest, End, Replayed,
       morning
  <1>22. QED
    BY <1>1, <1>2, <1>3, <1>4, <1>5, <1>6, <1>7, <1>8, <1>9, <1>10, <1>11, <1>12, <1>13, <1>14,
       <1>15, <1>16, <1>17, <1>18, <1>19, <1>20, <1>21 DEF Next, Farm, Wishes

\* Every step keeps what a replay has found so far.
LEMMA ReplayKept ==
  ASSUME TypeOK, EndInv, LinesInv, ReplayInv, [Next]_vars
  PROVE  ReplayInv'
  <1>1. CASE UNCHANGED vars
    BY <1>1 DEF vars, page, pressed, stepping, files, ReplayInv, Recorded, Replayed, EndInv, End, morning
  <1>2. CASE Asks
    BY <1>2, AsksAside DEF Aside, stepping, files, ReplayInv, Recorded, Replayed, EndInv, End, morning
  <1>3. CASE Open
    BY <1>3, OpenWrites DEF Open, Thread, ReplayInv, Recorded, Replayed, EndInv, End, morning
  <1>4. CASE Start
    BY <1>4 DEF Start, Thread, ReplayInv, Recorded, Replayed, EndInv, End, morning
  <1>5. CASE FailsToBuild
    BY <1>5 DEF FailsToBuild, Thread, files, ReplayInv, Recorded, Replayed, EndInv, End, morning
  <1>6. CASE Stops
    BY <1>6 DEF Stops, Thread, files, ReplayInv, Recorded, Replayed, EndInv, End, morning
  <1>7. CASE TakeRestart
    BY <1>7 DEF TakeRestart, Thread, files, ReplayInv, Recorded, Replayed, EndInv, End, morning
  <1>8. CASE TakeClicks
    BY <1>8 DEF TakeClicks, Thread, files, ReplayInv, Recorded, Replayed, EndInv, End, morning
  <1>9. CASE Act
    BY <1>9 DEF Act, Thread, Raise, ReplayInv, Recorded, Replayed, EndInv, End, morning
  <1>10. CASE Step
    BY <1>10 DEF Step, Thread, ReplayInv, Recorded, Replayed, EndInv, End, morning
  <1>11. CASE Answered
    BY <1>11 DEF Answered, Thread, ReplayInv, Recorded, Replayed, EndInv, End, morning
  <1>12. CASE WritesToClosed
    BY <1>12 DEF WritesToClosed, Thread, files, Raise, ReplayInv, Recorded, Replayed, EndInv, End,
       morning
  <1>13. CASE FlushSteps
    BY <1>13 DEF FlushSteps, Thread, ReplayInv, Recorded, Replayed, EndInv, End, morning
  <1>14. CASE FlushJournal
    BY <1>14 DEF FlushJournal, Thread, ReplayInv, Recorded, Replayed, EndInv, End, morning
  <1>15. CASE SourceFails
    BY <1>15 DEF SourceFails, Thread, files, Raise, ReplayInv, Recorded, Replayed, EndInv, End,
       morning
  <1>16. CASE Close
    BY <1>16 DEF Close, page, stepping, files, ReplayInv, Recorded, Replayed, EndInv, End, morning
  <1>17. CASE CloseRecorder
    BY <1>17 DEF CloseRecorder, page, stepping, files, ReplayInv, Recorded, Replayed, EndInv, End,
       morning
  <1>18. CASE Kill
    BY <1>18 DEF Kill, page, stepping, files, ReplayInv, Recorded, Replayed, EndInv, End, morning
  <1>19. CASE ReplayStep
    <2>1. /\ process = "replaying" /\ UNCHANGED <<disk, lived>> /\ morning' = morning
          /\ played.steps + 1 <= disk[played.of].steps /\ played.steps \in Nat
      BY <1>19, CountsTyped DEF ReplayStep, files, morning
    <2>2. played.of \in 1 .. morning /\ \A n \in 1 .. played.steps : Recorded(played.of, n)
      BY <2>1 DEF ReplayInv, Replayed
    <2>3. CASE Recorded(played.of, played.steps + 1)
      <3>1. process' = process /\ played'.of = played.of /\ played'.steps = played.steps + 1
        BY <1>19, <2>3, CountsTyped DEF ReplayStep
      <3>2. \A n \in 1 .. played.steps + 1 : Recorded(played.of, n)
        BY <2>1, <2>2, <2>3
      <3>3. QED BY <2>1, <2>2, <3>1, <3>2 DEF ReplayInv, Recorded
    <2>4. CASE ~Recorded(played.of, played.steps + 1)
      <3>1. process' = "lost" /\ played' = played
        BY <1>19, <2>4 DEF ReplayStep
      <3>2. played.steps <= disk[played.of].steps /\ played.steps < disk[played.of].steps
        <4>1. disk[played.of] \in Recording
          BY <2>2, FilesTyped
        <4>2. disk[played.of].steps \in Nat
          BY <4>1, RecordingFields
        <4>3. QED BY <2>1, <4>2
      <3>3. QED BY <2>1, <2>2, <2>4, <3>1, <3>2 DEF ReplayInv, Recorded
    <2>5. QED BY <2>3, <2>4
  <1>20. CASE ReplayEnds
    BY <1>20 DEF ReplayEnds, page, stepping, files, ReplayInv, Recorded, Replayed, EndInv, End,
       morning
  <1>21. ASSUME NEW m \in DOMAIN disk, Replay(m) PROVE ReplayInv'
    <2>1. /\ process' = "replaying" /\ played' = [of |-> m, after |-> process, steps |-> 0]
          /\ UNCHANGED <<disk, lived>> /\ morning' = morning
      BY <1>21 DEF Replay, files, morning
    <2>2. m \in 1 .. morning /\ disk[m] \in Recording
      BY FilesTyped
    <2>3. disk[m].steps \in Nat
      BY <2>2, RecordingFields
    <2>4. QED BY <2>1, <2>2, <2>3 DEF ReplayInv
  <1>22. QED
    BY <1>1, <1>2, <1>3, <1>4, <1>5, <1>6, <1>7, <1>8, <1>9, <1>10, <1>11, <1>12, <1>13, <1>14,
       <1>15, <1>16, <1>17, <1>18, <1>19, <1>20, <1>21 DEF Next, Farm, Wishes

-----------------------------------------------------------------------------
(***************************************************************************)
(* The files invariant, and what it says of a replay.                      *)
(***************************************************************************)
LEMMA FilesInit == Init => FilesInv
  <1> SUFFICES ASSUME Init PROVE FilesInv
    OBVIOUS
  <1>1. morning = 0
    BY DEF Init, morning
  <1>2. TypeOK
    BY EmptySequence DEF Init, TypeOK, Lines, Blank, Recordings, Replays, Replayed
  <1>3. EndInv /\ LinesInv /\ AnswersInv /\ ReplayInv
    BY <1>1 DEF Init, EndInv, End, LinesInv, AnswersInv, ReplayInv, Replayed
  <1>4. QED BY <1>2, <1>3 DEF FilesInv

\* The invariant is inductive.
LEMMA FilesKept == FilesInv /\ [Next]_vars => FilesInv'
  BY TypeKept, EndKept, LinesKept, AnswersKept, ReplayKept DEF FilesInv

\* The invariant holds in every state.
LEMMA FilesAlways == Spec => []FilesInv
  BY FilesInit, FilesKept, PTL DEF Spec

\* Every variable of the recordings keeps its type.
THEOREM TypeCorrect == Spec => []TypeOK
  <1>1. FilesInv => TypeOK
    BY DEF FilesInv
  <1>2. QED BY <1>1, FilesAlways, PTL

\* Whenever the server is killed, every command that a step on disk needs is on disk: only a
\* session whose last turn failed or was left at the close loses its replay (recording.py:67).
THEOREM ReplaysReachTheEnd == Spec => []RecordingsReplay
  <1>1. FilesInv => RecordingsReplay
    <2> SUFFICES ASSUME FilesInv, process = "lost"
                 PROVE  played.of = morning /\ (crash # "none" \/ played.after = "left")
      BY DEF RecordingsReplay
    <2> DEFINE m == played.of
               n == played.steps + 1
    <2>1. m \in 1 .. morning /\ ~Recorded(m, n) /\ played.steps < disk[m].steps
      BY DEF FilesInv, ReplayInv, Replayed
    <2>2. disk[m] \in Recording /\ disk[m].steps \in Nat /\ played.steps \in Nat
      BY <2>1, FilesTyped, CountsTyped, RecordingFields DEF FilesInv
    <2>3. disk[m].steps <= Len(lived[m])
      <3>1. CASE m # morning
        <4>1. m \in 1 .. morning - 1
          BY <2>1, <3>1, FilesTyped DEF FilesInv
        <4>2. QED BY <2>2, <4>1 DEF FilesInv, LinesInv, Whole
      <3>2. CASE m = morning
        <4>1. morning > 0 /\ buffered.steps \in Nat /\ Latest \in Nat
          BY <2>1, <3>2, FilesTyped, LatestTyped DEF FilesInv
        <4>2. disk[morning].steps <= Latest
          <5>1. CASE pc \in {"build", "once", "take", "act"}
            BY <2>2, <3>2, <4>1, <5>1 DEF FilesInv, LinesInv, Whole, Latest
          <5>2. CASE pc \in {"open", "step", "journal", "ask", "publish"}
            BY <2>2, <3>2, <4>1, <5>2 DEF FilesInv, LinesInv, OnDisk
          <5>3. CASE pc = "stopped"
            BY <2>2, <3>2, <4>1, <5>3 DEF FilesInv, LinesInv
          <5>4. QED BY <5>1, <5>2, <5>3 DEF FilesInv, TypeOK
        <4>3. QED BY <3>2, <4>2 DEF Latest
      <3>3. QED BY <3>1, <3>2
    <2>4. n \in 1 .. Len(lived[m]) /\ n <= disk[m].steps
      BY <2>1, <2>2, <2>3
    <2>5. Unanswered(m, n)
      BY <2>1, <2>4 DEF FilesInv, AnswersInv, Recorded
    <2>6. QED BY <2>2, <2>4, <2>5 DEF Unanswered, End, Replayed
  <1>2. QED BY <1>1, FilesAlways, PTL

\* Every morning but the last replays to the journal it recorded; the last to that or, killed, left
\* or crashed, to no less (recording.py:17).
THEOREM JournalsAgree == Spec => []JournalsMatch
  <1>1. FilesInv => JournalsMatch
    <2> DEFINE m == played.of
    <2> SUFFICES ASSUME FilesInv, process = "replayed"
                 PROVE  \/ disk[m].journal = 1 + disk[m].steps
                        \/ /\ m = morning /\ disk[m].journal <= disk[m].steps + 1
                           /\ \/ played.after # "closed" \/ crash # "none"
                              \/ disk[m].steps + disk[m].journal = 0
      BY DEF JournalsMatch
    <2>1. /\ m \in 1 .. morning /\ played.steps = disk[m].steps
          /\ \A n \in 1 .. disk[m].steps : Recorded(m, n)
      BY DEF FilesInv, ReplayInv, Replayed
    <2>2. CASE m # morning
      <3>1. m \in 1 .. morning - 1 /\ disk[m] \in Recording
        BY <2>1, <2>2, FilesTyped DEF FilesInv
      <3>2. disk[m].steps = Len(lived[m]) /\ disk[m].journal = Len(lived[m]) + 1
        BY <3>1 DEF FilesInv, LinesInv, Whole
      <3>3. disk[m].steps \in Nat
        BY <3>1, RecordingFields
      <3>4. QED BY <3>2, <3>3
    <2>3. CASE m = morning
      <3>1. /\ morning > 0 /\ Latest \in Nat /\ disk[morning].steps \in Nat
            /\ disk[morning].journal \in Nat /\ End = played.after
        BY <2>1, <2>3, FilesTyped, LatestTyped DEF FilesInv, End, Replayed
      <3>2. /\ pc \in {"ask", "open", "stopped"} /\ ~recorder
            /\ pc # "stopped" => played.after = "left"
        BY <3>1 DEF FilesInv, EndInv, End, Replayed, TypeOK, Replays
      <3>3. CASE pc = "ask"
        BY <2>3, <3>1, <3>2, <3>3 DEF FilesInv, LinesInv, OnDisk
      <3>4. CASE pc = "open"
        BY <2>3, <3>1, <3>2, <3>4 DEF FilesInv, LinesInv, OnDisk
      <3>5. CASE pc = "stopped"
        <4>1. disk[morning].journal <= disk[morning].steps + 1
          BY <3>1, <3>5 DEF FilesInv, LinesInv
        <4>2. crash = "none" => Whole(morning) \/ OnDisk(0, 0) \/ played.after = "killed"
          BY <3>1, <3>5 DEF FilesInv, LinesInv
        <4>3. QED BY <2>3, <3>1, <4>1, <4>2 DEF Whole, OnDisk
      <3>6. QED BY <3>2, <3>3, <3>4, <3>5
    <2>4. QED BY <2>2, <2>3
  <1>2. QED BY <1>1, FilesAlways, PTL

-----------------------------------------------------------------------------
(***************************************************************************)
(* Clicks, at any moment.                                                  *)
(***************************************************************************)
LEMMA RangeOfEmpty == Range(<<>>) = {}
  BY DEF Range

\* What is queued after one more.
LEMMA RangeOfAppend ==
  ASSUME NEW S, NEW s \in Seq(S), NEW c \in S
  PROVE  Range(Append(s, c)) = Range(s) \cup {c}
  <1>1. DOMAIN Append(s, c) = 1 .. (Len(s) + 1) /\ DOMAIN s = 1 .. Len(s)
    OBVIOUS
  <1>2. \A i \in 1 .. Len(s) : Append(s, c)[i] = s[i]
    OBVIOUS
  <1>3. Append(s, c)[Len(s) + 1] = c
    OBVIOUS
  <1>4. Range(s) = {s[i] : i \in 1 .. Len(s)}
    BY DEF Range
  <1>5. Range(Append(s, c)) = {Append(s, c)[i] : i \in 1 .. (Len(s) + 1)}
    BY <1>1 DEF Range
  <1>6. QED BY <1>2, <1>3, <1>4, <1>5, SMTT(20)

\* One more element is alone of its kind, if it was not there.
LEMMA OneMoreOnce ==
  ASSUME NEW S, NEW s \in Seq(S), NEW c \in S, NEW what, AtMostOnce(what, s),
         what = c => what \notin Range(s)
  PROVE  AtMostOnce(what, Append(s, c))
  <1>1. DOMAIN Append(s, c) = 1 .. (Len(s) + 1) /\ DOMAIN s = 1 .. Len(s) /\ Len(s) \in Nat
    OBVIOUS
  <1>2. \A i \in 1 .. Len(s) : Append(s, c)[i] = s[i]
    OBVIOUS
  <1>3. Append(s, c)[Len(s) + 1] = c
    OBVIOUS
  <1>4. what = c => \A i \in 1 .. Len(s) : s[i] # what
    BY <1>1 DEF Range
  <1> DEFINE t == Append(s, c)
  <1>5. /\ DOMAIN t = 1 .. (Len(s) + 1) /\ t[Len(s) + 1] = c
        /\ \A i \in 1 .. Len(s) : t[i] = s[i]
    BY <1>1, <1>2, <1>3
  <1> HIDE DEF t
  <1>6. AtMostOnce(what, t)
    <2> SUFFICES ASSUME NEW i \in 1 .. (Len(s) + 1), NEW j \in 1 .. (Len(s) + 1),
                        t[i] = what, t[j] = what
                 PROVE  i = j
      BY <1>5 DEF AtMostOnce
    <2>1. CASE i \in 1 .. Len(s) /\ j \in 1 .. Len(s)
      BY <1>1, <1>5, <2>1 DEF AtMostOnce
    <2>2. CASE i = Len(s) + 1 \/ j = Len(s) + 1
      BY <1>1, <1>4, <1>5, <2>2
    <2>3. QED BY <1>1, <2>1, <2>2
  <1>7. QED BY <1>6 DEF t

\* What was asked for at most once, and not while under way, is begun at most once.
LEMMA BegunOnce ==
  ASSUME NEW what, asked \in Seq(Wishes), AtMostOnce(what, asked),
         what \in on => what \notin Range(asked)
  PROVE  ~(Begun(what) > 1)
  <1> DEFINE K == {k \in DOMAIN asked : asked[k] = what}
  <1>1. CASE what \notin Range(asked)
    <2>1. K = {}
      BY <1>1 DEF Range
    <2>2. Cardinality(K) = 0
      BY <2>1, FS_EmptySet
    <2>3. QED BY <2>2 DEF Begun
  <1>2. CASE what \in Range(asked)
    <2>1. PICK k \in DOMAIN asked : asked[k] = what
      BY <1>2 DEF Range
    <2>2. K = {k}
      BY <2>1 DEF AtMostOnce
    <2>3. Cardinality(K) = 1
      BY <2>2, FS_Singleton
    <2>4. QED BY <1>2, <2>3 DEF Begun
  <1>3. QED BY <1>1, <1>2

\* One more control queued is not a restart.
LEMMA OneMoreControl ==
  ASSUME TypeOK
  PROVE  /\ \A k \in DOMAIN judged : judged[k] \in Controls
         /\ \A what \in Controls :
              what # "restart" /\ Range(Append(inbox, what)) = Range(inbox) \cup {what}
  <1>1. inbox \in Seq(Wishes) /\ judged \in Seq(Controls)
    BY DEF TypeOK
  <1>2. ASSUME NEW what \in Controls
        PROVE  what # "restart" /\ Range(Append(inbox, what)) = Range(inbox) \cup {what}
    <2>1. what \in Wishes /\ what # "restart"
      BY LiveAssumption DEF Wishes
    <2>2. QED BY <1>1, <2>1, RangeOfAppend
  <1>3. \A k \in DOMAIN judged : judged[k] \in Controls
    BY <1>1
  <1>4. QED BY <1>2, <1>3

\* On the farm a click queues nothing but what was judged.
LEMMA ClicksOnTheFarm ==
  ASSUME TypeOK, Asks, app = "farm", "restart" \notin Range(inbox)
  PROVE  "restart" \notin Range(inbox')
  <1>1. inbox' = inbox \/ \E what \in Controls : inbox' = Append(inbox, what)
    BY OneMoreControl DEF Asks, Judge, Queue, AskRestart, AskStretch
  <1>2. QED BY <1>1, OneMoreControl

\* Every step keeps a restart out of the thread's way, but between its two looks.
LEMMA TurnKept ==
  ASSUME TypeOK, TurnInv, [Next]_vars
  PROVE  TurnInv'
  <1>1. CASE UNCHANGED vars
    BY <1>1 DEF vars, page, pressed, stepping, files, TurnInv, ClicksNeverStopIt
  <1>2. CASE Asks
    <2>1. UNCHANGED <<app, pc, asked, crash>>
      BY <1>2, AsksAside DEF Aside, stepping
    <2>2. between => between'
      BY <1>2, Zenon DEF Asks, Judge, Queue, AskRestart, AskStretch
    <2>3. CASE app = "farm"
      <3>1. "restart" \notin Range(inbox')
        BY <1>2, <2>3, ClicksOnTheFarm DEF TurnInv
      <3>2. QED BY <2>1, <2>3, <3>1 DEF TurnInv, ClicksNeverStopIt
    <2>4. CASE app = "stretch" /\ ~between' /\ pc = "take"
      <3>1. \/ inbox' = inbox
            \/ \E what \in Controls \cup {"restart"} :
                 what # "restart" /\ inbox' = Append(inbox, what)
            \/ \E k \in DOMAIN judged : inbox' = Append(inbox, judged[k])
        BY <1>2, <2>4 DEF Asks, Judge, Queue, AskRestart, AskStretch
      <3>2. \/ inbox' = inbox
            \/ \E what \in Controls : inbox' = Append(inbox, what)
        BY <3>1, OneMoreControl
      <3>3. "restart" \notin Range(inbox')
        BY <2>2, <2>4, <3>2, OneMoreControl DEF TurnInv
      <3>4. QED BY <2>1, <2>2, <2>4, <3>3 DEF TurnInv, ClicksNeverStopIt
    <2>5. CASE app # "farm" /\ ~(app = "stretch" /\ ~between' /\ pc = "take")
      BY <2>1, <2>2, <2>5 DEF TurnInv, ClicksNeverStopIt
    <2>6. QED BY <2>3, <2>4, <2>5
  <1>3. CASE Open
    BY <1>3 DEF Open, Thread, pressed, TurnInv, ClicksNeverStopIt
  <1>4. CASE Start
    BY <1>4 DEF Start, Thread, pressed, TurnInv, ClicksNeverStopIt
  <1>5. CASE FailsToBuild
    BY <1>5 DEF FailsToBuild, Thread, pressed, files, TurnInv, ClicksNeverStopIt
  <1>6. CASE Stops
    BY <1>6 DEF Stops, Thread, pressed, files, TurnInv, ClicksNeverStopIt
  <1>7. CASE TakeRestart
    BY <1>7, RangeOfEmpty DEF TakeRestart, Thread, pressed, files, RestartAsked, TypeOK, TurnInv, ClicksNeverStopIt
  <1>8. CASE TakeClicks
    BY <1>8, RangeOfEmpty DEF TakeClicks, Thread, pressed, files, TurnInv, ClicksNeverStopIt
  <1>9. CASE Act
    <2>1. "restart" \in Range(asked) => app = "stretch" /\ between
      BY LiveAssumption DEF TypeOK, TurnInv
    <2>2. pc' # "take" /\ UNCHANGED <<app, inbox, asked, between>>
      BY <1>9 DEF Act, Raise, Thread, pressed
    <2>3. crash' = "no such act" => "restart" \in Range(asked) \/ crash = "no such act"
      BY <1>9 DEF Act
    <2>4. QED BY <2>1, <2>2, <2>3 DEF TurnInv, ClicksNeverStopIt
  <1>10. CASE Step
    <2>1. pc' # "take" /\ UNCHANGED <<app, inbox, crash, between>> /\ Range(asked') = {}
      BY <1>10, RangeOfEmpty DEF Step, Thread, pressed
    <2>2. QED BY <2>1 DEF TurnInv, ClicksNeverStopIt
  <1>11. CASE Answered
    BY <1>11 DEF Answered, Thread, pressed, TurnInv, ClicksNeverStopIt
  <1>12. CASE WritesToClosed
    BY <1>12 DEF WritesToClosed, Thread, pressed, files, Raise, TurnInv, ClicksNeverStopIt
  <1>13. CASE FlushSteps
    BY <1>13 DEF FlushSteps, Thread, pressed, TurnInv, ClicksNeverStopIt
  <1>14. CASE FlushJournal
    BY <1>14 DEF FlushJournal, Thread, pressed, TurnInv, ClicksNeverStopIt
  <1>15. CASE SourceFails
    BY <1>15 DEF SourceFails, Thread, pressed, files, Raise, TurnInv, ClicksNeverStopIt
  <1>16. CASE Close
    BY <1>16 DEF Close, page, pressed, stepping, files, TurnInv, ClicksNeverStopIt
  <1>17. CASE CloseRecorder
    BY <1>17 DEF CloseRecorder, page, pressed, stepping, files, TurnInv, ClicksNeverStopIt
  <1>18. CASE Kill
    BY <1>18 DEF Kill, page, pressed, stepping, files, TurnInv, ClicksNeverStopIt
  <1>19. CASE ReplayStep
    BY <1>19 DEF ReplayStep, page, pressed, stepping, files, TurnInv, ClicksNeverStopIt
  <1>20. CASE ReplayEnds
    BY <1>20 DEF ReplayEnds, page, pressed, stepping, files, TurnInv, ClicksNeverStopIt
  <1>21. ASSUME NEW m \in DOMAIN disk, Replay(m) PROVE TurnInv'
    BY <1>21 DEF Replay, page, pressed, stepping, files, TurnInv, ClicksNeverStopIt
  <1>22. QED
    BY <1>1, <1>2, <1>3, <1>4, <1>5, <1>6, <1>7, <1>8, <1>9, <1>10, <1>11, <1>12, <1>13, <1>14,
       <1>15, <1>16, <1>17, <1>18, <1>19, <1>20, <1>21 DEF Next, Farm, Wishes

\* What is taken out is no more there, if it was there once; the others stay.
LEMMA RangeOfRemoved ==
  ASSUME NEW S, NEW s \in Seq(S), NEW k \in DOMAIN s
  PROVE  /\ Range(RemoveAt(s, k)) \subseteq Range(s)
         /\ \A what : AtMostOnce(what, s) => AtMostOnce(what, RemoveAt(s, k))
         /\ AtMostOnce(s[k], s) => s[k] \notin Range(RemoveAt(s, k))
  <1> DEFINE t == RemoveAt(s, k)
  <1>1. /\ DOMAIN t = 1 .. Len(s) - 1 /\ DOMAIN s = 1 .. Len(s) /\ Len(s) \in Nat /\ k \in 1 .. Len(s)
        /\ \A i \in 1 .. Len(s) - 1 : t[i] = IF i < k THEN s[i] ELSE s[i + 1]
    <2>1. /\ t \in Seq(S) /\ Len(t) = Len(s) - 1
          /\ \A i \in 1 .. Len(s) - 1 : t[i] = IF i < k THEN s[i] ELSE s[i + 1]
      BY OneRemoved
    <2> HIDE DEF t
    <2>2. DOMAIN t = 1 .. Len(t) /\ DOMAIN s = 1 .. Len(s) /\ Len(s) \in Nat
      BY <2>1
    <2>3. QED BY <2>1, <2>2
  <1> HIDE DEF t
  <1>2. Range(t) \subseteq Range(s)
    BY <1>1 DEF Range
  <1>3. \A what : AtMostOnce(what, s) => AtMostOnce(what, t)
    BY <1>1 DEF AtMostOnce
  <1>4. AtMostOnce(s[k], s) => s[k] \notin Range(t)
    BY <1>1 DEF AtMostOnce, Range
  <1>5. QED BY <1>2, <1>3, <1>4 DEF t

\* A click keeps a single thing single, or says it misjudged.
LEMMA SinglyAsked ==
  ASSUME TypeOK, SinglyInv, Asks
  PROVE  SinglyInv'
  <1>1. UNCHANGED <<app, on, pc, asked, doubled>>
    BY AsksAside DEF Aside, stepping
  <1>2. judged \in Seq(Controls) /\ inbox \in Seq(Wishes) /\ Controls \subseteq Wishes
    BY DEF TypeOK, Wishes
  <1>3. CASE app # "farm"
    BY <1>1, <1>3 DEF SinglyInv
  <1>4. ASSUME app = "farm", NEW what \in Controls, Judge(what) PROVE SinglyInv'
    <2>1. /\ inbox' = inbox /\ judged' = Append(judged, what)
          /\ misjudged' = misjudged \cup ({what} \cap Single \cap (Range(judged) \cup Range(asked)))
          /\ what \in Single => what \notin on \cup Range(inbox)
      BY <1>4 DEF Judge, Possible
    <2>2. Range(judged') = Range(judged) \cup {what}
      BY <1>2, <2>1, RangeOfAppend
    <2>3. ASSUME NEW w \in Single \ misjudged' PROVE Apart(w)'
      <3>1. Apart(w) /\ (w = what => w \notin Range(judged) \cup Range(asked))
        BY <1>4, <2>1, <2>3 DEF SinglyInv
      <3>2. AtMostOnce(w, judged')
        BY <1>2, <2>1, <3>1, OneMoreOnce DEF Apart
      <3>3. AtMostOnce(w, inbox') /\ AtMostOnce(w, asked')
        BY <1>1, <2>1, <3>1 DEF Apart
      <3>4. QED BY <1>1, <2>1, <2>2, <2>3, <3>1, <3>2, <3>3 DEF Apart
    <2>4. QED BY <1>1, <1>4, <2>1, <2>3 DEF SinglyInv
  <1>5. ASSUME app = "farm", NEW k \in DOMAIN judged, Queue(k) PROVE SinglyInv'
    <2>1. /\ inbox' = Append(inbox, judged[k]) /\ judged' = RemoveAt(judged, k)
          /\ misjudged' = misjudged /\ judged[k] \in Range(judged) /\ judged[k] \in Wishes
      BY <1>2, <1>5 DEF Queue, Range
    <2>2. Range(inbox') = Range(inbox) \cup {judged[k]}
      BY <1>2, <2>1, RangeOfAppend
    <2>3. ASSUME NEW w \in Single \ misjudged PROVE Apart(w)'
      <3>1. Apart(w)
        BY <1>5, <2>3 DEF SinglyInv
      <3>2. /\ AtMostOnce(w, judged') /\ Range(judged') \subseteq Range(judged)
            /\ w = judged[k] => w \notin Range(judged')
        BY <1>2, <2>1, <3>1, RangeOfRemoved DEF Apart
      <3>3. AtMostOnce(w, inbox')
        BY <1>2, <2>1, <3>1, OneMoreOnce DEF Apart
      <3>4. AtMostOnce(w, asked')
        BY <1>1, <3>1 DEF Apart
      <3>5. QED BY <1>1, <2>1, <2>2, <3>1, <3>2, <3>3, <3>4 DEF Apart
    <2>4. QED BY <1>1, <1>5, <2>1, <2>3 DEF SinglyInv
  <1>6. CASE AskRestart
    BY <1>1, <1>6 DEF AskRestart, SinglyInv, Apart, AtMostOnce
  <1>7. ASSUME NEW what \in Wishes, AskStretch(what) PROVE SinglyInv'
    BY <1>1, <1>7 DEF AskStretch, SinglyInv
  <1>8. QED BY <1>3, <1>4, <1>5, <1>6, <1>7 DEF Asks, Wishes

\* Every step keeps a single thing single, if it was never misjudged.
LEMMA SinglyKept ==
  ASSUME TypeOK, SinglyInv, [Next]_vars
  PROVE  SinglyInv'
  <1>1. CASE UNCHANGED vars
    BY <1>1 DEF vars, page, pressed, stepping, files, SinglyInv, Apart, AtMostOnce
  <1>2. CASE Asks
    BY <1>2, SinglyAsked
  <1>3. CASE Open
    BY <1>3 DEF Open, Thread, pressed, SinglyInv, Apart, AtMostOnce
  <1>4. CASE Start
    BY <1>4 DEF Start, Thread, pressed, SinglyInv, Apart, AtMostOnce
  <1>5. CASE FailsToBuild
    BY <1>5 DEF FailsToBuild, Thread, pressed, files, SinglyInv, Apart, AtMostOnce
  <1>6. CASE Stops
    BY <1>6 DEF Stops, Thread, pressed, files, SinglyInv, Apart, AtMostOnce
  <1>7. CASE TakeRestart
    BY <1>7, RangeOfEmpty DEF TakeRestart, Thread, pressed, files, SinglyInv, Apart, AtMostOnce
  <1>8. CASE TakeClicks
    BY <1>8, RangeOfEmpty DEF TakeClicks, Thread, pressed, files, SinglyInv, Apart, AtMostOnce
  <1>9. CASE Act
    <2>1. UNCHANGED <<app, inbox, asked, judged, misjudged>> /\ pc' # "act"
      BY <1>9 DEF Act, Thread, pressed, Raise
    <2>2. CASE "restart" \in Range(asked)
      BY <1>9, <2>1, <2>2 DEF Act, SinglyInv, Apart, AtMostOnce
    <2>3. CASE "restart" \notin Range(asked)
      <3>1. /\ on' \subseteq on \cup Range(asked)
            /\ doubled' = doubled \cup {w \in Single : Begun(w) > 1}
        BY <1>9, <2>3 DEF Act
      <3>2. ASSUME app = "farm", NEW w \in Single \ misjudged PROVE ~(Begun(w) > 1)
        <4>1. AtMostOnce(w, asked) /\ (w \in on => w \notin Range(asked))
          BY <1>9, <3>2 DEF Act, SinglyInv, Apart
        <4>2. QED BY <4>1, BegunOnce DEF TypeOK
      <3>3. app = "farm" => doubled' \subseteq misjudged
        BY <3>1, <3>2 DEF SinglyInv
      <3>4. QED BY <2>1, <3>1, <3>3 DEF SinglyInv, Apart, AtMostOnce
    <2>4. QED BY <2>2, <2>3
  <1>10. CASE Step
    <2>1. UNCHANGED <<app, inbox, judged, misjudged, doubled>> /\ asked' = <<>> /\ pc' # "act"
      BY <1>10 DEF Step, Thread, pressed
    <2>2. on' \subseteq on \cup Range(asked)
      BY <1>10 DEF Step
    <2>3. QED BY <2>1, <2>2, RangeOfEmpty DEF SinglyInv, Apart, AtMostOnce
  <1>11. CASE Answered
    BY <1>11 DEF Answered, Thread, pressed, SinglyInv, Apart, AtMostOnce
  <1>12. CASE WritesToClosed
    BY <1>12 DEF WritesToClosed, Thread, pressed, files, Raise, SinglyInv, Apart, AtMostOnce
  <1>13. CASE FlushSteps
    BY <1>13 DEF FlushSteps, Thread, pressed, SinglyInv, Apart, AtMostOnce
  <1>14. CASE FlushJournal
    BY <1>14 DEF FlushJournal, Thread, pressed, SinglyInv, Apart, AtMostOnce
  <1>15. CASE SourceFails
    BY <1>15 DEF SourceFails, Thread, pressed, files, Raise, SinglyInv, Apart, AtMostOnce
  <1>16. CASE Close
    BY <1>16 DEF Close, page, pressed, stepping, files, SinglyInv, Apart, AtMostOnce
  <1>17. CASE CloseRecorder
    BY <1>17 DEF CloseRecorder, page, pressed, stepping, files, SinglyInv, Apart, AtMostOnce
  <1>18. CASE Kill
    BY <1>18 DEF Kill, page, pressed, stepping, files, SinglyInv, Apart, AtMostOnce
  <1>19. CASE ReplayStep
    BY <1>19 DEF ReplayStep, page, pressed, stepping, files, SinglyInv, Apart, AtMostOnce
  <1>20. CASE ReplayEnds
    BY <1>20 DEF ReplayEnds, page, pressed, stepping, files, SinglyInv, Apart, AtMostOnce
  <1>21. ASSUME NEW m \in DOMAIN disk, Replay(m) PROVE SinglyInv'
    BY <1>21 DEF Replay, page, pressed, stepping, files, SinglyInv, Apart, AtMostOnce
  <1>22. QED
    BY <1>1, <1>2, <1>3, <1>4, <1>5, <1>6, <1>7, <1>8, <1>9, <1>10, <1>11, <1>12, <1>13, <1>14,
       <1>15, <1>16, <1>17, <1>18, <1>19, <1>20, <1>21 DEF Next, Farm, Wishes

\* No click stops the farm, and none the atrium but a restart that fell between the two looks of
\* a step, which takes it for an act (live.py:552, stretch live.py:213).
THEOREM ClicksAreHarmless == Spec => []ClicksNeverStopIt
  <1>1. Init => TurnInv
    BY RangeOfEmpty DEF Init, TurnInv, ClicksNeverStopIt
  <1>2. FilesInv /\ TurnInv /\ [Next]_vars => TurnInv'
    BY TurnKept DEF FilesInv
  <1>3. TurnInv => ClicksNeverStopIt
    BY DEF TurnInv
  <1>4. QED BY <1>1, <1>2, <1>3, FilesAlways, PTL DEF Spec

\* The patrol and the like are one at a time, however the clicks and the steps interleave, but
\* for those judged while one like it was in another thread's hands (live.py:521).
THEOREM OneAtATime == Spec => []OneOfEach
  <1>1. Init => SinglyInv
    BY RangeOfEmpty DEF Init, SinglyInv, Apart, AtMostOnce
  <1>2. FilesInv /\ SinglyInv /\ [Next]_vars => SinglyInv'
    BY SinglyKept DEF FilesInv
  <1>3. FilesInv /\ SinglyInv => OneOfEach
    <2>1. TypeOK => app \in {"farm", "stretch"}
      BY LiveAssumption DEF TypeOK
    <2>2. QED BY <2>1 DEF FilesInv, SinglyInv, OneOfEach
  <1>4. QED BY <1>1, <1>2, <1>3, FilesAlways, PTL DEF Spec

-----------------------------------------------------------------------------
(***************************************************************************)
(* The source a step asks: Claude, for any number of jobs and of acts.     *)
(* The inductive invariant.                                                *)
(***************************************************************************)
Verbs == {"write", "read", "exit", "say", "spoken", "none"}

TypeInv ==
  /\ source \in Sources
  /\ state \in [Jobs -> {"ready", "parked", "exited"}]
  /\ last \in [Jobs -> Verbs \X Nat]
  /\ seen \in [Jobs -> 0 .. Acts] /\ owed \in [Jobs -> BOOLEAN]
  /\ doing \in [Jobs -> Nat] /\ answer \in [Jobs -> {"none", "done", "interrupted"}]
  /\ misread \in [Jobs -> BOOLEAN]
  /\ log \in [Jobs -> Seq(Nat)] /\ again \in [Jobs -> SUBSET Nat]

\* The first n acts were done, in their order, and no other.
Done(s, n) == Len(s) = n /\ \A i \in 1 .. n : s[i] = i

\* What the transcript shows done is what was done, but for the act whose answer is owed: one
\* that was misread is an old one, any other is the next.
Square(n, waits, act, heard, wrong, s) ==
  IF waits = TRUE
    THEN IF wrong = TRUE
           THEN act \in 1 .. n /\ Done(s, n)
           ELSE n < Acts /\ act = n + 1 /\ Done(s, IF heard = "done" THEN n + 1 ELSE n)
    ELSE act = 0 /\ heard = "none" /\ Done(s, n)

ActsInv == \A j \in Jobs : Square(seen[j], owed[j], doing[j], answer[j], misread[j], log[j])

\* What was done again was shown done before; in the atrium nothing was.
AgainInv ==
  \A j \in Jobs :
    /\ again[j] \subseteq 1 .. seen[j]
    /\ source = "stretch" => again[j] = {} /\ misread[j] = FALSE

\* The arm moves at once: no answer is ever owed, and what was asked last was shown done.
ArmInv ==
  source = "blocks" =>
    \A j \in Jobs : owed[j] = FALSE /\ (last[j][1] = "write" => last[j][2] \in 1 .. seen[j])

SeatInv == TypeInv /\ ActsInv /\ AgainInv /\ ArmInv

-----------------------------------------------------------------------------
(***************************************************************************)
(* one_command.                                                            *)
(***************************************************************************)
\* The commands are told from one another by their verbs.
LEMMA Commands ==
  ASSUME NEW k \in Nat
  PROVE  /\ Write(k) \in Verbs \X Nat /\ Write(k)[1] = "write" /\ Write(k)[2] = k
         /\ \A c \in {Read, Exit, Say, Spoken, Nothing} : c \in Verbs \X Nat /\ c[1] # "write"
         /\ Spoken # Read /\ Spoken # Exit /\ Say # Read /\ Say # Exit /\ Read # Exit
         /\ Write(k) \notin {Read, Exit, Say, Spoken, Nothing}
  BY DEF Write, Read, Exit, Say, Spoken, Nothing, Verbs

\* What the model means is the next act, unless an answer is owed or all is done.
LEMMA Meant ==
  ASSUME TypeInv, NEW j \in Jobs, ClaudeAssumption
  PROVE  /\ owed[j] = FALSE \/ source = "blocks" =>
              \/ seen[j] < Acts /\ Means(j) = Write(seen[j] + 1)
              \/ seen[j] = Acts /\ Means(j) = Exit
         /\ owed[j] = TRUE /\ source # "blocks" => Means(j) = Read
  <1>1. seen[j] \in 0 .. Acts /\ owed[j] \in BOOLEAN /\ Acts \in Nat
    BY DEF TypeInv, ClaudeAssumption
  <1>2. \/ seen[j] < Acts /\ ToDo(j) = Write(seen[j] + 1)
        \/ seen[j] = Acts /\ ToDo(j) = Exit
    BY <1>1 DEF ToDo
  <1>3. owed[j] = TRUE /\ source # "blocks" => Means(j) = Read
    BY DEF Means, MeansToAnActor
  <1>4. owed[j] = FALSE \/ source = "blocks" => Means(j) = ToDo(j)
    BY <1>1 DEF Means, MeansToAnActor, MeansToTheArm
  <1>5. QED BY <1>2, <1>3, <1>4

\* The farm's picks the first of one or two that is not the last command over again.
LEMMA FreshOfOne ==
  ASSUME NEW c, NEW done
  PROVE  FirstFresh(<<c>>, done) = c
  <1> DEFINE fresh == {n \in DOMAIN <<c>> : <<c>>[n] # done}
  <1>1. fresh \subseteq {1} /\ <<c>>[1] = c /\ <<c>> # <<>> /\ Head(<<c>>) = c
    OBVIOUS
  <1>2. fresh # {} => Min(fresh) = 1
    <2>1. fresh # {} => fresh = {1}
      BY <1>1
    <2>2. Min({1}) = 1
      BY DEF Min
    <2>3. QED BY <2>1, <2>2
  <1>3. QED BY <1>1, <1>2 DEF FirstFresh

\* ... which of two is the second when the first is that one.
LEMMA FreshOfTwo ==
  ASSUME NEW c, NEW d, NEW done
  PROVE  FirstFresh(<<c, d>>, done) = IF c = done /\ d # done THEN d ELSE c
  <1> DEFINE q == <<c, d>>
  <1> DEFINE fresh == {n \in DOMAIN q : q[n] # done}
  <1>1. DOMAIN q = {1, 2} /\ q[1] = c /\ q[2] = d /\ q # <<>> /\ Head(q) = c
    OBVIOUS
  <1> HIDE DEF q
  <1>2. CASE c # done
    <2>1. 1 \in fresh /\ fresh \subseteq {1, 2}
      BY <1>1, <1>2
    <2>2. Min(fresh) = 1
      BY <2>1 DEF Min
    <2>3. QED BY <1>1, <1>2, <2>1, <2>2 DEF FirstFresh, q
  <1>3. CASE c = done /\ d # done
    <2>1. fresh = {2}
      BY <1>1, <1>3
    <2>2. Min({2}) = 2
      BY DEF Min
    <2>3. QED BY <1>1, <1>3, <2>1, <2>2 DEF FirstFresh, q
  <1>4. CASE c = done /\ d = done
    <2>1. fresh = {}
      BY <1>1, <1>4
    <2>2. QED BY <1>1, <1>4, <2>1 DEF FirstFresh, q
  <1>5. QED BY <1>2, <1>3, <1>4

\* Two commands, one after the other.
LEMMA Pair ==
  ASSUME NEW c, NEW d
  PROVE  <<c>> \o <<d>> = <<c, d>>
  <1> DEFINE S == {c, d}
  <1>1. <<c>> \in Seq(S) /\ <<d>> \in Seq(S) /\ <<c, d>> \in Seq(S)
    OBVIOUS
  <1>2. Len(<<c>>) = 1 /\ Len(<<d>>) = 1 /\ Len(<<c, d>>) = 2
    OBVIOUS
  <1>3. <<c>> \o <<d>> \in Seq(S) /\ Len(<<c>> \o <<d>>) = 2
    BY <1>1, <1>2
  <1>4. (<<c>> \o <<d>>)[1] = c /\ (<<c>> \o <<d>>)[2] = d
    BY <1>1, <1>2
  <1>5. \A i \in 1 .. Len(<<c, d>>) : (<<c>> \o <<d>>)[i] = <<c, d>>[i]
    BY <1>4
  <1>6. QED BY <1>1, <1>2, <1>3, <1>5, SeqEqual

\* A command joined to what is to follow it.
LEMMA JoinedTo ==
  ASSUME NEW c, NEW s, s = <<>> \/ \E d : s = <<d>>
  PROVE  <<c>> \o s # <<>> /\ Head(<<c>> \o s) = c
  <1>1. CASE s = <<>>
    BY <1>1
  <1>2. CASE \E d : s = <<d>>
    <2>1. PICK d : s = <<d>>
      BY <1>2
    <2>2. <<c>> \o s = <<c, d>>
      BY <2>1, Pair
    <2>3. QED BY <2>2
  <1>3. QED BY <1>1, <1>2

\* Two commands, in the atrium.
LEMMA TwoQuoted ==
  ASSUME NEW c, NEW d
  PROVE  EndsOn(<<c, d>>) = d
  BY DEF EndsOn, Last

\* One command is that command, in all three.
LEMMA OneQuoted ==
  ASSUME NEW j, NEW manner, NEW c, Quoted(j, manner) = <<c>>
  PROVE  OneCommand(j, manner) = c
  <1>1. EndsOn(<<c>>) = c /\ FirstOrBare(j, <<c>>, manner) = c
    BY DEF EndsOn, FirstOrBare, Last
  <1>2. QED BY <1>1, FreshOfOne DEF OneCommand

\* A write of an act that the transcript shows done, when no answer is owed.
Past(j, c) ==
  /\ c[1] = "write" => c[2] \in 1 .. seen[j] /\ (source = "blocks" \/ owed[j] = FALSE)
  /\ c \in Verbs \X Nat /\ source # "stretch"

\* However the reply is put, what is picked out of it is what was meant, or no command, or a
\* read nobody asked for; or, of a reply that misleads, an act that was done.
LEMMA Picked ==
  ASSUME ClaudeAssumption, TypeInv, ArmInv, NEW j \in Jobs, NEW manner \in Manner \ {"silent"}
  PROVE  \/ OneCommand(j, manner) \in {Means(j), Spoken, Read}
         \/ manner \in Misleading[source] /\ Past(j, OneCommand(j, manner))
  <1>1. source \in {"farm", "stretch", "blocks"} /\ source \in Sources
    BY DEF ClaudeAssumption, TypeInv
  <1>2. seen[j] \in 0 .. Acts /\ owed[j] \in BOOLEAN /\ Acts \in Nat /\ last[j] \in Verbs \X Nat
    BY DEF TypeInv, ClaudeAssumption
  <1>3. CASE manner \in {"unended", "prose"}
    <2>1. Quoted(j, manner) = <<>>
      BY <1>3 DEF Quoted
    <2>2. QED BY <1>1, <2>1 DEF OneCommand, FirstFresh, EndsOn, FirstOrBare
  <1>4. CASE manner = "bare"
    <2>1. Quoted(j, manner) = <<Means(j)>>
      BY <1>4 DEF Quoted
    <2>2. QED BY <1>1, <2>1, OneQuoted
  <1>5. CASE manner = "recap"
    <2>1. \/ Quoted(j, manner) = <<Means(j)>>
          \/ Quoted(j, manner) = <<last[j], Means(j)>>
      BY <1>5 DEF Quoted
    <2>2. CASE source = "farm"
      <3>1. FirstFresh(<<last[j], Means(j)>>, last[j]) = Means(j)
        BY FreshOfTwo
      <3>2. QED BY <2>1, <2>2, <3>1, OneQuoted DEF OneCommand
    <2>3. CASE source = "stretch"
      BY <2>1, <2>3, OneQuoted, TwoQuoted DEF OneCommand
    <2>4. CASE source = "blocks"
      <3>1. Past(j, last[j])
        BY <1>2, <2>4 DEF ArmInv, Past
      <3>2. OneCommand(j, manner) \in {Means(j), last[j]}
        <4>1. CASE Quoted(j, manner) = <<Means(j)>>
          BY <4>1, OneQuoted
        <4>2. CASE Quoted(j, manner) = <<last[j], Means(j)>>
          BY <2>4, <4>2 DEF OneCommand, FirstOrBare
        <4>3. QED BY <2>1, <4>1, <4>2
      <3>3. manner \in Misleading[source]
        BY <1>5, <2>4 DEF Misleading
      <3>4. QED BY <3>1, <3>2, <3>3
    <2>5. QED BY <1>1, <2>2, <2>3, <2>4
  <1>6. CASE manner = "report"
    <2>1. CASE source = "stretch"
      <3>1. \/ Quoted(j, manner) = <<Means(j)>>
            \/ Quoted(j, manner) = <<Write(seen[j]), Means(j)>>
        BY <1>6 DEF Quoted
      <3>2. QED BY <2>1, <3>1, OneQuoted, TwoQuoted DEF OneCommand
    <2>2. CASE source # "stretch"
      <3>1. CASE Quoted(j, manner) = <<Means(j)>>
        BY <3>1, OneQuoted
      <3>2. CASE Quoted(j, manner) = <<Write(seen[j]), Means(j)>> /\ owed[j] = FALSE /\ seen[j] # 0
        <4>1. Past(j, Write(seen[j]))
          BY <1>2, <2>2, <3>2, Commands DEF Past
        <4>2. OneCommand(j, manner) \in {Means(j), Write(seen[j])}
          <5>1. CASE source = "farm"
            BY <3>2, <5>1, FreshOfTwo DEF OneCommand
          <5>2. CASE source = "blocks"
            BY <3>2, <5>2 DEF OneCommand, FirstOrBare
          <5>3. QED BY <1>1, <2>2, <5>1, <5>2
        <4>3. manner \in Misleading[source]
          BY <1>1, <1>6, <2>2 DEF Misleading
        <4>4. QED BY <4>1, <4>2, <4>3
      <3>3. QED BY <1>2, <1>6, <3>1, <3>2 DEF Quoted
    <2>3. QED BY <2>1, <2>2
  <1>7. CASE manner = "ahead"
    <2>1. Quoted(j, manner) = <<Means(j)>> \o Follows(j)
      BY <1>7 DEF Quoted
    <2>2. CASE source = "blocks"
      <3>1. \E c : Follows(j) = <<c>>  \/ Follows(j) = <<>>
        BY DEF Follows
      <3>2. Quoted(j, manner) # <<>> /\ Head(Quoted(j, manner)) = Means(j)
        BY <2>1, <3>1, JoinedTo
      <3>3. QED BY <2>2, <3>2 DEF OneCommand, FirstOrBare
    <2>3. CASE source # "blocks" /\ Means(j)[1] = "write"
      <3>1. Follows(j) = <<Read>>
        BY <2>3 DEF Follows
      <3>2. Quoted(j, manner) = <<Means(j), Read>>
        BY <2>1, <3>1, Pair
      <3>3. CASE source = "farm"
        BY <3>2, <3>3, FreshOfTwo DEF OneCommand
      <3>4. CASE source = "stretch"
        BY <3>2, <3>4, TwoQuoted DEF OneCommand
      <3>5. QED BY <1>1, <2>3, <3>3, <3>4
    <2>4. CASE source # "blocks" /\ Means(j)[1] # "write"
      <3>1. Follows(j) = <<>>
        BY <2>4 DEF Follows
      <3>2. Quoted(j, manner) = <<Means(j)>>
        BY <2>1, <3>1
      <3>3. QED BY <1>1, <3>2, OneQuoted
    <2>5. QED BY <2>2, <2>3, <2>4
  <1>8. QED BY <1>1, <1>3, <1>4, <1>5, <1>6, <1>7 DEF Manner

-----------------------------------------------------------------------------
(***************************************************************************)
(* What becomes of a command.                                              *)
(***************************************************************************)
\* One more act done, the next one.
LEMMA OneMoreAct ==
  ASSUME NEW s \in Seq(Nat), NEW n \in Nat, Done(s, n)
  PROVE  Append(s, n + 1) \in Seq(Nat) /\ Done(Append(s, n + 1), n + 1)
  BY DEF Done

\* What is done for one job is nothing to the others.
LEMMA OfOneJob ==
  ASSUME ActsInv, NEW j \in Jobs,
         \A i \in Jobs \ {j} : /\ seen'[i] = seen[i] /\ owed'[i] = owed[i] /\ doing'[i] = doing[i]
                               /\ answer'[i] = answer[i] /\ misread'[i] = misread[i]
                               /\ log'[i] = log[i],
         Square(seen'[j], owed'[j], doing'[j], answer'[j], misread'[j], log'[j])
  PROVE  ActsInv'
  BY DEF ActsInv

\* The types of one job's state.
LEMMA Parts ==
  ASSUME TypeInv, ClaudeAssumption, NEW j \in Jobs
  PROVE  /\ Acts \in Nat /\ seen[j] \in 0 .. Acts /\ owed[j] \in BOOLEAN /\ doing[j] \in Nat
         /\ answer[j] \in {"none", "done", "interrupted"} /\ misread[j] \in BOOLEAN
         /\ log[j] \in Seq(Nat) /\ again[j] \in SUBSET Nat
  BY DEF TypeInv, ClaudeAssumption

\* What an act in hand that is answered for was, and what the transcript is to show.
LEMMA Shown ==
  ASSUME SeatInv, ClaudeAssumption, NEW j \in Jobs, answer[j] # "none", Hear(j)
  PROVE  /\ seen' \in [Jobs -> 0 .. Acts] /\ seen[j] <= seen'[j] /\ Done(log[j], seen'[j])
         /\ \A i \in Jobs \ {j} : seen'[i] = seen[i]
  <1>1. /\ Acts \in Nat /\ seen[j] \in 0 .. Acts /\ owed[j] \in BOOLEAN /\ misread[j] \in BOOLEAN
        /\ Square(seen[j], owed[j], doing[j], answer[j], misread[j], log[j])
        /\ seen \in [Jobs -> 0 .. Acts]
    BY Parts DEF SeatInv, ActsInv, TypeInv
  <1>2. owed[j] = TRUE
    BY <1>1 DEF Square
  <1>3. CASE answer[j] # "done"
    <2>1. seen' = seen
      BY <1>3 DEF Hear
    <2>2. Done(log[j], seen[j])
      BY <1>1, <1>2, <1>3 DEF Square
    <2>3. QED BY <1>1, <2>1, <2>2
  <1>4. CASE answer[j] = "done" /\ misread[j] = TRUE
    <2>1. doing[j] \in 1 .. seen[j] /\ Done(log[j], seen[j])
      BY <1>1, <1>2, <1>4 DEF Square
    <2>2. seen' = [seen EXCEPT ![j] = seen[j]]
      BY <1>1, <1>4, <2>1 DEF Hear, Shows
    <2>3. QED BY <1>1, <2>1, <2>2
  <1>5. CASE answer[j] = "done" /\ misread[j] = FALSE
    <2>1. seen[j] < Acts /\ doing[j] = seen[j] + 1 /\ Done(log[j], seen[j] + 1)
      BY <1>1, <1>2, <1>5 DEF Square
    <2>2. seen' = [seen EXCEPT ![j] = seen[j] + 1]
      BY <1>1, <1>5, <2>1 DEF Hear, Shows
    <2>3. QED BY <1>1, <2>1, <2>2
  <1>6. QED BY <1>1, <1>3, <1>4, <1>5

\* The transcript shows what stdin held.
LEMMA Heard ==
  ASSUME SeatInv, ClaudeAssumption, NEW j \in Jobs, answer[j] # "none", Hear(j),
         source' = source, last' \in [Jobs -> Verbs \X Nat]
  PROVE  SeatInv'
  <1>1. /\ seen' \in [Jobs -> 0 .. Acts] /\ seen[j] <= seen'[j] /\ Done(log[j], seen'[j])
        /\ \A i \in Jobs \ {j} : seen'[i] = seen[i]
    BY Shown
  <1>2. /\ owed'[j] = FALSE /\ answer'[j] = "none" /\ doing'[j] = 0
        /\ \A i \in Jobs \ {j} : owed'[i] = owed[i] /\ answer'[i] = answer[i] /\ doing'[i] = doing[i]
        /\ misread' = misread /\ log' = log /\ again' = again
    BY DEF Hear, SeatInv, TypeInv
  <1>3. TypeInv'
    BY <1>1 DEF Hear, SeatInv, TypeInv
  <1>4. ActsInv'
    <2>1. Square(seen'[j], owed'[j], doing'[j], answer'[j], misread'[j], log'[j])
      BY <1>1, <1>2 DEF Square
    <2>2. QED BY <1>1, <1>2, <2>1, OfOneJob DEF SeatInv
  <1>5. \A i \in Jobs : seen[i] \in Nat /\ seen'[i] \in Nat /\ seen[i] <= seen'[i]
    <2>1. Acts \in Nat /\ \A i \in Jobs : seen[i] \in 0 .. Acts /\ seen'[i] \in 0 .. Acts
      BY <1>1, Parts DEF SeatInv
    <2>2. QED BY <1>1, <2>1
  <1>6. AgainInv'
    BY <1>2, <1>5 DEF SeatInv, AgainInv
  <1>7. source # "blocks"
    <2>1. Square(seen[j], owed[j], doing[j], answer[j], misread[j], log[j])
      BY DEF SeatInv, ActsInv
    <2>2. owed[j] = TRUE
      BY <2>1 DEF Square
    <2>3. QED BY <2>2 DEF SeatInv, ArmInv
  <1>8. QED BY <1>3, <1>4, <1>6, <1>7 DEF SeatInv, ArmInv

\* Only the state of a job, or what it said last, is another.
LEMMA OnlySaid ==
  ASSUME SeatInv, UNCHANGED <<source, seen, owed, world>>, last' \in [Jobs -> Verbs \X Nat],
         \A j \in Jobs : last'[j] = last[j] \/ last'[j][1] # "write",
         state' \in [Jobs -> {"ready", "parked", "exited"}]
  PROVE  SeatInv'
  BY DEF SeatInv, TypeInv, ActsInv, AgainInv, ArmInv, world

\* What may be written: the next act, or by a reply misread one that was done.
Writable(j, k, wrong) ==
  /\ source = "blocks" \/ owed[j] = FALSE
  /\ \/ wrong = FALSE /\ seen[j] < Acts /\ k = seen[j] + 1
     \/ wrong = TRUE /\ source # "stretch" /\ k \in 1 .. seen[j]

\* The arm makes it.
LEMMA ArmMoved ==
  ASSUME SeatInv, ClaudeAssumption, NEW j \in Jobs, NEW k \in Nat, NEW wrong \in BOOLEAN,
         Writable(j, k, wrong), source = "blocks", source' = source, ArmMoves(j, k, wrong),
         last' = [last EXCEPT ![j] = <<"write", k>>]
  PROVE  SeatInv'
  <1>1. /\ Acts \in Nat /\ seen[j] \in 0 .. Acts /\ log[j] \in Seq(Nat) /\ owed[j] = FALSE
        /\ again[j] \in SUBSET Nat /\ again[j] \subseteq 1 .. seen[j]
        /\ Square(seen[j], owed[j], doing[j], answer[j], misread[j], log[j])
    BY Parts DEF SeatInv, ArmInv, ActsInv, AgainInv
  <1>2. doing[j] = 0 /\ answer[j] = "none" /\ Done(log[j], seen[j])
    BY <1>1 DEF Square
  <1>3. UNCHANGED <<source, state, owed, doing, answer, misread>>
    BY DEF ArmMoves
  <1>4. last' \in [Jobs -> Verbs \X Nat] /\ last'[j] = <<"write", k>> /\ \A i \in Jobs \ {j} : last'[i] = last[i]
    BY DEF SeatInv, TypeInv, Verbs
  <1>5. CASE wrong = FALSE
    <2>1. seen[j] < Acts /\ k = seen[j] + 1
      BY <1>5 DEF Writable
    <2>2. Append(log[j], k) \in Seq(Nat) /\ Done(Append(log[j], k), k)
      BY <1>1, <1>2, <2>1, OneMoreAct
    <2>3. seen' = [seen EXCEPT ![j] = k] /\ log' = [log EXCEPT ![j] = Append(log[j], k)] /\ again' = again
      <3>1. seen' = [seen EXCEPT ![j] = IF k > seen[j] THEN k ELSE seen[j]]
        BY DEF ArmMoves, Shows
      <3>2. k > seen[j]
        BY <1>1, <2>1
      <3>3. log' = [log EXCEPT ![j] = Append(log[j], k)] /\ again' = again
        BY <1>5 DEF ArmMoves, Did
      <3>4. QED BY <3>1, <3>2, <3>3
    <2>4. TypeInv'
      BY <1>1, <1>3, <1>4, <2>1, <2>2, <2>3 DEF SeatInv, TypeInv
    <2>5. /\ seen'[j] = k /\ log'[j] = Append(log[j], k)
          /\ \A i \in Jobs \ {j} : seen'[i] = seen[i] /\ log'[i] = log[i]
      BY <2>3 DEF SeatInv, TypeInv
    <2>6. Square(seen'[j], owed'[j], doing'[j], answer'[j], misread'[j], log'[j])
      BY <1>1, <1>2, <1>3, <2>2, <2>5 DEF Square
    <2>7. ActsInv'
      BY <1>3, <2>5, <2>6, OfOneJob DEF SeatInv
    <2>8. again'[j] \subseteq 1 .. seen'[j]
      BY <1>1, <2>1, <2>3, <2>5
    <2>9. AgainInv'
      BY <1>3, <2>3, <2>5, <2>8 DEF SeatInv, AgainInv
    <2>10. ArmInv'
      BY <1>1, <1>3, <1>4, <2>1, <2>5 DEF SeatInv, ArmInv
    <2>11. QED BY <2>4, <2>7, <2>9, <2>10 DEF SeatInv
  <1>6. CASE wrong = TRUE
    <2>1. k \in 1 .. seen[j]
      BY <1>6 DEF Writable
    <2>2. /\ seen' = [seen EXCEPT ![j] = seen[j]]
          /\ again' = [again EXCEPT ![j] = again[j] \cup {k}] /\ log' = log
      <3>1. seen' = [seen EXCEPT ![j] = IF k > seen[j] THEN k ELSE seen[j]]
        BY DEF ArmMoves, Shows
      <3>2. ~(k > seen[j])
        BY <1>1, <2>1
      <3>3. again' = [again EXCEPT ![j] = again[j] \cup {k}] /\ log' = log
        BY <1>6 DEF ArmMoves, Did
      <3>4. QED BY <3>1, <3>2, <3>3
    <2>3. seen' = seen
      BY <2>2 DEF SeatInv, TypeInv
    <2>4. TypeInv'
      BY <1>1, <1>3, <1>4, <2>2, <2>3 DEF SeatInv, TypeInv
    <2>5. ActsInv'
      BY <1>3, <2>2, <2>3 DEF SeatInv, ActsInv
    <2>6. /\ again'[j] \subseteq 1 .. seen[j] /\ \A i \in Jobs \ {j} : again'[i] = again[i]
      BY <1>1, <2>1, <2>2 DEF SeatInv, TypeInv
    <2>7. AgainInv'
      BY <1>3, <2>3, <2>6 DEF SeatInv, AgainInv
    <2>8. ArmInv'
      BY <1>3, <1>4, <2>1, <2>3 DEF SeatInv, ArmInv
    <2>9. QED BY <2>4, <2>5, <2>7, <2>8 DEF SeatInv
  <1>7. QED BY <1>5, <1>6

\* A drone or a body takes it in hand.
LEMMA ActTaken ==
  ASSUME SeatInv, ClaudeAssumption, NEW j \in Jobs, NEW k \in Nat, NEW wrong \in BOOLEAN,
         Writable(j, k, wrong), source # "blocks", source' = source, TakesTheAct(j, k, wrong),
         last' \in [Jobs -> Verbs \X Nat]
  PROVE  SeatInv'
  <1>1. /\ Acts \in Nat /\ seen[j] \in 0 .. Acts /\ owed[j] = FALSE
        /\ Square(seen[j], owed[j], doing[j], answer[j], misread[j], log[j])
    BY Parts DEF SeatInv, ActsInv, Writable
  <1>2. doing[j] = 0 /\ answer[j] = "none" /\ Done(log[j], seen[j])
    BY <1>1 DEF Square
  <1>3. /\ doing' = [doing EXCEPT ![j] = k] /\ owed' = [owed EXCEPT ![j] = TRUE]
        /\ misread' = [misread EXCEPT ![j] = wrong]
        /\ UNCHANGED <<state, seen, answer, log, again>>
    BY <1>1 DEF TakesTheAct
  <1>4. TypeInv'
    BY <1>3 DEF SeatInv, TypeInv
  <1>5. /\ doing'[j] = k /\ owed'[j] = TRUE /\ misread'[j] = wrong
        /\ \A i \in Jobs \ {j} : doing'[i] = doing[i] /\ owed'[i] = owed[i] /\ misread'[i] = misread[i]
    BY <1>3 DEF SeatInv, TypeInv
  <1>6. Square(seen'[j], owed'[j], doing'[j], answer'[j], misread'[j], log'[j])
    <2>1. CASE wrong = FALSE
      BY <1>1, <1>2, <1>3, <1>5, <2>1 DEF Square, Writable
    <2>2. CASE wrong = TRUE
      BY <1>1, <1>2, <1>3, <1>5, <2>2 DEF Square, Writable
    <2>3. QED BY <2>1, <2>2
  <1>7. ActsInv'
    BY <1>3, <1>5, <1>6, OfOneJob DEF SeatInv
  <1>8. source = "stretch" => wrong = FALSE
    BY DEF Writable
  <1>9. AgainInv'
    BY <1>3, <1>5, <1>8 DEF SeatInv, AgainInv
  <1>10. QED BY <1>4, <1>7, <1>9 DEF SeatInv, ArmInv

\* What is issued is an act that may be written, or no act.
LEMMA Issued ==
  ASSUME SeatInv, ClaudeAssumption, NEW j \in Jobs, NEW c \in Verbs \X Nat, NEW wrong \in BOOLEAN,
         c[1] = "write" => Writable(j, c[2], wrong),
         Issue(j, c, wrong), source' = source
  PROVE  SeatInv'
  <1>1. TypeInv
    BY DEF SeatInv
  <1>2. last' = [last EXCEPT ![j] = c] /\ last' \in [Jobs -> Verbs \X Nat]
    BY <1>1 DEF Issue, TypeInv
  <1>3. \A i \in Jobs : last'[i] = IF i = j THEN c ELSE last[i]
    BY <1>1, <1>2 DEF TypeInv
  <1>4. CASE c[1] = "write"
    <2>1. c = <<"write", c[2]>> /\ c[2] \in Nat
      BY <1>4
    <2>2. c \notin {Read, Exit, Say, Spoken}
      BY <1>4 DEF Read, Exit, Say, Spoken
    <2>3. IF source = "blocks" THEN ArmMoves(j, c[2], wrong) ELSE TakesTheAct(j, c[2], wrong)
      BY <2>2 DEF Issue
    <2>4. CASE source = "blocks"
      <3>1. last' = [last EXCEPT ![j] = <<"write", c[2]>>]
        BY <1>2, <2>1
      <3>2. QED BY <1>4, <2>1, <2>3, <2>4, <3>1, ArmMoved
    <2>5. CASE source # "blocks"
      BY <1>2, <1>4, <2>1, <2>3, <2>5, ActTaken
    <2>6. QED BY <2>4, <2>5
  <1>5. CASE c[1] # "write" /\ answer[j] # "none" /\ Hear(j)
    BY <1>2, <1>5, Heard
  <1>6. CASE /\ c[1] # "write" /\ UNCHANGED <<seen, owed, world>>
             /\ \E p \in {"parked", "exited", "ready"} : state' \in {state, [state EXCEPT ![j] = p]}
    <2>1. state' \in [Jobs -> {"ready", "parked", "exited"}]
      BY <1>1, <1>6 DEF TypeInv
    <2>2. QED BY <1>2, <1>3, <1>6, <2>1, OnlySaid
  <1>7. QED BY <1>4, <1>5, <1>6 DEF Issue

\* A reply is read for what it means, or misread.
LEMMA Replied ==
  ASSUME SeatInv, ClaudeAssumption, NEW j \in Jobs, NEW manner \in Manner \ {"silent"},
         Reply(j, manner), source' = source
  PROVE  SeatInv'
  <1> DEFINE c == OneCommand(j, manner)
             wrong == manner \in Misleading[source] /\ c # Means(j)
  <1>1. Issue(j, c, wrong)
    BY DEF Reply
  <1>2. /\ TypeInv /\ ArmInv /\ owed[j] \in BOOLEAN /\ seen[j] \in 0 .. Acts /\ Acts \in Nat
        /\ seen[j] \in Nat /\ seen[j] + 1 \in Nat
    BY Parts DEF SeatInv
  <1>3. \/ c \in {Means(j), Spoken, Read}
        \/ manner \in Misleading[source] /\ Past(j, c)
    BY <1>2, Picked
  <1> HIDE DEF c
  <1>4. \/ Means(j) \in {Read, Exit}
        \/ /\ seen[j] < Acts /\ Means(j) = Write(seen[j] + 1)
           /\ source = "blocks" \/ owed[j] = FALSE
    BY <1>2, Meant
  <1>5. CASE c = Means(j)
    <2>1. wrong = FALSE
      BY <1>5
    <2>2. c \in Verbs \X Nat /\ (c[1] = "write" => Writable(j, c[2], FALSE))
      BY <1>2, <1>4, <1>5, Commands DEF Writable
    <2> HIDE DEF wrong
    <2>3. QED BY <1>1, <2>1, <2>2, Issued
  <1>6. CASE c \in {Spoken, Read}
    <2>1. c \in Verbs \X Nat /\ c[1] # "write" /\ wrong \in BOOLEAN
      BY <1>2, <1>6, Commands
    <2> HIDE DEF wrong
    <2>2. QED BY <1>1, <2>1, Issued
  <1>7. CASE c # Means(j) /\ manner \in Misleading[source] /\ Past(j, c)
    <2>1. wrong = TRUE
      BY <1>7
    <2>2. c \in Verbs \X Nat /\ (c[1] = "write" => Writable(j, c[2], TRUE))
      BY <1>7 DEF Past, Writable
    <2> HIDE DEF wrong
    <2>3. QED BY <1>1, <2>1, <2>2, Issued
  <1>8. QED BY <1>3, <1>5, <1>6, <1>7

\* The act in hand is done, or cut short.
LEMMA Performed ==
  ASSUME SeatInv, ClaudeAssumption, NEW j \in Jobs, Perform(j)
  PROVE  SeatInv'
  <1>1. /\ Acts \in Nat /\ seen[j] \in 0 .. Acts /\ log[j] \in Seq(Nat) /\ owed[j] \in BOOLEAN
        /\ misread[j] \in BOOLEAN /\ again[j] \in SUBSET Nat
        /\ Square(seen[j], owed[j], doing[j], answer[j], misread[j], log[j])
    BY Parts DEF SeatInv, ActsInv
  <1>2. /\ UNCHANGED <<source, state, last, seen, owed, doing, misread>>
        /\ doing[j] # 0 /\ answer[j] = "none"
    BY DEF Perform
  <1>3. owed[j] = TRUE /\ Done(log[j], seen[j])
    BY <1>1, <1>2 DEF Square
  <1>4. CASE answer' = [answer EXCEPT ![j] = "interrupted"] /\ UNCHANGED <<log, again>>
    <2>1. answer' \in [Jobs -> {"none", "done", "interrupted"}]
      BY <1>4 DEF SeatInv, TypeInv
    <2>2. TypeInv'
      BY <1>2, <1>4, <2>1 DEF SeatInv, TypeInv
    <2>3. answer'[j] = "interrupted" /\ \A i \in Jobs \ {j} : answer'[i] = answer[i]
      BY <1>4 DEF SeatInv, TypeInv
    <2>4. Square(seen'[j], owed'[j], doing'[j], answer'[j], misread'[j], log'[j])
      BY <1>1, <1>2, <1>3, <1>4, <2>3 DEF Square
    <2>5. QED BY <1>2, <1>4, <2>2, <2>3, <2>4, OfOneJob DEF SeatInv, AgainInv, ArmInv
  <1>5. CASE answer' = [answer EXCEPT ![j] = "done"] /\ misread[j] = FALSE /\ Did(j, doing[j], misread[j])
    <2>1. seen[j] < Acts /\ doing[j] = seen[j] + 1
      BY <1>1, <1>3, <1>5 DEF Square
    <2>2. Append(log[j], seen[j] + 1) \in Seq(Nat) /\ Done(Append(log[j], seen[j] + 1), seen[j] + 1)
      BY <1>1, <1>3, OneMoreAct
    <2>3. log' = [log EXCEPT ![j] = Append(log[j], seen[j] + 1)] /\ again' = again
      BY <1>5, <2>1 DEF Did
    <2>4. TypeInv'
      <3>1. answer' \in [Jobs -> {"none", "done", "interrupted"}]
        BY <1>5 DEF SeatInv, TypeInv
      <3>2. log' \in [Jobs -> Seq(Nat)]
        BY <2>2, <2>3 DEF SeatInv, TypeInv
      <3>3. QED BY <1>2, <2>3, <3>1, <3>2 DEF SeatInv, TypeInv
    <2>5. /\ answer'[j] = "done" /\ log'[j] = Append(log[j], seen[j] + 1)
          /\ \A i \in Jobs \ {j} : answer'[i] = answer[i] /\ log'[i] = log[i]
      BY <1>5, <2>3 DEF SeatInv, TypeInv
    <2>6. Square(seen'[j], owed'[j], doing'[j], answer'[j], misread'[j], log'[j])
      BY <1>2, <1>3, <1>5, <2>1, <2>2, <2>5 DEF Square
    <2>7. QED BY <1>2, <2>3, <2>4, <2>5, <2>6, OfOneJob DEF SeatInv, AgainInv, ArmInv
  <1>6. CASE answer' = [answer EXCEPT ![j] = "done"] /\ misread[j] = TRUE /\ Did(j, doing[j], misread[j])
    <2>1. doing[j] \in 1 .. seen[j]
      BY <1>1, <1>3, <1>6 DEF Square
    <2>2. again' = [again EXCEPT ![j] = again[j] \cup {doing[j]}] /\ log' = log
      BY <1>6 DEF Did
    <2>3. TypeInv'
      <3>1. answer' \in [Jobs -> {"none", "done", "interrupted"}]
        BY <1>6 DEF SeatInv, TypeInv
      <3>2. again' \in [Jobs -> SUBSET Nat]
        BY <1>1, <2>1, <2>2 DEF SeatInv, TypeInv
      <3>3. QED BY <1>2, <2>2, <3>1, <3>2 DEF SeatInv, TypeInv
    <2>4. /\ answer'[j] = "done" /\ again'[j] = again[j] \cup {doing[j]}
          /\ \A i \in Jobs \ {j} : answer'[i] = answer[i] /\ again'[i] = again[i]
      BY <1>6, <2>2 DEF SeatInv, TypeInv
    <2>5. Square(seen'[j], owed'[j], doing'[j], answer'[j], misread'[j], log'[j])
      BY <1>2, <1>3, <1>6, <2>1, <2>2, <2>4 DEF Square
    <2>6. ActsInv'
      BY <1>2, <2>2, <2>4, <2>5, OfOneJob DEF SeatInv
    <2>7. source # "stretch"
      BY <1>6 DEF SeatInv, AgainInv
    <2>8. AgainInv'
      BY <1>2, <2>1, <2>4, <2>7 DEF SeatInv, AgainInv
    <2>9. QED BY <1>2, <2>3, <2>6, <2>8 DEF SeatInv, ArmInv
  <1>7. QED BY <1>1, <1>4, <1>5, <1>6 DEF Perform

-----------------------------------------------------------------------------
(***************************************************************************)
(* The invariant holds.                                                    *)
(***************************************************************************)
\* At first nothing was done.
LEMMA SeatInvInit == ASSUME ClaudeAssumption, SeatInit PROVE SeatInv
  <1>1. TypeInv
    BY Commands DEF SeatInit, TypeInv, ClaudeAssumption, Nothing, Verbs
  <1>2. \A j \in Jobs : Square(seen[j], owed[j], doing[j], answer[j], misread[j], log[j])
    BY DEF SeatInit, Square, Done
  <1>3. AgainInv /\ ArmInv
    BY DEF SeatInit, AgainInv, ArmInv, Nothing
  <1>4. QED BY <1>1, <1>2, <1>3 DEF SeatInv, ActsInv

\* Each action keeps it.
LEMMA SeatInvStep == ASSUME ClaudeAssumption, SeatInv, [SeatNext]_seat PROVE SeatInv'
  <1>1. TypeInv
    BY DEF SeatInv
  <1>2. CASE CheckCredentials
    BY <1>1, <1>2, OnlySaid DEF CheckCredentials, TypeInv
  <1>3. ASSUME NEW j \in Jobs, AskActorsModel(j)
        PROVE  SeatInv'
    <2>1. source' = source
      BY <1>3 DEF AskActorsModel, Asked
    <2>2. CASE Raises
      BY <1>1, <2>1, <2>2, OnlySaid DEF Raises, TypeInv
    <2>3. QED BY <1>3, <2>1, <2>2, Replied DEF AskActorsModel
  <1>4. ASSUME NEW j \in Jobs, AskPlanner(j)
        PROVE  SeatInv'
    <2>1. source' = source
      BY <1>4 DEF AskPlanner, Asked
    <2>2. CASE Raises
      BY <1>1, <2>1, <2>2, OnlySaid DEF Raises, TypeInv
    <2>3. CASE Issue(j, Say, FALSE)
      <3>1. Say \in Verbs \X Nat /\ Say[1] # "write"
        BY DEF Say, Verbs
      <3>2. QED BY <2>1, <2>3, <3>1, Issued
    <2>4. QED BY <1>4, <2>1, <2>2, <2>3, Replied DEF AskPlanner
  <1>5. ASSUME NEW j \in Jobs, Perform(j)
        PROVE  SeatInv'
    BY <1>5, Performed
  <1>6. ASSUME NEW j \in Jobs, Wake(j)
        PROVE  SeatInv'
    BY <1>1, <1>6, Heard DEF Wake, TypeInv
  <1>7. CASE UNCHANGED seat
    BY <1>1, <1>7, OnlySaid DEF seat, TypeInv
  <1>8. QED BY <1>2, <1>3, <1>4, <1>5, <1>6, <1>7 DEF SeatNext

\* Whatever a reply quotes besides the command it means, a job's acts are done in their order and
\* each once, whoever was interrupted; what a misread reply has done over was done before, and in
\* the atrium nothing is (one_command in the three claude.py).
THEOREM NoActTwice == SeatSpec => []EachActOnce
  <1>1. SeatInit => SeatInv
    BY ClaudeAssumption, SeatInvInit
  <1>2. SeatInv /\ [SeatNext]_seat => SeatInv'
    BY ClaudeAssumption, SeatInvStep
  <1>3. SeatInv => EachActOnce
    <2>1. SUFFICES ASSUME SeatInv, NEW j \in Jobs
                   PROVE  /\ \A n \in DOMAIN log[j] : log[j][n] = n
                          /\ \A k \in again[j] : k \in DOMAIN log[j] /\ source # "stretch"
      BY DEF EachActOnce
    <2>2. /\ log[j] \in Seq(Nat) /\ seen[j] \in Nat
          /\ Done(log[j], seen[j]) \/ Done(log[j], seen[j] + 1)
      <3>1. log[j] \in Seq(Nat) /\ seen[j] \in Nat
        BY <2>1, ClaudeAssumption, Parts DEF SeatInv
      <3>2. Square(seen[j], owed[j], doing[j], answer[j], misread[j], log[j])
        BY <2>1 DEF SeatInv, ActsInv
      <3>3. QED BY <3>1, <3>2 DEF Square
    <2>3. \A k \in again[j] : k \in 1 .. seen[j] /\ source # "stretch"
      BY <2>1 DEF SeatInv, AgainInv
    <2>4. QED BY <2>2, <2>3 DEF Done
  <1>4. QED BY <1>1, <1>2, <1>3, PTL DEF SeatSpec
=============================================================================
