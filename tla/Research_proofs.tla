---------------------------- MODULE Research_proofs ----------------------------
(***************************************************************************)
(* What is proved of Research, for any number of messages, presses and     *)
(* sessions.                                                               *)
(***************************************************************************)
EXTENDS Research, TLAPS

(***************************************************************************)
(* The inductive invariant.  StripIsTrue is not inductive by itself: a     *)
(* stop that retired a job which has not said yet what it is doing would   *)
(* have its line come back.  What rules it out is where the jobs are that  *)
(* a stop may hold in its hand, and that no job is spawned twice.          *)
(***************************************************************************)
Places  == {"unborn", "born", "named", "searching", "asking", "hearing", "heard", "written",
            "reporting", "clearing", "leaving", "gone"}
Stops   == [at : {"idle", "waking", "telling", "retiring"}, whom : SUBSET Jobs]

\* A document: how far it is, and some words.
IsReport(r) == r = [at |-> r.at, words |-> r.words] /\ r.at \in {"none", "open", "done"}

TypeOK ==
  /\ session \in Sessions /\ read \in Nat /\ spawning \in Nat
  /\ pc \in [Jobs -> Places]
  /\ DOMAIN report = Jobs /\ report = [j \in Jobs |-> report[j]]
  /\ \A j \in Jobs : IsReport(report[j])
  /\ tasks \subseteq Jobs /\ retired \subseteq Jobs /\ stop \in Stops

\* The messages are spawned for in their order, each once.
SpawnInv ==
  /\ read <= session.messages /\ spawning \in {0, read}
  /\ spawning # 0 => pc[spawning] = "unborn"
  /\ \A j \in Jobs : j > read => pc[j] = "unborn"

\* Whom a stop retires has said what it is doing.
StopInv == \A j \in retired \cup stop.whom : pc[j] \notin {"unborn", "born"}

\* A job that said what it is doing writes its document, until a stop closes that.
DocumentInv ==
  /\ \A j \in Jobs :
       IF pc[j] \in {"unborn", "born"} THEN report[j].at = "none"
       ELSE pc[j] # "gone" /\ j \notin retired => report[j].at = "open"
  /\ replies # <<>> => retired # {}

IInv == TypeOK /\ SpawnInv /\ StopInv /\ StripIsTrue /\ DocumentInv
-----------------------------------------------------------------------------
(***************************************************************************)
(* What each kind of step writes of what the invariant speaks of.          *)
(***************************************************************************)
record == <<session, read, spawning, pc, report, tasks, retired, stop, replies>>

\* Job j goes from one command to another, and the page's record is left alone.
Goes(j, to) ==
  /\ pc' = [pc EXCEPT ![j] = to]
  /\ UNCHANGED <<session, read, spawning, report, tasks, retired, stop, replies>>

\* A message spawned for is one of those there may be.
LEMMA SpawnsAJob ==
  ASSUME IInv
  PROVE  read \in Nat /\ read <= MaxMessages /\ (spawning # 0 => spawning \in Jobs)
  <1>1. session.messages \in 0 .. MaxMessages /\ MaxMessages \in Nat
    BY ResearchAssumption DEF IInv, TypeOK
  <1>2. QED BY <1>1 DEF IInv, TypeOK, SpawnInv, Jobs

\* Most commands only go on; the services, the letters and the device touch nothing of this.
LEMMA QuietSteps ==
  ASSUME IInv, UNCHANGED record
  PROVE  IInv'
  BY DEF IInv, TypeOK, SpawnInv, StopInv, StripIsTrue, Alive, DocumentInv, record, IsReport

\* A command that only goes on keeps everything.
LEMMA GoingOn ==
  ASSUME IInv, NEW j \in Jobs, pc[j] \in Places \ {"unborn", "born", "leaving", "gone"},
         NEW to \in Places \ {"unborn", "born", "leaving", "gone"}, Goes(j, to)
  PROVE  IInv'
  <1>1. /\ pc \in [Jobs -> Places] /\ pc' \in [Jobs -> Places]
        /\ \A i \in Jobs : pc'[i] = IF i = j THEN to ELSE pc[i]
    BY DEF IInv, TypeOK, Goes
  <1>2. TypeOK'
    BY <1>1 DEF IInv, TypeOK, Goes, IsReport
  <1>3. SpawnInv'
    BY <1>1 DEF IInv, SpawnInv, TypeOK, Goes, Jobs
  <1>4. StopInv'
    BY <1>1 DEF IInv, StopInv, TypeOK, Goes, Stops
  <1>5. StripIsTrue'
    BY <1>1 DEF IInv, StripIsTrue, Alive, Goes
  <1>6. DocumentInv'
    BY <1>1 DEF IInv, DocumentInv, Goes
  <1>7. QED BY <1>2, <1>3, <1>4, <1>5, <1>6 DEF IInv

-----------------------------------------------------------------------------
(***************************************************************************)
(* The commands that touch the page's record, and the stop.                *)
(***************************************************************************)
\* A document at another place.
LEMMA Reported ==
  ASSUME IInv, NEW j \in Jobs, NEW at
  PROVE  [report EXCEPT ![j].at = at] = [report EXCEPT ![j] = [at |-> at,
     words |-> report[j].words]]
  <1>1. [report[j] EXCEPT !.at = at] = [at |-> at, words |-> report[j].words]
    <2>1. IsReport(report[j])
      BY DEF IInv, TypeOK
    <2>2. QED BY <2>1 DEF IsReport
  <1>2. QED BY <1>1

\* The first command of a job: its line, and its document.
LEMMA NamesItself ==
  ASSUME IInv, NEW j \in Jobs, WriteTask(j)
  PROVE  IInv'
  <1>1. /\ pc[j] = "born" /\ UNCHANGED <<session, read, spawning, retired, stop, replies>>
        /\ \A i \in Jobs : pc'[i] = IF i = j THEN "named" ELSE pc[i]
        /\ pc' \in [Jobs -> Places] /\ tasks' = tasks \cup {j}
    BY DEF IInv, TypeOK, WriteTask, Command, NoteTask, converse, stopping, frame, Places
  <1>2. /\ \A i \in Jobs : report'[i].at = IF i = j THEN "open" ELSE report[i].at
        /\ DOMAIN report' = Jobs /\ report' = [i \in Jobs |-> report'[i]]
        /\ \A i \in Jobs : IsReport(report'[i])
    <2>1. report[j].at = "none"
      BY <1>1 DEF IInv, DocumentInv
    <2>2. report' = [report EXCEPT ![j] = [at |-> "open", words |-> report[j].words]]
      <3>1. report' = [report EXCEPT ![j].at = "open"]
        BY <2>1 DEF WriteTask, Opened
      <3>2. QED BY <3>1, Reported
    <2>3. QED BY <2>2 DEF IInv, TypeOK, IsReport
  <1>3. TypeOK'
    BY <1>1, <1>2 DEF IInv, TypeOK, Jobs, SpawnInv
  <1>4. SpawnInv'
    BY SpawnsAJob, <1>1, <1>2 DEF IInv, SpawnInv, Jobs
  <1>5. StopInv'
    BY <1>1, <1>2 DEF IInv, StopInv, Jobs, TypeOK, Stops
  <1>6. StripIsTrue'
    BY <1>1, <1>2 DEF IInv, StripIsTrue, Jobs, Alive, StopInv
  <1>7. DocumentInv'
    BY <1>1, <1>2 DEF IInv, DocumentInv, Jobs
  <1>8. QED BY <1>3, <1>4, <1>5, <1>6, <1>7 DEF IInv

\* What it wrote out is its document's, or the conversation's.
LEMMA WritesOut ==
  ASSUME IInv, NEW j \in Jobs, WriteStdout(j)
  PROVE  IInv'
  <1>1. /\ pc[j] = "heard" /\ UNCHANGED <<session, read, spawning, retired, stop, tasks>>
        /\ \A i \in Jobs : pc'[i] = IF i = j THEN "written" ELSE pc[i]
        /\ pc' \in [Jobs -> Places]
        /\ report[j].at = "open" => replies' = replies
    BY DEF IInv, TypeOK, WriteStdout, Command, OnReply, converse, stopping, frame, Places
  <1>2. /\ \A i \in Jobs : report'[i].at = report[i].at
        /\ DOMAIN report' = Jobs /\ report' = [i \in Jobs |-> report'[i]]
        /\ \A i \in Jobs : IsReport(report'[i])
    <2>1. CASE report[j].at # "open"
      BY <2>1 DEF WriteStdout, OnReply, IInv, TypeOK
    <2>2. CASE report[j].at = "open"
      <3>1. PICK w : report' = [report EXCEPT ![j] = [report[j] EXCEPT !.words = w]]
        BY <2>2 DEF WriteStdout, OnReply
      <3>2. [report[j] EXCEPT !.words = w] = [at |-> report[j].at, words |-> w]
        BY DEF IInv, TypeOK, IsReport
      <3>3. report' = [report EXCEPT ![j] = [at |-> report[j].at, words |-> w]]
        BY <3>1, <3>2
      <3>4. QED BY <3>3 DEF IInv, TypeOK, IsReport
    <2>3. QED BY <2>1, <2>2
  <1>3. TypeOK'
    BY <1>1, <1>2 DEF IInv, TypeOK, Jobs
  <1>4. SpawnInv'
    BY SpawnsAJob, <1>1, <1>2 DEF IInv, SpawnInv, Jobs
  <1>5. StopInv'
    BY <1>1, <1>2 DEF IInv, StopInv, Jobs, TypeOK, Stops
  <1>6. StripIsTrue'
    BY <1>1, <1>2 DEF IInv, StripIsTrue, Jobs, Alive
  <1>7. DocumentInv'
    BY <1>1, <1>2 DEF IInv, DocumentInv, Jobs
  <1>8. QED BY <1>3, <1>4, <1>5, <1>6, <1>7 DEF IInv

\* It clears its line.
LEMMA ClearsItsLine ==
  ASSUME IInv, NEW j \in Jobs, ClearTask(j)
  PROVE  IInv'
  <1>1. /\ pc[j] = "clearing" /\ UNCHANGED <<session, read, spawning, retired, stop, report,
                                             replies>>
        /\ \A i \in Jobs : pc'[i] = IF i = j THEN "leaving" ELSE pc[i]
        /\ pc' \in [Jobs -> Places] /\ tasks' = tasks \ {j}
    BY DEF IInv, TypeOK, ClearTask, Command, NoteTask, converse, stopping, frame, Places
  <1>2. TypeOK'
    BY <1>1 DEF IInv, TypeOK, Jobs
  <1>3. SpawnInv'
    BY SpawnsAJob, <1>1 DEF IInv, SpawnInv, Jobs
  <1>4. StopInv'
    BY <1>1 DEF IInv, StopInv, Jobs, TypeOK, Stops
  <1>5. StripIsTrue'
    BY <1>1 DEF IInv, StripIsTrue, Jobs, Alive
  <1>6. DocumentInv'
    BY <1>1 DEF IInv, DocumentInv, Jobs
  <1>7. QED BY <1>2, <1>3, <1>4, <1>5, <1>6 DEF IInv

\* A document closed: at most its own place is another.
LEMMA FinishedReport ==
  ASSUME IInv, NEW j \in Jobs
  PROVE  /\ \A i \in Jobs : i # j => Finished(j)[i] = report[i]
         /\ DOMAIN Finished(j) = Jobs /\ Finished(j) = [i \in Jobs |-> Finished(j)[i]]
         /\ \A i \in Jobs : IsReport(Finished(j)[i])
         /\ report[j].at = "none" => Finished(j)[j].at = "none"
  <1>1. CASE report[j].at # "open"
    BY <1>1 DEF Finished, IInv, TypeOK
  <1>2. CASE report[j].at = "open"
    <2>1. Finished(j) = [report EXCEPT ![j] = [at |-> "done", words |-> report[j].words]]
      <3>1. Finished(j) = [report EXCEPT ![j].at = "done"]
        BY <1>2 DEF Finished
      <3>2. QED BY <3>1, Reported
    <2>2. QED BY <1>2, <2>1 DEF IInv, TypeOK, IsReport
  <1>3. QED BY <1>1, <1>2

\* It ends.
LEMMA Ends ==
  ASSUME IInv, NEW j \in Jobs, Exit(j)
  PROVE  IInv'
  <1>1. /\ pc[j] = "leaving" /\ UNCHANGED <<session, read, spawning, retired, stop, replies>>
        /\ \A i \in Jobs : pc'[i] = IF i = j THEN "gone" ELSE pc[i]
        /\ pc' \in [Jobs -> Places] /\ tasks' = tasks \ {j}
    BY DEF IInv, TypeOK, Exit, Command, NoteTask, converse, stopping, frame, Places
  <1>2. report' = Finished(j)
    BY DEF Exit
  <1>3. TypeOK'
    BY <1>1, <1>2, FinishedReport DEF IInv, TypeOK, Jobs
  <1>4. SpawnInv'
    BY SpawnsAJob, <1>1, <1>2, FinishedReport DEF IInv, SpawnInv, Jobs
  <1>5. StopInv'
    BY <1>1, <1>2, FinishedReport DEF IInv, StopInv, Jobs, TypeOK, Stops
  <1>6. StripIsTrue'
    BY <1>1, <1>2, FinishedReport DEF IInv, StripIsTrue, Jobs, Alive
  <1>7. DocumentInv'
    BY <1>1, <1>2, FinishedReport DEF IInv, DocumentInv, Jobs
  <1>8. QED BY <1>3, <1>4, <1>5, <1>6, <1>7 DEF IInv

\* A message is read.
LEMMA ReadsAMessage ==
  ASSUME IInv, WriteTopic
  PROVE  IInv'
  <1>1. /\ UNCHANGED <<session, pc, report, tasks, retired, stop, replies>>
        /\ read < session.messages /\ read' = read + 1 /\ spawning' \in {0, read + 1}
    BY DEF WriteTopic, job, strip, stopping, frame
  <1>2. /\ read \in Nat /\ read + 1 \in Nat
        /\ session.messages \in 0 .. MaxMessages /\ MaxMessages \in Nat
    BY ResearchAssumption DEF IInv, TypeOK
  <1>3. TypeOK'
    BY <1>1, <1>2 DEF IInv, TypeOK, Jobs, IsReport
  <1>4. SpawnInv'
    <2>1. read' = read + 1 /\ read + 1 <= session'.messages
      BY <1>1, <1>2
    <2>2. \A i \in Jobs : i > read => pc'[i] = "unborn"
      BY <1>1 DEF IInv, SpawnInv
    <2>3. read + 1 \in Jobs /\ read + 1 > read
      BY <1>1, <1>2 DEF Jobs
    <2>4. \A i \in Jobs : i > read + 1 => i > read
      BY <1>2 DEF Jobs
    <2>5. QED BY <1>1, <2>1, <2>2, <2>3, <2>4 DEF SpawnInv
  <1>5. StopInv'
    BY <1>1, <1>2 DEF IInv, StopInv, Jobs
  <1>6. StripIsTrue'
    BY <1>1, <1>2 DEF IInv, StripIsTrue, Jobs, Alive
  <1>7. DocumentInv'
    BY <1>1, <1>2 DEF IInv, DocumentInv, Jobs
  <1>8. QED BY <1>3, <1>4, <1>5, <1>6, <1>7 DEF IInv

\* A job is spawned for it.
LEMMA Spawns ==
  ASSUME IInv, Spawn
  PROVE  IInv'
  <1>1. /\ UNCHANGED <<session, read, report, tasks, retired, stop, replies>>
        /\ spawning # 0 /\ spawning' = 0 /\ pc' = [pc EXCEPT ![spawning] = "born"]
    BY DEF Spawn, strip, stopping
  <1>2. session.messages \in 0 .. MaxMessages
    BY ResearchAssumption DEF IInv, TypeOK
  <1>3. spawning \in Jobs /\ pc[spawning] = "unborn" /\ spawning <= read
    BY SpawnsAJob, <1>1, <1>2 DEF IInv, TypeOK, SpawnInv, Jobs
  <1>4. /\ \A i \in Jobs : pc'[i] = IF i = spawning THEN "born" ELSE pc[i]
        /\ pc' \in [Jobs -> Places]
    BY <1>1, <1>3 DEF IInv, TypeOK, Places
  <1>5. TypeOK'
    BY <1>1, <1>2, <1>3, <1>4 DEF IInv, TypeOK, Jobs
  <1>6. SpawnInv'
    BY <1>1, <1>2, <1>3, <1>4 DEF IInv, SpawnInv, Jobs, TypeOK
  <1>7. StopInv'
    BY <1>1, <1>2, <1>3, <1>4 DEF IInv, StopInv, Jobs, TypeOK, Stops
  <1>8. StripIsTrue'
    BY <1>1, <1>2, <1>3, <1>4 DEF IInv, StripIsTrue, Jobs, Alive, StopInv
  <1>9. DocumentInv'
    BY <1>1, <1>2, <1>3, <1>4 DEF IInv, DocumentInv, Jobs
  <1>10. QED BY <1>5, <1>6, <1>7, <1>8, <1>9 DEF IInv

\* A stop goes on: it holds nobody, or who is on the strip.
LEMMA StopGoesOn ==
  ASSUME IInv, UNCHANGED <<session, read, spawning, pc, report, tasks, retired, replies>>,
         stop' \in Stops, stop'.whom \subseteq stop.whom \cup tasks
  PROVE  IInv'
  <1>1. TypeOK'
    BY DEF IInv, TypeOK, Jobs
  <1>2. SpawnInv'
    BY DEF IInv, SpawnInv, Jobs
  <1>3. StopInv'
    BY DEF IInv, StopInv, Jobs, StripIsTrue, Alive, TypeOK, Stops
  <1>4. StripIsTrue'
    BY DEF IInv, StripIsTrue, Jobs, Alive
  <1>5. DocumentInv'
    BY DEF IInv, DocumentInv, Jobs
  <1>6. QED BY <1>1, <1>2, <1>3, <1>4, <1>5 DEF IInv

\* One job is retired: its document is closed and its line cleared.
LEMMA RetiresOne ==
  ASSUME IInv, NEW j \in Jobs, RetireOne(j)
  PROVE  IInv'
  <1>1. /\ UNCHANGED <<session, read, spawning, pc, replies>>
        /\ j \in stop.whom /\ retired' = retired \cup {j} /\ tasks' = tasks \ {j}
    BY DEF RetireOne, converse, job, NoteTask, frame
  <1>2. report' = Finished(j)
    BY DEF RetireOne
  <1>3. stop' \in Stops /\ stop'.whom \subseteq stop.whom
    <2>1. stop \in Stops
      BY DEF IInv, TypeOK
    <2>2. CASE stop.whom = {j}
      BY <2>2 DEF RetireOne, Stops
    <2>3. CASE stop.whom # {j}
      <3>1. stop' = [stop EXCEPT !.whom = stop.whom \ {j}]
        BY <2>3 DEF RetireOne
      <3>2. QED BY <2>1, <3>1 DEF Stops
    <2>4. QED BY <2>2, <2>3
  <1>4. pc[j] \notin {"unborn", "born"}
    BY <1>1 DEF IInv, StopInv
  <1>5. TypeOK'
    BY <1>1, <1>2, <1>3, <1>4, FinishedReport DEF IInv, TypeOK, Jobs
  <1>6. SpawnInv'
    BY <1>1, <1>2, <1>3, <1>4, FinishedReport DEF IInv, SpawnInv, Jobs
  <1>7. StopInv'
    BY <1>1, <1>2, <1>3, <1>4, FinishedReport DEF IInv, StopInv, Jobs, TypeOK, Stops
  <1>8. StripIsTrue'
    BY <1>1, <1>2, <1>3, <1>4, FinishedReport DEF IInv, StripIsTrue, Jobs, Alive
  <1>9. DocumentInv'
    BY <1>1, <1>2, <1>3, <1>4, FinishedReport DEF IInv, DocumentInv, Jobs
  <1>10. QED BY <1>5, <1>6, <1>7, <1>8, <1>9 DEF IInv

-----------------------------------------------------------------------------
(***************************************************************************)
(* The invariant is inductive.                                             *)
(***************************************************************************)
\* The invariant holds at the start.
LEMMA InvInit ==
  ASSUME Init
  PROVE  IInv
  <1>1. session.messages \in 0 .. MaxMessages
    BY ResearchAssumption DEF Init
  <1>2. TypeOK
    BY DEF Init, TypeOK, Places, Stops, IsReport
  <1>3. SpawnInv
    BY <1>1 DEF Init, SpawnInv
  <1>4. StopInv /\ DocumentInv
    BY DEF Init, StopInv, DocumentInv
  <1>5. StripIsTrue
    BY DEF Init, StripIsTrue, Alive
  <1>6. QED BY <1>2, <1>3, <1>4, <1>5 DEF IInv

\* Every command of a research job keeps the invariant.
LEMMA JobStep ==
  ASSUME IInv, NEW j \in Jobs, DeepResearch(j)
  PROVE  IInv'
  <1>1. CASE WriteTask(j)
    BY <1>1, NamesItself
  <1>2. CASE WriteFind(j)
    BY <1>2, GoingOn DEF WriteFind, Command, Goes, Places, converse, strip, stopping, frame
  <1>3. CASE ReadFound(j)
    BY <1>3, GoingOn DEF ReadFound, Command, Goes, Places, converse, strip, stopping, frame
  <1>4. CASE WriteAsk(j)
    BY <1>4, GoingOn DEF WriteAsk, Command, Goes, Places, converse, strip, stopping, frame
  <1>5. CASE ReadHear(j)
    BY <1>5, GoingOn DEF ReadHear, Command, Goes, Places, converse, strip, stopping, frame
  <1>6. CASE WriteStdout(j)
    BY <1>6, WritesOut
  <1>7. CASE Look(j)
    <2>1. PICK to \in {"hearing", "reporting", "clearing"} : pc' = [pc EXCEPT ![j] = to]
      BY <1>7 DEF Look
    <2>2. QED BY <1>7, <2>1, GoingOn DEF Look, Goes, Places, converse, strip, stopping, frame
  <1>8. CASE WriteReport(j)
    BY <1>8, GoingOn DEF WriteReport, Command, Goes, Places, converse, strip, stopping, frame
  <1>9. CASE ClearTask(j)
    BY <1>9, ClearsItsLine
  <1>10. CASE Exit(j)
    BY <1>10, Ends
  <1>11. QED BY <1>1, <1>2, <1>3, <1>4, <1>5, <1>6, <1>7, <1>8, <1>9, <1>10 DEF DeepResearch

\* Every step of the thread that pressed stop keeps it.
LEMMA StopStep ==
  ASSUME IInv, Interrupt \/ Interruption
  PROVE  IInv'
  <1>1. stop \in Stops
    BY DEF IInv, TypeOK
  <1>2. CASE Interrupt
    <2>1. stop' \in Stops /\ stop'.whom = stop.whom
      BY <1>1, <1>2 DEF Interrupt, Stops
    <2>2. QED BY <1>2, <2>1, StopGoesOn DEF Interrupt, converse, job, strip, frame
  <1>3. ASSUME NEW j \in Jobs, Wake(j)
        PROVE  IInv'
    BY <1>3, QuietSteps DEF Wake, record, converse, job, strip, stopping, frame
  <1>4. ASSUME NEW j \in Jobs, RetireOne(j)
        PROVE  IInv'
    BY <1>4, RetiresOne
  <1>5. CASE Abandon
    <2>1. stop' \in Stops /\ stop'.whom = stop.whom
      BY <1>1, <1>5 DEF Abandon, Stops
    <2>2. QED BY <1>5, <2>1, StopGoesOn DEF Abandon, converse, strip, frame
  <1>6. CASE RetireBackground
    <2>1. stop' \in Stops /\ stop'.whom \subseteq stop.whom \cup tasks
      BY <1>1, <1>6 DEF RetireBackground, Stops, IInv, TypeOK
    <2>2. QED BY <1>6, <2>1, StopGoesOn DEF RetireBackground, converse, job, strip, frame
  <1>7. QED BY <1>2, <1>3, <1>4, <1>5, <1>6 DEF Interruption

\* The device's worker, the buttons, the services and the mail leave the record alone.
LEMMA ServiceStep ==
  ASSUME IInv,
         \/ \E j \in Jobs : Worker(j)
         \/ \E p \in Presses, who \in {"owner", "guest"} :
              EmailConversation(p, who) \/ EmailReport(p, who)
         \/ \E p \in Presses : Request(p) \/ Service(p) \/ Transmit(p)
  PROVE  IInv'
  <1>1. UNCHANGED <<converse, job, strip, stopping, frame>>
    BY DEF Worker, Request, EmailConversation, EmailReport, Service, ReadStdin, WriteOutbox, Transmit
  <1>2. QED BY <1>1, QuietSteps DEF record, converse, job, strip, stopping, frame

\* Every step of the page keeps the invariant.
LEMMA InvStep ==
  ASSUME IInv, [Next]_vars
  PROVE  IInv'
  <1>1. CASE UNCHANGED vars
    BY <1>1, QuietSteps DEF vars, record, converse, job, strip, stopping, frame
  <1>2. CASE Converse
    BY <1>2, ReadsAMessage, Spawns DEF Converse
  <1>3. CASE OtherTick
    BY <1>3, QuietSteps DEF OtherTick, record, converse, job, strip, stopping, frame
  <1>4. ASSUME NEW j \in Jobs, Research(j)
        PROVE  IInv'
    BY <1>4, JobStep DEF Research
  <1>5. CASE Interrupt \/ Interruption
    BY <1>5, StopStep
  <1>6. QED BY <1>1, <1>2, <1>3, <1>4, <1>5, ServiceStep DEF Next

\* So it always holds.
LEMMA Inductive == Spec => []IInv
  BY InvInit, InvStep, PTL DEF Spec

-----------------------------------------------------------------------------
(***************************************************************************)
(* What follows.                                                           *)
(***************************************************************************)
\* The page's record of the jobs keeps its types, for any number of messages and presses.
THEOREM TypeCorrect == Spec => []TypeOK
  BY Inductive, PTL DEF IInv

\* The strip of the page says what is running (_note_task in web/server.py, and the retiring of
\* a stop): no interleaving of jobs, stops and HTTP threads leaves a line behind or brings one back.
THEOREM TheStripIsTrue == Spec => []StripIsTrue
  BY Inductive, PTL DEF IInv

\* A job nobody retired and that has named itself is writing into its document, and what the
\* jobs write is not in the conversation.
DocumentsKeptApart ==
  /\ \A j \in Jobs \ retired : pc[j] \notin {"unborn", "born", "gone"} => report[j].at = "open"
  /\ replies # <<>> => retired # {}

\* What research writes is not shown as conversation (Report, web/server.py) unless a stop
\* retired a job, however many jobs share the pipes: the second half of NoFindingLost.
THEOREM FindingsStayOut == Spec => []DocumentsKeptApart
  <1>1. IInv => DocumentsKeptApart
    BY DEF IInv, DocumentInv, DocumentsKeptApart
  <1>2. QED BY <1>1, Inductive, PTL

-----------------------------------------------------------------------------
(***************************************************************************)
(* The letters.  A letter handed in waits, or is carried by one service    *)
(* job, or has gone out in one letter: whoever presses, and however often. *)
(***************************************************************************)
Asks == [what : {"nothing", "conversation", "report"}, who : {"nobody", "owner", "guest"},
         at : {"unpressed", "asking", "dispatched", "read", "posting", "answered"}]

Handed == {Letter(p) : p \in Presses}

MailType ==
  /\ press \in [Presses -> Asks] /\ DOMAIN carries = Presses
  /\ letters \subseteq Handed /\ findings \cap Handed = {}

\* A service is asked for a letter or for a report.
AskInv == \A p \in Presses : press[p].at \in {"asking", "dispatched", "read"} =>
                               press[p].what \in {"conversation", "report"}

\* Nobody has the letter of a press still to come.
FreshInv == \A p \in Presses : press[p].at = "unpressed" =>
  /\ Letter(p) \notin letters
  /\ \A q \in Presses : Letter(p) \notin carries[q]
  /\ \A l \in Out : Letter(p) \notin l.made

\* Who asked for a conversation carries letters, once it has read.
CarryInv == \A p \in Presses : press[p].at = "read" /\ press[p].what = "conversation" =>
                                 carries[p] # {} /\ carries[p] \subseteq Handed

OneHolder(x) ==
  /\ \A p \in Presses : x \in carries[p] => /\ x \notin letters
                                            /\ \A q \in Presses : x \in carries[q] => q = p
                                            /\ \A l \in Out : x \notin l.made
  /\ \A l \in Out : x \in l.made => /\ x \notin letters
                                    /\ \A k \in Out : x \in k.made => k = l

HolderInv == \A x \in Handed : OneHolder(x)

OutInv == \A l \in Out : l.made # {} /\ l.made \subseteq Handed

MailInv == MailType /\ AskInv /\ FreshInv /\ CarryInv /\ HolderInv /\ OutInv

mailbox == <<letters, findings, press, carries, outbox, sent>>

\* One press goes on.
LEMMA PressAt ==
  ASSUME press \in [Presses -> Asks], NEW p \in Presses, NEW r \in Asks, press' = [press EXCEPT ![p] = r]
  PROVE  press' \in [Presses -> Asks] /\ \A q \in Presses : press'[q] = IF q = p THEN r ELSE press[q]
  OBVIOUS

LEMMA PressGoesOn ==
  ASSUME press \in [Presses -> Asks], NEW p \in Presses,
         NEW a \in {"unpressed", "asking", "dispatched", "read", "posting", "answered"},
         press' = [press EXCEPT ![p].at = a]
  PROVE  /\ press' \in [Presses -> Asks]
         /\ press'[p].at = a /\ press'[p].what = press[p].what
         /\ \A q \in Presses : q # p => press'[q] = press[q]
  <1> DEFINE r == [what |-> press[p].what, who |-> press[p].who, at |-> a]
  <1>1. [press[p] EXCEPT !.at = a] = r /\ r \in Asks
    BY DEF Asks
  <1>2. press' = [press EXCEPT ![p] = r]
    BY <1>1
  <1>3. press' \in [Presses -> Asks] /\ \A q \in Presses : press'[q] = IF q = p THEN r ELSE press[q]
    BY <1>1, <1>2, PressAt
  <1>4. QED BY <1>3

LEMMA Letters ==
  /\ \A p, q \in Presses : Letter(p) = Letter(q) => p = q
  /\ \A j \in Jobs : <<"findings", j>> \notin Handed
  BY DEF Letter, Handed

\* A letter handed in.
LEMMA ConversationPressed ==
  ASSUME MailInv, NEW p \in Presses, NEW who \in {"owner", "guest"}, EmailConversation(p, who)
  PROVE  MailInv'
  <1> DEFINE r == [what |-> "conversation", who |-> who, at |-> "asking"]
  <1>1. /\ press[p].at = "unpressed" /\ letters' = letters \cup {Letter(p)}
        /\ UNCHANGED <<findings, carries, outbox, sent>> /\ press' = [press EXCEPT ![p] = r]
    BY DEF EmailConversation, Pressed, MayPress, mail
  <1>2. r \in Asks
    BY DEF Asks
  <1>3. press' \in [Presses -> Asks] /\ \A q \in Presses : press'[q] = IF q = p THEN r ELSE press[q]
    BY <1>1, <1>2, PressAt DEF MailInv, MailType
  <1>4. Letter(p) \in Handed
    BY DEF Handed
  <1>5. MailType'
    BY <1>1, <1>3, <1>4 DEF MailInv, MailType, Handed
  <1>6. AskInv'
    BY <1>3 DEF MailInv, AskInv
  <1>7. FreshInv'
    BY <1>1, <1>3, Letters DEF MailInv, FreshInv, Out
  <1>8. CarryInv'
    BY <1>1, <1>3 DEF MailInv, CarryInv, Handed
  <1>9. HolderInv'
    <2>1. \A q \in Presses : Letter(p) \notin carries[q]
      BY <1>1 DEF MailInv, FreshInv
    <2>2. \A l \in Out : Letter(p) \notin l.made
      BY <1>1 DEF MailInv, FreshInv
    <2>3. SUFFICES ASSUME NEW x \in Handed
                   PROVE  OneHolder(x)'
      BY DEF HolderInv, Handed
    <2>4. OneHolder(x)
      BY <2>3 DEF MailInv, HolderInv
    <2>5. QED BY <1>1, <2>1, <2>2, <2>4 DEF OneHolder, Out
  <1>10. OutInv'
    BY <1>1 DEF MailInv, OutInv, Out, Handed
  <1>11. QED BY <1>5, <1>6, <1>7, <1>8, <1>9, <1>10 DEF MailInv

\* Only the press goes on.
LEMMA OnlyAPress ==
  ASSUME MailInv, NEW p \in Presses, press' \in [Presses -> Asks],
         \A q \in Presses : q # p => press'[q] = press[q],
         press'[p].at # "unpressed",
         press'[p].at # "read",
         press'[p].at \in {"asking", "dispatched"} => press'[p].what \in {"conversation", "report"},
         UNCHANGED <<letters, findings, carries, outbox, sent>>
  PROVE  MailInv'
  <1>1. MailType'
    BY DEF MailInv, MailType, Handed
  <1>2. AskInv'
    BY DEF MailInv, AskInv
  <1>3. FreshInv'
    BY DEF MailInv, FreshInv, Out
  <1>4. CarryInv'
    BY DEF MailInv, CarryInv, Handed
  <1>5. HolderInv' /\ OutInv'
    BY DEF MailInv, HolderInv, OneHolder, OutInv, Out, Handed
  <1>6. QED BY <1>1, <1>2, <1>3, <1>4, <1>5 DEF MailInv

\* A report asked for, or nothing left to ask for.
LEMMA ReportPressed ==
  ASSUME MailInv, NEW p \in Presses, NEW who \in {"owner", "guest"}, EmailReport(p, who)
  PROVE  MailInv'
  <1>1. PICK r \in Asks : /\ press' = [press EXCEPT ![p] = r]
                          /\ r.at \in {"asking", "answered"}
                          /\ r.at = "asking" => r.what = "report"
    <2>1. CASE findings # {}
      <3>1. press' = [press EXCEPT ![p] = [what |-> "report", who |-> who, at |-> "asking"]]
        BY <2>1 DEF EmailReport, Pressed
      <3>2. [what |-> "report", who |-> who, at |-> "asking"] \in Asks
        BY DEF Asks
      <3>3. QED BY <3>1, <3>2
    <2>2. CASE findings = {}
      <3>1. press' = [press EXCEPT ![p] = Answered]
        BY <2>2 DEF EmailReport
      <3>2. Answered \in Asks /\ Answered.at = "answered"
        BY DEF Answered, Unpressed, Asks
      <3>3. QED BY <3>1, <3>2
    <2>3. QED BY <2>1, <2>2
  <1>2. press' \in [Presses -> Asks] /\ \A q \in Presses : press'[q] = IF q = p THEN r ELSE press[q]
    BY <1>1, PressAt DEF MailInv, MailType
  <1>3. UNCHANGED <<letters, findings, carries, outbox, sent>>
    BY DEF EmailReport, pipes, mail
  <1>4. QED BY <1>1, <1>2, <1>3, OnlyAPress

\* The request follows.
LEMMA Requested ==
  ASSUME MailInv, NEW p \in Presses, Request(p)
  PROVE  MailInv'
  <1>1. /\ press[p].at = "asking" /\ press' = [press EXCEPT ![p].at = "dispatched"]
        /\ UNCHANGED <<letters, findings, carries, outbox, sent>>
    BY DEF Request, pipes, mail
  <1>2. /\ press' \in [Presses -> Asks]
        /\ press'[p].at = "dispatched" /\ press'[p].what = press[p].what
        /\ \A q \in Presses : q # p => press'[q] = press[q]
    BY <1>1, PressGoesOn DEF MailInv, MailType
  <1>3. press[p].what \in {"conversation", "report"}
    BY <1>1 DEF MailInv, AskInv
  <1>4. QED BY <1>1, <1>2, <1>3, OnlyAPress

\* A service reads what waits: the letters change hands together.
LEMMA ServiceReads ==
  ASSUME MailInv, NEW p \in Presses, ReadStdin(p)
  PROVE  MailInv'
  <1>1. /\ press[p].at = "dispatched" /\ press' = [press EXCEPT ![p].at = "read"]
        /\ UNCHANGED <<outbox, sent>>
    BY DEF ReadStdin, mail
  <1>2. /\ press' \in [Presses -> Asks]
        /\ press'[p].at = "read" /\ press'[p].what = press[p].what
        /\ \A q \in Presses : q # p => press'[q] = press[q]
    BY <1>1, PressGoesOn DEF MailInv, MailType
  <1>3. PICK waits : /\ carries' = [carries EXCEPT ![p] = waits]
                     /\ \/ /\ press[p].what = "conversation" /\ waits = letters /\ waits # {}
                           /\ letters' = {} /\ findings' = findings
                        \/ /\ press[p].what # "conversation" /\ waits = findings
                           /\ findings' = {} /\ letters' = letters
    BY DEF ReadStdin
  <1>4. /\ DOMAIN carries' = Presses
        /\ \A q \in Presses : carries'[q] = IF q = p THEN waits ELSE carries[q]
    BY <1>3 DEF MailInv, MailType
  <1>5. MailType'
    BY <1>2, <1>3, <1>4 DEF MailInv, MailType, Handed
  <1>6. AskInv'
    BY <1>1, <1>2 DEF MailInv, AskInv
  <1>7. FreshInv'
    <2>1. SUFFICES ASSUME NEW q \in Presses, press'[q].at = "unpressed"
                   PROVE  /\ Letter(q) \notin letters'
                          /\ \A n \in Presses : Letter(q) \notin carries'[n]
                          /\ \A l \in Out' : Letter(q) \notin l.made
      BY DEF FreshInv
    <2>2. press[q].at = "unpressed" /\ Letter(q) \in Handed
      BY <1>2, <2>1 DEF Handed
    <2>3. Letter(q) \notin letters /\ Letter(q) \notin findings
      BY <2>2 DEF MailInv, MailType, FreshInv
    <2>4. \A n \in Presses : Letter(q) \notin carries'[n]
      BY <1>3, <1>4, <2>2, <2>3 DEF MailInv, FreshInv
    <2>5. QED BY <1>1, <1>3, <2>2, <2>3, <2>4 DEF MailInv, FreshInv, Out
  <1>8. CarryInv'
    BY <1>2, <1>3, <1>4 DEF MailInv, MailType, CarryInv, Handed
  <1>9. HolderInv'
    <2>1. SUFFICES ASSUME NEW x \in Handed
                   PROVE  OneHolder(x)'
      BY DEF HolderInv, Handed
    <2>2. OneHolder(x) /\ x \notin findings
      BY <2>1 DEF MailInv, MailType, HolderInv
    <2>3. CASE x \in letters /\ press[p].what = "conversation"
      <3>1. x \notin letters' /\ \A q \in Presses : x \in carries'[q] => q = p
        BY <1>3, <1>4, <2>2, <2>3 DEF OneHolder
      <3>2. \A l \in Out' : x \notin l.made
        BY <1>1, <2>2, <2>3 DEF OneHolder, Out
      <3>3. QED BY <3>1, <3>2 DEF OneHolder
    <2>4. CASE ~(x \in letters /\ press[p].what = "conversation")
      <3>1. /\ x \in letters' => x \in letters
            /\ \A q \in Presses : x \in carries'[q] => x \in carries[q]
        BY <1>3, <1>4, <2>2, <2>4
      <3>2. QED BY <1>1, <2>2, <3>1 DEF OneHolder, Out
    <2>5. QED BY <2>3, <2>4
  <1>10. OutInv'
    BY <1>1 DEF MailInv, OutInv, Out, Handed
  <1>11. QED BY <1>5, <1>6, <1>7, <1>8, <1>9, <1>10 DEF MailInv

\* What it carries goes out, unless it is refused: a report always is.
LEMMA ServiceWrites ==
  ASSUME MailInv, NEW p \in Presses, WriteOutbox(p)
  PROVE  MailInv'
  <1> DEFINE new == [by |-> p, made |-> carries[p]]
  <1>1. /\ press[p].at = "read" /\ carries' = [carries EXCEPT ![p] = {}]
        /\ UNCHANGED <<letters, findings, sent>>
        /\ outbox' = outbox \cup (IF Refused(p) THEN {} ELSE {new})
    BY DEF WriteOutbox, pipes
  <1>2. /\ press' \in [Presses -> Asks] /\ press'[p].at \in {"answered", "posting"}
        /\ \A q \in Presses : q # p => press'[q] = press[q]
    <2>1. CASE Refused(p)
      <3>1. Answered \in Asks /\ Answered.at = "answered"
        BY DEF Answered, Unpressed, Asks
      <3>2. press' = [press EXCEPT ![p] = Answered]
        BY <2>1 DEF WriteOutbox
      <3>3. QED BY <3>1, <3>2, PressAt DEF MailInv, MailType
    <2>2. CASE ~Refused(p)
      <3>1. press' = [press EXCEPT ![p].at = "posting"]
        BY <2>2 DEF WriteOutbox
      <3>2. QED BY <3>1, PressGoesOn DEF MailInv, MailType
    <2>3. QED BY <2>1, <2>2
  <1>3. DOMAIN carries' = Presses /\ \A q \in Presses : carries'[q] = IF q = p THEN {} ELSE carries[q]
    BY <1>1 DEF MailInv, MailType
  <1>4. ~Refused(p) => carries[p] # {} /\ carries[p] \subseteq Handed
    BY <1>1 DEF Refused, MailInv, AskInv, CarryInv
  <1>5. \A l \in Out' : l \in Out \/ (l = new /\ ~Refused(p))
    BY <1>1 DEF Out
  <1>6. MailType' /\ AskInv'
    BY <1>1, <1>2, <1>3 DEF MailInv, MailType, AskInv, Handed
  <1>7. FreshInv'
    <2>1. SUFFICES ASSUME NEW q \in Presses, press'[q].at = "unpressed"
                   PROVE  /\ Letter(q) \notin letters'
                          /\ \A n \in Presses : Letter(q) \notin carries'[n]
                          /\ \A l \in Out' : Letter(q) \notin l.made
      BY DEF FreshInv
    <2>2. press[q].at = "unpressed"
      BY <1>2, <2>1
    <2>3. /\ Letter(q) \notin letters /\ \A n \in Presses : Letter(q) \notin carries[n]
          /\ \A l \in Out : Letter(q) \notin l.made
      BY <2>2 DEF MailInv, FreshInv
    <2>4. new.made = carries[p]
      OBVIOUS
    <2>5. QED BY <1>1, <1>3, <1>5, <2>3, <2>4
  <1>8. CarryInv'
    BY <1>2, <1>3 DEF MailInv, CarryInv, Handed
  <1>9. HolderInv'
    <2>1. SUFFICES ASSUME NEW x \in Handed
                   PROVE  OneHolder(x)'
      BY DEF HolderInv, Handed
    <2>2. OneHolder(x) /\ new.made = carries[p]
      BY <2>1 DEF MailInv, HolderInv
    <2>3. CASE x \in carries[p]
      <3>1. x \notin letters' /\ \A q \in Presses : x \notin carries'[q]
        BY <1>1, <1>3, <2>2, <2>3 DEF OneHolder
      <3>2. \A l \in Out' : x \in l.made => l = new
        BY <1>5, <2>2, <2>3 DEF OneHolder
      <3>3. QED BY <3>1, <3>2 DEF OneHolder
    <2>4. CASE x \notin carries[p]
      <3>1. \A l \in Out' : x \in l.made => l \in Out
        BY <1>5, <2>2, <2>4
      <3>2. \A q \in Presses : x \in carries'[q] => x \in carries[q]
        BY <1>3
      <3>3. QED BY <1>1, <2>2, <3>1, <3>2 DEF OneHolder
    <2>5. QED BY <2>3, <2>4
  <1>10. OutInv'
    <2>1. new.made = carries[p]
      OBVIOUS
    <2>2. \A l \in Out' : l.made # {} /\ l.made \subseteq Handed
      BY <1>4, <1>5, <2>1 DEF MailInv, OutInv
    <2>3. QED BY <2>2 DEF OutInv, Handed
  <1>11. QED BY <1>6, <1>7, <1>8, <1>9, <1>10 DEF MailInv

\* The mail thread reports a letter, which has gone out as it was.
LEMMA LetterTransmitted ==
  ASSUME MailInv, NEW p \in Presses, Transmit(p)
  PROVE  MailInv'
  <1>1. /\ Out' = Out /\ UNCHANGED <<letters, findings, carries>>
        /\ press' = [press EXCEPT ![p] = Answered]
    BY DEF Transmit, Out, pipes
  <1>2. Answered \in Asks /\ Answered.at = "answered"
    BY DEF Answered, Unpressed, Asks
  <1>3. /\ press' \in [Presses -> Asks]
        /\ \A q \in Presses : press'[q] = IF q = p THEN Answered ELSE press[q]
    BY <1>1, <1>2, PressAt DEF MailInv, MailType
  <1>4. MailType' /\ AskInv'
    BY <1>1, <1>2, <1>3 DEF MailInv, MailType, AskInv, Handed
  <1>5. FreshInv' /\ CarryInv'
    BY <1>1, <1>2, <1>3 DEF MailInv, FreshInv, CarryInv, Handed
  <1>6. HolderInv' /\ OutInv'
    BY <1>1 DEF MailInv, HolderInv, OneHolder, OutInv, Handed
  <1>7. QED BY <1>4, <1>5, <1>6 DEF MailInv

\* The invariant of the letters holds at the start.
LEMMA MailInit ==
  ASSUME Init
  PROVE  MailInv
  <1>1. Unpressed \in Asks /\ Unpressed.at = "unpressed"
    BY DEF Unpressed, Asks
  <1>2. press \in [Presses -> Asks] /\ \A p \in Presses : press[p] = Unpressed
    BY <1>1 DEF Init
  <1>3. MailType /\ AskInv /\ CarryInv
    BY <1>1, <1>2 DEF Init, MailType, AskInv, CarryInv
  <1>4. FreshInv /\ HolderInv /\ OutInv
    BY DEF Init, FreshInv, HolderInv, OneHolder, OutInv, Out
  <1>5. QED BY <1>3, <1>4 DEF MailInv

\* Everybody else leaves the letters alone.
LEMMA MailUntouched ==
  ASSUME MailInv, UNCHANGED mailbox
  PROVE  MailInv'
  BY DEF MailInv, MailType, AskInv, FreshInv, CarryInv, HolderInv, OneHolder, OutInv, Out, Handed,
         mailbox

\* A research job's findings are no letter.
LEMMA ReportWritten ==
  ASSUME MailInv, NEW j \in Jobs, WriteReport(j)
  PROVE  MailInv'
  <1>1. /\ findings' = findings \cup {<<"findings", j>>}
        /\ UNCHANGED <<letters, press, carries, outbox, sent>>
    BY DEF WriteReport, service, mail
  <1>2. MailType'
    BY <1>1, Letters DEF MailInv, MailType, Handed
  <1>3. AskInv' /\ FreshInv' /\ CarryInv' /\ HolderInv' /\ OutInv'
    BY <1>1 DEF MailInv, AskInv, FreshInv, CarryInv, HolderInv, OneHolder, OutInv, Out, Handed
  <1>4. QED BY <1>2, <1>3 DEF MailInv

\* Every step keeps the invariant of the letters.
LEMMA MailStep ==
  ASSUME MailInv, [Next]_vars
  PROVE  MailInv'
  <1>1. CASE UNCHANGED vars
    BY <1>1, MailUntouched DEF vars, mailbox, pipes, service, mail
  <1>2. CASE Converse \/ OtherTick
    BY <1>2, MailUntouched DEF Converse, WriteTopic, Spawn, OtherTick, mailbox, pipes, service, mail
  <1>3. ASSUME NEW j \in Jobs, Research(j) \/ Worker(j)
        PROVE  MailInv'
    <2>1. CASE WriteReport(j)
      BY <2>1, ReportWritten
    <2>2. CASE ~WriteReport(j)
      <3>1. UNCHANGED <<letters, findings, service, mail>>
        <4>1. CASE WriteTask(j) \/ WriteStdout(j) \/ Look(j) \/ ClearTask(j) \/ Exit(j)
          BY <4>1 DEF WriteTask, WriteStdout, Look, ClearTask, Exit, pipes
        <4>2. CASE WriteFind(j) \/ ReadFound(j) \/ ReadHear(j) \/ Worker(j)
          BY <4>2 DEF WriteFind, ReadFound, ReadHear, Worker
        <4>3. CASE WriteAsk(j)
          BY <4>3 DEF WriteAsk, pipes
        <4>4. QED BY <1>3, <2>2, <4>1, <4>2, <4>3 DEF Research, DeepResearch
      <3>2. QED BY <3>1, MailUntouched DEF mailbox, service, mail
    <2>3. QED BY <2>1, <2>2
  <1>4. CASE Interrupt \/ Interruption
    <2>1. UNCHANGED <<letters, findings, service, mail>>
      BY <1>4 DEF Interrupt, Interruption, Wake, RetireOne, Abandon, RetireBackground, pipes
    <2>2. QED BY <2>1, MailUntouched DEF mailbox, service, mail
  <1>5. ASSUME NEW p \in Presses, NEW who \in {"owner", "guest"},
               EmailConversation(p, who) \/ EmailReport(p, who)
        PROVE  MailInv'
    BY <1>5, ConversationPressed, ReportPressed
  <1>6. ASSUME NEW p \in Presses, Request(p) \/ Service(p) \/ Transmit(p)
        PROVE  MailInv'
    BY <1>6, Requested, ServiceReads, ServiceWrites, LetterTransmitted DEF Service
  <1>7. QED BY <1>1, <1>2, <1>3, <1>4, <1>5, <1>6 DEF Next

\* However many presses are under way at once, on the one pipe of letters they share, a letter
\* handed in goes out once, and nothing from the web does (send_email and send_report in jobs.py,
\* the kernel's verdict at the outbox).
THEOREM LettersGoOnce == Spec => []SentOnce
  <1>1. Init => MailInv
    BY MailInit
  <1>2. MailInv /\ [Next]_vars => MailInv'
    BY MailStep
  <1>3. MailInv => SentOnce
    <2>1. SUFFICES ASSUME MailInv
                   PROVE  SentOnce
      OBVIOUS
    <2>2. \A l \in Out : l.made # {} /\ l.made \subseteq Handed
      BY <2>1 DEF MailInv, OutInv
    <2>3. \A l \in Out : l.made \cap letters = {}
      BY <2>1, <2>2 DEF MailInv, HolderInv, OneHolder
    <2>4. \A k, l \in Out : k # l => k.made \cap l.made = {}
      BY <2>1, <2>2 DEF MailInv, HolderInv, OneHolder
    <2>5. QED BY <2>2, <2>3, <2>4 DEF SentOnce, Handed
  <1>4. QED BY <1>1, <1>2, <1>3, PTL DEF Spec

-----------------------------------------------------------------------------
(***************************************************************************)
(* Where the words are.  Every word the model wrote is in one place, and   *)
(* what it did not write is nowhere: this is inductive once one knows that *)
(* a job has words in its hands only between its read and its write, so    *)
(* that a read never overwrites any.                                       *)
(***************************************************************************)
Kinds  == {"piece", "END", "ABANDONED"}
Writes == Seq(SUBSET (Nat \X Nat))

WordType ==
  /\ stream \in [Jobs -> Seq(Kinds)]
  /\ hands \in [Jobs -> SUBSET (Nat \X Nat)]
  /\ \A j \in Jobs : report[j].words \in Writes
  /\ replies \in Writes
  /\ \A i \in hear : i.of \in Jobs /\ i.nth \in Nat

HandsInv == \A j \in Jobs : hands[j] # {} => pc[j] = "heard"

\* The k-th arrival of the stream of j is a word of its answer.
Given(j, k) == k \in 1 .. Len(stream[j]) /\ stream[j][k] = "piece"

PlacesInv ==
  \A j \in Jobs, k \in Nat : IF Given(j, k) THEN \E x : Where(<<j, k>>) = {x}
                             ELSE Where(<<j, k>>) = {}

WordsInv == WordType /\ HandsInv /\ PlacesInv

\* The places a word can be in, each by itself.
OnPipe(w)    == {<<"hear", 0, 0>> : i \in {x \in hear : IsPiece(x) /\ Word(x) = w}}
InHands(w)   == {<<"hands", j, 0>> : j \in {x \in Jobs : w \in hands[x]}}
InReports(w) ==
  UNION {{<<"report", j, k>> : k \in {n \in 1 .. Len(report[j].words) : w \in report[j].words[n]}}
         : j \in Jobs}
InReplies(w) == {<<"replies", 0, k>> : k \in {n \in 1 .. Len(replies) : w \in replies[n]}}

LEMMA WhereIs == \A w : Where(w) = OnPipe(w) \cup InHands(w) \cup InReports(w) \cup InReplies(w)
  BY DEF Where, OnPipe, InHands, InReports, InReplies

\* What leaves the words where they are.
WordsStay ==
  /\ UNCHANGED <<hear, stream, hands, replies>>
  /\ \A j \in Jobs : report'[j].words = report[j].words
  /\ \A j \in Jobs : hands[j] # {} => pc'[j] = "heard"

LEMMA WordsUntouched ==
  ASSUME WordsInv, WordsStay
  PROVE  WordsInv'
  <1>1. \A w : Where(w)' = Where(w)
    <2> SUFFICES ASSUME NEW w PROVE Where(w)' = Where(w)
      OBVIOUS
    <2>1. InReports(w)' = InReports(w)
      BY DEF WordsStay, InReports
    <2>2. OnPipe(w)' = OnPipe(w) /\ InHands(w)' = InHands(w) /\ InReplies(w)' = InReplies(w)
      BY DEF WordsStay, OnPipe, InHands, InReplies
    <2>3. Where(w)' = OnPipe(w)' \cup InHands(w)' \cup InReports(w)' \cup InReplies(w)'
      BY DEF Where, OnPipe, InHands, InReports, InReplies
    <2>4. QED BY <2>1, <2>2, <2>3, WhereIs
  <1>2. \A j, k : Given(j, k)' <=> Given(j, k)
    BY DEF Given, WordsStay
  <1>3. PlacesInv'
    BY <1>1, <1>2 DEF WordsInv, PlacesInv
  <1>4. WordType' /\ HandsInv'
    BY DEF WordsInv, WordType, HandsInv, WordsStay
  <1>5. QED BY <1>3, <1>4 DEF WordsInv

\* The stream of a job goes on by one, and what it went on by waits on the pipe.
LEMMA Arrives ==
  ASSUME WordsInv, NEW j \in Jobs, NEW kind \in Kinds,
         stream' = [stream EXCEPT ![j] = Append(stream[j], kind)], Delivered(j),
         UNCHANGED <<hands, report, replies, pc>>
  PROVE  WordsInv'
  <1> DEFINE n == Len(stream[j]) + 1
             a == Arrival(j)
  <1>1. stream \in [Jobs -> Seq(Kinds)]
    BY DEF WordsInv, WordType
  <1>2. /\ n \in Nat /\ n # 0 /\ Len(stream'[j]) = n /\ stream'[j][n] = kind
        /\ \A k \in 1 .. Len(stream[j]) : stream'[j][k] = stream[j][k]
        /\ \A k \in Nat : k \in 1 .. n <=> k = n \/ k \in 1 .. Len(stream[j])
        /\ n \notin 1 .. Len(stream[j])
    <2>1. stream[j] \in Seq(Kinds) /\ stream'[j] = Append(stream[j], kind)
      BY <1>1
    <2>2. QED BY <2>1
  <1>3. stream' \in [Jobs -> Seq(Kinds)]
    BY <1>1
  <1>4. a.of = j /\ a.nth = n /\ a.what = kind /\ hear' = hear \cup {a}
    BY <1>2 DEF Arrival, Delivered
  <1>5. \A i \in Jobs : i # j => stream'[i] = stream[i]
    BY <1>1
  <1> HIDE DEF n, a
  <1>6. \A i \in Jobs, k \in Nat : Given(i, k)' <=> Given(i, k) \/ (i = j /\ k = n /\ kind = "piece")
    BY <1>2, <1>5 DEF Given
  <1>7. ~Given(j, n)
    BY <1>2 DEF Given
  <1>8. \A w : Where(w)' = Where(w) \cup (IF kind = "piece" /\ w = <<j, n>> THEN {<<"hear", 0, 0>>} ELSE {})
    <2> SUFFICES ASSUME NEW w
                 PROVE  Where(w)' = Where(w) \cup (IF kind = "piece" /\ w = <<j, n>> THEN {<<"hear", 0, 0>>} ELSE {})
      OBVIOUS
    <2>1. /\ InHands(w)' = InHands(w) /\ InReports(w)' = InReports(w) /\ InReplies(w)' = InReplies(w)
      BY DEF InHands, InReports, InReplies
    <2>2. IsPiece(a) /\ Word(a) = w <=> kind = "piece" /\ w = <<j, n>>
      BY <1>4 DEF IsPiece, Word
    <2>3. OnPipe(w)' = {<<"hear", 0, 0>> : i \in {x \in hear' : IsPiece(x) /\ Word(x) = w}}
      BY DEF OnPipe, IsPiece, Word
    <2>4. OnPipe(w)' = OnPipe(w) \cup (IF kind = "piece" /\ w = <<j, n>> THEN {<<"hear", 0, 0>>} ELSE {})
      BY <1>4, <2>2, <2>3 DEF OnPipe
    <2>5. Where(w)' = OnPipe(w)' \cup InHands(w)' \cup InReports(w)' \cup InReplies(w)'
      BY DEF Where, OnPipe, InHands, InReports, InReplies
    <2>6. QED BY <2>1, <2>4, <2>5, WhereIs
  <1>9. PlacesInv'
    <2> SUFFICES ASSUME NEW i \in Jobs, NEW k \in Nat
                 PROVE  IF Given(i, k)' THEN \E x : Where(<<i, k>>)' = {x} ELSE Where(<<i, k>>)' = {}
      BY DEF PlacesInv
    <2>1. CASE i = j /\ k = n /\ kind = "piece"
      <3>1. Where(<<i, k>>) = {} BY <1>2, <1>7, <2>1 DEF WordsInv, PlacesInv
      <3>2. Where(<<i, k>>)' = {<<"hear", 0, 0>>} BY <1>8, <2>1, <3>1
      <3>3. Given(i, k)' BY <1>6, <2>1
      <3>4. QED BY <3>2, <3>3
    <2>2. CASE ~(i = j /\ k = n /\ kind = "piece")
      <3>1. Where(<<i, k>>)' = Where(<<i, k>>) BY <1>8, <2>2
      <3>2. Given(i, k)' <=> Given(i, k) BY <1>6, <2>2
      <3>3. QED BY <3>1, <3>2 DEF WordsInv, PlacesInv
    <2>3. QED BY <2>1, <2>2
  <1>10. WordType' /\ HandsInv'
    BY <1>2, <1>3, <1>4 DEF WordsInv, WordType, HandsInv
  <1>11. QED BY <1>9, <1>10 DEF WordsInv

\* What waits on the pipe is taken into the hands of a job, which are empty.
LEMMA TakenInHand ==
  ASSUME IInv, WordsInv, NEW j \in Jobs, ReadHear(j)
  PROVE  WordsInv'
  <1>1. /\ pc[j] = "hearing" /\ hear' = {} /\ UNCHANGED <<stream, report, replies>>
        /\ pc' = [pc EXCEPT ![j] = "heard"] /\ hands' = [hands EXCEPT ![j] = WordsIn(hear)]
    BY DEF ReadHear, Command, device, strip, StreamPiece
  <1>2. hands[j] = {} /\ hands \in [Jobs -> SUBSET (Nat \X Nat)] /\ DOMAIN pc = Jobs
    BY <1>1 DEF WordsInv, HandsInv, WordType, IInv, TypeOK
  <1>3. WordsIn(hear) \subseteq Nat \X Nat
    BY DEF WordsIn, Word, WordsInv, WordType, Jobs
  <1>4. WordType'
    BY <1>1, <1>2, <1>3 DEF WordsInv, WordType
  <1>5. HandsInv'
    BY <1>1, <1>2 DEF WordsInv, HandsInv
  <1>6. ASSUME NEW w
        PROVE  Where(w)' = IF <<"hear", 0, 0>> \in Where(w)
                           THEN (Where(w) \ {<<"hear", 0, 0>>}) \cup {<<"hands", j, 0>>} ELSE Where(w)
    <2>1. InReports(w)' = InReports(w) /\ InReplies(w)' = InReplies(w)
      BY <1>1 DEF InReports, InReplies
    <2>2. OnPipe(w)' = {}
      BY <1>1 DEF OnPipe
    <2>3. OnPipe(w) = IF w \in WordsIn(hear) THEN {<<"hear", 0, 0>>} ELSE {}
      BY DEF OnPipe, WordsIn
    <2>4. InHands(w)' = InHands(w) \cup (IF w \in WordsIn(hear) THEN {<<"hands", j, 0>>} ELSE {})
      BY <1>1, <1>2 DEF InHands
    <2>5. Where(w)' = OnPipe(w)' \cup InHands(w)' \cup InReports(w)' \cup InReplies(w)'
      BY DEF Where, OnPipe, InHands, InReports, InReplies
    <2>6. <<"hear", 0, 0>> \notin InHands(w) \cup InReports(w) \cup InReplies(w)
      BY DEF InHands, InReports, InReplies
    <2>7. QED BY <2>1, <2>2, <2>3, <2>4, <2>5, <2>6, WhereIs
  <1>7. \A i, k : Given(i, k)' <=> Given(i, k)
    BY <1>1 DEF Given
  <1>8. PlacesInv'
    BY <1>6, <1>7 DEF WordsInv, PlacesInv
  <1>9. QED BY <1>4, <1>5, <1>8 DEF WordsInv

\* A write appended to a list of writes: the words of it are at its place, the others stay.
LEMMA Appended ==
  ASSUME NEW list \in Writes, NEW words \in SUBSET (Nat \X Nat), NEW more,
         more = Append(list, words)
  PROVE  /\ more \in Writes
         /\ \A w : {n \in 1 .. Len(more) : w \in more[n]} =
                     {n \in 1 .. Len(list) : w \in list[n]} \cup (IF w \in words THEN {Len(list) + 1} ELSE {})
         /\ \A w : Len(list) + 1 \notin {n \in 1 .. Len(list) : w \in list[n]}
  <1> DEFINE S == SUBSET (Nat \X Nat)
             k == Len(list) + 1
  <1>1. list \in Seq(S) /\ words \in S
    BY DEF Writes
  <1> HIDE DEF S
  <1>2. /\ more \in Seq(S) /\ Len(more) = k /\ more[k] = words
        /\ \A n \in 1 .. Len(list) : more[n] = list[n]
        /\ \A n : n \in 1 .. k <=> n = k \/ n \in 1 .. Len(list)
        /\ k \notin 1 .. Len(list)
    BY <1>1
  <1>3. more \in Writes
    BY <1>2 DEF Writes, S
  <1> HIDE DEF k
  <1>4. ASSUME NEW w
        PROVE  {n \in 1 .. Len(more) : w \in more[n]} =
                 {n \in 1 .. Len(list) : w \in list[n]} \cup (IF w \in words THEN {k} ELSE {})
    BY <1>2
  <1>5. \A w : k \notin {n \in 1 .. Len(list) : w \in list[n]}
    BY <1>2
  <1>6. QED BY <1>3, <1>4, <1>5 DEF k

\* A document with other writes.
LEMMA Rewritten ==
  ASSUME NEW r, IsReport(r), NEW w
  PROVE  [r EXCEPT !.words = w] = [at |-> r.at, words |-> w]
  BY DEF IsReport

\* What a job has in hand it writes: into its document, or into the conversation.
LEMMA PutOut ==
  ASSUME IInv, WordsInv, NEW j \in Jobs, WriteStdout(j)
  PROVE  WordsInv'
  <1> DEFINE words == hands[j] \cup IF echo > 0 THEN {DoorAnswer} ELSE {}
             open  == report[j].at = "open"
             k == IF open THEN Len(report[j].words) + 1 ELSE Len(replies) + 1
             from == <<"hands", j, 0>>
             to   == IF open THEN <<"report", j, k>> ELSE <<"replies", 0, k>>
  <1>1. /\ pc[j] = "heard" /\ UNCHANGED <<hear, stream>> /\ pc' = [pc EXCEPT ![j] = "written"]
        /\ hands' = [hands EXCEPT ![j] = {}]
        /\ report'  = IF open THEN [report EXCEPT ![j].words = Append(@, words)] ELSE report
        /\ replies' = IF open THEN replies ELSE Append(replies, words)
    BY DEF WriteStdout, Command, device, pipes, OnReply
  <1>2. /\ hands \in [Jobs -> SUBSET (Nat \X Nat)] /\ DOMAIN pc = Jobs
        /\ words \in SUBSET (Nat \X Nat) /\ hands[j] \subseteq words /\ words \subseteq hands[j] \cup {<<0, 0>>}
        /\ replies \in Writes /\ \A i \in Jobs : report[i].words \in Writes
    BY DEF WordsInv, WordType, IInv, TypeOK, DoorAnswer
  <1>3. ASSUME open
        PROVE  /\ report'[j].words = Append(report[j].words, words)
               /\ \A i \in Jobs : i # j => report'[i] = report[i]
    <2>1. report' = [report EXCEPT ![j] = [report[j] EXCEPT !.words = Append(report[j].words, words)]]
      BY <1>1, <1>3
    <2>2. [report[j] EXCEPT !.words = Append(report[j].words, words)]
            = [at |-> report[j].at, words |-> Append(report[j].words, words)]
      <3>1. IsReport(report[j]) BY DEF IInv, TypeOK
      <3>2. QED BY <3>1, Rewritten
    <2>3. DOMAIN report = Jobs
      BY DEF IInv, TypeOK
    <2>4. report'[j] = [at |-> report[j].at, words |-> Append(report[j].words, words)]
      BY <2>1, <2>2, <2>3
    <2>5. QED BY <2>1, <2>3, <2>4
  <1> HIDE DEF words
  <1>4. ASSUME NEW i \in Jobs, NEW m \in Nat, NEW w, w = <<i, m>>
        PROVE  /\ w \in words <=> w \in hands[j]
               /\ to \notin Where(w)
               /\ Where(w)' = IF w \in hands[j] THEN (Where(w) \ {from}) \cup {to} ELSE Where(w)
               /\ w \in hands[j] <=> from \in Where(w)
    <2>1. w \in words <=> w \in hands[j]
      <3>1. w # <<0, 0>> BY <1>4 DEF Jobs
      <3>2. QED BY <1>2, <3>1
    <2>2. OnPipe(w)' = OnPipe(w)
      BY <1>1 DEF OnPipe
    <2>3. InHands(w)' = InHands(w) \ {from} /\ (w \in hands[j] <=> from \in InHands(w))
      BY <1>1, <1>2 DEF InHands
    <2>4. Where(w)' = OnPipe(w)' \cup InHands(w)' \cup InReports(w)' \cup InReplies(w)'
      BY DEF Where, OnPipe, InHands, InReports, InReplies
    <2>5. from \notin OnPipe(w) \cup InReports(w) \cup InReplies(w)
      BY DEF OnPipe, InReports, InReplies
    <2>6. CASE open
      <3>1. /\ {n \in 1 .. Len(report'[j].words) : w \in report'[j].words[n]} =
                 {n \in 1 .. Len(report[j].words) : w \in report[j].words[n]} \cup (IF w \in words THEN {k} ELSE {})
            /\ k \notin {n \in 1 .. Len(report[j].words) : w \in report[j].words[n]}
        <4>1. /\ report[j].words \in Writes /\ words \in SUBSET (Nat \X Nat)
              /\ report'[j].words = Append(report[j].words, words) /\ k = Len(report[j].words) + 1
          BY <1>2, <1>3, <2>6
        <4> HIDE DEF k
        <4>2. QED BY <4>1, Appended
      <3>2. InReplies(w)' = InReplies(w)
        BY <1>1, <2>6 DEF InReplies
      <3> DEFINE At(i1) == {<<"report", i1, k1>> : k1 \in {n \in 1 .. Len(report[i1].words) : w \in report[i1].words[n]}}
                 After(i1) == {<<"report", i1, k1>> : k1 \in {n \in 1 .. Len(report'[i1].words) : w \in report'[i1].words[n]}}
      <3>3. After(j) = At(j) \cup (IF w \in words THEN {<<"report", j, k>>} ELSE {})
        <4> HIDE DEF k
        <4>1. QED BY <3>1
      <3>4. \A i1 \in Jobs : i1 # j => After(i1) = At(i1)
        BY <1>3, <2>6
      <3>5. InReports(w) = UNION {At(i1) : i1 \in Jobs} /\ InReports(w)' = UNION {After(i1) : i1 \in Jobs}
        BY DEF InReports
      <3>6. \A i1 \in Jobs : <<"report", j, k>> \notin At(i1)
        <4> HIDE DEF k
        <4>1. QED BY <3>1
      <3> HIDE DEF At, After, k
      <3>7. InReports(w)' = InReports(w) \cup (IF w \in words THEN {<<"report", j, k>>} ELSE {})
        BY <3>3, <3>4, <3>5
      <3>8. <<"report", j, k>> \notin OnPipe(w) \cup InHands(w) \cup InReports(w) \cup InReplies(w)
        BY <3>5, <3>6 DEF OnPipe, InHands, InReplies
      <3>9. to = <<"report", j, k>> /\ from # <<"report", j, k>>
        BY <2>6
      <3> HIDE DEF to, from
      <3>10. QED BY <2>1, <2>2, <2>3, <2>4, <2>5, <3>2, <3>7, <3>8, <3>9, WhereIs
    <2>7. CASE ~open
      <3>1. /\ {n \in 1 .. Len(replies') : w \in replies'[n]} =
                 {n \in 1 .. Len(replies) : w \in replies[n]} \cup (IF w \in words THEN {k} ELSE {})
            /\ k \notin {n \in 1 .. Len(replies) : w \in replies[n]}
        <4>1. /\ replies \in Writes /\ words \in SUBSET (Nat \X Nat)
              /\ replies' = Append(replies, words) /\ k = Len(replies) + 1
          BY <1>1, <1>2, <2>7
        <4> HIDE DEF k
        <4>2. QED BY <4>1, Appended
      <3>2. InReports(w)' = InReports(w)
        BY <1>1, <2>7 DEF InReports
      <3> HIDE DEF k
      <3>3. InReplies(w)' = {<<"replies", 0, k1>> : k1 \in {n \in 1 .. Len(replies') : w \in replies'[n]}}
        BY DEF InReplies
      <3>7. InReplies(w)' = InReplies(w) \cup (IF w \in words THEN {<<"replies", 0, k>>} ELSE {})
        BY <3>1, <3>3 DEF InReplies
      <3>8. <<"replies", 0, k>> \notin OnPipe(w) \cup InHands(w) \cup InReports(w) \cup InReplies(w)
        BY <3>1 DEF OnPipe, InHands, InReports, InReplies
      <3>9. to = <<"replies", 0, k>> /\ from # <<"replies", 0, k>>
        BY <2>7
      <3> HIDE DEF to, from
      <3>10. QED BY <2>1, <2>2, <2>3, <2>4, <2>5, <3>2, <3>7, <3>8, <3>9, WhereIs
    <2>8. QED BY <2>6, <2>7
  <1>5. PlacesInv'
    <2> HIDE DEF to, from, open
    <2>1. \A i, m : Given(i, m)' <=> Given(i, m)
      BY <1>1 DEF Given
    <2> SUFFICES ASSUME NEW i \in Jobs, NEW m \in Nat
                 PROVE  IF Given(i, m) THEN \E x : Where(<<i, m>>)' = {x} ELSE Where(<<i, m>>)' = {}
      BY <2>1 DEF PlacesInv
    <2>2. IF Given(i, m) THEN \E x : Where(<<i, m>>) = {x} ELSE Where(<<i, m>>) = {}
      BY DEF WordsInv, PlacesInv
    <2>3. /\ Where(<<i, m>>)' = IF <<i, m>> \in hands[j] THEN (Where(<<i, m>>) \ {from}) \cup {to}
                                ELSE Where(<<i, m>>)
          /\ <<i, m>> \in hands[j] <=> from \in Where(<<i, m>>)
      BY <1>4
    <2>4. QED BY <2>2, <2>3
  <1>6. WordType'
    <2>1. stream' \in [Jobs -> Seq(Kinds)] /\ \A i \in hear' : i.of \in Jobs /\ i.nth \in Nat
      BY <1>1 DEF WordsInv, WordType
    <2>2. hands' \in [Jobs -> SUBSET (Nat \X Nat)]
      BY <1>1, <1>2
    <2>3. (\A i \in Jobs : report'[i].words \in Writes) /\ replies' \in Writes
      <3>1. ASSUME NEW list \in Writes PROVE Append(list, words) \in Writes
        BY <1>2, Appended
      <3> HIDE DEF k, from, to
      <3>2. CASE open
        <4>1. \A i \in Jobs : report'[i].words \in Writes
          BY <1>2, <1>3, <3>1, <3>2
        <4>2. QED BY <1>1, <1>2, <3>2, <4>1
      <3>3. CASE ~open
        BY <1>1, <1>2, <3>1, <3>3
      <3>4. QED BY <3>2, <3>3
    <2>4. QED BY <2>1, <2>2, <2>3 DEF WordType
  <1>7. HandsInv'
    BY <1>1, <1>2 DEF WordsInv, HandsInv
  <1>8. QED BY <1>5, <1>6, <1>7 DEF WordsInv

\* A document opened or closed keeps its writes.
LEMMA SameWrites ==
  ASSUME IInv, NEW j \in Jobs, report' \in {Opened(j), Finished(j)}
  PROVE  \A i \in Jobs : report'[i].words = report[i].words
  <1>1. ASSUME NEW at, report' = [report EXCEPT ![j].at = at]
        PROVE  \A i \in Jobs : report'[i].words = report[i].words
    <2>1. report' = [report EXCEPT ![j] = [at |-> at, words |-> report[j].words]]
      BY <1>1, Reported
    <2>2. DOMAIN report = Jobs
      BY DEF IInv, TypeOK
    <2>3. QED BY <2>1, <2>2
  <1>2. CASE report' = report
    BY <1>2
  <1>3. QED BY <1>1, <1>2 DEF Opened, Finished

LEMMA WordsInit ==
  ASSUME Init
  PROVE  WordsInv
  <1>1. /\ stream = [j \in Jobs |-> <<>>] /\ hands = [j \in Jobs |-> {}] /\ hear = {} /\ replies = <<>>
        /\ report = [j \in Jobs |-> [at |-> "none", words |-> <<>>]]
    BY DEF Init, Stream!Init
  <1>2. <<>> \in Seq(Kinds) /\ <<>> \in Writes
    BY DEF Writes
  <1>3. WordType /\ HandsInv
    BY <1>1, <1>2 DEF WordType, HandsInv
  <1>4. ASSUME NEW j \in Jobs, NEW k \in Nat PROVE ~Given(j, k) /\ Where(<<j, k>>) = {}
    <2>1. ~Given(j, k)
      BY <1>1 DEF Given
    <2>2. OnPipe(<<j, k>>) = {} /\ InHands(<<j, k>>) = {} /\ InReplies(<<j, k>>) = {}
      BY <1>1 DEF OnPipe, InHands, InReplies
    <2>3. InReports(<<j, k>>) = {}
      BY <1>1 DEF InReports
    <2>4. QED BY <2>1, <2>2, <2>3, WhereIs
  <1>5. QED BY <1>3, <1>4 DEF WordsInv, PlacesInv

\* What the device writes for a job goes onto the pipe.
LEMMA Streams ==
  ASSUME WordsInv, NEW j \in Jobs, Stream!Write(j) \/ Stream!Close(j), Delivered(j),
         UNCHANGED <<hands, report, replies, pc>>
  PROVE  WordsInv'
  <1>1. PICK kind \in Kinds : stream' = [stream EXCEPT ![j] = Append(stream[j], kind)]
    BY DEF Stream!Write, Stream!Close, Kinds
  <1>2. QED BY <1>1, Arrives

\* Every step keeps the words where they belong.
LEMMA WordsStep ==
  ASSUME IInv, WordsInv, [Next]_vars
  PROVE  WordsInv'
  <1>1. ASSUME UNCHANGED <<hear, stream, hands, replies, report, pc>> PROVE WordsInv'
    <2>1. WordsStay BY <1>1 DEF WordsStay, WordsInv, HandsInv
    <2>2. QED BY <2>1, WordsUntouched
  <1>2. ASSUME NEW j \in Jobs, pc[j] # "heard" \/ hands[j] = {}, DOMAIN pc = Jobs,
               \A i \in Jobs : i # j => pc'[i] = pc[i],
               UNCHANGED <<hear, stream, hands, replies>>,
               \A i \in Jobs : report'[i].words = report[i].words
        PROVE  WordsInv'
    <2>1. WordsStay BY <1>2 DEF WordsStay, WordsInv, HandsInv
    <2>2. QED BY <2>1, WordsUntouched
  <1>3. DOMAIN pc = Jobs
    BY DEF IInv, TypeOK
  <1>4. CASE UNCHANGED vars
    BY <1>1, <1>4 DEF vars, device, job, pipes, strip
  <1>5. CASE WriteTopic \/ OtherTick
    BY <1>1, <1>5 DEF WriteTopic, OtherTick, device, job, pipes, strip
  <1>6. CASE Spawn
    <2>1. spawning \in Jobs /\ pc[spawning] = "unborn" /\ pc' = [pc EXCEPT ![spawning] = "born"]
          /\ UNCHANGED <<hear, stream, hands, replies, report>>
      BY <1>6, SpawnsAJob DEF IInv, SpawnInv, Spawn, device, pipes, strip
    <2>2. QED BY <1>2, <1>3, <2>1
  <1>7. ASSUME NEW j \in Jobs, DeepResearch(j) PROVE WordsInv'
    <2>1. CASE WriteTask(j) \/ Exit(j)
      <3>1. /\ pc[j] # "heard" /\ \A i \in Jobs : i # j => pc'[i] = pc[i]
            /\ UNCHANGED <<hear, stream, hands, replies>>
        BY <1>3, <2>1 DEF WriteTask, Exit, Command, device, pipes
      <3>2. report' \in {Opened(j), Finished(j)}
        BY <2>1 DEF WriteTask, Exit
      <3>3. QED BY <1>2, <1>3, <3>1, <3>2, SameWrites
    <2>2. CASE WriteFind(j) \/ ReadFound(j) \/ WriteReport(j) \/ ClearTask(j)
      <3>1. /\ pc[j] # "heard" /\ \A i \in Jobs : i # j => pc'[i] = pc[i]
            /\ UNCHANGED <<hear, stream, hands, replies, report>>
        BY <1>3, <2>2 DEF WriteFind, ReadFound, WriteReport, ClearTask, Command, device, pipes, strip
      <3>2. QED BY <1>2, <1>3, <3>1
    <2>3. CASE WriteAsk(j)
      <3>1. /\ pc[j] # "heard" /\ \A i \in Jobs : i # j => pc'[i] = pc[i]
            /\ UNCHANGED <<hear, stream, hands, replies, report>>
        BY <1>3, <2>3 DEF WriteAsk, Stream!Open, Command, pipes, strip
      <3>2. QED BY <1>2, <1>3, <3>1
    <2>4. CASE ReadHear(j)
      BY <2>4, TakenInHand
    <2>5. CASE WriteStdout(j)
      BY <2>5, PutOut
    <2>6. CASE Look(j)
      <3>1. /\ pc[j] # "heard" \/ hands[j] = {}
            /\ \A i \in Jobs : i # j => pc'[i] = pc[i]
            /\ UNCHANGED <<hear, stream, hands, replies, report>>
        BY <1>3, <2>6 DEF Look, device, pipes, strip
      <3>2. QED BY <1>2, <1>3, <3>1
    <2>7. QED BY <1>7, <2>1, <2>2, <2>3, <2>4, <2>5, <2>6 DEF DeepResearch
  <1>8. ASSUME NEW j \in Jobs, Worker(j) PROVE WordsInv'
    <2>1. UNCHANGED <<hands, report, replies, pc>>
      BY <1>8 DEF Worker, job, strip
    <2>2. CASE (Stream!Hold(j) \/ Stream!Finish(j)) /\ UNCHANGED hear
      BY <1>1, <2>1, <2>2 DEF Stream!Hold, Stream!Finish
    <2>3. CASE (Stream!Write(j) \/ Stream!Close(j)) /\ Delivered(j)
      BY <2>1, <2>3, Streams
    <2>4. QED BY <1>8, <2>2, <2>3 DEF Worker
  <1>9. CASE Interrupt
    BY <1>1, <1>9 DEF Interrupt, Stream!GiveUp, job, pipes, strip
  <1>10. ASSUME NEW j \in Jobs, Wake(j) PROVE WordsInv'
    BY <1>10, Streams DEF Wake, job, strip
  <1>11. ASSUME NEW j \in Jobs, RetireOne(j) PROVE WordsInv'
    <2>1. UNCHANGED <<hear, stream, hands, replies, pc>> /\ report' = Finished(j)
      BY <1>11 DEF RetireOne, device, job, pipes
    <2>2. WordsStay BY <2>1, SameWrites DEF WordsStay, WordsInv, HandsInv
    <2>3. QED BY <2>2, WordsUntouched
  <1>12. CASE Abandon \/ RetireBackground
    BY <1>1, <1>12 DEF Abandon, RetireBackground, device, job, pipes, strip
  <1>13. ASSUME NEW p \in Presses, NEW who \in {"owner", "guest"},
                EmailConversation(p, who) \/ EmailReport(p, who)
         PROVE  WordsInv'
    BY <1>1, <1>13 DEF EmailConversation, EmailReport, device, job, pipes, strip
  <1>14. ASSUME NEW p \in Presses, Request(p) \/ Service(p) \/ Transmit(p) PROVE WordsInv'
    BY <1>1, <1>14 DEF Request, Service, ReadStdin, WriteOutbox, Transmit, device, job, pipes, strip
  <1>15. QED BY <1>4, <1>5, <1>6, <1>7, <1>8, <1>9, <1>10, <1>11, <1>12, <1>13, <1>14
       DEF Next, Converse, Research, Interruption

LEMMA WordsInductive == Spec => [](IInv /\ WordsInv)
  BY InvInit, InvStep, WordsInit, WordsStep, PTL DEF Spec

\* Every word the model wrote for a research job is in exactly one place (deep_research in jobs.py,
\* _on_reply in web/server.py): on the shared pipe, in the hands of one job, or in one write of one
\* document or of the conversation -- whoever's job read it, and whatever was stopped meanwhile.
THEOREM FindingsAreKept == Spec => []NoFindingLost
  <1>1. IInv /\ WordsInv => NoFindingLost
    <2> SUFFICES ASSUME IInv, WordsInv PROVE NoFindingLost
      OBVIOUS
    <2>1. ASSUME NEW j \in Jobs, NEW w \in WordsOf(j) PROVE \E x \in Where(w) : Where(w) = {x}
      <3>1. PICK k \in 1 .. Len(stream[j]) : stream[j][k] = "piece" /\ w = <<j, k>>
        BY <2>1 DEF WordsOf
      <3>2. k \in Nat /\ Given(j, k)
        BY <3>1 DEF Given, WordsInv, WordType
      <3>3. \E x : Where(w) = {x}
        BY <3>1, <3>2 DEF WordsInv, PlacesInv
      <3>4. QED BY <3>3
    <2>2. replies # <<>> => retired # {}
      BY DEF IInv, DocumentInv
    <2>3. QED BY <2>1, <2>2 DEF NoFindingLost
  <1>2. QED BY <1>1, WordsInductive, PTL

-----------------------------------------------------------------------------
(***************************************************************************)
(* Undisturbed research.  While nobody pressed stop and no two jobs lived  *)
(* at once, what is on the pipe and in hand is of the one job that lives,  *)
(* and that job stops reading only at the end of its own answer, when      *)
(* nothing is left to arrive.                                              *)
(***************************************************************************)
Early == {"unborn", "born", "named", "searching", "asking"}
Late  == {"reporting", "clearing", "leaving", "gone"}

Active(j) == pc[j] \in {"hearing", "heard", "written"}

Alone == \A i, j \in Alive : i = j

StageInv ==
  /\ stage \in [Jobs -> {"unasked", "open", "finished", "closed"}]
  /\ \A j \in Jobs : /\ pc[j] \in Early => stage[j] = "unasked"
                     /\ Active(j) => stage[j] # "unasked"
                     /\ pc[j] \in Late => stage[j] = "closed"
  /\ \A j \in held : j \in Jobs /\ stage[j] = "open"

\* What waits is of a job that reads; an end waits only when nothing can follow it.
PipeInv ==
  \A i \in hear : Active(i.of) /\ (i.what # "piece" => stage[i.of] = "closed")

LastInv ==
  /\ last \in [Jobs -> BOOLEAN]
  /\ \A j \in Jobs : last[j] => pc[j] \in {"heard", "written"} /\ stage[j] = "closed" /\ hear = {}

\* What a job has in hand, and what its document holds, is its own.
OwnInv ==
  /\ \A j \in Jobs : \A w \in hands[j] : w[1] = j
  /\ \A j \in Jobs : \A k \in 1 .. Len(report[j].words) : \A w \in report[j].words[k] :
       w = DoorAnswer \/ w[1] = j

Quiet == told = {} /\ retired = {} /\ stop.at = "idle"

Undisturbed == shared = {} /\ stops = 0

Calm == Quiet /\ Alone /\ StageInv /\ PipeInv /\ LastInv /\ OwnInv

\* A job that named itself has a document, and one that is gone has it closed, whoever closed it.
ClosedInv ==
  \A j \in Jobs : /\ pc[j] \notin {"unborn", "born"} => report[j].at # "none"
                  /\ pc[j] = "gone" => report[j].at = "done"

CalmInv == ClosedInv /\ (Undisturbed => Calm)

\* All that the invariant of undisturbed research speaks of besides the documents.
calmly == <<stage, held, hear, hands, last, told, retired, stop>>

LEMMA PcType == IInv => pc \in [Jobs -> Places]
  BY DEF IInv, TypeOK

\* A job goes on among the commands before its request, or among those after its answer.
LEMMA CalmGoesOn ==
  ASSUME IInv, WordsInv, Calm, NEW j \in Jobs, NEW to, pc' = [pc EXCEPT ![j] = to],
         \/ pc[j] \in Early \ {"unborn"} /\ to \in Early \ {"unborn"}
         \/ pc[j] \in Late \ {"gone"} /\ to \in Late,
         UNCHANGED calmly, \A i \in Jobs : report'[i].words = report[i].words
  PROVE  Calm'
  <1>1. \A i \in Jobs : pc'[i] = IF i = j THEN to ELSE pc[i]
    BY PcType
  <1>2. ~Active(j) /\ ~Active(j)' /\ \A i \in Jobs : i # j => (Active(i)' <=> Active(i))
    BY <1>1 DEF Active, Early, Late
  <1>3. Quiet' BY DEF Calm, Quiet, calmly
  <1>4. Alone'
    <2>1. j \in Alive BY DEF Alive, Early, Late
    <2>2. Alive' \subseteq Alive BY <1>1, <2>1 DEF Alive
    <2>3. QED BY <2>2 DEF Calm, Alone
  <1>5. StageInv'
    BY <1>1, <1>2 DEF Calm, StageInv, calmly, Early, Late
  <1>6. PipeInv'
    BY <1>2 DEF Calm, PipeInv, calmly, WordsInv, WordType
  <1>7. LastInv'
    BY <1>1 DEF Calm, LastInv, calmly, Early, Late
  <1>8. OwnInv'
    BY DEF Calm, OwnInv, calmly
  <1>9. QED BY <1>3, <1>4, <1>5, <1>6, <1>7, <1>8 DEF Calm

\* The job that lives is the only one that reads, writes or is streamed to.
LEMMA OnlyOneLives ==
  ASSUME IInv, Calm, NEW j \in Jobs, pc[j] \notin {"unborn", "gone"}
  PROVE  /\ \A i \in Jobs : Active(i) => i = j
         /\ \A i \in Jobs : last[i] => i = j
         /\ \A i \in Jobs : stage[i] \in {"open", "finished"} => i = j
  <1>1. \A i \in Jobs : i \in Alive => i = j
    BY DEF Calm, Alone, Alive
  <1>2. \A i \in Jobs : Active(i) => i \in Alive
    BY DEF Active, Alive
  <1>3. \A i \in Jobs : last[i] => i \in Alive
    BY DEF Calm, LastInv, Alive
  <1>4. \A i \in Jobs : stage[i] \in {"open", "finished"} => Active(i)
    BY PcType DEF Calm, StageInv, Active, Early, Late, Places
  <1>5. QED BY <1>1, <1>2, <1>3, <1>4

\* The request is made.
LEMMA CalmAsk ==
  ASSUME IInv, WordsInv, Calm, NEW j \in Jobs, WriteAsk(j)
  PROVE  Calm'
  <1>1. /\ pc[j] = "asking" /\ pc' = [pc EXCEPT ![j] = "hearing"] /\ stage[j] = "unasked"
        /\ stage' = [stage EXCEPT ![j] = "open"]
        /\ UNCHANGED <<held, hear, hands, last, told, retired, stop, report>>
    BY DEF WriteAsk, Command, Stream!Open, pipes, strip, stopping
  <1>2. \A i \in Jobs : pc'[i] = IF i = j THEN "hearing" ELSE pc[i]
    BY <1>1, PcType
  <1>3. \A i \in Jobs : stage'[i] = IF i = j THEN "open" ELSE stage[i]
    BY <1>1 DEF Calm, StageInv
  <1>4. Quiet' BY <1>1 DEF Calm, Quiet
  <1>5. Alone'
    <2>1. Alive' = Alive BY <1>1, <1>2 DEF Alive
    <2>2. QED BY <2>1 DEF Calm, Alone
  <1>6. StageInv'
    BY <1>1, <1>2, <1>3 DEF Calm, StageInv, Active, Early, Late
  <1>7. PipeInv'
    <2>1. \A i \in hear : i.of \in Jobs /\ i.of # j
      BY <1>1 DEF Calm, PipeInv, Active, WordsInv, WordType
    <2>2. QED BY <1>1, <1>2, <1>3, <2>1 DEF Calm, PipeInv, Active
  <1>8. LastInv'
    BY <1>1, <1>2, <1>3 DEF Calm, LastInv
  <1>9. OwnInv'
    BY <1>1 DEF Calm, OwnInv
  <1>10. QED BY <1>4, <1>5, <1>6, <1>7, <1>8, <1>9 DEF Calm

\* What waits is read.
LEMMA CalmRead ==
  ASSUME IInv, WordsInv, Calm, NEW j \in Jobs, ReadHear(j)
  PROVE  Calm'
  <1>1. /\ pc[j] = "hearing" /\ pc' = [pc EXCEPT ![j] = "heard"] /\ hear' = {}
        /\ hands' = [hands EXCEPT ![j] = WordsIn(hear)]
        /\ last' = [last EXCEPT ![j] = \E i \in hear : ~IsPiece(i)]
        /\ UNCHANGED <<stage, held, told, retired, stop, report>>
    BY DEF ReadHear, Command, device, strip, stopping, StreamPiece
  <1>2. \A i \in Jobs : pc'[i] = IF i = j THEN "heard" ELSE pc[i]
    BY <1>1, PcType
  <1>3. \A i \in hear : i.of = j
    BY <1>1, OnlyOneLives DEF Calm, PipeInv, WordsInv, WordType
  <1>4. Quiet' BY <1>1 DEF Calm, Quiet
  <1>5. Alone'
    <2>1. Alive' = Alive BY <1>1, <1>2 DEF Alive
    <2>2. QED BY <2>1 DEF Calm, Alone
  <1>6. StageInv'
    BY <1>1, <1>2 DEF Calm, StageInv, Active, Early, Late
  <1>7. PipeInv'
    BY <1>1 DEF PipeInv
  <1>8. LastInv'
    <2>1. (\E i \in hear : ~IsPiece(i)) => stage[j] = "closed"
      BY <1>3 DEF Calm, PipeInv, IsPiece
    <2>2. \A i \in Jobs : i # j => ~last[i]
      BY <1>1, OnlyOneLives
    <2>3. last \in [Jobs -> BOOLEAN] BY DEF Calm, LastInv
    <2>4. (\E i \in hear : ~IsPiece(i)) \in BOOLEAN OBVIOUS
    <2> DEFINE over == \E i \in hear : ~IsPiece(i)
    <2>5. last' = [last EXCEPT ![j] = over] BY <1>1
    <2> HIDE DEF over
    <2>6. over \in BOOLEAN BY <2>4 DEF over
    <2>7. last' \in [Jobs -> BOOLEAN] /\ \A i \in Jobs : last'[i] = IF i = j THEN over ELSE last[i]
      BY <2>3, <2>5, <2>6
    <2>8. over => stage[j] = "closed" BY <2>1 DEF over
    <2>9. ASSUME NEW i \in Jobs, last'[i]
          PROVE  pc'[i] \in {"heard", "written"} /\ stage'[i] = "closed" /\ hear' = {}
      <3>1. i = j /\ over BY <2>2, <2>7, <2>9
      <3>2. QED BY <1>1, <1>2, <2>8, <3>1
    <2>10. QED BY <2>7, <2>9 DEF LastInv
  <1>9. OwnInv'
    <2>1. \A w \in WordsIn(hear) : w[1] = j
      BY <1>3 DEF WordsIn, Word
    <2>2. \A i \in Jobs : hands'[i] = IF i = j THEN WordsIn(hear) ELSE hands[i]
      BY <1>1 DEF WordsInv, WordType
    <2>3. QED BY <1>1, <2>1, <2>2 DEF Calm, OwnInv
  <1>10. QED BY <1>4, <1>5, <1>6, <1>7, <1>8, <1>9 DEF Calm

\* What was read is written into the document of the job that read it.
LEMMA CalmWrite ==
  ASSUME IInv, WordsInv, Calm, NEW j \in Jobs, WriteStdout(j)
  PROVE  Calm'
  <1> DEFINE words == hands[j] \cup IF echo > 0 THEN {DoorAnswer} ELSE {}
             new == Append(report[j].words, words)
  <1>1. /\ pc[j] = "heard" /\ pc' = [pc EXCEPT ![j] = "written"]
        /\ hands' = [hands EXCEPT ![j] = {}] /\ OnReply(j, words)
        /\ UNCHANGED <<stage, held, hear, last, told, retired, stop>>
    BY DEF WriteStdout, Command, device, pipes, stopping
  <1>2. \A i \in Jobs : pc'[i] = IF i = j THEN "written" ELSE pc[i]
    BY <1>1, PcType
  <1>3. /\ report'[j].words = new
        /\ \A i \in Jobs : i # j => report'[i] = report[i]
    <2>1. report[j].at = "open"
      BY <1>1 DEF Calm, Quiet, IInv, DocumentInv
    <2>2. report' = [report EXCEPT ![j] = [report[j] EXCEPT !.words = new]]
      BY <1>1, <2>1 DEF OnReply
    <2>3. DOMAIN report = Jobs /\ IsReport(report[j])
      BY DEF IInv, TypeOK
    <2> HIDE DEF words, new
    <2>4. [report[j] EXCEPT !.words = new] = [at |-> report[j].at, words |-> new]
      BY <2>3, Rewritten
    <2>5. QED BY <2>2, <2>3, <2>4
  <1>4. Quiet' BY <1>1 DEF Calm, Quiet
  <1>5. Alone'
    <2>1. Alive' = Alive BY <1>1, <1>2 DEF Alive
    <2>2. QED BY <2>1 DEF Calm, Alone
  <1>6. StageInv'
    BY <1>1, <1>2 DEF Calm, StageInv, Active, Early, Late
  <1>7. PipeInv'
    BY <1>1, <1>2 DEF Calm, PipeInv, Active, WordsInv, WordType
  <1>8. LastInv'
    BY <1>1, <1>2 DEF Calm, LastInv
  <1>9. OwnInv'
    <2>1. \A i \in Jobs : hands'[i] = IF i = j THEN {} ELSE hands[i]
      BY <1>1 DEF WordsInv, WordType
    <2>2. \A w \in words : w = DoorAnswer \/ w[1] = j
      BY DEF Calm, OwnInv
    <2>3. words \in SUBSET (Nat \X Nat)
      BY DEF WordsInv, WordType, DoorAnswer
    <2> DEFINE S == SUBSET (Nat \X Nat)
    <2>4. report[j].words \in Seq(S)
      BY DEF WordsInv, WordType, Writes
    <2> HIDE DEF S, words
    <2>5. \A k \in 1 .. Len(new) : new[k] = words \/ (k \in 1 .. Len(report[j].words) /\ new[k] = report[j].words[k])
      <3>1. words \in S BY <2>3 DEF S
      <3>2. QED BY <2>4, <3>1
    <2> HIDE DEF new
    <2>6. \A k \in 1 .. Len(report'[j].words) : \A w \in report'[j].words[k] : w = DoorAnswer \/ w[1] = j
      BY <1>3, <2>2, <2>5 DEF Calm, OwnInv
    <2>7. \A i \in Jobs : \A k \in 1 .. Len(report'[i].words) : \A w \in report'[i].words[k] :
            w = DoorAnswer \/ w[1] = i
      BY <1>3, <2>6 DEF Calm, OwnInv
    <2>8. QED BY <2>1, <2>7 DEF Calm, OwnInv
  <1>10. QED BY <1>4, <1>5, <1>6, <1>7, <1>8, <1>9 DEF Calm

\* It reads on, or has read the end.
LEMMA CalmLook ==
  ASSUME IInv, WordsInv, Calm, NEW j \in Jobs, Look(j)
  PROVE  Calm'
  <1> DEFINE to == IF ~last[j] /\ j \notin told THEN "hearing"
                   ELSE IF notes[j] THEN "reporting" ELSE "clearing"
  <1>1. /\ pc[j] \in {"heard", "written"} /\ pc' = [pc EXCEPT ![j] = to]
        /\ told' = told \ (IF last[j] \/ j \in told THEN {j} ELSE {})
        /\ last' = [last EXCEPT ![j] = FALSE]
        /\ UNCHANGED <<stage, held, hear, hands, retired, stop, report>>
    BY DEF Look, device, pipes, strip, stopping
  <1>2. /\ to \in {"hearing", "reporting", "clearing"}
        /\ to # "hearing" => stage[j] = "closed" /\ hear = {}
    BY DEF Calm, Quiet, LastInv
  <1> HIDE DEF to
  <1>3. \A i \in Jobs : pc'[i] = IF i = j THEN to ELSE pc[i]
    BY <1>1, PcType
  <1>4. Quiet' BY <1>1 DEF Calm, Quiet
  <1>5. Alone'
    <2>1. Alive' = Alive BY <1>1, <1>2, <1>3 DEF Alive
    <2>2. QED BY <2>1 DEF Calm, Alone
  <1>6. StageInv'
    <2>1. stage[j] # "unasked" BY <1>1 DEF Calm, StageInv, Active
    <2>2. QED BY <1>1, <1>2, <1>3, <2>1 DEF Calm, StageInv, Active, Early, Late
  <1>7. PipeInv'
    <2>1. CASE to = "hearing"
      BY <1>1, <1>3, <2>1 DEF Calm, PipeInv, Active, WordsInv, WordType
    <2>2. CASE to # "hearing"
      BY <1>1, <1>2, <2>2 DEF PipeInv
    <2>3. QED BY <2>1, <2>2
  <1>8. LastInv'
    <2>1. last' \in [Jobs -> BOOLEAN] /\ \A i \in Jobs : last'[i] => i # j /\ last[i]
      BY <1>1 DEF Calm, LastInv
    <2>2. QED BY <1>1, <1>3, <2>1 DEF Calm, LastInv
  <1>9. OwnInv'
    BY <1>1 DEF Calm, OwnInv
  <1>10. QED BY <1>4, <1>5, <1>6, <1>7, <1>8, <1>9 DEF Calm

\* The device goes on with the answer.
LEMMA CalmWorker ==
  ASSUME IInv, WordsInv, Calm, NEW j \in Jobs, Worker(j)
  PROVE  Calm'
  <1>1. UNCHANGED <<pc, hands, last, told, retired, stop, report>>
    BY DEF Worker, job, strip, stopping
  <1>2. \/ Stream!Hold(j) /\ UNCHANGED hear
        \/ Stream!Finish(j) /\ UNCHANGED hear
        \/ Stream!Write(j) /\ hear' = hear \cup {Arrival(j)}
        \/ stage[j] = "finished" /\ Stream!Close(j) /\ hear' = hear \cup {Arrival(j)}
    BY DEF Worker, Delivered
  <1>3. stage[j] \in {"open", "finished"}
    BY <1>2 DEF Stream!Hold, Stream!Finish, Stream!Write, Calm, StageInv
  <1>4. Active(j)
    BY <1>3, PcType DEF Calm, StageInv, Active, Early, Late, Places
  <1>5. \A i \in Jobs : ~last[i]
    <2>1. \A i \in Jobs : last[i] => i = j
      BY <1>4, OnlyOneLives DEF Active
    <2>2. QED BY <1>3, <2>1 DEF Calm, LastInv
  <1>6. Quiet' /\ Alone' /\ LastInv' /\ OwnInv'
    BY <1>1, <1>5 DEF Calm, Quiet, Alone, Alive, LastInv, OwnInv
  <1>7. StageInv' /\ PipeInv'
    <2>1. Stream!Kinds = {"piece", "END", "ABANDONED"} /\ Arrival(j).of = j
      BY DEF Stream!Kinds, Arrival
    <2>2. CASE Stream!Hold(j) /\ UNCHANGED hear
      <3>1. stage[j] = "open" /\ held' = held \cup {j} /\ UNCHANGED <<stage, hear>>
        BY <2>2 DEF Stream!Hold
      <3>2. QED BY <1>1, <3>1 DEF Calm, StageInv, PipeInv, Active
    <2>3. CASE Stream!Finish(j) /\ UNCHANGED hear
      <3>1. /\ stage[j] = "open" /\ j \notin held /\ stage' = [stage EXCEPT ![j] = "finished"]
            /\ UNCHANGED <<held, hear>>
        BY <2>3 DEF Stream!Finish
      <3>2. \A i \in Jobs : stage'[i] = IF i = j THEN "finished" ELSE stage[i]
        BY <3>1 DEF Calm, StageInv
      <3>3. StageInv'
        BY <1>1, <1>4, <3>1, <3>2 DEF Calm, StageInv, Active, Early, Late
      <3>4. PipeInv'
        BY <1>1, <3>1, <3>2 DEF Calm, PipeInv, Active, WordsInv, WordType
      <3>5. QED BY <3>3, <3>4
    <2>4. CASE Stream!Write(j) /\ hear' = hear \cup {Arrival(j)}
      <3>1. held' = held \ {j} /\ UNCHANGED stage /\ stream' = [stream EXCEPT ![j] = Append(stream[j], "piece")]
        BY <2>4 DEF Stream!Write
      <3>2. Arrival(j).what = "piece"
        <4>1. stream[j] \in Seq(Kinds) /\ stream'[j] = Append(stream[j], "piece") /\ "piece" \in Kinds
          BY <3>1 DEF WordsInv, WordType, Kinds
        <4>2. stream'[j][Len(stream[j]) + 1] = "piece"
          BY <4>1
        <4>3. QED BY <4>2 DEF Arrival
      <3>3. StageInv'
        BY <1>1, <3>1 DEF Calm, StageInv, Active
      <3>4. PipeInv'
        BY <1>1, <1>4, <2>1, <2>4, <3>1, <3>2 DEF Calm, PipeInv, Active
      <3>5. QED BY <3>3, <3>4
    <2>5. CASE stage[j] = "finished" /\ Stream!Close(j) /\ hear' = hear \cup {Arrival(j)}
      <3>1. stage' = [stage EXCEPT ![j] = "closed"] /\ UNCHANGED held
        BY <2>5 DEF Stream!Close
      <3>2. \A i \in Jobs : stage'[i] = IF i = j THEN "closed" ELSE stage[i]
        BY <3>1 DEF Calm, StageInv
      <3>3. StageInv'
        BY <1>1, <1>4, <2>5, <3>1, <3>2 DEF Calm, StageInv, Active, Early, Late
      <3>4. PipeInv'
        BY <1>1, <1>4, <2>1, <2>5, <3>1, <3>2 DEF Calm, PipeInv, Active, WordsInv, WordType
      <3>5. QED BY <3>3, <3>4
    <2>6. QED BY <1>2, <2>2, <2>3, <2>4, <2>5
  <1>8. QED BY <1>6, <1>7 DEF Calm

\* A job is spawned when no other lives.
LEMMA CalmSpawn ==
  ASSUME IInv, WordsInv, Calm, Spawn, shared' = {}
  PROVE  Calm'
  <1>1. /\ spawning \in Jobs /\ pc[spawning] = "unborn" /\ pc' = [pc EXCEPT ![spawning] = "born"]
        /\ UNCHANGED <<stage, held, hear, hands, last, told, retired, stop, report>>
    BY SpawnsAJob DEF IInv, SpawnInv, Spawn, device, pipes, strip, stopping
  <1>2. Alive = {}
    BY <1>1 DEF Spawn
  <1>3. \A i \in Jobs : pc'[i] = IF i = spawning THEN "born" ELSE pc[i]
    BY <1>1, PcType
  <1>4. Alone'
    BY <1>2, <1>3 DEF Alone, Alive
  <1>5. Quiet' BY <1>1 DEF Calm, Quiet
  <1>6. StageInv'
    BY <1>1, <1>3 DEF Calm, StageInv, Active, Early, Late
  <1>7. PipeInv'
    BY <1>1, <1>3 DEF Calm, PipeInv, Active, WordsInv, WordType
  <1>8. LastInv' /\ OwnInv'
    BY <1>1, <1>3 DEF Calm, LastInv, OwnInv
  <1>9. QED BY <1>4, <1>5, <1>6, <1>7, <1>8 DEF Calm

\* Steps that leave the jobs and the device alone.
LEMMA CalmUntouched ==
  ASSUME Calm, UNCHANGED <<calmly, pc>>, \A i \in Jobs : report'[i].words = report[i].words
  PROVE  Calm'
  BY DEF Calm, Quiet, Alone, Alive, StageInv, PipeInv, LastInv, OwnInv, Active, calmly

\* What closing a document, opening it and writing into it do to how far it is.
LEMMA FinishedAt ==
  ASSUME IInv, NEW j \in Jobs
  PROVE  Finished(j)[j].at = IF report[j].at = "open" THEN "done" ELSE report[j].at
  <1>1. CASE report[j].at # "open"
    BY <1>1 DEF Finished
  <1>2. CASE report[j].at = "open"
    <2>1. Finished(j) = [report EXCEPT ![j] = [at |-> "done", words |-> report[j].words]]
      <3>1. Finished(j) = [report EXCEPT ![j].at = "done"]
        BY <1>2 DEF Finished
      <3>2. QED BY <3>1, Reported
    <2>2. QED BY <1>2, <2>1 DEF IInv, TypeOK
  <1>3. QED BY <1>1, <1>2

LEMMA OpenedAt ==
  ASSUME IInv, NEW j \in Jobs
  PROVE  /\ \A i \in Jobs : i # j => Opened(j)[i] = report[i]
         /\ Opened(j)[j].at # "none"
  <1>1. CASE report[j].at # "none"
    BY <1>1 DEF Opened
  <1>2. CASE report[j].at = "none"
    <2>1. Opened(j) = [report EXCEPT ![j] = [at |-> "open", words |-> report[j].words]]
      <3>1. Opened(j) = [report EXCEPT ![j].at = "open"]
        BY <1>2 DEF Opened
      <3>2. QED BY <3>1, Reported
    <2>2. QED BY <1>2, <2>1 DEF IInv, TypeOK
  <1>3. QED BY <1>1, <1>2

LEMMA StdoutAt ==
  ASSUME IInv, NEW j \in Jobs, WriteStdout(j)
  PROVE  \A i \in Jobs : report'[i].at = report[i].at
  <1>1. CASE report[j].at # "open"
    BY <1>1 DEF WriteStdout, OnReply
  <1>2. CASE report[j].at = "open"
    <2>1. PICK w : report' = [report EXCEPT ![j] = [report[j] EXCEPT !.words = w]]
      BY <1>2 DEF WriteStdout, OnReply
    <2>2. IsReport(report[j]) /\ DOMAIN report = Jobs
      BY DEF IInv, TypeOK
    <2>3. report' = [report EXCEPT ![j] = [at |-> report[j].at, words |-> w]]
      BY <2>1, <2>2, Rewritten
    <2>4. QED BY <2>2, <2>3
  <1>3. QED BY <1>1, <1>2

\* A document closed is never opened again.
LEMMA ClosedStep ==
  ASSUME IInv, ClosedInv, [Next]_vars
  PROVE  ClosedInv'
  <1>1. ASSUME \A i \in Jobs : report'[i].at = report[i].at,
               \A i \in Jobs : \/ pc'[i] = pc[i] \/ pc'[i] \in {"unborn", "born"}
                               \/ pc[i] \notin {"unborn", "born"} /\ pc'[i] # "gone"
        PROVE  ClosedInv'
    BY <1>1 DEF ClosedInv
  <1>2. pc \in [Jobs -> Places] /\ DOMAIN report = Jobs
    BY PcType DEF IInv, TypeOK
  <1>3. CASE UNCHANGED vars \/ WriteTopic \/ OtherTick
    BY <1>1, <1>3 DEF vars, WriteTopic, OtherTick, job, strip
  <1>4. CASE Spawn
    BY <1>1, <1>2, <1>4 DEF Spawn, strip
  <1>5. ASSUME NEW j \in Jobs, DeepResearch(j) PROVE ClosedInv'
    <2>1. CASE WriteTask(j)
      <3>1. pc[j] = "born" /\ pc' = [pc EXCEPT ![j] = "named"] /\ report' = Opened(j)
        BY <2>1 DEF WriteTask, Command
      <3>2. report'[j].at # "none" /\ \A i \in Jobs : i # j => report'[i] = report[i]
        BY <3>1, OpenedAt
      <3>3. QED BY <1>2, <3>1, <3>2 DEF ClosedInv
    <2>2. CASE Exit(j)
      <3>1. pc[j] = "leaving" /\ pc' = [pc EXCEPT ![j] = "gone"] /\ report' = Finished(j)
        BY <2>2 DEF Exit, Command
      <3>2. \A i \in Jobs : i # j => report'[i] = report[i]
        BY <3>1, FinishedReport
      <3>3. report'[j].at = "done"
        <4>1. report[j].at \in {"open", "done"}
          <5>1. report[j].at # "none" /\ IsReport(report[j])
            BY <3>1 DEF ClosedInv, IInv, TypeOK
          <5>2. QED BY <5>1 DEF IsReport
        <4>2. QED BY <3>1, <4>1, FinishedAt
      <3>4. QED BY <1>2, <3>1, <3>2, <3>3 DEF ClosedInv
    <2>3. CASE WriteStdout(j)
      <3>1. pc[j] = "heard" /\ pc' = [pc EXCEPT ![j] = "written"]
        BY <2>3 DEF WriteStdout, Command
      <3>2. \A i \in Jobs : report'[i].at = report[i].at
        BY <2>3, StdoutAt
      <3>3. QED BY <1>1, <1>2, <3>1, <3>2
    <2>4. CASE WriteFind(j) \/ ReadFound(j) \/ WriteAsk(j) \/ ReadHear(j) \/ WriteReport(j)
      BY <1>1, <1>2, <2>4 DEF WriteFind, ReadFound, WriteAsk, ReadHear, WriteReport, Command, strip
    <2>5. CASE ClearTask(j) \/ Look(j)
      BY <1>1, <1>2, <2>5 DEF ClearTask, Look, Command, strip
    <2>6. QED BY <1>5, <2>1, <2>2, <2>3, <2>4, <2>5 DEF DeepResearch
  <1>6. ASSUME NEW j \in Jobs, RetireOne(j) PROVE ClosedInv'
    <2>1. UNCHANGED pc /\ report' = Finished(j)
      BY <1>6 DEF RetireOne, job
    <2>2. \A i \in Jobs : /\ report[i].at = "done" => report'[i].at = "done"
                          /\ report[i].at # "none" => report'[i].at # "none"
      BY <2>1, FinishedReport, FinishedAt
    <2>3. QED BY <2>1, <2>2 DEF ClosedInv
  <1>7. ASSUME UNCHANGED <<job, strip>> PROVE ClosedInv'
    BY <1>1, <1>7 DEF job, strip
  <1>8. CASE Interrupt \/ RetireBackground \/ \E j \in Jobs : Wake(j) \/ Worker(j)
    BY <1>7, <1>8 DEF Interrupt, RetireBackground, Wake, Worker
  <1>9. CASE Abandon
    BY <1>1, <1>9 DEF Abandon, strip
  <1>10. CASE \/ \E p \in Presses, who \in {"owner", "guest"} : EmailConversation(p, who) \/ EmailReport(p, who)
              \/ \E p \in Presses : Request(p) \/ Service(p) \/ Transmit(p)
    BY <1>7, <1>10 DEF EmailConversation, EmailReport, Request, Service, ReadStdin, WriteOutbox, Transmit
  <1>11. QED BY <1>3, <1>4, <1>5, <1>6, <1>8, <1>9, <1>10 DEF Next, Converse, Research, Interruption

\* What was disturbed stays so.
LEMMA Disturbance ==
  ASSUME IInv, stops \in Nat, [Next]_vars, Undisturbed'
  PROVE  Undisturbed /\ ~Interrupt
  <1>1. CASE Interrupt
    BY <1>1 DEF Interrupt, Undisturbed
  <1>2. CASE Spawn
    <2>1. stops' = stops /\ shared \subseteq shared'
      BY <1>2 DEF Spawn, stopping
    <2>2. ~Interrupt
      BY <1>2 DEF Spawn, Interrupt, stopping
    <2>3. QED BY <2>1, <2>2 DEF Undisturbed
  <1>3. CASE UNCHANGED vars \/ WriteTopic \/ OtherTick \/ (\E j \in Jobs : DeepResearch(j) \/ Worker(j))
             \/ Interruption
             \/ (\E p \in Presses, who \in {"owner", "guest"} : EmailConversation(p, who) \/ EmailReport(p, who))
             \/ (\E p \in Presses : Request(p) \/ Service(p) \/ Transmit(p))
    <2>1. UNCHANGED <<stops, shared>>
      <3>1. CASE UNCHANGED vars \/ WriteTopic \/ OtherTick
        BY <3>1 DEF vars, WriteTopic, OtherTick, stopping, frame
      <3>2. CASE \E j \in Jobs : DeepResearch(j)
        BY <3>2 DEF DeepResearch, WriteTask, WriteFind, ReadFound, WriteAsk, ReadHear, WriteStdout, Look,
                    WriteReport, ClearTask, Exit, stopping, frame
      <3>3. CASE (\E j \in Jobs : Worker(j)) \/ Interruption
        BY <3>3 DEF Worker, Interruption, Wake, RetireOne, Abandon, RetireBackground, stopping, frame
      <3>4. CASE \/ \E p \in Presses, who \in {"owner", "guest"} : EmailConversation(p, who) \/ EmailReport(p, who)
                 \/ \E p \in Presses : Request(p) \/ Service(p) \/ Transmit(p)
        BY <3>4 DEF EmailConversation, EmailReport, Request, Service, ReadStdin, WriteOutbox, Transmit, stopping, frame
      <3>5. QED BY <1>3, <3>1, <3>2, <3>3, <3>4
    <2>2. ~Interrupt
      BY <2>1 DEF Interrupt
    <2>3. QED BY <2>1, <2>2 DEF Undisturbed
  <1>4. QED BY <1>1, <1>2, <1>3 DEF Next, Converse, Research

\* Every step keeps undisturbed research exact.
LEMMA CalmStep ==
  ASSUME IInv, IInv', WordsInv, Calm, stops \in Nat, [Next]_vars, Undisturbed'
  PROVE  Calm'
  <1>1. ASSUME UNCHANGED <<calmly, pc, report>> PROVE Calm'
    BY <1>1, CalmUntouched
  <1>2. CASE UNCHANGED vars \/ WriteTopic \/ OtherTick
    BY <1>1, <1>2 DEF vars, WriteTopic, OtherTick, calmly, device, job, pipes, strip, stopping
  <1>3. CASE Spawn
    BY <1>3, CalmSpawn DEF Undisturbed
  <1>4. ASSUME NEW j \in Jobs, DeepResearch(j) PROVE Calm'
    <2>1. CASE WriteTask(j)
      <3>1. /\ pc[j] = "born" /\ pc' = [pc EXCEPT ![j] = "named"] /\ UNCHANGED calmly /\ report' = Opened(j)
        BY <2>1 DEF WriteTask, Command, calmly, device, pipes, stopping
      <3>2. QED BY <3>1, CalmGoesOn, SameWrites DEF Early
    <2>2. CASE Exit(j)
      <3>1. /\ pc[j] = "leaving" /\ pc' = [pc EXCEPT ![j] = "gone"] /\ UNCHANGED calmly /\ report' = Finished(j)
        BY <2>2 DEF Exit, Command, calmly, device, pipes, stopping
      <3>2. QED BY <3>1, CalmGoesOn, SameWrites DEF Late
    <2>3. CASE WriteFind(j) \/ ReadFound(j)
      <3>1. PICK to \in {"searching", "asking"} :
              /\ pc[j] \in {"named", "searching"} /\ pc' = [pc EXCEPT ![j] = to] /\ UNCHANGED <<calmly, report>>
        BY <2>3 DEF WriteFind, ReadFound, Command, calmly, device, strip, stopping
      <3>2. QED BY <3>1, CalmGoesOn DEF Early
    <2>4. CASE WriteReport(j) \/ ClearTask(j)
      <3>1. PICK to \in {"clearing", "leaving"} :
              /\ pc[j] \in {"reporting", "clearing"} /\ pc' = [pc EXCEPT ![j] = to] /\ UNCHANGED <<calmly, report>>
        BY <2>4 DEF WriteReport, ClearTask, Command, calmly, device, pipes, strip, stopping
      <3>2. QED BY <3>1, CalmGoesOn DEF Late
    <2>5. QED BY <1>4, <2>1, <2>2, <2>3, <2>4, CalmAsk, CalmRead, CalmWrite, CalmLook DEF DeepResearch
  <1>5. ASSUME NEW j \in Jobs, Worker(j) PROVE Calm'
    BY <1>5, CalmWorker
  <1>6. ~Interrupt
    BY Disturbance
  <1>7. ~Interruption
    BY DEF Interruption, Wake, RetireOne, Abandon, RetireBackground, Calm, Quiet
  <1>8. ASSUME NEW p \in Presses, NEW who \in {"owner", "guest"},
               EmailConversation(p, who) \/ EmailReport(p, who)
        PROVE  Calm'
    BY <1>1, <1>8 DEF EmailConversation, EmailReport, calmly, device, job, pipes, strip, stopping
  <1>9. ASSUME NEW p \in Presses, Request(p) \/ Service(p) \/ Transmit(p) PROVE Calm'
    BY <1>1, <1>9 DEF Request, Service, ReadStdin, WriteOutbox, Transmit, calmly, device, job, pipes, strip, stopping
  <1>10. QED BY <1>2, <1>3, <1>4, <1>5, <1>6, <1>7, <1>8, <1>9 DEF Next, Converse, Research

LEMMA StopsStep ==
  ASSUME stops \in Nat, [Next]_vars
  PROVE  stops' \in Nat
  <1>1. CASE Interrupt
    BY <1>1 DEF Interrupt
  <1>2. CASE UNCHANGED vars \/ WriteTopic \/ Spawn \/ OtherTick
    BY <1>2 DEF vars, WriteTopic, Spawn, OtherTick, stopping
  <1>3. CASE \E j \in Jobs : DeepResearch(j)
    BY <1>3 DEF DeepResearch, WriteTask, WriteFind, ReadFound, WriteAsk, ReadHear, WriteStdout, Look,
                WriteReport, ClearTask, Exit, stopping
  <1>4. CASE (\E j \in Jobs : Worker(j)) \/ Interruption
    BY <1>4 DEF Worker, Interruption, Wake, RetireOne, Abandon, RetireBackground, stopping
  <1>5. CASE \/ \E p \in Presses, who \in {"owner", "guest"} : EmailConversation(p, who) \/ EmailReport(p, who)
             \/ \E p \in Presses : Request(p) \/ Service(p) \/ Transmit(p)
    BY <1>5 DEF EmailConversation, EmailReport, Request, Service, ReadStdin, WriteOutbox, Transmit, stopping
  <1>6. QED BY <1>1, <1>2, <1>3, <1>4, <1>5 DEF Next, Converse, Research

\* It holds at the start.
LEMMA CalmInit ==
  ASSUME Init
  PROVE  CalmInv /\ stops \in Nat
  <1>1. /\ stage = [j \in Jobs |-> "unasked"] /\ held = {} /\ stream = [j \in Jobs |-> <<>>]
        /\ pc = [j \in Jobs |-> "unborn"] /\ last = [j \in Jobs |-> FALSE]
    BY DEF Init, Stream!Init
  <1>2. ClosedInv /\ Quiet /\ Alone /\ stops \in Nat
    BY DEF Init, ClosedInv, Quiet, Alone, Alive
  <1>3. StageInv /\ LastInv
    BY <1>1 DEF StageInv, LastInv, Active, Early, Late
  <1>4. PipeInv /\ OwnInv
    BY DEF Init, PipeInv, OwnInv
  <1>5. QED BY <1>2, <1>3, <1>4 DEF CalmInv, Calm

ResearchInv == IInv /\ WordsInv /\ CalmInv /\ stops \in Nat

LEMMA ResearchInductive == Spec => []ResearchInv
  <1>1. Init => ResearchInv
    BY InvInit, WordsInit, CalmInit DEF ResearchInv
  <1>2. ResearchInv /\ [Next]_vars => ResearchInv'
    <2> SUFFICES ASSUME ResearchInv, [Next]_vars PROVE ResearchInv'
      OBVIOUS
    <2>1. IInv /\ WordsInv /\ CalmInv /\ stops \in Nat BY DEF ResearchInv
    <2>2. IInv' BY <2>1, InvStep
    <2>3. WordsInv' BY <2>1, WordsStep
    <2>4. ClosedInv' BY <2>1, ClosedStep DEF CalmInv
    <2>5. stops' \in Nat BY <2>1, StopsStep
    <2>6. ASSUME Undisturbed' PROVE Calm'
      <3>1. Calm BY <2>1, <2>6, Disturbance DEF CalmInv
      <3>2. QED BY <2>1, <2>2, <2>6, <3>1, CalmStep
    <2>7. CalmInv' BY <2>4, <2>6 DEF CalmInv
    <2>8. QED BY <2>2, <2>3, <2>5, <2>7 DEF ResearchInv
  <1>3. QED BY <1>1, <1>2, PTL DEF Spec

\* Research nobody disturbs is exact (deep_research in jobs.py, Report in web/server.py): when no two
\* jobs lived at once and nobody pressed stop, a job that ended offers its document if its answer said
\* anything, and the document holds every word of that answer and no word of another's.
THEOREM DocumentsAreWhole == Spec => []WholeDocuments
  <1>1. ResearchInv => WholeDocuments
    <2> SUFFICES ASSUME ResearchInv, Undisturbed, NEW j \in Jobs, pc[j] = "gone"
                 PROVE  /\ WordsOf(j) # {} => Offered(j)
                        /\ InReport(j) \ {DoorAnswer} = WordsOf(j)
      BY DEF WholeDocuments, Undisturbed
    <2>1. IInv /\ WordsInv /\ Calm /\ report[j].at = "done"
      BY DEF ResearchInv, CalmInv, ClosedInv
    <2>2. ASSUME NEW w \in WordsOf(j) PROVE w \in InReport(j) \ {DoorAnswer}
      <3>1. PICK k \in 1 .. Len(stream[j]) : stream[j][k] = "piece" /\ w = <<j, k>>
        BY <2>2 DEF WordsOf
      <3>2. k \in Nat /\ Given(j, k)
        BY <3>1 DEF Given
      <3>3. Where(w) # {}
        BY <2>1, <3>1, <3>2 DEF WordsInv, PlacesInv
      <3>4. OnPipe(w) = {}
        <4>1. ASSUME NEW i \in hear, Word(i) = w PROVE FALSE
          <5>1. i.of = j BY <3>1, <4>1 DEF Word
          <5>2. QED BY <2>1, <5>1 DEF Calm, PipeInv, Active
        <4>2. QED BY <4>1 DEF OnPipe
      <3>5. InHands(w) = {}
        <4>1. ASSUME NEW i \in Jobs, w \in hands[i] PROVE FALSE
          <5>1. w[1] = j BY <3>1
          <5>2. i = j BY <2>1, <4>1, <5>1 DEF Calm, OwnInv
          <5>3. pc[i] = "heard" BY <2>1, <4>1 DEF WordsInv, HandsInv
          <5>4. QED BY <5>2, <5>3
        <4>2. QED BY <4>1 DEF InHands
      <3>6. InReplies(w) = {}
        BY <2>1 DEF IInv, DocumentInv, Calm, Quiet, InReplies
      <3>7. PICK i \in Jobs : \E n \in 1 .. Len(report[i].words) : w \in report[i].words[n]
        BY <3>3, <3>4, <3>5, <3>6, WhereIs DEF InReports
      <3>8. w # DoorAnswer /\ w[1] = j
        BY <3>1 DEF DoorAnswer, Jobs
      <3>9. i = j
        BY <2>1, <3>7, <3>8 DEF Calm, OwnInv
      <3>10. QED BY <3>7, <3>8, <3>9 DEF InReport
    <2>3. ASSUME NEW w \in InReport(j) \ {DoorAnswer} PROVE w \in WordsOf(j)
      <3>1. PICK n \in 1 .. Len(report[j].words) : w \in report[j].words[n]
        BY <2>3 DEF InReport
      <3>2. w[1] = j
        BY <2>1, <2>3, <3>1 DEF Calm, OwnInv
      <3>3. w \in Nat \X Nat
        <4> DEFINE S == SUBSET (Nat \X Nat)
        <4>1. report[j].words \in Seq(S) BY <2>1 DEF WordsInv, WordType, Writes
        <4> HIDE DEF S
        <4>2. report[j].words[n] \in S BY <4>1
        <4>3. QED BY <3>1, <4>2 DEF S
      <3>4. PICK k \in Nat : w = <<j, k>>
        BY <3>2, <3>3
      <3>5. <<"report", j, n>> \in Where(w)
        <4>1. <<"report", j, n>> \in InReports(w) BY <3>1 DEF InReports
        <4>2. QED BY <4>1, WhereIs
      <3>6. Given(j, k)
        BY <2>1, <3>4, <3>5 DEF WordsInv, PlacesInv
      <3>7. QED BY <3>4, <3>6 DEF Given, WordsOf
    <2>4. ASSUME WordsOf(j) # {} PROVE Offered(j)
      <3>1. PICK w : w \in InReport(j) BY <2>2, <2>4
      <3>2. PICK n \in 1 .. Len(report[j].words) : w \in report[j].words[n]
        BY <3>1 DEF InReport
      <3>3. report[j].words # <<>>
        BY <3>2
      <3>4. QED BY <2>1, <3>3 DEF Offered
    <2>5. QED BY <2>2, <2>3, <2>4
  <1>2. QED BY <1>1, ResearchInductive, PTL
=============================================================================
