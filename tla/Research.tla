------------------------------- MODULE Research -------------------------------
(***************************************************************************)
(* The background jobs of zeos-chat and what the page makes of them: the   *)
(* long job deep-research (jobs.py) with its search (retrieval.py) and its *)
(* request to the model, the services send-email and send-report behind    *)
(* the two front doors, the outbox (mail.py), and the page's own record of *)
(* them in ChatServer (web/server.py).                                     *)
(*                                                                         *)
(* Three threads meet here.  The kernel's completes one command of one job *)
(* per step and then lets the page see what happened.  HTTP threads press  *)
(* email; another presses stop and closes, by itself, the reports          *)
(* of jobs the kernel still runs.  The model's worker streams an answer:   *)
(* of the device only the promise is used, RequestStream, which LlmAdapter *)
(* implements.  A research job asks once, so its request carries its name. *)
(*                                                                         *)
(* All jobs of one descriptor are bound to the same pipes, and a blocking  *)
(* read takes everything that waits: `hear`, `found`, `letters` and        *)
(* `findings` are each one pipe, whoever reads them.  The inbound queue of *)
(* Session (module Conversation) is folded into the pipes it feeds, and    *)
(* pipes here are never full.                                              *)
(*                                                                         *)
(* A word is a piece of an answer, named by its job and its place in the   *)
(* stream; what a write puts out is a set of words.                        *)
(***************************************************************************)
EXTENDS Naturals, Sequences

CONSTANTS
  MaxMessages,   \* bound: messages the conversation reads
  MaxPresses,    \* bound: presses of an email button
  Sessions       \* bounds of what may happen in one session: messages, chunks in one
                 \* answer, presses, stops, and whether research is asked for while
                 \* other research still runs

ASSUME ResearchAssumption ==
  /\ MaxMessages \in Nat /\ MaxPresses \in Nat
  /\ Sessions \subseteq [messages : 0 .. MaxMessages, pieces : Nat, presses : 0 .. MaxPresses,
                         stops : Nat, overlap : BOOLEAN]

Jobs    == 1 .. MaxMessages     \* a research job, named by the message that asked for it
Presses == 1 .. MaxPresses      \* a press, and the service job it is answered by

VARIABLES
  session,   \* which session this is
  stage, held, stream,  \* the model device, see RequestStream
  read,      \* how many messages the conversation has read
  topic,     \* session.topic: the message whose subject it holds
  spawning,  \* the message `converse` is about to spawn for, 0 when none
  pc,        \* per research job: which command it is on
  subject,   \* per research job: what it takes itself to be for
  hands,     \* per research job: the words its last read of `hear` returned
  last,      \* per research job: whether that read held the end of a stream
  notes,     \* per research job: whether it wrote anything out, `found` in the program
  told,      \* the research jobs whose ctx.abandoned is set
  hear,      \* llm.research.replies: the pieces and the ends that wait on it
  found,     \* web.results: for whom the pages on it were fetched
  findings,  \* research.report: whose
  letters,   \* mail.letters
  press,     \* per press: what it asks, as whom, and how far the answer is
  carries,   \* per press: what its service job has read
  robbed,    \* history: the presses whose letter, or findings, another press's job read
  outbox,    \* the letters handed to the mail thread and not reported yet
  sent,      \* MailAdapter.log: whose request each letter went by, and what it was made of
  echo,      \* 1 while a door has answered on user.replies and no step has drained it (two answers
             \* drained at once, which the page would show as a reply, are left out)
  tasks,     \* _tasks: the jobs on the page's strip
  report,    \* _reports: none, open, done; and the writes collected
  replies,   \* the writes of these jobs that the page showed as conversation
  stop,      \* the thread that pressed stop: where it is, whom it has yet to retire
  stops,     \* how often stop was pressed
  retired,   \* history: the jobs a stop retired
  shared     \* history: the jobs that lived beside another research job

Stream == INSTANCE RequestStream WITH Requests <- Jobs

device   == <<stage, held, stream>>
converse == <<read, topic, spawning>>
job      == <<pc, subject, hands, last, notes, told>>
pipes    == <<hear, found, findings, letters>>
service  == <<press, carries, robbed>>
mail     == <<outbox, sent>>
strip    == <<tasks, report, replies>>
stopping == <<stop, stops, retired>>
frame    == <<session, shared>>
vars     == <<device, converse, job, pipes, service, mail, echo, strip, stopping, frame>>

Alive    == {j \in Jobs : pc[j] \notin {"unborn", "gone"}}
Unpressed == [what |-> "nothing", who |-> "nobody", at |-> "unpressed"]
Answered  == [Unpressed EXCEPT !.at = "answered"]

Init ==
  /\ session \in Sessions
  /\ Stream!Init
  /\ read = 0 /\ topic = 0 /\ spawning = 0
  /\ pc = [j \in Jobs |-> "unborn"] /\ subject = [j \in Jobs |-> 0]
  /\ hands = [j \in Jobs |-> {}] /\ last = [j \in Jobs |-> FALSE]
  /\ notes = [j \in Jobs |-> FALSE] /\ told = {}
  /\ hear = {} /\ found = {} /\ findings = {} /\ letters = {}
  /\ press = [p \in Presses |-> Unpressed] /\ carries = [p \in Presses |-> {}] /\ robbed = {}
  /\ outbox = {} /\ sent = {}
  /\ echo = 0
  /\ tasks = {} /\ report = [j \in Jobs |-> [at |-> "none", words |-> <<>>]] /\ replies = <<>>
  /\ stop = [at |-> "idle", whom |-> {}] /\ stops = 0 /\ retired = {} /\ shared = {}

(***************************************************************************)
(* The page's record: ChatServer, on whichever thread calls.               *)
(***************************************************************************)
\* Mutant: the strip is read from session.pending_task, which holds one value.
NoteTaskByValue(j, working) == tasks' = IF working THEN tasks \cup {j} ELSE {}

\* _note_task: what one job says it is doing.
NoteTask(j, working) == tasks' = IF working THEN tasks \cup {j} ELSE tasks \ {j}

\* _on_event, for the write that latches pending_task: a first one opens a report.
Opened(j) ==
  IF report[j].at = "none" THEN [report EXCEPT ![j].at = "open"] ELSE report

\* _finish_report: closed once.  (Without words it is closed and not offered.)
Finished(j) ==
  IF report[j].at = "open" THEN [report EXCEPT ![j].at = "done"] ELSE report

\* What the page offers to open: ChatServer.report.
Offered(j) == report[j].at = "done" /\ report[j].words # <<>>

\* _on_reply, for what one step drained: the door's answer is recognised only
\* when it comes out alone; a report being written collects; the rest is shown.
OnReply(j, words) ==
  /\ report'  = IF report[j].at = "open" THEN [report EXCEPT ![j].words = Append(@, words)] ELSE report
  /\ replies' = IF report[j].at = "open" THEN replies ELSE Append(replies, words)
  /\ UNCHANGED tasks

(***************************************************************************)
(* The conversation, as far as it starts research.                         *)
(***************************************************************************)
\* A message is read and its subject latched; it asks for research, or does not.
WriteTopic ==
  /\ spawning = 0 /\ read < session.messages
  /\ read' = read + 1 /\ topic' = read'
  /\ spawning' \in {0, read'}
  /\ session.overlap \/ Alive = {}
  /\ UNCHANGED <<device, job, pipes, service, mail, strip, stopping, frame>>

Spawn ==
  /\ spawning # 0
  /\ pc' = [pc EXCEPT ![spawning] = "born"]
  /\ shared' = IF Alive = {} THEN shared ELSE shared \cup Alive \cup {spawning}
  /\ spawning' = 0
  /\ UNCHANGED <<device, read, topic, subject, hands, last, notes, told, pipes, service, mail,
                 strip, stopping, session>>

(***************************************************************************)
(* deep_research: one command per step.                                    *)
(***************************************************************************)
Command(j, from, to) == pc[j] = from /\ pc' = [pc EXCEPT ![j] = to]

\* status_of: a spawn carries no argument; what a job is for it reads off its window.
StatusOf == topic

\* The first command, whenever the scheduler lets it have one.
WriteTask(j) ==
  /\ Command(j, "born", "named")
  /\ subject' = [subject EXCEPT ![j] = StatusOf]
  /\ NoteTask(j, TRUE) /\ report' = Opened(j)
  /\ UNCHANGED <<device, converse, hands, last, notes, told, pipes, service, mail, replies,
                 stopping, frame>>

\* The query is drained, and RetrievalAdapter delivers its pages at once.
WriteFind(j) ==
  /\ Command(j, "named", "searching")
  /\ found' = found \cup {j}
  /\ UNCHANGED <<device, converse, subject, hands, last, notes, told, hear, findings, letters,
                 service, mail, strip, stopping, frame>>

\* Everything on the pipe, whoever it was fetched for.  The job is EXTERNAL from here on.
ReadFound(j) ==
  /\ Command(j, "searching", "asking") /\ found # {}
  /\ found' = {}
  /\ UNCHANGED <<device, converse, subject, hands, last, notes, told, hear, findings, letters,
                 service, mail, strip, stopping, frame>>

WriteAsk(j) ==
  /\ Command(j, "asking", "hearing")
  /\ Stream!Open(j)
  /\ UNCHANGED <<converse, subject, hands, last, notes, told, pipes, service, mail, strip,
                 stopping, frame>>

IsPiece(i) == i.what = "piece"
Word(i)    == <<i.of, i.nth>>
WordsIn(items) == {Word(i) : i \in {x \in items : IsPiece(x)}}

\* Mutant: an abandoned stream is not taken for an ended one.
OnlyEnd(items) == [words |-> WordsIn(items), ended |-> \E i \in items : i.what = "END"]

\* Mutant: an arrival the stream ended in is taken for the marker alone.
Emptied(items) ==
  LET over == \E i \in items : ~IsPiece(i)
  IN [words |-> IF over THEN {} ELSE WordsIn(items), ended |-> over]

\* stream_piece: the words in one arrival, and whether a stream ended inside it.
StreamPiece(items) == [words |-> WordsIn(items), ended |-> \E i \in items : ~IsPiece(i)]

ReadHear(j) ==
  /\ Command(j, "hearing", "heard") /\ hear # {}
  /\ hands' = [hands EXCEPT ![j] = StreamPiece(hear).words]
  /\ last'  = [last EXCEPT ![j] = StreamPiece(hear).ended]
  /\ hear' = {}
  /\ UNCHANGED <<device, converse, subject, notes, told, found, findings, letters, service, mail,
                 strip, stopping, frame>>

DoorAnswer == <<0, 0>>

\* What it read is noted and written out; what the step drains is that and,
\* if somebody spoke at a door since the last one, the door's answer.
WriteStdout(j) ==
  /\ Command(j, "heard", "written") /\ hands[j] # {}
  /\ notes' = [notes EXCEPT ![j] = TRUE]
  /\ hands' = [hands EXCEPT ![j] = {}]
  /\ OnReply(j, hands[j] \cup IF echo > 0 THEN {DoorAnswer} ELSE {})
  /\ UNCHANGED <<device, converse, subject, last, told, pipes, service, mail, stopping, frame>>

\* Did the stream end, or was the job told to give up?
Look(j) ==
  /\ pc[j] = "written" \/ (pc[j] = "heard" /\ hands[j] = {})
  /\ pc' = [pc EXCEPT ![j] = IF ~last[j] /\ j \notin told THEN "hearing"
                             ELSE IF notes[j] THEN "reporting" ELSE "clearing"]
  /\ told' = told \ (IF last[j] \/ j \in told THEN {j} ELSE {})
  /\ last' = [last EXCEPT ![j] = FALSE]
  /\ UNCHANGED <<device, converse, subject, hands, notes, pipes, service, mail, strip, stopping,
                 frame>>

WriteReport(j) ==
  /\ Command(j, "reporting", "clearing")
  /\ findings' = findings \cup {<<"findings", j>>}
  /\ UNCHANGED <<device, converse, subject, hands, last, notes, told, hear, found, letters, service,
                 mail, strip, stopping, frame>>

ClearTask(j) ==
  /\ Command(j, "clearing", "leaving")
  /\ NoteTask(j, FALSE)
  /\ UNCHANGED <<device, converse, subject, hands, last, notes, told, pipes, service, mail, report,
                 replies, stopping, frame>>

\* JobCompleted: the report is offered and the line, if still there, is cleared.
Exit(j) ==
  /\ Command(j, "leaving", "gone")
  /\ NoteTask(j, FALSE) /\ report' = Finished(j)
  /\ UNCHANGED <<device, converse, subject, hands, last, notes, told, pipes, service, mail, replies,
                 stopping, frame>>

DeepResearch(j) ==
  \/ WriteTask(j) \/ WriteFind(j) \/ ReadFound(j) \/ WriteAsk(j) \/ ReadHear(j) \/ WriteStdout(j)
  \/ Look(j) \/ WriteReport(j) \/ ClearTask(j) \/ Exit(j)

Research(j) == DeepResearch(j) /\ echo' = 0

(***************************************************************************)
(* The device's worker: every step is one the device promises.             *)
(***************************************************************************)
Arrival(j)   == [of |-> j, nth |-> Len(stream[j]) + 1, what |-> stream'[j][Len(stream[j]) + 1]]
Delivered(j) == hear' = hear \cup {Arrival(j)}

Worker(j) ==
  /\ \/ Len(stream[j]) < session.pieces /\ Stream!Hold(j) /\ UNCHANGED hear
     \/ Stream!Finish(j) /\ UNCHANGED hear
     \/ Stream!Write(j) /\ Delivered(j)
     \/ stage[j] = "finished" /\ Stream!Close(j) /\ Delivered(j)
  /\ UNCHANGED <<converse, job, found, findings, letters, service, mail, echo, strip, stopping,
                 frame>>

(***************************************************************************)
(* Stop: ChatServer.interrupt, on an HTTP thread.                          *)
(***************************************************************************)
\* The device forgets every request in flight ...
Interrupt ==
  /\ stop.at = "idle" /\ stops < session.stops
  /\ stops' = stops + 1
  /\ Stream!GiveUp({j \in Jobs : stage[j] = "open"})
  /\ stop' = [stop EXCEPT !.at = "waking"]
  /\ UNCHANGED <<converse, job, pipes, service, mail, echo, strip, retired, frame>>

\* ... completes each one's pipe ...
Wake(j) ==
  /\ stop.at = "waking" /\ stage[j] = "given up"
  /\ Stream!Close(j) /\ Delivered(j)
  /\ UNCHANGED <<converse, job, found, findings, letters, service, mail, echo, strip, stopping,
                 frame>>

\* ... every job of the descriptor that has begun is told (nobody reads the flag of
\* one that has its answer) ...
Abandon ==
  /\ stop.at = "waking" /\ \A j \in Jobs : stage[j] # "given up"
  /\ told' = told \cup {j \in Jobs : pc[j] \notin {"unborn", "born", "clearing", "leaving", "gone"}}
  /\ stop' = [stop EXCEPT !.at = "telling"]
  /\ UNCHANGED <<device, converse, pc, subject, hands, last, notes, pipes, service, mail, echo,
                 strip, stops, retired, frame>>

\* ... and the jobs on the strip, as it is then, are closed out one by one.
RetireBackground ==
  /\ stop.at = "telling"
  /\ stop' = IF tasks = {} THEN [at |-> "idle", whom |-> {}] ELSE [at |-> "retiring", whom |-> tasks]
  /\ UNCHANGED <<device, converse, job, pipes, service, mail, echo, strip, stops, retired, frame>>

RetireOne(j) ==
  /\ stop.at = "retiring" /\ j \in stop.whom
  /\ report' = Finished(j) /\ NoteTask(j, FALSE)
  /\ stop' = IF stop.whom = {j} THEN [at |-> "idle", whom |-> {}] ELSE [stop EXCEPT !.whom = @ \ {j}]
  /\ retired' = retired \cup {j}
  /\ UNCHANGED <<device, converse, job, pipes, service, mail, echo, replies, stops, frame>>

Interruption == (\E j \in Jobs : Wake(j) \/ RetireOne(j)) \/ Abandon \/ RetireBackground

(***************************************************************************)
(* Email: ChatServer.email, on an HTTP thread; the service the door        *)
(* dispatches, on the kernel's; the letter, on a thread of its own.        *)
(***************************************************************************)
\* Anybody may press at any time, whatever has become of the presses before.
MayPress(p) ==
  /\ p <= session.presses
  /\ press[p].at = "unpressed" /\ \A q \in Presses : q < p => press[q].at # "unpressed"

Letter(p) == <<"letter", p>>

Pressed(p, what, who) == press' = [press EXCEPT ![p] = [what |-> what, who |-> who, at |-> "asking"]]

\* The letter first, the request second.
EmailConversation(p, who) ==
  /\ MayPress(p)
  /\ Pressed(p, "conversation", who)
  /\ letters' = letters \cup {Letter(p)}
  /\ UNCHANGED <<device, converse, job, hear, found, findings, carries, robbed, mail, echo, strip,
                 stopping, frame>>

\* Mutant: the request is passed on whether or not there is anything to send.
EmailBlindly(p, who) ==
  /\ MayPress(p)
  /\ Pressed(p, "report", who)
  /\ UNCHANGED <<device, converse, job, pipes, carries, robbed, mail, echo, strip, stopping, frame>>

\* The findings stay on their pipe; with nothing on it the press is answered "spent".
EmailReport(p, who) ==
  /\ MayPress(p)
  /\ IF findings # {} THEN Pressed(p, "report", who) ELSE press' = [press EXCEPT ![p] = Answered]
  /\ UNCHANGED <<device, converse, job, pipes, carries, robbed, mail, echo, strip, stopping, frame>>

\* The request: the door compiles it, answers, and dispatches the service.
Request(p) ==
  /\ press[p].at = "asking" /\ press' = [press EXCEPT ![p].at = "dispatched"]
  /\ echo' = 1
  /\ UNCHANGED <<device, converse, job, pipes, carries, robbed, mail, strip, stopping, frame>>

\* Whoever waits for what p's job reads.
Waiting(p) == {q \in Presses : press[q].what = press[p].what /\ press[q].at \in {"asking", "dispatched"}}

\* Mutant: what was read is left on the pipe.
ReadAndKeep(p) ==
  /\ press[p].at = "dispatched"
  /\ LET waits == IF press[p].what = "conversation" THEN letters ELSE findings
     IN waits # {} /\ carries' = [carries EXCEPT ![p] = waits]
  /\ robbed' = robbed \cup (Waiting(p) \ {p})
  /\ press' = [press EXCEPT ![p].at = "read"]
  /\ UNCHANGED <<device, converse, job, pipes, mail, strip, stopping, frame>>

\* send_email, send_report: everything that waits is read ...
ReadStdin(p) ==
  /\ press[p].at = "dispatched"
  /\ IF press[p].what = "conversation"
       THEN letters # {} /\ letters' = {} /\ UNCHANGED findings
              /\ carries' = [carries EXCEPT ![p] = letters]
       ELSE findings # {} /\ findings' = {} /\ UNCHANGED letters
              /\ carries' = [carries EXCEPT ![p] = findings]
  /\ robbed' = robbed \cup (Waiting(p) \ {p})
  /\ press' = [press EXCEPT ![p].at = "read"]
  /\ UNCHANGED <<device, converse, job, hear, found, mail, strip, stopping, frame>>

\* The kernel's verdict at the outbox: who asked, and what the job has read.
\* Whoever wrote to research.report had read the web, and a reader inherits that.
Refused(p) == press[p].who = "guest" \/ press[p].what = "report"

\* ... and written to the outbox; a refusal ends the job and is shown as one.
WriteOutbox(p) ==
  /\ press[p].at = "read"
  /\ press' = [press EXCEPT ![p] = IF Refused(p) THEN Answered ELSE [@ EXCEPT !.at = "posting"]]
  /\ carries' = [carries EXCEPT ![p] = {}]
  /\ outbox' = outbox \cup (IF Refused(p) THEN {} ELSE {[by |-> p, made |-> carries[p]]})
  /\ UNCHANGED <<device, converse, job, pipes, robbed, sent, strip, stopping, frame>>

Service(p) == (ReadStdin(p) \/ WriteOutbox(p)) /\ echo' = 0

\* _transmit: sent or not, the outcome is logged and posted on the page.
Transmit(p) == \E l \in outbox :
  /\ l.by = p
  /\ outbox' = outbox \ {l} /\ sent' = sent \cup {l}
  /\ press' = [press EXCEPT ![p] = Answered]
  /\ UNCHANGED <<device, converse, job, pipes, carries, robbed, echo, strip, stopping, frame>>

-----------------------------------------------------------------------------
\* A step that completes no command here drains the door's answer by itself.
OtherTick ==
  /\ echo > 0 /\ echo' = 0
  /\ UNCHANGED <<device, converse, job, pipes, service, mail, strip, stopping, frame>>

Converse == (WriteTopic \/ Spawn) /\ echo' = 0

Next ==
  \/ Converse \/ OtherTick
  \/ \E j \in Jobs : Research(j) \/ Worker(j)
  \/ Interrupt \/ Interruption
  \/ \E p \in Presses, who \in {"owner", "guest"} : EmailConversation(p, who) \/ EmailReport(p, who)
  \/ \E p \in Presses : Request(p) \/ Service(p) \/ Transmit(p)

(***************************************************************************)
(* Fairness.  While a thread can take a step some thread does: the         *)
(* stepping loop never ends, the model finishes an answer it began, and a  *)
(* thread that was started runs.  No thread here has more than a bounded   *)
(* number of steps to take, so none can keep another waiting for ever and  *)
(* nothing finer is assumed.  Nobody has to say, press or stop anything.   *)
(***************************************************************************)
Progress ==
  \/ (Spawn /\ echo' = 0) \/ Interruption
  \/ \E j \in Jobs : Research(j) \/ Worker(j)
  \/ \E p \in Presses : Request(p) \/ Service(p) \/ Transmit(p)

Spec == Init /\ [][Next]_vars

FairSpec == Spec /\ WF_vars(Progress)

(***************************************************************************)
(* Properties.                                                             *)
(***************************************************************************)
\* The words the model wrote for j.
WordsOf(j) == {<<j, k>> : k \in {n \in 1 .. Len(stream[j]) : stream[j][n] = "piece"}}

\* Everywhere the word w is: on the pipe, in some job's hands, in a document, in the conversation.
Where(w) ==
  {<<"hear", 0, 0>> : i \in {x \in hear : IsPiece(x) /\ Word(x) = w}}
  \cup {<<"hands", j, 0>> : j \in {x \in Jobs : w \in hands[x]}}
  \cup {<<"replies", 0, k>> : k \in {n \in 1 .. Len(replies) : w \in replies[n]}}
  \cup UNION {{<<"report", j, k>> : k \in {n \in 1 .. Len(report[j].words) : w \in report[j].words[n]}}
              : j \in Jobs}

(***************************************************************************)
(* Nothing the model wrote for a research job is lost or shown twice:      *)
(* every word waits on the pipe, is in some job's hands, in a document or  *)
(* in the conversation, and in one place.  And "the long job's findings do *)
(* not belong in the conversation" (Report, web/server.py): none gets      *)
(* there unless a stop closed the document of a job still writing.         *)
(***************************************************************************)
NoFindingLost ==
  /\ \A j \in Jobs : \A w \in WordsOf(j) : \E x \in Where(w) : Where(w) = {x}
  /\ replies # <<>> => retired # {}

\* What was written into the document of j.
InReport(j) == UNION {report[j].words[k] : k \in 1 .. Len(report[j].words)}

(***************************************************************************)
(* Undisturbed research is exact.  While no two research jobs lived at     *)
(* once and nobody pressed stop, a job that ended offers a document with   *)
(* all of its own answer and, of what jobs write, nothing else.            *)
(***************************************************************************)
WholeDocuments ==
  shared = {} /\ stops = 0 => \A j \in Jobs : pc[j] = "gone" =>
    /\ WordsOf(j) # {} => Offered(j)
    /\ InReport(j) \ {DoorAnswer} = WordsOf(j)

(***************************************************************************)
(* The strip says what is running: a line for every research job that has  *)
(* said what it is doing and not yet cleared it, except those a stop       *)
(* retired, whose line never comes back -- whichever thread wrote last.    *)
(***************************************************************************)
StripIsTrue ==
  tasks = {j \in Alive : pc[j] \notin {"born", "leaving"}} \ retired

(***************************************************************************)
(* However presses overlap, a letter handed in goes out once: no two       *)
(* letters that left the kernel hold the same one, none that left is still *)
(* there for the next job to read, and nothing from the web is in any.     *)
(***************************************************************************)
Out == outbox \cup sent

SentOnce ==
  /\ \A l \in Out : l.made # {} /\ l.made \subseteq {Letter(p) : p \in Presses} \ letters
  /\ \A k, l \in Out : k # l => k.made \cap l.made = {}

(***************************************************************************)
(* "every press of email is answered however it ends"                      *)
(* (tests/test_authority.py): posted, refused, or told that nothing is     *)
(* left -- however many presses are under way -- unless the job of another *)
(* press read what it had to send before its own did.                      *)
(***************************************************************************)
PressesAnswered ==
  \A p \in Presses : press[p].at # "unpressed" ~> press[p].at = "answered" \/ p \in robbed

(***************************************************************************)
(* The same, without the exception.                                        *)
(***************************************************************************)
EveryPressAnswered ==
  \A p \in Presses : press[p].at # "unpressed" ~> press[p].at = "answered"

(***************************************************************************)
(* A research job ends, stopped or not, whenever the stop comes, unless it *)
(* shared its pipes with another one.                                      *)
(***************************************************************************)
LoneResearchEnds ==
  \A j \in Jobs : pc[j] = "born" ~> pc[j] = "gone" \/ j \in shared

(***************************************************************************)
(* "this line is the only way it learns what it is for" (jobs.py,          *)
(* converse): a research job is for the message that asked for it.         *)
(***************************************************************************)
IsForWhatWasAsked ==
  \A j \in Jobs : subject[j] \in {0, j}
=============================================================================
