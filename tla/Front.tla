-------------------------------- MODULE Front --------------------------------
(***************************************************************************)
(* The fronts of the demos: a daemon thread turns the kernel, other        *)
(* threads only queue what they want of it, and whoever watches is told    *)
(* what changed -- ChatServer and BlocksServer over one queue per open     *)
(* page, Console over the one queue its main thread draws from             *)
(* (zeos-chat web/server.py, session.py, cli.py; zeos-blocks web/server.py,*)
(* console.py, session.py).                                                *)
(*                                                                         *)
(* What the jobs do is left to Conversation and Workspace.  Here a step of *)
(* the kernel starts jobs, runs them, changes the table or asks the model, *)
(* and the question is what the people watching are shown of it, and what  *)
(* becomes of the journal, when threads stop, fail, connect and leave.     *)
(***************************************************************************)
EXTENDS Integers, Sequences, SequencesExt

CONSTANTS
  Apps,        \* which of "chat", "page" and "console" is looked at
  Tabs,        \* browsers
  Terminal,    \* the console's display
  Settled,     \* SETTLED: quiet polls before a console with no more input stops
  Crossing,    \* whether a job may finish in a step that started one
  MaxAsks,     \* bound: sentences, hands, buttons, per app
  MaxMoves,    \* bound: changes of the table
  MaxTurns,    \* bound: requests to the model
  MaxConnects  \* bound: pages opened

ASSUME FrontAssumption ==
  /\ Apps \subseteq {"chat", "page", "console"} /\ Terminal \notin Tabs
  /\ Settled \in Nat \ {0} /\ Crossing \in BOOLEAN
  /\ MaxAsks \in [Apps -> Nat] /\ {MaxMoves, MaxTurns, MaxConnects} \subseteq Nat

VARIABLES
  app,
  inbound,     \* deliveries and jobs asked for that no step has taken
  held,        \* a hand is in the workspace
  ready,       \* jobs: not finished (blocks), able to run (chat)
  flight,      \* requests the model has not answered
  posting,     \* ended answers whose END the worker has not queued yet
  table,       \* the table, as the number of changes made to it
  kernel,      \* where the kernel's thread is, and what it is holding there
  changed,     \* _table_changed
  signal,      \* _activity, as how many it names; for the chat _busy, as 0 or 1
  stop,        \* _stop
  failed,      \* the kernel's thread died of an exception
  file,        \* the journal's file: the changes of the table it has, -1 until the session is closed
  inhand,      \* history: a step was in flight when the workspace was told to stop
  people,      \* requests begun, pages opened, requests to the model
  behind,      \* HTTP threads that have queued and are yet to call _set_busy, by what they will say
  tabs,        \* per screen: "away", "greeting", "greeted" or "watching"
  queue,       \* per screen: what it was sent and has not drawn
  shown,       \* per screen: what it shows
  main         \* the main thread: where it is, whether it still reads, its quiet polls

world   == <<inbound, held, ready, flight, posting, table>>
fronts  == <<tabs, queue, shown>>
journal == <<file, inhand>>
ending  == <<stop, failed, journal>>
told    == <<changed, signal>>
vars    == <<app, world, kernel, told, ending, people, behind, fronts, main>>

Screens == Tabs \cup {Terminal}
Blocks  == app \in {"page", "console"}
Kinds   == {"table", "signal", "stopped"}     \* of frames, and what of each a screen shows
Blank   == [kind \in Kinds |-> 0]

\* Mutant: a page is registered once it has been told how things stand.
RegisteredLast == {t \in Screens : tabs[t] = "watching"}

Registered == {t \in Screens : tabs[t] # "away"}

\* watcher.put, _paint.put: a frame to every queue in `to`.
Sent(frame, to) == [t \in Screens |-> IF t \in to THEN Append(queue[t], frame) ELSE queue[t]]
Frame(kind, value) == [kind |-> kind, value |-> value]
Nobody == [frame |-> Frame("table", 0), to |-> {}]

\* `fresh`: the step in hand has started a job.
Thread(at, ran, sending) == [at |-> at, ran |-> ran, fresh |-> 0, sending |-> sending]
Goes(at) == kernel' = [kernel EXCEPT !.at = at]

Init ==
  /\ app \in Apps
  /\ inbound = 0 /\ held = FALSE /\ flight = 0 /\ posting = 0 /\ table = 0
  /\ ready \in IF Blocks THEN {0, 1} ELSE {1}      \* blocks-tidy boots one job, blocks none
  /\ kernel = Thread("top", FALSE, Nobody)
  /\ changed = FALSE /\ signal = IF app = "page" THEN -1 ELSE 0    \* {} is no list of jobs
  /\ stop = FALSE /\ failed = FALSE /\ file = -1 /\ inhand = FALSE
  /\ people = [asks |-> 0, opened |-> 0, turns |-> 0]
  /\ behind = [on |-> 0, off |-> 0]
  /\ tabs = [t \in Screens |-> IF app = "console" /\ t = Terminal THEN "watching" ELSE "away"]
  /\ queue = [t \in Screens |-> <<>>] /\ shown = [t \in Screens |-> Blank]
  /\ main = [at |-> "starting", reading |-> TRUE, quiet |-> 0]

Running == main.at # "done"      \* the process: daemon threads go with it

-----------------------------------------------------------------------------
(***************************************************************************)
(* The kernel's thread.                                                    *)
(***************************************************************************)
Begin ==
  /\ kernel.at = "top" /\ ~stop
  /\ IF held THEN kernel' = Thread("showing", FALSE, Nobody) ELSE Goes("draining")
  /\ UNCHANGED <<world, told, ending, fronts, people>>

Ended ==
  /\ kernel.at = "top" /\ stop
  /\ Goes("ended")
  /\ file' = IF app = "chat" THEN table ELSE file  \* ChatServer.run closes the session itself
  /\ UNCHANGED <<world, told, stop, failed, inhand, fronts, people>>

Take ==
  /\ kernel.at = "draining" /\ inbound > 0
  /\ inbound' = inbound - 1
  /\ Goes("delivering")
  /\ UNCHANGED <<held, ready, flight, posting, table, told, ending, fronts, people>>

\* What was taken wakes or starts a job, is a hand's change of the table, or comes to nothing.
Deliver ==
  /\ kernel.at = "delivering"
  /\ \/ /\ ready' = (IF Blocks THEN ready + 1 ELSE 1)
        /\ kernel' = [Thread("draining", kernel.ran, kernel.sending) EXCEPT !.fresh = 1]
        /\ UNCHANGED <<table, changed>>
     \/ /\ Blocks /\ table < MaxMoves /\ table' = table + 1 /\ changed' = TRUE
        /\ Goes("draining") /\ UNCHANGED ready
     \/ Goes("draining") /\ UNCHANGED <<ready, table, changed>>
  /\ UNCHANGED <<inbound, held, flight, posting, signal, ending, fronts, people>>

Drained ==
  /\ kernel.at = "draining" /\ inbound = 0
  /\ Goes("ticking")
  /\ UNCHANGED <<world, told, ending, fronts, people>>

Ticked(ran) == kernel' = Thread(IF Blocks THEN "showing" ELSE "looking", ran, Nobody)

IdleTick ==
  /\ kernel.at = "ticking" /\ ready = 0
  /\ Ticked(FALSE)
  /\ UNCHANGED <<world, told, ending, fronts, people>>

\* A job goes on; moves a block, or asks the model and waits; finishes, or waits for a person.
JobTick ==
  /\ kernel.at = "ticking" /\ ready > 0
  /\ Ticked(TRUE)
  /\ \/ UNCHANGED <<ready, table, changed, flight, people>>
     \/ /\ Blocks /\ table < MaxMoves /\ table' = table + 1 /\ changed' = TRUE
        /\ UNCHANGED <<ready, flight, people>>
     \/ /\ ~Blocks /\ people.turns < MaxTurns /\ people' = [people EXCEPT !.turns = @ + 1]
        /\ flight' = flight + 1 /\ ready' = 0 /\ UNCHANGED <<table, changed>>
     \/ /\ ~Blocks \/ Crossing \/ kernel.fresh = 0
        /\ ready' = ready - 1 /\ UNCHANGED <<table, changed, flight, people>>
  /\ UNCHANGED <<inbound, held, posting, signal, ending, fronts>>

Raises == kernel.at = "ticking" /\ ready > 0 /\ failed' = TRUE

\* A planner raises.  The page says so to whoever is watching.
FailPage ==
  /\ Raises /\ app = "page"
  /\ stop' = TRUE
  /\ kernel' = Thread("telling", FALSE, [frame |-> Frame("stopped", 1), to |-> Registered])
  /\ UNCHANGED <<world, told, journal, fronts, people>>

\* Mutant: the failure is kept and the flag is not set.
FailQuietly ==
  /\ Raises /\ app = "console"
  /\ kernel' = Thread("ended", FALSE, Nobody)
  /\ UNCHANGED <<world, told, stop, journal, fronts, people>>

\* The console keeps it, for the main thread to say once the terminal has been given back.
FailConsole ==
  /\ Raises /\ app = "console"
  /\ stop' = TRUE
  /\ kernel' = Thread("ended", FALSE, Nobody)
  /\ UNCHANGED <<world, told, journal, fronts, people>>

\* _push: the watchers are copied under the lock, and put to after it.
Show ==
  /\ kernel.at = "showing"
  /\ kernel' = IF changed THEN Thread("putting", kernel.ran, [frame |-> Frame("table", table), to |-> Registered])
                          ELSE [kernel EXCEPT !.at = "counting"]
  /\ UNCHANGED <<world, told, ending, fronts, people>>

Put(from, to) ==
  /\ kernel.at = from
  /\ queue' = Sent(kernel.sending.frame, kernel.sending.to)
  /\ kernel' = Thread(to, kernel.ran, Nobody)
  /\ UNCHANGED <<world, signal, ending, tabs, shown, people>>

Count ==
  /\ kernel.at = "counting"
  /\ signal' = ready
  /\ kernel' = IF signal # ready
                 THEN Thread("saying", kernel.ran, [frame |-> Frame("signal", ready), to |-> Registered])
                 ELSE Thread("top", kernel.ran, Nobody)
  /\ UNCHANGED <<world, changed, ending, fronts, people>>

\* Mutant: only what the scheduler can run counts.
LookOnlyAtTheScheduler ==
  /\ kernel.at = "looking"
  /\ Goes(IF kernel.ran \/ inbound > 0 THEN "on" ELSE "off")
  /\ UNCHANGED <<world, told, ending, fronts, people>>

\* ran or _outstanding(): the queue is looked at, then the model's requests.
Look ==
  /\ kernel.at = "looking"
  /\ Goes(IF kernel.ran \/ inbound > 0 THEN "on" ELSE "looking on")
  /\ UNCHANGED <<world, told, ending, fronts, people>>

LookOn ==
  /\ kernel.at = "looking on"
  /\ Goes(IF flight > 0 THEN "on" ELSE "off")
  /\ UNCHANGED <<world, told, ending, fronts, people>>

\* _set_busy: compared, kept and published inside one lock.
SetBusy(b) ==
  /\ signal' = b
  /\ queue' = IF signal = b THEN queue ELSE Sent(Frame("signal", b), Registered)

Reckoned ==
  /\ kernel.at \in {"on", "off"}
  /\ SetBusy(IF kernel.at = "on" THEN 1 ELSE 0)
  /\ Goes("top")
  /\ UNCHANGED <<world, changed, ending, tabs, shown, people>>

Kernel ==
  /\ Running
  /\ \/ Begin \/ Ended \/ Take \/ Deliver \/ Drained \/ IdleTick \/ JobTick \/ FailPage \/ FailConsole
     \/ Show
     \/ (Put("putting", "counting") /\ changed' = FALSE)
     \/ (Put("saying", "top") /\ UNCHANGED changed)
     \/ (Put("telling", "ended") /\ UNCHANGED changed)
     \/ Count \/ Look \/ LookOn \/ Reckoned
  /\ UNCHANGED <<app, behind, main>>

-----------------------------------------------------------------------------
(***************************************************************************)
(* Any other thread: what a person asks for, and the model's workers.      *)
(***************************************************************************)
MayAsk == people.asks < MaxAsks[app]
Asked  == people' = [people EXCEPT !.asks = @ + 1]

\* say, disturb and start_job of the blocks: queued, and that is all (/say, /tidy; /hand too).
Ask ==
  /\ app = "page" /\ MayAsk /\ Asked
  /\ inbound' = inbound + 1
  /\ UNCHANGED <<held, ready, flight, posting, table, behind, queue, signal>>

\* /hand/start, then /hand or /hand/cancel.
Hold ==
  /\ app = "page" /\ ~held /\ MayAsk /\ Asked
  /\ held' = TRUE
  /\ UNCHANGED <<inbound, ready, flight, posting, table, behind, queue, signal>>

Release ==
  /\ held /\ held' = FALSE
  /\ inbound' \in {inbound, inbound + 1}
  /\ UNCHANGED <<ready, flight, posting, table, people, behind, queue, signal>>

\* ChatServer.say: a barge-in gives up the answer first; the message and its ring; then _set_busy.
Say ==
  /\ app = "chat" /\ MayAsk /\ Asked
  /\ \E dropped \in {0, flight} :
       /\ flight' = flight - dropped
       /\ inbound' = inbound + dropped + 2
  /\ behind' = [behind EXCEPT !.on = @ + 1]
  /\ UNCHANGED <<held, ready, posting, table, queue, signal>>

\* ChatServer.interrupt: the reflex's pipe, everything outstanding, then _set_busy.
Interrupt ==
  /\ app = "chat" /\ MayAsk /\ Asked
  /\ inbound' = inbound + 1 + flight /\ flight' = 0
  /\ behind' = [behind EXCEPT !.off = @ + 1]
  /\ UNCHANGED <<held, ready, posting, table, queue, signal>>

Behind(b, which) ==
  /\ behind[which] > 0 /\ behind' = [behind EXCEPT ![which] = @ - 1]
  /\ SetBusy(b)
  /\ UNCHANGED <<world, people>>

\* LlmAdapter._answer: the ticket goes first, and then the END is queued.
Answer ==
  /\ flight > 0
  /\ flight' = flight - 1 /\ posting' = posting + 1
  /\ UNCHANGED <<inbound, held, ready, table, people, behind, queue, signal>>

PostEnd ==
  /\ posting > 0
  /\ posting' = posting - 1 /\ inbound' = inbound + 1
  /\ UNCHANGED <<held, ready, flight, table, people, behind, queue, signal>>

Reporting == Release \/ Behind(1, "on") \/ Behind(0, "off") \/ PostEnd

Others ==
  /\ Running
  /\ Ask \/ Hold \/ Say \/ Interrupt \/ Answer \/ Reporting
  /\ UNCHANGED <<app, kernel, changed, ending, tabs, shown, main>>

-----------------------------------------------------------------------------
(***************************************************************************)
(* The pages: a browser opens the stream, is told how things stand, and    *)
(* from then on what changes.                                              *)
(***************************************************************************)
\* ChatServer.watch: registered, and told, inside one lock.
Watch(t) ==
  /\ app = "chat"
  /\ tabs' = [tabs EXCEPT ![t] = "watching"]
  /\ queue' = [queue EXCEPT ![t] = <<Frame("signal", signal)>>]
  /\ UNCHANGED shown

\* BlocksServer._stream: registered; then the table and what is alive are read and written.
Greeted(t) ==
  /\ app = "page"
  /\ tabs' = [tabs EXCEPT ![t] = "greeting"]
  /\ UNCHANGED <<queue, shown>>

Connect(t) ==
  /\ t \in Tabs /\ tabs[t] = "away" /\ people.opened < MaxConnects
  /\ people' = [people EXCEPT !.opened = @ + 1]
  /\ Watch(t) \/ Greeted(t)

GreetTable(t) ==
  /\ tabs[t] = "greeting"
  /\ tabs' = [tabs EXCEPT ![t] = "greeted"]
  /\ shown' = [shown EXCEPT ![t].table = table]
  /\ UNCHANGED <<queue, people>>

GreetActivity(t) ==
  /\ tabs[t] = "greeted"
  /\ tabs' = [tabs EXCEPT ![t] = "watching"]
  /\ shown' = [shown EXCEPT ![t].signal = ready]
  /\ UNCHANGED <<queue, people>>

Draw(t) ==
  /\ tabs[t] = "watching" /\ queue[t] # <<>>
  /\ shown' = [shown EXCEPT ![t][Head(queue[t]).kind] = Head(queue[t]).value]
  /\ queue' = [queue EXCEPT ![t] = Tail(@)]
  /\ UNCHANGED <<tabs, people>>

\* The browser has gone: unwatch, however far the stream had got.  What is still put to its
\* queue is put where nobody reads.
Unwatch(t) ==
  /\ t \in Tabs /\ tabs[t] # "away"
  /\ tabs' = [tabs EXCEPT ![t] = "away"]
  /\ queue' = [queue EXCEPT ![t] = <<>>] /\ shown' = [shown EXCEPT ![t] = Blank]
  /\ kernel' = [kernel EXCEPT !.sending = [frame |-> @.frame, to |-> @.to \ {t}]]
  /\ UNCHANGED people

Stream(t) == t \in Tabs /\ (GreetTable(t) \/ GreetActivity(t) \/ Draw(t))

Pages ==
  /\ Running
  /\ \/ \E t \in Tabs : (Connect(t) \/ Stream(t)) /\ UNCHANGED kernel
     \/ \E t \in Tabs : Unwatch(t)
  /\ UNCHANGED <<app, world, told, ending, behind, main>>

-----------------------------------------------------------------------------
(***************************************************************************)
(* The main thread: Console.drive, the two serve loops.                    *)
(***************************************************************************)
MainAt(at) == main' = [main EXCEPT !.at = at]
Busy == held \/ inbound > 0

Opening ==
  /\ main.at = "starting"
  /\ MainAt(IF app = "console" THEN "checking" ELSE "serving")
  /\ shown' = IF app = "console" THEN [shown EXCEPT ![Terminal].table = table] ELSE shown
  /\ UNCHANGED <<inbound, people, stop, journal, queue>>

\* ctrl-c.
Break ==
  /\ main.at = "serving"
  /\ MainAt("stopping")
  /\ UNCHANGED <<inbound, people, stop, journal, queue, shown>>

CheckStop ==
  /\ main.at = "checking"
  /\ MainAt(IF stop THEN "stopping" ELSE "draining")
  /\ UNCHANGED <<inbound, people, stop, journal, queue, shown>>

\* _drain: until the queue is empty.
DrawAll ==
  /\ main.at = "draining" /\ queue[Terminal] # <<>>
  /\ shown' = [shown EXCEPT ![Terminal][Head(queue[Terminal]).kind] = Head(queue[Terminal]).value]
  /\ queue' = [queue EXCEPT ![Terminal] = Tail(@)]
  /\ UNCHANGED <<inbound, people, stop, journal, main>>

\* parse_line.
Typed == {"nothing", "say", "hand", "tidy", "quit", "unknown"}

\* _act: everything but /quit is queued, or said on the display and that is all.
Act(kind) ==
  \/ kind = "quit" /\ MainAt("stopping") /\ UNCHANGED <<inbound, people>>
  \/ kind \in {"say", "hand", "tidy"} /\ MayAsk /\ Asked /\ inbound' = inbound + 1 /\ MainAt("checking")
  \/ kind \in {"nothing", "unknown"} /\ MainAt("checking") /\ UNCHANGED <<inbound, people>>

\* A line, or none within a poll; or there will be no more ever, and each read says so at once.
Read ==
  /\ main.at = "draining" /\ queue[Terminal] = <<>>
  /\ \/ main.reading /\ \E kind \in Typed : Act(kind)
     \/ main' = [main EXCEPT !.at = "settling", !.reading = FALSE] /\ UNCHANGED <<inbound, people>>
  /\ UNCHANGED <<stop, journal, queue, shown>>

Settle ==
  /\ main.at = "settling"
  /\ \E quiet \in {IF Busy \/ ready > 0 THEN 0 ELSE main.quiet + 1} :
       main' = [main EXCEPT !.at = IF quiet >= Settled THEN "stopping" ELSE "checking", !.quiet = quiet]
  /\ UNCHANGED <<inbound, people, stop, journal, queue, shown>>

\* The chat's main thread sets the flag and returns.
StopChat ==
  /\ main.at = "stopping" /\ app = "chat"
  /\ stop' = TRUE
  /\ MainAt("done")
  /\ UNCHANGED <<inbound, people, journal, queue, shown>>

\* Mutant: the thread is joined, and nobody has told it to stop.
JoinOnly ==
  /\ main.at = "stopping" /\ Blocks
  /\ stop' = stop
  /\ inhand' = (kernel.at \notin {"top", "ended"})
  /\ MainAt("joining")
  /\ UNCHANGED <<inbound, people, file, queue, shown>>

StopWorkspace ==
  /\ main.at = "stopping" /\ Blocks
  /\ stop' = TRUE
  /\ inhand' = (kernel.at \notin {"top", "ended"})
  /\ MainAt("joining")
  /\ UNCHANGED <<inbound, people, file, queue, shown>>

\* join(timeout=2), then Session.close: what the thread is doing is let be, and what events there
\* are is what is written.
Close ==
  /\ main.at = "joining"
  /\ file' = table
  /\ MainAt("leaving")
  /\ UNCHANGED <<inbound, people, stop, inhand, queue, shown>>

Exit ==
  /\ main.at = "leaving"
  /\ MainAt("done")
  /\ UNCHANGED <<inbound, people, stop, journal, queue, shown>>

Turning == Opening \/ CheckStop \/ DrawAll \/ Read \/ Settle \/ StopChat \/ StopWorkspace \/ Close \/ Exit

Main ==
  /\ Turning \/ Break
  /\ UNCHANGED <<app, held, ready, flight, posting, table, kernel, told, failed, behind, tabs>>

Next == Kernel \/ Others \/ Pages \/ Main

(***************************************************************************)
(* Fairness.  Threads run; a hand that reached in is taken out again, and  *)
(* a thread that has done one of two things does the other.  The model     *)
(* need not answer, nobody need press ctrl-c, and no browser need read.    *)
(***************************************************************************)
Fairness ==
  /\ WF_vars(Kernel)
  /\ WF_vars(Main /\ Turning)
  /\ WF_vars(Others /\ Reporting)

Spec     == Init /\ [][Next]_vars
FairSpec == Spec /\ Fairness

-----------------------------------------------------------------------------
(***************************************************************************)
(* Properties.                                                             *)
(***************************************************************************)
Frames == [kind : Kinds, value : Nat]

TypeOK ==
  /\ app \in Apps /\ {inbound, ready, flight, posting, table, signal + 1} \subseteq Nat
  /\ {held, changed, stop, failed, inhand} \subseteq BOOLEAN /\ file \in Nat \cup {-1}
  /\ tabs \in [Screens -> {"away", "greeting", "greeted", "watching"}]
  /\ \A t \in Screens : queue[t] \in Seq(Frames)

\* What a screen comes to show once it has drawn what it was sent.
Latest(t, kind) ==
  LET sent == {i \in DOMAIN queue[t] : queue[t][i].kind = kind}
  IN IF sent = {} THEN shown[t][kind] ELSE queue[t][Max(sent)].value

Watching == {t \in Screens : tabs[t] = "watching" /\ main.at # "starting"}

(***************************************************************************)
(* Nobody who watches is left behind: between two steps of the kernel,     *)
(* what every screen shows, or will once it has drawn what was sent to it, *)
(* is the table as it is and the jobs as they are; and the chat's pages    *)
(* agree with _busy always.  A page opened while a change is on its way    *)
(* out is not left with the table of before it, nor with one it was sent   *)
(* late.                                                                   *)
(***************************************************************************)
NothingMissed ==
  \A t \in Watching :
    /\ ~Blocks => Latest(t, "signal") = signal
    /\ Blocks /\ kernel.at = "top" =>
         /\ Latest(t, "table") = table
         /\ signal = ready => Latest(t, "signal") = ready

(***************************************************************************)
(* "Stop and join before closing" (Console.drive, BlocksServer.close).     *)
(* The join waits two seconds and a step may take longer, so a step may    *)
(* go on under the close and its changes never reach the file.  But it is  *)
(* the one in flight when the flag was set: a workspace told to stop       *)
(* between two steps leaves a journal with every change its people have    *)
(* seen or will see, however the thread and the close interleave.          *)
(***************************************************************************)
JournalWhole == file # -1 /\ file # table => inhand

(***************************************************************************)
(* A dead kernel thread reaches the main loop (console.py): whatever the   *)
(* console was waiting for, it closes the journal and gives the terminal   *)
(* back.                                                                   *)
(***************************************************************************)
DeathIsHeard == app = "console" /\ failed ~> main.at = "done"

(***************************************************************************)
(* The animation means something (_set_busy): whoever sets the signal and  *)
(* in whatever order, it does not come to rest on while nothing is         *)
(* outstanding, nor off while a message or a request is.                   *)
(***************************************************************************)
Outstanding == inbound > 0 \/ flight > 0 \/ ready > 0 \/ posting > 0

BusyMeansSomething ==
  /\ app = "chat" /\ ~Outstanding ~> signal = 0 \/ Outstanding \/ stop
  /\ app = "chat" /\ Outstanding ~> signal = 1 \/ ~Outstanding \/ stop

(***************************************************************************)
(* --journal says "where to write the journal" (zeos-chat cli.py): the     *)
(* process ends with its session closed.                                   *)
(***************************************************************************)
EndsWithItsJournal == main.at = "done" => file # -1
=============================================================================
