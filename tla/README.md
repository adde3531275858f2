# A model of zeos-demos in TLA+

zeos-demos is four demonstrations of ZEOS, an operating-system kernel whose jobs are
language-model agents: a conversation (`zeos-chat`), a table of blocks and an arm
(`zeos-blocks`), a mobile robot with one gripper in an
atrium (`zeos-stretch`), and a farm drone
(`zeos-farm-drone`). The kernel itself is another repository. What is here is the code at its
edges: sessions that step a kernel, devices on the ends of its pipes, HTTP threads that reach
in while it runs, and simulated bodies that take time to do what they were told. That is where
the concurrency is, and it is what these modules model.

## 1. Inventory

### 1.1 How the parts interact

Each demo has one **stepping thread**, which alone owns the kernel. One step delivers what other
threads queued (`_drain_inbound`), runs one tick (at most one job completes at most one command),
and then serves what the command wrote: a request to the model, a move for the arm, an order to
the body. Every other thread (an HTTP request, a model worker, a console) only appends to the
inbound queue under a lock, or sets a flag. The hard behaviours are all in the words *only* and
*under a lock*: what a thread read before it queued, what it does in two locked steps rather than
one, and the flag that a step reads once.

### 1.2 Components

| Component | State | Operations | What is hard | What makes it correct |
|---|---|---|---|---|
| chat: model device (`llm.py`) | `_outstanding`, `_next_ticket`, one worker thread per ticket | `ask`, `_answer`, `abandon`, `in_flight` | a worker finishing while threads give up on it; a check and a delivery that are two steps | one terminator per request; one party owes it; the busy count has a worker behind it |
| chat: conversation (`jobs.py`, `session.py`, `web/server.py`) | inbound queue, two pipes, the job's place in its turn, its `abandoned` flag | `say`, `interrupt`, `_abandon`, `step`, `_drain_inbound`, `converse` | stop, barge-in and the end of an answer in any order; a pipe at its limit; a flag and a marker that say the same thing by two routes | never waits on what nobody will send; no delivered word lost; undisturbed turns exact |
| chat: research, letters, services (`jobs.py`, `retrieval.py`, `session.py`) | the findings, the letter, one reply pipe shared by all jobs of a descriptor | `deep_research`, `send_email`, `send_report` | two research jobs reading one reply pipe; a letter pressed twice; a stop on another thread | no finding lost; a press is answered; research ends |
| chat: page (`web/server.py`, `cli.py`) | busy signal, task strip, reports, one queue per open page | `_note_task`, `_on_reply`, `_set_busy`, `watch`, `stop` | a signal set by three threads; a page that arrives while a change goes out | the strip shows what runs; the signal settles on the truth; nobody is left behind |
| chat: mail (`mail.py`) | a thread per letter | `deliver`, transmission, report | an exception in the thread | the person is told either way |
| blocks: table, arm, session (`session.py`, `arm.py`, `world.py`, `web/server.py`) | the table in the world store, the inbound queue, `_held`, the arm's request pipe | `step`, `hold`, `release`, `disturb`, `_serve_arm`, `Arm.ask` | a read-modify-write from another thread; two deliveries that are one move; an interlock of one boolean | jobs see whole tables; the interlock does not stick; no block is lost |
| blocks: planner (`planner.py`) | none but the last command's kind | `StubPlanner._stack`, `_tidy`, `_target` | a plan on a table someone else changes; a colour that is on two blocks | jobs finish; a finished job did what it was told; one block is meant throughout |
| blocks: console (`console.py`) and pages | the paint queue, `_stop`, `failure`, the journal | `drive`, `_turn`, `_settle`, `close`, `watch`, `_stream` | a kernel thread that dies; end of input with work outstanding; closing under a step | a death is heard; the journal is whole; nobody watching is left behind |
| blocks: `ClaudePlanner` | the last command per job, the count of empty replies | `next_command` | a count that every job shares | a reply is read for the act it means |
| blocks: schedule, generator | script, case | timed moves, random layouts | little | layouts are legal |
| stretch: body (`vla.py`, `run.py`) | the wearer lease, the command queue, the action in progress | `observe`, `advance`, `_start`, `_complete`, `_abort`, `_answer` | losing the body in mid-action; an outcome fixed when the action starts | one answer per order; no order runs on a body it has lost |
| stretch: live page (`live.py`, `recording.py`) | `_inbox`, the crash slot, recordings by `(job, issued)` | `once`, `loop`, `post`, restart, replay | a restart posted between two locks; orders posted with a restart | the stepping thread survives; recorded and replayed runs agree |
| farm: drone and behaviours (`sim.py`, `farm.py`, `rules.py`, `policies.py`, `run.py`) | position, altitude, battery, command queue, alarm; a transcript per behaviour | `observe`, `advance`, `_start`, `_drain`, `_alarm`, `_abort`; the guard; six policies; `act` | a preemption at any moment; what a transcript says of a drone somebody else flew since | kept on the farm; a spent battery is brought home; every behaviour finishes |
| farm: PX4 link, camera (`px4.py`, `camera.py`) | pending coroutines, telemetry, motion in hand, photo queue and folder | `_begin`, `_finished`, `_halt`, `check`, `park`, `snap`, `file_into` | three clocks: PX4, its telemetry, the stepping thread; a coroutine that outlives its motion | a cut motion stays cut; an answer is true; a morning starts on its pad |
| farm: live page (`live.py`, `recording.py`) | as stretch, with its restart as a flag | as stretch, and controls that are one at a time | what was possible when clicked and is not when acted on | as stretch |
| Claude sources (`claude.py` of farm and stretch) | the last command per job | `one_command`, `check_credentials`, `next_command` | a reply that quotes what was done before it says what to do | each act once |
| ZEOS kernel | external | | | |

`PROJECT.json` lists every component with its files and, under `hazards`, each place where one of
these goes wrong, with the property that watches it or the reason none does.

### 1.3 What the kernel is taken to do

The modules rest on what this repository relies on: one command completes per tick; a blocking
read takes everything waiting on the pipe; a delivery that does not fit a full pipe is refused
whole; the most urgent runnable job runs; `stdin` and world objects are latched before a command
that uses them is composed.

## 2. Plan

1. **Done.** `RequestStream` (abstract) and `LlmAdapter`: the device every conversation waits on.
2. **Done.** `Conversation`, composing `LlmAdapter` with the session, the job and the web server.
3. **Done.** `Workspace`: blocks, the table, the hands and the two jobs.
4. **Done.** `Body` and `Atrium`: Stretch's body under any behaviours, and under those of the case.
5. **Done.** `Research`: the long job, the letters and the page's record of them, over
   `RequestStream` (what `LlmAdapter` promises) in place of the device.
6. **Done.** `Drone` and `Farm`: the drone, and a morning under the behaviours of the case;
   `Airframe`: the same drone flown by PX4, with the camera.
7. **Done.** `Live`: the pages of the farm and the atrium, their recordings, a kill, a replay.
8. **Done.** `Front`: the chat's and the blocks' pages, the console, busy signal and shutdown.
9. **Done.** `Claude`: a language model in the seat.
10. **Done.** Proofs of `Live`, `Research`, `Front`, `Claude`, `Airframe`, `Farm` (with `Drone`) and
    `Atrium` (with `Body`): section 6.
11. **Done.** Proofs of `Workspace`, of `Conversation` together with its device, and of where the
    words of `Research` are: section 6.
12. After that: an abstract order book (each order answered once) that `Body` and `Drone` both
    implement; a second tidy from the blocks' page; a photo filed after a restart.

## 3. The modules

### 3.1 `LlmAdapter` and `RequestStream`

`LlmAdapter` is `LlmAdapter` of `zeos-chat/src/zeos_chat/llm.py`. `outstanding` is the set of
keys of `_outstanding`; `worker[t]` is where ticket `t`'s thread is in `_answer`; `dropped[h]`
is the list `abandon` popped under the lock and has not delivered for yet. Each locked region
is one action; a delivery, which happens outside the lock, is another. So `PullWanted` (the
check) and `DeliverPiece` are two steps, as they are in the code, and so are the pop in
`abandon` and each `ABANDONED` it delivers.

`log[t]` is history: what was delivered on behalf of `t`. The pipe carries no ticket.

`RequestStream` says what the device promises with no threads or locks: a request is opened
once, streams pieces, is settled for one reason, and closes with the one matching terminator.
`ImplementsRequestStream` is the refinement.

### 3.2 `Conversation`

`Conversation` extends the adapter (`InitAdapter`, and its actions, are used as they stand: the
proofs carry the device's invariant along) and adds the inbound
queue, the two pipes, the stepping loop and the job. Its actions compose: `Wake` is the
adapter's `DeliverAbandoned` and an append to the inbound queue, `Worker` the adapter's worker
step with each delivery queued, `DrainAsk` the adapter's `Ask` at the end of the step whose tick
wrote the request.

`Say` and `Stop` are `ChatServer.say` and `interrupt`; `GiveUp`, `Wake`, `Tell` are the parts of
`_abandon` in order (pop, deliver, set the job's flag), and `Post` is the message itself. The
job is a program counter over the commands of `converse`: read stdin, write the topic, ask (or
spawn), read the reply pipe, write what was read, look whether the turn is over. `StreamPiece`
is `stream_piece`: all the text of one arrival, and whether a terminator was in it.

Text is abstracted to words: the `k`th thing delivered for ticket `t` is the word `<<t, k>>` (`nth`
on an item, history like `of`: no guard reads either), so that a word can be followed to where it was
written. A message is its number; the device's windows are left out. `OtherTick` stands for every tick another job uses.

### 3.3 `Workspace`

`store` is the table in the world store. The kernel thread's actions follow `Session.step`:
`BeginStep` reads the hold once, `DrainOne` applies one queued delivery, `Compose` asks the
planner when a job's command begins, `Issue` lets that command take effect later (`Quit` is the
one command of one token), `Serve` and
`Publish` are the two deliveries of `Arm.ask`. A hand's actions follow `disturb`: `LookAt` reads
the world store one position at a time, `DeliverSource` and `DeliverDestination` queue the whole
contents of the two positions. A page's drag (`Reach`, `Drop`, `Leave`) holds and releases; a
typed move (`Type`) does neither, as in `console.py`.

`Target`, `CommandFor`, `TidyCommands` and `StopAfterSaying` are the stub planner. A sentence is
abstracted to the goal it parses to: what, from where if said, and to where.

`raced` is history: some hand began to read while the table was not at rest, or a step began
while a hand was acting. `placed` and `plain` are history for `OneBlockIsMeant`.

### 3.4 `Body` and `Atrium`

`Body` is `SimulatedStretch`. `Embodied`, `Disembodied` and `Written` are the cases of `observe`;
`Complete`, `CoffeeReady` and `Start` the parts of `advance`, which the session calls before and
after every tick, so that everything else happens in a state where the body is busy or has nothing
queued (`Settled`). What an action will have done is decided when it starts (`Outcome`) and written
when it ends. The clock is abstracted: an action under way may be due or not. `NextBody` puts any
commands, in any order, from any behaviour, on the other side.

`Atrium` extends it with who is on the other side in the case. The lease (`Grant`, `Revoke`) is the
kernel's. A behaviour decides a command by its descriptor's rules from the world's status lines
(`TidyNext`, `BrewNext`, `DeliverNext`, `SmokeNext`), says it some tokens later, and reads the
answer; in between it may lose the body, and what it says then is what it decided before. People
order, set off the alarm, lay the table and light the hotplate (`Atrium.act`). A behaviour that
is a list of steps remembers its last command (`last`), one that is a list of rules does not.

`owed`, `laidMidPut`, `delivered`, `relit`, `leaving` and `crossed` are history.

### 3.5 `Drone` and `Farm`

`Drone` is `sim.py` with the map of `farm.py`: `Embodied`, `Disembodied`, `Written`, `StartCommand`,
`Complete`, `RunsDown` (`_drain` and `_alarm`) and what may happen to the farm under it. It has the
shape of `Body`, and one difference that matters: a *motion* stops when its behaviour loses the
drone and a *look* is finished, whoever has the drone by then (`StopsFor`). Where a flight that is
cut has got to is left open along its way (`CutShort`).

`Farm` puts the case on the other side. A policy of `policies.py` is a function of its job's
transcript; `mind[j]` keeps what such a function reads out of it: the last place and height it was
told, the looks, what it has written, what was vetoed. `patrol`, `vehicle_check`,
`livestock_check`, `fire_watch`, `find_item` and `battery_return` are the six functions, and
`Decide`, `SayOrder`, `Land` (the guard of `rules.py` lets it through) or `Vetoed` the life of a
command. Deeds are the controls of the page (`Farm.act`).

### 3.6 `Airframe`

`px4.py`, where the same drone is flown by PX4. Three views of one flight are kept apart: where PX4 is
(`mode`, `at`, `up`), what its telemetry last said (`inAir`, `latest`), and what the farm believes
(`position`, `altitude`). `pending` are the coroutines of the link's thread: a takeoff waits until
the telemetry has shown takeoff mode and then left it, and only then sends its flight. The farm
acts on the telemetry: `There` ends a motion, `Halt` holds, `Restart` and `Parked` are `park`. `TakePhoto` and `KeepPhoto` are the camera's
thread. What to fly comes from `Farm` and is left open.

A motion may be cut, and a morning restarted, at any moment, and a motion ends as soon as the position
and the height agree (`There`), whatever the stream that says the drone is in the air has got to. So a
climb may be done while its takeoff's coroutine still waits to see takeoff mode left; what it then sends
is the flight that was just done. What goes wrong is kept by a history variable and excepted by name:
`astray` is set when a motion is cut with its takeoff still to come or under way, or a morning is
restarted before the telemetry shows the takeoff (see 4.1), and cleared by the next restart.

Timing taken for granted is only PX4's (`Unhurried`): to climb or to travel from one end of a flight to
the other takes longer than the streams lag, than a hold takes to be sent, and than a coroutine takes
to see that the flight mode changed. Further: a takeoff outlasts subscribing to the flight mode, coroutines
start in the order they were asked for (`ItsTurn`), and a position heard is the drone's at the model's
grain. One thing the code does and no property is about: a motion begun after a climb was done in this
way ends takeoff mode, the old coroutine's flight then overrides it, and the new motion runs to its
timeout (`TimesOut`), which stops the farm.

### 3.7 `Live`

`live.py` and `recording.py` of both apps. On the farm a click is judged on an HTTP thread (`Judge`, with
`Possible`) and then queued under the lock taken anew (`Queue`), so any number of threads may be between
the two; a restart is a flag (`AskRestart`). The atrium queues what it has a control for, a restart too
(`AskStretch`). Nobody waits for anybody: a click comes at any place of the stepping thread. The latter goes through `once` and `loop` one locked region at a
time (`Open`, `TakeRestart`, `TakeClicks`, `Act`, `Step`, `Answered`, `FlushSteps`, `FlushJournal`).
`buffered` is what was written and `disk` what was flushed: commands are flushed one by one, step
lines and the journal at the end of a step. `Kill` keeps the disk only. `Replay` loads a recording
and re-runs it: a step that asked its source when it was lived asks again, and needs its command.
A build may raise, the first or a later one (`FailsToBuild`), and a close gives up on a thread that waits for a
model's answer or for the drone to be parked (`Outlasts`).

`misjudged` and `between` are history: the controls judged possible while another like them was in a
thread's hands or taken and not yet under way, and whether a restart fell between the atrium's two
locks. `ClicksNeverStopIt` and `OneOfEach` except exactly these.

### 3.8 `Research`

The background jobs of the chat: `deep_research` as a program counter over its commands, its search, its
request (an instance of `RequestStream`, one per job), the two services behind the page's email
buttons, the thread a letter is sent on, and `ChatServer`'s own record: `_tasks`, `_reports`,
`_on_reply`. A stop is an HTTP thread that retires the strip's jobs one by one while the kernel
goes on. All jobs of a descriptor share `hear` and `found`, and a read takes everything. A word is named
by its job and its place in the stream, and a write is a set of words: within one write their order is
not kept, between writes it is.

A press hands its letter in (`EmailConversation`, `EmailReport`) and then makes its request (`Request`),
in two deliveries; presses overlap as the people at the page like. `robbed` is history: the presses
whose letter, or findings, the job of another press read.

`Sessions` are bounds of one session each. Pipes are never full here, the inbound queue of
`Conversation` is folded into the pipes it feeds, and two answers at a door drained in one step are
one (`echo`), not a reply on the page.

### 3.9 `Front`

Who watches: `ChatServer`, `BlocksServer` and `Console`, each a kernel on a daemon thread, other
threads that queue, and screens with a queue each. `Kernel` goes through `Session.step` as far as a
front sees it; `Connect`, `GreetTable`, `GreetActivity` and `Stream` are a page from `watch` to its
loop; `Say` and `Behind` are an HTTP thread that queues and then sets the busy signal; `Main` is
the console's `drive`, or the chat's wait for ctrl-c. What is shown is abstracted to a version of
the table and a count of what runs.

`Close` waits for nothing: the join's two seconds are over before the kernel's step is, or after. What
the file then has is `file`, the changes of the table among the events there are (a chat's kernel
thread closes its own session); `inhand` is history, whether a step was in flight when the workspace was told
to stop. `Crossing` lets a job finish in the step that started one. It is false: see 7.

### 3.10 `Claude`

`claude.py` of the farm and the atrium and `ClaudePlanner` of the blocks. The model behind the API
reasons well; what varies is the *manner* of its reply. `Quoted` is which commands a reply holds in
which order, `FirstFresh`, `EndsOn` and `FirstOrBare` are the three rules for the one it means,
`Issue` what becomes of it. Every source is given every manner. `Misleading` names those that its rule
reads for another command than the one meant: a report to the farm, planning ahead to the atrium, a recap
or a report to the table. What comes of one is followed to the act (`misread`, and `again` for acts that were
done over), and what it may cost is what the properties say.

## 4. What the runs show

| Run | Result | Shows |
|---|---|---|
| `adapter` | holds | one terminator per request, at most one stray piece, one debtor, every counted request has a worker, every request terminates, `RequestStream` is implemented |
| `conversation` | holds | undisturbed turns exact, no word lost, woken before the next message, every turn ends |
| `workspace` | holds | whole tables, one block meant, an exit means it is done, both jobs finish |
| `atrium` | holds | one answer per command, one cup, the room as the story's checks ask, the morning ends |
| `farm` | holds | kept on the farm, no look of two places, a spent battery is brought home, every behaviour finishes |
| `airframe` | holds | a motion stays cut unless its takeoff was to come or under way, an answer is true, a morning starts on its pad, photos are kept |
| `live` | holds | what is on disk replays, and to the journal recorded; no click stops the farm, and one the atrium only between its two looks; one of each at a time but for clicks judged side by side |
| `research` | holds | no finding lost or doubled, the strip true, a press answered unless another press's job read its letter, lone research ends |
| `front` | holds | nobody watching is left behind, a journal whole unless a step was in flight at the stop, a death heard, the busy signal true |
| `claude` | holds | each act once and in order but for one that a misread reply has done over, every job finishes |
| `idle_stop` | **violated** | `StoppingNothingCutsNothing` |
| `farm_stale` | **violated** | `MorningEnds` |

### 4.1 The disagreements

Two are runs of the project, the two that a person using the demo meets most easily.

- **`idle_stop`.** `interrupt` sets the job's flag whether or not a turn is in progress, and only
  the end of a turn clears it. Stop pressed on a conversation at rest ends the *next* turn after
  its first arrival. The server names this very symptom as one that was fixed for `say`.
- **`farm_stale`.** A behaviour's height is its last answered climb (`Seen.altitude`), until a
  notice tells it the drone is another one. Fire-watch climbs to 120 m, battery-return takes the
  drone home, fire-watch gets it back on its pad and asks for the panorama it believes itself high
  enough for. The drone refuses, fire-watch asks again, and the morning never ends.
  `tests/test_any_morning.py` says every morning of clicks must leave nothing running; its seeded
  mornings draw no battery failure. `farm` has no morning with both, which is the only bound its
  `MorningEnds` needs.

The others each have a configuration that TLC finds violated, to be run by hand:

| Configuration | Property | What happens |
|---|---|---|
| `MCLlmAdapterStray.cfg` | `NothingAfterAbandoned` | `_answer` looks its ticket up and then delivers; an abandon between the two puts the chunk after the `ABANDONED`. The comment on the table (llm.py:142) says such a chunk is dropped. What is true is `AtMostOneStray`. |
| `MCConversationBargeIn.cfg` | `RepliesFindTheAsker` | `_abandon` ends a turn by a flag and a marker. A job that is writing looks at the flag and leaves the marker, which ends the next turn: the conversation is one terminator behind from then on (against llm.py:59). `BoundedDrift` bounds how far, `NeverDeaf` shows it never hangs, `NoWordLost` that the words are shown. |
| `MCWorkspaceRaced.cfg` | `NoBlockLost` | A drag that begins and ends inside a step reads the table while the arm writes it: a block is in two places or in none (against session.py:143). |
| `MCAtriumOrders.cfg` | `EveryDeskServed` | Where a coffee goes is one object; a second order taken while the first brews sends that coffee to the second desk and is itself refused (against ZEOS_FEATURES.md:28). |
| `MCAtriumSmoke.cfg` | `AlarmAnswered` | The smoke response skips its `navigate` "if `stretch.position = hotplate` already" (smoke-response.md:46). When the alarm finds the body there in the middle of a put, which is finished before the body is given up, the response may read that line just before the put moves the body away; its `press` is then refused (vla.py:248), it exits, and the hotplate stays on, against the story's own check (story.py:60). |
| `MCAirframeCut.cfg` | `StopsTheAction` | A motion cut during its takeoff: PX4 holds, the takeoff's coroutine sees its mode left and sends the flight (px4.py:180-199), against "Stop the action in hand where it is" (sim.py:239). `Halted` excepts this and no other cut. |
| `MCLiveTwice.cfg` | `NeverTwo` | Two HTTP threads each judge the dawn possible before either has queued it, or one judges while the step has taken another and not begun it; two patrols set out (live.py:521, against live.py:522). |
| `MCLiveRestart.cfg` | `NothingStopsIt` | The atrium's `once` looks for a restart under one lock and takes the inbox under another; a restart posted between reaches `act`, which raises, and the stepping thread is gone (live.py:213, 227). |
| `MCResearchSubject.cfg` | `IsForWhatWasAsked` | A research job reads what it is for from `session.topic` when it first runs, by when the conversation may have written the next message's (jobs.py:226, 295). |
| `MCResearchPresses.cfg` | `EveryPressAnswered` | Two presses overlap: the first job's read takes both letters, or the findings both presses saw, and the second job blocks on an empty pipe (server.py:382, jobs.py:358). `SentOnce` holds all the same. |
| `MCFrontJournal.cfg` | `EndsWithItsJournal` | The chat's `main` returns after `stop`, which joins nobody; the daemon thread that would close the session is killed with the process (cli.py:265). |
| `MCClaudeReports.cfg` | `NothingAgain` | The farm's rule skips a command that equals the *last* one, which after `read stdin;` is the read; a reply that quotes the write it just completed, as its docstring has one do, sends the write again. The atrium's takes the last command, for just this reason. |

### 4.2 Also checked

Properties the modules state and the runs above do not list, to keep the runs to what is hardest to
see otherwise; each holds when added to the configuration named. Those in section 6.1 are also proved.

| Configuration | Properties |
|---|---|
| `MCConversation.cfg` | `TypeOK`, `NeverDeaf`, `BoundedDrift` |
| `MCWorkspace.cfg` | `TypeOK`, `NotHeldByNobody` |
| `MCBody.cfg` (any behaviours, any commands) | `BodyTypeOK`, `OneAnswerEach`, `OnlyForItsWearer`, `EachItemSomewhere`, `FinishesFirst` |
| `MCAtrium.cfg` | `TypeOK`, `NoVainWait` |
| `MCFarm.cfg` | `TypeOK`, `NoVainWait`, `EndsWell` |
| `MCAirframe.cfg` | `TypeOK` |
| `MCResearch.cfg` | `WholeDocuments`, `SentOnce` |
| `MCFront.cfg` | `TypeOK` |
| `MCLlmAdapter.cfg` | `AdapterTypeOK` |

### 4.3 Bounds

- `adapter`: two descriptors, two threads, two requests of up to two chunks. Two threads and one
  descriptor are what it takes for both to try to pop one ticket; two requests, for one `abandon`
  to drop two; two chunks, to tell one stray piece from two. The theorems in section 6 have no
  bound.
- `conversation`: one thread, two messages, one stop, one chunk per answer and pipes of two. Two
  messages and a stop put three abandons in every order around two turns; a pipe of two fills with
  one piece and one terminator, so a third delivery is refused. One thread's abandons already
  overlap the worker, the stepping thread and the job; two threads inside `abandon` at once are
  `adapter`'s subject. `idle_stop` and `MCConversationBargeIn` need two chunks and a pipe of three,
  so that a cut answer has something left and nothing is refused.
- `workspace`: three positions and two blocks of one colour, as one stack and as two, four goals
  (by colour with a place, by colour where it already should be, by name, and a colour nobody
  has), a tab and a console, two moves by hand and one sentence. Two of a colour is the least
  that makes a colour ambiguous; three positions the least that make `CommandFor` choose where to
  set aside.
- `atrium`: two orders, so that the second can overlap any part of the first, an alarm, one item,
  and one more thing a person does (`MaxDeeds`) at any moment. `MCAtriumOrders` has two desks, to
  tell them apart, and leaves `MaxDeeds` out. `MCBody` has one behaviour of each release policy, two
  items and a stdin of one, so that an answer meets a full pipe.
- `farm`: two paddocks, the pad, a place to watch the road from and the road, twelve jobs, and
  seven sets of deeds (`MCMornings`), each deed once at any moment or never. A set pairs behaviours
  that preempt one another (vehicles and a fire, a search and a fire, a vehicle and a battery that
  fails, a battery that fails after it was charged) or that change the counts (calves, a stray and a
  trough). A second dawn comes with a second patrol.
- `airframe`: the pad and one place, three actions, two mornings, one refusal. Three actions are a flight, what
  cuts it, and what comes after; two mornings, one restart.
- `live`: four clicks of two controls and the restart, two steps a morning, three mornings. Two steps are what it
  takes for one to be on disk while the next is written.
  Four clicks are two judged side by side and what comes before and after them.
- `research`: two messages, each of which may start research; two chunks side by side, one with a
  stop or two presses. `SmallSessions` lists the combinations.
- `front`: one tab and the console, two changes of the table, one connection, one request to the
  model, two requests by people in the chat (one to be outstanding when the other ends) and one
  elsewhere, and two quiet polls for `SETTLED`.
- `claude`: two jobs of two acts, `EmptyLimit` 2 for `EMPTY_LIMIT` 8, three idle replies (one more
  than the limit, so that the count can be cleared and reached) and one cut.
- `CHECK_DEADLOCK FALSE` is in every configuration but `MCBody.cfg`: the counters run out, an answered
  adapter has nothing left to do, a held workspace is meant to stand still, a process ends, and a
  morning is meant to end.

Jobs of one behaviour run one after another in `atrium` (`Runnable`): that is what the kernel's
`queue` policy is taken to mean by "in order". Two at once would share one answer pipe, and one could
read the answer the other is blocked on; `pipes.yaml` has one reply channel per behaviour.
`EndsWell` leaves out a table laid in the middle of a put (`laidMidPut`: the outcome fixed before is
written after, and the item is in two places until it is tidied again), an alarm in the middle of
an order (`crossed`: `brew-coffee` is a list of steps, and after the alarm has moved the body its
`brew` is refused) and an alarm as the body is leaving the hotplate (`leaving`: see
`MCAtriumSmoke.cfg` in 4.1). `MCAtrium.cfg` has one alarm a morning; `MCAtriumSmoke.cfg` has two.

`workspace` has `CONSTRAINT Unraced`. It discards states in which a hand raced the kernel. `raced`
is never reset; `JobsSeeAWholeTable` says nothing once it is set, `JobsFinish` is satisfied once it
is set, and `OneBlockIsMeant` and `ExitMeansDone` speak of runs with no hand in them, which are
never raced. So nothing is hidden: what happens after a race is what `MCWorkspaceRaced.cfg`
shows, without the constraint.

`OneBlockIsMeant` asks for `plain`: at the time the stacker was told, no stack held a colour
twice. Without it TLC shows both reds of one stack arriving: "the red block from 1" resolves again
after the first has gone. `world.py` assumes no stack ever does hold two, and a generated layout
does not; tidying, which puts everything on one stack, is what breaks the assumption.

### 4.4 Fairness

- Workers, and threads inside `abandon` or `disturb`, run (`WF`): they are operating-system
  threads that hold no lock while they wait, and the model's stream ends or raises.
- The stepping thread loops (`WF` on `Kernel`, on `Step`).
- `SF` on the commands of `converse`, and on `Command` in `Workspace`: other ticks
  (`OtherTick`) may come in between any number of times, and the job's own command may become
  impossible and possible again, but the jobs above it in priority are a few commands long, so a
  command that can be decoded again and again gets decoded.
- In `Atrium`, only that something the system can do is done (`WF` on all of `System`): the loop
  steps for ever, and each step runs a tick and advances the body to its time.
- In `Farm` likewise (`WF` on `System`, the behaviours and the drone): no deed has to happen.
- In `Claude`, that the stepping thread goes on; a source may fail. `live` and `airframe` check
  safety only, with no fairness.
- In `Research`, that some thread that can go on does (`WF` on `Progress`). Each has a bounded
  number of steps to take, so nothing finer is needed.
- In `Front`, the kernel's thread, the main thread's loop, and an HTTP thread that has queued and
  is yet to set the busy signal. The model need not answer and no browser need read.
- Nobody has to speak, stop, drag, type, press, click or order. A person who reached for a block
  lets go (`WF(Reaching)` in `Workspace`; in `Front` it is part of `Reporting`).

## 5. Mutants

Each property has a mutant in the module, marked `Mutant:`: the definition as a plausible slip
would leave it (a ticket looked up and never popped, a flag not cleared, an off-by-one at the
pipe's limit, one of two publications missing). `PROJECT.json` pairs each with the property TLC
must then find violated. They are no part of any specification.

## 6. What is proved

Each `_proofs` module states its theorems for every value of the constants its module declares,
under the assumption named there, and proves them from an inductive invariant: a strengthening
`IInv` that the initial states satisfy, that each action keeps, and that implies the property. TLC
was asked about its parts, on the module's configuration, before they were proved. Hypotheses other than the
module's assumption are in the theorem's statement, and in the last column here.

### 6.1 The theorems

| Module | Theorem | Says, of `Spec` | Under |
|---|---|---|---|
| `Conversation_proofs` | `TypeCorrect` | `AdapterTypeOK`, of the device under any callers | `AdapterAssumption` |
| | `CompletedOnce`, `StopLeavesOneStray` | `OneTerminator`, `AtMostOneStray` | |
| | `OwedByOne`, `CountedHasWorker` | `OneDebtor`, `CountedIsWorked` | |
| | `Implements` | `ImplementsRequestStream` (refinement) | |
| | `WokenBeforeSpokenTo`, `WordsAreKept` | `WokenFirst`, `NoWordLost` | `ConversationAssumption` |
| | `UndisturbedTurnsAreExact` | `UndisturbedTurns` | |
| | `NeverLeftDeaf`, `ConversationTypes` | `NeverDeaf`, `TypeOK` | |
| `Workspace_proofs` | `NoMoveHalfSeen`, `OneIsMeant` | `JobsSeeAWholeTable`, `OneBlockIsMeant` | `WorkspaceAssumption` |
| | `ExitedWhenDone` | `ExitMeansDone` | `N >= 3` |
| | `TheHoldIsSomebodys`, `WorkspaceTypes` | `NotHeldByNobody`, `TypeOK` | |
| `Live_proofs` | `TypeCorrect` | `TypeOK` | `LiveAssumption` |
| | `ReplaysReachTheEnd`, `JournalsAgree` | `RecordingsReplay`, `JournalsMatch` | |
| | `ClicksAreHarmless`, `OneAtATime` | `ClicksNeverStopIt`, `OneOfEach` | |
| | `NoActTwice` (of `SeatSpec`) | `EachActOnce` | `ClaudeAssumption` |
| `Research_proofs` | `TypeCorrect`, `TheStripIsTrue` | `TypeOK`, `StripIsTrue` | `ResearchAssumption` |
| | `FindingsAreKept` | `NoFindingLost` | `ResearchAssumption` |
| | `DocumentsAreWhole` | `WholeDocuments` | |
| | `FindingsStayOut` | `DocumentsKeptApart`: whose document is open, and whose words may be shown | |
| | `LettersGoOnce` | `SentOnce` | |
| `Front_proofs` | `NobodyIsLeftBehind` | `NothingMissed` | `FrontAssumption`, `~Crossing` |
| | `TheJournalIsWhole` | `JournalWhole` | |
| `Airframe_proofs` | `NoPhotoLost` | `PhotosKept` | `AirframeAssumption` |
| | `StopsWhereItIs`, `DoneIsDone` | `Halted`, `TruthTold` | |
| | `MorningsStartParked` | `StartsOnPad` (of steps) | |
| `Farm_proofs` | `StaysIn`, `LooksAreWhole` | `KeptIn`, `LooksWhole` | `DroneAssumption`, `FarmAssumption` |
| | `SpentBatteryHeeded` | `AlarmHeeded` | |
| `Atrium_proofs` | `BodyTypes`, `OneAnswerAlways` | `BodyTypeOK`, `OneAnswerEach`, of any behaviours | `BodyAssumption` |
| | `NeverForAnother` | `OnlyForItsWearer`, of any behaviours | |
| | `FinishesWhatItBegan` | `FinishesFirst` (of steps), of any behaviours | |
| | `MorningUsesTheBody` | a morning is one of any behaviours | `AtriumAssumption` |
| | `EachOrderAnswered`, `NeverInVain` | `OneAnswerEach`, `NoVainWait` | |
| | `NoCupIsLost`, `MorningTypes` | `OneCup`, `TypeOK` | |
| | `EverythingEndsWell` | `EndsWell` | |
| | `NoItemIsLost` | `EachItemSomewhere`, of any behaviours | `BodyAssumption` |

### 6.2 The arguments

**`LlmAdapter`.** None of the five invariants is inductive alone. That a terminator is delivered
once depends on who is about to deliver it, so `AdapterInv` says, for each ticket, that the table, the
worker that took it out (`ending`) and each thread that took it out (`dropped`) exclude one
another, that the log has no terminator while any of them holds it and exactly one when none
does, and that a piece after the terminator can only be the one a worker was holding when its
ticket was taken. The refinement uses it again: each action maps to the abstract step of the same
ticket or to a stutter, because `StageOf(t)` is determined by the one party that owes the terminator.

**`Conversation`.** Every step of a conversation is a step of its device or leaves it alone
(`DeviceSteps`), so `AdapterInv` holds throughout. On it stand four arguments. `WokenFirst` speaks of a
message that has arrived; `DisplacedInv` follows it from the thread that gave the requests up, through
the queue, where no wake-up may be behind the words, and `MessageInv` says that a message is in one of
these places only. `WordsInv` is about sets of words: those delivered (`AllWords`) are the disjoint
union of those queued, on the pipe, in the job's hands and written, each once in its place, so the next
word a worker delivers is nowhere yet. `DeafInv` extends `NeverDeaf` to the whole of a turn that has
asked. For `UndisturbedTurns`, `Calm` says what the pipes look like while nobody disturbs: every
reply on its way answers the turn's own request, nothing is behind an `END`, whoever still works is
that request's worker (`CalmWorker`), and a turn that is over was answered by its own `END` and left
nothing behind. It is kept because whoever disturbs the conversation leaves it disturbed
(`StaysDisturbed`). `DeafInv` and `FlagInv` are what it needs besides: the flag is up only if somebody
set it, and a request not made yet has ended nobody's turn.

**`Workspace`.** `Shape` types the orders and the hands. Until something races, `WholeInv`: at most two
deliveries are queued and the table is whole once they are in (`Settles`); a hand that acts, acts alone
and on a table at rest, and what it read of it is still so (`Square`); and a step that has drained has
a whole table, or is one publication short of it. A job composes its command in such a step, which is
`JobsSeeAWholeTable`. `OneBlockIsMeant` and `ExitMeansDone` are about runs with no hand in them, and
`SoloInv` is about those: the move a stacker has in mind is one its table still calls for (`InMind`),
and, when a colour was said of stacks that hold it once, either no block of the colour was put
(`NonePlaced`) or one was, and from then on the destination shows it and the place it was said to be
at does not (`OnePlaced`), so no other is ever meant. `ExitedWhenDone` asks for `N >= 3`: on two
positions a block with something over it cannot be moved anywhere, the planner says so, and exits.

**`Live`.** That a recording replays is about what was flushed in which order, so the invariant
(`FilesInv`) follows the stepping thread: `LinesInv` says, for each place of its counter, which lines
of the latest morning are on disk and which in the buffer, and that earlier mornings are whole;
`AnswersInv`, that every step that asked its source has its command on disk, but for the one the
thread is asking for, which no step line on disk follows; `EndInv`, how the server came to where it
is; `ReplayInv`, how far a replay has got. For the clicks, `TurnInv` says that a restart is where the
thread would act on it only if it fell between the two looks, and `SinglyInv` that a control which was
never misjudged is in one place: with the threads that judged it, queued, taken, or under way (`Apart`).

**`Research`.** A line of the strip belongs to a job that has named itself (`StripIsTrue` is nearly
inductive); what it lacks is that messages spawn jobs in order, each once (`SpawnInv`), and that a stop
retires only who has said what it is doing (`StopInv`). `DocumentInv` is `FindingsStayOut`.
`NoFindingLost` says of each word that the set of places it is in (`Where`) has one member;
`PlacesInv` adds that a word not yet written is in none. A step then puts a new word on the pipe, or
takes one place for another in every set it touches, and `HandsInv` (a job has words in hand only
between its read and its write) is what keeps a read from dropping any. `WholeDocuments` needs the
story of a job that is alone: what waits on the pipe is its own, an end waits only when the device has
nothing more to write, and so the read that sees the end leaves nothing behind (`Calm`). For the
letters, `HolderInv` says that each one handed in is with one holder: the pipe, the job of one press, or
one letter that left. A read takes all that wait to one job and a write takes them out of it, whosever
presses they were.

**`Front`.** A screen shows something, has it in its queue, is about to be greeted with it, or is in
what the kernel's thread has yet to say: `TableInv` and `SignalInv` are that disjunction for the two
kinds of frame, by the place of the thread; `FrameInv`, that what it has in hand is true when it is
put; `StepInv`, that within a step jobs only begin, or one ends, which is where `~Crossing` comes in:
a step that ends one job and begins another leaves the count the same (see 7). `JournalInv` is about
the flag: once the workspace is told to stop, a thread that was between two steps ends without another,
so whatever is still written comes of the step that was in hand then.

**`Claude`** (in `Live_proofs`; `Claude`'s own `Init`, `Next` and `vars` are named `SeatInit`, `SeatNext`,
`seat`, for a module to hold both). `Square` relates one job's transcript to the world: the acts seen done are those that were
done, in order, but for the one whose answer is owed, which is in hand, or done, or cut short. The
rest is a case analysis of the three `one_command`s over all manners: a reply that does not mislead its
rule gives the command that is meant, and one that does gives an act the transcript shows as done, or, in
the atrium, a read (`AgainInv`).

**`Airframe`.** For photos, a queue, a hand and a folder in the order of their mornings. For flights,
while nothing was refused or astray (`Good`): what a coroutine still has to send, though its motion is
over, is a flight to where the drone is (`LeftInv`); the motion in hand is waiting to be sent, lifting
off, flying, homing, or on the ground (`HandInv`), and PX4 in takeoff is taking off for it or already
up where it was to be (`TakeoffInv`); when nothing is in hand, either the last motion ended where the
farm believes (`RestInv`), or a hold is on the link with nothing to fly after it, or PX4 has had it
(`HaltInv`). None of them assumes anything of when a cut or a restart comes. `AirframeAssumption` keeps `Nowhere` out of the places.

**`Farm`.** `PlaceInv`: every command on its way was allowed, and the one in hand began where the drone
still is, so a flight cut anywhere leads to a place of the property. For the alarm: there is one live
battery-return at most (`SoleInv`), it orders nothing but the return, holds no order while it is
owed an answer (`OrdersInv`), and reads what is in its mail before it orders again (`MailInv`); so it
believes it is home only while it has the drone on its pad (`HomeInv`), and a drone that runs down in
the air finds one that does not, or spawns one (`AlarmInv`).

**`Atrium`.** The body first, under *any* behaviours (`BodySpec`, the one `MCBody` checks): `OneEach`, a
job has one command with the body at most; `OwedInv`, the answers owed are those commands; `WornInv`, an
action in hand without its wearer is of a behaviour that finishes first. A morning is such a run
(`MorningUsesTheBody`), so all of that holds in it. Then the jobs (`JobInv`): jobs of one
behaviour are born in order and take turns (`BornInOrder`, `InTurn`), which is why one pipe per
behaviour gives each answer to the job that is waiting for it (`WaitsInv`, `MailInv`); and a coffee that
is ready finds a delivery to spawn, because each delivery that was born, or is to come, has a brewer
of its own that has poured (`CountInv`, by counting, which is why `AtriumAssumption` asks for as many
deliveries as brewers). Then the orders (`OrderInv`): commands are with the body in the order of their
urgency, later ones above earlier (`Fifo`), because only someone more urgent gets a word in;
`Overtaken` and `Overtakes` say what one whose command is behind another's may have in mind. From
that, whoever picks, carries or places finds the cup where it decided it was (`CupInv`), and a brew has
nothing of a delivery's before it or in hand (`BrewInv`), which with the delivery's priority over a new
order is `OneCup`. `MorningTypes` needs all of it: that a delivery never says `navigate` to no desk is
that an order is told before its coffee is made.

`EndsWell` is about the end of a long story, and its invariant `EndInv` tells the story in three layers,
each resting on those above. `TidyInv`: every command said or with the body is a proper one for its
behaviour (`Proper`), and the one in hand began where the body still stands; a table that is not clear
has its tidier; and, unless it was laid in the middle of a put, each item is on the table or in its
container, and will be when the action in hand is written. `AlarmInv`: there is one response at a time
and it keeps the body, so only it speaks (`OnlyItSpeaks`); from the moment it means to press until it
has, the body is at the hotplate or going there for it, except after an alarm that found the body
leaving (`leaving`, which is where `MCAtriumSmoke.cfg` finds `AlarmAnswered` false). `ErrandInv`: while
nothing was `crossed` there is one brewer, it keeps the body from its first word to its brew, its brew
can be done when its turn comes, and what it brewed is brewing, being delivered, or at the desk of the
order. `EachItemSomewhere` needs no jobs: `ItemInv` says of any behaviours that the items are sorted now
and once the action in hand is written, because only a put is about items.

`BodyAssumption` says that the items are finitely many (`TABLE` is a list), and keeps desks apart from
the kitchen and from the word `gripper` (`story.py` names them so); `AtriumAssumption` starts a morning
with its table to clear.

Some definitions are written for the prover as much as for TLC: `Updated` and `Outcome` in `Body`
(functions, not `@@`), `Flushed` in `Live`, `Latest` and `Kinds` in `Front`, `FirstFresh` in `Claude`,
`Was` and `Done` in `Airframe`, `HearAll`, `Heard` and `ToldHome` in `Drone` and `Farm`. What the
fold in `HearAll` makes of the rest of a mailbox is not reasoned about: the proofs need only that it
leaves a mind a mind, and when it says that the drone is home.

### 6.3 Model-checked only

- All liveness (`EveryRequestTerminates`, `TurnsEnd`, `JobsFinish`, `MorningEnds`, `PressesAnswered`,
  `LoneResearchEnds`, `DeathIsHeard`, `BusyMeansSomething`): it needs `ENABLED`.
- `BoundedDrift`, of `Conversation`: it counts the terminators that earlier turns left, by a sum over
  all turns.

## 7. What is not modelled, and why

- **Chat.** The cancel and new-message reflexes (they are `OtherTick`); the window a descriptor's model
  sees, captions and marks on the page (data); the senders of mail. A full pipe in `Research` is left
  out, and two research jobs on one pipe or two presses on one letter are excepted from a property, by
  name, because the code does lose something there: a refused terminator, a job parked for ever, a
  second letter merged into the first (`tests/test_mail.py:110`). Letters of one subject in
  one second share a file name and the later one overwrites (mail.py:246). A refusal is told to
  whoever asked last (server.py:339).
- **Blocks.** A second tidy or stacker at once (`/tidy` spawns one whenever it is pressed); the arm's
  report of a refusal (no modelled job reads it); reading a sentence; the console's editor and
  screen; the schedule and the generator, which are sequential and over before anything interacts.
- **Front.** A step that outlasts the join has its changes missing from the journal, as
  `JournalWhole` excepts; with `Crossing`, a job that starts and finishes between two looks leaves a page that connected in that
  moment with an activity nobody will take back. A console at end of input waits for quiet polls
  only, and so may leave piped work undone (`tests/test_console.py:472` has it so). A page opened after the
  workspace has stopped is not told (blocks server.py:192).
- **Stretch and farm.** Narration, resume notices other than what `mind` keeps, distances, times and
  angles: what may be due, and where a cut flight may have got to, is left open instead. In
  `Airframe`, a photo asked for before a restart may be filed in the new morning's folder under a
  name it shares (camera.py:78), and a look's photo may precede the gimbal's turn; only the new morning's photos are promised. In
  `Live`, the schedule a morning starts from and the snapshot a page polls.
- Calls to Claude and the turns they are shown, argument parsing, configuration, layout, checks over
  finished journals (their conditions are `EndsWell` of `Farm` and `Atrium`), Gazebo scripts and
  models: pure I/O or data, with no state that a property is about.
