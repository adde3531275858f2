---------------------------- MODULE Conversation ----------------------------
(***************************************************************************)
(* One conversation of zeos-chat, end to end: the HTTP threads behind the  *)
(* page (web/server.py), the stepping loop and its inbound queue           *)
(* (session.py), the model device (llm.py, module LlmAdapter) and the      *)
(* resident job that talks to the person (jobs.py, converse).              *)
(*                                                                         *)
(* An answer is given up in two places: the device puts an ABANDONED on    *)
(* the reply pipe, and the thread then sets a flag the job reads between   *)
(* writes.  Neither carries the request it is about, and the pipe carries  *)
(* no ticket.  The tickets on the items here, and which delivery of its    *)
(* request an item is, are history: no guard of the job reads them.        *)
(*                                                                         *)
(* A tick is one token of one job's command.  Only the tick that completes *)
(* a command of `converse` matters here; every other tick (a token on the  *)
(* way, a handler, another job) is OtherTick.                              *)
(***************************************************************************)
EXTENDS LlmAdapter

CONSTANTS
  Capacity,     \* how many unread items fit on a pipe
  MaxSays,      \* bound: messages the person sends
  MaxStops      \* bound: times the person presses stop

\* A turn asks at most once and answers at least one message.
ASSUME ConversationAssumption ==
  /\ Capacity \in Nat \ {0} /\ MaxSays \in Nat /\ MaxStops \in Nat
  /\ MaxSays <= MaxAsks
  /\ "converse" \in Descriptors

Messages == 1 .. MaxSays

VARIABLES
  inbound,    \* session._inbound, oldest first
  phase,      \* where Session.step is: draining inbound, ticking, draining the ask sink
  stdin,      \* messages waiting on user.messages
  hear,       \* what waits on llm.converse.replies, oldest first
  pc,         \* which command `converse` is on, or what its last one returned
  about,      \* the messages the current turn answers
  got,        \* what the last read of `hear` returned: which words, and whether it ended
  abandoned,  \* ctx.abandoned
  client,     \* per HTTP thread: where in say or interrupt it is, and with which message
  said, stops,\* how many messages and stops were begun
  told,       \* history: how often ctx.abandoned was set
  idly,       \* history: how often of those the conversation was at rest
  refused,    \* session.refused
  displaced,  \* history: the requests each message gave up
  shown,      \* history: per turn, the words of each write to the person
  ended       \* history: per turn, the requests whose terminator it read

kernel  == <<phase, stdin, hear, refused>>
job     == <<pc, about, got, abandoned, shown, ended>>
page    == <<client, said, stops, told, idly, displaced>>
vars    == <<device, inbound, kernel, job, page>>

\* The k-th thing delivered for t is its word <<t, k>>, when it is a piece.
Reply(t, what) == [to |-> "hear", of |-> t, nth |-> Len(log[t]) + 1, what |-> what]
Message(m)     == [to |-> "stdin", of |-> m, nth |-> 0, what |-> "message"]
Items == [to : {"hear"}, of : Tickets, nth : Nat, what : Kinds]
           \cup [to : {"stdin"}, of : Messages, nth : {0}, what : {"message"}]
Words == Tickets \X Nat

IsPiece(i)      == i.what = "piece"
IsTerminator(i) == i.what \in Terminators

Idle    == [at |-> "idle", msg |-> 0]
Nothing == [words |-> {}, ended |-> FALSE]

\* After boot: the conversation is parked on its first read.
Init ==
  /\ InitAdapter
  /\ inbound = <<>>
  /\ phase = "drain" /\ stdin = {} /\ hear = <<>> /\ refused = {}
  /\ pc = "listening" /\ about = {} /\ got = Nothing /\ abandoned = FALSE
  /\ shown = [t \in Tickets |-> <<>>] /\ ended = [t \in Tickets |-> {}]
  /\ client = [h \in Threads |-> Idle] /\ said = 0 /\ stops = 0 /\ told = 0 /\ idly = 0
  /\ displaced = [m \in Messages |-> {}]

\* Session.deliver: any thread, lands on a later drain.
Put(item) == inbound' = Append(inbound, item)

(***************************************************************************)
(* The person: HTTP threads.                                               *)
(***************************************************************************)
\* Mutant: the words are delivered before the answer in progress is given up.
SayPostsFirst(h) ==
  /\ client[h].at = "idle" /\ said < MaxSays
  /\ said' = said + 1
  /\ Put(Message(said'))
  /\ client' = [client EXCEPT ![h] =
                  IF InFlightFor("converse") # {} THEN [at |-> "giving up", msg |-> said'] ELSE Idle]
  /\ UNCHANGED <<device, kernel, job, stops, told, idly, displaced>>

\* ChatServer.say looks at in_flight_for once, and believes it from then on.
Say(h) ==
  /\ client[h].at = "idle" /\ said < MaxSays
  /\ said' = said + 1
  /\ client' = [client EXCEPT ![h] =
                  [at  |-> IF InFlightFor("converse") # {} THEN "giving up" ELSE "posting",
                   msg |-> said']]
  /\ UNCHANGED <<device, inbound, kernel, job, stops, told, idly, displaced>>

\* ChatServer.interrupt gives up unconditionally.
Stop(h) ==
  /\ client[h].at = "idle" /\ stops < MaxStops
  /\ stops' = stops + 1
  /\ client' = [client EXCEPT ![h] = [at |-> "giving up", msg |-> 0]]
  /\ UNCHANGED <<device, inbound, kernel, job, said, told, idly, displaced>>

\* _abandon, first half: the device forgets the request, under its lock.
GiveUp(h) ==
  /\ client[h].at = "giving up"
  /\ Abandon(h, "converse")
  /\ client' = [client EXCEPT ![h].at = "waking"]
  /\ displaced' = [m \in Messages |->
                     IF m = client[h].msg THEN dropped'[h] ELSE displaced[m]]
  /\ UNCHANGED <<inbound, kernel, job, said, stops, told, idly>>

Wake(h, t) ==
  /\ DeliverAbandoned(h, t)
  /\ Put(Reply(t, "ABANDONED"))
  /\ UNCHANGED <<kernel, job, page>>

\* Nobody has said anything that was not answered.
AtRest ==
  /\ pc = "listening" /\ stdin = {} /\ inbound = <<>> /\ hear = <<>> /\ outstanding = {}
  /\ \A h \in Threads : client[h].msg = 0

\* _abandon, second half: ProgramSource.abandon sets the flag, answer or no answer.
Tell(h) ==
  /\ client[h].at = "waking" /\ dropped[h] = {}
  /\ abandoned' = TRUE
  /\ told' = told + 1
  /\ idly' = idly + IF AtRest THEN 1 ELSE 0
  /\ client' = [client EXCEPT ![h] =
                  IF @.msg = 0 THEN Idle ELSE [@ EXCEPT !.at = "posting"]]
  /\ UNCHANGED <<device, inbound, kernel, pc, about, got, shown, ended, said, stops, displaced>>

Post(h) ==
  /\ client[h].at = "posting"
  /\ Put(Message(client[h].msg))
  /\ client' = [client EXCEPT ![h] = Idle]
  /\ UNCHANGED <<device, kernel, job, said, stops, told, idly, displaced>>

Client(h) == GiveUp(h) \/ (\E t \in Tickets : Wake(h, t)) \/ Tell(h) \/ Post(h)

(***************************************************************************)
(* The model's worker threads: the device's steps, deliveries queued.      *)
(***************************************************************************)
Worker(t) ==
  \/ /\ PullWanted(t) \/ PullUnwanted(t) \/ ModelFails(t) \/ Retire(t)
     /\ UNCHANGED <<inbound, kernel, job, page>>
  \/ /\ DeliverPiece(t) \/ DeliverFailure(t)
     /\ Put(Reply(t, "piece"))
     /\ UNCHANGED <<kernel, job, page>>
  \/ /\ DeliverEnd(t)
     /\ Put(Reply(t, "END"))
     /\ UNCHANGED <<kernel, job, page>>

(***************************************************************************)
(* The kernel thread: Session.step, one phase at a time.                   *)
(***************************************************************************)
Fits(i) == IF i.to = "hear" THEN Len(hear) < Capacity ELSE Cardinality(stdin) < Capacity

\* One item of _drain_inbound.  What does not fit is refused whole and not retried.
DrainOne ==
  /\ phase = "drain" /\ inbound # <<>>
  /\ LET i == Head(inbound) IN
       /\ stdin'   = IF Fits(i) /\ i.to = "stdin" THEN stdin \cup {i.of} ELSE stdin
       /\ hear'    = IF Fits(i) /\ i.to = "hear" THEN Append(hear, i) ELSE hear
       /\ refused' = IF Fits(i) THEN refused ELSE refused \cup {i}
  /\ inbound' = Tail(inbound)
  /\ UNCHANGED <<device, phase, job, page>>

DrainDone ==
  /\ phase = "drain" /\ inbound = <<>>
  /\ phase' = "tick"
  /\ UNCHANGED <<device, inbound, stdin, hear, refused, job, page>>

OtherTick ==
  /\ phase = "tick"
  /\ phase' = "drain"
  /\ UNCHANGED <<device, inbound, stdin, hear, refused, job, page>>

\* The ask sink is drained at the end of the step whose tick wrote it.
DrainAsk ==
  /\ phase = "asking"
  /\ phase' = "drain"
  /\ Ask("converse")
  /\ UNCHANGED <<inbound, stdin, hear, refused, job, page>>

(***************************************************************************)
(* The job.  The turn in progress asked the latest ticket.                 *)
(***************************************************************************)
Turn == nextTicket

\* One command of `converse` completes, and the kernel goes on to its next step.
Command(from, to) ==
  /\ phase = "tick" /\ pc = from
  /\ pc' = to

ReadStdin ==
  /\ Command("listening", "noting") /\ stdin # {}
  /\ about' = stdin /\ stdin' = {}
  /\ phase' = "drain"
  /\ UNCHANGED <<device, inbound, hear, refused, got, abandoned, shown, ended, page>>

\* The topic is latched before anything is asked; then the message's words decide.
WriteTopic ==
  /\ Command("noting", "asking") \/ Command("noting", "spawning")
  /\ phase' = "drain"
  /\ UNCHANGED <<device, inbound, stdin, hear, refused, about, got, abandoned, shown, ended, page>>

Spawn ==
  /\ Command("spawning", "listening")
  /\ about' = {}
  /\ phase' = "drain"
  /\ UNCHANGED <<device, inbound, stdin, hear, refused, got, abandoned, shown, ended, page>>

WriteAsk ==
  /\ Command("asking", "hearing")
  /\ phase' = "asking"
  /\ UNCHANGED <<device, inbound, stdin, hear, refused, about, got, abandoned, shown, ended, page>>

Word(i) == <<i.of, i.nth>>

WordsIn(items) == {Word(items[k]) : k \in {j \in 1 .. Len(items) : IsPiece(items[j])}}
EndsIn(items) == {items[k].of : k \in {j \in 1 .. Len(items) : IsTerminator(items[j])}}

\* Mutant: the marker is compared against the arrival instead of looked for in it.
ComparedPiece(items) ==
  [words |-> WordsIn(items), ended |-> Len(items) = 1 /\ IsTerminator(Head(items))]

\* Mutant: an arrival the stream ended in is taken for the marker alone.
EmptiedPiece(items) ==
  [words |-> IF EndsIn(items) = {} THEN WordsIn(items) ELSE {}, ended |-> EndsIn(items) # {}]

\* stream_piece: all the text in one arrival, and whether a stream ended inside it.
StreamPiece(items) == [words |-> WordsIn(items), ended |-> EndsIn(items) # {}]

\* A blocking read takes everything waiting.
ReadHear ==
  /\ Command("hearing", "heard") /\ hear # <<>>
  /\ got' = StreamPiece(hear) /\ hear' = <<>>
  /\ ended' = [ended EXCEPT ![Turn] = @ \cup EndsIn(hear)]
  /\ phase' = "drain"
  /\ UNCHANGED <<device, inbound, stdin, refused, about, abandoned, shown, page>>

WriteReply ==
  /\ Command("heard", "written") /\ got.words # {}
  /\ shown' = [shown EXCEPT ![Turn] = Append(@, got.words)]
  /\ phase' = "drain"
  /\ UNCHANGED <<device, inbound, stdin, hear, refused, about, got, abandoned, ended, page>>

Quiet == pc = "written" \/ (pc = "heard" /\ got.words = {})

\* Mutant: one arrival is taken for the whole answer.
LookOnce ==
  /\ phase = "tick" /\ Quiet
  /\ pc' = "listening" /\ about' = {} /\ abandoned' = FALSE
  /\ got' = Nothing
  /\ phase' = "drain"
  /\ UNCHANGED <<device, inbound, stdin, hear, refused, shown, ended, page>>

\* What was read has been passed on: is the turn over?
Look ==
  /\ phase = "tick" /\ Quiet
  /\ LET over == got.ended \/ abandoned IN
       /\ pc' = IF over THEN "listening" ELSE "hearing"
       /\ about' = IF over THEN {} ELSE about
       /\ abandoned' = (abandoned /\ ~over)
  /\ got' = Nothing
  /\ phase' = "drain"
  /\ UNCHANGED <<device, inbound, stdin, hear, refused, shown, ended, page>>

Converse == ReadStdin \/ WriteTopic \/ Spawn \/ WriteAsk \/ ReadHear \/ WriteReply \/ Look

Kernel == DrainOne \/ DrainDone \/ OtherTick \/ DrainAsk \/ Converse

Next ==
  \/ \E h \in Threads : Say(h) \/ Stop(h) \/ Client(h)
  \/ \E t \in Tickets : Worker(t)
  \/ Kernel

(***************************************************************************)
(* Fairness.  The stepping thread loops for ever; HTTP threads and workers *)
(* run.  A tick goes to the most urgent runnable job: the handlers above   *)
(* `converse` exit at once and the services above it end, so a command of  *)
(* `converse` that can complete infinitely often does complete.            *)
(***************************************************************************)
Fairness ==
  /\ \A h \in Threads : WF_vars(Client(h))
  /\ \A t \in Tickets : WF_vars(Worker(t))
  /\ WF_vars(Kernel) /\ SF_vars(Converse)

Spec == Init /\ [][Next]_vars

FairSpec == Spec /\ Fairness

-----------------------------------------------------------------------------
(***************************************************************************)
(* Properties.                                                             *)
(***************************************************************************)
KernelTypeOK ==
  /\ inbound \in Seq(Items)
  /\ phase \in {"drain", "tick", "asking"}
  /\ stdin \in SUBSET Messages /\ Cardinality(stdin) <= Capacity
  /\ hear \in Seq(Items) /\ Len(hear) <= Capacity
  /\ refused \in SUBSET Items

JobTypeOK ==
  /\ pc \in {"listening", "noting", "asking", "spawning", "hearing", "heard", "written"}
  /\ about \in SUBSET Messages
  /\ got \in [words : SUBSET Words, ended : BOOLEAN]
  /\ abandoned \in BOOLEAN
  /\ shown \in [Tickets -> Seq(SUBSET Words)]
  /\ ended \in [Tickets -> SUBSET Tickets]

PageTypeOK ==
  /\ client \in [Threads -> [at : {"idle", "giving up", "waking", "posting"}, msg : 0 .. MaxSays]]
  /\ \A h \in Threads : client[h].at = "posting" => client[h].msg # 0
  /\ said \in 0 .. MaxSays /\ stops \in 0 .. MaxStops /\ told \in Nat
  /\ idly \in 0 .. told
  /\ displaced \in [Messages -> SUBSET Tickets]

TypeOK == AdapterTypeOK /\ KernelTypeOK /\ JobTypeOK /\ PageTypeOK

Requested == 1 .. nextTicket

\* The terminators of t that have been queued and not read.
Coming(t, items) == \E k \in 1 .. Len(items) : items[k].of = t /\ IsTerminator(items[k])

Owed(t) == Debtors(t) # {} \/ Coming(t, inbound) \/ Coming(t, hear)

RefusedEnd(t) == \E i \in refused : i.of = t /\ IsTerminator(i)

(***************************************************************************)
(* The conversation never goes deaf: while it waits on the reply pipe, the *)
(* terminator of the request it made this turn has not been read and is    *)
(* still owed by the device, travelling, or on the pipe -- however often   *)
(* it was stopped and whatever earlier turns left behind.  The exception   *)
(* is a terminator the full pipe refused, which nothing retries.           *)
(***************************************************************************)
NeverDeaf ==
  pc = "hearing" /\ phase # "asking" => Owed(Turn) \/ RefusedEnd(Turn)

NobodyIsStopping == \A h \in Threads : client[h].at \in {"idle", "posting"}

\* The words of t that the device has delivered, and those its own turn wrote.
Delivered(t) == {<<t, k>> : k \in {j \in 1 .. Len(log[t]) : log[t][j] = "piece"}}
Written(t)   == UNION {shown[t][k] : k \in 1 .. Len(shown[t])}

(***************************************************************************)
(* An undisturbed conversation is exact: while nobody has stopped or       *)
(* barged in and nothing was refused, every turn showed the words of its   *)
(* own request and no other, a turn that is over showed all of them, and   *)
(* between turns no request is in flight and nothing waits to be read.     *)
(***************************************************************************)
UndisturbedTurns ==
  told = 0 /\ NobodyIsStopping /\ refused = {} =>
    /\ \A t \in Requested : Written(t) \subseteq Delivered(t)
    /\ \A t \in Requested : t < Turn \/ pc \in {"listening", "noting", "spawning"} =>
         ended[t] = {t} /\ Written(t) = Delivered(t)
    /\ pc = "listening" => outstanding = {} /\ hear = <<>>

\* Everywhere the word w is: queued, on the pipe, in the job's hands, written.
Places(w) ==
  {<<"inbound", 0, k>> : k \in {j \in 1 .. Len(inbound) : IsPiece(inbound[j]) /\ Word(inbound[j]) = w}}
  \cup {<<"hear", 0, k>> : k \in {j \in 1 .. Len(hear) : IsPiece(hear[j]) /\ Word(hear[j]) = w}}
  \cup (IF pc = "heard" /\ w \in got.words THEN {<<"got", 0, 0>>} ELSE {})
  \cup UNION {{<<"shown", u, k>> : k \in {j \in 1 .. Len(shown[u]) : w \in shown[u][j]}} : u \in Tickets}

(***************************************************************************)
(* "a person keeps the words that were written before they stopped it":    *)
(* every piece the device delivered for a request is still queued, on the  *)
(* pipe, in the job's hands, or was shown in some turn, once -- stopped or *)
(* not, unless the full pipe refused something.                            *)
(***************************************************************************)
NoWordLost ==
  refused = {} => \A t \in Requested : \A w \in Delivered(t) : \E x \in Places(w) : Places(w) = {x}

(***************************************************************************)
(* Abandoning can put the conversation behind its own requests: a turn cut *)
(* by the flag leaves its terminator for a later turn to read.  Between    *)
(* turns it is never behind by more requests than the flag was set times.  *)
(***************************************************************************)
BoundedDrift ==
  pc = "listening" => Cardinality(Requested \ UNION {ended[t] : t \in Requested}) <=
                         told + Cardinality({t \in Requested : RefusedEnd(t)})

(***************************************************************************)
(* "the job has to be woken off the reply pipe before what wakes it next   *)
(* is waiting on stdin" (ChatServer.say): once a message that barged in is *)
(* on stdin or being answered, the ABANDONED of every request it displaced *)
(* has left the queue ahead of it.                                         *)
(***************************************************************************)
WokenFirst ==
  \A m \in stdin \cup about : \A t \in displaced[m] :
    ~Coming(t, inbound) /\ \A h \in Threads : t \notin dropped[h]

(***************************************************************************)
(* Every turn ends: a conversation that has begun a turn listens again,    *)
(* unless the full pipe refused the terminator it is waiting for.          *)
(***************************************************************************)
TurnsEnd ==
  pc # "listening" ~> pc = "listening" \/ RefusedEnd(Turn)

(***************************************************************************)
(* What the page is said no longer to do (web/server.py, _answering):      *)
(* "abandoned an idle conversation, which cut its *next* reply short after *)
(* one word".  While stop was only ever pressed on a conversation at rest, *)
(* every turn that is over ended on the END of its own request.            *)
(***************************************************************************)
StoppingNothingCutsNothing ==
  told = idly /\ NobodyIsStopping /\ refused = {} =>
    \A t \in Requested : t < Turn \/ pc = "listening" => ended[t] = {t}

(***************************************************************************)
(* "a reply has to find the one that asked for it ... the pipe *is* the    *)
(* address" (llm.py, LLM_PIPES): a turn reads the terminator of the        *)
(* request it made and of no other.                                        *)
(***************************************************************************)
RepliesFindTheAsker == \A t \in Requested : ended[t] \subseteq {t}
=============================================================================
