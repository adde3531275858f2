----------------------------- MODULE LlmAdapter -----------------------------
(***************************************************************************)
(* The model as a device on the end of a pipe: LlmAdapter of zeos-chat     *)
(* (zeos-chat/src/zeos_chat/llm.py).                                       *)
(*                                                                         *)
(* The kernel thread asks; each request gets a ticket in the outstanding   *)
(* table and a worker thread of its own, which pulls the answer chunk by   *)
(* chunk and delivers each one while its ticket is still in the table.     *)
(* Any HTTP thread may abandon a descriptor: its tickets leave the table   *)
(* under the lock, and an ABANDONED is delivered for each after the lock   *)
(* is released.  Looking a ticket up and delivering are two steps, so a    *)
(* worker and an abandoning thread interleave between them.                *)
(*                                                                         *)
(* Text is abstracted to its kind.  log[t] is everything handed to         *)
(* `deliver` on behalf of ticket t: the pipe itself carries no ticket, so  *)
(* the log is history for stating properties, not state the code has.      *)
(***************************************************************************)
EXTENDS Naturals, Sequences, FiniteSets

CONSTANTS
  Descriptors,  \* descriptors that own a pair of model pipes (LLM_PIPES)
  Threads,      \* HTTP threads, any of which may abandon
  NoOne,        \* the descriptor of a ticket not issued yet
  MaxAsks,      \* bound: how many requests are made
  MaxPieces     \* bound: how many chunks one answer has at most

ASSUME AdapterAssumption ==
  /\ MaxAsks \in Nat /\ MaxPieces \in Nat
  /\ NoOne \notin Descriptors

Tickets == 1 .. MaxAsks

VARIABLES
  nextTicket,   \* self._next_ticket
  askedBy,      \* the descriptor in each ticket's Ask
  outstanding,  \* the keys of self._outstanding
  worker,       \* where each ticket's worker thread is in _answer
  dropped,      \* per thread: popped by `abandon`, ABANDONED not delivered yet
  log           \* history: what was delivered for each ticket

device == <<nextTicket, askedBy, outstanding, worker, dropped, log>>

WorkerStates == {"unborn", "pulling", "holding", "explaining", "closing", "ending", "returned"}
Kinds        == {"piece", "END", "ABANDONED"}
Terminators  == {"END", "ABANDONED"}

InitAdapter ==
  /\ nextTicket  = 0
  /\ askedBy     = [t \in Tickets |-> NoOne]
  /\ outstanding = {}
  /\ worker      = [t \in Tickets |-> "unborn"]
  /\ dropped     = [h \in Threads |-> {}]
  /\ log         = [t \in Tickets |-> <<>>]

InFlightFor(d) == {t \in outstanding : askedBy[t] = d}

Wanted(t) == t \in outstanding

Moves(t, from, to) ==
  /\ worker[t] = from
  /\ worker' = [worker EXCEPT ![t] = to]

Delivers(t, kind) == log' = [log EXCEPT ![t] = Append(@, kind)]

(***************************************************************************)
(* The kernel thread: one drained request.                                 *)
(***************************************************************************)
Ask(d) ==
  LET t == nextTicket + 1 IN
  /\ t \in Tickets
  /\ nextTicket'  = t
  /\ askedBy'     = [askedBy EXCEPT ![t] = d]
  /\ outstanding' = outstanding \cup {t}
  /\ worker'      = [worker EXCEPT ![t] = "pulling"]
  /\ UNCHANGED <<dropped, log>>

(***************************************************************************)
(* A worker thread, between one look at the table and the next.            *)
(***************************************************************************)
\* Mutant: the chunk is not checked against the table (an ABANDONED in the log is no chunk).
PullUnchecked(t) ==
  /\ Len(log[t]) <= MaxPieces
  /\ Moves(t, "pulling", "holding")
  /\ UNCHANGED <<nextTicket, askedBy, outstanding, dropped, log>>

PullWanted(t) ==
  /\ Len(log[t]) < MaxPieces
  /\ Wanted(t)
  /\ Moves(t, "pulling", "holding")
  /\ UNCHANGED <<nextTicket, askedBy, outstanding, dropped, log>>

\* Leaving the loop early closes the stream at the source.
PullUnwanted(t) ==
  /\ ~Wanted(t)
  /\ Moves(t, "pulling", "returned")
  /\ UNCHANGED <<nextTicket, askedBy, outstanding, dropped, log>>

DeliverPiece(t) ==
  /\ Moves(t, "holding", "pulling")
  /\ Delivers(t, "piece")
  /\ UNCHANGED <<nextTicket, askedBy, outstanding, dropped>>

\* Mutant: a worker that dies quietly.
ModelKillsWorker(t) ==
  /\ Moves(t, "pulling", "returned")
  /\ UNCHANGED <<nextTicket, askedBy, outstanding, dropped, log>>

\* The model raised.  The failure is written only if somebody is listening.
ModelFails(t) ==
  /\ Moves(t, "pulling", IF Wanted(t) THEN "explaining" ELSE "closing")
  /\ UNCHANGED <<nextTicket, askedBy, outstanding, dropped, log>>

DeliverFailure(t) ==
  /\ Moves(t, "explaining", "closing")
  /\ Delivers(t, "piece")
  /\ UNCHANGED <<nextTicket, askedBy, outstanding, dropped>>

\* Mutant: the end is sent whether or not the ticket was still there.
RetireAlwaysEnds(t) ==
  /\ worker[t] \in {"pulling", "closing"}
  /\ worker' = [worker EXCEPT ![t] = "ending"]
  /\ outstanding' = outstanding \ {t}
  /\ UNCHANGED <<nextTicket, askedBy, dropped, log>>

\* Mutant: the ticket is looked up and never popped.
RetireKeepsTicket(t) ==
  /\ worker[t] \in {"pulling", "closing"}
  /\ worker' = [worker EXCEPT ![t] = IF Wanted(t) THEN "ending" ELSE "returned"]
  /\ UNCHANGED <<nextTicket, askedBy, outstanding, dropped, log>>

\* The stream is exhausted, or the failure has been dealt with.
Retire(t) ==
  /\ worker[t] \in {"pulling", "closing"}
  /\ worker' = [worker EXCEPT ![t] = IF Wanted(t) THEN "ending" ELSE "returned"]
  /\ outstanding' = outstanding \ {t}
  /\ UNCHANGED <<nextTicket, askedBy, dropped, log>>

DeliverEnd(t) ==
  /\ Moves(t, "ending", "returned")
  /\ Delivers(t, "END")
  /\ UNCHANGED <<nextTicket, askedBy, outstanding, dropped>>

(***************************************************************************)
(* An HTTP thread giving up on whatever a descriptor asked for.            *)
(***************************************************************************)
\* Mutant: the tickets are listed under the lock and not popped.
AbandonKeepsTickets(h, d) ==
  /\ dropped[h] = {}
  /\ dropped' = [dropped EXCEPT ![h] = InFlightFor(d)]
  /\ UNCHANGED <<nextTicket, askedBy, outstanding, worker, log>>

Abandon(h, d) ==
  /\ dropped[h] = {}
  /\ dropped'     = [dropped EXCEPT ![h] = InFlightFor(d)]
  /\ outstanding' = outstanding \ InFlightFor(d)
  /\ UNCHANGED <<nextTicket, askedBy, worker, log>>

DeliverAbandoned(h, t) ==
  /\ t \in dropped[h] /\ \A u \in dropped[h] : t <= u
  /\ dropped' = [dropped EXCEPT ![h] = @ \ {t}]
  /\ Delivers(t, "ABANDONED")
  /\ UNCHANGED <<nextTicket, askedBy, outstanding, worker>>

WorkerStep(t) ==
  \/ PullWanted(t) \/ PullUnwanted(t) \/ DeliverPiece(t)
  \/ ModelFails(t) \/ DeliverFailure(t) \/ Retire(t) \/ DeliverEnd(t)

NextAdapter ==
  \/ \E d \in Descriptors : Ask(d)
  \/ \E t \in Tickets : WorkerStep(t)
  \/ \E h \in Threads, d \in Descriptors : Abandon(h, d)
  \/ \E h \in Threads, t \in Tickets : DeliverAbandoned(h, t)

(***************************************************************************)
(* Fairness.  Worker threads are scheduled, and the model's stream ends or *)
(* raises (the SDK's client times out), so a worker that can step does.    *)
(* A thread inside `abandon` runs to its end.  Nobody has to ask or        *)
(* abandon.                                                                *)
(***************************************************************************)
AdapterFairness ==
  /\ \A t \in Tickets : WF_device(WorkerStep(t))
  /\ \A h \in Threads, t \in Tickets : WF_device(DeliverAbandoned(h, t))

AdapterSpec == InitAdapter /\ [][NextAdapter]_device

FairAdapterSpec == AdapterSpec /\ AdapterFairness

-----------------------------------------------------------------------------
(***************************************************************************)
(* Properties.                                                             *)
(***************************************************************************)
AdapterTypeOK ==
  /\ nextTicket \in 0 .. MaxAsks
  /\ askedBy \in [Tickets -> Descriptors \cup {NoOne}]
  /\ outstanding \in SUBSET Tickets
  /\ worker \in [Tickets -> WorkerStates]
  /\ dropped \in [Threads -> SUBSET Tickets]
  /\ log \in [Tickets -> Seq(Kinds)]

HasTerminator(s) == \E i \in 1 .. Len(s) : s[i] \in Terminators

Terminated(t) == HasTerminator(log[t])

Asked(t) == t <= nextTicket

\* Popped by some thread that has not delivered its ABANDONED yet.
InDropped(t) == \E h \in Threads : t \in dropped[h]

(***************************************************************************)
(* "two would leave the job reading a chunk that never comes" (llm.py      *)
(* _answer): however a finishing worker and any number of abandoning       *)
(* threads interleave, a request's reply pipe is completed at most once.   *)
(***************************************************************************)
TerminatesOnce(s) ==
  \A i, j \in 1 .. Len(s) : s[i] \in Terminators /\ s[j] \in Terminators => i = j

OneTerminator == \A t \in Tickets : TerminatesOnce(log[t])

(***************************************************************************)
(* After END nothing more is delivered for a request, and after ABANDONED  *)
(* at most one piece is: the one its worker had already judged wanted.     *)
(* This is how far stop is from stopping the words at once.                *)
(***************************************************************************)
AtMostOneStray ==
  \A t \in Tickets : \A i \in 1 .. Len(log[t]) :
    /\ log[t][i] = "END"       => i = Len(log[t])
    /\ log[t][i] = "ABANDONED" => Len(log[t]) <= i + 1

(***************************************************************************)
(* A request that was asked and is not terminated yet is owed its          *)
(* terminator by exactly one party: the table (its worker will see to it), *)
(* the worker that took it out to finish it, or one thread that took it    *)
(* out to abandon it.  This is why nobody parks for ever and nobody is     *)
(* woken twice.                                                            *)
(***************************************************************************)
Debtors(t) ==
  (IF t \in outstanding THEN {<<"table">>} ELSE {})
    \cup (IF worker[t] = "ending" THEN {<<"worker">>} ELSE {})
    \cup {<<"thread", h>> : h \in {k \in Threads : t \in dropped[k]}}

OneDebtor ==
  \A t \in Tickets :
    IF Asked(t) /\ ~Terminated(t)
      THEN \E x \in Debtors(t) : Debtors(t) = {x}
      ELSE Debtors(t) = {}

(***************************************************************************)
(* in_flight, which drives the busy signal: a request the table still      *)
(* counts has a live worker that will take it out, so the signal cannot    *)
(* stick on a request nobody is working on.                                *)
(***************************************************************************)
CountedIsWorked ==
  \A t \in outstanding : worker[t] \in {"pulling", "holding", "explaining", "closing"}

(***************************************************************************)
(* Every request ends: the job parked on the reply pipe is always told,    *)
(* whether the model answers, fails, or is given up on.                    *)
(***************************************************************************)
EveryRequestTerminates == \A t \in Tickets : Asked(t) ~> Terminated(t)

(***************************************************************************)
(* llm.py, on the outstanding table: "A worker delivers only if its own    *)
(* ticket is still here, so a reply the person no longer wants is dropped  *)
(* rather than written out after they asked for it to stop."  Stated of    *)
(* what is delivered: nothing follows ABANDONED.                           *)
(***************************************************************************)
NothingAfterAbandoned ==
  \A t \in Tickets : \A i \in 1 .. Len(log[t]) :
    log[t][i] = "ABANDONED" => i = Len(log[t])

(***************************************************************************)
(* The adapter implements the abstract request stream: every request is    *)
(* opened once, streamed, settled for one reason and closed once.          *)
(***************************************************************************)
StageOf(t) ==
  IF ~Asked(t) THEN "unasked"
  ELSE IF t \in outstanding THEN "open"
  ELSE IF worker[t] = "ending" THEN "finished"
  ELSE IF InDropped(t) THEN "given up"
  ELSE "closed"

RS == INSTANCE RequestStream WITH
        Requests <- Tickets,
        stage    <- [t \in Tickets |-> StageOf(t)],
        held     <- {t \in Tickets : worker[t] \in {"holding", "explaining"}},
        stream   <- log

ImplementsRequestStream == RS!Spec
=============================================================================
