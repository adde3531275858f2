------------------------- MODULE Conversation_proofs -------------------------
(***************************************************************************)
(* What is proved of the device (LlmAdapter) and of the conversation that  *)
(* talks to it (Conversation), for any set of descriptors, any set of HTTP *)
(* threads, any capacity of the pipes and any number of messages, stops,   *)
(* requests and chunks.  The device comes first: what is proved of it      *)
(* holds inside a conversation, each step of which is one of its steps or  *)
(* leaves it alone.                                                        *)
(***************************************************************************)
EXTENDS Conversation, FiniteSetTheorems, TLAPS

(***************************************************************************)
(* The device: the inductive invariant.  OneTerminator and OneDebtor are   *)
(* not inductive on their own: to know that a worker about to send END, or *)
(* a thread about to send ABANDONED, is sending the first terminator of    *)
(* its ticket, one has to know that the table, the finishing workers and   *)
(* the threads' lists never share a ticket, and that whoever holds one     *)
(* holds a ticket whose log has no terminator yet.                         *)
(***************************************************************************)
Live == {"pulling", "holding", "explaining", "closing"}

\* A ticket that was not issued has no trace anywhere, and an issued one has a worker.
FreshInv ==
  \A t \in Tickets :
    IF Asked(t)
      THEN worker[t] # "unborn"
      ELSE worker[t] = "unborn" /\ log[t] = <<>> /\ t \notin outstanding /\ ~InDropped(t)

TableInv ==
  \A t \in outstanding : worker[t] \in Live /\ ~Terminated(t) /\ ~InDropped(t)

EndingInv ==
  \A t \in Tickets : worker[t] = "ending" => ~Terminated(t) /\ ~InDropped(t)

DroppedInv ==
  \A h \in Threads : \A t \in dropped[h] :
    ~Terminated(t) /\ \A k \in Threads : t \in dropped[k] => k = h

\* Nobody forgets: an issued ticket that nobody holds has been terminated.
OwedInv ==
  \A t \in Tickets :
    Asked(t) /\ t \notin outstanding /\ worker[t] # "ending" /\ ~InDropped(t)
      => Terminated(t)

\* What can follow a terminator in the log, by where the worker is.
Follows(s, w) ==
  \A i \in 1 .. Len(s) :
    /\ s[i] = "END" => i = Len(s) /\ w = "returned"
    /\ s[i] = "ABANDONED" =>
         IF w \in {"holding", "explaining"} THEN i = Len(s) ELSE Len(s) <= i + 1

StreamInv == \A t \in Tickets : Follows(log[t], worker[t])

AdapterInv ==
  /\ AdapterTypeOK
  /\ FreshInv /\ TableInv /\ EndingInv /\ DroppedInv /\ OwedInv
  /\ OneTerminator /\ StreamInv

-----------------------------------------------------------------------------
(***************************************************************************)
(* Appending one kind to a log.                                            *)
(***************************************************************************)

\* Appending a piece changes nothing about terminators.
LEMMA PieceTerminates ==
  ASSUME NEW s \in Seq(Kinds)
  PROVE  /\ Append(s, "piece") \in Seq(Kinds)
         /\ HasTerminator(Append(s, "piece")) <=> HasTerminator(s)
         /\ TerminatesOnce(s) => TerminatesOnce(Append(s, "piece"))
  BY DEF Kinds, HasTerminator, TerminatesOnce, Terminators

\* Appending a terminator to a log that has none makes it the only one.
LEMMA TerminatorTerminates ==
  ASSUME NEW s \in Seq(Kinds), NEW k \in Terminators
  PROVE  /\ Append(s, k) \in Seq(Kinds)
         /\ HasTerminator(Append(s, k))
         /\ ~HasTerminator(s) => TerminatesOnce(Append(s, k))
  <1>1. Append(s, k) \in Seq(Kinds)
    BY DEF Kinds, Terminators
  <1>2. HasTerminator(Append(s, k))
    <2>1. /\ Len(s) + 1 \in 1 .. Len(Append(s, k))
          /\ Append(s, k)[Len(s) + 1] = k
      OBVIOUS
    <2>2. QED BY <2>1 DEF HasTerminator
  <1>3. ~HasTerminator(s) => TerminatesOnce(Append(s, k))
    BY DEF HasTerminator, TerminatesOnce
  <1>4. QED BY <1>1, <1>2, <1>3

\* A piece follows ABANDONED only when it was the one being held.
LEMMA PieceFollows ==
  ASSUME NEW s \in Seq(Kinds), NEW v \in {"holding", "explaining"},
         NEW w \in {"pulling", "closing"}, Follows(s, v)
  PROVE  Follows(Append(s, "piece"), w)
  BY DEF Follows, Kinds

\* A log without a terminator may take ABANDONED whatever the worker does, and END
\* from a worker that returns.
LEMMA TerminatorFollows ==
  ASSUME NEW s \in Seq(Kinds), ~HasTerminator(s), NEW w
  PROVE  /\ Follows(s, w)
         /\ Follows(Append(s, "ABANDONED"), w)
         /\ Follows(Append(s, "END"), "returned")
  BY DEF Follows, HasTerminator, Terminators, Kinds

-----------------------------------------------------------------------------
(***************************************************************************)
(* Every variable keeps its type.                                          *)
(***************************************************************************)
LEMMA AdapterTypeInit == InitAdapter => AdapterTypeOK
  BY AdapterAssumption DEF InitAdapter, AdapterTypeOK, WorkerStates, Kinds

LEMMA AdapterTypeStep == AdapterTypeOK /\ [NextAdapter]_device => AdapterTypeOK'
  <1> SUFFICES ASSUME AdapterTypeOK, [NextAdapter]_device PROVE AdapterTypeOK'
    OBVIOUS
  <1> USE AdapterAssumption DEF AdapterTypeOK, Tickets, WorkerStates, Moves, Delivers, Wanted
  <1>1. ASSUME NEW d \in Descriptors, Ask(d) PROVE AdapterTypeOK'
    BY <1>1 DEF Ask
  <1>2. ASSUME NEW t \in Tickets, WorkerStep(t) PROVE AdapterTypeOK'
    <2>1. CASE PullWanted(t)     BY <2>1 DEF PullWanted
    <2>2. CASE PullUnwanted(t)   BY <2>2 DEF PullUnwanted
    <2>3. CASE DeliverPiece(t)   BY <2>3, PieceTerminates DEF DeliverPiece
    <2>4. CASE ModelFails(t)     BY <2>4 DEF ModelFails
    <2>5. CASE DeliverFailure(t) BY <2>5, PieceTerminates DEF DeliverFailure
    <2>6. CASE Retire(t)         BY <2>6 DEF Retire
    <2>7. CASE DeliverEnd(t)
      BY <2>7, TerminatorTerminates DEF DeliverEnd, Terminators
    <2>8. QED BY <1>2, <2>1, <2>2, <2>3, <2>4, <2>5, <2>6, <2>7 DEF WorkerStep
  <1>3. ASSUME NEW h \in Threads, NEW d \in Descriptors, Abandon(h, d) PROVE AdapterTypeOK'
    BY <1>3 DEF Abandon, InFlightFor
  <1>4. ASSUME NEW h \in Threads, NEW t \in Tickets, DeliverAbandoned(h, t)
        PROVE  AdapterTypeOK'
    BY <1>4, TerminatorTerminates DEF DeliverAbandoned, Terminators
  <1>5. CASE UNCHANGED device
    BY <1>5 DEF device
  <1>6. QED BY <1>1, <1>2, <1>3, <1>4, <1>5 DEF NextAdapter

(***************************************************************************)
(* AdapterTypeOK is an invariant: the adapter's table, its workers and     *)
(* what it delivers stay within their types for any number of requests.    *)
(***************************************************************************)
THEOREM TypeCorrect == AdapterSpec => []AdapterTypeOK
  <1>1. QED BY AdapterTypeInit, AdapterTypeStep, PTL DEF AdapterSpec

-----------------------------------------------------------------------------
(***************************************************************************)
(* The inductive invariant, one lemma per kind of step.                    *)
(***************************************************************************)
LEMMA AdapterInvInit == InitAdapter => AdapterInv
  <1> SUFFICES ASSUME InitAdapter PROVE AdapterInv
    OBVIOUS
  <1>1. AdapterTypeOK BY AdapterTypeInit
  <1>2. \A t \in Tickets : log[t] = <<>> /\ worker[t] = "unborn" /\ ~Asked(t) /\ ~InDropped(t)
    BY AdapterAssumption DEF InitAdapter, Tickets, Asked, InDropped
  <1>3. QED
    BY <1>1, <1>2 DEF InitAdapter, AdapterInv, FreshInv, TableInv, EndingInv, DroppedInv, OwedInv,
      OneTerminator, TerminatesOnce, StreamInv, Follows

\* A step that touches only the worker of t, and leaves it live when the table counts it.
LEMMA QuietStep ==
  ASSUME AdapterInv, AdapterTypeOK', NEW t \in Tickets, NEW w,
         UNCHANGED <<nextTicket, outstanding, dropped, log>>,
         worker[t] \in Live, worker' = [worker EXCEPT ![t] = w], w \notin {"unborn", "ending"},
         t \in outstanding => w \in Live,
         Follows(log[t], w)
  PROVE  AdapterInv'
  <1> USE DEF AdapterInv, AdapterTypeOK
  <1>1. FreshInv'    BY DEF FreshInv, Asked, InDropped, Live
  <1>2. TableInv'    BY DEF TableInv, Terminated, InDropped
  <1>3. EndingInv'   BY DEF EndingInv, Terminated, InDropped
  <1>4. DroppedInv'  BY DEF DroppedInv, Terminated
  <1>5. OwedInv'     BY DEF OwedInv, Asked, Terminated, InDropped, Live
  <1>6. OneTerminator' BY DEF OneTerminator
  <1>7. StreamInv'   BY DEF StreamInv
  <1>8. QED BY <1>1, <1>2, <1>3, <1>4, <1>5, <1>6, <1>7

\* Writing a piece that was being held.
LEMMA PieceStep ==
  ASSUME AdapterInv, AdapterTypeOK', NEW t \in Tickets, NEW w \in {"pulling", "closing"},
         UNCHANGED <<nextTicket, outstanding, dropped>>,
         worker[t] \in {"holding", "explaining"}, worker' = [worker EXCEPT ![t] = w],
         Delivers(t, "piece")
  PROVE  AdapterInv'
  <1> USE DEF AdapterInv, AdapterTypeOK
  <1>0. /\ log[t] \in Seq(Kinds) /\ log'[t] = Append(log[t], "piece")
        /\ \A u \in Tickets : u # t => log'[u] = log[u] /\ worker'[u] = worker[u]
        /\ worker'[t] = w
    BY DEF Delivers
  <1>1. \A u \in Tickets : Terminated(u)' <=> Terminated(u)
    BY <1>0, PieceTerminates DEF Terminated
  <1>2. FreshInv'    BY <1>0 DEF FreshInv, Asked, InDropped
  <1>3. TableInv'    BY <1>0, <1>1 DEF TableInv, InDropped, Live
  <1>4. EndingInv'   BY <1>0, <1>1 DEF EndingInv, InDropped
  <1>5. DroppedInv'  BY <1>1 DEF DroppedInv
  <1>6. OwedInv'     BY <1>0, <1>1 DEF OwedInv, Asked, InDropped
  <1>7. OneTerminator' BY <1>0, PieceTerminates DEF OneTerminator
  <1>8. StreamInv'
    <2>1. Follows(log'[t], worker'[t])
      BY <1>0, PieceFollows DEF StreamInv
    <2>2. QED BY <1>0, <2>1 DEF StreamInv
  <1>9. QED BY <1>2, <1>3, <1>4, <1>5, <1>6, <1>7, <1>8

LEMMA AskStep ==
  ASSUME AdapterInv, AdapterTypeOK', NEW d \in Descriptors, Ask(d)
  PROVE  AdapterInv'
  <1> DEFINE t == nextTicket + 1
  <1> USE DEF AdapterInv, AdapterTypeOK
  <1>0. /\ t \in Tickets /\ ~Asked(t) /\ log' = log /\ dropped' = dropped
        /\ outstanding' = outstanding \cup {t} /\ nextTicket' = t
        /\ worker' = [worker EXCEPT ![t] = "pulling"]
        /\ worker[t] = "unborn" /\ log[t] = <<>> /\ ~InDropped(t)
    BY DEF Ask, FreshInv, Asked, Tickets
  <1>1. ~Terminated(t) /\ Follows(log[t], "pulling")
    BY <1>0 DEF Terminated, HasTerminator, Follows
  <1>2. \A u \in Tickets : Asked(u)' <=> Asked(u) \/ u = t
    BY <1>0 DEF Asked, Tickets
  <1> HIDE DEF t
  <1>3. FreshInv'    BY <1>0, <1>2 DEF FreshInv, InDropped
  <1>4. TableInv'    BY <1>0, <1>1 DEF TableInv, Terminated, InDropped, Live
  <1>5. EndingInv'   BY <1>0 DEF EndingInv, Terminated, InDropped
  <1>6. DroppedInv'  BY <1>0 DEF DroppedInv, Terminated
  <1>7. OwedInv'     BY <1>0, <1>2 DEF OwedInv, Terminated, InDropped
  <1>8. OneTerminator' BY <1>0 DEF OneTerminator
  <1>9. StreamInv'   BY <1>0, <1>1 DEF StreamInv
  <1>10. QED BY <1>3, <1>4, <1>5, <1>6, <1>7, <1>8, <1>9

LEMMA RetireStep ==
  ASSUME AdapterInv, AdapterTypeOK', NEW t \in Tickets, Retire(t)
  PROVE  AdapterInv'
  <1> USE DEF AdapterInv, AdapterTypeOK
  <1>0. /\ worker[t] \in {"pulling", "closing"}
        /\ worker' = [worker EXCEPT ![t] = IF t \in outstanding THEN "ending" ELSE "returned"]
        /\ outstanding' = outstanding \ {t}
        /\ UNCHANGED <<nextTicket, dropped, log>>
    BY DEF Retire, Wanted
  <1>1. FreshInv'    BY <1>0 DEF FreshInv, Asked, InDropped
  <1>2. TableInv'    BY <1>0 DEF TableInv, Terminated, InDropped
  <1>3. EndingInv'   BY <1>0 DEF EndingInv, TableInv, Terminated, InDropped
  <1>4. DroppedInv'  BY <1>0 DEF DroppedInv, Terminated
  <1>5. OwedInv'     BY <1>0 DEF OwedInv, Asked, Terminated, InDropped
  <1>6. OneTerminator' BY <1>0 DEF OneTerminator
  <1>7. StreamInv'
    <2>1. Follows(log[t], worker'[t])
      BY <1>0 DEF StreamInv, Follows
    <2>2. QED BY <1>0, <2>1 DEF StreamInv
  <1>8. QED BY <1>1, <1>2, <1>3, <1>4, <1>5, <1>6, <1>7

LEMMA EndStep ==
  ASSUME AdapterInv, AdapterTypeOK', NEW t \in Tickets, DeliverEnd(t)
  PROVE  AdapterInv'
  <1> USE DEF AdapterInv, AdapterTypeOK
  <1>0. /\ worker[t] = "ending" /\ worker' = [worker EXCEPT ![t] = "returned"]
        /\ log[t] \in Seq(Kinds) /\ log'[t] = Append(log[t], "END")
        /\ \A u \in Tickets : u # t => log'[u] = log[u] /\ worker'[u] = worker[u]
        /\ UNCHANGED <<nextTicket, outstanding, dropped>>
        /\ ~Terminated(t) /\ ~InDropped(t) /\ t \notin outstanding
    BY DEF DeliverEnd, Moves, Delivers, EndingInv, TableInv, Live
  <1>1. /\ Terminated(t)' /\ TerminatesOnce(log'[t]) /\ Follows(log'[t], "returned")
        /\ \A u \in Tickets : u # t => (Terminated(u)' <=> Terminated(u))
    BY <1>0, TerminatorTerminates, TerminatorFollows DEF Terminated, Terminators
  <1>2. FreshInv'    BY <1>0 DEF FreshInv, Asked, InDropped
  <1>3. TableInv'    BY <1>0, <1>1 DEF TableInv, InDropped
  <1>4. EndingInv'   BY <1>0, <1>1 DEF EndingInv, InDropped
  <1>5. DroppedInv'  BY <1>0, <1>1 DEF DroppedInv, InDropped
  <1>6. OwedInv'     BY <1>0, <1>1 DEF OwedInv, Asked, InDropped
  <1>7. OneTerminator' BY <1>0, <1>1 DEF OneTerminator
  <1>8. StreamInv'   BY <1>0, <1>1 DEF StreamInv
  <1>9. QED BY <1>2, <1>3, <1>4, <1>5, <1>6, <1>7, <1>8

LEMMA AbandonStep ==
  ASSUME AdapterInv, AdapterTypeOK', NEW h \in Threads, NEW d \in Descriptors, Abandon(h, d)
  PROVE  AdapterInv'
  <1> USE DEF AdapterInv, AdapterTypeOK
  <1>0. /\ dropped[h] = {} /\ dropped' = [dropped EXCEPT ![h] = InFlightFor(d)]
        /\ outstanding' = outstanding \ InFlightFor(d)
        /\ InFlightFor(d) \subseteq outstanding
        /\ UNCHANGED <<nextTicket, worker, log>>
    BY DEF Abandon, InFlightFor
  <1>1. \A t \in Tickets : InDropped(t)' <=> InDropped(t) \/ t \in InFlightFor(d)
    BY <1>0 DEF InDropped
  <1>2. \A t \in outstanding : Asked(t) /\ worker[t] # "ending"
    BY DEF FreshInv, TableInv, Live
  <1>3. FreshInv'    BY <1>0, <1>1 DEF FreshInv, Asked
  <1>4. TableInv'    BY <1>0, <1>1 DEF TableInv, Terminated
  <1>5. EndingInv'   BY <1>0, <1>1, <1>2 DEF EndingInv, Terminated
  <1>6. DroppedInv'  BY <1>0, <1>2 DEF DroppedInv, TableInv, Terminated, InDropped
  <1>7. OwedInv'     BY <1>0, <1>1 DEF OwedInv, Asked, Terminated
  <1>8. OneTerminator' BY <1>0 DEF OneTerminator
  <1>9. StreamInv'   BY <1>0 DEF StreamInv
  <1>10. QED BY <1>3, <1>4, <1>5, <1>6, <1>7, <1>8, <1>9

LEMMA AbandonedStep ==
  ASSUME AdapterInv, AdapterTypeOK', NEW h \in Threads, NEW t \in Tickets, DeliverAbandoned(h, t)
  PROVE  AdapterInv'
  <1> USE DEF AdapterInv, AdapterTypeOK
  <1>0. /\ t \in dropped[h] /\ dropped' = [dropped EXCEPT ![h] = @ \ {t}]
        /\ log[t] \in Seq(Kinds) /\ log'[t] = Append(log[t], "ABANDONED")
        /\ \A u \in Tickets : u # t => log'[u] = log[u]
        /\ UNCHANGED <<nextTicket, outstanding, worker>>
        /\ ~Terminated(t) /\ t \notin outstanding /\ Asked(t) /\ worker[t] # "ending"
    BY DEF DeliverAbandoned, Delivers, DroppedInv, TableInv, EndingInv, FreshInv, InDropped
  <1>1. /\ Terminated(t)' /\ TerminatesOnce(log'[t]) /\ Follows(log'[t], worker[t])
        /\ \A u \in Tickets : u # t => (Terminated(u)' <=> Terminated(u))
    BY <1>0, TerminatorTerminates, TerminatorFollows DEF Terminated, Terminators
  <1>2. \A u \in Tickets : u # t => (InDropped(u)' <=> InDropped(u))
    BY <1>0 DEF InDropped
  <1>3. ~InDropped(t)'
    BY <1>0 DEF InDropped, DroppedInv
  <1>4. FreshInv'    BY <1>0, <1>2, <1>3 DEF FreshInv, Asked
  <1>5. TableInv'    BY <1>0, <1>1, <1>2 DEF TableInv
  <1>6. EndingInv'   BY <1>0, <1>1, <1>2 DEF EndingInv
  <1>7. DroppedInv'  BY <1>0, <1>1, <1>3 DEF DroppedInv, InDropped
  <1>8. OwedInv'     BY <1>0, <1>1, <1>2 DEF OwedInv, Asked
  <1>9. OneTerminator' BY <1>0, <1>1 DEF OneTerminator
  <1>10. StreamInv'  BY <1>0, <1>1 DEF StreamInv
  <1>11. QED BY <1>4, <1>5, <1>6, <1>7, <1>8, <1>9, <1>10

LEMMA AdapterInvStep == AdapterInv /\ [NextAdapter]_device => AdapterInv'
  <1> SUFFICES ASSUME AdapterInv, [NextAdapter]_device PROVE AdapterInv'
    OBVIOUS
  <1>0. AdapterTypeOK /\ AdapterTypeOK'
    BY AdapterTypeStep DEF AdapterInv
  <1>1. ASSUME NEW d \in Descriptors, Ask(d) PROVE AdapterInv'
    BY <1>0, <1>1, AskStep
  <1>2. ASSUME NEW t \in Tickets, WorkerStep(t) PROVE AdapterInv'
    <2>0. log[t] \in Seq(Kinds) /\ Follows(log[t], worker[t])
      BY <1>0 DEF AdapterTypeOK, AdapterInv, StreamInv
    <2>1. CASE PullWanted(t)
      <3>1. Follows(log[t], "holding")
        BY <2>0, <2>1, TerminatorFollows
           DEF AdapterInv, TableInv, PullWanted, Wanted, Terminated
      <3>2. QED
        BY <1>0, <2>1, <3>1, QuietStep DEF PullWanted, Moves, Live
    <2>2. CASE PullUnwanted(t)
      <3>1. Follows(log[t], "returned")
        BY <2>0, <2>2 DEF PullUnwanted, Moves, Follows
      <3>2. QED
        BY <1>0, <2>2, <3>1, QuietStep DEF PullUnwanted, Moves, Wanted, Live
    <2>3. CASE DeliverPiece(t)
      BY <1>0, <2>3, PieceStep DEF DeliverPiece, Moves
    <2>4. CASE ModelFails(t)
      <3> DEFINE w == IF Wanted(t) THEN "explaining" ELSE "closing"
      <3>1. Follows(log[t], w)
        <4>1. CASE Wanted(t)
          BY <2>0, <4>1, TerminatorFollows DEF AdapterInv, TableInv, Wanted, Terminated
        <4>2. CASE ~Wanted(t)
          BY <2>0, <2>4, <4>2 DEF ModelFails, Moves, Follows
        <4>3. QED BY <4>1, <4>2
      <3>2. QED
        BY <1>0, <2>4, <3>1, QuietStep DEF ModelFails, Moves, Live
    <2>5. CASE DeliverFailure(t)
      BY <1>0, <2>5, PieceStep DEF DeliverFailure, Moves
    <2>6. CASE Retire(t)     BY <1>0, <2>6, RetireStep
    <2>7. CASE DeliverEnd(t) BY <1>0, <2>7, EndStep
    <2>8. QED BY <1>2, <2>1, <2>2, <2>3, <2>4, <2>5, <2>6, <2>7 DEF WorkerStep
  <1>3. ASSUME NEW h \in Threads, NEW d \in Descriptors, Abandon(h, d) PROVE AdapterInv'
    BY <1>0, <1>3, AbandonStep
  <1>4. ASSUME NEW h \in Threads, NEW t \in Tickets, DeliverAbandoned(h, t) PROVE AdapterInv'
    BY <1>0, <1>4, AbandonedStep
  <1>5. CASE UNCHANGED device
    BY <1>5 DEF device, AdapterInv, AdapterTypeOK, FreshInv, TableInv, EndingInv, DroppedInv, OwedInv,
      OneTerminator, StreamInv, Asked, Terminated, InDropped
  <1>6. QED BY <1>1, <1>2, <1>3, <1>4, <1>5 DEF NextAdapter

LEMMA AdapterInductive == AdapterSpec => []AdapterInv
  <1>1. QED BY AdapterInvInit, AdapterInvStep, PTL DEF AdapterSpec

-----------------------------------------------------------------------------
(***************************************************************************)
(* However finishing workers and abandoning threads interleave, each       *)
(* request's reply pipe is completed at most once.                         *)
(***************************************************************************)
THEOREM CompletedOnce == AdapterSpec => []OneTerminator
  <1>1. AdapterInv => OneTerminator BY DEF AdapterInv
  <1>2. QED BY <1>1, AdapterInductive, PTL

(***************************************************************************)
(* Nothing follows END, and at most one piece follows ABANDONED.           *)
(***************************************************************************)
THEOREM StopLeavesOneStray == AdapterSpec => []AtMostOneStray
  <1>1. AdapterInv => AtMostOneStray
    <2> SUFFICES ASSUME AdapterInv, NEW t \in Tickets, NEW i \in 1 .. Len(log[t])
                 PROVE  /\ log[t][i] = "END"       => i = Len(log[t])
                        /\ log[t][i] = "ABANDONED" => Len(log[t]) <= i + 1
      BY DEF AtMostOneStray
    <2>1. log[t] \in Seq(Kinds) /\ Follows(log[t], worker[t])
      BY DEF AdapterInv, AdapterTypeOK, StreamInv
    <2>2. QED BY <2>1 DEF Follows
  <1>2. QED BY <1>1, AdapterInductive, PTL

(***************************************************************************)
(* Every request that is asked and not terminated is owed its terminator   *)
(* by exactly one party, and nobody owes one for any other request.        *)
(***************************************************************************)
THEOREM OwedByOne == AdapterSpec => []OneDebtor
  <1>1. AdapterInv => OneDebtor
    <2> SUFFICES ASSUME AdapterInv, NEW t \in Tickets
                 PROVE  IF Asked(t) /\ ~Terminated(t)
                          THEN \E x \in Debtors(t) : Debtors(t) = {x}
                          ELSE Debtors(t) = {}
      BY DEF OneDebtor
    <2> DEFINE InHands == {h \in Threads : t \in dropped[h]}
    <2>1. t \in outstanding =>
            worker[t] # "ending" /\ InHands = {} /\ ~Terminated(t) /\ Asked(t)
      BY DEF AdapterInv, TableInv, FreshInv, InDropped, Live
    <2>2. worker[t] = "ending" => InHands = {} /\ ~Terminated(t) /\ Asked(t)
      BY DEF AdapterInv, EndingInv, FreshInv, InDropped
    <2>3. \A h \in InHands : InHands = {h} /\ ~Terminated(t) /\ Asked(t)
      BY DEF AdapterInv, DroppedInv, FreshInv, InDropped
    <2>4. Asked(t) /\ ~Terminated(t) =>
            t \in outstanding \/ worker[t] = "ending" \/ InHands # {}
      BY DEF AdapterInv, OwedInv, InDropped
    <2>5. CASE t \in outstanding
      <3>1. Debtors(t) = {<<"table">>} BY <2>1, <2>5 DEF Debtors
      <3>2. QED BY <2>1, <2>5, <3>1
    <2>6. CASE t \notin outstanding /\ worker[t] = "ending"
      <3>1. Debtors(t) = {<<"worker">>} BY <2>2, <2>6 DEF Debtors
      <3>2. QED BY <2>2, <2>6, <3>1
    <2>7. CASE t \notin outstanding /\ worker[t] # "ending"
      <3>1. Debtors(t) = {<<"thread", h>> : h \in InHands}
        BY <2>7 DEF Debtors
      <3>2. CASE InHands = {}
        BY <2>4, <2>7, <3>1, <3>2
      <3>3. ASSUME NEW h \in InHands
            PROVE  Debtors(t) = {<<"thread", h>>} /\ Asked(t) /\ ~Terminated(t)
        BY <2>3, <3>1
      <3>4. QED BY <3>2, <3>3
    <2>8. QED BY <2>5, <2>6, <2>7
  <1>2. QED BY <1>1, AdapterInductive, PTL

(***************************************************************************)
(* A request the busy signal still counts has a live worker.               *)
(***************************************************************************)
THEOREM CountedHasWorker == AdapterSpec => []CountedIsWorked
  <1>1. AdapterInv => CountedIsWorked BY DEF AdapterInv, TableInv, CountedIsWorked, Live
  <1>2. QED BY <1>1, AdapterInductive, PTL

-----------------------------------------------------------------------------
(***************************************************************************)
(* The adapter implements RequestStream.  The mapping depends on worker,   *)
(* outstanding and dropped pointwise, so each step is shown to change the  *)
(* mapped stage and the mapped `held` of one ticket (of the dropped ones,  *)
(* for Abandon) and of no other.                                           *)
(***************************************************************************)
Stage == [t \in Tickets |-> StageOf(t)]
Held  == {t \in Tickets : worker[t] \in {"holding", "explaining"}}

LEMMA RefinedInit == InitAdapter => RS!Init
  <1> SUFFICES ASSUME InitAdapter PROVE RS!Init
    OBVIOUS
  <1>1. \A t \in Tickets : StageOf(t) = "unasked" /\ worker[t] = "unborn"
    BY AdapterAssumption DEF InitAdapter, Tickets, StageOf, Asked, InDropped
  <1>2. QED BY <1>1 DEF InitAdapter, RS!Init

LEMMA RefinedWorker ==
  ASSUME AdapterInv, AdapterInv', NEW t \in Tickets, WorkerStep(t)
  PROVE  RS!Next \/ UNCHANGED <<Stage, Held, log>>
  <1> USE DEF AdapterInv, AdapterTypeOK
  <1>1. CASE PullWanted(t) \/ (ModelFails(t) /\ Wanted(t))
    <2>1. /\ t \in outstanding /\ Asked(t) /\ worker[t] = "pulling"
          /\ \/ worker' = [worker EXCEPT ![t] = "holding"]
             \/ worker' = [worker EXCEPT ![t] = "explaining"]
          /\ UNCHANGED <<nextTicket, outstanding, dropped, log>>
      BY <1>1 DEF PullWanted, ModelFails, Moves, Wanted, FreshInv
    <2>2. \A u \in Tickets : StageOf(u)' = StageOf(u)
      BY <2>1 DEF StageOf, Asked, InDropped
    <2>3. StageOf(t) = "open" /\ Stage' = Stage
      BY <2>1, <2>2 DEF Stage, StageOf
    <2>4. t \notin Held /\ Held' = Held \cup {t}
      BY <2>1 DEF Held
    <2>5. RS!Hold(t) BY <2>1, <2>3, <2>4 DEF RS!Hold, Stage, Held
    <2>6. QED BY <2>5 DEF RS!Next
  <1>2. CASE PullUnwanted(t) \/ (ModelFails(t) /\ ~Wanted(t)) \/ (Retire(t) /\ ~Wanted(t))
    <2>1. /\ log' = log /\ outstanding' = outstanding /\ UNCHANGED <<nextTicket, dropped>>
          /\ \A u \in Tickets : worker'[u] = worker[u]
               \/ (worker[u] \in {"pulling", "closing"} /\ worker'[u] \in {"closing", "returned"})
      <3>1. CASE PullUnwanted(t)
        BY <3>1 DEF PullUnwanted, Moves
      <3>2. CASE ModelFails(t) /\ ~Wanted(t)
        BY <3>2 DEF ModelFails, Moves
      <3>3. CASE Retire(t) /\ ~Wanted(t)
        BY <3>3 DEF Retire, Wanted
      <3>4. QED BY <1>2, <3>1, <3>2, <3>3
    <2>2. Stage' = Stage /\ Held' = Held
      BY <2>1 DEF StageOf, Stage, Held, Asked, InDropped
    <2>3. QED BY <2>1, <2>2
  <1>3. CASE DeliverPiece(t) \/ DeliverFailure(t)
    <2>1. /\ t \in Held /\ Held' = Held \ {t} /\ Stage' = Stage
          /\ log' = [log EXCEPT ![t] = Append(@, "piece")]
      BY <1>3 DEF DeliverPiece, DeliverFailure, Moves, Delivers, StageOf, Stage, Held, Asked, InDropped
    <2>2. RS!Write(t) BY <2>1 DEF RS!Write, Stage, Held
    <2>3. QED BY <2>2 DEF RS!Next
  <1>4. CASE Retire(t) /\ Wanted(t)
    <2>1. /\ Asked(t) /\ t \in outstanding /\ worker[t] \in {"pulling", "closing"}
          /\ worker' = [worker EXCEPT ![t] = "ending"]
          /\ outstanding' = outstanding \ {t}
          /\ UNCHANGED <<nextTicket, dropped, log>>
      BY <1>4 DEF Retire, Wanted, FreshInv
    <2>2. /\ Stage[t] = "open" /\ t \notin Held
          /\ Stage' = [Stage EXCEPT ![t] = "finished"] /\ Held' = Held
      BY <2>1 DEF StageOf, Stage, Held, Asked, InDropped
    <2>3. RS!Finish(t) BY <2>1, <2>2 DEF RS!Finish, Stage, Held
    <2>4. QED BY <2>3 DEF RS!Next
  <1>5. CASE DeliverEnd(t)
    <2>1. /\ Asked(t) /\ t \notin outstanding /\ ~InDropped(t) /\ worker[t] = "ending"
          /\ worker' = [worker EXCEPT ![t] = "returned"]
          /\ log' = [log EXCEPT ![t] = Append(@, "END")]
          /\ UNCHANGED <<nextTicket, dropped, outstanding>>
      BY <1>5 DEF DeliverEnd, Moves, Delivers, EndingInv, TableInv, FreshInv, Live
    <2>2. \A u \in Tickets : StageOf(u)' = IF u = t THEN "closed" ELSE StageOf(u)
      <3>1. \A u : InDropped(u)' <=> InDropped(u)
        BY <2>1 DEF InDropped
      <3>2. \A u : Asked(u)' <=> Asked(u)
        BY <2>1 DEF Asked
      <3>3. QED BY <2>1, <3>1, <3>2 DEF StageOf
    <2>3. StageOf(t) = "finished"
      BY <2>1 DEF StageOf
    <2>4. Held' = Held
      BY <2>1 DEF Held
    <2>5. Stage[t] = "finished" /\ Stage' = [Stage EXCEPT ![t] = "closed"]
      BY <2>2, <2>3 DEF Stage
    <2>6. RS!Close(t) BY <2>1, <2>4, <2>5 DEF RS!Close, Stage, Held
    <2>7. QED BY <2>6 DEF RS!Next
  <1>6. QED BY <1>1, <1>2, <1>3, <1>4, <1>5 DEF WorkerStep

LEMMA RefinedStep == AdapterInv /\ AdapterInv' /\ [NextAdapter]_device => [RS!Next]_(RS!vars)
  <1> SUFFICES ASSUME AdapterInv, AdapterInv', [NextAdapter]_device
               PROVE  RS!Next \/ UNCHANGED <<Stage, Held, log>>
    BY DEF RS!vars, Stage, Held
  <1> USE DEF AdapterInv, AdapterTypeOK
  <1>1. ASSUME NEW d \in Descriptors, Ask(d)
        PROVE  RS!Next
    <2> DEFINE t == nextTicket + 1
    <2>1. /\ t \in Tickets /\ nextTicket' = t /\ outstanding' = outstanding \cup {t}
          /\ worker' = [worker EXCEPT ![t] = "pulling"] /\ worker[t] = "unborn"
          /\ ~Asked(t) /\ UNCHANGED <<dropped, log>>
          /\ \A u \in Tickets : u # t => (Asked(u)' <=> Asked(u))
      BY <1>1 DEF Ask, FreshInv, Asked, Tickets
    <2>2. nextTicket + 1 <= nextTicket'
      BY <2>1 DEF Tickets
    <2>3. \A u \in Tickets : StageOf(u)' = IF u = t THEN "open" ELSE StageOf(u)
      BY <2>1, <2>2 DEF StageOf, Asked, InDropped
    <2>4. StageOf(t) = "unasked"
      BY <2>1 DEF StageOf
    <2> HIDE DEF t
    <2>5. Held' = Held
      BY <2>1 DEF Held
    <2>6. Stage[t] = "unasked" /\ Stage' = [Stage EXCEPT ![t] = "open"]
      BY <2>1, <2>3, <2>4 DEF Stage
    <2>7. RS!Open(t) BY <2>1, <2>5, <2>6 DEF RS!Open, Stage, Held
    <2>8. QED BY <2>1, <2>7 DEF RS!Next
  <1>2. ASSUME NEW t \in Tickets, WorkerStep(t)
        PROVE  RS!Next \/ UNCHANGED <<Stage, Held, log>>
    BY <1>2, RefinedWorker
  <1>3. ASSUME NEW h \in Threads, NEW d \in Descriptors, Abandon(h, d)
        PROVE  RS!Next
    <2> DEFINE S == InFlightFor(d)
    <2>1. /\ dropped[h] = {} /\ dropped' = [dropped EXCEPT ![h] = S]
          /\ outstanding' = outstanding \ S /\ S \subseteq outstanding
          /\ UNCHANGED <<nextTicket, worker, log>>
      BY <1>3 DEF Abandon, InFlightFor
    <2>2. \A u \in S : u \in Tickets /\ Asked(u) /\ worker[u] # "ending"
      BY <2>1 DEF FreshInv, TableInv, Live
    <2> HIDE DEF S
    <2>3. \A u \in Tickets : StageOf(u)' = IF u \in S THEN "given up" ELSE StageOf(u)
      BY <2>1, <2>2 DEF StageOf, Asked, InDropped
    <2>4. \A u \in S : StageOf(u) = "open"
      BY <2>1, <2>2 DEF StageOf
    <2>5. RS!GiveUp(S)
      BY <2>1, <2>2, <2>3, <2>4 DEF RS!GiveUp
    <2>6. S \in SUBSET Tickets BY <2>2
    <2>7. QED BY <2>5, <2>6 DEF RS!Next
  <1>4. ASSUME NEW h \in Threads, NEW t \in Tickets, DeliverAbandoned(h, t)
        PROVE  RS!Next
    <2>1. /\ t \in dropped[h] /\ dropped' = [dropped EXCEPT ![h] = @ \ {t}]
          /\ log' = [log EXCEPT ![t] = Append(@, "ABANDONED")]
          /\ UNCHANGED <<nextTicket, outstanding, worker>>
          /\ t \notin outstanding /\ Asked(t) /\ worker[t] # "ending"
      BY <1>4 DEF DeliverAbandoned, Delivers, DroppedInv, TableInv, EndingInv, FreshInv, InDropped
    <2>2. \A u \in Tickets : u # t => (InDropped(u)' <=> InDropped(u))
      BY <2>1 DEF InDropped
    <2>3. InDropped(t) /\ ~InDropped(t)'
      BY <2>1 DEF InDropped, DroppedInv
    <2>4. \A u \in Tickets : StageOf(u)' = IF u = t THEN "closed" ELSE StageOf(u)
      <3>1. \A u : Asked(u)' <=> Asked(u)
        BY <2>1 DEF Asked
      <3>2. QED BY <2>1, <2>2, <2>3, <3>1 DEF StageOf
    <2>5. StageOf(t) = "given up"
      BY <2>1, <2>3 DEF StageOf
    <2>6. Held' = Held
      BY <2>1 DEF Held
    <2>7. Stage[t] = "given up" /\ Stage' = [Stage EXCEPT ![t] = "closed"]
      BY <2>4, <2>5 DEF Stage
    <2>8. RS!Close(t) BY <2>1, <2>6, <2>7 DEF RS!Close, Stage, Held
    <2>9. QED BY <2>8 DEF RS!Next
  <1>5. CASE UNCHANGED device
    BY <1>5 DEF device, Stage, Held, StageOf, Asked, InDropped
  <1>6. QED BY <1>1, <1>2, <1>3, <1>4, <1>5 DEF NextAdapter

(***************************************************************************)
(* Every behaviour of the adapter is one of the abstract request stream.   *)
(***************************************************************************)
THEOREM Implements == AdapterSpec => ImplementsRequestStream
  <1>1. QED
    BY RefinedInit, RefinedStep, AdapterInductive, PTL DEF AdapterSpec, ImplementsRequestStream, RS!Spec

-----------------------------------------------------------------------------
(***************************************************************************)
(* The conversation.  Each of its steps is a step of the device or leaves  *)
(* the device alone, so everything proved above holds inside it.           *)
(***************************************************************************)
LEMMA DeviceSteps == [Next]_vars => [NextAdapter]_device
  <1> SUFFICES ASSUME [Next]_vars PROVE [NextAdapter]_device
    OBVIOUS
  <1>0. "converse" \in Descriptors BY ConversationAssumption
  <1>1. CASE UNCHANGED vars BY <1>1 DEF vars, device
  <1>2. ASSUME NEW h \in Threads, Say(h) \/ Stop(h) PROVE [NextAdapter]_device
    BY <1>2 DEF Say, Stop, device
  <1>3. ASSUME NEW h \in Threads, Client(h) PROVE [NextAdapter]_device
    <2>1. CASE GiveUp(h) BY <1>0, <2>1 DEF GiveUp, NextAdapter
    <2>2. ASSUME NEW t \in Tickets, Wake(h, t) PROVE [NextAdapter]_device
      BY <2>2 DEF Wake, NextAdapter
    <2>3. CASE Tell(h) \/ Post(h) BY <2>3 DEF Tell, Post, device
    <2>4. QED BY <1>3, <2>1, <2>2, <2>3 DEF Client
  <1>4. ASSUME NEW t \in Tickets, Worker(t) PROVE [NextAdapter]_device
    BY <1>4 DEF Worker, WorkerStep, NextAdapter
  <1>5. CASE Kernel
    <2>1. CASE DrainAsk BY <1>0, <2>1 DEF DrainAsk, NextAdapter
    <2>2. CASE DrainOne \/ DrainDone \/ OtherTick
      BY <2>2 DEF DrainOne, DrainDone, OtherTick, device
    <2>3. CASE Converse
      BY <2>3 DEF Converse, ReadStdin, WriteTopic, Spawn, WriteAsk, ReadHear, WriteReply, Look, device
    <2>4. QED BY <1>5, <2>1, <2>2, <2>3 DEF Kernel
  <1>6. QED BY <1>1, <1>2, <1>3, <1>4, <1>5 DEF Next

LEMMA DeviceInvStep == AdapterInv /\ [Next]_vars => AdapterInv'
  BY DeviceSteps, AdapterInvStep

-----------------------------------------------------------------------------
(***************************************************************************)
(* What travels, and the queues it travels in.                             *)
(***************************************************************************)
LEMMA ItemIs ==
  ASSUME NEW i \in Items
  PROVE  /\ i.nth \in Nat
         /\ \/ i.to = "hear" /\ i.of \in Tickets /\ i.what \in Kinds
            \/ i.to = "stdin" /\ i.of \in Messages /\ i.what = "message" /\ i = Message(i.of)
  BY DEF Items, Message

LEMMA ReplyIs ==
  ASSUME NEW t \in Tickets, NEW k \in Kinds, log[t] \in Seq(Kinds)
  PROVE  /\ Reply(t, k) \in Items /\ Reply(t, k).to = "hear" /\ Reply(t, k).of = t
         /\ Reply(t, k).what = k /\ Reply(t, k).nth = Len(log[t]) + 1
  BY DEF Reply, Items

LEMMA MessageIs ==
  ASSUME NEW m \in Messages
  PROVE  /\ Message(m) \in Items /\ Message(m).to = "stdin" /\ Message(m).of = m
         /\ ~IsPiece(Message(m)) /\ ~IsTerminator(Message(m))
  BY DEF Message, Items, IsPiece, IsTerminator, Terminators

\* What was read of the reply pipe has words of requests.
LEMMA PieceIs ==
  ASSUME NEW items \in Seq(Items)
  PROVE  /\ WordsIn(items) \in SUBSET Words
         /\ EndsIn(items) \in SUBSET Tickets
         /\ StreamPiece(items) \in [words : SUBSET Words, ended : BOOLEAN]
  <1>1. \A k \in 1 .. Len(items) : IsPiece(items[k]) => Word(items[k]) \in Words
    BY ItemIs DEF IsPiece, Word, Words
  <1>2. \A k \in 1 .. Len(items) : IsTerminator(items[k]) => items[k].of \in Tickets
    BY ItemIs DEF IsTerminator, Terminators
  <1>3. WordsIn(items) \in SUBSET Words BY <1>1 DEF WordsIn
  <1>4. EndsIn(items) \in SUBSET Tickets BY <1>2 DEF EndsIn
  <1>5. QED BY <1>3, <1>4 DEF StreamPiece

-----------------------------------------------------------------------------
(***************************************************************************)
(* Every variable of the conversation keeps its type.                      *)
(***************************************************************************)
LEMMA TypeInit == Init => TypeOK
  <1> SUFFICES ASSUME Init PROVE TypeOK
    OBVIOUS
  <1>1. AdapterTypeOK BY AdapterTypeInit DEF Init
  <1>2. KernelTypeOK
    <2>1. Cardinality(stdin) <= Capacity
      BY FS_EmptySet, ConversationAssumption DEF Init
    <2>2. inbound \in Seq(Items) /\ hear \in Seq(Items) /\ Len(hear) <= Capacity
      BY ConversationAssumption DEF Init
    <2>3. phase \in {"drain", "tick", "asking"} /\ stdin \in SUBSET Messages /\ refused \in SUBSET Items
      BY DEF Init
    <2>4. QED BY <2>1, <2>2, <2>3 DEF KernelTypeOK
  <1>3. JobTypeOK
    <2>1. got \in [words : SUBSET Words, ended : BOOLEAN] /\ abandoned \in BOOLEAN
      BY DEF Init, Nothing
    <2>2. shown \in [Tickets -> Seq(SUBSET Words)] /\ ended \in [Tickets -> SUBSET Tickets]
      BY DEF Init
    <2>3. /\ pc \in {"listening", "noting", "asking", "spawning", "hearing", "heard", "written"}
          /\ about \in SUBSET Messages
      BY DEF Init
    <2>4. QED BY <2>1, <2>2, <2>3 DEF JobTypeOK
  <1>4. PageTypeOK BY ConversationAssumption DEF Init, PageTypeOK, Idle
  <1>5. QED BY <1>1, <1>2, <1>3, <1>4 DEF TypeOK

\* What an HTTP thread or a worker puts on the queue leaves the kernel's state typed.
LEMMA PutTyped ==
  ASSUME KernelTypeOK, NEW i \in Items, Put(i), UNCHANGED kernel
  PROVE  KernelTypeOK'
  <1>1. inbound' \in Seq(Items) BY DEF Put, KernelTypeOK
  <1>2. QED BY <1>1 DEF kernel, KernelTypeOK

LEMMA KernelTypeStep == TypeOK /\ [Next]_vars => KernelTypeOK'
  <1> SUFFICES ASSUME TypeOK, [Next]_vars PROVE KernelTypeOK'
    OBVIOUS
  <1>a. MaxSays \in Nat /\ Capacity \in Nat \ {0}
    BY ConversationAssumption
  <1>b. log \in [Tickets -> Seq(Kinds)] /\ KernelTypeOK
    BY DEF TypeOK, AdapterTypeOK
  <1>c. ASSUME UNCHANGED <<inbound, kernel>> PROVE KernelTypeOK'
    BY <1>b, <1>c DEF kernel, KernelTypeOK
  <1>1. CASE UNCHANGED vars BY <1>1, <1>c DEF vars
  <1>2. ASSUME NEW h \in Threads, Say(h) \/ Stop(h) PROVE KernelTypeOK'
    BY <1>c, <1>2 DEF Say, Stop
  <1>3. ASSUME NEW h \in Threads, Client(h) PROVE KernelTypeOK'
    <2>1. CASE GiveUp(h) BY <1>c, <2>1 DEF GiveUp
    <2>2. ASSUME NEW t \in Tickets, Wake(h, t) PROVE KernelTypeOK'
      <3>1. Reply(t, "ABANDONED") \in Items BY <1>b, ReplyIs DEF Kinds
      <3>2. QED BY <1>b, <2>2, <3>1, PutTyped DEF Wake
    <2>3. CASE Tell(h) BY <1>c, <2>3 DEF Tell
    <2>4. CASE Post(h)
      <3>1. client[h].msg \in 0 .. MaxSays /\ client[h].msg # 0
        BY <2>4 DEF Post, TypeOK, PageTypeOK
      <3>2. client[h].msg \in Messages BY <1>a, <3>1 DEF Messages
      <3>3. Message(client[h].msg) \in Items BY <3>2, MessageIs
      <3>4. QED BY <1>b, <2>4, <3>3, PutTyped DEF Post
    <2>5. QED BY <1>3, <2>1, <2>2, <2>3, <2>4 DEF Client
  <1>4. ASSUME NEW t \in Tickets, Worker(t) PROVE KernelTypeOK'
    <2>1. Reply(t, "piece") \in Items /\ Reply(t, "END") \in Items
      BY <1>b, ReplyIs DEF Kinds
    <2>2. QED BY <1>b, <1>c, <1>4, <2>1, PutTyped DEF Worker
  <1>5. CASE DrainOne
    <2> DEFINE i == Head(inbound)
    <2>1. i \in Items /\ inbound' \in Seq(Items) /\ (i.to = "stdin" => i.of \in Messages)
      BY <1>b, <1>5, ItemIs DEF DrainOne, KernelTypeOK
    <2>2. refused' \in SUBSET Items BY <1>b, <1>5, <2>1 DEF DrainOne, KernelTypeOK
    <2>3. hear' \in Seq(Items) /\ Len(hear') <= Capacity
      BY <1>a, <1>b, <1>5, <2>1 DEF DrainOne, Fits, KernelTypeOK
    <2>4. stdin' \in SUBSET Messages /\ Cardinality(stdin') <= Capacity
      <3>1. IsFiniteSet(stdin) /\ Cardinality(stdin) \in Nat
        <4>1. IsFiniteSet(Messages) BY <1>a, FS_Interval DEF Messages
        <4>2. QED BY <1>b, <4>1, FS_Subset, FS_CardinalityType DEF KernelTypeOK
      <3>2. CASE Fits(i) /\ i.to = "stdin"
        <4>1. stdin' = stdin \cup {i.of} BY <1>5, <3>2 DEF DrainOne
        <4>2. Cardinality(stdin) < Capacity BY <3>2 DEF Fits
        <4>3. Cardinality(stdin \cup {i.of}) = Cardinality(stdin)
                \/ Cardinality(stdin \cup {i.of}) = Cardinality(stdin) + 1
          BY <3>1, FS_AddElement
        <4>4. QED BY <1>a, <1>b, <2>1, <3>1, <3>2, <4>1, <4>2, <4>3 DEF KernelTypeOK
      <3>3. CASE ~(Fits(i) /\ i.to = "stdin")
        BY <1>b, <1>5, <3>3 DEF DrainOne, KernelTypeOK
      <3>4. QED BY <3>2, <3>3
    <2>5. phase' = phase BY <1>5 DEF DrainOne
    <2>6. QED BY <1>b, <2>1, <2>2, <2>3, <2>4, <2>5 DEF KernelTypeOK
  <1>6. CASE DrainDone \/ OtherTick \/ DrainAsk
    BY <1>b, <1>6 DEF DrainDone, OtherTick, DrainAsk, KernelTypeOK
  <1>7. CASE Converse
    <2>1. /\ inbound' = inbound /\ refused' = refused
          /\ phase' \in {"drain", "asking"}
          /\ stdin' \in {stdin, {}}
          /\ hear' \in {hear, <<>>}
      BY <1>7 DEF Converse, ReadStdin, WriteTopic, Spawn, WriteAsk, ReadHear, WriteReply, Look
    <2>2. Cardinality(stdin') <= Capacity
      <3>1. CASE stdin' = stdin BY <1>b, <3>1 DEF KernelTypeOK
      <3>2. CASE stdin' = {}
        <4>1. Cardinality(stdin') = 0 BY <3>2, FS_EmptySet
        <4>2. QED BY <1>a, <4>1
      <3>3. QED BY <2>1, <3>1, <3>2
    <2>3. hear' \in Seq(Items) /\ Len(hear') <= Capacity
      <3>1. CASE hear' = hear BY <1>b, <3>1 DEF KernelTypeOK
      <3>2. CASE hear' = <<>> BY <1>a, <3>2
      <3>3. QED BY <2>1, <3>1, <3>2
    <2>4. phase' \in {"drain", "tick", "asking"} /\ stdin' \in SUBSET Messages
      BY <1>b, <2>1 DEF KernelTypeOK
    <2>5. QED BY <1>b, <2>1, <2>2, <2>3, <2>4 DEF KernelTypeOK
  <1>8. QED BY <1>1, <1>2, <1>3, <1>4, <1>5, <1>6, <1>7 DEF Next, Kernel

LEMMA JobTypeStep == TypeOK /\ [Next]_vars => JobTypeOK'
  <1> SUFFICES ASSUME TypeOK, [Next]_vars PROVE JobTypeOK'
    OBVIOUS
  <1>b. JobTypeOK /\ stdin \in SUBSET Messages /\ hear \in Seq(Items)
    BY DEF TypeOK, KernelTypeOK
  <1>c. ASSUME UNCHANGED job PROVE JobTypeOK'
    BY <1>b, <1>c DEF job, JobTypeOK
  <1>1. CASE UNCHANGED vars BY <1>1, <1>c DEF vars
  <1>2. ASSUME NEW h \in Threads, Say(h) \/ Stop(h) PROVE JobTypeOK'
    BY <1>c, <1>2 DEF Say, Stop
  <1>3. ASSUME NEW h \in Threads, Client(h) PROVE JobTypeOK'
    <2>1. CASE Tell(h) BY <1>b, <2>1 DEF Tell, JobTypeOK
    <2>2. CASE GiveUp(h) \/ (\E t \in Tickets : Wake(h, t)) \/ Post(h)
      BY <1>c, <2>2 DEF GiveUp, Wake, Post
    <2>3. QED BY <1>3, <2>1, <2>2 DEF Client
  <1>4. ASSUME NEW t \in Tickets, Worker(t) PROVE JobTypeOK'
    BY <1>c, <1>4 DEF Worker
  <1>5. CASE DrainOne \/ DrainDone \/ OtherTick \/ DrainAsk
    BY <1>c, <1>5 DEF DrainOne, DrainDone, OtherTick, DrainAsk
  <1>6. CASE ReadStdin \/ WriteTopic \/ Spawn \/ WriteAsk
    BY <1>b, <1>6 DEF ReadStdin, WriteTopic, Spawn, WriteAsk, Command, JobTypeOK
  <1>7. CASE ReadHear
    <2>1. got' \in [words : SUBSET Words, ended : BOOLEAN] /\ EndsIn(hear) \in SUBSET Tickets
      BY <1>b, <1>7, PieceIs DEF ReadHear
    <2>2. ended' \in [Tickets -> SUBSET Tickets]
      BY <1>b, <1>7, <2>1 DEF ReadHear, JobTypeOK
    <2>3. pc' = "heard" /\ UNCHANGED <<about, abandoned, shown>>
      BY <1>7 DEF ReadHear, Command
    <2>4. QED BY <1>b, <2>1, <2>2, <2>3 DEF JobTypeOK
  <1>8. CASE WriteReply
    <2> DEFINE S == SUBSET Words
    <2>1. got.words \in S /\ shown \in [Tickets -> Seq(S)] BY <1>b DEF JobTypeOK
    <2>2. shown' \in [Tickets -> Seq(SUBSET Words)]
      <3>1. shown' = [shown EXCEPT ![Turn] = Append(@, got.words)] BY <1>8 DEF WriteReply
      <3> DEFINE w == got.words
      <3>2. shown' = [shown EXCEPT ![Turn] = Append(shown[Turn], w)] BY <3>1
      <3>4. w \in S BY <2>1
      <3> HIDE DEF S, w
      <3>5. shown' \in [Tickets -> Seq(S)]
        <4>1. \A t \in Tickets : Append(shown[t], w) \in Seq(S) BY <2>1, <3>4
        <4>2. QED BY <2>1, <3>2, <4>1
      <3>6. QED BY <3>5 DEF S
    <2>3. pc' = "written" /\ UNCHANGED <<about, abandoned, got, ended>>
      BY <1>8 DEF WriteReply, Command
    <2>4. QED BY <1>b, <2>2, <2>3 DEF JobTypeOK
  <1>9. CASE Look
    <2>1. Nothing \in [words : SUBSET Words, ended : BOOLEAN] BY DEF Nothing
    <2>2. /\ pc' \in {"listening", "hearing"} /\ about' \in {{}, about} /\ abandoned' \in BOOLEAN
          /\ got' = Nothing /\ UNCHANGED <<shown, ended>>
      BY <1>9 DEF Look
    <2>3. QED BY <1>b, <2>1, <2>2 DEF JobTypeOK
  <1>10. QED
    BY <1>1, <1>2, <1>3, <1>4, <1>5, <1>6, <1>7, <1>8, <1>9 DEF Next, Kernel, Converse

LEMMA PageTypeStep == TypeOK /\ [Next]_vars => PageTypeOK'
  <1> SUFFICES ASSUME TypeOK, [Next]_vars PROVE PageTypeOK'
    OBVIOUS
  <1>a. MaxSays \in Nat /\ MaxStops \in Nat
    BY ConversationAssumption
  <1>b. PageTypeOK BY DEF TypeOK
  <1>c. ASSUME UNCHANGED page PROVE PageTypeOK'
    BY <1>b, <1>c DEF page, PageTypeOK
  <1>1. CASE UNCHANGED vars BY <1>1, <1>c DEF vars
  <1> DEFINE Ats == {"idle", "giving up", "waking", "posting"}
             Clients == [Threads -> [at : Ats, msg : 0 .. MaxSays]]
             Posts(c) == \A k \in Threads : c[k].at = "posting" => c[k].msg # 0
  <1>d. client \in Clients /\ Posts(client)
    BY <1>b DEF PageTypeOK
  <1>g. said \in 0 .. MaxSays /\ stops \in 0 .. MaxStops /\ told \in Nat /\ idly \in 0 .. told
    BY <1>b DEF PageTypeOK
  <1>i. \A h \in Threads : client[h] \in [at : Ats, msg : 0 .. MaxSays]
    BY <1>d
  <1>j. Idle \in [at : Ats, msg : 0 .. MaxSays] /\ Idle.at # "posting"
    BY <1>a DEF Idle
  <1>e. ASSUME client' \in Clients, Posts(client'), said' \in 0 .. MaxSays, stops' \in 0 .. MaxStops,
               told' \in Nat, idly' \in 0 .. told', displaced' \in [Messages -> SUBSET Tickets]
        PROVE  PageTypeOK'
    BY <1>e DEF PageTypeOK
  <1>f. ASSUME NEW h \in Threads, NEW c \in [at : Ats, msg : 0 .. MaxSays], client' = [client EXCEPT ![h] = c],
               c.at = "posting" => c.msg # 0
        PROVE  client' \in Clients /\ Posts(client')
    BY <1>d, <1>f
  <1> HIDE DEF Clients, Posts
  <1>2. ASSUME NEW h \in Threads, Say(h) PROVE PageTypeOK'
    <2> DEFINE c == [at |-> IF InFlightFor("converse") # {} THEN "giving up" ELSE "posting", msg |-> said']
    <2>0. said' = said + 1 /\ said < MaxSays BY <1>2 DEF Say
    <2>1. said' \in 0 .. MaxSays /\ said' # 0
      BY <1>a, <1>g, <2>0
    <2>2. c \in [at : Ats, msg : 0 .. MaxSays] /\ c.msg # 0
      BY <2>1
    <2>3. client' = [client EXCEPT ![h] = c] BY <1>2 DEF Say
    <2>4. UNCHANGED <<stops, told, idly, displaced>> BY <1>2 DEF Say
    <2> HIDE DEF c
    <2>5. client' \in Clients /\ Posts(client') BY <1>f, <2>2, <2>3
    <2>6. QED BY <1>b, <1>e, <2>1, <2>4, <2>5 DEF PageTypeOK
  <1>7. ASSUME NEW h \in Threads, Stop(h) PROVE PageTypeOK'
    <2> DEFINE c == [at |-> "giving up", msg |-> 0]
    <2>0. client' = [client EXCEPT ![h] = c] BY <1>7 DEF Stop
    <2>6. stops' = stops + 1 /\ stops < MaxStops BY <1>7 DEF Stop
    <2>1. stops' \in 0 .. MaxStops
      BY <1>a, <1>g, <2>6
    <2>5. c \in [at : Ats, msg : 0 .. MaxSays] /\ c.at # "posting" BY <1>a
    <2> HIDE DEF c
    <2>2. client' \in Clients /\ Posts(client') BY <1>f, <2>0, <2>5
    <2>3. UNCHANGED <<said, told, idly, displaced>> BY <1>7 DEF Stop
    <2>4. QED BY <1>b, <1>e, <2>1, <2>2, <2>3 DEF PageTypeOK
  <1>3. ASSUME NEW h \in Threads, Client(h) PROVE PageTypeOK'
    <2>1. CASE GiveUp(h)
      <3>1. dropped'[h] \in SUBSET Tickets
        BY DeviceSteps, AdapterTypeStep DEF TypeOK, AdapterTypeOK
      <3>2. displaced' \in [Messages -> SUBSET Tickets]
        BY <1>b, <2>1, <3>1 DEF GiveUp, PageTypeOK
      <3>3. client' \in Clients /\ Posts(client')
        <4> DEFINE c == [client[h] EXCEPT !.at = "waking"]
        <4>1. c \in [at : Ats, msg : 0 .. MaxSays] /\ c.at # "posting" BY <1>i
        <4>2. client' = [client EXCEPT ![h] = c]
          BY <2>1 DEF GiveUp
        <4> HIDE DEF c
        <4>3. QED BY <1>f, <4>1, <4>2
      <3>4. UNCHANGED <<said, stops, told, idly>> BY <2>1 DEF GiveUp
      <3>5. QED BY <1>b, <1>e, <3>2, <3>3, <3>4 DEF PageTypeOK
    <2>2. CASE Tell(h)
      <3> DEFINE c == IF client[h].msg = 0 THEN Idle ELSE [client[h] EXCEPT !.at = "posting"]
      <3>1. c \in [at : Ats, msg : 0 .. MaxSays] /\ (c.at = "posting" => c.msg # 0) BY <1>i, <1>j
      <3>2. client' = [client EXCEPT ![h] = c]
        BY <2>2 DEF Tell
      <3> HIDE DEF c
      <3>3. client' \in Clients /\ Posts(client') BY <1>f, <3>1, <3>2
      <3>4. told' = told + 1 /\ idly' = idly + IF AtRest THEN 1 ELSE 0 BY <2>2 DEF Tell
      <3>5. told' \in Nat /\ idly' \in 0 .. told' BY <1>g, <3>4
      <3>6. UNCHANGED <<said, stops, displaced>> BY <2>2 DEF Tell
      <3>7. QED BY <1>b, <1>e, <3>3, <3>5, <3>6 DEF PageTypeOK
    <2>3. CASE Post(h)
      <3>1. client' \in Clients /\ Posts(client') BY <1>f, <1>j, <2>3 DEF Post
      <3>2. UNCHANGED <<said, stops, told, idly, displaced>> BY <2>3 DEF Post
      <3>3. QED BY <1>b, <1>e, <3>1, <3>2 DEF PageTypeOK
    <2>4. CASE \E t \in Tickets : Wake(h, t) BY <1>c, <2>4 DEF Wake
    <2>5. QED BY <1>3, <2>1, <2>2, <2>3, <2>4 DEF Client
  <1>4. ASSUME NEW t \in Tickets, Worker(t) PROVE PageTypeOK'
    BY <1>c, <1>4 DEF Worker
  <1>5. CASE Kernel
    BY <1>c, <1>5 DEF Kernel, DrainOne, DrainDone, OtherTick, DrainAsk, Converse, ReadStdin, WriteTopic,
      Spawn, WriteAsk, ReadHear, WriteReply, Look
  <1>6. QED BY <1>1, <1>2, <1>3, <1>4, <1>5, <1>7 DEF Next

-----------------------------------------------------------------------------
(***************************************************************************)
(* Waking before speaking.  WokenFirst looks at a message that has reached *)
(* the conversation; the invariant follows it from the thread that holds   *)
(* it (which holds the requests it displaced too) through the queue (where *)
(* every ABANDONED of those is ahead of it).                               *)
(***************************************************************************)
IsMessage(i, m) == i.to = "stdin" /\ i.of = m
IsEndOf(i, t)   == i.of = t /\ IsTerminator(i)

\* A message is with one thread, or has left its thread for good.
MessageInv ==
  /\ \A h \in Threads : client[h].msg <= said /\ (dropped[h] # {} => client[h].at = "waking")
  /\ \A h, k \in Threads : client[h].msg = client[k].msg /\ client[h].msg # 0 => h = k
  /\ \A m \in stdin \cup about : m <= said /\ \A h \in Threads : client[h].msg # m
  /\ \A k \in 1 .. Len(inbound) : inbound[k].to = "stdin" =>
       inbound[k].of <= said /\ \A h \in Threads : client[h].msg # inbound[k].of
  /\ \A m \in Messages : m > said => displaced[m] = {}

\* A displaced request is out of the table for good; only the thread that speaks next
\* may still have to wake for it, and no wake-up is behind the words.
DisplacedInv ==
  \A m \in Messages : \A t \in displaced[m] :
    /\ Asked(t) /\ t \notin outstanding /\ worker[t] # "ending"
    /\ \A h \in Threads : t \in dropped[h] => client[h].msg = m
    /\ \A k \in 1 .. Len(inbound) : IsMessage(inbound[k], m) =>
         \A j \in k .. Len(inbound) : ~IsEndOf(inbound[j], t)
    /\ m \in stdin \cup about => ~Coming(t, inbound)

-----------------------------------------------------------------------------
(***************************************************************************)
(* Words.  A word is on the way, on the pipe, in the job's hands or        *)
(* written, and the four are disjoint and hold nothing that was not        *)
(* delivered: so the next word a worker delivers is nowhere yet.           *)
(***************************************************************************)
AllWords   == {w \in Words : w[2] \in 1 .. Len(log[w[1]]) /\ log[w[1]][w[2]] = "piece"}
InHand     == IF pc = "heard" THEN got.words ELSE {}
AllWritten == {w \in Words : \E u \in Tickets : w \in Written(u)}

EachOnce(items) ==
  \A j, k \in 1 .. Len(items) :
    IsPiece(items[j]) /\ IsPiece(items[k]) /\ Word(items[j]) = Word(items[k]) => j = k

WrittenOnce ==
  \A u, v \in Tickets : \A j \in 1 .. Len(shown[u]), k \in 1 .. Len(shown[v]) :
    \A w \in shown[u][j] : w \in shown[v][k] => u = v /\ j = k

WordsInv ==
  /\ EachOnce(inbound) /\ EachOnce(hear) /\ WrittenOnce
  /\ WordsIn(inbound) \cup WordsIn(hear) \cup InHand \cup AllWritten \subseteq AllWords
  /\ WordsIn(inbound) \cap (WordsIn(hear) \cup InHand \cup AllWritten) = {}
  /\ WordsIn(hear) \cap (InHand \cup AllWritten) = {}
  /\ InHand \cap AllWritten = {}
  /\ refused = {} => AllWords \subseteq WordsIn(inbound) \cup WordsIn(hear) \cup InHand \cup AllWritten

-----------------------------------------------------------------------------
(***************************************************************************)
(* Never deaf.  A turn that has asked and has not read its terminator is   *)
(* owed it, wherever the turn is in its loop.                              *)
(***************************************************************************)
InTurn == phase # "asking" /\ (pc = "hearing" \/ (pc \in {"heard", "written"} /\ ~got.ended))

DeafInv ==
  /\ phase = "asking" => pc = "hearing"
  /\ phase # "asking" /\ pc \in {"hearing", "heard", "written"} => nextTicket # 0
  /\ InTurn => Owed(Turn) \/ RefusedEnd(Turn)

-----------------------------------------------------------------------------
(***************************************************************************)
(* Undisturbed turns.  While nobody stops, barges in or is refused, the    *)
(* pipe carries the answer of one request at a time, in order, and nothing *)
(* after its END.                                                          *)
(***************************************************************************)
Undisturbed == told = 0 /\ NobodyIsStopping /\ refused = {}

\* No request of this turn is open: it was answered, or not made yet.
Between == phase = "asking" \/ pc \in {"listening", "noting", "spawning", "asking"}

\* The turn has read the end of its answer, and not looked at it yet.
SawEnd == pc \in {"heard", "written"} /\ got.ended

Answered(t) == worker[t] = "returned" /\ ended[t] = {t}

FlagInv ==
  /\ abandoned => told > 0
  /\ \A k \in 1 .. Len(hear) : hear[k].to = "hear"
  /\ \A t \in Tickets : ~Asked(t) => ended[t] = {}

\* Every reply on its way answers the turn's own request.
OneVoice(items) ==
  \A k \in 1 .. Len(items) : items[k].to = "hear" => ~Between /\ items[k].of = Turn

\* No reply is queued behind the end of an answer.
NothingAfterEnd(items) ==
  \A k \in 1 .. Len(items) : IsTerminator(items[k]) =>
    \A j \in k + 1 .. Len(items) : items[j].to # "hear"

NoReplies(items) == \A k \in 1 .. Len(items) : items[k].to # "hear"

Calm ==
  /\ OneVoice(inbound) /\ OneVoice(hear)
  /\ NothingAfterEnd(inbound) /\ NothingAfterEnd(hear)
  /\ Coming(Turn, inbound) \/ Coming(Turn, hear) => worker[Turn] = "returned"
  /\ Coming(Turn, hear) => NoReplies(inbound)
  /\ \A t \in Requested : Between \/ t < Turn => Answered(t)
  /\ ~Between => Turn \in Requested
  /\ ~Between /\ SawEnd => Answered(Turn) /\ hear = <<>> /\ NoReplies(inbound)
  /\ ~Between /\ ~SawEnd => ended[Turn] = {}
  /\ \A w \in InHand : w[1] = Turn
  /\ \A t \in Tickets : \A w \in Written(t) : w[1] = t

CalmInv == Undisturbed => Calm

ConversationInv ==
  TypeOK /\ AdapterInv /\ MessageInv /\ DisplacedInv /\ WordsInv /\ DeafInv /\ FlagInv /\ CalmInv

-----------------------------------------------------------------------------
(***************************************************************************)
(* The queues, one item at a time.                                         *)
(***************************************************************************)
LEMMA AppendIs ==
  ASSUME NEW items \in Seq(Items), NEW i \in Items
  PROVE  /\ Append(items, i) \in Seq(Items)
         /\ Len(Append(items, i)) = Len(items) + 1
         /\ \A k \in 1 .. Len(items) : Append(items, i)[k] = items[k]
         /\ Append(items, i)[Len(items) + 1] = i
         /\ \A t : Coming(t, Append(items, i)) <=> Coming(t, items) \/ IsEndOf(i, t)
  <1> DEFINE new == Append(items, i)
  <1>1. /\ new \in Seq(Items) /\ Len(new) = Len(items) + 1
        /\ \A k \in 1 .. Len(items) : new[k] = items[k]
        /\ new[Len(items) + 1] = i
    OBVIOUS
  <1> HIDE DEF new
  <1>2. ASSUME NEW t PROVE Coming(t, new) <=> Coming(t, items) \/ IsEndOf(i, t)
    <2>1. Coming(t, new) => Coming(t, items) \/ IsEndOf(i, t)
      BY <1>1 DEF Coming, IsEndOf
    <2>2. Coming(t, items) => Coming(t, new)
      BY <1>1 DEF Coming
    <2>3. IsEndOf(i, t) => Coming(t, new)
      <3>1. Len(items) + 1 \in 1 .. Len(new) BY <1>1
      <3>2. QED BY <1>1, <3>1 DEF Coming, IsEndOf
    <2>4. QED BY <2>1, <2>2, <2>3
  <1>3. QED BY <1>1, <1>2 DEF new

LEMMA TailIs ==
  ASSUME NEW items \in Seq(Items), items # <<>>
  PROVE  /\ Head(items) \in Items /\ Head(items) = items[1] /\ Len(items) >= 1
         /\ Tail(items) \in Seq(Items)
         /\ Len(Tail(items)) = Len(items) - 1
         /\ \A k \in 1 .. Len(Tail(items)) : k + 1 \in 1 .. Len(items) /\ Tail(items)[k] = items[k + 1]
         /\ \A t : Coming(t, items) <=> Coming(t, Tail(items)) \/ IsEndOf(Head(items), t)
  <1> DEFINE rest == Tail(items)
             first == Head(items)
  <1>1. /\ first \in Items /\ first = items[1] /\ Len(items) >= 1
        /\ rest \in Seq(Items) /\ Len(rest) = Len(items) - 1
        /\ \A k \in 1 .. Len(rest) : k + 1 \in 1 .. Len(items) /\ rest[k] = items[k + 1]
    OBVIOUS
  <1> HIDE DEF rest, first
  <1>2. ASSUME NEW t PROVE Coming(t, items) <=> Coming(t, rest) \/ IsEndOf(first, t)
    <2>1. Coming(t, items) => Coming(t, rest) \/ IsEndOf(first, t)
      <3> SUFFICES ASSUME NEW k \in 1 .. Len(items), items[k].of = t, IsTerminator(items[k])
                   PROVE  Coming(t, rest) \/ IsEndOf(first, t)
        BY DEF Coming
      <3>1. CASE k = 1 BY <1>1, <3>1 DEF IsEndOf
      <3>2. CASE k # 1
        <4>1. k - 1 \in 1 .. Len(rest) /\ rest[k - 1] = items[k]
          BY <1>1, <3>2
        <4>2. QED BY <4>1 DEF Coming
      <3>3. QED BY <3>1, <3>2
    <2>2. Coming(t, rest) => Coming(t, items)
      BY <1>1 DEF Coming
    <2>3. IsEndOf(first, t) => Coming(t, items)
      <3>1. 1 \in 1 .. Len(items) BY <1>1
      <3>2. QED BY <1>1, <3>1 DEF Coming, IsEndOf
    <2>4. QED BY <2>1, <2>2, <2>3
  <1>3. QED BY <1>1, <1>2 DEF rest, first

LEMMA NothingComes == \A t : ~Coming(t, <<>>)
  BY DEF Coming

-----------------------------------------------------------------------------
(***************************************************************************)
(* What a step of an HTTP thread does to the threads.                      *)
(***************************************************************************)
LEMMA SayIs ==
  ASSUME TypeOK, NEW h \in Threads, Say(h)
  PROVE  /\ client[h].at = "idle" /\ said \in Nat /\ said' = said + 1
         /\ client'[h].msg = said'
         /\ client'[h].at = IF InFlightFor("converse") # {} THEN "giving up" ELSE "posting"
         /\ \A k \in Threads : k # h => client'[k] = client[k]
         /\ UNCHANGED <<inbound, displaced, told>>
         /\ UNCHANGED device /\ UNCHANGED kernel /\ UNCHANGED job
  <1> DEFINE c == [at |-> IF InFlightFor("converse") # {} THEN "giving up" ELSE "posting", msg |-> said']
  <1>1. client' = [client EXCEPT ![h] = c] BY DEF Say
  <1>2. c.msg = said' /\ c.at = IF InFlightFor("converse") # {} THEN "giving up" ELSE "posting"
    OBVIOUS
  <1> HIDE DEF c
  <1>3. client'[h] = c /\ \A k \in Threads : k # h => client'[k] = client[k]
    BY <1>1 DEF TypeOK, PageTypeOK
  <1>4. said \in Nat
    <2>1. said \in 0 .. MaxSays BY DEF TypeOK, PageTypeOK
    <2>2. QED BY <2>1, ConversationAssumption
  <1>5. client[h].at = "idle" /\ said' = said + 1 BY DEF Say
  <1>6. UNCHANGED <<inbound, displaced, told>> /\ UNCHANGED device /\ UNCHANGED kernel /\ UNCHANGED job
    BY DEF Say
  <1>7. QED BY <1>2, <1>3, <1>4, <1>5, <1>6

LEMMA StopIs ==
  ASSUME TypeOK, NEW h \in Threads, Stop(h)
  PROVE  /\ client[h].at = "idle"
         /\ client'[h].msg = 0 /\ client'[h].at = "giving up"
         /\ \A k \in Threads : k # h => client'[k] = client[k]
         /\ UNCHANGED <<inbound, said, displaced, told>>
         /\ UNCHANGED device /\ UNCHANGED kernel /\ UNCHANGED job
  <1> DEFINE c == [at |-> "giving up", msg |-> 0]
  <1>1. client' = [client EXCEPT ![h] = c] BY DEF Stop
  <1>2. c.msg = 0 /\ c.at = "giving up"
    OBVIOUS
  <1> HIDE DEF c
  <1>3. client'[h] = c /\ \A k \in Threads : k # h => client'[k] = client[k]
    BY <1>1 DEF TypeOK, PageTypeOK
  <1>4. client[h].at = "idle" BY DEF Stop
  <1>5. UNCHANGED <<inbound, said, displaced, told>> /\ UNCHANGED device /\ UNCHANGED kernel /\ UNCHANGED job
    BY DEF Stop
  <1>6. QED BY <1>2, <1>3, <1>4, <1>5

LEMMA GiveUpIs ==
  ASSUME TypeOK, NEW h \in Threads, GiveUp(h)
  PROVE  /\ client[h].at = "giving up" /\ dropped[h] = {}
         /\ client'[h].msg = client[h].msg /\ client'[h].at = "waking"
         /\ \A k \in Threads : k # h => client'[k] = client[k]
         /\ dropped' = [dropped EXCEPT ![h] = InFlightFor("converse")]
         /\ outstanding' = outstanding \ InFlightFor("converse")
         /\ displaced' = [m \in Messages |-> IF m = client[h].msg THEN dropped'[h] ELSE displaced[m]]
         /\ UNCHANGED <<inbound, said, told, nextTicket, worker, log>>
         /\ UNCHANGED kernel /\ UNCHANGED job
  <1> DEFINE c == [client[h] EXCEPT !.at = "waking"]
  <1>1. client' = [client EXCEPT ![h] = c] BY DEF GiveUp
  <1>2. c.msg = client[h].msg /\ c.at = "waking"
    BY DEF TypeOK, PageTypeOK
  <1> HIDE DEF c
  <1>3. client'[h] = c /\ \A k \in Threads : k # h => client'[k] = client[k]
    BY <1>1 DEF TypeOK, PageTypeOK
  <1>4. client[h].at = "giving up" /\ dropped[h] = {} BY DEF GiveUp, Abandon
  <1>5. /\ dropped' = [dropped EXCEPT ![h] = InFlightFor("converse")]
        /\ outstanding' = outstanding \ InFlightFor("converse")
    BY DEF GiveUp, Abandon
  <1>6. displaced' = [m \in Messages |-> IF m = client[h].msg THEN dropped'[h] ELSE displaced[m]]
    BY DEF GiveUp
  <1>7. UNCHANGED <<inbound, said, told, nextTicket, worker, log>> /\ UNCHANGED kernel /\ UNCHANGED job
    BY DEF GiveUp, Abandon
  <1>8. QED BY <1>2, <1>3, <1>4, <1>5, <1>6, <1>7

LEMMA TellIs ==
  ASSUME TypeOK, NEW h \in Threads, Tell(h)
  PROVE  /\ client[h].at = "waking" /\ dropped[h] = {}
         /\ client'[h].msg = client[h].msg
         /\ client'[h].at = IF client[h].msg = 0 THEN "idle" ELSE "posting"
         /\ \A k \in Threads : k # h => client'[k] = client[k]
         /\ abandoned' = TRUE
         /\ told \in Nat /\ told' = told + 1
         /\ UNCHANGED <<inbound, said, displaced, pc, about, got, shown, ended>>
         /\ UNCHANGED device /\ UNCHANGED kernel
  <1> DEFINE c == IF client[h].msg = 0 THEN Idle ELSE [client[h] EXCEPT !.at = "posting"]
  <1>1. client' = [client EXCEPT ![h] = c] BY DEF Tell
  <1>2. c.msg = client[h].msg /\ c.at = IF client[h].msg = 0 THEN "idle" ELSE "posting"
    BY DEF TypeOK, PageTypeOK, Idle
  <1> HIDE DEF c
  <1>3. client'[h] = c /\ \A k \in Threads : k # h => client'[k] = client[k]
    BY <1>1 DEF TypeOK, PageTypeOK
  <1>4. client[h].at = "waking" /\ dropped[h] = {} /\ told' = told + 1 BY DEF Tell
  <1>5. told \in Nat BY DEF TypeOK, PageTypeOK
  <1>6. UNCHANGED <<inbound, said, displaced, pc, about, got, shown, ended>> BY DEF Tell
  <1>7. abandoned' = TRUE /\ UNCHANGED device /\ UNCHANGED kernel BY DEF Tell
  <1>8. QED BY <1>2, <1>3, <1>4, <1>5, <1>6, <1>7

LEMMA PostIs ==
  ASSUME TypeOK, NEW h \in Threads, Post(h)
  PROVE  /\ client[h].at = "posting" /\ client[h].msg \in Messages
         /\ client'[h].msg = 0 /\ client'[h].at = "idle"
         /\ \A k \in Threads : k # h => client'[k] = client[k]
         /\ inbound' = Append(inbound, Message(client[h].msg))
         /\ UNCHANGED <<said, displaced, told>>
         /\ UNCHANGED device /\ UNCHANGED kernel /\ UNCHANGED job
  <1>1. client' = [client EXCEPT ![h] = Idle] /\ client[h].at = "posting" BY DEF Post
  <1>2. Idle.msg = 0 /\ Idle.at = "idle" BY DEF Idle
  <1>3. client'[h] = Idle /\ \A k \in Threads : k # h => client'[k] = client[k]
    BY <1>1 DEF TypeOK, PageTypeOK
  <1>4. client[h].msg \in Messages
    <2>1. client[h].msg \in 0 .. MaxSays /\ client[h].msg # 0 BY <1>1 DEF TypeOK, PageTypeOK
    <2>2. QED BY <2>1, ConversationAssumption DEF Messages
  <1>5. inbound' = Append(inbound, Message(client[h].msg)) BY DEF Post, Put
  <1>6. UNCHANGED <<said, displaced, told>> /\ UNCHANGED device /\ UNCHANGED kernel /\ UNCHANGED job
    BY DEF Post
  <1>7. QED BY <1>1, <1>2, <1>3, <1>4, <1>5, <1>6

-----------------------------------------------------------------------------
(***************************************************************************)
(* What a step of the device does to the device and the queue: a thread    *)
(* wakes the job, a worker moves on, writes a piece, or ends; the kernel   *)
(* asks.                                                                   *)
(***************************************************************************)
LEMMA WakeIs ==
  ASSUME TypeOK, AdapterInv, NEW h \in Threads, NEW t \in Tickets, Wake(h, t)
  PROVE  /\ t \in dropped[h] /\ dropped' = [dropped EXCEPT ![h] = @ \ {t}]
         /\ Asked(t) /\ log'[t] = Append(log[t], "ABANDONED")
         /\ \A u \in Tickets : u # t => log'[u] = log[u]
         /\ inbound' = Append(inbound, Reply(t, "ABANDONED"))
         /\ UNCHANGED <<nextTicket, outstanding, worker>>
         /\ UNCHANGED kernel /\ UNCHANGED job /\ UNCHANGED page
  <1>1. /\ t \in dropped[h] /\ dropped' = [dropped EXCEPT ![h] = @ \ {t}]
        /\ log' = [log EXCEPT ![t] = Append(@, "ABANDONED")]
        /\ inbound' = Append(inbound, Reply(t, "ABANDONED"))
        /\ UNCHANGED <<nextTicket, outstanding, worker>>
    BY DEF Wake, DeliverAbandoned, Delivers, Put
  <1>2. UNCHANGED kernel /\ UNCHANGED job /\ UNCHANGED page BY DEF Wake
  <1>3. log'[t] = Append(log[t], "ABANDONED") /\ \A u \in Tickets : u # t => log'[u] = log[u]
    BY <1>1 DEF TypeOK, AdapterTypeOK
  <1>4. Asked(t) BY <1>1 DEF AdapterInv, FreshInv, InDropped
  <1>5. QED BY <1>1, <1>2, <1>3, <1>4

Moving(t) == PullWanted(t) \/ PullUnwanted(t) \/ ModelFails(t) \/ Retire(t)

LEMMA MovingIs ==
  ASSUME TypeOK, AdapterInv, NEW t \in Tickets, Worker(t), Moving(t)
  PROVE  /\ Asked(t) /\ worker[t] \in Live
         /\ worker'[t] \in Live \cup {"ending", "returned"}
         /\ \A u \in Tickets : u # t => worker'[u] = worker[u]
         /\ outstanding' \subseteq outstanding
         /\ \A u \in outstanding : u \in outstanding' \/ (u = t /\ worker'[t] = "ending")
         /\ worker'[t] = "ending" => t \in outstanding
         /\ UNCHANGED <<inbound, nextTicket, dropped, log>>
         /\ UNCHANGED kernel /\ UNCHANGED job /\ UNCHANGED page
  <1>1. UNCHANGED <<inbound, nextTicket, dropped, log>> /\ UNCHANGED kernel /\ UNCHANGED job /\ UNCHANGED page
    <2>1. Moving(t) => ~(worker[t] \in {"holding", "explaining", "ending"})
      BY DEF Moving, PullWanted, PullUnwanted, ModelFails, Retire, Moves
    <2>2. DeliverPiece(t) \/ DeliverFailure(t) \/ DeliverEnd(t) => worker[t] \in {"holding", "explaining", "ending"}
      BY DEF DeliverPiece, DeliverFailure, DeliverEnd, Moves
    <2>3. UNCHANGED inbound /\ UNCHANGED kernel /\ UNCHANGED job /\ UNCHANGED page
      BY <2>1, <2>2 DEF Worker
    <2>4. UNCHANGED <<nextTicket, dropped, log>>
      BY DEF Moving, PullWanted, PullUnwanted, ModelFails, Retire
    <2>5. QED BY <2>3, <2>4
  <1>2. /\ worker \in [Tickets -> WorkerStates]
        /\ worker[t] \in Live => Asked(t)
    BY DEF TypeOK, AdapterTypeOK, AdapterInv, FreshInv, Live
  <1>3. CASE PullWanted(t) BY <1>1, <1>2, <1>3 DEF PullWanted, Moves, Live
  <1>4. CASE PullUnwanted(t) BY <1>1, <1>2, <1>4 DEF PullUnwanted, Moves, Live
  <1>5. CASE ModelFails(t) BY <1>1, <1>2, <1>5 DEF ModelFails, Moves, Live
  <1>6. CASE Retire(t) BY <1>1, <1>2, <1>6 DEF Retire, Wanted, Live
  <1>7. QED BY <1>3, <1>4, <1>5, <1>6 DEF Moving

Writing(t) == DeliverPiece(t) \/ DeliverFailure(t)

LEMMA WritingIs ==
  ASSUME TypeOK, AdapterInv, NEW t \in Tickets, Worker(t), Writing(t)
  PROVE  /\ Asked(t) /\ worker[t] \in {"holding", "explaining"} /\ worker'[t] \in {"pulling", "closing"}
         /\ \A u \in Tickets : u # t => worker'[u] = worker[u] /\ log'[u] = log[u]
         /\ log'[t] = Append(log[t], "piece")
         /\ inbound' = Append(inbound, Reply(t, "piece"))
         /\ UNCHANGED <<nextTicket, outstanding, dropped>>
         /\ UNCHANGED kernel /\ UNCHANGED job /\ UNCHANGED page
  <1>1. worker[t] \in {"holding", "explaining"} /\ worker'= [worker EXCEPT ![t] = worker'[t]] /\ worker'[t] \in {"pulling", "closing"}
    BY DEF Writing, DeliverPiece, DeliverFailure, Moves, TypeOK, AdapterTypeOK
  <1>2. log' = [log EXCEPT ![t] = Append(@, "piece")] /\ UNCHANGED <<nextTicket, outstanding, dropped>>
    BY DEF Writing, DeliverPiece, DeliverFailure, Delivers
  <1>3. /\ inbound' = Append(inbound, Reply(t, "piece"))
        /\ UNCHANGED kernel /\ UNCHANGED job /\ UNCHANGED page
    <2>1. ~Moving(t) /\ ~DeliverEnd(t)
      BY <1>1 DEF Moving, PullWanted, PullUnwanted, ModelFails, Retire, DeliverEnd, Moves
    <2>2. QED BY <2>1 DEF Worker, Moving, Put
  <1>4. /\ log'[t] = Append(log[t], "piece")
        /\ \A u \in Tickets : u # t => worker'[u] = worker[u] /\ log'[u] = log[u]
    BY <1>1, <1>2 DEF TypeOK, AdapterTypeOK
  <1>5. Asked(t) BY <1>1 DEF AdapterInv, FreshInv
  <1>6. QED BY <1>1, <1>2, <1>3, <1>4, <1>5

LEMMA EndingIs ==
  ASSUME TypeOK, AdapterInv, NEW t \in Tickets, Worker(t), DeliverEnd(t)
  PROVE  /\ Asked(t) /\ worker[t] = "ending" /\ worker'[t] = "returned"
         /\ \A u \in Tickets : u # t => worker'[u] = worker[u] /\ log'[u] = log[u]
         /\ log'[t] = Append(log[t], "END")
         /\ inbound' = Append(inbound, Reply(t, "END"))
         /\ UNCHANGED <<nextTicket, outstanding, dropped>>
         /\ UNCHANGED kernel /\ UNCHANGED job /\ UNCHANGED page
  <1>1. /\ worker[t] = "ending" /\ worker' = [worker EXCEPT ![t] = "returned"]
        /\ log' = [log EXCEPT ![t] = Append(@, "END")]
        /\ UNCHANGED <<nextTicket, outstanding, dropped>>
    BY DEF DeliverEnd, Moves, Delivers
  <1>2. /\ inbound' = Append(inbound, Reply(t, "END"))
        /\ UNCHANGED kernel /\ UNCHANGED job /\ UNCHANGED page
    <2>1. ~Moving(t) /\ ~Writing(t)
      BY <1>1 DEF Moving, PullWanted, PullUnwanted, ModelFails, Retire, Writing, DeliverPiece, DeliverFailure, Moves
    <2>2. QED BY <2>1 DEF Worker, Moving, Writing, Put
  <1>3. /\ worker'[t] = "returned" /\ log'[t] = Append(log[t], "END")
        /\ \A u \in Tickets : u # t => worker'[u] = worker[u] /\ log'[u] = log[u]
    BY <1>1 DEF TypeOK, AdapterTypeOK
  <1>4. Asked(t) BY <1>1 DEF AdapterInv, FreshInv
  <1>5. QED BY <1>1, <1>2, <1>3, <1>4

LEMMA WorkerIs ==
  ASSUME NEW t \in Tickets, Worker(t)
  PROVE  Moving(t) \/ Writing(t) \/ DeliverEnd(t)
  BY DEF Worker, Moving, Writing

LEMMA AskIs ==
  ASSUME TypeOK, AdapterInv, DrainAsk
  PROVE  /\ phase = "asking" /\ phase' = "drain"
         /\ nextTicket \in Nat /\ nextTicket' = nextTicket + 1 /\ nextTicket' \in Tickets
         /\ ~Asked(nextTicket')
         /\ outstanding' = outstanding \cup {nextTicket'}
         /\ worker'[nextTicket'] = "pulling"
         /\ \A u \in Tickets : u # nextTicket' => worker'[u] = worker[u]
         /\ UNCHANGED <<inbound, dropped, log, stdin, hear, refused>>
         /\ UNCHANGED job /\ UNCHANGED page
  <1>1. phase = "asking" /\ phase' = "drain" /\ UNCHANGED <<inbound, stdin, hear, refused>>
    BY DEF DrainAsk
  <1>2. UNCHANGED job /\ UNCHANGED page BY DEF DrainAsk
  <1>3. nextTicket \in Nat BY AdapterAssumption DEF TypeOK, AdapterTypeOK
  <1>4. /\ nextTicket' = nextTicket + 1 /\ nextTicket + 1 \in Tickets
        /\ outstanding' = outstanding \cup {nextTicket + 1}
        /\ worker' = [worker EXCEPT ![nextTicket + 1] = "pulling"]
        /\ UNCHANGED <<dropped, log>>
    BY DEF DrainAsk, Ask
  <1>5. ~Asked(nextTicket') BY <1>3, <1>4 DEF Asked
  <1>6. worker'[nextTicket'] = "pulling" /\ \A u \in Tickets : u # nextTicket' => worker'[u] = worker[u]
    BY <1>4 DEF TypeOK, AdapterTypeOK
  <1>7. QED BY <1>1, <1>2, <1>3, <1>4, <1>5, <1>6

-----------------------------------------------------------------------------
(***************************************************************************)
(* A message is with one thread, or has left its thread for good.          *)
(***************************************************************************)
LEMMA Naturals ==
  ASSUME TypeOK
  PROVE  /\ said \in Nat /\ told \in Nat /\ nextTicket \in Nat
         /\ \A m \in Messages : m \in Nat /\ m # 0
         /\ \A t \in Tickets : t \in Nat /\ t # 0
         /\ \A h \in Threads : client[h].msg \in Nat
         /\ stdin \subseteq Messages /\ about \subseteq Messages
         /\ inbound \in Seq(Items) /\ hear \in Seq(Items)
  <1>1. MaxSays \in Nat /\ MaxAsks \in Nat BY ConversationAssumption, AdapterAssumption
  <1>2. said \in 0 .. MaxSays /\ told \in Nat BY DEF TypeOK, PageTypeOK
  <1>3. nextTicket \in 0 .. MaxAsks BY DEF TypeOK, AdapterTypeOK
  <1>4. \A h \in Threads : client[h].msg \in 0 .. MaxSays BY DEF TypeOK, PageTypeOK
  <1>5. stdin \subseteq Messages /\ about \subseteq Messages /\ inbound \in Seq(Items) /\ hear \in Seq(Items)
    BY DEF TypeOK, KernelTypeOK, JobTypeOK
  <1>6. QED BY <1>1, <1>2, <1>3, <1>4, <1>5 DEF Messages, Tickets

\* Only the threads and the bookkeeping of messages move: the queue and what was read stay.
LEMMA MessageStep == TypeOK /\ AdapterInv /\ MessageInv /\ [Next]_vars => MessageInv'
  <1> SUFFICES ASSUME TypeOK, AdapterInv, MessageInv, [Next]_vars PROVE MessageInv'
    OBVIOUS
  <1>n. /\ said \in Nat
        /\ \A m \in Messages : m \in Nat /\ m # 0
        /\ \A h \in Threads : client[h].msg \in Nat
        /\ stdin \subseteq Messages /\ about \subseteq Messages
        /\ inbound \in Seq(Items)
    BY Naturals
  <1>i. \A k \in 1 .. Len(inbound) : inbound[k].to = "stdin" => inbound[k].of \in Messages
    BY <1>n, ItemIs
  <1>c. ASSUME UNCHANGED <<client, said, dropped, stdin, about, inbound, displaced>>
        PROVE  MessageInv'
    BY <1>c DEF MessageInv
  <1>r. ASSUME NEW t \in Tickets, NEW k \in Kinds, inbound' = Append(inbound, Reply(t, k)),
               UNCHANGED <<client, said, stdin, about, displaced>>,
               \A h \in Threads : dropped'[h] \subseteq dropped[h]
        PROVE  MessageInv'
    <2>1. Reply(t, k) \in Items /\ Reply(t, k).to = "hear"
      BY ReplyIs DEF TypeOK, AdapterTypeOK
    <2>2. /\ Len(inbound') = Len(inbound) + 1 /\ inbound'[Len(inbound) + 1].to = "hear"
          /\ \A j \in 1 .. Len(inbound) : inbound'[j] = inbound[j]
      BY <1>n, <1>r, <2>1, AppendIs
    <2>3. \A j \in 1 .. Len(inbound') : inbound'[j].to = "stdin" => j \in 1 .. Len(inbound) /\ inbound'[j] = inbound[j]
      BY <2>2
    <2>4. QED BY <1>r, <2>3 DEF MessageInv
  <1>1. CASE UNCHANGED vars BY <1>1, <1>c DEF vars, device, kernel, job, page
  <1>2. ASSUME NEW h \in Threads, Say(h) PROVE MessageInv'
    <2>1. /\ client[h].at = "idle" /\ said' = said + 1 /\ client'[h].msg = said'
          /\ \A k \in Threads : k # h => client'[k] = client[k]
          /\ UNCHANGED <<inbound, displaced, dropped, stdin, about>>
      BY <1>2, SayIs DEF device, kernel, job
    <2>2. \A k \in Threads : client'[k].msg <= said' /\ (dropped'[k] # {} => client'[k].at = "waking")
      BY <1>n, <2>1 DEF MessageInv
    <2>3. \A j, k \in Threads : client'[j].msg = client'[k].msg /\ client'[j].msg # 0 => j = k
      BY <1>n, <2>1 DEF MessageInv
    <2>4. \A m \in stdin' \cup about' : m <= said' /\ \A k \in Threads : client'[k].msg # m
      BY <1>n, <2>1 DEF MessageInv
    <2>5. \A k \in 1 .. Len(inbound') : inbound'[k].to = "stdin" =>
            inbound'[k].of <= said' /\ \A j \in Threads : client'[j].msg # inbound'[k].of
      BY <1>n, <1>i, <2>1 DEF MessageInv
    <2>6. \A m \in Messages : m > said' => displaced'[m] = {}
      BY <1>n, <2>1 DEF MessageInv
    <2>7. QED BY <2>2, <2>3, <2>4, <2>5, <2>6 DEF MessageInv
  <1>3. ASSUME NEW h \in Threads, Stop(h) PROVE MessageInv'
    <2>1. /\ client[h].at = "idle" /\ client'[h].msg = 0
          /\ \A k \in Threads : k # h => client'[k] = client[k]
          /\ UNCHANGED <<inbound, said, displaced, dropped, stdin, about>>
      BY <1>3, StopIs DEF device, kernel, job
    <2>2. QED BY <1>n, <1>i, <2>1 DEF MessageInv
  <1>4. ASSUME NEW h \in Threads, GiveUp(h) PROVE MessageInv'
    <2>1. /\ client'[h].msg = client[h].msg /\ client'[h].at = "waking"
          /\ \A k \in Threads : k # h => client'[k] = client[k]
          /\ dropped' = [dropped EXCEPT ![h] = InFlightFor("converse")]
          /\ \A m \in Messages : m # client[h].msg => displaced'[m] = displaced[m]
          /\ UNCHANGED <<inbound, said, stdin, about>>
      BY <1>4, GiveUpIs DEF kernel, job
    <2>2. \A k \in Threads : client'[k].msg = client[k].msg /\ (k # h => dropped'[k] = dropped[k])
      BY <2>1 DEF TypeOK, AdapterTypeOK
    <2>3. \A m \in Messages : m > said => m # client[h].msg BY <1>n DEF MessageInv
    <2>4. QED BY <1>n, <2>1, <2>2, <2>3 DEF MessageInv
  <1>5. ASSUME NEW h \in Threads, NEW t \in Tickets, Wake(h, t) PROVE MessageInv'
    <2>1. /\ dropped' = [dropped EXCEPT ![h] = @ \ {t}]
          /\ inbound' = Append(inbound, Reply(t, "ABANDONED"))
          /\ UNCHANGED <<client, said, stdin, about, displaced>>
      BY <1>5, WakeIs DEF kernel, job, page
    <2>2. \A k \in Threads : dropped'[k] \subseteq dropped[k]
      BY <2>1 DEF TypeOK, AdapterTypeOK
    <2>3. QED BY <1>r, <2>1, <2>2 DEF Kinds
  <1>6. ASSUME NEW h \in Threads, Tell(h) PROVE MessageInv'
    <2>1. /\ dropped[h] = {} /\ client'[h].msg = client[h].msg
          /\ \A k \in Threads : k # h => client'[k] = client[k]
          /\ UNCHANGED <<inbound, said, displaced, dropped, stdin, about>>
      BY <1>6, TellIs DEF device, kernel
    <2>2. \A k \in Threads : client'[k].msg = client[k].msg BY <2>1
    <2>3. QED BY <2>1, <2>2 DEF MessageInv
  <1>7. ASSUME NEW h \in Threads, Post(h) PROVE MessageInv'
    <2> DEFINE m == client[h].msg
    <2>1. /\ client[h].at = "posting" /\ m \in Messages /\ client'[h].msg = 0
          /\ \A k \in Threads : k # h => client'[k] = client[k]
          /\ inbound' = Append(inbound, Message(m))
          /\ UNCHANGED <<said, displaced, dropped, stdin, about>>
      BY <1>7, PostIs DEF device, kernel, job
    <2>2. /\ Len(inbound') = Len(inbound) + 1 /\ inbound'[Len(inbound) + 1].of = m
          /\ \A j \in 1 .. Len(inbound) : inbound'[j] = inbound[j]
      BY <1>n, <2>1, AppendIs, MessageIs
    <2> HIDE DEF m
    <2>m. m = client[h].msg BY DEF m
    <2>3. \A k \in Threads : client'[k].msg <= said' /\ (dropped'[k] # {} => client'[k].at = "waking")
      BY <1>n, <2>1 DEF MessageInv
    <2>4. \A j, k \in Threads : client'[j].msg = client'[k].msg /\ client'[j].msg # 0 => j = k
      BY <1>n, <2>1 DEF MessageInv
    <2>5. \A n \in stdin' \cup about' : n <= said' /\ \A k \in Threads : client'[k].msg # n
      BY <1>n, <2>1 DEF MessageInv
    <2>6. \A k \in Threads : client'[k].msg # m
      BY <1>n, <2>1, <2>m DEF MessageInv
    <2>7. ASSUME NEW k \in 1 .. Len(inbound'), inbound'[k].to = "stdin"
          PROVE  inbound'[k].of <= said' /\ \A j \in Threads : client'[j].msg # inbound'[k].of
      <3>1. CASE k = Len(inbound) + 1
        <4>1. m <= said BY <2>m DEF MessageInv
        <4>2. QED BY <2>1, <2>2, <2>6, <3>1, <4>1
      <3>2. CASE k # Len(inbound) + 1
        <4>1. k \in 1 .. Len(inbound) /\ inbound'[k] = inbound[k] BY <2>2, <3>2
        <4>2. QED BY <1>n, <1>i, <2>1, <2>7, <4>1 DEF MessageInv
      <3>3. QED BY <3>1, <3>2
    <2>8. \A n \in Messages : n > said' => displaced'[n] = {}
      BY <2>1 DEF MessageInv
    <2>9. QED BY <2>3, <2>4, <2>5, <2>7, <2>8 DEF MessageInv
  <1>8. ASSUME NEW t \in Tickets, Worker(t) PROVE MessageInv'
    <2>1. CASE Moving(t)
      <3>1. UNCHANGED <<client, said, dropped, stdin, about, inbound, displaced>>
        BY <1>8, <2>1, MovingIs DEF kernel, job, page
      <3>2. QED BY <1>c, <3>1
    <2>2. CASE Writing(t)
      <3>1. UNCHANGED <<client, said, dropped, stdin, about, displaced>> /\ inbound' = Append(inbound, Reply(t, "piece"))
        BY <1>8, <2>2, WritingIs DEF kernel, job, page
      <3>2. QED BY <1>r, <3>1 DEF Kinds
    <2>3. CASE DeliverEnd(t)
      <3>1. UNCHANGED <<client, said, dropped, stdin, about, displaced>> /\ inbound' = Append(inbound, Reply(t, "END"))
        BY <1>8, <2>3, EndingIs DEF kernel, job, page
      <3>2. QED BY <1>r, <3>1 DEF Kinds
    <2>4. QED BY <1>8, <2>1, <2>2, <2>3, WorkerIs
  <1>9. CASE DrainOne
    <2> DEFINE i == Head(inbound)
    <2>1. /\ inbound' = Tail(inbound) /\ inbound # <<>>
          /\ stdin' = IF Fits(i) /\ i.to = "stdin" THEN stdin \cup {i.of} ELSE stdin
      BY <1>9 DEF DrainOne
    <2>2. UNCHANGED <<client, said, dropped, about, displaced>>
      BY <1>9 DEF DrainOne, device, job, page
    <2>3. /\ i = inbound[1] /\ 1 \in 1 .. Len(inbound)
          /\ \A k \in 1 .. Len(inbound') : k + 1 \in 1 .. Len(inbound) /\ inbound'[k] = inbound[k + 1]
      BY <1>n, <2>1, TailIs
    <2>4. i.to = "stdin" => i.of <= said /\ \A h \in Threads : client[h].msg # i.of
      BY <2>3 DEF MessageInv
    <2> HIDE DEF i
    <2>5. \A m \in stdin' \cup about' : m <= said' /\ \A h \in Threads : client'[h].msg # m
      BY <2>1, <2>2, <2>4 DEF MessageInv
    <2>6. \A k \in 1 .. Len(inbound') : inbound'[k].to = "stdin" =>
            inbound'[k].of <= said' /\ \A h \in Threads : client'[h].msg # inbound'[k].of
      BY <2>2, <2>3 DEF MessageInv
    <2>7. QED BY <2>2, <2>5, <2>6 DEF MessageInv
  <1>10. CASE DrainDone \/ OtherTick
    BY <1>10, <1>c DEF DrainDone, OtherTick, device, job, page
  <1>11. CASE DrainAsk
    <2>1. UNCHANGED <<client, said, dropped, stdin, about, inbound, displaced>>
      BY <1>11, AskIs DEF job, page
    <2>2. QED BY <1>c, <2>1
  <1>12. CASE Converse
    <2>1. /\ UNCHANGED <<client, said, dropped, inbound, displaced>>
          /\ stdin' \cup about' \subseteq stdin \cup about
      BY <1>12 DEF Converse, ReadStdin, WriteTopic, Spawn, WriteAsk, ReadHear, WriteReply, Look, Command, device, page
    <2>2. QED BY <2>1 DEF MessageInv
  <1>13. QED
    BY <1>1, <1>2, <1>3, <1>4, <1>5, <1>6, <1>7, <1>8, <1>9, <1>10, <1>11, <1>12 DEF Next, Client, Kernel

(***************************************************************************)
(* No wake-up is behind the words of the message that caused it.           *)
(***************************************************************************)
Displaced(t, m) ==
  /\ Asked(t) /\ t \notin outstanding /\ worker[t] # "ending"
  /\ \A h \in Threads : t \in dropped[h] => client[h].msg = m
  /\ \A k \in 1 .. Len(inbound) : IsMessage(inbound[k], m) =>
       \A j \in k .. Len(inbound) : ~IsEndOf(inbound[j], t)
  /\ m \in stdin \cup about => ~Coming(t, inbound)

LEMMA DisplacedStep ==
  TypeOK /\ AdapterInv /\ MessageInv /\ DisplacedInv /\ [Next]_vars => DisplacedInv'
  <1> SUFFICES ASSUME TypeOK, AdapterInv, MessageInv, DisplacedInv, [Next]_vars PROVE DisplacedInv'
    OBVIOUS
  <1>n. /\ \A m \in Messages : m \in Nat /\ m # 0
        /\ \A h \in Threads : client[h].msg \in Nat
        /\ stdin \subseteq Messages /\ about \subseteq Messages
        /\ inbound \in Seq(Items)
    BY Naturals
  <1>d. /\ displaced \in [Messages -> SUBSET Tickets]
        /\ dropped \in [Threads -> SUBSET Tickets]
        /\ outstanding \subseteq Tickets
    BY DEF TypeOK, PageTypeOK, AdapterTypeOK
  <1>p. \A m \in Messages : \A t \in displaced[m] : t \in Tickets /\ Displaced(t, m)
    BY <1>d DEF DisplacedInv, Displaced
  <1>q. ASSUME \A m \in Messages : \A t \in displaced'[m] : Displaced(t, m)'
        PROVE  DisplacedInv'
    BY <1>q DEF DisplacedInv, Displaced
  <1>c. ASSUME UNCHANGED <<client, dropped, stdin, about, inbound, displaced, outstanding, worker, nextTicket>>
        PROVE  DisplacedInv'
    BY <1>c DEF DisplacedInv, Asked
  \* The threads change hands of nothing that still has to wake.
  <1>h. ASSUME UNCHANGED <<dropped, stdin, about, inbound, displaced, outstanding, worker, nextTicket>>,
               NEW h \in Threads, dropped[h] = {} \/ client'[h].msg = client[h].msg,
               \A k \in Threads : k # h => client'[k] = client[k]
        PROVE  DisplacedInv'
    BY <1>h, <1>p, <1>q DEF Displaced, Asked
  \* A reply is put on the queue: only a displaced request's terminator matters.
  <1>r. ASSUME NEW u \in Tickets, NEW k \in Kinds, inbound' = Append(inbound, Reply(u, k)),
               UNCHANGED <<client, stdin, about, displaced, outstanding, nextTicket>>,
               \A h \in Threads : dropped'[h] \subseteq dropped[h],
               \A t \in Tickets : worker'[t] = worker[t] \/ worker'[t] # "ending",
               \A m \in Messages : u \in displaced[m] /\ k \in Terminators =>
                 m \notin stdin \cup about /\ \A j \in 1 .. Len(inbound) : ~IsMessage(inbound[j], m)
        PROVE  DisplacedInv'
    <2> DEFINE i == Reply(u, k)
    <2>1. i \in Items /\ i.to = "hear" /\ i.of = u /\ (IsTerminator(i) => k \in Terminators)
      BY ReplyIs DEF TypeOK, AdapterTypeOK, IsTerminator
    <2>2. inbound' = Append(inbound, i) BY <1>r
    <2> HIDE DEF i
    <2>3. /\ Len(inbound') = Len(inbound) + 1 /\ inbound'[Len(inbound) + 1] = i
          /\ \A j \in 1 .. Len(inbound) : inbound'[j] = inbound[j]
          /\ \A t : Coming(t, inbound') <=> Coming(t, inbound) \/ IsEndOf(i, t)
      BY <1>n, <2>1, <2>2, AppendIs
    <2>4. SUFFICES ASSUME NEW m \in Messages, NEW t \in displaced'[m] PROVE Displaced(t, m)'
      BY <1>q
    <2>5. t \in displaced[m] /\ t \in Tickets /\ Displaced(t, m) BY <1>p, <1>r
    <2>6. Asked(t)' /\ t \notin outstanding' /\ worker'[t] # "ending"
      BY <1>r, <2>5 DEF Displaced, Asked
    <2>7. \A h \in Threads : t \in dropped'[h] => client'[h].msg = m
      BY <1>r, <2>5 DEF Displaced
    <2>8. IsEndOf(i, t) => m \notin stdin \cup about /\ \A j \in 1 .. Len(inbound) : ~IsMessage(inbound[j], m)
      BY <1>r, <2>1, <2>5 DEF IsEndOf
    <2>9. ASSUME NEW j \in 1 .. Len(inbound'), IsMessage(inbound'[j], m),
                 NEW x \in j .. Len(inbound'), IsEndOf(inbound'[x], t)
          PROVE  FALSE
      <3>1. j \in 1 .. Len(inbound) /\ inbound'[j] = inbound[j]
        BY <2>1, <2>3, <2>9 DEF IsMessage
      <3>2. CASE x = Len(inbound) + 1
        BY <2>3, <2>8, <2>9, <3>1, <3>2
      <3>3. CASE x # Len(inbound) + 1
        <4>1. x \in j .. Len(inbound) /\ inbound'[x] = inbound[x] BY <2>3, <3>1, <3>3
        <4>2. QED BY <2>5, <2>9, <3>1, <4>1 DEF Displaced
      <3>4. QED BY <3>2, <3>3
    <2>10. m \in stdin' \cup about' => ~Coming(t, inbound')
      BY <1>r, <2>3, <2>5, <2>8 DEF Displaced
    <2>11. QED BY <2>6, <2>7, <2>9, <2>10 DEF Displaced
  <1>1. CASE UNCHANGED vars BY <1>1, <1>c DEF vars, device, kernel, job, page
  <1>2. ASSUME NEW h \in Threads, Say(h) PROVE DisplacedInv'
    <2>1. /\ client[h].at = "idle" /\ \A k \in Threads : k # h => client'[k] = client[k]
          /\ UNCHANGED <<dropped, stdin, about, inbound, displaced, outstanding, worker, nextTicket>>
      BY <1>2, SayIs DEF device, kernel, job
    <2>2. QED BY <1>h, <2>1 DEF MessageInv
  <1>3. ASSUME NEW h \in Threads, Stop(h) PROVE DisplacedInv'
    <2>1. /\ client[h].at = "idle" /\ \A k \in Threads : k # h => client'[k] = client[k]
          /\ UNCHANGED <<dropped, stdin, about, inbound, displaced, outstanding, worker, nextTicket>>
      BY <1>3, StopIs DEF device, kernel, job
    <2>2. QED BY <1>h, <2>1 DEF MessageInv
  <1>4. ASSUME NEW h \in Threads, GiveUp(h) PROVE DisplacedInv'
    <2> DEFINE S == InFlightFor("converse")
    <2>1. /\ client[h].at = "giving up" /\ client'[h].msg = client[h].msg
          /\ \A k \in Threads : k # h => client'[k] = client[k]
          /\ dropped' = [dropped EXCEPT ![h] = S]
          /\ outstanding' = outstanding \ S
          /\ displaced' = [m \in Messages |-> IF m = client[h].msg THEN dropped'[h] ELSE displaced[m]]
          /\ UNCHANGED <<inbound, stdin, about, nextTicket, worker, log>>
      BY <1>4, GiveUpIs DEF kernel, job
    <2>2. S \subseteq outstanding BY DEF InFlightFor
    <2> HIDE DEF S
    <2>3. /\ dropped'[h] = S /\ \A k \in Threads : k # h => dropped'[k] = dropped[k]
          /\ \A k \in Threads : client'[k].msg = client[k].msg
      BY <1>d, <2>1
    <2>4. \A t \in S : /\ t \in Tickets /\ Asked(t) /\ worker[t] # "ending"
                       /\ \A k \in Threads : t \notin dropped[k]
      BY <1>d, <2>2 DEF AdapterInv, TableInv, FreshInv, InDropped, Live
    <2>5. SUFFICES ASSUME NEW m \in Messages, NEW t \in displaced'[m] PROVE Displaced(t, m)'
      BY <1>q
    <2>6. CASE m = client[h].msg
      <3>1. t \in S BY <2>1, <2>3, <2>6
      <3>2. Asked(t)' /\ t \notin outstanding' /\ worker'[t] # "ending"
        BY <2>1, <2>4, <3>1 DEF Asked
      <3>3. \A k \in Threads : t \in dropped'[k] => client'[k].msg = m
        BY <2>3, <2>4, <2>6, <3>1
      <3>4. m \notin stdin \cup about
        BY <1>n, <2>6 DEF MessageInv
      <3>5. \A k \in 1 .. Len(inbound) : ~IsMessage(inbound[k], m)
        BY <1>n, <2>6 DEF MessageInv, IsMessage
      <3>6. QED BY <2>1, <3>2, <3>3, <3>4, <3>5 DEF Displaced
    <2>7. CASE m # client[h].msg
      <3>1. t \in displaced[m] /\ t \in Tickets /\ Displaced(t, m) BY <1>p, <2>1, <2>7
      <3>2. t \notin S BY <2>2, <3>1 DEF Displaced
      <3>3. \A k \in Threads : t \in dropped'[k] => client'[k].msg = m
        BY <2>3, <3>1, <3>2 DEF Displaced
      <3>4. Asked(t)' /\ t \notin outstanding' /\ worker'[t] # "ending"
        BY <2>1, <3>1 DEF Asked, Displaced
      <3>5. QED BY <2>1, <3>1, <3>3, <3>4 DEF Displaced
    <2>8. QED BY <2>6, <2>7
  <1>5. ASSUME NEW h \in Threads, NEW t \in Tickets, Wake(h, t) PROVE DisplacedInv'
    <2>1. /\ t \in dropped[h] /\ dropped' = [dropped EXCEPT ![h] = @ \ {t}]
          /\ inbound' = Append(inbound, Reply(t, "ABANDONED"))
          /\ UNCHANGED <<client, stdin, about, displaced, outstanding, nextTicket, worker>>
      BY <1>5, WakeIs DEF kernel, job, page
    <2>2. \A k \in Threads : dropped'[k] \subseteq dropped[k]
      BY <1>d, <2>1
    <2>3. ASSUME NEW m \in Messages, t \in displaced[m]
          PROVE  m \notin stdin \cup about /\ \A j \in 1 .. Len(inbound) : ~IsMessage(inbound[j], m)
      <3>1. client[h].msg = m BY <1>p, <2>1, <2>3 DEF Displaced
      <3>2. QED BY <3>1 DEF MessageInv, IsMessage
    <2>4. QED BY <1>r, <2>1, <2>2, <2>3 DEF Kinds
  <1>6. ASSUME NEW h \in Threads, Tell(h) PROVE DisplacedInv'
    <2>1. /\ client'[h].msg = client[h].msg
          /\ \A k \in Threads : k # h => client'[k] = client[k]
          /\ UNCHANGED <<dropped, stdin, about, inbound, displaced, outstanding, worker, nextTicket>>
      BY <1>6, TellIs DEF device, kernel
    <2>2. QED BY <1>h, <2>1
  <1>7. ASSUME NEW h \in Threads, Post(h) PROVE DisplacedInv'
    <2> DEFINE n == client[h].msg
               i == Message(n)
    <2>1. /\ client[h].at = "posting" /\ n \in Messages
          /\ \A k \in Threads : k # h => client'[k] = client[k]
          /\ inbound' = Append(inbound, i)
          /\ UNCHANGED <<dropped, stdin, about, displaced, outstanding, worker, nextTicket>>
      BY <1>7, PostIs DEF device, kernel, job
    <2>2. i \in Items /\ i.of = n /\ ~IsTerminator(i)
      BY <2>1, MessageIs
    <2>n. n = client[h].msg OBVIOUS
    <2> HIDE DEF n, i
    <2>3. /\ Len(inbound') = Len(inbound) + 1 /\ inbound'[Len(inbound) + 1] = i
          /\ \A j \in 1 .. Len(inbound) : inbound'[j] = inbound[j]
          /\ \A t : Coming(t, inbound') <=> Coming(t, inbound)
      BY <1>n, <2>1, <2>2, AppendIs DEF IsEndOf
    <2>4. dropped[h] = {} BY <2>1 DEF MessageInv
    <2>5. SUFFICES ASSUME NEW m \in Messages, NEW t \in displaced'[m] PROVE Displaced(t, m)'
      BY <1>q
    <2>6. Displaced(t, m) BY <1>p, <2>1
    <2>7. Asked(t)' /\ t \notin outstanding' /\ worker'[t] # "ending"
      BY <2>1, <2>6 DEF Displaced, Asked
    <2>8. \A k \in Threads : t \in dropped'[k] => client'[k].msg = m
      BY <2>1, <2>4, <2>6 DEF Displaced
    <2>9. ASSUME NEW j \in 1 .. Len(inbound'), IsMessage(inbound'[j], m),
                 NEW x \in j .. Len(inbound'), IsEndOf(inbound'[x], t)
          PROVE  FALSE
      <3>1. x # Len(inbound) + 1 BY <2>2, <2>3, <2>9 DEF IsEndOf
      <3>2. x \in j .. Len(inbound) /\ j \in 1 .. Len(inbound) BY <1>n, <2>3, <3>1
      <3>3. inbound'[x] = inbound[x] /\ inbound'[j] = inbound[j] BY <2>3, <3>2
      <3>4. QED BY <2>6, <2>9, <3>2, <3>3 DEF Displaced
    <2>10. m \in stdin' \cup about' => ~Coming(t, inbound')
      BY <2>1, <2>3, <2>6 DEF Displaced
    <2>11. QED BY <2>7, <2>8, <2>9, <2>10 DEF Displaced
  <1>8. ASSUME NEW u \in Tickets, Worker(u) PROVE DisplacedInv'
    <2>1. CASE Moving(u)
      <3>1. /\ \A t \in Tickets : t # u => worker'[t] = worker[t]
            /\ outstanding' \subseteq outstanding
            /\ worker'[u] = "ending" => u \in outstanding
            /\ UNCHANGED <<inbound, nextTicket, dropped, client, stdin, about, displaced>>
        BY <1>8, <2>1, MovingIs DEF kernel, job, page
      <3>2. \A t \in Tickets : t \notin outstanding /\ worker[t] # "ending" =>
              t \notin outstanding' /\ worker'[t] # "ending"
        BY <3>1
      <3>3. QED BY <1>p, <1>q, <3>1, <3>2 DEF Displaced, Asked
    <2>2. CASE Writing(u)
      <3>1. /\ worker'[u] \in {"pulling", "closing"} /\ \A t \in Tickets : t # u => worker'[t] = worker[t]
            /\ inbound' = Append(inbound, Reply(u, "piece"))
            /\ UNCHANGED <<client, dropped, stdin, about, displaced, outstanding, nextTicket>>
        BY <1>8, <2>2, WritingIs DEF kernel, job, page
      <3>2. "piece" \in Kinds /\ "piece" \notin Terminators BY DEF Kinds, Terminators
      <3>3. QED BY <1>r, <3>1, <3>2
    <2>3. CASE DeliverEnd(u)
      <3>1. /\ worker[u] = "ending" /\ worker'[u] = "returned" /\ \A t \in Tickets : t # u => worker'[t] = worker[t]
            /\ inbound' = Append(inbound, Reply(u, "END"))
            /\ UNCHANGED <<client, dropped, stdin, about, displaced, outstanding, nextTicket>>
        BY <1>8, <2>3, EndingIs DEF kernel, job, page
      <3>2. \A m \in Messages : u \notin displaced[m] BY <1>p, <3>1 DEF Displaced
      <3>3. QED BY <1>r, <3>1, <3>2 DEF Kinds
    <2>4. QED BY <1>8, <2>1, <2>2, <2>3, WorkerIs
  <1>9. CASE DrainOne
    <2> DEFINE i == Head(inbound)
    <2>1. /\ inbound' = Tail(inbound) /\ inbound # <<>>
          /\ stdin' = IF Fits(i) /\ i.to = "stdin" THEN stdin \cup {i.of} ELSE stdin
      BY <1>9 DEF DrainOne
    <2>2. UNCHANGED <<client, dropped, about, displaced, outstanding, worker, nextTicket>>
      BY <1>9 DEF DrainOne, device, job, page
    <2>3. /\ i = inbound[1] /\ 1 \in 1 .. Len(inbound) /\ inbound' \in Seq(Items)
          /\ \A k \in 1 .. Len(inbound') : k + 1 \in 1 .. Len(inbound) /\ inbound'[k] = inbound[k + 1]
          /\ Len(inbound') = Len(inbound) - 1
          /\ \A t : Coming(t, inbound') => Coming(t, inbound)
      BY <1>n, <2>1, TailIs
    <2> HIDE DEF i
    <2>4. SUFFICES ASSUME NEW m \in Messages, NEW t \in displaced'[m] PROVE Displaced(t, m)'
      BY <1>q
    <2>5. Displaced(t, m) BY <1>p, <2>2
    <2>6. Asked(t)' /\ t \notin outstanding' /\ worker'[t] # "ending"
      BY <2>2, <2>5 DEF Displaced, Asked
    <2>7. \A k \in Threads : t \in dropped'[k] => client'[k].msg = m
      BY <2>2, <2>5 DEF Displaced
    <2>8. ASSUME NEW j \in 1 .. Len(inbound'), IsMessage(inbound'[j], m),
                 NEW x \in j .. Len(inbound'), IsEndOf(inbound'[x], t)
          PROVE  FALSE
      <3>1. x \in 1 .. Len(inbound') BY <2>3
      <3>2. /\ inbound'[j] = inbound[j + 1] /\ j + 1 \in 1 .. Len(inbound)
            /\ inbound'[x] = inbound[x + 1] /\ x + 1 \in 1 .. Len(inbound)
        BY <2>3, <3>1
      <3>3. x + 1 \in (j + 1) .. Len(inbound) BY <3>1, <3>2
      <3>4. QED BY <2>5, <2>8, <3>2, <3>3 DEF Displaced
    <2>9. m \in stdin' \cup about' => ~Coming(t, inbound')
      <3>1. CASE m \in stdin \cup about BY <2>3, <2>5, <3>1 DEF Displaced
      <3>2. CASE m \in stdin' /\ m \notin stdin
        <4>1. IsMessage(inbound[1], m) BY <2>1, <2>3, <3>2 DEF IsMessage
        <4>2. \A x \in 1 .. Len(inbound) : ~IsEndOf(inbound[x], t)
          BY <2>3, <2>5, <4>1 DEF Displaced
        <4>3. ~Coming(t, inbound) BY <4>2 DEF Coming, IsEndOf
        <4>4. QED BY <2>3, <4>3
      <3>3. QED BY <2>2, <3>1, <3>2
    <2>10. QED BY <2>6, <2>7, <2>8, <2>9 DEF Displaced
  <1>10. CASE DrainDone \/ OtherTick
    BY <1>10, <1>c DEF DrainDone, OtherTick, device, job, page
  <1>11. CASE DrainAsk
    <2> DEFINE n == nextTicket'
    <2>1. /\ nextTicket \in Nat /\ n = nextTicket + 1 /\ n \in Tickets /\ ~Asked(n)
          /\ outstanding' = outstanding \cup {n} /\ worker'[n] = "pulling"
          /\ \A u \in Tickets : u # n => worker'[u] = worker[u]
          /\ UNCHANGED <<inbound, dropped, stdin, client, about, displaced>>
      BY <1>11, AskIs DEF job, page
    <2>2. nextTicket \in Nat /\ nextTicket' = nextTicket + 1 /\ \A t \in Tickets : t \in Nat
      BY <2>1, Naturals
    <2>3. \A t \in Tickets : Asked(t) => Asked(t)' /\ t # n
      BY <2>2 DEF Asked
    <2> HIDE DEF n
    <2>4. SUFFICES ASSUME NEW m \in Messages, NEW t \in displaced'[m] PROVE Displaced(t, m)'
      BY <1>q
    <2>5. Displaced(t, m) /\ t \in Tickets BY <1>p, <2>1
    <2>6. Asked(t)' /\ t \notin outstanding' /\ worker'[t] # "ending"
      BY <2>1, <2>3, <2>5 DEF Displaced
    <2>7. QED BY <2>1, <2>5, <2>6 DEF Displaced
  <1>12. CASE Converse
    <2>1. /\ UNCHANGED <<client, dropped, inbound, displaced, outstanding, worker, nextTicket>>
          /\ stdin' \cup about' \subseteq stdin \cup about
      BY <1>12 DEF Converse, ReadStdin, WriteTopic, Spawn, WriteAsk, ReadHear, WriteReply, Look, Command, device, page
    <2>2. QED BY <1>p, <1>q, <2>1 DEF Displaced, Asked
  <1>13. QED
    BY <1>1, <1>2, <1>3, <1>4, <1>5, <1>6, <1>7, <1>8, <1>9, <1>10, <1>11, <1>12 DEF Next, Client, Kernel

-----------------------------------------------------------------------------
(***************************************************************************)
(* The words of a queue, one item at a time.                               *)
(***************************************************************************)
LEMMA WordOf ==
  ASSUME NEW items \in Seq(Items), NEW w
  PROVE  w \in WordsIn(items) <=> \E k \in 1 .. Len(items) : IsPiece(items[k]) /\ Word(items[k]) = w
  BY DEF WordsIn

LEMMA WordsOfAppend ==
  ASSUME NEW items \in Seq(Items), NEW i \in Items
  PROVE  /\ WordsIn(Append(items, i)) = WordsIn(items) \cup (IF IsPiece(i) THEN {Word(i)} ELSE {})
         /\ EachOnce(items) /\ (IsPiece(i) => Word(i) \notin WordsIn(items)) => EachOnce(Append(items, i))
  <1> DEFINE new == Append(items, i)
             n == Len(items) + 1
  <1>1. /\ new \in Seq(Items) /\ Len(new) = n /\ new[n] = i /\ n \in 1 .. n
        /\ \A k \in 1 .. Len(items) : new[k] = items[k]
        /\ \A k \in 1 .. n : k = n \/ k \in 1 .. Len(items)
        /\ \A k \in 1 .. Len(items) : k \in 1 .. n
    OBVIOUS
  <1> HIDE DEF new, n
  <1>2. \A w : w \in WordsIn(new) <=> w \in WordsIn(items) \/ (IsPiece(i) /\ w = Word(i))
    BY <1>1, WordOf
  <1>3. WordsIn(new) = WordsIn(items) \cup (IF IsPiece(i) THEN {Word(i)} ELSE {})
    BY <1>2
  <1>4. ASSUME EachOnce(items), IsPiece(i) => Word(i) \notin WordsIn(items)
        PROVE  EachOnce(new)
    <2> SUFFICES ASSUME NEW j \in 1 .. n, NEW k \in 1 .. n,
                        IsPiece(new[j]), IsPiece(new[k]), Word(new[j]) = Word(new[k])
                 PROVE  j = k
      BY <1>1 DEF EachOnce
    <2>1. \A x \in 1 .. Len(items) : IsPiece(items[x]) => Word(items[x]) \in WordsIn(items)
      BY WordOf
    <2>2. CASE j = n /\ k # n BY <1>1, <1>4, <2>1, <2>2
    <2>3. CASE j # n /\ k = n BY <1>1, <1>4, <2>1, <2>3
    <2>4. CASE j # n /\ k # n BY <1>1, <1>4, <2>4 DEF EachOnce
    <2>5. QED BY <2>2, <2>3, <2>4
  <1>5. QED BY <1>3, <1>4 DEF new

LEMMA WordsOfTail ==
  ASSUME NEW items \in Seq(Items), items # <<>>
  PROVE  /\ WordsIn(items) = WordsIn(Tail(items)) \cup (IF IsPiece(Head(items)) THEN {Word(Head(items))} ELSE {})
         /\ EachOnce(items) => EachOnce(Tail(items))
         /\ EachOnce(items) /\ IsPiece(Head(items)) => Word(Head(items)) \notin WordsIn(Tail(items))
  <1> DEFINE rest == Tail(items)
             i == Head(items)
  <1>1. /\ rest \in Seq(Items) /\ Len(rest) = Len(items) - 1 /\ i = items[1] /\ 1 \in 1 .. Len(items)
        /\ \A k \in 1 .. Len(rest) : k + 1 \in 1 .. Len(items) /\ rest[k] = items[k + 1]
        /\ \A k \in 1 .. Len(items) : k = 1 \/ (k - 1 \in 1 .. Len(rest) /\ rest[k - 1] = items[k])
    OBVIOUS
  <1> HIDE DEF rest, i
  <1>2. \A w : w \in WordsIn(items) <=> w \in WordsIn(rest) \/ (IsPiece(i) /\ w = Word(i))
    <2> SUFFICES ASSUME NEW w PROVE w \in WordsIn(items) <=> w \in WordsIn(rest) \/ (IsPiece(i) /\ w = Word(i))
      OBVIOUS
    <2>1. w \in WordsIn(items) => w \in WordsIn(rest) \/ (IsPiece(i) /\ w = Word(i))
      <3> SUFFICES ASSUME NEW k \in 1 .. Len(items), IsPiece(items[k]), Word(items[k]) = w
                   PROVE  w \in WordsIn(rest) \/ (IsPiece(i) /\ w = Word(i))
        BY WordOf
      <3>1. CASE k = 1 BY <1>1, <3>1
      <3>2. CASE k # 1
        <4> DEFINE x == k - 1
        <4>1. x \in 1 .. Len(rest) /\ rest[x] = items[k] BY <1>1, <3>2
        <4> HIDE DEF x
        <4>2. QED BY <1>1, <4>1, WordOf
      <3>3. QED BY <3>1, <3>2
    <2>2. w \in WordsIn(rest) => w \in WordsIn(items)
      <3> SUFFICES ASSUME NEW k \in 1 .. Len(rest), IsPiece(rest[k]), Word(rest[k]) = w
                   PROVE  w \in WordsIn(items)
        BY <1>1, WordOf
      <3> DEFINE x == k + 1
      <3>1. x \in 1 .. Len(items) /\ rest[k] = items[x] BY <1>1
      <3> HIDE DEF x
      <3>2. QED BY <3>1, WordOf
    <2>3. IsPiece(i) /\ w = Word(i) => w \in WordsIn(items) BY <1>1, WordOf
    <2>4. QED BY <2>1, <2>2, <2>3
  <1>3. WordsIn(items) = WordsIn(rest) \cup (IF IsPiece(i) THEN {Word(i)} ELSE {})
    BY <1>2
  <1>4. EachOnce(items) => EachOnce(rest)
    <2> SUFFICES ASSUME EachOnce(items), NEW j \in 1 .. Len(rest), NEW k \in 1 .. Len(rest),
                        IsPiece(rest[j]), IsPiece(rest[k]), Word(rest[j]) = Word(rest[k])
                 PROVE  j = k
      BY DEF EachOnce
    <2>1. j + 1 = k + 1 BY <1>1 DEF EachOnce
    <2>2. QED BY <1>1, <2>1
  <1>5. EachOnce(items) /\ IsPiece(i) => Word(i) \notin WordsIn(rest)
    <2> SUFFICES ASSUME EachOnce(items), IsPiece(i), NEW k \in 1 .. Len(rest), IsPiece(rest[k]), Word(rest[k]) = Word(i)
                 PROVE  FALSE
      BY <1>1, WordOf
    <2>1. k + 1 = 1 BY <1>1 DEF EachOnce
    <2>2. QED BY <1>1, <2>1
  <1>6. QED BY <1>3, <1>4, <1>5 DEF rest, i

LEMMA NoWordsIn == WordsIn(<<>>) = {} /\ EachOnce(<<>>)
  BY DEF WordsIn, EachOnce

\* What is delivered for a request is a new word when it is a piece, and no word otherwise.
LEMMA WordsOfLog ==
  ASSUME TypeOK, NEW t \in Tickets, NEW k \in Kinds, log'[t] = Append(log[t], k),
         \A u \in Tickets : u # t => log'[u] = log[u]
  PROVE  /\ <<t, Len(log[t]) + 1>> \notin AllWords
         /\ AllWords' = AllWords \cup (IF k = "piece" THEN {<<t, Len(log[t]) + 1>>} ELSE {})
  <1> DEFINE n == Len(log[t]) + 1
  <1>1. \A u \in Tickets : log[u] \in Seq(Kinds)
    BY DEF TypeOK, AdapterTypeOK
  <1>2. /\ n \in Nat /\ n # 0 /\ Len(log'[t]) = n /\ log'[t][n] = k
        /\ \A x \in 1 .. Len(log[t]) : log'[t][x] = log[t][x]
        /\ \A x \in Nat : x \in 1 .. n <=> x = n \/ x \in 1 .. Len(log[t])
        /\ n \notin 1 .. Len(log[t])
    BY <1>1
  <1> HIDE DEF n
  <1>3. \A u \in Tickets, x \in Nat :
          <<u, x>> \in AllWords <=> x \in 1 .. Len(log[u]) /\ log[u][x] = "piece"
    BY DEF AllWords, Words
  <1>4. \A u \in Tickets, x \in Nat :
          <<u, x>> \in AllWords' <=> x \in 1 .. Len(log'[u]) /\ log'[u][x] = "piece"
    BY DEF AllWords, Words
  <1>5. <<t, n>> \notin AllWords BY <1>2, <1>3
  <1>6. ASSUME NEW u \in Tickets, NEW x \in Nat
        PROVE  <<u, x>> \in AllWords' <=> <<u, x>> \in AllWords \/ (k = "piece" /\ u = t /\ x = n)
    <2>1. CASE u # t BY <1>3, <1>4, <2>1
    <2>2. CASE u = t /\ x = n BY <1>2, <1>4, <1>5, <2>2
    <2>3. CASE u = t /\ x # n BY <1>2, <1>3, <1>4, <2>3
    <2>4. QED BY <2>1, <2>2, <2>3
  <1>7. AllWords \subseteq Tickets \X Nat /\ AllWords' \subseteq Tickets \X Nat
    BY DEF AllWords, Words
  <1>8. AllWords' = AllWords \cup (IF k = "piece" THEN {<<t, n>>} ELSE {})
    <2>1. \A w \in Tickets \X Nat : w \in AllWords' <=> w \in AllWords \/ (k = "piece" /\ w = <<t, n>>)
      BY <1>6
    <2>2. <<t, n>> \in Tickets \X Nat BY <1>2
    <2>3. QED BY <1>7, <2>1, <2>2
  <1>9. QED BY <1>5, <1>8 DEF n

-----------------------------------------------------------------------------
(***************************************************************************)
(* Every delivered word is in one place.                                   *)
(***************************************************************************)
LEMMA WrittenIs ==
  ASSUME TypeOK
  PROVE  /\ \A u \in Tickets : \A w : w \in Written(u) <=> \E k \in 1 .. Len(shown[u]) : w \in shown[u][k]
         /\ \A w : w \in AllWritten <=>
              \E u \in Tickets : \E k \in 1 .. Len(shown[u]) : w \in shown[u][k]
  <1>1. \A u \in Tickets : \A w : w \in Written(u) <=> \E k \in 1 .. Len(shown[u]) : w \in shown[u][k]
    BY DEF Written
  <1>2. ASSUME NEW u \in Tickets, NEW k \in 1 .. Len(shown[u]) PROVE shown[u][k] \subseteq Words
    <2> DEFINE S == SUBSET Words
    <2>1. shown[u] \in Seq(S) BY DEF TypeOK, JobTypeOK
    <2> HIDE DEF S
    <2>2. shown[u][k] \in S BY <2>1
    <2>3. QED BY <2>2 DEF S
  <1>3. QED BY <1>1, <1>2 DEF AllWritten

LEMMA WordsStep ==
  TypeOK /\ TypeOK' /\ AdapterInv /\ DeafInv /\ WordsInv /\ [Next]_vars => WordsInv'
  <1> SUFFICES ASSUME TypeOK, TypeOK', AdapterInv, DeafInv, WordsInv, [Next]_vars PROVE WordsInv'
    OBVIOUS
  <1>n. inbound \in Seq(Items) /\ hear \in Seq(Items)
    BY Naturals
  <1>w. ASSUME UNCHANGED shown PROVE WrittenOnce' <=> WrittenOnce
    BY <1>w DEF WrittenOnce
  <1>v. ASSUME UNCHANGED shown PROVE AllWritten' = AllWritten
    BY <1>v DEF AllWritten, Written
  <1>l. ASSUME UNCHANGED log PROVE AllWords' = AllWords
    BY <1>l DEF AllWords
  <1>c. ASSUME UNCHANGED <<log, inbound, hear, shown, refused>>, InHand' = InHand
        PROVE  WordsInv'
    BY <1>c, <1>w, <1>v, <1>l DEF WordsInv
  <1>j. ASSUME UNCHANGED <<pc, got>> PROVE InHand' = InHand
    BY <1>j DEF InHand
  \* A device or a thread puts an item on the queue: a word if and only if it is delivered.
  <1>r. ASSUME NEW t \in Tickets, NEW k \in Kinds, inbound' = Append(inbound, Reply(t, k)),
               log'[t] = Append(log[t], k), \A u \in Tickets : u # t => log'[u] = log[u],
               UNCHANGED <<hear, shown, refused, pc, got>>
        PROVE  WordsInv'
    <2> DEFINE i == Reply(t, k)
               w == <<t, Len(log[t]) + 1>>
    <2>1. /\ i \in Items /\ (IsPiece(i) <=> k = "piece") /\ Word(i) = w
      BY ReplyIs DEF TypeOK, AdapterTypeOK, IsPiece, Word
    <2>2. w \notin AllWords /\ AllWords' = AllWords \cup (IF k = "piece" THEN {w} ELSE {})
      BY <1>r, WordsOfLog
    <2>3. inbound' = Append(inbound, i) BY <1>r
    <2> HIDE DEF i, w
    <2>4. w \notin WordsIn(inbound) BY <2>2 DEF WordsInv
    <2>5. EachOnce(inbound') /\ WordsIn(inbound') = WordsIn(inbound) \cup (IF k = "piece" THEN {w} ELSE {})
      BY <1>n, <2>1, <2>3, <2>4, WordsOfAppend DEF WordsInv
    <2>6. InHand' = InHand /\ AllWritten' = AllWritten /\ (WrittenOnce' <=> WrittenOnce)
      BY <1>r, <1>j, <1>v, <1>w
    <2>7. hear' = hear /\ refused' = refused BY <1>r
    <2>8. QED BY <2>2, <2>5, <2>6, <2>7 DEF WordsInv
  <1>1. CASE UNCHANGED vars BY <1>1, <1>c, <1>j DEF vars, device, kernel, job, page
  <1>2. ASSUME NEW h \in Threads, Say(h) \/ Stop(h) PROVE WordsInv'
    <2>1. UNCHANGED <<log, inbound, hear, shown, refused, pc, got>>
      BY <1>2 DEF Say, Stop, device, kernel, job
    <2>2. QED BY <1>c, <1>j, <2>1
  <1>3. ASSUME NEW h \in Threads, GiveUp(h) \/ Tell(h) PROVE WordsInv'
    <2>1. UNCHANGED <<log, inbound, hear, shown, refused, pc, got>>
      BY <1>3, GiveUpIs, TellIs DEF device, kernel, job
    <2>2. QED BY <1>c, <1>j, <2>1
  <1>4. ASSUME NEW h \in Threads, NEW t \in Tickets, Wake(h, t) PROVE WordsInv'
    <2>1. /\ inbound' = Append(inbound, Reply(t, "ABANDONED")) /\ log'[t] = Append(log[t], "ABANDONED")
          /\ \A u \in Tickets : u # t => log'[u] = log[u]
          /\ UNCHANGED <<hear, shown, refused, pc, got>>
      BY <1>4, WakeIs DEF kernel, job
    <2>2. QED BY <1>r, <2>1 DEF Kinds
  <1>5. ASSUME NEW h \in Threads, Post(h) PROVE WordsInv'
    <2> DEFINE i == Message(client[h].msg)
    <2>1. inbound' = Append(inbound, i) /\ client[h].msg \in Messages
          /\ UNCHANGED <<log, hear, shown, refused, pc, got>>
      BY <1>5, PostIs DEF device, kernel, job
    <2>2. i \in Items /\ ~IsPiece(i) BY <2>1, MessageIs
    <2> HIDE DEF i
    <2>3. EachOnce(inbound') /\ WordsIn(inbound') = WordsIn(inbound)
      BY <1>n, <2>1, <2>2, WordsOfAppend DEF WordsInv
    <2>4. InHand' = InHand /\ AllWritten' = AllWritten /\ (WrittenOnce' <=> WrittenOnce) /\ AllWords' = AllWords
      BY <2>1, <1>j, <1>v, <1>w, <1>l
    <2>5. hear' = hear /\ refused' = refused BY <2>1
    <2>6. QED BY <2>3, <2>4, <2>5 DEF WordsInv
  <1>6. ASSUME NEW t \in Tickets, Worker(t) PROVE WordsInv'
    <2>1. CASE Moving(t)
      <3>1. UNCHANGED <<log, inbound, hear, shown, refused, pc, got>>
        BY <1>6, <2>1, MovingIs DEF kernel, job
      <3>2. QED BY <1>c, <1>j, <3>1
    <2>2. CASE Writing(t)
      <3>1. /\ inbound' = Append(inbound, Reply(t, "piece")) /\ log'[t] = Append(log[t], "piece")
            /\ \A u \in Tickets : u # t => log'[u] = log[u]
            /\ UNCHANGED <<hear, shown, refused, pc, got>>
        BY <1>6, <2>2, WritingIs DEF kernel, job
      <3>2. QED BY <1>r, <3>1 DEF Kinds
    <2>3. CASE DeliverEnd(t)
      <3>1. /\ inbound' = Append(inbound, Reply(t, "END")) /\ log'[t] = Append(log[t], "END")
            /\ \A u \in Tickets : u # t => log'[u] = log[u]
            /\ UNCHANGED <<hear, shown, refused, pc, got>>
        BY <1>6, <2>3, EndingIs DEF kernel, job
      <3>2. QED BY <1>r, <3>1 DEF Kinds
    <2>4. QED BY <1>6, <2>1, <2>2, <2>3, WorkerIs
  <1>7. CASE DrainOne
    <2> DEFINE i == Head(inbound)
               ws == IF IsPiece(i) THEN {Word(i)} ELSE {}
    <2>1. inbound' = Tail(inbound) /\ inbound # <<>> /\ UNCHANGED <<log, shown, pc, got>>
      BY <1>7 DEF DrainOne, device, job
    <2>2. /\ hear'    = IF Fits(i) /\ i.to = "hear" THEN Append(hear, i) ELSE hear
          /\ refused' = IF Fits(i) THEN refused ELSE refused \cup {i}
      BY <1>7 DEF DrainOne
    <2>3. /\ i \in Items /\ WordsIn(inbound) = WordsIn(inbound') \cup ws
          /\ EachOnce(inbound') /\ ws \cap WordsIn(inbound') = {}
      BY <1>n, <2>1, TailIs, WordsOfTail DEF WordsInv
    <2>4. i.to # "hear" => ws = {}
      BY <2>3, ItemIs DEF IsPiece
    <2>5. InHand' = InHand /\ AllWritten' = AllWritten /\ (WrittenOnce' <=> WrittenOnce) /\ AllWords' = AllWords
      BY <2>1, <1>j, <1>v, <1>w, <1>l
    <2>6. CASE Fits(i) /\ i.to = "hear"
      <3>1. hear' = Append(hear, i) /\ refused' = refused BY <2>2, <2>6
      <3>2. ws \cap WordsIn(hear) = {} BY <2>3 DEF WordsInv
      <3>3. EachOnce(hear') /\ WordsIn(hear') = WordsIn(hear) \cup ws
        BY <1>n, <2>3, <3>1, <3>2, WordsOfAppend DEF WordsInv
      <3> HIDE DEF i, ws
      <3>4. QED BY <2>3, <2>5, <3>1, <3>2, <3>3 DEF WordsInv
    <2>7. CASE Fits(i) /\ i.to # "hear"
      <3>1. hear' = hear /\ refused' = refused /\ WordsIn(inbound') = WordsIn(inbound)
        BY <2>2, <2>3, <2>4, <2>7
      <3> HIDE DEF i, ws
      <3>2. QED BY <2>3, <2>5, <3>1 DEF WordsInv
    <2>8. CASE ~Fits(i)
      <3>1. hear' = hear /\ refused' # {} BY <2>2, <2>8
      <3> HIDE DEF i, ws
      <3>2. QED BY <2>3, <2>5, <3>1 DEF WordsInv
    <2>9. QED BY <2>6, <2>7, <2>8
  <1>8. CASE DrainDone \/ OtherTick
    <2>1. UNCHANGED <<log, inbound, hear, shown, refused, pc, got>>
      BY <1>8 DEF DrainDone, OtherTick, device, job
    <2>2. QED BY <1>c, <1>j, <2>1
  <1>9. CASE DrainAsk
    <2>1. UNCHANGED <<log, inbound, hear, shown, refused, pc, got>>
      BY <1>9, AskIs DEF job
    <2>2. QED BY <1>c, <1>j, <2>1
  <1>10. CASE ReadStdin \/ WriteTopic \/ Spawn \/ WriteAsk
    <2>1. UNCHANGED <<log, inbound, hear, shown, refused, got>> /\ pc # "heard" /\ pc' # "heard"
      BY <1>10 DEF ReadStdin, WriteTopic, Spawn, WriteAsk, Command, device
    <2>2. InHand' = InHand BY <2>1 DEF InHand
    <2>3. QED BY <1>c, <2>1, <2>2
  <1>11. CASE ReadHear
    <2>1. /\ UNCHANGED <<log, inbound, shown, refused>> /\ pc = "hearing" /\ pc' = "heard"
          /\ got' = StreamPiece(hear) /\ hear' = <<>>
      BY <1>11 DEF ReadHear, Command, device
    <2>2. InHand = {} /\ InHand' = WordsIn(hear) /\ WordsIn(hear') = {} /\ EachOnce(hear')
      BY <2>1, NoWordsIn DEF InHand, StreamPiece
    <2>3. AllWritten' = AllWritten /\ (WrittenOnce' <=> WrittenOnce) /\ AllWords' = AllWords
      BY <2>1, <1>v, <1>w, <1>l
    <2>4. inbound' = inbound /\ refused' = refused BY <2>1
    <2>5. QED BY <2>2, <2>3, <2>4 DEF WordsInv
  <1>12. CASE WriteReply
    <2>1. /\ UNCHANGED <<log, inbound, hear, refused, got>> /\ pc = "heard" /\ pc' = "written"
          /\ phase = "tick" /\ shown' = [shown EXCEPT ![Turn] = Append(@, got.words)]
      BY <1>12 DEF WriteReply, Command, device
    <2> DEFINE S == SUBSET Words
               ws == got.words
               n == Len(shown[Turn]) + 1
    <2>2. Turn \in Tickets
      <3>1. nextTicket # 0 BY <2>1 DEF DeafInv
      <3>2. nextTicket \in 0 .. MaxAsks BY DEF TypeOK, AdapterTypeOK
      <3>3. QED BY <3>1, <3>2, AdapterAssumption DEF Turn, Tickets
    <2>3. shown \in [Tickets -> Seq(S)] /\ ws \in S BY DEF TypeOK, JobTypeOK
    <2>4. InHand = ws /\ InHand' = {} BY <2>1 DEF InHand
    <2>5. shown' = [shown EXCEPT ![Turn] = Append(shown[Turn], ws)] BY <2>1
    <2> HIDE DEF S, ws
    <2>6. /\ Len(shown'[Turn]) = n /\ shown'[Turn][n] = ws /\ n \in 1 .. n
          /\ \A k \in 1 .. Len(shown[Turn]) : k \in 1 .. n /\ shown'[Turn][k] = shown[Turn][k]
          /\ \A k \in 1 .. n : k = n \/ k \in 1 .. Len(shown[Turn])
          /\ \A u \in Tickets : u # Turn => shown'[u] = shown[u]
      BY <2>2, <2>3, <2>5
    <2> HIDE DEF n
    <2>7. \A w : w \in AllWritten' <=>
            \E u \in Tickets : \E k \in 1 .. Len(shown'[u]) : w \in shown'[u][k]
      <3>1. (\A w : w \in AllWritten <=>
              \E u \in Tickets : \E k \in 1 .. Len(shown[u]) : w \in shown[u][k])'
        BY WrittenIs, PTL
      <3>2. QED BY <3>1
    <2>8. AllWritten' = AllWritten \cup ws
      <3>1. \A w : w \in AllWritten => w \in AllWritten'
        <4> SUFFICES ASSUME NEW w, NEW u \in Tickets, NEW k \in 1 .. Len(shown[u]), w \in shown[u][k]
                     PROVE  w \in AllWritten'
          BY WrittenIs
        <4>1. CASE u = Turn BY <2>6, <2>7, <4>1
        <4>2. CASE u # Turn BY <2>6, <2>7, <4>2
        <4>3. QED BY <4>1, <4>2
      <3>2. \A w \in ws : w \in AllWritten'
        BY <2>2, <2>6, <2>7
      <3>3. \A w : w \in AllWritten' => w \in AllWritten \/ w \in ws
        <4> SUFFICES ASSUME NEW w, NEW u \in Tickets, NEW k \in 1 .. Len(shown'[u]), w \in shown'[u][k]
                     PROVE  w \in AllWritten \/ w \in ws
          BY <2>7
        <4>1. CASE u = Turn /\ k # n BY <2>6, <4>1, WrittenIs
        <4>2. CASE u # Turn BY <2>6, <4>2, WrittenIs
        <4>3. CASE u = Turn /\ k = n BY <2>6, <4>3
        <4>4. QED BY <4>1, <4>2, <4>3
      <3>4. QED BY <3>1, <3>2, <3>3
    <2>9. WrittenOnce'
      <3>1. \A u \in Tickets : \A k \in 1 .. Len(shown[u]) : \A w \in shown[u][k] : w \notin ws
        BY <2>4, WrittenIs DEF WordsInv
      <3>2. SUFFICES ASSUME NEW u \in Tickets, NEW v \in Tickets,
                            NEW j \in 1 .. Len(shown'[u]), NEW k \in 1 .. Len(shown'[v]),
                            NEW w \in shown'[u][j], w \in shown'[v][k]
                     PROVE  u = v /\ j = k
        BY DEF WrittenOnce
      <3>3. (u = Turn /\ j = n) \/ (j \in 1 .. Len(shown[u]) /\ shown'[u][j] = shown[u][j])
        BY <2>6
      <3>4. (v = Turn /\ k = n) \/ (k \in 1 .. Len(shown[v]) /\ shown'[v][k] = shown[v][k])
        BY <2>6
      <3>5. QED BY <2>6, <3>1, <3>2, <3>3, <3>4 DEF WordsInv, WrittenOnce
    <2>10. AllWords' = AllWords BY <2>1, <1>l
    <2>11. inbound' = inbound /\ hear' = hear /\ refused' = refused BY <2>1
    <2>12. QED BY <2>4, <2>8, <2>9, <2>10, <2>11 DEF WordsInv
  <1>13. CASE Look
    <2>1. UNCHANGED <<log, inbound, hear, shown, refused>> /\ pc' # "heard"
      BY <1>13 DEF Look, device
    <2>2. pc = "heard" => got.words = {} BY <1>13 DEF Look, Quiet
    <2>3. InHand' = InHand BY <2>1, <2>2 DEF InHand
    <2>4. QED BY <1>c, <2>1, <2>3
  <1>14. QED
    BY <1>1, <1>2, <1>3, <1>4, <1>5, <1>6, <1>7, <1>8, <1>9, <1>10, <1>11, <1>12, <1>13
       DEF Next, Client, Kernel, Converse

-----------------------------------------------------------------------------
(***************************************************************************)
(* A turn that waits for its answer is owed the end of it.                 *)
(***************************************************************************)
LEMMA DebtorsIs ==
  ASSUME NEW t
  PROVE  Debtors(t) # {} <=> t \in outstanding \/ worker[t] = "ending" \/ InDropped(t)
  BY DEF Debtors, InDropped

\* Owed, or refused by the full pipe, spelt out.
Due(t) ==
  \/ t \in outstanding \/ worker[t] = "ending" \/ InDropped(t)
  \/ Coming(t, inbound) \/ Coming(t, hear) \/ RefusedEnd(t)

LEMMA DueIs == \A t : Due(t) <=> Owed(t) \/ RefusedEnd(t)
  BY DebtorsIs DEF Due, Owed

LEMMA DeafStep == TypeOK /\ AdapterInv /\ DeafInv /\ [Next]_vars => DeafInv'
  <1> SUFFICES ASSUME TypeOK, AdapterInv, DeafInv, [Next]_vars PROVE DeafInv'
    OBVIOUS
  <1>n. /\ inbound \in Seq(Items) /\ hear \in Seq(Items) /\ nextTicket \in Nat
        /\ dropped \in [Threads -> SUBSET Tickets]
    BY Naturals DEF TypeOK, AdapterTypeOK
  <1>t. InTurn => Turn \in Tickets /\ Due(Turn)
    <2>1. nextTicket \in 0 .. MaxAsks BY DEF TypeOK, AdapterTypeOK
    <2>2. InTurn => nextTicket # 0 BY DEF DeafInv, InTurn
    <2>3. nextTicket # 0 => nextTicket \in Tickets BY <2>1, AdapterAssumption DEF Tickets
    <2>4. QED BY <2>2, <2>3, DueIs DEF DeafInv, Turn
  <1>q. ASSUME phase' = "asking" => pc' = "hearing",
               phase' # "asking" /\ pc' \in {"hearing", "heard", "written"} => nextTicket' # 0,
               InTurn' => Due(Turn)'
        PROVE  DeafInv'
    <2>1. (\A t : Due(t) <=> Owed(t) \/ RefusedEnd(t))' BY DueIs, PTL
    <2>2. Due(Turn)' => (Owed(Turn) \/ RefusedEnd(Turn))'
      BY <2>1 DEF Due, Owed, RefusedEnd, Turn, InDropped, Coming, Debtors
    <2>3. QED BY <1>q, <2>2 DEF DeafInv
  <1>k. ASSUME UNCHANGED <<nextTicket, phase, pc, got>>, \A t \in Tickets : Due(t) => Due(t)'
        PROVE  DeafInv'
    <2>1. InTurn' <=> InTurn BY <1>k DEF InTurn
    <2>2. InTurn' => Due(nextTicket)'
      BY <1>k, <1>t, <2>1 DEF Turn
    <2>3. InTurn' => Due(Turn)'
      BY <1>k, <2>2 DEF Turn, Due, RefusedEnd, InDropped, Coming
    <2>4. QED BY <1>k, <1>q, <2>3 DEF DeafInv
  <1>c. ASSUME UNCHANGED <<nextTicket, outstanding, worker, dropped, inbound, hear, refused, phase, pc, got>>
        PROVE  DeafInv'
    <2>1. \A t \in Tickets : Due(t) => Due(t)' BY <1>c DEF Due, InDropped, RefusedEnd
    <2>2. QED BY <1>c, <1>k, <2>1
  <1>1. CASE UNCHANGED vars BY <1>1, <1>c DEF vars, device, kernel, job, page
  <1>2. ASSUME NEW h \in Threads, Say(h) \/ Stop(h) PROVE DeafInv'
    BY <1>2, <1>c DEF Say, Stop, device, kernel, job
  <1>3. ASSUME NEW h \in Threads, GiveUp(h) PROVE DeafInv'
    <2> DEFINE S == InFlightFor("converse")
    <2>1. /\ dropped[h] = {} /\ dropped' = [dropped EXCEPT ![h] = S]
          /\ outstanding' = outstanding \ S
          /\ UNCHANGED <<nextTicket, worker, inbound, hear, refused, phase, pc, got>>
      BY <1>3, GiveUpIs DEF kernel, job
    <2> HIDE DEF S
    <2>2. dropped'[h] = S /\ \A k \in Threads : k # h => dropped'[k] = dropped[k]
      BY <1>n, <2>1
    <2>3. ASSUME NEW t \in Tickets PROVE Due(t) => Due(t)'
      <3>1. InDropped(t) => InDropped(t)' BY <2>1, <2>2 DEF InDropped
      <3>2. t \in outstanding => t \in outstanding' \/ InDropped(t)' BY <2>1, <2>2 DEF InDropped
      <3>3. RefusedEnd(t)' <=> RefusedEnd(t) BY <2>1 DEF RefusedEnd
      <3>4. QED BY <2>1, <3>1, <3>2, <3>3 DEF Due
    <2>4. QED BY <1>k, <2>1, <2>3
  <1>4. ASSUME NEW h \in Threads, NEW u \in Tickets, Wake(h, u) PROVE DeafInv'
    <2> DEFINE i == Reply(u, "ABANDONED")
    <2>1. /\ dropped' = [dropped EXCEPT ![h] = @ \ {u}]
          /\ inbound' = Append(inbound, i)
          /\ UNCHANGED <<nextTicket, outstanding, worker, hear, refused, phase, pc, got>>
      BY <1>4, WakeIs DEF kernel, job
    <2>2. i \in Items /\ IsEndOf(i, u)
      BY ReplyIs DEF TypeOK, AdapterTypeOK, Kinds, IsEndOf, IsTerminator, Terminators
    <2> HIDE DEF i
    <2>3. \A t : Coming(t, inbound') <=> Coming(t, inbound) \/ IsEndOf(i, t)
      BY <1>n, <2>1, <2>2, AppendIs
    <2>4. ASSUME NEW t \in Tickets PROVE Due(t) => Due(t)'
      <3>1. InDropped(t) => InDropped(t)' \/ t = u BY <1>n, <2>1 DEF InDropped
      <3>2. RefusedEnd(t)' <=> RefusedEnd(t) BY <2>1 DEF RefusedEnd
      <3>3. QED BY <2>1, <2>2, <2>3, <3>1, <3>2 DEF Due
    <2>5. QED BY <1>k, <2>1, <2>4
  <1>5. ASSUME NEW h \in Threads, Tell(h) PROVE DeafInv'
    <2>1. UNCHANGED <<nextTicket, outstanding, worker, dropped, inbound, hear, refused, phase, pc, got>>
      BY <1>5, TellIs DEF device, kernel
    <2>2. QED BY <1>c, <2>1
  <1>6. ASSUME NEW h \in Threads, Post(h) PROVE DeafInv'
    <2> DEFINE i == Message(client[h].msg)
    <2>1. /\ inbound' = Append(inbound, i) /\ client[h].msg \in Messages
          /\ UNCHANGED <<nextTicket, outstanding, worker, dropped, hear, refused, phase, pc, got>>
      BY <1>6, PostIs DEF device, kernel, job
    <2>2. i \in Items BY <2>1, MessageIs
    <2> HIDE DEF i
    <2>3. \A t : Coming(t, inbound) => Coming(t, inbound')
      BY <1>n, <2>1, <2>2, AppendIs
    <2>4. \A t \in Tickets : Due(t) => Due(t)' BY <2>1, <2>3 DEF Due, InDropped, RefusedEnd
    <2>5. QED BY <1>k, <2>1, <2>4
  <1>7. ASSUME NEW u \in Tickets, Worker(u) PROVE DeafInv'
    <2>1. CASE Moving(u)
      <3>1. /\ \A t \in Tickets : t # u => worker'[t] = worker[t]
            /\ worker[u] \in Live
            /\ \A t \in outstanding : t \in outstanding' \/ (t = u /\ worker'[u] = "ending")
            /\ UNCHANGED <<nextTicket, dropped, inbound, hear, refused, phase, pc, got>>
        BY <1>7, <2>1, MovingIs DEF kernel, job
      <3>2. \A t \in Tickets : worker[t] = "ending" => worker'[t] = "ending" BY <3>1 DEF Live
      <3>3. \A t \in Tickets : Due(t) => Due(t)' BY <3>1, <3>2 DEF Due, InDropped, RefusedEnd
      <3>4. QED BY <1>k, <3>1, <3>3
    <2>2. CASE Writing(u)
      <3> DEFINE i == Reply(u, "piece")
      <3>1. /\ worker[u] # "ending" /\ \A t \in Tickets : t # u => worker'[t] = worker[t]
            /\ inbound' = Append(inbound, i)
            /\ UNCHANGED <<nextTicket, outstanding, dropped, hear, refused, phase, pc, got>>
        BY <1>7, <2>2, WritingIs DEF kernel, job
      <3>2. i \in Items BY ReplyIs DEF TypeOK, AdapterTypeOK, Kinds
      <3> HIDE DEF i
      <3>3. \A t : Coming(t, inbound) => Coming(t, inbound')
        BY <1>n, <3>1, <3>2, AppendIs
      <3>4. \A t \in Tickets : Due(t) => Due(t)' BY <3>1, <3>3 DEF Due, InDropped, RefusedEnd
      <3>5. QED BY <1>k, <3>1, <3>4
    <2>3. CASE DeliverEnd(u)
      <3> DEFINE i == Reply(u, "END")
      <3>1. /\ \A t \in Tickets : t # u => worker'[t] = worker[t]
            /\ inbound' = Append(inbound, i)
            /\ UNCHANGED <<nextTicket, outstanding, dropped, hear, refused, phase, pc, got>>
        BY <1>7, <2>3, EndingIs DEF kernel, job
      <3>2. i \in Items /\ IsEndOf(i, u)
        BY ReplyIs DEF TypeOK, AdapterTypeOK, Kinds, IsEndOf, IsTerminator, Terminators
      <3> HIDE DEF i
      <3>3. \A t : Coming(t, inbound') <=> Coming(t, inbound) \/ IsEndOf(i, t)
        BY <1>n, <3>1, <3>2, AppendIs
      <3>4. \A t \in Tickets : Due(t) => Due(t)'
        BY <3>1, <3>2, <3>3 DEF Due, InDropped, RefusedEnd
      <3>5. QED BY <1>k, <3>1, <3>4
    <2>4. QED BY <1>7, <2>1, <2>2, <2>3, WorkerIs
  <1>8. CASE DrainOne
    <2> DEFINE i == Head(inbound)
    <2>1. inbound' = Tail(inbound) /\ inbound # <<>> /\ UNCHANGED <<nextTicket, outstanding, worker, dropped, phase, pc, got>>
      BY <1>8 DEF DrainOne, device, job
    <2>2. /\ hear'    = IF Fits(i) /\ i.to = "hear" THEN Append(hear, i) ELSE hear
          /\ refused' = IF Fits(i) THEN refused ELSE refused \cup {i}
      BY <1>8 DEF DrainOne
    <2>3. i \in Items /\ \A t : Coming(t, inbound) => Coming(t, inbound') \/ IsEndOf(i, t)
      BY <1>n, <2>1, TailIs
    <2>4. IsTerminator(i) => i.to = "hear"
      BY <2>3, ItemIs DEF IsTerminator, Terminators
    <2>5. \A t : Coming(t, hear) => Coming(t, hear')
      BY <1>n, <2>2, <2>3, AppendIs
    <2>6. ASSUME NEW t, IsEndOf(i, t) PROVE Coming(t, hear') \/ RefusedEnd(t)'
      <3>1. IsTerminator(i) /\ i.of = t BY <2>6 DEF IsEndOf
      <3>2. CASE Fits(i)
        <4>1. hear' = Append(hear, i) BY <2>2, <2>4, <3>1, <3>2
        <4>2. QED BY <1>n, <2>3, <2>6, <4>1, AppendIs
      <3>3. CASE ~Fits(i)
        <4>1. i \in refused' BY <2>2, <3>3
        <4>2. QED BY <3>1, <4>1 DEF RefusedEnd
      <3>4. QED BY <3>2, <3>3
    <2>7. \A t : RefusedEnd(t) => RefusedEnd(t)' BY <2>2 DEF RefusedEnd
    <2> HIDE DEF i
    <2>8. \A t \in Tickets : Due(t) => Due(t)'
      BY <2>1, <2>3, <2>5, <2>6, <2>7 DEF Due, InDropped
    <2>9. QED BY <1>k, <2>1, <2>8
  <1>9. CASE DrainDone \/ OtherTick
    <2>1. /\ UNCHANGED <<nextTicket, outstanding, worker, dropped, inbound, hear, refused, pc, got>>
          /\ phase # "asking" /\ phase' # "asking"
      BY <1>9 DEF DrainDone, OtherTick, device, job
    <2>2. InTurn' <=> InTurn BY <2>1 DEF InTurn
    <2>3. Due(Turn) => Due(Turn)' BY <2>1 DEF Due, InDropped, RefusedEnd, Turn
    <2>4. QED BY <1>q, <1>t, <2>1, <2>2, <2>3 DEF DeafInv
  <1>10. CASE DrainAsk
    <2>1. /\ phase = "asking" /\ phase' = "drain" /\ UNCHANGED pc
          /\ nextTicket' = nextTicket + 1 /\ nextTicket' \in outstanding'
      BY <1>10, AskIs DEF job
    <2>2. Due(Turn)' BY <2>1 DEF Due, Turn
    <2>3. QED BY <1>n, <1>q, <2>1, <2>2
  <1>11. CASE ReadStdin \/ WriteTopic \/ Spawn \/ WriteAsk
    <2>1. /\ pc' \in {"noting", "asking", "spawning", "listening"} \/ (pc' = "hearing" /\ phase' = "asking")
          /\ phase' = "asking" => pc' = "hearing"
      BY <1>11 DEF ReadStdin, WriteTopic, Spawn, WriteAsk, Command
    <2>2. ~InTurn' BY <2>1 DEF InTurn
    <2>3. QED BY <1>q, <2>1, <2>2
  <1>12. CASE ReadHear
    <2>1. /\ phase = "tick" /\ pc = "hearing" /\ pc' = "heard" /\ phase' = "drain"
          /\ got' = StreamPiece(hear)
          /\ UNCHANGED <<nextTicket, outstanding, worker, dropped, inbound, refused>>
      BY <1>12 DEF ReadHear, Command, device
    <2>2. InTurn /\ Due(Turn) /\ nextTicket # 0 BY <1>t, <2>1 DEF InTurn, DeafInv
    <2>3. Coming(Turn, hear) => got'.ended
      BY <2>1 DEF StreamPiece, EndsIn, Coming
    <2>4. InTurn' => ~Coming(Turn, hear) BY <2>1, <2>3 DEF InTurn
    <2>5. InTurn' => Due(Turn)'
      BY <2>1, <2>2, <2>4 DEF Due, InDropped, RefusedEnd, Turn
    <2>6. QED BY <1>q, <2>1, <2>2, <2>5
  <1>13. CASE WriteReply \/ Look
    <2>1. /\ phase = "tick" /\ pc \in {"heard", "written"} /\ phase' = "drain"
          /\ pc' \in {"written", "hearing", "listening"}
          /\ UNCHANGED <<nextTicket, outstanding, worker, dropped, inbound, hear, refused>>
      BY <1>13 DEF WriteReply, Look, Quiet, Command, device
    <2>2. InTurn' => InTurn
      <3>1. CASE WriteReply BY <2>1, <3>1 DEF WriteReply, Command, InTurn
      <3>2. CASE Look BY <2>1, <3>2 DEF Look, InTurn
      <3>3. QED BY <1>13, <3>1, <3>2
    <2>3. Due(Turn) => Due(Turn)' BY <2>1 DEF Due, InDropped, RefusedEnd, Turn
    <2>4. QED BY <1>q, <1>t, <2>1, <2>2, <2>3 DEF DeafInv
  <1>14. QED
    BY <1>1, <1>2, <1>3, <1>4, <1>5, <1>6, <1>7, <1>8, <1>9, <1>10, <1>11, <1>12, <1>13
       DEF Next, Client, Kernel, Converse

-----------------------------------------------------------------------------
(***************************************************************************)
(* While nobody stops, barges in or is refused.                            *)
(***************************************************************************)
LEMMA FlagStep == TypeOK /\ AdapterInv /\ FlagInv /\ [Next]_vars => FlagInv'
  <1> SUFFICES ASSUME TypeOK, AdapterInv, FlagInv, [Next]_vars PROVE FlagInv'
    OBVIOUS
  <1>n. hear \in Seq(Items) /\ told \in Nat /\ nextTicket \in Nat /\ \A t \in Tickets : t \in Nat
    BY Naturals
  <1>c. ASSUME UNCHANGED <<hear, ended, told, nextTicket>>, abandoned' => abandoned
        PROVE  FlagInv'
    BY <1>c DEF FlagInv, Asked
  <1>1. CASE UNCHANGED vars BY <1>1, <1>c DEF vars, device, kernel, job, page
  <1>2. ASSUME NEW h \in Threads, Say(h) \/ Stop(h) PROVE FlagInv'
    <2>1. UNCHANGED <<hear, ended, told, nextTicket, abandoned>>
      BY <1>2 DEF Say, Stop, device, kernel, job
    <2>2. QED BY <1>c, <2>1
  <1>3. ASSUME NEW h \in Threads, Client(h) PROVE FlagInv'
    <2>1. CASE Tell(h)
      <3>1. UNCHANGED <<hear, ended, nextTicket>> /\ told' = told + 1
        BY <2>1, TellIs DEF device, kernel
      <3>2. told' > 0 BY <1>n, <3>1
      <3>3. QED BY <3>1, <3>2 DEF FlagInv, Asked
    <2>2. CASE GiveUp(h) \/ Post(h)
      <3>1. UNCHANGED <<hear, ended, told, nextTicket, abandoned>>
        BY <2>2, GiveUpIs, PostIs DEF device, kernel, job
      <3>2. QED BY <1>c, <3>1
    <2>3. ASSUME NEW t \in Tickets, Wake(h, t) PROVE FlagInv'
      <3>1. UNCHANGED <<hear, ended, told, nextTicket, abandoned>>
        BY <2>3, WakeIs DEF kernel, job, page
      <3>2. QED BY <1>c, <3>1
    <2>4. QED BY <1>3, <2>1, <2>2, <2>3 DEF Client
  <1>4. ASSUME NEW t \in Tickets, Worker(t) PROVE FlagInv'
    <2>1. UNCHANGED <<hear, ended, told, nextTicket, abandoned>>
      BY <1>4, WorkerIs, MovingIs, WritingIs, EndingIs DEF kernel, job, page
    <2>2. QED BY <1>c, <2>1
  <1>5. CASE DrainOne
    <2> DEFINE i == Head(inbound)
    <2>1. UNCHANGED <<ended, told, nextTicket, abandoned>>
      BY <1>5 DEF DrainOne, device, job, page
    <2>2. hear' = (IF Fits(i) /\ i.to = "hear" THEN Append(hear, i) ELSE hear) /\ inbound # <<>>
      BY <1>5 DEF DrainOne
    <2>3. i \in Items BY <2>2, TailIs, Naturals
    <2> HIDE DEF i
    <2>4. \A k \in 1 .. Len(hear') : hear'[k].to = "hear"
      <3>1. CASE Fits(i) /\ i.to = "hear"
        <4>1. /\ Len(hear') = Len(hear) + 1 /\ hear'[Len(hear) + 1] = i
              /\ \A k \in 1 .. Len(hear) : hear'[k] = hear[k]
          BY <1>n, <2>2, <2>3, <3>1, AppendIs
        <4>2. \A k \in 1 .. Len(hear') : k = Len(hear) + 1 \/ k \in 1 .. Len(hear)
          BY <1>n, <4>1
        <4>3. QED BY <3>1, <4>1, <4>2 DEF FlagInv
      <3>2. CASE ~(Fits(i) /\ i.to = "hear")
        BY <2>2, <3>2 DEF FlagInv
      <3>3. QED BY <3>1, <3>2
    <2>5. QED BY <2>1, <2>4 DEF FlagInv, Asked
  <1>6. CASE DrainDone \/ OtherTick
    <2>1. UNCHANGED <<hear, ended, told, nextTicket, abandoned>>
      BY <1>6 DEF DrainDone, OtherTick, device, job, page
    <2>2. QED BY <1>c, <2>1
  <1>7. CASE DrainAsk
    <2>1. UNCHANGED <<hear, ended, told, abandoned>> /\ nextTicket' = nextTicket + 1
      BY <1>7, AskIs DEF job, page
    <2>2. \A t \in Tickets : Asked(t) => Asked(t)' BY <1>n, <2>1 DEF Asked
    <2>3. QED BY <2>1, <2>2 DEF FlagInv
  <1>8. CASE ReadHear
    <2>1. /\ hear' = <<>> /\ ended' = [ended EXCEPT ![Turn] = @ \cup EndsIn(hear)]
          /\ UNCHANGED <<told, nextTicket, abandoned>>
      BY <1>8 DEF ReadHear, device, page
    <2>2. \A t \in Tickets : t # Turn => ended'[t] = ended[t]
      BY <2>1 DEF TypeOK, JobTypeOK
    <2>3. \A t \in Tickets : ~Asked(t) => t # Turn BY <1>n DEF Asked, Turn
    <2>4. \A t \in Tickets : ~Asked(t)' => ended'[t] = {}
      BY <2>1, <2>2, <2>3 DEF FlagInv, Asked
    <2>5. \A k \in 1 .. Len(hear') : hear'[k].to = "hear" BY <2>1
    <2>6. QED BY <2>1, <2>4, <2>5 DEF FlagInv
  <1>9. CASE Converse /\ ~ReadHear
    <2>1. CASE ReadStdin \/ WriteTopic \/ Spawn \/ WriteAsk \/ WriteReply
      <3>1. UNCHANGED <<hear, ended, told, nextTicket, abandoned>>
        BY <2>1 DEF ReadStdin, WriteTopic, Spawn, WriteAsk, WriteReply, device, page
      <3>2. QED BY <1>c, <3>1
    <2>2. CASE Look
      <3>1. UNCHANGED <<hear, ended, told, nextTicket>> BY <2>2 DEF Look, device, page
      <3>2. abandoned' = (abandoned /\ ~(got.ended \/ abandoned)) BY <2>2 DEF Look
      <3>3. abandoned' => abandoned BY <3>2, Zenon
      <3>4. QED BY <1>c, <3>1, <3>3
    <2>3. QED BY <1>9, <2>1, <2>2 DEF Converse
  <1>10. QED
    BY <1>1, <1>2, <1>3, <1>4, <1>5, <1>6, <1>7, <1>8, <1>9 DEF Next, Kernel

\* Whoever disturbs the conversation leaves it disturbed.
LEMMA StaysDisturbed == TypeOK /\ AdapterInv /\ [Next]_vars /\ Undisturbed' => Undisturbed
  <1> SUFFICES ASSUME TypeOK, AdapterInv, [Next]_vars, Undisturbed' PROVE Undisturbed
    OBVIOUS
  <1>n. told \in Nat BY Naturals
  <1>u. told' = 0 /\ refused' = {} /\ \A h \in Threads : client'[h].at \in {"idle", "posting"}
    BY DEF Undisturbed, NobodyIsStopping
  <1>c. ASSUME UNCHANGED <<told, client>>, refused \subseteq refused' PROVE Undisturbed
    BY <1>c, <1>u DEF Undisturbed, NobodyIsStopping
  <1>h. ASSUME NEW h \in Threads, client[h].at \in {"idle", "posting"}, UNCHANGED <<told, refused>>,
               \A k \in Threads : k # h => client'[k] = client[k]
        PROVE  Undisturbed
    BY <1>h, <1>u DEF Undisturbed, NobodyIsStopping
  <1>1. CASE UNCHANGED vars BY <1>1, <1>c DEF vars, kernel, page
  <1>2. ASSUME NEW h \in Threads, Say(h) PROVE Undisturbed
    BY <1>2, <1>h, SayIs DEF kernel
  <1>3. ASSUME NEW h \in Threads, Stop(h) PROVE Undisturbed
    BY <1>3, <1>h, StopIs DEF kernel
  <1>4. ASSUME NEW h \in Threads, Client(h) PROVE Undisturbed
    <2>1. CASE GiveUp(h)
      <3>1. client'[h].at = "waking" BY <2>1, GiveUpIs
      <3>2. QED BY <1>u, <3>1
    <2>2. ASSUME NEW t \in Tickets, Wake(h, t) PROVE Undisturbed
      BY <2>2, <1>c, WakeIs DEF kernel, page
    <2>3. CASE Tell(h)
      <3>1. told' = told + 1 BY <2>3, TellIs
      <3>2. QED BY <1>n, <1>u, <3>1
    <2>4. CASE Post(h) BY <2>4, <1>h, PostIs DEF kernel
    <2>5. QED BY <1>4, <2>1, <2>2, <2>3, <2>4 DEF Client
  <1>5. ASSUME NEW t \in Tickets, Worker(t) PROVE Undisturbed
    <2>1. UNCHANGED <<told, client, refused>>
      BY <1>5, WorkerIs, MovingIs, WritingIs, EndingIs DEF kernel, page
    <2>2. QED BY <1>c, <2>1
  <1>6. CASE Kernel
    <2>1. UNCHANGED <<told, client>> /\ refused \subseteq refused'
      BY <1>6 DEF Kernel, DrainOne, DrainDone, OtherTick, DrainAsk, Converse, ReadStdin, WriteTopic,
        Spawn, WriteAsk, ReadHear, WriteReply, Look, page
    <2>2. QED BY <1>c, <2>1
  <1>7. QED BY <1>1, <1>2, <1>3, <1>4, <1>5, <1>6 DEF Next

-----------------------------------------------------------------------------
(***************************************************************************)
(* The order of replies in a queue, one item at a time.                    *)
(***************************************************************************)
LEMMA OrderOfAppend ==
  ASSUME NEW items \in Seq(Items), NEW i \in Items, NothingAfterEnd(items),
         i.to = "hear" => \A t : ~Coming(t, items)
  PROVE  /\ NothingAfterEnd(Append(items, i))
         /\ NoReplies(items) /\ i.to # "hear" => NoReplies(Append(items, i))
         /\ \A k \in 1 .. Len(Append(items, i)) :
              Append(items, i)[k] = i \/ \E j \in 1 .. Len(items) : Append(items, i)[k] = items[j]
  <1> DEFINE new == Append(items, i)
             n == Len(items) + 1
  <1>1. /\ Len(items) \in Nat /\ Len(new) = n /\ new[n] = i /\ n \in Nat
        /\ \A k \in 1 .. Len(items) : new[k] = items[k]
        /\ \A k \in 1 .. n : k = n \/ k \in 1 .. Len(items)
        /\ \A k \in 1 .. n : \A j \in k + 1 .. n : j \in 1 .. n /\ k \in 1 .. Len(items)
        /\ \A k \in 1 .. Len(items) : \A j \in k + 1 .. n : j = n \/ (j \in k + 1 .. Len(items) /\ j \in 1 .. Len(items))
    BY AppendIs
  <1> HIDE DEF new, n
  <1>2. NothingAfterEnd(new)
    <2> SUFFICES ASSUME NEW k \in 1 .. n, IsTerminator(new[k]), NEW j \in k + 1 .. n
                 PROVE  new[j].to # "hear"
      BY <1>1 DEF NothingAfterEnd
    <2>1. k \in 1 .. Len(items) /\ new[k] = items[k] BY <1>1
    <2>2. \E t : Coming(t, items) BY <2>1 DEF Coming
    <2>3. CASE j = n BY <1>1, <2>2, <2>3
    <2>4. CASE j # n
      <3>1. j \in k + 1 .. Len(items) /\ new[j] = items[j] BY <1>1, <2>1, <2>4
      <3>2. QED BY <2>1, <3>1 DEF NothingAfterEnd
    <2>5. QED BY <2>3, <2>4
  <1>3. NoReplies(items) /\ i.to # "hear" => NoReplies(new)
    BY <1>1 DEF NoReplies
  <1>4. \A k \in 1 .. Len(new) : new[k] = i \/ \E j \in 1 .. Len(items) : new[k] = items[j]
    BY <1>1
  <1>5. QED BY <1>2, <1>3, <1>4 DEF new

LEMMA OrderOfTail ==
  ASSUME NEW items \in Seq(Items), items # <<>>, NothingAfterEnd(items)
  PROVE  /\ NothingAfterEnd(Tail(items))
         /\ IsTerminator(Head(items)) => NoReplies(Tail(items))
         /\ NoReplies(items) => NoReplies(Tail(items)) /\ Head(items).to # "hear"
         /\ \A k \in 1 .. Len(Tail(items)) : \E j \in 1 .. Len(items) : Tail(items)[k] = items[j]
         /\ \E j \in 1 .. Len(items) : Head(items) = items[j]
  <1> DEFINE rest == Tail(items)
             first == Head(items)
  <1>1. /\ first = items[1] /\ Len(items) >= 1 /\ rest \in Seq(Items) /\ Len(rest) = Len(items) - 1
        /\ 1 \in 1 .. Len(items)
        /\ \A k \in 1 .. Len(rest) : k + 1 \in 1 .. Len(items) /\ rest[k] = items[k + 1]
        /\ \A k \in 1 .. Len(rest) : k + 1 \in 1 + 1 .. Len(items)
        /\ \A k \in 1 .. Len(rest) : \A j \in k + 1 .. Len(rest) :
             j \in 1 .. Len(rest) /\ j + 1 \in (k + 1) + 1 .. Len(items)
    BY TailIs
  <1> HIDE DEF rest, first
  <1>2. NothingAfterEnd(rest)
    <2> SUFFICES ASSUME NEW k \in 1 .. Len(rest), IsTerminator(rest[k]), NEW j \in k + 1 .. Len(rest)
                 PROVE  rest[j].to # "hear"
      BY DEF NothingAfterEnd
    <2>1. /\ k + 1 \in 1 .. Len(items) /\ rest[k] = items[k + 1]
          /\ rest[j] = items[j + 1] /\ j + 1 \in (k + 1) + 1 .. Len(items)
      BY <1>1
    <2> DEFINE x == k + 1
               y == j + 1
    <2>2. x \in 1 .. Len(items) /\ rest[k] = items[x] /\ rest[j] = items[y] /\ y \in x + 1 .. Len(items)
      BY <2>1
    <2> HIDE DEF x, y
    <2>3. QED BY <2>2 DEF NothingAfterEnd
  <1>3. IsTerminator(first) => NoReplies(rest)
    <2> SUFFICES ASSUME IsTerminator(first), NEW k \in 1 .. Len(rest) PROVE rest[k].to # "hear"
      BY DEF NoReplies
    <2> DEFINE x == k + 1
    <2>1. x \in 1 + 1 .. Len(items) /\ rest[k] = items[x] BY <1>1
    <2> HIDE DEF x
    <2>2. QED BY <1>1, <2>1 DEF NothingAfterEnd
  <1>4. NoReplies(items) => NoReplies(rest) /\ first.to # "hear"
    BY <1>1 DEF NoReplies
  <1>5. /\ \A k \in 1 .. Len(rest) : \E j \in 1 .. Len(items) : rest[k] = items[j]
        /\ \E j \in 1 .. Len(items) : first = items[j]
    BY <1>1
  <1>6. QED BY <1>2, <1>3, <1>4, <1>5 DEF rest, first

-----------------------------------------------------------------------------
(***************************************************************************)
(* Nobody disturbs the conversation, and it stays calm.                    *)
(***************************************************************************)
\* A step that moves nothing a turn can see leaves the turns calm.
LEMMA CalmStays ==
  ASSUME Calm, UNCHANGED <<inbound, hear, pc, got, ended, shown, nextTicket, worker>>,
         phase' = "asking" <=> phase = "asking"
  PROVE  Calm'
  <1>1. (Between' <=> Between) /\ (SawEnd' <=> SawEnd) /\ InHand' = InHand /\ Turn' = Turn /\ Requested' = Requested
    BY DEF Between, SawEnd, InHand, Turn, Requested
  <1>2. \A t \in Tickets : Written(t)' = Written(t) BY DEF Written
  <1>3. \A t : Answered(t) => Answered(t)' BY DEF Answered
  <1>4. OneVoice(inbound)' /\ OneVoice(hear)'
    BY <1>1 DEF Calm, OneVoice
  <1>5. NothingAfterEnd(inbound)' /\ NothingAfterEnd(hear)' BY DEF Calm, NothingAfterEnd
  <1>6. /\ NoReplies(inbound)' <=> NoReplies(inbound)
        /\ Coming(Turn, hear)' <=> Coming(Turn, hear)
        /\ Coming(Turn, inbound)' <=> Coming(Turn, inbound)
    BY <1>1 DEF NoReplies, Coming
  <1>7. QED BY <1>1, <1>2, <1>3, <1>4, <1>5, <1>6 DEF Calm, Answered

\* Who still works is the turn's own request, and nothing of it has ended.
LEMMA CalmWorker ==
  ASSUME TypeOK, Calm, NEW u \in Tickets, Asked(u), worker[u] # "returned"
  PROVE  /\ ~Between /\ ~SawEnd /\ u = Turn
         /\ \A t : ~Coming(t, inbound) /\ ~Coming(t, hear)
  <1>1. u \in Requested /\ u \in Nat /\ nextTicket \in Nat /\ u <= nextTicket
    BY Naturals, AdapterAssumption DEF Asked, Requested, Tickets
  <1>2. ~Between /\ ~(u < Turn) BY <1>1 DEF Calm, Answered
  <1>3. u = Turn BY <1>1, <1>2 DEF Turn
  <1>4. ~Coming(Turn, inbound) /\ ~Coming(Turn, hear) /\ ~SawEnd
    BY <1>2, <1>3 DEF Calm, Answered
  <1>5. ASSUME NEW t, Coming(t, inbound) \/ Coming(t, hear) PROVE FALSE
    <2>1. \A i \in Items : IsTerminator(i) => i.to = "hear"
      BY ItemIs DEF IsTerminator, Terminators
    <2>2. inbound \in Seq(Items) /\ hear \in Seq(Items) BY Naturals
    <2>3. t = Turn BY <1>5, <2>1, <2>2 DEF Calm, OneVoice, Coming
    <2>4. QED BY <1>4, <1>5, <2>3
  <1>6. QED BY <1>2, <1>3, <1>4, <1>5

\* The words in hand and the words written are where they were.
LEMMA CalmWords ==
  ASSUME Calm, UNCHANGED <<pc, got, shown, nextTicket>>
  PROVE  /\ \A w \in InHand' : w[1] = Turn'
         /\ \A t \in Tickets : \A w \in Written(t)' : w[1] = t
         /\ Turn' = Turn /\ Requested' = Requested
         /\ SawEnd' <=> SawEnd
  <1>1. InHand' = InHand /\ Turn' = Turn /\ Requested' = Requested /\ (SawEnd' <=> SawEnd)
    BY DEF InHand, Turn, Requested, SawEnd
  <1>2. \A t \in Tickets : Written(t)' = Written(t) BY DEF Written
  <1>3. QED BY <1>1, <1>2 DEF Calm

\* One more item is delivered, a message or a reply for the turn in progress.
LEMMA CalmAppend ==
  ASSUME TypeOK, Calm, NEW i \in Items, inbound' = Append(inbound, i),
         UNCHANGED <<hear, phase, pc, got, ended, shown, nextTicket>>,
         \A t \in Tickets : t # Turn => worker'[t] = worker[t],
         worker[Turn] = "returned" => worker'[Turn] = "returned",
         i.to = "hear" =>
           /\ ~Between /\ ~SawEnd /\ i.of = Turn
           /\ \A t : ~Coming(t, inbound) /\ ~Coming(t, hear),
         IsTerminator(i) => worker'[Turn] = "returned"
  PROVE  Calm'
  <1>n. inbound \in Seq(Items) /\ hear \in Seq(Items) /\ nextTicket \in Nat /\ \A t \in Tickets : t \in Nat
    BY Naturals
  <1>1. Between' <=> Between BY DEF Between
  <1>2. /\ (SawEnd' <=> SawEnd) /\ Turn' = Turn /\ Requested' = Requested
        /\ \A w \in InHand' : w[1] = Turn'
        /\ \A t \in Tickets : \A w \in Written(t)' : w[1] = t
    BY CalmWords
  <1>3. IsTerminator(i) => i.to = "hear" BY ItemIs DEF IsTerminator, Terminators
  <1>4. /\ NothingAfterEnd(Append(inbound, i))
        /\ NoReplies(inbound) /\ i.to # "hear" => NoReplies(Append(inbound, i))
        /\ \A k \in 1 .. Len(Append(inbound, i)) :
             Append(inbound, i)[k] = i \/ \E j \in 1 .. Len(inbound) : Append(inbound, i)[k] = inbound[j]
        /\ \A t : Coming(t, Append(inbound, i)) <=> Coming(t, inbound) \/ IsEndOf(i, t)
    <2>1. NothingAfterEnd(inbound) BY DEF Calm
    <2>2. QED BY <1>n, <2>1, OrderOfAppend, AppendIs
  <1>5. OneVoice(inbound)'
    <2>1. OneVoice(inbound) BY DEF Calm
    <2>2. QED BY <1>1, <1>2, <1>4, <2>1 DEF OneVoice
  <1>6. OneVoice(hear)' /\ NothingAfterEnd(hear)' /\ NothingAfterEnd(inbound)'
    <2>1. OneVoice(hear)' BY <1>1, <1>2 DEF Calm, OneVoice
    <2>2. NothingAfterEnd(hear)' /\ NothingAfterEnd(inbound)' BY <1>4 DEF Calm, NothingAfterEnd
    <2>3. QED BY <2>1, <2>2
  <1>7. /\ Coming(Turn, hear)' <=> Coming(Turn, hear)
        /\ Coming(Turn, inbound)' <=> Coming(Turn, inbound) \/ IsEndOf(i, Turn)
    BY <1>2, <1>4 DEF Coming
  <1>8. Coming(Turn, hear)' => NoReplies(inbound)'
    <2>1. Coming(Turn, hear) => NoReplies(inbound) /\ i.to # "hear" BY DEF Calm
    <2>2. Coming(Turn, hear) => NoReplies(Append(inbound, i)) BY <1>4, <2>1
    <2>3. QED BY <1>7, <2>2 DEF NoReplies
  <1>9. (Coming(Turn, inbound) \/ Coming(Turn, hear) => worker[Turn] = "returned")'
    BY <1>2, <1>7 DEF Calm, IsEndOf
  <1>10. \A t \in Requested : Answered(t) => Answered(t)'
    <2>1. ASSUME NEW t \in Requested PROVE t \in Tickets
      <3>1. nextTicket \in 0 .. MaxAsks /\ MaxAsks \in Nat BY AdapterAssumption DEF TypeOK, AdapterTypeOK
      <3>2. QED BY <3>1 DEF Requested, Tickets
    <2>2. QED BY <2>1 DEF Answered
  <1>11. ~Between /\ SawEnd => NoReplies(inbound)'
    <2>1. ~Between /\ SawEnd => NoReplies(inbound) /\ i.to # "hear" BY DEF Calm
    <2>2. QED BY <1>4, <2>1 DEF NoReplies
  <1>12. (\A t \in Requested : Between \/ t < Turn => Answered(t))'
    <2>1. \A t \in Requested : Between \/ t < Turn => Answered(t) BY DEF Calm
    <2>2. \A t \in Requested' : Between' \/ t < Turn' => Answered(t)' BY <1>1, <1>2, <1>10, <2>1
    <2>3. QED BY <2>2 DEF Answered
  <1>13. (~Between => Turn \in Requested)' BY <1>1, <1>2 DEF Calm
  <1>14. (~Between /\ SawEnd => Answered(Turn) /\ hear = <<>> /\ NoReplies(inbound))'
    <2>1. ~Between /\ SawEnd => Answered(Turn)' /\ hear' = <<>>
      <3>1. ~Between /\ SawEnd => Turn \in Requested /\ Answered(Turn) /\ hear = <<>> BY DEF Calm
      <3>2. QED BY <1>2, <1>10, <3>1 DEF Answered
    <2>2. QED BY <1>1, <1>2, <1>11, <2>1
  <1>15. (~Between /\ ~SawEnd => ended[Turn] = {})' BY <1>1, <1>2 DEF Calm
  <1>16. QED BY <1>2, <1>5, <1>6, <1>8, <1>9, <1>12, <1>13, <1>14, <1>15 DEF Calm

LEMMA CalmStep ==
  /\ TypeOK /\ AdapterInv /\ MessageInv /\ DeafInv /\ FlagInv /\ CalmInv
  /\ [Next]_vars
  => CalmInv'
  <1> SUFFICES ASSUME TypeOK, AdapterInv, MessageInv, DeafInv, FlagInv, CalmInv, [Next]_vars,
                      Undisturbed'
               PROVE  Calm'
    BY DEF CalmInv
  <1>n. /\ inbound \in Seq(Items) /\ hear \in Seq(Items) /\ nextTicket \in Nat
        /\ \A t \in Tickets : t \in Nat /\ t # 0
    BY Naturals
  <1>u. Undisturbed /\ Calm BY StaysDisturbed DEF CalmInv
  <1>v. told' = 0 /\ refused' = {} /\ \A h \in Threads : client'[h].at \in {"idle", "posting"}
    BY DEF Undisturbed, NobodyIsStopping
  <1>w. told = 0 /\ \A h \in Threads : client[h].at # "waking" /\ dropped[h] = {}
    BY <1>u DEF Undisturbed, NobodyIsStopping, MessageInv
  <1>1. CASE UNCHANGED vars
    BY <1>1, <1>u, CalmStays DEF vars, device, kernel, job
  <1>2. ASSUME NEW h \in Threads, Say(h) \/ Stop(h) PROVE Calm'
    <2>1. UNCHANGED <<inbound, hear, pc, got, ended, shown, nextTicket, worker, phase>>
      BY <1>2 DEF Say, Stop, device, kernel, job
    <2>2. QED BY <1>u, <2>1, CalmStays
  <1>3. ASSUME NEW h \in Threads, GiveUp(h) PROVE Calm'
    <2>1. client'[h].at = "waking" BY <1>3, GiveUpIs
    <2>2. QED BY <1>v, <2>1
  <1>4. ASSUME NEW h \in Threads, NEW t \in Tickets, Wake(h, t) PROVE Calm'
    <2>1. t \in dropped[h] BY <1>4, WakeIs
    <2>2. QED BY <1>w, <2>1
  <1>5. ASSUME NEW h \in Threads, Tell(h) PROVE Calm'
    <2>1. client[h].at = "waking" BY <1>5, TellIs
    <2>2. QED BY <1>w, <2>1
  <1>6. ASSUME NEW h \in Threads, Post(h) PROVE Calm'
    <2> DEFINE i == Message(client[h].msg)
    <2>1. /\ inbound' = Append(inbound, i) /\ client[h].msg \in Messages
          /\ UNCHANGED <<hear, phase, pc, got, ended, shown, nextTicket, worker>>
      BY <1>6, PostIs DEF device, kernel, job
    <2>2. i \in Items /\ i.to # "hear" /\ ~IsTerminator(i)
      BY <2>1, MessageIs
    <2> HIDE DEF i
    <2>3. QED BY <1>u, <2>1, <2>2, CalmAppend
  <1>7. ASSUME NEW u \in Tickets, Worker(u) PROVE Calm'
    <2>1. CASE Moving(u)
      <3>1. /\ Asked(u) /\ worker[u] \in Live
            /\ \A t \in Tickets : t # u => worker'[t] = worker[t]
            /\ UNCHANGED <<inbound, hear, phase, pc, got, ended, shown, nextTicket>>
        BY <1>7, <2>1, MovingIs DEF kernel, job
      <3>2. /\ ~Between /\ ~SawEnd /\ u = Turn
            /\ \A t : ~Coming(t, inbound) /\ ~Coming(t, hear)
        BY <1>u, <3>1, CalmWorker DEF Live
      <3>3. /\ \A w \in InHand' : w[1] = Turn'
            /\ \A t \in Tickets : \A w \in Written(t)' : w[1] = t
            /\ Turn' = Turn /\ Requested' = Requested /\ (SawEnd' <=> SawEnd)
        BY <1>u, <3>1, CalmWords
      <3>4. ~Between' BY <3>1, <3>2 DEF Between
      <3>5. /\ OneVoice(inbound)' /\ OneVoice(hear)'
            /\ NothingAfterEnd(inbound)' /\ NothingAfterEnd(hear)'
            /\ ~Coming(Turn, inbound)' /\ ~Coming(Turn, hear)'
        <4>1. OneVoice(inbound)' /\ OneVoice(hear)' BY <1>u, <3>1, <3>3, <3>4 DEF Calm, OneVoice
        <4>2. NothingAfterEnd(inbound)' /\ NothingAfterEnd(hear)' BY <1>u, <3>1 DEF Calm, NothingAfterEnd
        <4>3. ~Coming(Turn, inbound)' /\ ~Coming(Turn, hear)' BY <3>1, <3>2, <3>3 DEF Coming
        <4>4. QED BY <4>1, <4>2, <4>3
      <3>6. \A t \in Requested : t < Turn => Answered(t)'
        <4>1. \A t \in Requested : t < Turn => Answered(t) /\ t \in Tickets /\ t # u
          <5>1. \A t \in Requested : t < Turn => Answered(t) /\ t # u BY <1>n, <1>u, <3>2 DEF Calm, Requested, Turn
          <5>2. nextTicket \in 0 .. MaxAsks /\ MaxAsks \in Nat BY AdapterAssumption DEF TypeOK, AdapterTypeOK
          <5>3. \A t \in Requested : t \in Tickets BY <5>2 DEF Requested, Tickets
          <5>4. QED BY <5>1, <5>3
        <4>2. QED BY <3>1, <4>1 DEF Answered
      <3>7. Turn \in Requested /\ ended'[Turn] = {} BY <1>u, <3>1, <3>2 DEF Calm
      <3>8. (\A t \in Requested : Between \/ t < Turn => Answered(t))'
        BY <3>3, <3>4, <3>6 DEF Answered
      <3>9. QED BY <3>2, <3>3, <3>4, <3>5, <3>7, <3>8 DEF Calm
    <2>2. CASE Writing(u)
      <3> DEFINE i == Reply(u, "piece")
      <3>1. /\ Asked(u) /\ worker[u] \in {"holding", "explaining"}
            /\ \A t \in Tickets : t # u => worker'[t] = worker[t]
            /\ inbound' = Append(inbound, i)
            /\ UNCHANGED <<hear, phase, pc, got, ended, shown, nextTicket>>
        BY <1>7, <2>2, WritingIs DEF kernel, job
      <3>2. i \in Items /\ i.of = u /\ ~IsTerminator(i)
        BY ReplyIs DEF TypeOK, AdapterTypeOK, Kinds, IsTerminator, Terminators
      <3> HIDE DEF i
      <3>3. /\ ~Between /\ ~SawEnd /\ u = Turn
            /\ \A t : ~Coming(t, inbound) /\ ~Coming(t, hear)
        BY <1>u, <3>1, CalmWorker
      <3>4. QED BY <1>u, <3>1, <3>2, <3>3, CalmAppend
    <2>3. CASE DeliverEnd(u)
      <3> DEFINE i == Reply(u, "END")
      <3>1. /\ Asked(u) /\ worker[u] = "ending" /\ worker'[u] = "returned"
            /\ \A t \in Tickets : t # u => worker'[t] = worker[t]
            /\ inbound' = Append(inbound, i)
            /\ UNCHANGED <<hear, phase, pc, got, ended, shown, nextTicket>>
        BY <1>7, <2>3, EndingIs DEF kernel, job
      <3>2. i \in Items /\ i.of = u
        BY ReplyIs DEF TypeOK, AdapterTypeOK, Kinds
      <3> HIDE DEF i
      <3>3. /\ ~Between /\ ~SawEnd /\ u = Turn
            /\ \A t : ~Coming(t, inbound) /\ ~Coming(t, hear)
        BY <1>u, <3>1, CalmWorker
      <3>4. QED BY <1>u, <3>1, <3>2, <3>3, CalmAppend
    <2>4. QED BY <1>7, <2>1, <2>2, <2>3, WorkerIs
  <1>8. CASE DrainOne
    <2> DEFINE i == Head(inbound)
    <2>1. /\ inbound' = Tail(inbound) /\ inbound # <<>>
          /\ UNCHANGED <<phase, pc, got, ended, shown, nextTicket, worker>>
      BY <1>8 DEF DrainOne, device, job
    <2>2. hear' = IF i.to = "hear" THEN Append(hear, i) ELSE hear
      <3>1. /\ hear' = IF Fits(i) /\ i.to = "hear" THEN Append(hear, i) ELSE hear
            /\ refused' = IF Fits(i) THEN refused ELSE refused \cup {i}
        BY <1>8 DEF DrainOne
      <3>2. Fits(i) BY <1>v, <3>1
      <3>3. QED BY <3>1, <3>2
    <2>3. i \in Items /\ \A t : Coming(t, inbound) <=> Coming(t, inbound') \/ IsEndOf(i, t)
      BY <1>n, <2>1, TailIs
    <2>4. /\ NothingAfterEnd(inbound') /\ (IsTerminator(i) => NoReplies(inbound'))
          /\ NoReplies(inbound) => NoReplies(inbound') /\ i.to # "hear"
          /\ \A k \in 1 .. Len(inbound') : \E j \in 1 .. Len(inbound) : inbound'[k] = inbound[j]
          /\ \E j \in 1 .. Len(inbound) : i = inbound[j]
      <3>1. NothingAfterEnd(inbound) BY <1>u DEF Calm
      <3>2. QED BY <1>n, <2>1, <3>1, OrderOfTail
    <2>5. IsTerminator(i) => i.to = "hear" BY <2>3, ItemIs DEF IsTerminator, Terminators
    <2> HIDE DEF i
    <2>6. /\ \A w \in InHand' : w[1] = Turn'
          /\ \A t \in Tickets : \A w \in Written(t)' : w[1] = t
          /\ Turn' = Turn /\ Requested' = Requested /\ (SawEnd' <=> SawEnd) /\ (Between' <=> Between)
      <3>1. Between' <=> Between BY <2>1 DEF Between
      <3>2. QED BY <1>u, <2>1, <3>1, CalmWords
    <2>7. i.to = "hear" => ~Between /\ i.of = Turn
      BY <1>u, <2>4 DEF Calm, OneVoice
    <2>8. i.to = "hear" => ~SawEnd /\ \A t : ~Coming(t, hear)
      <3>1. i.to = "hear" => ~NoReplies(inbound) BY <2>4
      <3>2. i.to = "hear" => ~SawEnd /\ ~Coming(Turn, hear) BY <1>u, <2>7, <3>1 DEF Calm
      <3>3. \A t : Coming(t, hear) => t = Turn
        <4>1. \A x \in Items : IsTerminator(x) => x.to = "hear"
          BY ItemIs DEF IsTerminator, Terminators
        <4>2. QED BY <1>n, <1>u, <4>1 DEF Calm, OneVoice, Coming
      <3>4. QED BY <3>2, <3>3
    <2>9. OneVoice(inbound)'
      <3>1. OneVoice(inbound) BY <1>u DEF Calm
      <3>2. QED BY <2>4, <2>6, <3>1 DEF OneVoice
    <2>10. /\ OneVoice(hear)' /\ NothingAfterEnd(hear)'
           /\ Coming(Turn, hear') => Coming(Turn, hear) \/ (IsEndOf(i, Turn) /\ NoReplies(inbound'))
      <3>1. CASE i.to = "hear"
        <4>1. NothingAfterEnd(hear) /\ OneVoice(hear) BY <1>u DEF Calm
        <4>2. hear' = Append(hear, i) BY <2>2, <3>1
        <4>3. /\ NothingAfterEnd(hear')
              /\ \A k \in 1 .. Len(hear') : hear'[k] = i \/ \E j \in 1 .. Len(hear) : hear'[k] = hear[j]
              /\ Coming(Turn, hear') <=> Coming(Turn, hear) \/ IsEndOf(i, Turn)
          BY <1>n, <2>3, <2>8, <3>1, <4>1, <4>2, OrderOfAppend, AppendIs
        <4>4. OneVoice(hear)' BY <2>6, <2>7, <3>1, <4>1, <4>3 DEF OneVoice
        <4>5. NothingAfterEnd(hear)' BY <4>3 DEF NothingAfterEnd
        <4>6. QED BY <2>4, <4>3, <4>4, <4>5 DEF IsEndOf
      <3>2. CASE i.to # "hear"
        <4>1. hear' = hear BY <2>2, <3>2
        <4>2. OneVoice(hear)' /\ NothingAfterEnd(hear)'
          BY <1>u, <2>6, <4>1 DEF Calm, OneVoice, NothingAfterEnd
        <4>3. QED BY <4>1, <4>2
      <3>3. QED BY <3>1, <3>2
    <2>11. NothingAfterEnd(inbound)' BY <2>4 DEF NothingAfterEnd
    <2>12. (Coming(Turn, inbound) \/ Coming(Turn, hear) => worker[Turn] = "returned")'
      <3>1. Coming(Turn, inbound') \/ Coming(Turn, hear') => worker[Turn] = "returned"
        BY <1>u, <2>3, <2>10 DEF Calm
      <3>2. QED BY <2>1, <2>6, <3>1 DEF Coming
    <2>13. (Coming(Turn, hear) => NoReplies(inbound))'
      <3>1. Coming(Turn, hear') => NoReplies(inbound')
        BY <1>u, <2>4, <2>10 DEF Calm
      <3>2. QED BY <2>6, <3>1 DEF Coming, NoReplies
    <2>14. (\A t \in Requested : Between \/ t < Turn => Answered(t))'
      <3>1. \A t : Answered(t) => Answered(t)' BY <2>1 DEF Answered
      <3>2. \A t \in Requested : Between \/ t < Turn => Answered(t)' BY <1>u, <3>1 DEF Calm
      <3>3. QED BY <2>6, <3>2 DEF Answered
    <2>15. (~Between => Turn \in Requested)' /\ (~Between /\ ~SawEnd => ended[Turn] = {})'
      BY <1>u, <2>1, <2>6 DEF Calm
    <2>16. (~Between /\ SawEnd => Answered(Turn) /\ hear = <<>> /\ NoReplies(inbound))'
      <3>1. ~Between /\ SawEnd => Answered(Turn) /\ hear = <<>> /\ NoReplies(inbound) BY <1>u DEF Calm
      <3>2. ~Between /\ SawEnd => NoReplies(inbound') /\ hear' = <<>> BY <2>2, <2>4, <3>1
      <3>3. Answered(Turn) => Answered(Turn)' BY <2>1, <2>6 DEF Answered
      <3>4. NoReplies(inbound') <=> NoReplies(inbound)' BY DEF NoReplies
      <3>5. QED BY <2>6, <3>1, <3>2, <3>3, <3>4
    <2>17. QED BY <2>6, <2>9, <2>10, <2>11, <2>12, <2>13, <2>14, <2>15, <2>16 DEF Calm
  <1>9. CASE DrainDone \/ OtherTick
    <2>1. /\ UNCHANGED <<inbound, hear, pc, got, ended, shown, nextTicket, worker>>
          /\ phase # "asking" /\ phase' # "asking"
      BY <1>9 DEF DrainDone, OtherTick, device, job
    <2>2. QED BY <1>u, <2>1, CalmStays
  <1>10. CASE DrainAsk
    <2>1. /\ phase = "asking" /\ phase' = "drain" /\ nextTicket' = nextTicket + 1 /\ nextTicket' \in Tickets
          /\ ~Asked(nextTicket')
          /\ \A t \in Tickets : t # nextTicket' => worker'[t] = worker[t]
          /\ UNCHANGED <<inbound, hear, pc, got, ended, shown>>
      BY <1>10, AskIs DEF job
    <2>2. pc = "hearing" /\ Between BY <2>1 DEF DeafInv, Between
    <2>3. ~Between' /\ ~SawEnd' /\ InHand' = {} BY <2>1, <2>2 DEF Between, SawEnd, InHand
    <2>4. NoReplies(inbound) /\ NoReplies(hear) BY <1>u, <2>2 DEF Calm, OneVoice, NoReplies
    <2>5. \A t : ~Coming(t, inbound) /\ ~Coming(t, hear)
      <3>1. \A i \in Items : IsTerminator(i) => i.to = "hear"
        BY ItemIs DEF IsTerminator, Terminators
      <3>2. QED BY <1>n, <2>4, <3>1 DEF NoReplies, Coming
    <2>6. OneVoice(inbound)' /\ OneVoice(hear)' BY <2>1, <2>4 DEF OneVoice, NoReplies
    <2>7. NothingAfterEnd(inbound)' /\ NothingAfterEnd(hear)'
      BY <1>u, <2>1 DEF Calm, NothingAfterEnd
    <2>8. ~Coming(Turn, inbound)' /\ ~Coming(Turn, hear)' BY <2>1, <2>5 DEF Coming
    <2>9. (\A t \in Requested : Between \/ t < Turn => Answered(t))'
      <3>1. \A t \in Requested' : t < Turn' => t \in Requested /\ t # nextTicket' /\ t \in Tickets
        BY <1>n, <2>1, AdapterAssumption DEF Requested, Turn, Tickets
      <3>2. \A t \in Requested : Answered(t) BY <1>u, <2>2 DEF Calm
      <3>3. \A t \in Requested' : t < Turn' => Answered(t)' BY <2>1, <3>1, <3>2 DEF Answered
      <3>4. QED BY <2>3, <3>3 DEF Answered
    <2>10. Turn' \in Requested' BY <1>n, <2>1 DEF Turn, Requested
    <2>11. ended'[Turn'] = {} BY <2>1 DEF FlagInv, Turn
    <2>12. \A t \in Tickets : \A w \in Written(t)' : w[1] = t
      <3>1. \A t \in Tickets : Written(t)' = Written(t) BY <2>1 DEF Written
      <3>2. QED BY <1>u, <3>1 DEF Calm
    <2>13. QED BY <2>3, <2>6, <2>7, <2>8, <2>9, <2>10, <2>11, <2>12 DEF Calm
  <1>11. CASE ReadStdin \/ WriteTopic \/ Spawn \/ WriteAsk
    <2>1. /\ Between /\ Between' /\ InHand' = {}
          /\ UNCHANGED <<inbound, hear, ended, shown, nextTicket, worker>>
      BY <1>11 DEF ReadStdin, WriteTopic, Spawn, WriteAsk, Command, Between, InHand, device
    <2>2. Turn' = Turn /\ Requested' = Requested BY <2>1 DEF Turn, Requested
    <2>3. OneVoice(inbound)' /\ OneVoice(hear)' BY <1>u, <2>1, <2>2 DEF Calm, OneVoice
    <2>4. NothingAfterEnd(inbound)' /\ NothingAfterEnd(hear)' BY <1>u, <2>1 DEF Calm, NothingAfterEnd
    <2>5. /\ (Coming(Turn, inbound) \/ Coming(Turn, hear) => worker[Turn] = "returned")'
          /\ (Coming(Turn, hear) => NoReplies(inbound))'
      BY <1>u, <2>1, <2>2 DEF Calm, Coming, NoReplies
    <2>6. (\A t \in Requested : Between \/ t < Turn => Answered(t))'
      BY <1>u, <2>1, <2>2 DEF Calm, Answered
    <2>7. \A t \in Tickets : \A w \in Written(t)' : w[1] = t
      <3>1. \A t \in Tickets : Written(t)' = Written(t) BY <2>1 DEF Written
      <3>2. QED BY <1>u, <3>1 DEF Calm
    <2>8. QED BY <2>1, <2>3, <2>4, <2>5, <2>6, <2>7 DEF Calm
  <1>12. CASE ReadHear
    <2>1. /\ phase = "tick" /\ pc = "hearing" /\ phase' = "drain" /\ pc' = "heard"
          /\ got'.words = WordsIn(hear) /\ got'.ended = (EndsIn(hear) # {})
          /\ hear' = <<>> /\ hear # <<>>
          /\ UNCHANGED <<inbound, shown, nextTicket, worker>>
      BY <1>12 DEF ReadHear, Command, StreamPiece, device
    <2>2. ended' = [ended EXCEPT ![Turn] = @ \cup EndsIn(hear)] BY <1>12 DEF ReadHear
    <2>3. ~Between /\ ~SawEnd /\ ~Between' /\ (SawEnd' <=> EndsIn(hear) # {}) /\ InHand' = WordsIn(hear)
      <3>1. ~Between /\ ~SawEnd /\ ~Between' /\ InHand' = WordsIn(hear) BY <2>1 DEF Between, SawEnd, InHand
      <3>2. SawEnd' <=> EndsIn(hear) # {} BY <2>1 DEF SawEnd
      <3>3. QED BY <3>1, <3>2
    <2>4. Turn' = Turn /\ Requested' = Requested /\ Turn \in Requested /\ Turn \in Tickets /\ ended[Turn] = {}
      <3>1. Turn' = Turn /\ Requested' = Requested BY <2>1 DEF Turn, Requested
      <3>2. Turn \in Requested /\ ended[Turn] = {} BY <1>u, <2>3 DEF Calm
      <3>3. nextTicket \in 0 .. MaxAsks /\ MaxAsks \in Nat BY AdapterAssumption DEF TypeOK, AdapterTypeOK
      <3>4. Turn \in Tickets BY <3>2, <3>3 DEF Requested, Tickets
      <3>5. QED BY <3>1, <3>2, <3>4
    <2>5. ended'[Turn] = EndsIn(hear) /\ \A t \in Tickets : t # Turn => ended'[t] = ended[t]
      BY <2>2, <2>4 DEF TypeOK, JobTypeOK
    <2>6. (\A t : ~Coming(t, hear)') /\ OneVoice(hear)' /\ NothingAfterEnd(hear)'
      BY <2>1 DEF Coming, OneVoice, NothingAfterEnd
    <2>7. OneVoice(inbound)' /\ NothingAfterEnd(inbound)'
      <3>1. OneVoice(inbound)' BY <1>u, <2>1, <2>3, <2>4 DEF Calm, OneVoice
      <3>2. NothingAfterEnd(inbound)' BY <1>u, <2>1 DEF Calm, NothingAfterEnd
      <3>3. QED BY <3>1, <3>2
    <2>8. (Coming(Turn, inbound) => worker[Turn] = "returned")'
      BY <1>u, <2>1, <2>4 DEF Calm, Coming
    <2>9. EndsIn(hear) # {} => EndsIn(hear) = {Turn} /\ Coming(Turn, hear)
      <3>1. \A i \in Items : IsTerminator(i) => i.to = "hear"
        BY ItemIs DEF IsTerminator, Terminators
      <3>2. \A k \in 1 .. Len(hear) : IsTerminator(hear[k]) => hear[k].of = Turn
        BY <1>n, <1>u, <3>1 DEF Calm, OneVoice
      <3>3. QED BY <3>2 DEF EndsIn, Coming
    <2>10. (~Between /\ SawEnd => Answered(Turn) /\ hear = <<>> /\ NoReplies(inbound))'
      <3>1. EndsIn(hear) # {} => worker[Turn] = "returned" /\ NoReplies(inbound)
        BY <1>u, <2>9 DEF Calm
      <3>2. NoReplies(inbound)' <=> NoReplies(inbound) BY <2>1 DEF NoReplies
      <3>3. EndsIn(hear) # {} => Answered(Turn)' BY <2>1, <2>4, <2>5, <2>9, <3>1 DEF Answered
      <3>4. QED BY <2>1, <2>3, <3>1, <3>2, <3>3
    <2>11. (~Between /\ ~SawEnd => ended[Turn] = {})' BY <2>3, <2>4, <2>5
    <2>12. (\A t \in Requested : Between \/ t < Turn => Answered(t))'
      <3>1. \A t \in Requested : t < Turn => Answered(t) /\ t # Turn /\ t \in Tickets
        <4>1. nextTicket \in 0 .. MaxAsks /\ MaxAsks \in Nat BY AdapterAssumption DEF TypeOK, AdapterTypeOK
        <4>2. \A t \in Requested : t \in Tickets BY <4>1 DEF Requested, Tickets
        <4>3. QED BY <1>n, <1>u, <4>2 DEF Calm, Requested, Turn
      <3>2. \A t \in Requested : t < Turn => Answered(t)' BY <2>1, <2>5, <3>1 DEF Answered
      <3>3. QED BY <2>3, <2>4, <3>2 DEF Answered
    <2>13. \A w \in InHand' : w[1] = Turn'
      <3>1. \A i \in Items : IsPiece(i) => i.to = "hear" BY ItemIs DEF IsPiece
      <3>2. \A k \in 1 .. Len(hear) : IsPiece(hear[k]) => hear[k].of = Turn
        BY <1>n, <1>u, <3>1 DEF Calm, OneVoice
      <3>3. \A w \in WordsIn(hear) : w[1] = Turn BY <3>2 DEF WordsIn, Word
      <3>4. QED BY <2>3, <2>4, <3>3
    <2>14. \A t \in Tickets : \A w \in Written(t)' : w[1] = t
      <3>1. \A t \in Tickets : Written(t)' = Written(t) BY <2>1 DEF Written
      <3>2. QED BY <1>u, <3>1 DEF Calm
    <2>15. (Coming(Turn, hear) => NoReplies(inbound))' /\ (Coming(Turn, inbound) \/ Coming(Turn, hear) => worker[Turn] = "returned")'
      <3>1. ~Coming(Turn, hear)' BY <2>1 DEF Coming
      <3>2. QED BY <2>8, <3>1
    <2>16. QED
      BY <2>4, <2>6, <2>7, <2>10, <2>11, <2>12, <2>13, <2>14, <2>15 DEF Calm
  <1>13. CASE WriteReply
    <2>1. /\ phase = "tick" /\ pc = "heard" /\ phase' = "drain" /\ pc' = "written"
          /\ shown' = [shown EXCEPT ![Turn] = Append(@, got.words)]
          /\ UNCHANGED <<inbound, hear, got, ended, nextTicket, worker>>
      BY <1>13 DEF WriteReply, Command, device
    <2>2. /\ ~Between /\ ~Between' /\ (SawEnd' <=> SawEnd)
          /\ InHand = got.words /\ InHand' = {}
          /\ Turn' = Turn /\ Requested' = Requested
      BY <2>1 DEF Between, SawEnd, InHand, Turn, Requested
    <2>3. OneVoice(inbound)' /\ OneVoice(hear)' BY <1>u, <2>1, <2>2 DEF Calm, OneVoice
    <2>4. NothingAfterEnd(inbound)' /\ NothingAfterEnd(hear)' BY <1>u, <2>1 DEF Calm, NothingAfterEnd
    <2>5. /\ (Coming(Turn, inbound) \/ Coming(Turn, hear) => worker[Turn] = "returned")'
          /\ (Coming(Turn, hear) => NoReplies(inbound))'
          /\ NoReplies(inbound)' <=> NoReplies(inbound)
      BY <1>u, <2>1, <2>2 DEF Calm, Coming, NoReplies
    <2>6. \A t : Answered(t) <=> Answered(t)' BY <2>1 DEF Answered
    <2>7. (\A t \in Requested : Between \/ t < Turn => Answered(t))'
      BY <1>u, <2>2, <2>6 DEF Calm, Answered
    <2>8. /\ (~Between => Turn \in Requested)' /\ (~Between /\ ~SawEnd => ended[Turn] = {})'
          /\ (~Between /\ SawEnd => Answered(Turn) /\ hear = <<>> /\ NoReplies(inbound))'
      BY <1>u, <2>1, <2>2, <2>5, <2>6 DEF Calm, Answered
    <2>9. ASSUME NEW t \in Tickets, NEW w \in Written(t)' PROVE w[1] = t
      <3> DEFINE S == SUBSET Words
      <3>1. shown \in [Tickets -> Seq(S)] /\ got.words \in S BY DEF TypeOK, JobTypeOK
      <3> HIDE DEF S
      <3>2. PICK k \in 1 .. Len(shown'[t]) : w \in shown'[t][k] BY <2>9 DEF Written
      <3>3. (shown'[t][k] = got.words /\ t = Turn) \/ (k \in 1 .. Len(shown[t]) /\ shown'[t][k] = shown[t][k])
        <4>1. CASE t # Turn BY <2>1, <3>1, <4>1
        <4>2. CASE t = Turn
          <5>1. shown'[t] = Append(shown[t], got.words) /\ shown[t] \in Seq(S) BY <2>1, <3>1, <4>2
          <5>2. QED BY <3>1, <4>2, <5>1
        <4>3. QED BY <4>1, <4>2
      <3>4. CASE shown'[t][k] = got.words /\ t = Turn BY <1>u, <2>2, <3>2, <3>4 DEF Calm
      <3>5. CASE k \in 1 .. Len(shown[t]) /\ shown'[t][k] = shown[t][k]
        <4>1. w \in Written(t) BY <3>2, <3>5 DEF Written
        <4>2. QED BY <1>u, <4>1 DEF Calm
      <3>6. QED BY <3>3, <3>4, <3>5
    <2>10. QED BY <2>2, <2>3, <2>4, <2>5, <2>7, <2>8, <2>9 DEF Calm
  <1>14. CASE Look
    <2>1. /\ phase = "tick" /\ pc \in {"heard", "written"} /\ phase' = "drain"
          /\ got'= Nothing
          /\ UNCHANGED <<inbound, hear, shown, ended, nextTicket, worker>>
      BY <1>14 DEF Look, Quiet, device
    <2>2. pc' = IF got.ended THEN "listening" ELSE "hearing"
      <3>1. ~abandoned BY <1>w DEF FlagInv
      <3>2. pc' = IF got.ended \/ abandoned THEN "listening" ELSE "hearing" BY <1>14 DEF Look
      <3>3. QED BY <3>1, <3>2
    <2>3. /\ ~Between /\ (SawEnd <=> got.ended)
          /\ InHand' = {} /\ ~SawEnd' /\ (Between' <=> got.ended)
          /\ Turn' = Turn /\ Requested' = Requested
      BY <2>1, <2>2 DEF Between, SawEnd, InHand, Turn, Requested
    <2>4. OneVoice(inbound)' /\ OneVoice(hear)'
      <3>1. CASE got.ended
        <4>1. hear = <<>> /\ NoReplies(inbound) BY <1>u, <2>3, <3>1 DEF Calm
        <4>2. QED BY <2>1, <4>1 DEF OneVoice, NoReplies
      <3>2. CASE ~got.ended BY <1>u, <2>1, <2>3, <3>2 DEF Calm, OneVoice
      <3>3. QED BY <3>1, <3>2
    <2>5. NothingAfterEnd(inbound)' /\ NothingAfterEnd(hear)' BY <1>u, <2>1 DEF Calm, NothingAfterEnd
    <2>6. /\ (Coming(Turn, inbound) \/ Coming(Turn, hear) => worker[Turn] = "returned")'
          /\ (Coming(Turn, hear) => NoReplies(inbound))'
      BY <1>u, <2>1, <2>3 DEF Calm, Coming, NoReplies
    <2>7. \A t : Answered(t) => Answered(t)' BY <2>1 DEF Answered
    <2>8. (\A t \in Requested : Between \/ t < Turn => Answered(t))'
      <3>1. \A t \in Requested : t < Turn \/ (t = Turn) BY <1>n DEF Requested, Turn
      <3>2. got.ended => Answered(Turn) BY <1>u, <2>3 DEF Calm
      <3>3. \A t \in Requested : got.ended \/ t < Turn => Answered(t) BY <1>u, <3>1, <3>2 DEF Calm
      <3>4. QED BY <2>3, <2>7, <3>3 DEF Answered
    <2>9. (~Between => Turn \in Requested)' /\ (~Between /\ ~SawEnd => ended[Turn] = {})'
      BY <1>u, <2>1, <2>3 DEF Calm
    <2>10. \A t \in Tickets : \A w \in Written(t)' : w[1] = t
      <3>1. \A t \in Tickets : Written(t)' = Written(t) BY <2>1 DEF Written
      <3>2. QED BY <1>u, <3>1 DEF Calm
    <2>11. QED BY <2>3, <2>4, <2>5, <2>6, <2>8, <2>9, <2>10 DEF Calm
  <1>15. QED
    BY <1>1, <1>2, <1>3, <1>4, <1>5, <1>6, <1>7, <1>8, <1>9, <1>10, <1>11, <1>12, <1>13, <1>14
       DEF Next, Client, Kernel, Converse

-----------------------------------------------------------------------------
(***************************************************************************)
(* The invariant, and what follows from it.                                *)
(***************************************************************************)
LEMMA ConversationInit == Init => ConversationInv
  <1> SUFFICES ASSUME Init PROVE ConversationInv
    OBVIOUS
  <1>1. TypeOK /\ AdapterInv BY TypeInit, AdapterInvInit DEF Init
  <1>2. MessageInv
    BY DEF Init, InitAdapter, MessageInv, Idle
  <1>3. DisplacedInv BY DEF Init, DisplacedInv
  <1>4. WordsInv
    <2>1. WordsIn(inbound) = {} /\ WordsIn(hear) = {} /\ EachOnce(inbound) /\ EachOnce(hear)
      BY NoWordsIn DEF Init
    <2>2. InHand = {} BY DEF Init, InHand
    <2>3. \A u \in Tickets : shown[u] = <<>> /\ Len(shown[u]) = 0 BY DEF Init
    <2>4. WrittenOnce BY <2>3 DEF WrittenOnce
    <2>5. AllWritten = {} BY <1>1, <2>3, WrittenIs
    <2>6. \A w \in Words : Len(log[w[1]]) = 0 BY DEF Init, InitAdapter, Words
    <2>7. AllWords = {} BY <2>6 DEF AllWords
    <2>8. QED BY <2>1, <2>2, <2>4, <2>5, <2>7 DEF WordsInv
  <1>5. DeafInv /\ FlagInv BY DEF Init, InitAdapter, DeafInv, FlagInv, InTurn
  <1>6. Calm
    <2>1. /\ Between /\ inbound = <<>> /\ hear = <<>> /\ Requested = {} /\ InHand = {}
      BY AdapterAssumption DEF Init, InitAdapter, Between, Requested, InHand
    <2>2. \A t \in Tickets : Written(t) = {} BY DEF Init, Written
    <2>3. QED BY <2>1, <2>2 DEF Calm, OneVoice, NothingAfterEnd, NoReplies, Coming
  <1>7. QED BY <1>1, <1>2, <1>3, <1>4, <1>5, <1>6 DEF ConversationInv, CalmInv

LEMMA ConversationStep == ConversationInv /\ [Next]_vars => ConversationInv'
  <1> SUFFICES ASSUME ConversationInv, [Next]_vars PROVE ConversationInv'
    OBVIOUS
  <1>1. /\ TypeOK /\ AdapterInv /\ MessageInv /\ DisplacedInv
        /\ WordsInv /\ DeafInv /\ FlagInv /\ CalmInv
    BY DEF ConversationInv
  <1>2. AdapterInv' BY <1>1, DeviceInvStep
  <1>3. TypeOK'
    BY <1>1, <1>2, KernelTypeStep, JobTypeStep, PageTypeStep DEF TypeOK, AdapterInv
  <1>4. MessageInv' /\ DisplacedInv' /\ WordsInv' /\ DeafInv' /\ FlagInv' /\ CalmInv'
    BY <1>1, <1>3, MessageStep, DisplacedStep, WordsStep, DeafStep, FlagStep, CalmStep
  <1>5. QED BY <1>2, <1>3, <1>4 DEF ConversationInv

LEMMA ConversationInductive == Spec => []ConversationInv
  BY ConversationInit, ConversationStep, PTL DEF Spec

(***************************************************************************)
(* Every variable of the page, the stepping loop, the queues, the device   *)
(* and the job has its type; in particular no pipe holds more than it has  *)
(* room for.                                                               *)
(***************************************************************************)
THEOREM ConversationTypes == Spec => []TypeOK
  <1>1. ConversationInv => TypeOK BY DEF ConversationInv
  <1>2. QED BY <1>1, ConversationInductive, PTL

(***************************************************************************)
(* ChatServer.say wakes the job before it speaks to it: once a message is  *)
(* on stdin or being answered, nothing is left in the queue, or with an    *)
(* HTTP thread, of the ABANDONED of a request it displaced.                *)
(***************************************************************************)
THEOREM WokenBeforeSpokenTo == Spec => []WokenFirst
  <1>1. ConversationInv => WokenFirst
    <2> SUFFICES ASSUME ConversationInv, NEW m \in stdin \cup about, NEW t \in displaced[m]
                 PROVE  ~Coming(t, inbound) /\ \A h \in Threads : t \notin dropped[h]
      BY DEF WokenFirst
    <2>1. TypeOK /\ MessageInv /\ DisplacedInv BY DEF ConversationInv
    <2>2. m \in Messages BY <2>1, Naturals
    <2>3. ~Coming(t, inbound) /\ \A h \in Threads : t \in dropped[h] => client[h].msg = m
      BY <2>1, <2>2 DEF DisplacedInv
    <2>4. \A h \in Threads : client[h].msg # m BY <2>1 DEF MessageInv
    <2>5. QED BY <2>3, <2>4
  <1>2. QED BY <1>1, ConversationInductive, PTL

(***************************************************************************)
(* A job that waits on its reply pipe (jobs.py, converse) is owed the      *)
(* terminator of the request it made: by the device, by the queue, or by   *)
(* the pipe itself -- or the full pipe has refused it.                     *)
(***************************************************************************)
THEOREM NeverLeftDeaf == Spec => []NeverDeaf
  <1>1. ConversationInv => NeverDeaf BY DEF ConversationInv, DeafInv, NeverDeaf, InTurn
  <1>2. QED BY <1>1, ConversationInductive, PTL

\* The words delivered for one request, among all that were delivered.
LEMMA DeliveredIs ==
  ASSUME NEW t \in Tickets
  PROVE  \A w : w \in Delivered(t) <=> w \in AllWords /\ w[1] = t
  <1> SUFFICES ASSUME NEW w PROVE w \in Delivered(t) <=> w \in AllWords /\ w[1] = t
    OBVIOUS
  <1>1. ASSUME w \in Delivered(t) PROVE w \in AllWords /\ w[1] = t
    <2>1. PICK k \in 1 .. Len(log[t]) : log[t][k] = "piece" /\ w = <<t, k>> BY <1>1 DEF Delivered
    <2>2. w[1] = t /\ w[2] = k /\ w \in Words BY <2>1 DEF Words
    <2>3. QED BY <2>1, <2>2 DEF AllWords
  <1>2. ASSUME w \in AllWords, w[1] = t PROVE w \in Delivered(t)
    <2>1. w \in Words /\ w[2] \in 1 .. Len(log[w[1]]) /\ log[w[1]][w[2]] = "piece"
      BY <1>2 DEF AllWords
    <2>2. w = <<t, w[2]>> BY <1>2, <2>1 DEF Words
    <2>3. QED BY <1>2, <2>1, <2>2 DEF Delivered
  <1>3. QED BY <1>1, <1>2

\* The places a word can be in, each by itself.
Queued(items, where, w) ==
  {<<where, 0, k>> : k \in {j \in 1 .. Len(items) : IsPiece(items[j]) /\ Word(items[j]) = w}}
Taken(w) == IF pc = "heard" /\ w \in got.words THEN {<<"got", 0, 0>>} ELSE {}
Shown(w) ==
  UNION {{<<"shown", u, k>> : k \in {j \in 1 .. Len(shown[u]) : w \in shown[u][j]}} : u \in Tickets}

LEMMA PlacesIs ==
  ASSUME TypeOK, WordsInv, NEW w
  PROVE  /\ Places(w) = Queued(inbound, "inbound", w) \cup Queued(hear, "hear", w) \cup Taken(w) \cup Shown(w)
         /\ IF w \in WordsIn(inbound) THEN \E x : Queued(inbound, "inbound", w) = {x}
                                     ELSE Queued(inbound, "inbound", w) = {}
         /\ IF w \in WordsIn(hear) THEN \E x : Queued(hear, "hear", w) = {x} ELSE Queued(hear, "hear", w) = {}
         /\ IF w \in InHand THEN \E x : Taken(w) = {x} ELSE Taken(w) = {}
         /\ IF w \in AllWritten THEN \E x : Shown(w) = {x} ELSE Shown(w) = {}
  <1>1. ASSUME NEW items \in Seq(Items), EachOnce(items), NEW where
        PROVE  IF w \in WordsIn(items) THEN \E x : Queued(items, where, w) = {x} ELSE Queued(items, where, w) = {}
    <2>1. CASE w \in WordsIn(items)
      <3>1. PICK k \in 1 .. Len(items) : IsPiece(items[k]) /\ Word(items[k]) = w BY <2>1, WordOf
      <3>2. \A j \in 1 .. Len(items) : IsPiece(items[j]) /\ Word(items[j]) = w => j = k
        BY <1>1, <3>1 DEF EachOnce
      <3>3. Queued(items, where, w) = {<<where, 0, k>>} BY <3>1, <3>2 DEF Queued
      <3>4. QED BY <2>1, <3>3
    <2>2. CASE w \notin WordsIn(items)
      <3>1. \A j \in 1 .. Len(items) : ~(IsPiece(items[j]) /\ Word(items[j]) = w) BY <2>2, WordOf
      <3>2. QED BY <2>2, <3>1 DEF Queued
    <2>3. QED BY <2>1, <2>2
  <1>2. IF w \in AllWritten THEN \E x : Shown(w) = {x} ELSE Shown(w) = {}
    <2>1. CASE w \in AllWritten
      <3>1. PICK u \in Tickets : \E k \in 1 .. Len(shown[u]) : w \in shown[u][k] BY <2>1, WrittenIs
      <3>2. PICK k \in 1 .. Len(shown[u]) : w \in shown[u][k] BY <3>1
      <3>3. \A v \in Tickets : \A j \in 1 .. Len(shown[v]) : w \in shown[v][j] => v = u /\ j = k
        BY <3>2 DEF WordsInv, WrittenOnce
      <3>4. Shown(w) = {<<"shown", u, k>>} BY <3>2, <3>3 DEF Shown
      <3>5. QED BY <2>1, <3>4
    <2>2. CASE w \notin AllWritten
      <3>1. \A u \in Tickets : \A k \in 1 .. Len(shown[u]) : w \notin shown[u][k] BY <2>2, WrittenIs
      <3>2. Shown(w) = {} BY <3>1 DEF Shown
      <3>3. QED BY <2>2, <3>2
    <2>3. QED BY <2>1, <2>2
  <1>3. IF w \in InHand THEN \E x : Taken(w) = {x} ELSE Taken(w) = {} BY DEF InHand, Taken
  <1>4. Places(w) = Queued(inbound, "inbound", w) \cup Queued(hear, "hear", w) \cup Taken(w) \cup Shown(w) BY DEF Places, Queued, Taken, Shown
  <1>5. inbound \in Seq(Items) /\ hear \in Seq(Items) /\ EachOnce(inbound) /\ EachOnce(hear)
    BY Naturals DEF WordsInv
  <1>6. QED BY <1>1, <1>2, <1>3, <1>4, <1>5

(***************************************************************************)
(* "a person keeps the words that were written before they stopped it"     *)
(* (web/server.py): while nothing was refused, every word the device has   *)
(* delivered is queued, on the pipe, in the job's hands or written, and    *)
(* in exactly one of these -- whoever stopped what, and when.              *)
(***************************************************************************)
THEOREM WordsAreKept == Spec => []NoWordLost
  <1>1. ConversationInv => NoWordLost
    <2> SUFFICES ASSUME ConversationInv, refused = {}, NEW t \in Requested, NEW w \in Delivered(t)
                 PROVE  \E x \in Places(w) : Places(w) = {x}
      BY DEF NoWordLost
    <2>1. TypeOK /\ WordsInv BY DEF ConversationInv
    <2>2. t \in Tickets
      <3>1. nextTicket \in 0 .. MaxAsks /\ MaxAsks \in Nat BY <2>1, AdapterAssumption DEF TypeOK, AdapterTypeOK
      <3>2. QED BY <3>1 DEF Requested, Tickets
    <2>3. w \in WordsIn(inbound) \cup WordsIn(hear) \cup InHand \cup AllWritten
      BY <2>1, <2>2, DeliveredIs DEF WordsInv
    <2>4. \E x : Places(w) = {x}
      <3> DEFINE A == Queued(inbound, "inbound", w)
                 B == Queued(hear, "hear", w)
                 C == Taken(w)
                 D == Shown(w)
      <3>1. /\ Places(w) = A \cup B \cup C \cup D
            /\ IF w \in WordsIn(inbound) THEN \E x : A = {x} ELSE A = {}
            /\ IF w \in WordsIn(hear) THEN \E x : B = {x} ELSE B = {}
            /\ IF w \in InHand THEN \E x : C = {x} ELSE C = {}
            /\ IF w \in AllWritten THEN \E x : D = {x} ELSE D = {}
        BY <2>1, PlacesIs
      <3> HIDE DEF A, B, C, D
      <3>2. /\ w \in WordsIn(inbound) => w \notin WordsIn(hear) \cup InHand \cup AllWritten
            /\ w \in WordsIn(hear) => w \notin InHand \cup AllWritten
            /\ w \in InHand => w \notin AllWritten
        BY <2>1 DEF WordsInv
      <3>3. CASE w \in WordsIn(inbound) BY <3>1, <3>2, <3>3
      <3>4. CASE w \in WordsIn(hear) BY <3>1, <3>2, <3>4
      <3>5. CASE w \in InHand BY <3>1, <3>2, <3>5
      <3>6. CASE w \in AllWritten BY <3>1, <3>2, <3>6
      <3>7. QED BY <2>3, <3>3, <3>4, <3>5, <3>6
    <2>5. QED BY <2>4
  <1>2. QED BY <1>1, ConversationInductive, PTL

(***************************************************************************)
(* A conversation nobody stops, barges into or crowds is exact: a turn     *)
(* writes the words of its own request and no other, writes all of them    *)
(* by its end, and leaves no request open and nothing unread behind.       *)
(***************************************************************************)
THEOREM UndisturbedTurnsAreExact == Spec => []UndisturbedTurns
  <1>1. ConversationInv => UndisturbedTurns
    <2> SUFFICES ASSUME ConversationInv, Undisturbed
                 PROVE  /\ \A t \in Requested : Written(t) \subseteq Delivered(t)
                        /\ \A t \in Requested : t < Turn \/ pc \in {"listening", "noting", "spawning"} =>
                             ended[t] = {t} /\ Written(t) = Delivered(t)
                        /\ pc = "listening" => outstanding = {} /\ hear = <<>>
      BY DEF UndisturbedTurns, Undisturbed
    <2>1. TypeOK /\ AdapterInv /\ WordsInv /\ FlagInv /\ Calm /\ refused = {}
      BY DEF ConversationInv, CalmInv, Undisturbed
    <2>2. /\ nextTicket \in Nat /\ inbound \in Seq(Items) /\ hear \in Seq(Items)
          /\ \A t \in Requested : t \in Tickets /\ t \in Nat
      <3>1. nextTicket \in 0 .. MaxAsks /\ MaxAsks \in Nat BY <2>1, AdapterAssumption DEF TypeOK, AdapterTypeOK
      <3>2. \A t \in Requested : t \in Tickets /\ t \in Nat BY <3>1 DEF Requested, Tickets
      <3>3. QED BY <2>1, <3>2, Naturals
    <2>3. ASSUME NEW t \in Requested PROVE Written(t) \subseteq Delivered(t)
      <3> SUFFICES ASSUME NEW w \in Written(t) PROVE w \in Delivered(t)
        OBVIOUS
      <3>1. t \in Tickets BY <2>2
      <3>2. w \in AllWritten BY <2>1, <3>1, WrittenIs
      <3>3. w \in AllWords BY <2>1, <3>2 DEF WordsInv
      <3>4. w[1] = t BY <2>1, <3>1 DEF Calm
      <3>5. QED BY <3>1, <3>3, <3>4, DeliveredIs
    <2>4. ASSUME NEW t \in Requested, t < Turn \/ pc \in {"listening", "noting", "spawning"}
          PROVE  ended[t] = {t} /\ Written(t) = Delivered(t)
      <3>1. Between \/ t < Turn BY <2>4 DEF Between
      <3>2. ended[t] = {t} BY <2>1, <3>1 DEF Calm, Answered
      <3>3. ASSUME NEW w \in Delivered(t) PROVE w \in Written(t)
        <4>1. t \in Tickets /\ t \in Nat BY <2>2
        <4>2. w \in AllWords /\ w[1] = t BY <4>1, DeliveredIs
        <4>3. w \in WordsIn(inbound) \cup WordsIn(hear) \cup InHand \cup AllWritten
          BY <2>1, <4>2 DEF WordsInv
        <4>4. ~(t = Turn /\ ~Between) BY <2>2, <3>1 DEF Turn
        <4>5. ASSUME NEW items \in Seq(Items), OneVoice(items) PROVE w \notin WordsIn(items)
          <5> SUFFICES ASSUME NEW k \in 1 .. Len(items), IsPiece(items[k]), Word(items[k]) = w PROVE FALSE
            BY WordOf
          <5>1. items[k].to = "hear" BY ItemIs DEF IsPiece
          <5>2. ~Between /\ items[k].of = Turn BY <4>5, <5>1 DEF OneVoice
          <5>3. items[k].of = t BY <4>2 DEF Word
          <5>4. QED BY <4>4, <5>2, <5>3
        <4>6. w \notin WordsIn(inbound) /\ w \notin WordsIn(hear) BY <2>1, <2>2, <4>5 DEF Calm
        <4>7. w \notin InHand
          <5>1. ASSUME w \in InHand PROVE FALSE
            <6>1. pc = "heard" /\ t = Turn BY <2>1, <4>2, <5>1 DEF InHand, Calm
            <6>2. QED BY <2>2, <2>4, <6>1 DEF Turn
          <5>2. QED BY <5>1
        <4>8. PICK u \in Tickets : w \in Written(u) BY <4>3, <4>6, <4>7 DEF AllWritten
        <4>9. u = t BY <2>1, <4>2, <4>8 DEF Calm
        <4>10. QED BY <4>8, <4>9
      <3>4. QED BY <2>3, <3>2, <3>3
    <2>5. ASSUME pc = "listening" PROVE outstanding = {} /\ hear = <<>>
      <3>1. Between BY <2>5 DEF Between
      <3>2. hear = <<>>
        <4>1. \A k \in 1 .. Len(hear) : FALSE BY <2>1, <3>1 DEF FlagInv, Calm, OneVoice
        <4>2. Len(hear) = 0 BY <2>2, <4>1
        <4>3. QED BY <2>2, <4>2
      <3>3. ASSUME NEW t \in outstanding PROVE FALSE
        <4>1. t \in Tickets BY <2>1 DEF TypeOK, AdapterTypeOK
        <4>2. t \in Requested
          <5>1. Asked(t) BY <2>1, <4>1 DEF AdapterInv, FreshInv
          <5>2. QED BY <2>2, <4>1, <5>1, AdapterAssumption DEF Asked, Requested, Tickets
        <4>3. worker[t] = "returned" BY <2>1, <3>1, <4>2 DEF Calm, Answered
        <4>4. QED BY <2>1, <4>3 DEF AdapterInv, TableInv, Live
      <3>4. QED BY <3>2, <3>3
    <2>6. QED BY <2>3, <2>4, <2>5
  <1>2. QED BY <1>1, ConversationInductive, PTL
=============================================================================
