---------------------------- MODULE Front_proofs ----------------------------
(***************************************************************************)
(* What is proved of Front, for any set of browsers and any bounds.        *)
(***************************************************************************)
EXTENDS Front, WellFoundedInduction, TLAPS

(***************************************************************************)
(* The inductive invariant.                                                *)
(***************************************************************************)
Places == {"top", "draining", "delivering", "ticking", "showing", "putting", "counting", "saying",
           "telling", "looking", "looking on", "on", "off", "ended"}
Senders == [frame : Frames, to : SUBSET Screens]
Threads == [at : Places, ran : BOOLEAN, fresh : Nat, sending : Senders]

TypeInv ==
  /\ app \in {"chat", "page", "console"}
  /\ inbound \in Nat /\ ready \in Nat /\ flight \in Nat /\ table \in Nat /\ signal \in Int
  /\ changed \in BOOLEAN
  /\ kernel \in Threads
  /\ tabs \in [Screens -> {"away", "greeting", "greeted", "watching"}]
  /\ DOMAIN queue = Screens /\ \A t \in Screens : queue[t] \in Seq(Frames)
  /\ shown \in [Screens -> [Kinds -> Nat]]

\* Which thread does what in which of the three programs, and who watches there.
AppInv ==
  /\ app = "chat" =>
                     /\ kernel.at \notin {"showing", "putting", "counting", "saying", "telling"}
                     /\ held = FALSE /\ signal \in {0, 1}
  /\ app # "chat" => /\ kernel.at \notin {"looking", "looking on", "on", "off"}
                     /\ behind.on = 0 /\ behind.off = 0
  /\ \A t \in Screens : app # "page" \/ t = Terminal => tabs[t] \in {"away", "watching"}
  /\ app = "page" => signal \in Nat \cup {-1}

\* Nobody who has gone is sent anything.
AwayInv ==
  \A t \in Screens \ Registered : queue[t] = <<>> /\ t \notin kernel.sending.to

\* Nothing of this kind is on its way to a screen.
HasNone(t, kind) == \A i \in DOMAIN queue[t] : queue[t][i].kind # kind

\* A screen comes to show this, or has yet to be told of it at all.
Shows(t, kind, value, early) ==
  \/ Latest(t, kind) = value
  \/ tabs[t] \in early /\ HasNone(t, kind)

\* The chat's pages agree with _busy.
ChatInv == app = "chat" => \A t \in Registered : Latest(t, "signal") = signal

\* What the kernel's thread has in hand is true when it is put.
FrameInv ==
  /\ kernel.at = "putting" => changed /\ kernel.sending.frame = Frame("table", table)
  /\ kernel.at = "saying"  => ready = signal /\ kernel.sending.frame = Frame("signal", ready)
  /\ kernel.at = "telling" => kernel.sending.frame = Frame("stopped", 1)

\* A table that is not on every screen is one the kernel's thread knows to have changed; and
\* once it has begun to say so, whom it will not say it to has come since.
TableInv == app # "chat" =>
  /\ kernel.at \in {"top", "counting", "saying"} => ~changed
  /\ \A t \in Registered : \/ changed /\ (kernel.at # "putting" \/ t \in kernel.sending.to)
                           \/ Shows(t, "table", table, {"greeting"})

\* Within a step jobs only begin, or one ends.
StepInv == app = "page" /\ signal # -1 =>
  /\ kernel.at = "top" => ready = signal
  /\ kernel.at \in {"draining", "delivering", "ticking"} =>
       ready >= signal /\ (kernel.fresh = 0 => ready = signal)

SignalInv == app # "chat" =>
  \A t \in Registered : \/ kernel.at = "saying" /\ t \in kernel.sending.to
                        \/ app = "page" /\ ready # signal
                        \/ Shows(t, "signal", signal, {"greeting", "greeted"})

IInv == TypeInv /\ AppInv /\ AwayInv /\ ChatInv /\ FrameInv /\ TableInv /\ StepInv /\ SignalInv

-----------------------------------------------------------------------------
(***************************************************************************)
(* What a screen comes to show.                                            *)
(***************************************************************************)
Less == {ss \in Nat \X Nat : ss[1] < ss[2]}

\* A set of natural numbers that is not empty has a smallest one.
LEMMA Smallest ==
  ASSUME NEW T \in SUBSET Nat, T # {}
  PROVE  \E x \in T : \A y \in T : x <= y
  <1>1. IsWellFoundedOn(Less, Nat)
    BY NatLessThanWellFounded DEF OpToRel, Less
  <1>2. \E x \in T : \A y \in T : ~(<<y, x>> \in Less)
    BY <1>1, WFMin, Zenon
  <1>3. \A x, y \in T : y < x => <<y, x>> \in Less
    BY DEF Less
  <1>4. \A x, y \in T : ~(y < x) => x <= y
    BY SMT
  <1>5. QED BY <1>2, <1>3, <1>4

\* ... and one that is bounded has a greatest one.
LEMMA Greatest ==
  ASSUME NEW n \in Nat, NEW T \in SUBSET (1 .. n), T # {}
  PROVE  Max(T) \in T /\ \A y \in T : y <= Max(T)
  <1> DEFINE D == {n - i : i \in T}
  <1>1. D \subseteq Nat /\ D # {}
    <2>1. \A i \in T : n - i \in Nat
      OBVIOUS
    <2>2. QED BY <2>1
  <1>2. PICK d \in D : \A e \in D : d <= e
    BY <1>1, Smallest
  <1>3. PICK i \in T : d = n - i
    BY <1>2
  <1>4. \A y \in T : i >= y
    <2>1. TAKE y \in T
    <2>2. n - i <= n - y
      BY <1>2, <1>3
    <2>3. QED BY <2>2
  <1>5. Max(T) \in T /\ \A y \in T : Max(T) >= y
    BY <1>4 DEF Max
  <1>6. QED BY <1>5

\* What comes of these frames, in their order, where `old` is shown.
NewestOf(q, kind, old) ==
  LET sent == {i \in DOMAIN q : q[i].kind = kind}
  IN IF sent = {} THEN old ELSE q[Max(sent)].value

NoneIn(q, kind) == \A i \in DOMAIN q : q[i].kind # kind

IsNewest(q, kind, i) ==
  i \in DOMAIN q /\ q[i].kind = kind /\ \A j \in DOMAIN q : j > i => q[j].kind # kind

\* The newest frame of a kind is what counts.
LEMMA NewestIs ==
  ASSUME NEW q \in Seq(Frames), NEW kind, NEW old, NEW i, IsNewest(q, kind, i)
  PROVE  NewestOf(q, kind, old) = q[i].value
  <1> DEFINE S == {j \in DOMAIN q : q[j].kind = kind}
  <1>1. Len(q) \in Nat /\ DOMAIN q = 1 .. Len(q)
    OBVIOUS
  <1>2. S \in SUBSET (1 .. Len(q)) /\ i \in S
    BY <1>1 DEF IsNewest
  <1>3. Max(S) \in S /\ i <= Max(S)
    BY <1>1, <1>2, Greatest
  <1>4. Max(S) = i
    <2>1. ~(Max(S) > i)
      BY <1>3 DEF IsNewest
    <2>2. Max(S) \in 1 .. Len(q) /\ i \in 1 .. Len(q)
      BY <1>1, <1>2, <1>3
    <2>3. QED BY <1>1, <1>3, <2>1, <2>2
  <1>5. QED BY <1>2, <1>4 DEF NewestOf

\* There is a newest one, or none.
LEMMA NewestOrNone ==
  ASSUME NEW q \in Seq(Frames), NEW kind, ~NoneIn(q, kind)
  PROVE  \E i \in DOMAIN q : IsNewest(q, kind, i)
  <1> DEFINE S == {j \in DOMAIN q : q[j].kind = kind}
  <1>1. Len(q) \in Nat /\ DOMAIN q = 1 .. Len(q)
    OBVIOUS
  <1>2. S # {} /\ S \in SUBSET (1 .. Len(q))
    BY <1>1 DEF NoneIn
  <1>3. Max(S) \in S /\ \A y \in S : y <= Max(S)
    BY <1>1, <1>2, Greatest
  <1>4. ASSUME NEW j \in DOMAIN q, j > Max(S)
        PROVE  j \notin S
    <2>1. Max(S) \in 1 .. Len(q) /\ j \in 1 .. Len(q)
      BY <1>1, <1>3
    <2>2. ~(j <= Max(S))
      BY <1>1, <1>4, <2>1
    <2>3. QED BY <1>3, <2>2
  <1>5. QED BY <1>3, <1>4 DEF IsNewest

\* One more frame.
LEMMA NewestSent ==
  ASSUME NEW q \in Seq(Frames), NEW kind, NEW old, NEW f \in Frames
  PROVE  IF f.kind = kind THEN NewestOf(Append(q, f), kind, old) = f.value
         ELSE /\ NewestOf(Append(q, f), kind, old) = NewestOf(q, kind, old)
              /\ NoneIn(Append(q, f), kind) <=> NoneIn(q, kind)
  <1> DEFINE n == Len(q)
  <1> DEFINE r == Append(q, f)
  <1>1. n \in Nat /\ r \in Seq(Frames) /\ DOMAIN q = 1 .. n /\ DOMAIN r = 1 .. n + 1
        /\ r[n + 1] = f /\ \A i \in 1 .. n : r[i] = q[i]
    OBVIOUS
  <1> HIDE DEF r
  <1>2. CASE f.kind = kind
    <2>1. IsNewest(r, kind, n + 1)
      BY <1>1, <1>2 DEF IsNewest
    <2>2. NewestOf(r, kind, old) = r[n + 1].value
      BY <1>1, <2>1, NewestIs
    <2>3. QED BY <1>1, <1>2, <2>2 DEF r
  <1>3. CASE f.kind # kind /\ NoneIn(q, kind)
    <2>1. NoneIn(r, kind)
      BY <1>1, <1>3 DEF NoneIn
    <2>2. QED BY <1>3, <2>1 DEF NoneIn, NewestOf, r
  <1>4. CASE f.kind # kind /\ ~NoneIn(q, kind)
    <2>1. PICK i \in DOMAIN q : IsNewest(q, kind, i)
      BY <1>4, NewestOrNone
    <2>2. NewestOf(q, kind, old) = q[i].value
      BY <2>1, NewestIs
    <2>3. i \in DOMAIN r /\ r[i] = q[i] /\ IsNewest(r, kind, i)
      BY <1>1, <1>4, <2>1 DEF IsNewest
    <2>4. NewestOf(r, kind, old) = r[i].value
      BY <1>1, <2>3, NewestIs
    <2>5. ~NoneIn(r, kind)
      BY <2>3 DEF NoneIn, IsNewest
    <2>6. QED BY <1>4, <2>2, <2>3, <2>4, <2>5 DEF r
  <1>5. QED BY <1>2, <1>3, <1>4

\* The first frame is drawn: what comes of the rest is the same.
LEMMA NewestDrawn ==
  ASSUME NEW q \in Seq(Frames), q # <<>>, NEW kind, NEW old, NEW new,
         new = IF Head(q).kind = kind THEN Head(q).value ELSE old
  PROVE  NewestOf(Tail(q), kind, new) = NewestOf(q, kind, old)
  <1> DEFINE n == Len(q)
  <1> DEFINE r == Tail(q)
  <1>1. /\ n \in Nat \ {0} /\ r \in Seq(Frames) /\ DOMAIN q = 1 .. n /\ DOMAIN r = 1 .. n - 1
        /\ Head(q) = q[1] /\ \A i \in 1 .. n - 1 : r[i] = q[i + 1]
    OBVIOUS
  <1> HIDE DEF r
  <1>2. CASE NoneIn(r, kind)
    <2>1. NewestOf(r, kind, new) = new
      BY <1>2 DEF NoneIn, NewestOf
    <2>2. \A j \in 2 .. n : q[j].kind # kind
      <3>1. \A j \in 2 .. n : j - 1 \in 1 .. n - 1 /\ q[j] = r[j - 1]
        BY <1>1
      <3>2. QED BY <1>1, <1>2, <3>1 DEF NoneIn
    <2>3. CASE q[1].kind = kind
      <3>1. IsNewest(q, kind, 1)
        BY <1>1, <2>2, <2>3 DEF IsNewest
      <3>2. NewestOf(q, kind, old) = q[1].value
        BY <3>1, NewestIs
      <3>3. QED BY <1>1, <2>1, <2>3, <3>2 DEF r
    <2>4. CASE q[1].kind # kind
      <3>1. NoneIn(q, kind)
        BY <1>1, <2>2, <2>4 DEF NoneIn
      <3>2. NewestOf(q, kind, old) = old
        BY <3>1 DEF NoneIn, NewestOf
      <3>3. QED BY <1>1, <2>1, <2>4, <3>2 DEF r
    <2>5. QED BY <2>3, <2>4
  <1>3. CASE ~NoneIn(r, kind)
    <2>1. PICK i \in DOMAIN r : IsNewest(r, kind, i)
      BY <1>1, <1>3, NewestOrNone
    <2>2. NewestOf(r, kind, new) = r[i].value
      BY <1>1, <2>1, NewestIs
    <2>3. i + 1 \in DOMAIN q /\ q[i + 1] = r[i] /\ r[i].kind = kind
      BY <1>1, <2>1 DEF IsNewest
    <2>4. ASSUME NEW j \in DOMAIN q, j > i + 1
          PROVE  q[j].kind # kind
      <3>1. j - 1 \in DOMAIN r /\ j - 1 > i /\ r[j - 1] = q[j]
        BY <1>1, <2>4
      <3>2. QED BY <2>1, <3>1 DEF IsNewest
    <2>5. IsNewest(q, kind, i + 1)
      BY <2>3, <2>4 DEF IsNewest
    <2>6. NewestOf(q, kind, old) = q[i + 1].value
      BY <2>5, NewestIs
    <2>7. QED BY <2>2, <2>3, <2>6 DEF r
  <1>4. QED BY <1>2, <1>3

\* What a screen comes to show, in these words.
LEMMA LatestNewest ==
  ASSUME NEW t, NEW kind
  PROVE  /\ Latest(t, kind) = NewestOf(queue[t], kind, shown[t][kind])
         /\ HasNone(t, kind) <=> NoneIn(queue[t], kind)
         /\ Latest(t, kind)' = NewestOf(queue'[t], kind, shown'[t][kind])
         /\ HasNone(t, kind)' <=> NoneIn(queue'[t], kind)
  BY DEF Latest, NewestOf, HasNone, NoneIn

\* A screen that was sent nothing and drew nothing.
LEMMA ScreenKept ==
  ASSUME NEW t, queue'[t] = queue[t], shown'[t] = shown[t], NEW kind
  PROVE  Latest(t, kind)' = Latest(t, kind) /\ (HasNone(t, kind)' <=> HasNone(t, kind))
  BY LatestNewest

\* A screen that was sent a frame.
LEMMA ScreenSent ==
  ASSUME NEW t, NEW f \in Frames, queue[t] \in Seq(Frames),
         queue'[t] = Append(queue[t], f), shown'[t] = shown[t], NEW kind
  PROVE  /\ f.kind = kind => Latest(t, kind)' = f.value
         /\ f.kind # kind => Latest(t, kind)' = Latest(t, kind) /\ (HasNone(t, kind)' <=> HasNone(t, kind))
  <1> DEFINE old == shown[t][kind]
  <1>1. /\ Latest(t, kind) = NewestOf(queue[t], kind, old)
        /\ Latest(t, kind)' = NewestOf(Append(queue[t], f), kind, old)
        /\ HasNone(t, kind) <=> NoneIn(queue[t], kind)
        /\ HasNone(t, kind)' <=> NoneIn(Append(queue[t], f), kind)
    BY LatestNewest
  <1> HIDE DEF old
  <1>2. CASE f.kind = kind
    BY <1>1, <1>2, NewestSent
  <1>3. CASE f.kind # kind
    BY <1>1, <1>3, NewestSent
  <1>4. QED BY <1>2, <1>3

\* A screen that drew what it was sent first.
LEMMA ScreenDrew ==
  ASSUME NEW t \in Screens, queue[t] \in Seq(Frames), queue[t] # <<>>,
         shown \in [Screens -> [Kinds -> Nat]],
         queue' = [queue EXCEPT ![t] = Tail(queue[t])], DOMAIN queue = Screens,
         shown' = [shown EXCEPT ![t][Head(queue[t]).kind] = Head(queue[t]).value], NEW kind \in Kinds
  PROVE  Latest(t, kind)' = Latest(t, kind)
  <1>1. Head(queue[t]) \in Frames
    OBVIOUS
  <1>2. shown'[t][kind] = IF Head(queue[t]).kind = kind THEN Head(queue[t]).value ELSE shown[t][kind]
    BY <1>1 DEF Frames
  <1>3. queue'[t] = Tail(queue[t])
    OBVIOUS
  <1>4. NewestOf(Tail(queue[t]), kind, shown'[t][kind]) = NewestOf(queue[t], kind, shown[t][kind])
    BY <1>2, NewestDrawn
  <1>5. QED BY <1>3, <1>4, LatestNewest

-----------------------------------------------------------------------------
(***************************************************************************)
(* The kernel's thread.                                                    *)
(***************************************************************************)
\* The kernel's thread goes on to another place.
LEMMA ThreadMoves ==
  ASSUME TypeInv, NEW a \in Places, kernel' = [kernel EXCEPT !.at = a]
  PROVE  /\ kernel' \in Threads /\ kernel'.at = a /\ kernel'.fresh = kernel.fresh
         /\ kernel'.sending = kernel.sending
  BY DEF TypeInv, Threads

\* ... or starts a stretch of its loop afresh.
LEMMA ThreadMade ==
  ASSUME NEW a \in Places, NEW ran \in BOOLEAN, NEW s \in Senders, kernel' = Thread(a, ran, s)
  PROVE  /\ kernel' \in Threads /\ kernel'.at = a /\ kernel'.fresh = 0 /\ kernel'.sending = s
  BY DEF Thread, Threads

\* ... as it does when it has ticked.
LEMMA ThreadTicked ==
  ASSUME TypeInv, NEW ran \in BOOLEAN, Ticked(ran)
  PROVE  /\ kernel' \in Threads /\ kernel'.sending.to = {}
         /\ kernel'.at = IF app = "chat" THEN "looking" ELSE "showing"
  <1>1. Nobody \in Senders /\ Nobody.to = {}
    BY DEF Nobody, Senders, Frames, Frame, Kinds
  <1>2. PICK a \in Places : a = IF app = "chat" THEN "looking" ELSE "showing"
    BY DEF Places
  <1>3. kernel' = Thread(a, ran, Nobody)
    BY <1>2 DEF Ticked, Blocks, TypeInv
  <1>4. kernel' \in Threads /\ kernel'.at = a /\ kernel'.sending = Nobody
    BY <1>1, <1>3, ThreadMade
  <1>5. kernel'.sending.to = {}
    BY <1>1, <1>4, Zenon
  <1>6. QED BY <1>2, <1>4, <1>5

\* What the types say of the thread and of who is registered.
LEMMA Parts ==
  ASSUME TypeInv
  PROVE  /\ kernel.at \in Places /\ kernel.ran \in BOOLEAN /\ kernel.fresh \in Nat
         /\ kernel.sending \in Senders /\ kernel.sending.frame \in Frames
         /\ kernel.sending.to \subseteq Screens
         /\ Registered \subseteq Screens
  BY DEF TypeInv, Threads, Senders, Registered

\* With nothing in hand it sends to nobody.
LEMMA NobodySender ==
  Nobody \in Senders /\ Nobody.to = {}
  BY DEF Nobody, Senders, Frames, Frame, Kinds

\* Nobody is sent anything, draws anything, comes or leaves.
LEMMA Unseen ==
  ASSUME UNCHANGED fronts
  PROVE  /\ Registered' = Registered /\ tabs' = tabs /\ queue' = queue /\ shown' = shown
         /\ \A t \in Screens : \A kind \in Kinds :
              Latest(t, kind)' = Latest(t, kind) /\ (HasNone(t, kind)' <=> HasNone(t, kind))
  <1>1. Registered' = Registered /\ tabs' = tabs /\ queue' = queue /\ shown' = shown
    BY DEF fronts, Registered
  <1>2. QED BY <1>1, ScreenKept

\* Most of what the kernel's thread does nobody sees yet.
LEMMA ThreadGoesOn ==
  ASSUME IInv, UNCHANGED <<app, held, signal, behind, fronts>>,
         inbound' \in Nat, flight' \in Nat, ready' \in Nat, table' \in Nat, kernel' \in Threads,
         kernel.at \notin {"putting", "saying"},
         app = "page" /\ ready' = signal => ready = signal,
         (table' = table /\ changed' = changed) \/ changed' = TRUE,
         app = "chat" => kernel'.at \notin {"showing", "putting", "counting", "saying", "telling"},
         app # "chat" => kernel'.at \notin {"looking", "looking on", "on", "off"},
         kernel'.at \in {"top", "counting", "saying"} => app = "chat" \/ changed' = FALSE,
         kernel'.sending.to \subseteq Registered,
         kernel'.at = "putting" => kernel'.sending.to = Registered,
         FrameInv', StepInv'
  PROVE  IInv'
  <1>1. /\ Registered' = Registered /\ tabs' = tabs /\ queue' = queue /\ shown' = shown
        /\ app' = app /\ held' = held /\ signal' = signal /\ behind' = behind
    BY Unseen
  <1>2. \A t \in Screens : \A kind \in Kinds :
          Latest(t, kind)' = Latest(t, kind) /\ (HasNone(t, kind)' <=> HasNone(t, kind))
    BY Unseen
  <1>3. TypeInv'
    BY <1>1 DEF IInv, TypeInv
  <1>4. AppInv'
    <2>1. app = "chat" => held' = FALSE /\ signal' \in {0, 1}
      BY <1>1 DEF IInv, AppInv
    <2>2. app # "chat" => behind'.on = 0 /\ behind'.off = 0
      BY <1>1 DEF IInv, AppInv
    <2>3. app = "page" => signal' \in Nat \cup {-1}
      BY <1>1 DEF IInv, AppInv
    <2>4. \A t \in Screens : app # "page" \/ t = Terminal => tabs'[t] \in {"away", "watching"}
      BY <1>1 DEF IInv, AppInv
    <2>5. QED BY <1>1, <2>1, <2>2, <2>3, <2>4 DEF AppInv
  <1>5. AwayInv'
    BY <1>1 DEF IInv, AwayInv
  <1>6. ChatInv'
    BY <1>1, <1>2 DEF IInv, ChatInv, Registered, Kinds
  <1>7. TableInv'
    <2>1. ASSUME app # "chat", NEW t \in Registered
          PROVE  \/ changed' /\ (kernel'.at # "putting" \/ t \in kernel'.sending.to)
                 \/ Shows(t, "table", table, {"greeting"})'
      <3>1. t \in Screens
        BY <2>1 DEF Registered
      <3>2. CASE changed' = TRUE
        BY <1>1, <2>1, <3>2
      <3>3. CASE changed' # TRUE
        <4>1. table' = table /\ changed' = changed /\ ~changed
          BY <3>3, Zenon DEF IInv, TypeInv
        <4>2. Shows(t, "table", table, {"greeting"})
          BY <2>1, <4>1 DEF IInv, TableInv
        <4>3. QED BY <1>1, <1>2, <3>1, <4>1, <4>2 DEF Shows, Kinds
      <3>4. QED BY <3>2, <3>3
    <2>2. QED BY <1>1, <2>1 DEF TableInv
  <1>8. SignalInv'
    BY <1>1, <1>2 DEF IInv, SignalInv, Shows, Registered, Kinds
  <1>9. QED BY <1>3, <1>4, <1>5, <1>6, <1>7, <1>8 DEF IInv

\* The steps of the kernel's thread that nobody sees.
LEMMA QuietKernel ==
  ASSUME IInv, UNCHANGED <<app, behind, main>>,
         Begin \/ Ended \/ Take \/ Drained \/ IdleTick \/ FailPage \/ FailConsole \/ Show \/ Look \/ LookOn
  PROVE  IInv'
  <1>1. TypeInv /\ AppInv /\ AwayInv /\ FrameInv /\ TableInv /\ StepInv /\ inbound \in Nat
    BY DEF IInv, TypeInv
  <1>2. CASE Begin
    <2>1. /\ kernel' \in Threads /\ kernel'.sending.to \subseteq Registered
          /\ kernel'.at \in {"showing", "draining"} /\ (kernel'.at = "showing" => held # FALSE)
          /\ (kernel'.at = "draining" => kernel'.fresh = kernel.fresh)
      <3>1. CASE held
        BY <1>2, <3>1, ThreadMade, NobodySender DEF Begin, Places
      <3>2. CASE ~held
        BY <1>1, <1>2, <3>2, ThreadMoves, Parts DEF Begin, Places, Goes, AwayInv
      <3>3. QED BY <3>1, <3>2
    <2>2. FrameInv' /\ StepInv'
      BY <1>1, <1>2, <2>1, Parts DEF Begin, FrameInv, StepInv, world, told, AppInv, TypeInv
    <2>3. QED BY <1>1, <1>2, <2>1, <2>2, ThreadGoesOn DEF Begin, world, told, AppInv, TypeInv
  <1>3. CASE Ended
    <2>1. /\ kernel' \in Threads /\ kernel'.sending.to \subseteq Registered /\ kernel'.at = "ended"
      BY <1>1, <1>3, ThreadMoves, Parts DEF Ended, Places, Goes, AwayInv
    <2>2. FrameInv' /\ StepInv'
      BY <2>1 DEF FrameInv, StepInv
    <2>3. QED BY <1>1, <1>3, <2>1, <2>2, ThreadGoesOn DEF Ended, world, told, TypeInv
  <1>4. CASE Take \/ Drained
    <2>1. /\ kernel' \in Threads /\ kernel'.sending.to \subseteq Registered
          /\ kernel'.at \in {"delivering", "ticking"} /\ kernel'.fresh = kernel.fresh
          /\ kernel.at = "draining"
      BY <1>1, <1>4, ThreadMoves, Parts DEF Take, Drained, Places, Goes, AwayInv
    <2>2. UNCHANGED <<held, ready, flight, table, changed, signal, fronts>> /\ inbound' \in Nat
      BY <1>1, <1>4 DEF Take, Drained, world, told
    <2>3. FrameInv' /\ StepInv'
      BY <1>1, <2>1, <2>2 DEF FrameInv, StepInv
    <2>4. QED BY <1>1, <2>1, <2>2, <2>3, ThreadGoesOn DEF TypeInv
  <1>5. CASE IdleTick
    <2>1. /\ kernel' \in Threads /\ kernel'.sending.to \subseteq Registered
          /\ kernel'.at = IF app = "chat" THEN "looking" ELSE "showing"
      <3>1. Ticked(FALSE)
        BY <1>5 DEF IdleTick
      <3>2. QED BY <1>1, <3>1, ThreadTicked
    <2>2. FrameInv' /\ StepInv'
      BY <2>1 DEF FrameInv, StepInv
    <2>3. QED BY <1>1, <1>5, <2>1, <2>2, ThreadGoesOn DEF IdleTick, world, told, TypeInv
  <1>6. CASE FailPage
    <2>1. [frame |-> Frame("stopped", 1), to |-> Registered] \in Senders
      BY Parts, <1>1 DEF Senders, Frame, Frames, Kinds
    <2>2. /\ kernel' \in Threads /\ kernel'.sending = [frame |-> Frame("stopped", 1), to |-> Registered]
          /\ kernel'.sending.to = Registered /\ kernel'.at = "telling" /\ app = "page"
      <3>1. kernel'.sending = [frame |-> Frame("stopped", 1), to |-> Registered]
        BY <1>6, <2>1, ThreadMade DEF FailPage, Raises, Places
      <3>2. kernel'.sending.to = Registered
        BY <3>1
      <3>3. QED BY <1>6, <2>1, <3>1, <3>2, ThreadMade DEF FailPage, Raises, Places
    <2>3. FrameInv' /\ StepInv'
      BY <2>2 DEF FrameInv, StepInv
    <2>4. QED BY <1>1, <1>6, <2>2, <2>3, ThreadGoesOn DEF FailPage, Raises, world, told, TypeInv
  <1>7. CASE FailConsole
    <2>1. /\ kernel' \in Threads /\ kernel'.sending.to \subseteq Registered
          /\ kernel'.at = "ended"
      BY <1>1, <1>7, ThreadMade, NobodySender DEF FailConsole, Places
    <2>2. FrameInv' /\ StepInv'
      BY <2>1 DEF FrameInv, StepInv
    <2>3. QED BY <1>1, <1>7, <2>1, <2>2, ThreadGoesOn DEF FailConsole, Raises, world, told, TypeInv
  <1>8. CASE Show
    <2>1. [frame |-> Frame("table", table), to |-> Registered] \in Senders
      BY Parts, <1>1 DEF Senders, Frame, Frames, Kinds, TypeInv
    <2>2. CASE changed
      <3>1. /\ kernel' \in Threads
            /\ kernel'.sending = [frame |-> Frame("table", table), to |-> Registered]
            /\ kernel'.sending.to = Registered /\ kernel'.at = "putting"
        <4>1. kernel'.sending = [frame |-> Frame("table", table), to |-> Registered]
          BY <1>1, <1>8, <2>1, <2>2, ThreadMade, Parts DEF Show, Places
        <4>2. kernel'.sending.to = Registered
          BY <4>1
        <4>3. QED BY <1>1, <1>8, <2>1, <2>2, <4>1, <4>2, ThreadMade, Parts DEF Show, Places
      <3>2. FrameInv' /\ StepInv'
        BY <1>8, <2>2, <3>1 DEF FrameInv, StepInv, Show, world, told
      <3>3. QED BY <1>1, <1>8, <3>1, <3>2, ThreadGoesOn DEF Show, world, told, TypeInv, AppInv
    <2>3. CASE ~changed
      <3>1. /\ kernel' \in Threads /\ kernel'.sending.to \subseteq Registered
            /\ kernel'.at = "counting"
        BY <1>1, <1>8, <2>3, ThreadMoves, Parts DEF Show, Places, AwayInv
      <3>2. FrameInv' /\ StepInv'
        BY <3>1 DEF FrameInv, StepInv
      <3>3. changed' = FALSE
        BY <1>1, <1>8, <2>3 DEF Show, told, TypeInv
      <3>4. QED BY <1>1, <1>8, <3>1, <3>2, <3>3, ThreadGoesOn DEF Show, world, told, TypeInv, AppInv
    <2>4. QED BY <2>2, <2>3
  <1>9. CASE Look \/ LookOn
    <2>1. PICK a \in {"on", "off", "looking on"} : kernel' = [kernel EXCEPT !.at = a]
      BY <1>9 DEF Look, LookOn, Goes
    <2>2. /\ kernel' \in Threads /\ kernel'.sending.to \subseteq Registered
          /\ kernel'.at = a /\ kernel.at \in {"looking", "looking on"}
      BY <1>1, <1>9, <2>1, ThreadMoves, Parts DEF Look, LookOn, Places, AwayInv
    <2>3. UNCHANGED <<held, inbound, ready, flight, table, changed, signal, fronts>> /\ app = "chat"
      BY <1>1, <1>9, <2>2 DEF Look, LookOn, world, told, AppInv
    <2>4. FrameInv' /\ StepInv'
      BY <2>2, <2>3 DEF FrameInv, StepInv
    <2>5. QED BY <1>1, <2>2, <2>3, <2>4, ThreadGoesOn DEF TypeInv
  <1>10. QED BY <1>2, <1>3, <1>4, <1>5, <1>6, <1>7, <1>8, <1>9

\* What was taken off the queue starts a job, changes the table, or comes to nothing.
LEMMA Delivers ==
  ASSUME IInv, UNCHANGED <<app, behind, main>>, Deliver
  PROVE  IInv'
  <1>1. /\ TypeInv /\ AppInv /\ AwayInv /\ StepInv /\ kernel.at = "delivering"
        /\ UNCHANGED <<inbound, held, flight, signal, fronts>>
        /\ inbound \in Nat /\ flight \in Nat /\ ready \in Nat /\ table \in Nat
    BY DEF IInv, TypeInv, Deliver
  <1>2. CASE ready' = (IF Blocks THEN ready + 1 ELSE 1) /\ UNCHANGED <<table, changed>>
             /\ kernel' = [Thread("draining", kernel.ran, kernel.sending) EXCEPT !.fresh = 1]
    <2>1. /\ kernel' \in Threads /\ kernel'.at = "draining" /\ kernel'.fresh = 1
          /\ kernel'.sending = kernel.sending
      BY <1>1, <1>2, Parts DEF Thread, Threads, Places
    <2>2. kernel'.sending.to \subseteq Registered
      BY <1>1, <2>1, Parts DEF AwayInv
    <2>3. FrameInv'
      BY <2>1 DEF FrameInv
    <2>4. ready' \in Nat /\ (app = "page" => ready' = ready + 1 /\ (signal = -1 \/ ready >= signal))
      BY <1>1, <1>2 DEF Blocks, StepInv
    <2>5. StepInv'
      BY <1>1, <2>1, <2>4 DEF StepInv, AppInv
    <2>6. app = "page" => ready' # signal
      BY <1>1, <2>4 DEF AppInv
    <2>7. QED BY <1>1, <1>2, <2>1, <2>2, <2>3, <2>4, <2>5, <2>6, ThreadGoesOn
  <1>3. CASE /\ kernel' = [kernel EXCEPT !.at = "draining"] /\ ready' = ready
             /\ \/ UNCHANGED <<table, changed>>
                \/ table' = table + 1 /\ changed' = TRUE
    <2>1. /\ kernel' \in Threads /\ kernel'.at = "draining" /\ kernel'.fresh = kernel.fresh
          /\ kernel'.sending.to \subseteq Registered
      BY <1>1, <1>3, ThreadMoves, Parts DEF Places, AwayInv
    <2>2. FrameInv' /\ StepInv'
      BY <1>1, <1>3, <2>1 DEF FrameInv, StepInv
    <2>3. table' \in Nat
      BY <1>1, <1>3
    <2>4. QED BY <1>1, <1>3, <2>1, <2>2, <2>3, ThreadGoesOn
  <1>4. QED BY <1>2, <1>3 DEF Deliver, Goes

\* A job goes on.  When jobs do not begin and end within one step what it leaves is another
\* number of jobs than the one that was counted, or the same jobs.
LEMMA JobGoesOn ==
  ASSUME IInv, ~Crossing, UNCHANGED <<app, behind, main>>, JobTick
  PROVE  IInv'
  <1>1. /\ TypeInv /\ AppInv /\ AwayInv /\ StepInv /\ kernel.at = "ticking"
        /\ UNCHANGED <<inbound, held, signal, fronts>>
        /\ inbound \in Nat /\ flight \in Nat /\ ready \in Nat \ {0} /\ table \in Nat
    BY DEF IInv, TypeInv, JobTick
  <1>2. /\ kernel' \in Threads /\ kernel'.sending.to \subseteq Registered
        /\ kernel'.at = IF app = "chat" THEN "looking" ELSE "showing"
    <2>1. Ticked(TRUE)
      BY DEF JobTick
    <2>2. QED BY <1>1, <2>1, ThreadTicked
  <1>3. FrameInv' /\ StepInv'
    BY <1>2 DEF FrameInv, StepInv
  <1>4. CASE /\ ready' = ready
             /\ \/ UNCHANGED <<table, changed, flight>>
                \/ table' = table + 1 /\ changed' = TRUE /\ UNCHANGED flight
    <2>1. table' \in Nat
      BY <1>1, <1>4
    <2>2. QED BY <1>1, <1>2, <1>3, <1>4, <2>1, ThreadGoesOn
  <1>5. CASE app = "chat" /\ flight' = flight + 1 /\ ready' = 0 /\ UNCHANGED <<table, changed>>
    BY <1>1, <1>2, <1>3, <1>5, ThreadGoesOn
  <1>6. CASE /\ app = "chat" \/ kernel.fresh = 0
             /\ ready' = ready - 1 /\ UNCHANGED <<table, changed, flight>>
    <2>1. app = "page" => ready' # signal
      <3>1. app = "page" => signal = -1 \/ ready = signal
        BY <1>1, <1>6 DEF StepInv
      <3>2. QED BY <1>1, <1>6, <3>1
    <2>2. ready' \in Nat
      BY <1>1, <1>6
    <2>3. QED BY <1>1, <1>2, <1>3, <1>6, <2>1, <2>2, ThreadGoesOn
  <1>7. app \in {"chat", "page", "console"}
    BY <1>1 DEF TypeInv
  <1>8. QED BY <1>4, <1>5, <1>6, <1>7 DEF JobTick, Blocks

\* The jobs are counted, and said if they are others than were counted before.
LEMMA Counts ==
  ASSUME IInv, UNCHANGED <<app, behind, main>>, Count
  PROVE  IInv'
  <1>1. /\ kernel.at = "counting" /\ app # "chat" /\ ready \in Nat /\ ~changed
        /\ UNCHANGED <<app, behind, inbound, held, ready, flight, table, changed, fronts>>
        /\ signal' = ready
    BY DEF IInv, TypeInv, AppInv, TableInv, Count, world
  <1>2. /\ Registered' = Registered /\ tabs' = tabs /\ queue' = queue /\ shown' = shown
        /\ \A t \in Screens : \A kind \in Kinds :
             Latest(t, kind)' = Latest(t, kind) /\ (HasNone(t, kind)' <=> HasNone(t, kind))
    BY <1>1, Unseen
  <1>3. /\ kernel' \in Threads /\ kernel'.at \in {"saying", "top"}
        /\ kernel'.sending.to \subseteq Registered
    <2>1. [frame |-> Frame("signal", ready), to |-> Registered] \in Senders
      BY Parts, <1>1 DEF Senders, Frame, Frames, Kinds, IInv
    <2>2. CASE signal # ready
      <3>1. /\ kernel' \in Threads /\ kernel'.at = "saying"
            /\ kernel'.sending = [frame |-> Frame("signal", ready), to |-> Registered]
        BY <2>1, <2>2, ThreadMade, Parts DEF Count, Places, IInv
      <3>2. kernel'.sending.to = Registered
        BY <3>1
      <3>3. QED BY <3>1, <3>2
    <2>3. CASE signal = ready
      <3>1. kernel' = Thread("top", kernel.ran, Nobody)
        BY <2>3 DEF Count
      <3>2. "top" \in Places /\ kernel.ran \in BOOLEAN /\ Nobody \in Senders
        BY NobodySender, Parts DEF Places, IInv
      <3>3. kernel' \in Threads /\ kernel'.at = "top" /\ kernel'.sending = Nobody
        BY <3>1, <3>2, ThreadMade
      <3>4. kernel'.sending.to = {}
        BY <3>3, NobodySender, Zenon
      <3>5. QED BY <3>3, <3>4
    <2>4. QED BY <2>2, <2>3
  <1>4. /\ kernel'.at = "saying" => /\ kernel'.sending.frame = Frame("signal", ready)
                                    /\ kernel'.sending.to = Registered
        /\ kernel'.at = "top" => signal = ready
    BY DEF Count, Thread
  <1>5. TypeInv' /\ AppInv'
    <2>1. TypeInv'
      <3>1. signal' \in Int
        BY <1>1
      <3>2. QED BY <1>1, <1>2, <1>3, <3>1 DEF IInv, TypeInv
    <2>2. AppInv'
      <3>1. behind'.on = 0 /\ behind'.off = 0 /\ signal' \in Nat
        BY <1>1 DEF IInv, AppInv
      <3>2. \A t \in Screens : app # "page" \/ t = Terminal => tabs'[t] \in {"away", "watching"}
        BY <1>2 DEF IInv, AppInv
      <3>3. QED BY <1>1, <1>3, <3>1, <3>2 DEF AppInv
    <2>3. QED BY <2>1, <2>2
  <1>6. AwayInv' /\ ChatInv' /\ FrameInv' /\ StepInv'
    BY <1>1, <1>2, <1>3, <1>4 DEF IInv, AwayInv, ChatInv, FrameInv, StepInv
  <1>7. TableInv'
    BY <1>1, <1>2, <1>3 DEF IInv, TableInv, Shows, Registered, Kinds
  <1>8. SignalInv'
    BY <1>1, <1>2, <1>3, <1>4 DEF IInv, SignalInv, Shows, Registered, Kinds
  <1>9. QED BY <1>5, <1>6, <1>7, <1>8 DEF IInv

\* A frame put to some of the screens.
LEMMA FramePut ==
  ASSUME TypeInv, NEW f \in Frames, NEW to \in SUBSET Screens, queue' = Sent(f, to),
         UNCHANGED <<tabs, shown>>
  PROVE  /\ Registered' = Registered
         /\ DOMAIN queue' = Screens /\ \A t \in Screens : queue'[t] \in Seq(Frames)
         /\ \A t \in Screens \ to : queue'[t] = queue[t]
         /\ \A t \in Screens : \A kind \in Kinds :
              /\ t \in to /\ f.kind = kind => Latest(t, kind)' = f.value
              /\ t \notin to \/ f.kind # kind =>
                   Latest(t, kind)' = Latest(t, kind) /\ (HasNone(t, kind)' <=> HasNone(t, kind))
  <1>1. Registered' = Registered
    BY DEF Registered
  <1>2. \A t \in Screens : queue'[t] = IF t \in to THEN Append(queue[t], f) ELSE queue[t]
    BY DEF Sent
  <1>3. DOMAIN queue' = Screens /\ \A t \in Screens : queue[t] \in Seq(Frames)
    BY DEF Sent, TypeInv
  <1>4. \A t \in Screens : queue'[t] \in Seq(Frames)
    BY <1>2, <1>3
  <1>5. ASSUME NEW t \in Screens, NEW kind \in Kinds
        PROVE  /\ t \in to /\ f.kind = kind => Latest(t, kind)' = f.value
               /\ t \notin to \/ f.kind # kind =>
                    Latest(t, kind)' = Latest(t, kind) /\ (HasNone(t, kind)' <=> HasNone(t, kind))
    <2>1. shown'[t] = shown[t]
      OBVIOUS
    <2>2. CASE t \in to
      <3>1. queue'[t] = Append(queue[t], f) /\ queue[t] \in Seq(Frames)
        BY <1>2, <1>3, <2>2
      <3>2. /\ f.kind = kind => Latest(t, kind)' = f.value
            /\ f.kind # kind =>
                 Latest(t, kind)' = Latest(t, kind) /\ (HasNone(t, kind)' <=> HasNone(t, kind))
        BY <2>1, <3>1, ScreenSent
      <3>3. QED BY <2>2, <3>2
    <2>3. CASE t \notin to
      BY <1>2, <2>1, <2>3, ScreenKept
    <2>4. QED BY <2>2, <2>3
  <1>6. QED BY <1>1, <1>2, <1>3, <1>4, <1>5

\* The table, the jobs or the end of it are put to those they were to be put to.
LEMMA Puts ==
  ASSUME IInv, UNCHANGED <<app, behind, main>>,
         \/ Put("putting", "counting") /\ changed' = FALSE
         \/ Put("saying", "top") /\ UNCHANGED changed
         \/ Put("telling", "ended") /\ UNCHANGED changed
  PROVE  IInv'
  <1> DEFINE f == kernel.sending.frame
  <1> DEFINE to == kernel.sending.to
  <1>1. /\ kernel.at \in {"putting", "saying", "telling"} /\ app # "chat" /\ queue' = Sent(f, to)
        /\ UNCHANGED <<app, behind, inbound, held, ready, flight, table, signal, tabs, shown>>
        /\ changed' = IF kernel.at = "putting" THEN FALSE ELSE changed
    BY DEF IInv, AppInv, Put, world
  <1>2. /\ f \in Frames /\ to \in SUBSET Screens
    BY Parts DEF IInv
  <1>3. /\ kernel' \in Threads /\ kernel'.sending.to = {} /\ kernel'.sending = Nobody
        /\ kernel'.at = CASE kernel.at = "putting" -> "counting" [] kernel.at = "saying" -> "top"
                          [] OTHER -> "ended"
    BY ThreadMade, NobodySender, Parts DEF Put, Places, IInv
  <1> HIDE DEF f, to
  <1>4. /\ Registered' = Registered
        /\ DOMAIN queue' = Screens /\ \A t \in Screens : queue'[t] \in Seq(Frames)
        /\ \A t \in Screens \ to : queue'[t] = queue[t]
        /\ \A t \in Screens : \A kind \in Kinds :
             /\ t \in to /\ f.kind = kind => Latest(t, kind)' = f.value
             /\ t \notin to \/ f.kind # kind =>
                  Latest(t, kind)' = Latest(t, kind) /\ (HasNone(t, kind)' <=> HasNone(t, kind))
    BY <1>1, <1>2, FramePut DEF IInv
  <1>5. TypeInv' /\ AppInv'
    BY <1>1, <1>3, <1>4 DEF IInv, TypeInv, AppInv
  <1>6. AwayInv' /\ ChatInv'
    BY <1>1, <1>3, <1>4 DEF IInv, AwayInv, ChatInv, to
  <1>7. FrameInv' /\ StepInv'
    BY <1>1, <1>3 DEF IInv, FrameInv, StepInv
  <1>8. Registered \subseteq Screens /\ {"table", "signal", "stopped"} = Kinds
    BY DEF Registered, Kinds
  <1>9. /\ f.kind = CASE kernel.at = "putting" -> "table" [] kernel.at = "saying" -> "signal"
                      [] OTHER -> "stopped"
        /\ kernel.at = "putting" => f.value = table
        /\ kernel.at = "saying" => f.value = signal
    BY <1>1 DEF IInv, FrameInv, Frame, f
  <1>10. TableInv'
    <2>1. CASE kernel.at = "putting"
      BY <1>1, <1>3, <1>4, <1>8, <1>9, <2>1 DEF IInv, TableInv, Shows, to
    <2>2. CASE kernel.at # "putting"
      BY <1>1, <1>3, <1>4, <1>8, <1>9, <2>2 DEF IInv, TableInv, Shows, to
    <2>3. QED BY <2>1, <2>2
  <1>11. SignalInv'
    <2>1. CASE kernel.at = "saying"
      BY <1>1, <1>3, <1>4, <1>8, <1>9, <2>1 DEF IInv, SignalInv, FrameInv, Shows, to
    <2>2. CASE kernel.at # "saying"
      BY <1>1, <1>3, <1>4, <1>8, <1>9, <2>2 DEF IInv, SignalInv, Shows, to
    <2>3. QED BY <2>1, <2>2
  <1>12. QED BY <1>5, <1>6, <1>7, <1>10, <1>11 DEF IInv

\* _set_busy, by whichever thread of the chat.
LEMMA BusyIsSet ==
  ASSUME IInv, app = "chat", NEW b \in {0, 1}, SetBusy(b),
         UNCHANGED <<app, held, inbound, ready, flight, table, changed, tabs, shown>>,
         kernel' \in Threads, kernel'.at \notin {"showing", "putting", "counting", "saying", "telling"},
         kernel'.sending = kernel.sending
  PROVE  IInv'
  <1> DEFINE f == Frame("signal", b)
  <1>1. f \in Frames /\ f.kind = "signal" /\ f.value = b
    BY DEF Frame, Frames, Kinds
  <1> HIDE DEF f
  <1>2. Registered \in SUBSET Screens /\ TypeInv /\ signal' = b /\ Registered' = Registered
    BY DEF Registered, IInv, SetBusy
  <1>3. /\ DOMAIN queue' = Screens /\ \A t \in Screens : queue'[t] \in Seq(Frames)
        /\ \A t \in Screens \ Registered : queue'[t] = queue[t]
        /\ \A t \in Registered : Latest(t, "signal")' = b
    <2>1. CASE signal = b
      <3>1. queue' = queue
        BY <2>1 DEF SetBusy
      <3>2. \A t \in Registered : Latest(t, "signal")' = Latest(t, "signal")
        BY <3>1, ScreenKept
      <3>3. QED BY <2>1, <3>1, <3>2 DEF IInv, TypeInv, ChatInv
    <2>2. CASE signal # b
      <3>1. queue' = Sent(f, Registered)
        BY <2>2 DEF SetBusy, f
      <3>2. QED BY <1>1, <1>2, <3>1, FramePut DEF Kinds
    <2>3. QED BY <2>1, <2>2
  <1>4. TypeInv'
    <2>1. signal' \in Int
      BY <1>2
    <2>2. QED BY <1>3, <2>1 DEF IInv, TypeInv
  <1>5. AppInv'
    <2>1. signal' \in {0, 1} /\ held' = FALSE
      BY <1>2 DEF IInv, AppInv
    <2>2. \A t \in Screens : app # "page" \/ t = Terminal => tabs'[t] \in {"away", "watching"}
      BY DEF IInv, AppInv
    <2>3. QED BY <2>1, <2>2 DEF AppInv
  <1>6. AwayInv'
    BY <1>2, <1>3 DEF IInv, AwayInv
  <1>7. ChatInv'
    BY <1>2, <1>3 DEF ChatInv
  <1>8. FrameInv' /\ TableInv' /\ StepInv' /\ SignalInv'
    BY DEF FrameInv, TableInv, StepInv, SignalInv
  <1>9. QED BY <1>4, <1>5, <1>6, <1>7, <1>8 DEF IInv

\* Every step of the kernel's thread keeps the invariant.
LEMMA KernelStep ==
  ASSUME IInv, ~Crossing, Kernel
  PROVE  IInv'
  <1>1. UNCHANGED <<app, behind, main>>
    BY DEF Kernel
  <1>2. CASE Reckoned
    <2>1. app = "chat"
      BY <1>2 DEF IInv, TypeInv, AppInv, Reckoned
    <2>2. /\ kernel' \in Threads /\ kernel'.at = "top" /\ kernel'.sending = kernel.sending
      BY <1>2, ThreadMoves DEF IInv, Reckoned, Goes, Places
    <2>3. PICK b \in {0, 1} : SetBusy(b)
      BY <1>2 DEF Reckoned
    <2>4. UNCHANGED <<app, held, inbound, ready, flight, table, changed, tabs, shown>>
      BY <1>1, <1>2 DEF Reckoned, world
    <2>5. QED BY <2>1, <2>2, <2>3, <2>4, BusyIsSet
  <1>3. QED BY <1>1, <1>2, QuietKernel, Delivers, JobGoesOn, Counts, Puts DEF Kernel

-----------------------------------------------------------------------------
(***************************************************************************)
(* The other threads, the pages and the main thread.                       *)
(***************************************************************************)
\* What is asked for is only queued.
LEMMA OnlyQueued ==
  ASSUME IInv, UNCHANGED <<app, ready, table, changed, signal, kernel, tabs, queue, shown>>,
         inbound' \in Nat, flight' \in Nat,
         app = "chat" => held' = FALSE,
         app # "chat" => behind'.on = 0 /\ behind'.off = 0
  PROVE  IInv'
  <1>1. Registered' = Registered /\ \A t \in Screens : \A kind \in Kinds :
          Latest(t, kind)' = Latest(t, kind) /\ (HasNone(t, kind)' <=> HasNone(t, kind))
    BY Unseen DEF fronts
  <1>2. TypeInv'
    BY DEF IInv, TypeInv
  <1>3. AppInv'
    BY DEF IInv, AppInv
  <1>4. AwayInv' /\ FrameInv' /\ StepInv'
    BY <1>1 DEF IInv, AwayInv, FrameInv, StepInv
  <1>5. ChatInv'
    BY <1>1 DEF IInv, ChatInv, Registered, Kinds
  <1>6. TableInv'
    BY <1>1 DEF IInv, TableInv, Registered, Kinds, Shows
  <1>7. SignalInv'
    BY <1>1 DEF IInv, SignalInv, Registered, Kinds, Shows
  <1>8. QED BY <1>2, <1>3, <1>4, <1>5, <1>6, <1>7 DEF IInv

\* Every step of a person, of a worker or of an HTTP thread keeps it.
LEMMA OthersStep ==
  ASSUME IInv, Others
  PROVE  IInv'
  <1>1. /\ UNCHANGED <<app, kernel, changed, tabs, shown>> /\ inbound \in Nat /\ flight \in Nat
        /\ app = "chat" => held = FALSE
        /\ app # "chat" => behind.on = 0 /\ behind.off = 0
    BY DEF Others, IInv, TypeInv, AppInv
  <1>2. CASE Ask \/ Hold \/ Answer \/ PostEnd
    <2>1. /\ inbound' \in Nat /\ flight' \in Nat /\ UNCHANGED <<ready, table, signal, queue, behind>>
          /\ app = "chat" => held' = FALSE
      BY <1>1, <1>2 DEF Ask, Hold, Answer, PostEnd
    <2>2. QED BY <1>1, <2>1, OnlyQueued
  <1>3. CASE Release
    <2>1. inbound' \in Nat /\ UNCHANGED <<flight, ready, table, signal, queue, behind>> /\ held' = FALSE
      BY <1>1, <1>3 DEF Release
    <2>2. QED BY <1>1, <2>1, OnlyQueued
  <1>4. CASE Say \/ Interrupt
    <2>1. /\ app = "chat" /\ UNCHANGED <<held, ready, table, signal, queue>>
          /\ \E dropped \in {0, flight} : flight' = flight - dropped
               /\ inbound' \in {inbound + dropped + 2, inbound + 1 + dropped}
      <3>1. CASE Say
        BY <3>1 DEF Say
      <3>2. CASE Interrupt
        <4>1. flight' = flight - flight /\ inbound' = inbound + 1 + flight
          BY <1>1, <3>2 DEF Interrupt
        <4>2. QED BY <3>2, <4>1 DEF Interrupt
      <3>3. QED BY <1>4, <3>1, <3>2
    <2>2. inbound' \in Nat /\ flight' \in Nat
      BY <1>1, <2>1
    <2>3. QED BY <1>1, <2>1, <2>2, OnlyQueued
  <1>5. ASSUME Behind(1, "on") \/ Behind(0, "off")
        PROVE  IInv'
    <2>1. app = "chat"
      BY <1>1, <1>5 DEF Behind
    <2>2. PICK b \in {0, 1} : SetBusy(b)
      BY <1>5 DEF Behind
    <2>3. UNCHANGED <<held, inbound, ready, flight, table>>
      BY <1>5 DEF Behind, world
    <2>4. kernel.at \notin {"showing", "putting", "counting", "saying", "telling"} /\ kernel \in Threads
      BY <2>1 DEF IInv, AppInv, TypeInv
    <2>5. QED BY <1>1, <2>1, <2>2, <2>3, <2>4, BusyIsSet
  <1>6. QED BY <1>2, <1>3, <1>4, <1>5 DEF Others, Reporting

\* Something happens at one screen.
LEMMA OneScreen ==
  ASSUME IInv, NEW t \in Screens,
         UNCHANGED <<app, held, inbound, ready, flight, table, changed, signal, behind>>,
         \A u \in Screens \ {t} : tabs'[u] = tabs[u] /\ queue'[u] = queue[u] /\ shown'[u] = shown[u],
         tabs' \in [Screens -> {"away", "greeting", "greeted", "watching"}],
         DOMAIN queue' = Screens, queue'[t] \in Seq(Frames), shown' \in [Screens -> [Kinds -> Nat]],
         kernel' \in Threads, kernel'.at = kernel.at, kernel'.fresh = kernel.fresh,
         kernel'.sending.frame = kernel.sending.frame,
         kernel'.sending.to \in {kernel.sending.to, kernel.sending.to \ {t}},
         app # "page" \/ t = Terminal => tabs'[t] \in {"away", "watching"},
         tabs'[t] = "away" => queue'[t] = <<>> /\ t \notin kernel'.sending.to,
         app = "chat" /\ tabs'[t] # "away" => Latest(t, "signal")' = signal,
         app # "chat" /\ tabs'[t] # "away" =>
           /\ \/ changed /\ (kernel.at # "putting" \/ t \in kernel'.sending.to)
              \/ Shows(t, "table", table, {"greeting"})'
           /\ \/ kernel.at = "saying" /\ t \in kernel'.sending.to
              \/ app = "page" /\ ready # signal
              \/ Shows(t, "signal", signal, {"greeting", "greeted"})'
  PROVE  IInv'
  <1>1. /\ Registered \subseteq Screens /\ Registered' \subseteq Screens
        /\ \A u \in Screens \ {t} : u \in Registered' <=> u \in Registered
        /\ (t \in Registered' <=> tabs'[t] # "away")
    BY DEF Registered
  <1>2. \A u \in Screens \ {t} : \A kind \in Kinds :
          Latest(u, kind)' = Latest(u, kind) /\ (HasNone(u, kind)' <=> HasNone(u, kind))
    BY ScreenKept
  <1>3. \A u \in Screens \ {t} : u \in kernel'.sending.to <=> u \in kernel.sending.to
    OBVIOUS
  <1>4. TypeInv'
    BY DEF IInv, TypeInv
  <1>5. AppInv'
    <2>1. \A u \in Screens : app # "page" \/ u = Terminal => tabs'[u] \in {"away", "watching"}
      BY DEF IInv, AppInv
    <2>2. QED BY <2>1 DEF IInv, AppInv
  <1>6. AwayInv'
    BY <1>1, <1>3 DEF IInv, AwayInv
  <1>7. ChatInv'
    BY <1>1, <1>2 DEF IInv, ChatInv, Kinds
  <1>8. FrameInv' /\ StepInv'
    BY DEF IInv, FrameInv, StepInv
  <1>9. TableInv'
    <2>1. ASSUME app # "chat", NEW u \in Registered'
          PROVE  \/ changed /\ (kernel.at # "putting" \/ u \in kernel'.sending.to)
                 \/ Shows(u, "table", table, {"greeting"})'
      <3>1. CASE u = t
        BY <1>1, <2>1, <3>1
      <3>2. CASE u # t
        <4>1. u \in Screens \ {t} /\ u \in Registered /\ tabs'[u] = tabs[u]
          BY <1>1, <3>2
        <4>2. \/ changed /\ (kernel.at # "putting" \/ u \in kernel.sending.to)
              \/ Shows(u, "table", table, {"greeting"})
          BY <2>1, <4>1 DEF IInv, TableInv
        <4>3. QED BY <1>2, <1>3, <4>1, <4>2 DEF Shows, Kinds
      <3>3. QED BY <3>1, <3>2
    <2>2. QED BY <2>1 DEF IInv, TableInv
  <1>10. SignalInv'
    <2>1. ASSUME app # "chat", NEW u \in Registered'
          PROVE  \/ kernel.at = "saying" /\ u \in kernel'.sending.to
                 \/ app = "page" /\ ready # signal
                 \/ Shows(u, "signal", signal, {"greeting", "greeted"})'
      <3>1. CASE u = t
        BY <1>1, <2>1, <3>1
      <3>2. CASE u # t
        <4>1. u \in Screens \ {t} /\ u \in Registered /\ tabs'[u] = tabs[u]
          BY <1>1, <3>2
        <4>2. \/ kernel.at = "saying" /\ u \in kernel.sending.to
              \/ app = "page" /\ ready # signal
              \/ Shows(u, "signal", signal, {"greeting", "greeted"})
          BY <2>1, <4>1 DEF IInv, SignalInv
        <4>3. QED BY <1>2, <1>3, <4>1, <4>2 DEF Shows, Kinds
      <3>3. QED BY <3>1, <3>2
    <2>2. QED BY <2>1 DEF IInv, SignalInv
  <1>11. QED BY <1>4, <1>5, <1>6, <1>7, <1>8, <1>9, <1>10 DEF IInv

\* A screen draws the first of what it was sent.
LEMMA Draws ==
  ASSUME IInv, NEW t \in Screens, queue[t] # <<>>, tabs[t] = "watching",
         UNCHANGED <<app, held, inbound, ready, flight, table, changed, signal, behind, kernel, tabs>>,
         queue' = [queue EXCEPT ![t] = Tail(queue[t])],
         shown' = [shown EXCEPT ![t][Head(queue[t]).kind] = Head(queue[t]).value]
  PROVE  IInv'
  <1>1. /\ kernel \in Threads /\ tabs \in [Screens -> {"away", "greeting", "greeted", "watching"}]
        /\ DOMAIN queue = Screens /\ \A u \in Screens : queue[u] \in Seq(Frames)
        /\ shown \in [Screens -> [Kinds -> Nat]]
    BY DEF IInv, TypeInv
  <1>2. Head(queue[t]) \in Frames
    BY <1>1
  <1>3. Head(queue[t]).kind \in Kinds /\ Head(queue[t]).value \in Nat
    BY <1>2 DEF Frames
  <1>4. \A kind \in Kinds : Latest(t, kind)' = Latest(t, kind)
    BY <1>1, ScreenDrew
  <1>5. /\ shown' \in [Screens -> [Kinds -> Nat]] /\ DOMAIN queue' = Screens
        /\ queue'[t] \in Seq(Frames)
        /\ \A u \in Screens \ {t} : queue'[u] = queue[u] /\ shown'[u] = shown[u]
    BY <1>1, <1>3
  <1>6. t \in Registered
    BY DEF Registered
  <1>7. app = "chat" => Latest(t, "signal")' = signal
    BY <1>4, <1>6 DEF IInv, ChatInv, Kinds
  <1>8. app # "chat" => \/ changed /\ (kernel.at # "putting" \/ t \in kernel.sending.to)
                        \/ Shows(t, "table", table, {"greeting"})'
    BY <1>4, <1>6 DEF IInv, TableInv, Kinds, Shows
  <1>9. app # "chat" => \/ kernel.at = "saying" /\ t \in kernel.sending.to
                        \/ app = "page" /\ ready # signal
                        \/ Shows(t, "signal", signal, {"greeting", "greeted"})'
    BY <1>4, <1>6 DEF IInv, SignalInv, Kinds, Shows
  <1>10. QED BY <1>1, <1>5, <1>7, <1>8, <1>9, OneScreen

\* Every step of a page and of its stream keeps it.
LEMMA PagesStep ==
  ASSUME IInv, Pages
  PROVE  IInv'
  <1>1. UNCHANGED <<app, held, inbound, ready, flight, table, changed, signal, behind>>
    BY DEF Pages, world, told
  <1>2. /\ kernel \in Threads /\ tabs \in [Screens -> {"away", "greeting", "greeted", "watching"}]
        /\ DOMAIN queue = Screens /\ \A t \in Screens : queue[t] \in Seq(Frames)
        /\ shown \in [Screens -> [Kinds -> Nat]] /\ table \in Nat /\ ready \in Nat
    BY DEF IInv, TypeInv
  <1>3. Tabs \subseteq Screens /\ \A t \in Tabs : t # Terminal
    BY FrontAssumption DEF Screens
  <1>4. ASSUME NEW t \in Tabs, tabs[t] = "away", Watch(t), UNCHANGED kernel
        PROVE  IInv'
    <2>1. app = "chat" /\ signal \in {0, 1}
      BY <1>4 DEF Watch, IInv, AppInv
    <2>2. Frame("signal", signal) \in Frames /\ Frame("signal", signal).kind = "signal"
          /\ Frame("signal", signal).value = signal
      BY <2>1 DEF Frame, Frames, Kinds
    <2>3. queue'[t] = Append(<<>>, Frame("signal", signal)) /\ <<>> \in Seq(Frames)
      BY <1>2, <1>3, <1>4 DEF Watch
    <2>4. Latest(t, "signal")' = signal /\ queue'[t] \in Seq(Frames)
      <3>1. \A old, f : f \in Frames /\ f.kind = "signal" =>
              NewestOf(Append(<<>>, f), "signal", old) = f.value
        BY <2>3, NewestSent
      <3>2. queue'[t] \in Seq(Frames)
        BY <2>2, <2>3
      <3>3. NewestOf(queue'[t], "signal", shown'[t]["signal"]) = signal
        BY <2>2, <2>3, <3>1
      <3>4. QED BY <3>2, <3>3, LatestNewest
    <2>5. QED BY <1>1, <1>2, <1>3, <1>4, <2>1, <2>4, OneScreen DEF Watch
  <1>5. ASSUME NEW t \in Tabs, tabs[t] = "away", Greeted(t), UNCHANGED kernel
        PROVE  IInv'
    <2>1. queue[t] = <<>>
      BY <1>3, <1>5 DEF IInv, AwayInv, Registered
    <2>2. HasNone(t, "table")' /\ HasNone(t, "signal")'
      BY <1>5, <2>1 DEF HasNone, Greeted
    <2>3. /\ Shows(t, "table", table, {"greeting"})'
          /\ Shows(t, "signal", signal, {"greeting", "greeted"})'
      BY <1>2, <1>3, <1>5, <2>2 DEF Greeted, Shows
    <2>4. QED BY <1>1, <1>2, <1>3, <1>5, <2>1, <2>3, OneScreen DEF Greeted
  <1>6. ASSUME NEW t \in Tabs, GreetTable(t), UNCHANGED kernel
        PROVE  IInv'
    <2>1. tabs[t] = "greeting" /\ t \in Registered /\ app = "page"
      BY <1>2, <1>3, <1>6 DEF GreetTable, Registered, IInv, AppInv
    <2>2. /\ tabs' = [tabs EXCEPT ![t] = "greeted"] /\ queue' = queue
          /\ shown' = [shown EXCEPT ![t]["table"] = table]
      BY <1>6 DEF GreetTable
    <2>3. /\ shown' \in [Screens -> [Kinds -> Nat]] /\ shown'[t]["table"] = table
          /\ shown'[t]["signal"] = shown[t]["signal"]
          /\ \A u \in Screens \ {t} : shown'[u] = shown[u]
      BY <1>2, <1>3, <2>2 DEF Kinds
    <2>4. Latest(t, "signal")' = Latest(t, "signal") /\ (HasNone(t, "signal")' <=> HasNone(t, "signal"))
      BY <2>2, <2>3, LatestNewest
    <2>5. /\ HasNone(t, "table") => Latest(t, "table")' = table
          /\ ~HasNone(t, "table") => Latest(t, "table")' = Latest(t, "table")
      BY <2>2, <2>3 DEF HasNone, Latest
    <2>6. \/ changed /\ (kernel.at # "putting" \/ t \in kernel.sending.to)
          \/ Shows(t, "table", table, {"greeting"})'
      BY <1>1, <1>2, <1>3, <2>1, <2>5 DEF IInv, TableInv, Shows
    <2>7. \/ kernel.at = "saying" /\ t \in kernel.sending.to
          \/ app = "page" /\ ready # signal
          \/ Shows(t, "signal", signal, {"greeting", "greeted"})'
      BY <1>1, <1>2, <1>3, <2>1, <2>2, <2>4 DEF IInv, SignalInv, Shows
    <2>8. tabs' \in [Screens -> {"away", "greeting", "greeted", "watching"}] /\ tabs'[t] = "greeted"
          /\ \A u \in Screens \ {t} : tabs'[u] = tabs[u]
      BY <1>2, <1>3, <2>2
    <2>9. QED BY <1>1, <1>2, <1>3, <1>6, <2>1, <2>2, <2>3, <2>6, <2>7, <2>8, OneScreen
  <1>7. ASSUME NEW t \in Tabs, GreetActivity(t), UNCHANGED kernel
        PROVE  IInv'
    <2>1. tabs[t] = "greeted" /\ t \in Registered /\ app = "page"
      BY <1>2, <1>3, <1>7 DEF GreetActivity, Registered, IInv, AppInv
    <2>2. /\ tabs' = [tabs EXCEPT ![t] = "watching"] /\ queue' = queue
          /\ shown' = [shown EXCEPT ![t]["signal"] = ready]
      BY <1>7 DEF GreetActivity
    <2>3. /\ shown' \in [Screens -> [Kinds -> Nat]] /\ shown'[t]["signal"] = ready
          /\ shown'[t]["table"] = shown[t]["table"]
          /\ \A u \in Screens \ {t} : shown'[u] = shown[u]
      BY <1>2, <1>3, <2>2 DEF Kinds
    <2>4. Latest(t, "table")' = Latest(t, "table") /\ (HasNone(t, "table")' <=> HasNone(t, "table"))
      BY <2>2, <2>3, LatestNewest
    <2>5. /\ HasNone(t, "signal") => Latest(t, "signal")' = ready
          /\ ~HasNone(t, "signal") => Latest(t, "signal")' = Latest(t, "signal")
      BY <2>2, <2>3 DEF HasNone, Latest
    <2>6. \/ changed /\ (kernel.at # "putting" \/ t \in kernel.sending.to)
          \/ Shows(t, "table", table, {"greeting"})'
      BY <1>1, <1>2, <1>3, <2>1, <2>4 DEF IInv, TableInv, Shows
    <2>7. \/ kernel.at = "saying" /\ t \in kernel.sending.to
          \/ app = "page" /\ ready # signal
          \/ Shows(t, "signal", signal, {"greeting", "greeted"})'
      BY <1>1, <1>2, <1>3, <2>1, <2>5 DEF IInv, SignalInv, Shows
    <2>8. tabs' \in [Screens -> {"away", "greeting", "greeted", "watching"}] /\ tabs'[t] = "watching"
          /\ \A u \in Screens \ {t} : tabs'[u] = tabs[u]
      BY <1>2, <1>3, <2>2
    <2>9. QED BY <1>1, <1>2, <1>3, <1>7, <2>1, <2>2, <2>3, <2>6, <2>7, <2>8, OneScreen
  <1>8. ASSUME NEW t \in Tabs, Draw(t), UNCHANGED kernel
        PROVE  IInv'
    <2>1. UNCHANGED tabs
      BY <1>8 DEF Draw
    <2>2. QED BY <1>1, <1>3, <1>8, <2>1, Draws DEF Draw
  <1>9. ASSUME NEW t \in Tabs, Unwatch(t)
        PROVE  IInv'
    <2>1. /\ tabs' = [tabs EXCEPT ![t] = "away"] /\ queue' = [queue EXCEPT ![t] = <<>>]
          /\ shown' = [shown EXCEPT ![t] = Blank]
      BY <1>9 DEF Unwatch
    <2>2. Blank \in [Kinds -> Nat] /\ <<>> \in Seq(Frames)
      BY DEF Blank
    <2>3. /\ tabs' \in [Screens -> {"away", "greeting", "greeted", "watching"}] /\ tabs'[t] = "away"
          /\ DOMAIN queue' = Screens /\ queue'[t] = <<>> /\ shown' \in [Screens -> [Kinds -> Nat]]
          /\ \A u \in Screens \ {t} : tabs'[u] = tabs[u] /\ queue'[u] = queue[u] /\ shown'[u] = shown[u]
      BY <1>2, <1>3, <2>1, <2>2
    <2>4. kernel' = [kernel EXCEPT !.sending = [frame |-> kernel.sending.frame,
                                                to |-> kernel.sending.to \ {t}]]
      BY <1>9 DEF Unwatch
    <2>5. [frame |-> kernel.sending.frame, to |-> kernel.sending.to \ {t}] \in Senders
      BY Parts DEF Senders, IInv
    <2>6. /\ kernel' \in Threads /\ kernel'.at = kernel.at /\ kernel'.fresh = kernel.fresh
          /\ kernel'.sending = [frame |-> kernel.sending.frame, to |-> kernel.sending.to \ {t}]
      BY <1>2, <2>4, <2>5 DEF Threads
    <2>7. kernel'.sending.frame = kernel.sending.frame /\ kernel'.sending.to = kernel.sending.to \ {t}
      BY <2>6
    <2>8. QED BY <1>1, <1>2, <1>3, <2>2, <2>3, <2>6, <2>7, OneScreen
  <1>10. QED BY <1>4, <1>5, <1>6, <1>7, <1>8, <1>9 DEF Pages, Connect, Stream

\* Every step of the main thread keeps it.
LEMMA MainStep ==
  ASSUME IInv, Main
  PROVE  IInv'
  <1>1. /\ UNCHANGED <<app, held, ready, flight, table, kernel, changed, signal, behind, tabs>>
        /\ inbound \in Nat /\ flight \in Nat
        /\ app = "chat" => held = FALSE
        /\ app # "chat" => behind.on = 0 /\ behind.off = 0
    BY DEF Main, IInv, TypeInv, AppInv, told
  <1>2. Terminal \in Screens /\ tabs[Terminal] \in {"away", "watching"}
    BY DEF Screens, IInv, AppInv
  <1>3. CASE Opening
    <2>1. CASE app # "console"
      <3>1. UNCHANGED <<inbound, queue, shown>>
        BY <1>3, <2>1 DEF Opening
      <3>2. QED BY <1>1, <3>1, OnlyQueued
    <2>2. CASE app = "console"
      <3>1. /\ kernel \in Threads /\ tabs \in [Screens -> {"away", "greeting", "greeted", "watching"}]
            /\ DOMAIN queue = Screens /\ \A t \in Screens : queue[t] \in Seq(Frames)
            /\ shown \in [Screens -> [Kinds -> Nat]] /\ table \in Nat
        BY DEF IInv, TypeInv
      <3>2. UNCHANGED <<inbound, queue>> /\ shown' = [shown EXCEPT ![Terminal]["table"] = table]
        BY <1>3, <2>2 DEF Opening
      <3>3. /\ shown' \in [Screens -> [Kinds -> Nat]] /\ shown'[Terminal]["table"] = table
            /\ shown'[Terminal]["signal"] = shown[Terminal]["signal"]
            /\ \A u \in Screens \ {Terminal} : shown'[u] = shown[u]
        BY <1>2, <3>1, <3>2 DEF Kinds
      <3>4. Latest(Terminal, "signal")' = Latest(Terminal, "signal")
        BY <3>2, <3>3, LatestNewest
      <3>5. /\ HasNone(Terminal, "table") => Latest(Terminal, "table")' = table
            /\ ~HasNone(Terminal, "table") => Latest(Terminal, "table")' = Latest(Terminal, "table")
        BY <3>2, <3>3 DEF HasNone, Latest
      <3>6. CASE tabs[Terminal] = "away"
        <4>1. queue[Terminal] = <<>> /\ Terminal \notin kernel.sending.to
          BY <1>2, <3>6 DEF IInv, AwayInv, Registered
        <4>2. QED BY <1>1, <1>2, <3>1, <3>2, <3>3, <3>6, <4>1, OneScreen
      <3>7. CASE tabs[Terminal] = "watching"
        <4>1. Terminal \in Registered
          BY <1>2, <3>7 DEF Registered
        <4>2. \/ changed /\ (kernel.at # "putting" \/ Terminal \in kernel.sending.to)
              \/ Shows(Terminal, "table", table, {"greeting"})'
          BY <1>1, <2>2, <3>5, <3>7, <4>1 DEF IInv, TableInv, Shows
        <4>3. \/ kernel.at = "saying" /\ Terminal \in kernel.sending.to
              \/ app = "page" /\ ready # signal
              \/ Shows(Terminal, "signal", signal, {"greeting", "greeted"})'
          BY <1>1, <2>2, <3>4, <3>7, <4>1 DEF IInv, SignalInv, Shows
        <4>4. QED BY <1>1, <1>2, <2>2, <3>1, <3>2, <3>3, <3>7, <4>2, <4>3, OneScreen
      <3>8. QED BY <1>2, <3>6, <3>7
    <2>3. QED BY <2>1, <2>2
  <1>4. CASE DrawAll
    <2>1. queue[Terminal] # <<>> /\ UNCHANGED inbound
      BY <1>4 DEF DrawAll
    <2>2. tabs[Terminal] = "watching"
      BY <1>2, <2>1 DEF IInv, AwayInv, Registered
    <2>3. QED BY <1>1, <1>2, <1>4, <2>1, <2>2, Draws DEF DrawAll
  <1>5. CASE Break \/ CheckStop \/ Read \/ Settle \/ StopChat \/ StopWorkspace \/ Close \/ Exit
    <2>1. UNCHANGED <<queue, shown>> /\ inbound' \in {inbound, inbound + 1}
      BY <1>5 DEF Break, CheckStop, Read, Act, Settle, StopChat, StopWorkspace, Close, Exit
    <2>2. inbound' \in Nat
      BY <1>1, <2>1
    <2>3. QED BY <1>1, <2>1, <2>2, OnlyQueued
  <1>6. QED BY <1>3, <1>4, <1>5 DEF Main, Turning

-----------------------------------------------------------------------------
(***************************************************************************)
(* The invariant is inductive, and what follows.                           *)
(***************************************************************************)
\* It holds at the start.
LEMMA InvInit ==
  ASSUME Init
  PROVE  IInv
  <1>1. app \in {"chat", "page", "console"}
    BY FrontAssumption DEF Init
  <1>2. Blank \in [Kinds -> Nat] /\ Blank["table"] = 0 /\ Blank["signal"] = 0 /\ <<>> \in Seq(Frames)
    BY DEF Blank, Kinds
  <1>3. /\ kernel = Thread("top", FALSE, Nobody) /\ Thread("top", FALSE, Nobody) \in Threads
        /\ kernel.at = "top" /\ kernel.sending.to = {}
    BY NobodySender DEF Init, Thread, Threads, Places
  <1>4. \A t \in Screens : queue[t] = <<>> /\ shown[t] = Blank
    BY DEF Init
  <1>5. \A t \in Screens : tabs[t] \in {"away", "watching"} /\ (app = "chat" => tabs[t] = "away")
    BY DEF Init
  <1>6. \A t \in Screens : \A kind \in Kinds : Latest(t, kind) = shown[t][kind]
    <2>1. TAKE t \in Screens
    <2>2. TAKE kind \in Kinds
    <2>3. HasNone(t, kind)
      BY <1>4 DEF HasNone
    <2>4. QED BY <2>3 DEF HasNone, Latest
  <1>7. ready \in Nat
    BY DEF Init
  <1>8. TypeInv
    <2>1. inbound \in Nat /\ flight \in Nat /\ table \in Nat /\ signal \in Int /\ changed \in BOOLEAN
      <3>1. inbound = 0 /\ flight = 0 /\ table = 0 /\ changed = FALSE
        BY DEF Init
      <3>2. signal = -1 \/ signal = 0
        BY DEF Init
      <3>3. inbound \in Nat /\ flight \in Nat /\ table \in Nat /\ signal \in Int
        BY <3>1, <3>2
      <3>4. changed \in BOOLEAN
        BY <3>1
      <3>5. QED BY <3>3, <3>4
    <2>2. tabs \in [Screens -> {"away", "greeting", "greeted", "watching"}]
      BY DEF Init
    <2>3. DOMAIN queue = Screens /\ \A t \in Screens : queue[t] \in Seq(Frames)
      BY <1>2 DEF Init
    <2>4. shown \in [Screens -> [Kinds -> Nat]]
      BY <1>2 DEF Init
    <2>5. QED BY <1>1, <1>3, <1>7, <2>1, <2>2, <2>3, <2>4 DEF TypeInv
  <1>9. AppInv /\ AwayInv
    BY <1>1, <1>3, <1>5 DEF Init, AppInv, AwayInv, Blocks
  <1>10. ChatInv /\ FrameInv /\ StepInv
    BY <1>3, <1>5 DEF Init, ChatInv, FrameInv, StepInv, Registered
  <1>11. TableInv
    BY <1>2, <1>4, <1>6 DEF Init, TableInv, Shows, Registered, Kinds
  <1>12. SignalInv
    <2>1. app = "page" => ready # signal
      BY <1>7 DEF Init
    <2>2. app = "console" => signal = 0
      BY DEF Init
    <2>3. QED BY <1>1, <1>2, <1>4, <1>6, <2>1, <2>2 DEF SignalInv, Shows, Registered, Kinds
  <1>13. QED BY <1>8, <1>9, <1>10, <1>11, <1>12 DEF IInv

\* It is inductive.
LEMMA InvStep ==
  ASSUME IInv, ~Crossing, [Next]_vars
  PROVE  IInv'
  <1>1. CASE UNCHANGED vars
    <2>1. UNCHANGED <<app, ready, table, changed, signal, kernel, tabs, queue, shown, inbound, flight,
                      held, behind>>
      BY <1>1 DEF vars, world, told, fronts
    <2>2. /\ inbound' \in Nat /\ flight' \in Nat /\ (app = "chat" => held' = FALSE)
          /\ app # "chat" => behind'.on = 0 /\ behind'.off = 0
      BY <2>1 DEF IInv, TypeInv, AppInv
    <2>3. QED BY <2>1, <2>2, OnlyQueued
  <1>2. CASE Next
    BY <1>2, KernelStep, OthersStep, PagesStep, MainStep DEF Next
  <1>3. QED BY <1>1, <1>2

\* It says that nothing is missed.
LEMMA SeenByAll ==
  ASSUME IInv
  PROVE  NothingMissed
  <1>1. SUFFICES ASSUME NEW t \in Watching
                 PROVE  /\ ~Blocks => Latest(t, "signal") = signal
                        /\ Blocks /\ kernel.at = "top" =>
                             /\ Latest(t, "table") = table
                             /\ signal = ready => Latest(t, "signal") = ready
    BY DEF NothingMissed
  <1>2. t \in Registered /\ tabs[t] = "watching"
    BY DEF Watching, Registered
  <1>3. CASE app = "chat"
    BY <1>2, <1>3 DEF IInv, ChatInv, Blocks
  <1>4. CASE app # "chat"
    BY <1>2, <1>4 DEF IInv, TypeInv, TableInv, SignalInv, Shows, Blocks
  <1>5. QED BY <1>3, <1>4

\* Whoever watches is not left behind (_push and _stream in zeos-blocks web/server.py, _set_busy
\* and watch in zeos-chat web/server.py, the console's queue): for any number of browsers, opening
\* and leaving at any moment, and any number of requests, jobs and changes of the table.
THEOREM NobodyIsLeftBehind ==
  ASSUME ~Crossing
  PROVE  Spec => []NothingMissed
  <1>1. Init => IInv
    BY InvInit
  <1>2. IInv /\ [Next]_vars => IInv'
    BY InvStep
  <1>3. IInv => NothingMissed
    BY SeenByAll
  <1>4. QED BY <1>1, <1>2, <1>3, PTL DEF Spec

(***************************************************************************)
(* The journal: what the thread, the flag and the close know of each other.*)
(***************************************************************************)
IsThread(k) == k = [at |-> k.at, ran |-> k.ran, fresh |-> k.fresh, sending |-> k.sending]
IsMain(m)   == m = [at |-> m.at, reading |-> m.reading, quiet |-> m.quiet]

\* The workspace has been told to stop, and its session is closed after that.
ToldToStop == main.at \in {"joining", "leaving", "done"}

JournalInv ==
  /\ IsThread(kernel) /\ IsMain(main)
  /\ app # "chat" => /\ ToldToStop => stop /\ (inhand \/ kernel.at \in {"top", "ended"})
                     /\ file # -1 => main.at \in {"leaving", "done"}
  /\ app = "chat" => /\ main.at \notin {"joining", "leaving"}
                     /\ file # -1 => kernel.at = "ended"
  /\ JournalWhole

\* A step of the kernel's thread leaves a thread, and which thread's actions write what.
LEMMA KernelThread ==
  ASSUME IsThread(kernel), Kernel
  PROVE  IsThread(kernel')
  <1>1. kernel = [at |-> kernel.at, ran |-> kernel.ran, fresh |-> kernel.fresh, sending |-> kernel.sending]
    BY DEF IsThread
  <1>2. \A a : IsThread([kernel EXCEPT !.at = a])
    BY <1>1 DEF IsThread
  <1>3. \A a, ran, s : IsThread(Thread(a, ran, s))
    BY DEF IsThread, Thread
  <1>4. \A a, ran, s : IsThread([Thread(a, ran, s) EXCEPT !.fresh = 1])
    BY DEF IsThread, Thread
  <1>5. CASE Begin \/ Ended \/ Take \/ Drained \/ Show \/ Look \/ LookOn \/ Reckoned
    <2>1. \/ \E a, ran, s : kernel' = Thread(a, ran, s)
          \/ \E a : kernel' = [kernel EXCEPT !.at = a]
      <3>1. CASE Begin
        BY <3>1 DEF Begin, Goes
      <3>2. CASE Show
        BY <3>2 DEF Show
      <3>3. CASE Ended \/ Take \/ Drained \/ Look \/ LookOn \/ Reckoned
        BY <3>3 DEF Ended, Take, Drained, Look, LookOn, Reckoned, Goes
      <3>4. QED BY <1>5, <3>1, <3>2, <3>3
    <2>2. QED BY <1>2, <1>3, <2>1
  <1>6. CASE IdleTick \/ JobTick \/ FailPage \/ FailConsole \/ Count
    BY <1>3, <1>6 DEF IdleTick, JobTick, Ticked, FailPage, FailConsole, Count
  <1>7. CASE Put("putting", "counting") \/ Put("saying", "top") \/ Put("telling", "ended")
    BY <1>3, <1>7 DEF Put
  <1>8. CASE Deliver
    BY <1>2, <1>4, <1>8 DEF Deliver, Goes
  <1>9. QED BY <1>5, <1>6, <1>7, <1>8 DEF Kernel

\* Told to stop between two steps, the thread does nothing more than end; and once a chat's has
\* ended it has written the journal and does nothing at all.
LEMMA JournalKernel ==
  ASSUME JournalInv, Kernel
  PROVE  JournalInv'
  <1>1. /\ IsThread(kernel) /\ IsMain(main) /\ IsThread(kernel') /\ UNCHANGED <<app, main, inhand>>
    <2>1. IsThread(kernel) /\ IsMain(main)
      BY DEF JournalInv
    <2>2. UNCHANGED <<app, main>>
      BY DEF Kernel
    <2>3. UNCHANGED inhand
      BY DEF Kernel, Begin, Ended, Take, Deliver, Drained, IdleTick, JobTick, FailPage, FailConsole, Show,
             Put, Count, Look, LookOn, Reckoned, ending, journal
    <2>4. QED BY <2>1, <2>2, <2>3, KernelThread
  <1>2. kernel.at # "ended"
    BY DEF Kernel, Begin, Ended, Take, Deliver, Drained, IdleTick, JobTick, Raises, FailPage,
           FailConsole, Show, Put, Count, Look, LookOn, Reckoned
  <1>3. stop => stop'
    BY DEF Kernel, Begin, Ended, Take, Deliver, Drained, IdleTick, JobTick, FailPage, FailConsole, Show,
           Put, Count, Look, LookOn, Reckoned, ending
  <1>4. CASE Ended
    <2>1. /\ kernel'.at = "ended" /\ table' = table
          /\ file' = IF app = "chat" THEN table ELSE file
      BY <1>1, <1>4 DEF Ended, Goes, IsThread, world
    <2>2. JournalWhole'
      BY <1>1, <2>1 DEF JournalInv, JournalWhole
    <2>3. QED BY <1>1, <1>3, <2>1, <2>2 DEF JournalInv, ToldToStop
  <1>5. CASE ~Ended
    <2>1. file' = file
      BY <1>5 DEF Kernel, Begin, Take, Deliver, Drained, IdleTick, JobTick, FailPage, FailConsole, Show,
                  Put, Count, Look, LookOn, Reckoned, ending, journal
    <2>2. app # "chat" /\ ToldToStop => inhand
      <3>1. SUFFICES ASSUME app # "chat", ToldToStop, ~inhand
                     PROVE  FALSE
        OBVIOUS
      <3>2. stop /\ kernel.at = "top"
        BY <1>2, <3>1 DEF JournalInv
      <3>3. QED BY <1>5, <3>2 DEF Kernel, Begin, Ended, Take, Deliver, Drained, IdleTick, JobTick, Raises,
                                  FailPage, FailConsole, Show, Put, Count, Look, LookOn, Reckoned
    <2>3. app = "chat" => file = -1
      BY <1>2 DEF JournalInv
    <2>4. JournalWhole'
      BY <1>1, <2>1, <2>2, <2>3 DEF JournalInv, JournalWhole, ToldToStop
    <2>5. QED BY <1>1, <1>3, <2>1, <2>2, <2>3, <2>4 DEF JournalInv, ToldToStop
  <1>6. QED BY <1>4, <1>5

\* The main thread sets the flag, closes and leaves, in that order.
LEMMA JournalMain ==
  ASSUME JournalInv, Main
  PROVE  JournalInv'
  <1>1. /\ IsThread(kernel) /\ UNCHANGED <<app, kernel, table>>
        /\ main = [at |-> main.at, reading |-> main.reading, quiet |-> main.quiet]
    BY DEF JournalInv, IsMain, Main
  <1> DEFINE M(a, r, q) == [at |-> a, reading |-> r, quiet |-> q]
  <1>a. \A a : [main EXCEPT !.at = a] = M(a, main.reading, main.quiet)
    BY <1>1
  <1>b. \A a, r : [main EXCEPT !.at = a, !.reading = r] = M(a, r, main.quiet)
    <2>1. TAKE a, r
    <2>2. [main EXCEPT !.at = a, !.reading = r] = [M(a, main.reading, main.quiet) EXCEPT !.reading = r]
      BY <1>a
    <2>3. QED BY <2>2
  <1>c. \A a, q : [main EXCEPT !.at = a, !.quiet = q] = M(a, main.reading, q)
    <2>1. TAKE a, q
    <2>2. [main EXCEPT !.at = a, !.quiet = q] = [M(a, main.reading, main.quiet) EXCEPT !.quiet = q]
      BY <1>a
    <2>3. QED BY <2>2
  <1>d. \A a, r, q : IsMain(M(a, r, q)) /\ M(a, r, q).at = a
    BY DEF IsMain
  <1> HIDE DEF M
  <1>2. \A a : main' = [main EXCEPT !.at = a] => IsMain(main') /\ main'.at = a
    <2>1. SUFFICES ASSUME NEW a, main' = [main EXCEPT !.at = a]
                   PROVE  IsMain(main') /\ main'.at = a
      OBVIOUS
    <2>2. main' = M(a, main.reading, main.quiet)
      BY <1>a, <2>1
    <2>3. QED BY <1>d, <2>2
  <1>3. CASE Opening \/ Break \/ CheckStop \/ DrawAll \/ Read \/ Settle
    <2>1. UNCHANGED <<stop, file, inhand>>
      BY <1>3 DEF Opening, Break, CheckStop, DrawAll, Read, Settle, journal
    <2>2. ~ToldToStop
      BY <1>3 DEF Opening, Break, CheckStop, DrawAll, Read, Settle, ToldToStop
    <2>3. IsMain(main') /\ main'.at \notin {"joining", "leaving", "done"}
      <3>1. CASE Opening
        BY <1>2, <3>1 DEF Opening, MainAt
      <3>2. CASE Break
        BY <1>2, <3>2 DEF Break, MainAt
      <3>3. CASE CheckStop
        BY <1>2, <3>3 DEF CheckStop, MainAt
      <3>4. CASE DrawAll
        BY <2>2, <3>4 DEF DrawAll, ToldToStop, JournalInv
      <3>5. CASE Read
        <4>1. \/ \E a \in {"stopping", "checking"} : main' = [main EXCEPT !.at = a]
              \/ \E r : main' = [main EXCEPT !.at = "settling", !.reading = r]
          BY <3>5 DEF Read, Act, MainAt
        <4>2. CASE \E r : main' = [main EXCEPT !.at = "settling", !.reading = r]
          <5>1. PICK r : main' = [main EXCEPT !.at = "settling", !.reading = r]
            BY <4>2
          <5>2. main' = M("settling", r, main.quiet)
            BY <1>b, <5>1
          <5>3. QED BY <1>d, <5>2
        <4>3. QED BY <1>2, <4>1, <4>2
      <3>6. CASE Settle
        <4>1. \E a \in {"stopping", "checking"} : \E q : main' = [main EXCEPT !.at = a, !.quiet = q]
          BY <3>6 DEF Settle
        <4>2. PICK a \in {"stopping", "checking"} : \E q : main' = [main EXCEPT !.at = a, !.quiet = q]
          BY <4>1
        <4>3. PICK q : main' = [main EXCEPT !.at = a, !.quiet = q]
          BY <4>2
        <4>4. main' = M(a, main.reading, q)
          BY <1>c, <4>3
        <4>5. IsMain(main') /\ main'.at = a
          BY <1>d, <4>4
        <4>6. QED BY <4>2, <4>5
      <3>7. QED BY <1>3, <3>1, <3>2, <3>3, <3>4, <3>5, <3>6
    <2>4. app # "chat" => file = -1
      BY <2>2 DEF JournalInv, ToldToStop
    <2>5. JournalWhole'
      BY <1>1, <2>1 DEF JournalInv, JournalWhole
    <2>6. QED BY <1>1, <2>1, <2>3, <2>4, <2>5 DEF JournalInv, ToldToStop
  <1>4. CASE StopChat
    <2>1. app = "chat" /\ UNCHANGED <<file, inhand>> /\ IsMain(main') /\ main'.at = "done"
      BY <1>2, <1>4 DEF StopChat, MainAt, journal
    <2>2. JournalWhole'
      BY <1>1, <2>1 DEF JournalInv, JournalWhole
    <2>3. QED BY <1>1, <2>1, <2>2 DEF JournalInv
  <1>5. CASE StopWorkspace
    <2>1. app # "chat" /\ UNCHANGED file /\ IsMain(main') /\ main'.at = "joining" /\ stop'
      BY <1>2, <1>5 DEF StopWorkspace, MainAt, Blocks
    <2>2. inhand' \/ kernel'.at \in {"top", "ended"}
      BY <1>1, <1>5 DEF StopWorkspace
    <2>3. file = -1
      BY <1>5, <2>1 DEF StopWorkspace, JournalInv
    <2>4. QED BY <1>1, <2>1, <2>2, <2>3 DEF JournalInv, JournalWhole
  <1>6. CASE Close
    <2>1. /\ app # "chat" /\ UNCHANGED <<stop, inhand>> /\ file' = table
          /\ IsMain(main') /\ main'.at = "leaving"
      BY <1>2, <1>6 DEF Close, MainAt, JournalInv
    <2>2. stop /\ (inhand \/ kernel.at \in {"top", "ended"})
      BY <1>6, <2>1 DEF Close, JournalInv, ToldToStop
    <2>3. QED BY <1>1, <2>1, <2>2 DEF JournalInv, JournalWhole
  <1>7. CASE Exit
    <2>1. /\ app # "chat" /\ UNCHANGED <<stop, file, inhand>> /\ IsMain(main') /\ main'.at = "done"
      BY <1>2, <1>7 DEF Exit, MainAt, JournalInv, journal
    <2>2. stop /\ (inhand \/ kernel.at \in {"top", "ended"})
      BY <1>7, <2>1 DEF Exit, JournalInv, ToldToStop
    <2>3. JournalWhole'
      BY <1>1, <2>1 DEF JournalInv, JournalWhole
    <2>4. QED BY <1>1, <2>1, <2>2, <2>3 DEF JournalInv
  <1>8. QED BY <1>3, <1>4, <1>5, <1>6, <1>7 DEF Main, Turning

\* Every step keeps it.
LEMMA JournalKept ==
  ASSUME JournalInv, [Next]_vars
  PROVE  JournalInv'
  <1>1. ASSUME UNCHANGED <<app, table, main, ending>>, IsThread(kernel'), kernel'.at = kernel.at
        PROVE  JournalInv'
    BY <1>1 DEF ending, journal, JournalInv, JournalWhole, ToldToStop
  <1>2. CASE UNCHANGED vars
    BY <1>1, <1>2 DEF vars, world, ending, JournalInv
  <1>3. CASE Others
    <2>1. UNCHANGED table
      BY <1>3 DEF Others, Ask, Hold, Say, Interrupt, Answer, Reporting, Release, Behind, PostEnd, world
    <2>2. QED BY <1>1, <1>3, <2>1 DEF Others, JournalInv
  <1>4. CASE Pages
    <2>1. kernel' = kernel \/ \E s : kernel' = [kernel EXCEPT !.sending = s]
      BY <1>4 DEF Pages, Unwatch
    <2>2. IsThread(kernel') /\ kernel'.at = kernel.at
      BY <2>1 DEF IsThread, JournalInv
    <2>3. QED BY <1>1, <1>4, <2>2 DEF Pages, world
  <1>5. QED BY <1>2, <1>3, <1>4, JournalKernel, JournalMain DEF Next

\* The journal lacks nothing, unless a step was in flight when the workspace was told to stop
\* (Console.drive, BlocksServer.close): whatever the join's two seconds come to, and whatever the
\* thread still does under the close.
THEOREM TheJournalIsWhole == Spec => []JournalWhole
  <1>1. Init => JournalInv
    BY FrontAssumption DEF Init, JournalInv, JournalWhole, ToldToStop, IsThread, IsMain, Thread
  <1>2. JournalInv /\ [Next]_vars => JournalInv'
    BY JournalKept
  <1>3. JournalInv => JournalWhole
    BY DEF JournalInv
  <1>4. QED BY <1>1, <1>2, <1>3, PTL DEF Spec
=============================================================================
