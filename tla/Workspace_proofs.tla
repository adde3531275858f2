-------------------------- MODULE Workspace_proofs --------------------------
(***************************************************************************)
(* What is proved of the workspace, for any blocks, table, goals, hands    *)
(* and number of moves and sentences.                                      *)
(***************************************************************************)
EXTENDS Workspace, FiniteSetTheorems, SequenceTheorems, WellFoundedInduction, TLAPS

-----------------------------------------------------------------------------
(***************************************************************************)
(* The lowest and the highest of some numbers, and the fullest stack.      *)
(***************************************************************************)
Less == {ss \in Nat \X Nat : ss[1] < ss[2]}

LEMMA Lowest ==
  ASSUME NEW S \in SUBSET Nat, S # {}
  PROVE  Min(S) \in S /\ Min(S) \in Nat /\ \A k \in S : Min(S) <= k
  <1>1. IsWellFoundedOn(Less, Nat)
    BY NatLessThanWellFounded DEF OpToRel, Less
  <1>2. \E x \in S : \A y \in S : ~(<<y, x>> \in Less)
    BY <1>1, WFMin, Zenon
  <1>3. \A x, y \in S : y < x => <<y, x>> \in Less
    BY DEF Less
  <1>4. \A x, y \in S : ~(y < x) <=> x <= y
    BY SMT
  <1>5. \E x \in S : \A y \in S : x <= y
    BY <1>2, <1>3, <1>4
  <1>6. QED BY <1>5 DEF Min

LEMMA Highest ==
  ASSUME NEW S \in SUBSET Nat, S # {}, NEW u \in Nat, \A k \in S : k <= u
  PROVE  Max(S) \in S /\ Max(S) \in Nat /\ \A k \in S : k <= Max(S)
  <1> DEFINE B == {n \in Nat : \A k \in S : k <= n}
  <1> DEFINE m == Min(B)
  <1>1. B \in SUBSET Nat /\ B # {}
    OBVIOUS
  <1>2. m \in B /\ m \in Nat /\ \A n \in B : m <= n
    BY <1>1, Lowest
  <1>3. \A k \in S : k <= m
    BY <1>2
  <1> HIDE DEF m
  <1>4. m \in S
    <2>1. SUFFICES ASSUME m \notin S PROVE FALSE
      OBVIOUS
    <2>2. PICK k \in S : TRUE
      OBVIOUS
    <2>3. \A i \in S : i <= m - 1
      BY <1>2, <1>3, <2>1
    <2>4. m - 1 \in Nat
      BY <1>2, <2>2, <2>3
    <2>5. m - 1 \in B
      BY <2>3, <2>4
    <2>6. m <= m - 1
      BY <1>2, <2>5
    <2>7. QED BY <1>2, <2>6
  <1>5. \E x \in S : \A y \in S : x >= y
    BY <1>2, <1>3, <1>4
  <1>6. Max(S) \in S /\ \A y \in S : Max(S) >= y
    BY <1>5 DEF Max
  <1>7. QED BY <1>6

\* Stacks have a height: there is a number none of them is over.
LEMMA Heights ==
  ASSUME NEW n \in Nat, NEW f, \A p \in 1 .. n : f[p] \in Nat
  PROVE  \E u \in Nat : \A p \in 1 .. n : f[p] <= u
  <1> DEFINE Unbounded == {m \in 0 .. n : \A u \in Nat : \E p \in 1 .. m : f[p] > u}
  <1>1. CASE Unbounded = {}
    <2>1. n \notin Unbounded
      BY <1>1
    <2>2. \E u \in Nat : \A p \in 1 .. n : ~(f[p] > u)
      BY <2>1
    <2>3. QED BY <2>2
  <1>2. CASE Unbounded # {}
    <2> DEFINE m == Min(Unbounded)
    <2>0. Unbounded \in SUBSET Nat
      OBVIOUS
    <2>1. m \in Unbounded /\ \A k \in Unbounded : m <= k
      BY <1>2, <2>0, Lowest
    <2> HIDE DEF m
    <2>2. m # 0
      BY <2>1
    <2>3. m - 1 \in 0 .. n /\ ~(m <= m - 1) /\ m \in 1 .. n
      BY <2>1, <2>2
    <2>4. m - 1 \notin Unbounded
      BY <2>1, <2>3
    <2>5. PICK u \in Nat : \A p \in 1 .. m - 1 : ~(f[p] > u)
      BY <2>3, <2>4
    <2> DEFINE v == IF f[m] > u THEN f[m] ELSE u
    <2>6. v \in Nat
      BY <2>3
    <2>7. \A p \in 1 .. m : ~(f[p] > v)
      <3>1. TAKE p \in 1 .. m
      <3>2. p = m \/ p \in 1 .. m - 1
        BY <2>3
      <3>3. f[p] \in Nat /\ f[m] \in Nat
        BY <2>3
      <3>4. QED BY <2>5, <3>2, <3>3
    <2>8. QED BY <2>1, <2>6, <2>7
  <1>3. QED BY <1>1, <1>2

LEMMA Fuller ==
  ASSUME NEW tbl \in Tables, NEW S \in SUBSET Positions, S # {}
  PROVE  Fullest(tbl, S) \in S
  <1> DEFINE h == [p \in Positions |-> Len(tbl[p])]
  <1>1. N \in Nat /\ \A p \in Positions : h[p] \in Nat /\ h[p] = Len(tbl[p])
    BY WorkspaceAssumption DEF Tables
  <1> HIDE DEF h
  <1>2. PICK u \in Nat : \A p \in Positions : h[p] <= u
    BY <1>1, Heights DEF Positions
  <1> DEFINE T == {h[p] : p \in S}
  <1> DEFINE top == Max(T)
  <1>3. T \in SUBSET Nat /\ T # {} /\ \A k \in T : k <= u
    BY <1>1, <1>2
  <1>4. top \in T /\ \A k \in T : k <= top
    BY <1>3, Highest
  <1> HIDE DEF top
  <1> DEFINE F == {p \in S : h[p] = top}
  <1> DEFINE last == Max(F)
  <1>5. F \in SUBSET Nat /\ F # {} /\ \A p \in F : p <= N
    <2>1. \A p \in Positions : p \in Nat /\ p <= N
      BY <1>1 DEF Positions
    <2>2. \E p \in S : h[p] = top
      BY <1>4
    <2>3. QED BY <2>1, <2>2
  <1>6. last \in F /\ \A p \in F : p <= last
    BY <1>1, <1>5, Highest
  <1> HIDE DEF last
  <1>7. \A q \in S : Len(tbl[q]) < Len(tbl[last]) \/ (Len(tbl[q]) = Len(tbl[last]) /\ q <= last)
    <2>1. TAKE q \in S
    <2>2. h[q] <= top /\ h[last] = top /\ last \in S /\ h[q] \in Nat /\ top \in Nat
      BY <1>1, <1>4, <1>6
    <2>3. CASE h[q] = top
      <3>1. q \in F
        BY <2>3
      <3>2. QED BY <1>1, <1>6, <2>2, <2>3, <3>1
    <2>4. CASE h[q] # top
      BY <1>1, <2>2, <2>4
    <2>5. QED BY <2>3, <2>4
  <1>8. QED BY <1>6, <1>7 DEF Fullest

-----------------------------------------------------------------------------
(***************************************************************************)
(* The table: a block lifted out and put down.                             *)
(***************************************************************************)
AllBut(tbl, b) == NoneTwice(tbl) /\ b \notin BlocksOf(tbl) /\ Blocks \ {b} \subseteq BlocksOf(tbl)

\* A table is what its places hold.
LEMMA Places ==
  ASSUME NEW tbl \in Tables
  PROVE  /\ N \in Nat /\ Positions = 1 .. N
         /\ \A p \in Positions : /\ tbl[p] \in Seq(Blocks) /\ Len(tbl[p]) \in Nat
                                 /\ DOMAIN tbl[p] = 1 .. Len(tbl[p])
                                 /\ \A k \in DOMAIN tbl[p] : tbl[p][k] \in Blocks
         /\ \A b : b \in BlocksOf(tbl) <=> \E p \in Positions : \E k \in DOMAIN tbl[p] : tbl[p][k] = b
         /\ \A p, b : b \in ToSet(tbl[p]) <=> \E k \in DOMAIN tbl[p] : tbl[p][k] = b
         /\ BlocksOf(tbl) \subseteq Blocks
  <1>1. N \in Nat /\ Positions = 1 .. N
    BY WorkspaceAssumption DEF Positions
  <1>2. \A p \in Positions : /\ tbl[p] \in Seq(Blocks) /\ Len(tbl[p]) \in Nat
                             /\ DOMAIN tbl[p] = 1 .. Len(tbl[p])
                             /\ \A k \in DOMAIN tbl[p] : tbl[p][k] \in Blocks
    BY DEF Tables
  <1>3. \A p, b : b \in ToSet(tbl[p]) <=> \E k \in DOMAIN tbl[p] : tbl[p][k] = b
    BY DEF ToSet
  <1>4. \A b : b \in BlocksOf(tbl) <=> \E p \in Positions : \E k \in DOMAIN tbl[p] : tbl[p][k] = b
    <2>1. \A b : b \in BlocksOf(tbl) <=> \E p \in Positions : b \in ToSet(tbl[p])
      BY Zenon DEF BlocksOf
    <2>2. QED BY <1>3, <2>1
  <1>5. QED BY <1>1, <1>2, <1>3, <1>4

\* A block that is there is where it is found.
LEMMA Found ==
  ASSUME NEW tbl \in Tables, NEW b \in BlocksOf(tbl)
  PROVE  /\ b \in Blocks /\ PositionOf(tbl, b) \in Positions /\ PositionsOf(tbl, b) # {}
         /\ \E k \in DOMAIN tbl[PositionOf(tbl, b)] : tbl[PositionOf(tbl, b)][k] = b
  <1> DEFINE S == PositionsOf(tbl, b)
  <1>1. PICK p \in Positions : \E k \in DOMAIN tbl[p] : tbl[p][k] = b
    BY Places
  <1>2. p \in S
    BY <1>1, Places DEF PositionsOf
  <1>3. S \subseteq Positions /\ S \in SUBSET Nat
    BY Places DEF PositionsOf
  <1>4. Min(S) \in S
    BY <1>2, <1>3, Lowest
  <1>5. PositionOf(tbl, b) \in S
    BY <1>4 DEF PositionOf
  <1>6. \E k \in DOMAIN tbl[PositionOf(tbl, b)] : tbl[PositionOf(tbl, b)][k] = b
    <2>1. b \in ToSet(tbl[PositionOf(tbl, b)])
      BY <1>5 DEF PositionsOf
    <2>2. QED BY <2>1 DEF ToSet
  <1>7. QED BY <1>2, <1>3, <1>5, <1>6, Places

\* A block that is there is in one place.
LEMMA Where ==
  ASSUME NEW tbl \in Tables, NoneTwice(tbl), NEW b \in BlocksOf(tbl)
  PROVE  /\ b \in Blocks /\ PositionOf(tbl, b) \in Positions
         /\ \A p \in Positions : \A k \in DOMAIN tbl[p] : tbl[p][k] = b => p = PositionOf(tbl, b)
         /\ PositionsOf(tbl, b) = {PositionOf(tbl, b)}
         /\ \E k \in DOMAIN tbl[PositionOf(tbl, b)] : tbl[PositionOf(tbl, b)][k] = b
  <1>1. PICK p \in Positions : \E k \in DOMAIN tbl[p] : tbl[p][k] = b
    BY Places
  <1>2. PositionsOf(tbl, b) = {p}
    <2>1. \A q \in Positions : q = p <=> \E k \in DOMAIN tbl[q] : tbl[q][k] = b
      BY <1>1 DEF NoneTwice
    <2>2. \A q \in Positions : b \in ToSet(tbl[q]) <=> \E k \in DOMAIN tbl[q] : tbl[q][k] = b
      BY DEF ToSet
    <2>3. QED BY <2>1, <2>2 DEF PositionsOf
  <1>3. p \in Nat
    BY Places
  <1>4. Min({p}) = p
    BY <1>3, Lowest
  <1>5. QED BY <1>1, <1>2, <1>4, Places DEF NoneTwice, PositionOf

\* A sequence with what was at one index left out.
Less1(r, s, k) ==
  /\ Len(r) = Len(s) - 1
  /\ \A i \in 1 .. Len(r) : r[i] = IF i < k THEN s[i] ELSE s[i + 1]

LEMMA LeftOut ==
  ASSUME NEW S, NEW s \in Seq(S), NEW k \in DOMAIN s
  PROVE  RemoveAt(s, k) \in Seq(S) /\ Less1(RemoveAt(s, k), s, k)
  <1>1. k \in 1 .. Len(s) /\ Len(s) \in Nat
    OBVIOUS
  <1> DEFINE a == SubSeq(s, 1, k - 1)
  <1> DEFINE z == SubSeq(s, k + 1, Len(s))
  <1>2. a \in Seq(S) /\ Len(a) = k - 1 /\ \A i \in 1 .. k - 1 : a[i] = s[i]
    BY <1>1
  <1>3. z \in Seq(S) /\ Len(z) = Len(s) - k /\ \A i \in 1 .. Len(s) - k : z[i] = s[i + k]
    BY <1>1
  <1> HIDE DEF a, z
  <1>4. a \o z \in Seq(S) /\ Len(a \o z) = Len(s) - 1
    BY <1>1, <1>2, <1>3
  <1>5. \A i \in 1 .. Len(s) - 1 : (a \o z)[i] = IF i < k THEN s[i] ELSE s[i + 1]
    <2>1. TAKE i \in 1 .. Len(s) - 1
    <2>2. (a \o z)[i] = IF i <= k - 1 THEN a[i] ELSE z[i - (k - 1)]
      BY <1>1, <1>2, <1>3
    <2>3. CASE i < k
      BY <1>1, <1>2, <2>2, <2>3
    <2>4. CASE ~(i < k)
      <3>1. i - (k - 1) \in 1 .. Len(s) - k /\ i - (k - 1) + k = i + 1
        BY <1>1, <2>4
      <3>2. QED BY <1>1, <1>3, <2>2, <2>4, <3>1
    <2>5. QED BY <2>3, <2>4
  <1>6. RemoveAt(s, k) = a \o z
    BY DEF RemoveAt, a, z
  <1>7. QED BY <1>4, <1>5, <1>6 DEF Less1

LEMMA TopTaken ==
  ASSUME NEW S, NEW s \in Seq(S), s # <<>>
  PROVE  Front(s) \in Seq(S) /\ Less1(Front(s), s, Len(s)) /\ Len(s) \in DOMAIN s
  <1>1. Len(s) \in Nat /\ Len(s) # 0 /\ DOMAIN s = 1 .. Len(s)
    OBVIOUS
  <1>2. /\ SubSeq(s, 1, Len(s) - 1) \in Seq(S) /\ Len(SubSeq(s, 1, Len(s) - 1)) = Len(s) - 1
        /\ \A i \in 1 .. Len(s) - 1 : SubSeq(s, 1, Len(s) - 1)[i] = s[i]
    BY <1>1
  <1>3. \A i \in 1 .. Len(s) - 1 : i < Len(s)
    BY <1>1
  <1>4. QED BY <1>1, <1>2, <1>3 DEF Front, Less1

\* A block is lifted out of a table that holds each once.
LEMMA Lifted ==
  ASSUME NEW tbl \in Tables, EachOnce(tbl), NEW p \in Positions, NEW k \in DOMAIN tbl[p],
         NEW r \in Seq(Blocks), Less1(r, tbl[p], k)
  PROVE  /\ [tbl EXCEPT ![p] = r] \in Tables
         /\ AllBut([tbl EXCEPT ![p] = r], tbl[p][k])
  <1> DEFINE t == [tbl EXCEPT ![p] = r]
  <1> DEFINE b == tbl[p][k]
  <1> DEFINE Old(i) == IF i < k THEN i ELSE i + 1
  <1>1. t \in Tables
    BY DEF Tables
  <1>2. /\ t[p] = r /\ \A q \in Positions \ {p} : t[q] = tbl[q]
    BY DEF Tables
  <1>3. Len(tbl[p]) \in Nat /\ DOMAIN tbl[p] = 1 .. Len(tbl[p]) /\ b \in Blocks
    BY Places
  <1>4. DOMAIN r = 1 .. Len(tbl[p]) - 1
    BY <1>3 DEF Less1
  <1>5. \A i \in DOMAIN r : Old(i) \in DOMAIN tbl[p] /\ Old(i) # k /\ r[i] = tbl[p][Old(i)]
    BY <1>3, <1>4 DEF Less1
  <1>6. \A i, j \in DOMAIN r : Old(i) = Old(j) => i = j
    BY <1>4
  <1>7. \A j \in DOMAIN tbl[p] : j # k => \E i \in DOMAIN r : Old(i) = j
    <2>1. TAKE j \in DOMAIN tbl[p]
    <2>2. HAVE j # k
    <2>3. CASE j < k
      BY <1>3, <1>4, <2>3
    <2>4. CASE j > k
      <3>1. j - 1 \in DOMAIN r /\ Old(j - 1) = j
        BY <1>3, <1>4, <2>4
      <3>2. QED BY <3>1
    <2>5. QED BY <1>3, <2>2, <2>3, <2>4
  <1> HIDE DEF t, Old
  <1> DEFINE From(q, i) == IF q = p THEN Old(i) ELSE i
  <1>8. \A q \in Positions : \A i \in DOMAIN t[q] :
          From(q, i) \in DOMAIN tbl[q] /\ t[q][i] = tbl[q][From(q, i)] /\ ~(q = p /\ From(q, i) = k)
    BY <1>2, <1>5
  <1>9. \A q \in Positions : \A i, j \in DOMAIN t[q] : From(q, i) = From(q, j) => i = j
    BY <1>2, <1>6
  <1> HIDE DEF From
  <1>10. NoneTwice(t)
    BY <1>8, <1>9 DEF EachOnce, NoneTwice
  <1>11. b \notin BlocksOf(t)
    <2>1. \A q \in Positions : \A i \in DOMAIN t[q] : t[q][i] # b
      BY <1>8 DEF EachOnce, NoneTwice
    <2>2. QED BY <1>1, <2>1, Places
  <1>12. Blocks \ {b} \subseteq BlocksOf(t)
    <2>1. SUFFICES ASSUME NEW c \in Blocks \ {b} PROVE \E q \in Positions : \E i \in DOMAIN t[q] : t[q][i] = c
      BY <1>1, Places
    <2>2. PICK q \in Positions : \E j \in DOMAIN tbl[q] : tbl[q][j] = c
      BY Places DEF EachOnce
    <2>3. CASE q # p
      BY <1>2, <2>2, <2>3
    <2>4. CASE q = p
      BY <1>2, <1>5, <1>7, <2>2, <2>4
    <2>5. QED BY <2>3, <2>4
  <1>13. QED BY <1>1, <1>10, <1>11, <1>12 DEF AllBut, t

\* The block missing from a table is put on a stack.
LEMMA PutDown ==
  ASSUME NEW tbl \in Tables, NEW b \in Blocks, AllBut(tbl, b), NEW p \in Positions
  PROVE  /\ [tbl EXCEPT ![p] = Append(tbl[p], b)] \in Tables
         /\ EachOnce([tbl EXCEPT ![p] = Append(tbl[p], b)])
  <1> DEFINE t == [tbl EXCEPT ![p] = Append(tbl[p], b)]
  <1> DEFINE n == Len(tbl[p])
  <1>1. t \in Tables
    BY DEF Tables
  <1>2. /\ t[p] = Append(tbl[p], b) /\ \A q \in Positions \ {p} : t[q] = tbl[q]
    BY DEF Tables
  <1>3. /\ n \in Nat /\ DOMAIN tbl[p] = 1 .. n /\ DOMAIN t[p] = 1 .. n + 1
        /\ t[p][n + 1] = b /\ \A k \in 1 .. n : t[p][k] = tbl[p][k]
    BY <1>2, Places
  <1> HIDE DEF t
  <1>4. \A q \in Positions : \A i \in DOMAIN t[q] :
          \/ q = p /\ i = n + 1 /\ t[q][i] = b
          \/ i \in DOMAIN tbl[q] /\ t[q][i] = tbl[q][i] /\ t[q][i] # b
    <2>1. \A q \in Positions : \A i \in DOMAIN tbl[q] : tbl[q][i] # b
      BY Places DEF AllBut
    <2>2. \A i \in 1 .. n + 1 : i \in 1 .. n \/ i = n + 1
      BY <1>3
    <2>3. QED BY <1>2, <1>3, <2>1, <2>2
  <1>5. NoneTwice(t)
    BY <1>4 DEF AllBut, NoneTwice
  <1>6. Blocks \subseteq BlocksOf(t)
    <2>1. SUFFICES ASSUME NEW c \in Blocks PROVE \E q \in Positions : \E i \in DOMAIN t[q] : t[q][i] = c
      BY <1>1, Places
    <2>2. CASE c = b
      BY <1>3, <2>2
    <2>3. CASE c # b
      <3>1. PICK q \in Positions : \E j \in DOMAIN tbl[q] : tbl[q][j] = c
        BY <2>3, Places DEF AllBut
      <3>2. \A j \in 1 .. n : j \in 1 .. n + 1
        BY <1>3
      <3>3. QED BY <1>2, <1>3, <3>1, <3>2
    <2>4. QED BY <2>2, <2>3
  <1>7. QED BY <1>1, <1>5, <1>6 DEF EachOnce, t

-----------------------------------------------------------------------------
(***************************************************************************)
(* The planner: the block that is meant, and the command for it.           *)
(***************************************************************************)
\* The topmost of a colour: nothing over it is of that colour.
LEMMA Resolved ==
  ASSUME NEW tbl \in Tables, NEW c, NEW p \in Positions
  PROVE  /\ Resolve(tbl, c, p) = {} <=> \A k \in DOMAIN tbl[p] : ColourOf[tbl[p][k]] # c
         /\ \A x \in Resolve(tbl, c, p) :
              \E k \in DOMAIN tbl[p] : /\ tbl[p][k] = x /\ ColourOf[x] = c
                                      /\ \A l \in DOMAIN tbl[p] : l > k => ColourOf[tbl[p][l]] # c
  <1> DEFINE K == {k \in DOMAIN tbl[p] : ColourOf[tbl[p][k]] = c}
  <1>1. Resolve(tbl, c, p) = IF K = {} THEN {} ELSE {tbl[p][Max(K)]}
    BY DEF Resolve
  <1>2. DOMAIN tbl[p] = 1 .. Len(tbl[p]) /\ Len(tbl[p]) \in Nat
    BY Places
  <1>3. K \in SUBSET Nat /\ \A k \in K : k <= Len(tbl[p])
    BY <1>2
  <1>4. K # {} => Max(K) \in K /\ \A k \in K : k <= Max(K)
    BY <1>2, <1>3, Highest
  <1>5. ASSUME K # {}
        PROVE  \A l \in DOMAIN tbl[p] : l > Max(K) => ColourOf[tbl[p][l]] # c
    <2>1. TAKE l \in DOMAIN tbl[p]
    <2>2. HAVE l > Max(K)
    <2>3. ~(l <= Max(K))
      BY <1>2, <1>3, <1>4, <1>5, <2>2
    <2>4. l \notin K
      BY <1>4, <1>5, <2>3
    <2>5. QED BY <2>4
  <1>6. QED BY <1>1, <1>4, <1>5

\* The first of some places that has one.
LEMMA FirstFound ==
  ASSUME NEW tbl \in Tables, NEW c, NEW places \in Seq(Positions)
  PROVE  /\ FirstOf(tbl, c, places) = {} => \A k \in DOMAIN places : Resolve(tbl, c, places[k]) = {}
         /\ \A x \in FirstOf(tbl, c, places) :
              \E k \in DOMAIN places : /\ x \in Resolve(tbl, c, places[k])
                                      /\ \A l \in DOMAIN places : l < k => Resolve(tbl, c, places[l]) = {}
  <1> DEFINE H == {k \in DOMAIN places : Resolve(tbl, c, places[k]) # {}}
  <1>1. FirstOf(tbl, c, places) = IF H = {} THEN {} ELSE Resolve(tbl, c, places[Min(H)])
    BY DEF FirstOf
  <1>2. DOMAIN places \subseteq Nat
    OBVIOUS
  <1> DEFINE m == Min(H)
  <1>3. H # {} => m \in H /\ m \in Nat /\ \A k \in H : m <= k
    BY <1>2, Lowest
  <1> HIDE DEF m
  <1>4. ASSUME H # {}
        PROVE  \A l \in DOMAIN places : l < m => Resolve(tbl, c, places[l]) = {}
    <2>1. TAKE l \in DOMAIN places
    <2>2. HAVE l < m
    <2>3. l \in Nat
      BY <1>2
    <2>4. m \in Nat /\ \A k \in H : m <= k
      BY <1>3, <1>4
    <2>5. ~(m <= l)
      BY <2>2, <2>3, <2>4
    <2>6. l \notin H
      BY <2>4, <2>5
    <2>7. QED BY <2>6
  <1>5. QED BY <1>1, <1>3, <1>4 DEF m

\* Where a stacker looks: where it was said to be, where it is to go, and anywhere.
Looked(g) == g.from \o <<g.to>> \o Anywhere

LEMMA Looks ==
  ASSUME NEW g \in Goals
  PROVE  /\ Looked(g) \in Seq(Positions) /\ g.to \in Positions /\ Len(g.from) \in 0 .. 1
         /\ DOMAIN Looked(g) = 1 .. Len(g.from) + 1 + N
         /\ Looked(g)[Len(g.from) + 1] = g.to
         /\ DOMAIN g.from = 1 .. Len(g.from)
         /\ \A k \in DOMAIN g.from : Looked(g)[k] = g.from[k] /\ g.from[k] \in Positions
         /\ \A p \in Positions : Looked(g)[Len(g.from) + 1 + p] = p
  <1> DEFINE f == g.from
  <1> DEFINE to == g.to
  <1>1. /\ to \in Positions /\ f \in Seq(Positions) /\ Len(f) <= 1
        /\ N \in Nat /\ Positions = 1 .. N
    BY WorkspaceAssumption DEF Positions
  <1>2. /\ Anywhere \in Seq(Positions) /\ Len(Anywhere) = N
        /\ \A p \in Positions : Anywhere[p] = p
    BY <1>1 DEF Anywhere
  <1>3. Looked(g) = f \o <<to>> \o Anywhere
    BY DEF Looked
  <1> DEFINE n == Len(f)
  <1> HIDE DEF f, to
  <1>4. n \in Nat /\ DOMAIN f = 1 .. n /\ \A k \in DOMAIN f : f[k] \in Positions
    BY <1>1
  <1>5. n \in 0 .. 1
    BY <1>1, <1>4
  <1> DEFINE a == f \o <<to>>
  <1>6. /\ a \in Seq(Positions) /\ Len(a) = n + 1 /\ a[n + 1] = to
        /\ \A k \in 1 .. n : a[k] = f[k]
    BY <1>1, <1>4
  <1> DEFINE w == a \o Anywhere
  <1>7. Looked(g) = w
    BY <1>3
  <1> HIDE DEF n, a
  <1>8. /\ w \in Seq(Positions) /\ Len(w) = n + 1 + N /\ DOMAIN w = 1 .. n + 1 + N
        /\ \A k \in 1 .. n + 1 + N : w[k] = IF k <= n + 1 THEN a[k] ELSE Anywhere[k - (n + 1)]
    BY <1>1, <1>2, <1>4, <1>6
  <1> HIDE DEF w
  <1>9. \A p \in Positions : w[n + 1 + p] = p
    <2>1. TAKE p \in Positions
    <2> DEFINE i == n + 1 + p
    <2>2. i \in 1 .. n + 1 + N /\ ~(i <= n + 1) /\ i - (n + 1) = p
      BY <1>1, <1>4
    <2> HIDE DEF i
    <2>3. w[i] = Anywhere[i - (n + 1)]
      BY <1>8, <2>2
    <2>4. QED BY <1>2, <2>2, <2>3 DEF i
  <1>10. \A k \in 1 .. n + 1 : w[k] = a[k]
    <2>1. TAKE k \in 1 .. n + 1
    <2>2. k \in 1 .. n + 1 + N /\ k <= n + 1
      BY <1>1, <1>4
    <2>3. QED BY <1>8, <2>2
  <1>11. w[n + 1] = to
    BY <1>4, <1>6, <1>10
  <1>12. \A k \in 1 .. n : w[k] = f[k]
    BY <1>4, <1>6, <1>10
  <1>13. /\ w \in Seq(Positions) /\ to \in Positions /\ n \in 0 .. 1 /\ DOMAIN w = 1 .. n + 1 + N
         /\ DOMAIN f = 1 .. n /\ \A k \in DOMAIN f : w[k] = f[k] /\ f[k] \in Positions
    BY <1>1, <1>4, <1>5, <1>8, <1>12
  <1>14. g.from = f /\ g.to = to /\ Len(g.from) = n
    BY DEF f, to, n
  <1>15. QED BY <1>7, <1>9, <1>11, <1>13, <1>14, Zenon

\* What is meant is on the table, and is what was named or of the colour that was.
LEMMA Meant ==
  ASSUME NEW tbl \in Tables, NEW g \in Goals
  PROVE  /\ g.what \in BlocksOf(tbl) => Target(tbl, g) = {g.what}
         /\ g.what \notin BlocksOf(tbl) => Target(tbl, g) = FirstOf(tbl, ColourMeant(g.what), Looked(g))
         /\ \A x \in Target(tbl, g) : x \in BlocksOf(tbl)
  <1>1. g.what \in BlocksOf(tbl) => Target(tbl, g) = {g.what}
    BY DEF Target
  <1>2. g.what \notin BlocksOf(tbl) => Target(tbl, g) = FirstOf(tbl, ColourMeant(g.what), Looked(g))
    BY DEF Target, Looked
  <1>3. ASSUME g.what \notin BlocksOf(tbl), NEW x \in Target(tbl, g)
        PROVE  x \in BlocksOf(tbl)
    <2> DEFINE c == ColourMeant(g.what)
    <2>1. PICK k \in DOMAIN Looked(g) : x \in Resolve(tbl, c, Looked(g)[k])
      BY <1>2, <1>3, FirstFound, Looks
    <2>2. Looked(g)[k] \in Positions
      BY Looks
    <2>3. \E l \in DOMAIN tbl[Looked(g)[k]] : tbl[Looked(g)[k]][l] = x
      BY <2>1, <2>2, Resolved
    <2>4. QED BY <2>2, <2>3, Places
  <1>4. QED BY <1>1, <1>2, <1>3

Moves  == {Move(b, to) : b \in Blocks, to \in Positions}
Orders == Moves \cup {Speak, Exit, None}

\* The command for a block: nothing when it is there, itself when it is clear, and what is on
\* top of it to somewhere else -- there is somewhere, on a table of three positions.
LEMMA Commanded ==
  ASSUME NEW tbl \in Tables, NEW b \in BlocksOf(tbl), NEW to \in Positions,
         NEW from, from = PositionOf(tbl, b)
  PROVE  /\ from = to => CommandFor(tbl, b, from, to) = Speak
         /\ from # to /\ Above(tbl, b) = {} => CommandFor(tbl, b, from, to) = Move(b, to)
         /\ from # to /\ Above(tbl, b) # {} =>
              /\ Top(tbl, from) \in Blocks /\ tbl[from] # <<>>
              /\ \/ CommandFor(tbl, b, from, to) = Speak /\ N < 3
                 \/ \E q \in Positions \ {to} : CommandFor(tbl, b, from, to) = Move(Top(tbl, from), q)
         /\ CommandFor(tbl, b, from, to) \in Moves \cup {Speak}
  <1> DEFINE empty == {p \in Positions \ {to} : tbl[p] = <<>>}
  <1> DEFINE other == Positions \ {from, to}
  <1>1. Positions = 1 .. N /\ N \in Nat /\ empty \in SUBSET Nat /\ other \in SUBSET Nat
    BY Places
  <1>2. empty # {} => Min(empty) \in Positions \ {to}
    BY <1>1, Lowest
  <1>3. other # {} => Min(other) \in Positions \ {to}
    BY <1>1, Lowest
  <1>4. other = {} => N < 3
    <2>1. N >= 3 => {1, 2, 3} \subseteq Positions
      BY <1>1
    <2>2. {1, 2, 3} \subseteq Positions => other # {}
      OBVIOUS
    <2>3. QED BY <1>1, <2>1, <2>2
  <1>5. b \in Blocks /\ from \in Positions
    BY Found
  <1>6. Above(tbl, b) # {} => Top(tbl, from) \in Blocks /\ tbl[from] # <<>>
    <2>1. Above(tbl, b) \subseteq DOMAIN tbl[from]
      BY DEF Above
    <2>2. DOMAIN tbl[from] = 1 .. Len(tbl[from]) /\ Len(tbl[from]) \in Nat
          /\ \A k \in DOMAIN tbl[from] : tbl[from][k] \in Blocks
      BY <1>5, Places
    <2>3. Above(tbl, b) # {} => Len(tbl[from]) \in DOMAIN tbl[from]
      BY <2>1, <2>2
    <2>4. tbl[from] = <<>> => DOMAIN tbl[from] = {}
      OBVIOUS
    <2>5. QED BY <2>1, <2>2, <2>3, <2>4 DEF Top
  <1>7. CommandFor(tbl, b, from, to) =
          IF from = to THEN Speak
          ELSE IF Above(tbl, b) = {} THEN Move(b, to)
          ELSE IF empty # {} THEN Move(Top(tbl, from), Min(empty))
          ELSE IF other # {} THEN Move(Top(tbl, from), Min(other))
          ELSE Speak
    BY DEF CommandFor
  <1> HIDE DEF empty, other
  <1>8. ASSUME from # to, Above(tbl, b) # {}
        PROVE  \/ CommandFor(tbl, b, from, to) = Speak /\ N < 3
               \/ \E q \in Positions \ {to} : CommandFor(tbl, b, from, to) = Move(Top(tbl, from), q)
    BY <1>2, <1>3, <1>4, <1>7, <1>8
  <1>9. CommandFor(tbl, b, from, to) \in Moves \cup {Speak}
    BY <1>5, <1>6, <1>7, <1>8 DEF Moves
  <1>10. QED BY <1>6, <1>7, <1>8, <1>9

LEMMA Planned ==
  ASSUME NEW tbl \in Tables, NEW g \in Goals
  PROVE  NextCommands(tbl, g) \subseteq Moves \cup {Speak}
  <1>1. g.to \in Positions
    BY Looks
  <1>2. \A b \in Target(tbl, g) : CommandFor(tbl, b, PositionOf(tbl, b), g.to) \in Moves \cup {Speak}
    BY <1>1, Meant, Commanded
  <1>3. QED BY <1>2 DEF NextCommands

LEMMA Tidied ==
  ASSUME NEW tbl \in Tables
  PROVE  TidyCommands(tbl) \subseteq Moves \cup {Speak}
  <1> DEFINE S == Occupied(tbl)
  <1> DEFINE t == Fullest(tbl, S)
  <1> DEFINE f == Fullest(tbl, S \ {t})
  <1>1. TidyCommands(tbl) = IF Cardinality(S) <= 1 THEN {Speak} ELSE {Move(Top(tbl, f), t)}
    BY DEF TidyCommands
  <1>2. S \subseteq Positions
    BY DEF Occupied
  <1>3. S = {} => Cardinality(S) <= 1
    BY FS_EmptySet
  <1>4. S # {} => t \in S
    BY <1>2, Fuller
  <1>5. S # {} /\ S \ {t} = {} => Cardinality(S) <= 1
    <2>1. Cardinality({t}) = 1
      BY FS_Singleton
    <2>2. S # {} /\ S \ {t} = {} => S = {t}
      BY <1>4
    <2>3. QED BY <2>1, <2>2
  <1>6. S \ {t} # {} => f \in S
    BY <1>2, Fuller
  <1>7. \A p \in S : Top(tbl, p) \in Blocks
    BY DEF Occupied, Top, Tables
  <1> HIDE DEF S, t, f
  <1>8. QED BY <1>1, <1>2, <1>3, <1>4, <1>5, <1>6, <1>7 DEF Moves

-----------------------------------------------------------------------------
(***************************************************************************)
(* Types.                                                                  *)
(***************************************************************************)
\* A move a job is about, or has asked for, says which block, and where to.
OrdersInv ==
  /\ \A j \in {"stacker", "tidy"} : jobs[j].doing \in Orders
  /\ \A k \in DOMAIN asked : asked[k] \in Moves
  /\ phase # "serving" => asked = <<>>
  /\ (phase = "publishing") <=> (publishing # <<>>)

\* A hand that acts has a block and a place in mind; one that delivers saw the block.
Fits(r) ==
  /\ r.at \notin {"away", "dragging"} => r.to \in Positions /\ \E b \in Names : r.block = {b}
  /\ r.at = "delivering" => r.view \in Tables /\ \A b \in r.block : b \in BlocksOf(r.view)

HandsInv == \A h \in Hands : Fits(hand[h])

Shape == TypeOK /\ OrdersInv /\ HandsInv

LEMMA Verbs ==
  /\ \A b, to : Move(b, to).verb = "move" /\ Move(b, to).block = {b} /\ Move(b, to).to = to
  /\ Speak.verb = "speak" /\ Exit.verb = "exit" /\ None.verb = "none"
  /\ \A c \in Moves : c.verb = "move" /\ c.to \in Positions /\ \E b \in Blocks : c.block = {b} /\ c = Move(b, c.to)
  /\ \A c \in Orders : /\ c.verb = "move" <=> c \in Moves
                       /\ c.verb = "none" <=> c = None
                       /\ c.verb = "exit" <=> c = Exit
                       /\ c.verb = "speak" <=> c = Speak
  <1>1. \A b, to : Move(b, to).verb = "move" /\ Move(b, to).block = {b} /\ Move(b, to).to = to
    BY DEF Move
  <1>2. Speak.verb = "speak" /\ Exit.verb = "exit" /\ None.verb = "none"
    BY DEF Speak, Exit, None
  <1>3. \A c \in Moves : c.verb = "move" /\ c.to \in Positions /\ \E b \in Blocks : c.block = {b} /\ c = Move(b, c.to)
    BY <1>1 DEF Moves
  <1>4. QED BY <1>1, <1>2, <1>3 DEF Orders

LEMMA OrdersAreCommands == Orders \subseteq Commands /\ Moves \subseteq Commands
  <1>1. Positions \subseteq 0 .. N
    BY WorkspaceAssumption DEF Positions
  <1>2. \A b \in Blocks, to \in Positions : Move(b, to) \in Commands
    BY <1>1 DEF Move, Commands
  <1>3. Speak \in Commands /\ Exit \in Commands /\ None \in Commands
    BY WorkspaceAssumption DEF Speak, Exit, None, Commands
  <1>4. QED BY <1>2, <1>3 DEF Orders, Moves

LEMMA ShapeInit == Init => Shape
  <1>1. SUFFICES ASSUME Init PROVE Shape
    OBVIOUS
  <1>2. None \in Commands /\ 0 \in 0 .. N /\ 0 \in 0 .. MaxDrags /\ 0 \in 0 .. MaxSays
    BY OrdersAreCommands, WorkspaceAssumption DEF Orders
  <1>3. TypeOK
    <2>1. store \in Tables
      BY <1>1, WorkspaceAssumption DEF Init
    <2>2. jobs \in [{"stacker", "tidy"} -> [alive : BOOLEAN, doing : Commands,
                                           last : {"move", "speak", "exit", "none"}]]
      BY <1>1, <1>2 DEF Init, Fresh
    <2>3. hand \in [Hands -> [at : {"away", "dragging", "looking", "delivering", "done"},
                             block : SUBSET Names, to : 0 .. N, view : Seq(Seq(Blocks)), drag : BOOLEAN]]
      <3>1. Away \in [at : {"away", "dragging", "looking", "delivering", "done"},
                      block : SUBSET Names, to : 0 .. N, view : Seq(Seq(Blocks)), drag : BOOLEAN]
        BY <1>2 DEF Away
      <3>2. QED BY <1>1, <3>1 DEF Init
    <2>4. /\ inbound \in Seq(Contents) /\ publishing \in Seq(Contents) /\ Len(publishing) <= 1
          /\ asked \in Seq(Commands) /\ Len(asked) <= 1
      BY <1>1 DEF Init
    <2>5. /\ held \in BOOLEAN /\ goal \in Goals /\ plain \in BOOLEAN /\ raced \in BOOLEAN
          /\ placed \in SUBSET Blocks /\ drags \in 0 .. MaxDrags /\ says \in 0 .. MaxSays
          /\ phase \in {"resting", "draining", "ticking", "serving", "publishing"}
      BY <1>1, <1>2 DEF Init
    <2>6. QED BY <2>1, <2>2, <2>3, <2>4, <2>5 DEF TypeOK
  <1>4. OrdersInv
    BY <1>1 DEF Init, OrdersInv, Fresh, Orders
  <1>5. HandsInv
    BY <1>1 DEF Init, HandsInv, Fits, Away
  <1>6. QED BY <1>3, <1>4, <1>5 DEF Shape

\* What a job composes.
LEMMA Composes ==
  ASSUME Shape, NEW j \in {"stacker", "tidy"}
  PROVE  Composed(j) \subseteq Orders \ {None}
  <1>1. NextCommands(store, goal) \cup TidyCommands(store) \subseteq Moves \cup {Speak}
    BY Planned, Tidied DEF Shape, TypeOK
  <1>2. \A c \in Moves \cup {Speak} : StopAfterSaying(c, jobs[j].last) \in Moves \cup {Speak, Exit}
    BY DEF StopAfterSaying
  <1>3. None \notin Moves \cup {Speak, Exit}
    BY Verbs
  <1>4. QED BY <1>1, <1>2, <1>3 DEF Composed, Orders

HandRecords == [at : {"away", "dragging", "looking", "delivering", "done"},
                block : SUBSET Names, to : 0 .. N, view : Seq(Seq(Blocks)), drag : BOOLEAN]

\* One hand gets on with what it does.
LEMMA HandMoved ==
  ASSUME Shape, NEW h \in Hands, NEW r \in HandRecords, Fits(r), hand' = [hand EXCEPT ![h] = r]
  PROVE  hand' \in [Hands -> HandRecords] /\ HandsInv'
  <1>1. hand \in [Hands -> HandRecords] /\ HandsInv
    BY DEF Shape, TypeOK, HandRecords
  <1>2. hand' \in [Hands -> HandRecords] /\ hand'[h] = r /\ \A k \in Hands \ {h} : hand'[k] = hand[k]
    BY <1>1
  <1>3. HandsInv'
    BY <1>1, <1>2 DEF HandsInv, Fits
  <1>4. QED BY <1>2, <1>3

\* What a hand that has looked at the whole table saw, and delivers.
LEMMA Sees ==
  ASSUME Shape, NEW h \in Hands, SeenWhole(h), NEW b \in hand[h].block
  PROVE  hand[h].view \in Tables /\ (Finds(h, b) => b \in BlocksOf(hand[h].view))
  <1> DEFINE v == hand[h].view
  <1>1. v \in Seq(Seq(Blocks)) /\ Len(v) = N
    BY DEF Shape, TypeOK, SeenWhole
  <1>2. v \in Tables
    BY <1>1 DEF Tables, Positions
  <1>3. ASSUME PositionsOf(v, b) # {} PROVE b \in BlocksOf(v)
    <2>1. PICK p \in Positions : b \in ToSet(v[p])
      BY <1>3 DEF PositionsOf
    <2>2. QED BY <2>1 DEF BlocksOf
  <1>4. QED BY <1>2, <1>3 DEF Finds

LEMMA Delivers ==
  ASSUME Shape, NEW h \in Hands, Acting(h), hand[h].view \in Tables, NEW b \in hand[h].block,
         b \in BlocksOf(hand[h].view), NEW p \in Positions
  PROVE  Delivered(h, b, p) \in Contents /\ b \in Blocks
  <1> DEFINE v == hand[h].view
  <1>1. /\ b \in Blocks /\ PositionOf(v, b) \in Positions
        /\ \E k \in DOMAIN v[PositionOf(v, b)] : v[PositionOf(v, b)][k] = b
    BY Found
  <1>2. \A q \in Positions : v[q] \in Seq(Blocks)
    BY DEF Tables
  <1> DEFINE s == v[PositionOf(v, b)]
  <1>3. Without(s, b) \in Seq(Blocks)
    <2> DEFINE K == {j \in DOMAIN s : s[j] = b}
    <2>1. K # {} /\ K \in SUBSET Nat
      BY <1>1, <1>2
    <2>2. Min(K) \in DOMAIN s
      BY <2>1, Lowest
    <2>3. RemoveAt(s, Min(K)) \in Seq(Blocks)
      BY <1>1, <1>2, <2>2, LeftOut
    <2>4. QED BY <2>3 DEF Without
  <1> DEFINE left == IF p = PositionOf(v, b) THEN Without(v[p], b) ELSE v[p]
  <1>4. left \in Seq(Blocks)
    BY <1>2, <1>3
  <1>5. Append(left, b) \in Seq(Blocks)
    BY <1>1, <1>4
  <1>6. Delivered(h, b, p) = [at |-> p, holds |-> IF p = hand[h].to THEN Append(left, b) ELSE left]
    BY DEF Delivered
  <1> HIDE DEF left
  <1>7. QED BY <1>1, <1>4, <1>5, <1>6 DEF Contents

LEMMA ShapeHands ==
  ASSUME Shape, NEW h \in Hands,
         Reach(h) \/ Reaching(h) \/ \E b \in Names, to \in Positions : Type(h, b, to)
  PROVE  Shape'
  <1>1. hand \in [Hands -> HandRecords] /\ hand[h] \in HandRecords /\ Fits(hand[h])
    BY DEF Shape, TypeOK, HandRecords, HandsInv
  <1>2. /\ UNCHANGED <<store, kernel, jobs, told, says, placed>> /\ held' \in BOOLEAN /\ raced' \in BOOLEAN
        /\ drags' \in 0 .. MaxDrags
    <2>1. drags \in 0 .. MaxDrags /\ MaxDrags \in Nat /\ held \in BOOLEAN /\ raced \in BOOLEAN
      BY WorkspaceAssumption DEF Shape, TypeOK
    <2>2. (drags' = drags + 1 /\ drags < MaxDrags) \/ drags' = drags
      BY DEF Reach, Reaching, PutBack, Drop, Type, Disturb, LookAt, FindNothing, DeliverSource,
             DeliverDestination, Leave
    <2>3. (held' \in BOOLEAN /\ raced' \in BOOLEAN) /\ UNCHANGED <<store, kernel, jobs, told, says, placed>>
      BY <2>1 DEF Reach, Reaching, PutBack, Drop, Type, Disturb, LookAt, FindNothing, DeliverSource,
                  DeliverDestination, Leave
    <2>4. QED BY <2>1, <2>2, <2>3
  <1>3. /\ hand' \in [Hands -> HandRecords] /\ HandsInv'
        /\ inbound' \in Seq(Contents)
    <2>0. inbound \in Seq(Contents)
      BY DEF Shape, TypeOK
    <2>1. CASE Reach(h)
      <3> DEFINE r == [hand[h] EXCEPT !.at = "dragging", !.drag = TRUE]
      <3>1. hand' = [hand EXCEPT ![h] = r]
        BY <1>1, <2>1 DEF Reach
      <3>2. r \in HandRecords /\ Fits(r)
        BY <1>1 DEF HandRecords, Fits
      <3> HIDE DEF r
      <3>3. QED BY <2>0, <2>1, <3>1, <3>2, HandMoved DEF Reach
    <2>2. CASE PutBack(h) \/ Leave(h)
      <3>1. Away \in HandRecords /\ Fits(Away)
        BY WorkspaceAssumption DEF HandRecords, Fits, Away
      <3>2. QED BY <2>0, <2>2, <3>1, HandMoved DEF PutBack, Leave
    <2>3. CASE \E b \in Names, to \in Positions : Drop(h, b, to) \/ Type(h, b, to)
      <3>1. PICK b \in Names, to \in Positions, drag \in BOOLEAN : Disturb(h, b, to, drag)
        BY <2>3 DEF Drop, Type
      <3> DEFINE r == [at |-> "looking", block |-> {b}, to |-> to, view |-> <<>>, drag |-> drag]
      <3>2. to \in 0 .. N
        BY WorkspaceAssumption DEF Positions
      <3>3. r \in HandRecords /\ Fits(r)
        BY <3>2 DEF HandRecords, Fits
      <3>4. hand' = [hand EXCEPT ![h] = r] /\ UNCHANGED inbound
        BY <3>1 DEF Disturb
      <3> HIDE DEF r
      <3>5. QED BY <2>0, <3>3, <3>4, HandMoved
    <2>4. CASE LookAt(h)
      <3> DEFINE n == Len(hand[h].view) + 1
      <3> DEFINE r == [hand[h] EXCEPT !.view = Append(@, store[n])]
      <3>1. hand' = [hand EXCEPT ![h] = r] /\ hand[h].at = "looking" /\ UNCHANGED inbound
        BY <1>1, <2>4 DEF LookAt
      <3>2. n \in Positions
        <4>1. Len(hand[h].view) \in Nat /\ Len(hand[h].view) < N
          BY <1>1, <2>4 DEF LookAt, HandRecords
        <4>2. QED BY <4>1, WorkspaceAssumption DEF Positions
      <3>3. store[n] \in Seq(Blocks)
        BY <3>2 DEF Shape, TypeOK, Tables
      <3> HIDE DEF n
      <3>4. r \in HandRecords
        <4>1. Append(hand[h].view, store[n]) \in Seq(Seq(Blocks))
          BY <1>1, <3>3 DEF HandRecords
        <4>2. QED BY <1>1, <4>1 DEF HandRecords
      <3>5. Fits(r)
        BY <1>1, <3>1 DEF HandRecords, Fits
      <3> HIDE DEF r
      <3>6. QED BY <2>0, <3>1, <3>4, <3>5, HandMoved
    <2>5. CASE FindNothing(h)
      <3> DEFINE r == [hand[h] EXCEPT !.at = "done"]
      <3>1. hand' = [hand EXCEPT ![h] = r] /\ hand[h].at = "looking" /\ UNCHANGED inbound
        BY <1>1, <2>5 DEF FindNothing, Finish, SeenWhole
      <3>2. r \in HandRecords /\ Fits(r)
        BY <1>1, <3>1 DEF HandRecords, Fits
      <3> HIDE DEF r
      <3>3. QED BY <2>0, <3>1, <3>2, HandMoved
    <2>6. CASE DeliverSource(h)
      <3> DEFINE r == [hand[h] EXCEPT !.at = "delivering"]
      <3>1. PICK b \in hand[h].block :
              Finds(h, b) /\ inbound' = Append(inbound, Delivered(h, b, PositionOf(hand[h].view, b)))
        BY <2>6 DEF DeliverSource
      <3>2. SeenWhole(h) /\ hand[h].at = "looking" /\ hand' = [hand EXCEPT ![h] = r]
        BY <1>1, <2>6 DEF DeliverSource, SeenWhole
      <3>3. hand[h].view \in Tables /\ b \in BlocksOf(hand[h].view)
        BY <3>1, <3>2, Sees
      <3>4. PositionOf(hand[h].view, b) \in Positions /\ Acting(h)
        BY <3>2, <3>3, Found DEF Acting
      <3>5. inbound' \in Seq(Contents)
        BY <2>0, <3>1, <3>3, <3>4, Delivers
      <3>6. hand[h].block = {b}
        BY <1>1, <3>1, <3>2 DEF Fits
      <3>7. r \in HandRecords /\ Fits(r)
        BY <1>1, <3>2, <3>3, <3>6 DEF HandRecords, Fits
      <3> HIDE DEF r
      <3>8. QED BY <3>2, <3>5, <3>7, HandMoved
    <2>7. CASE DeliverDestination(h)
      <3> DEFINE r == [hand[h] EXCEPT !.at = "done"]
      <3>1. PICK b \in hand[h].block : inbound' = Append(inbound, Delivered(h, b, hand[h].to))
        BY <2>7 DEF DeliverDestination
      <3>2. hand[h].at = "delivering" /\ hand' = [hand EXCEPT ![h] = r]
        BY <1>1, <2>7 DEF DeliverDestination, Finish
      <3>3. hand[h].view \in Tables /\ b \in BlocksOf(hand[h].view) /\ hand[h].to \in Positions /\ Acting(h)
        BY <1>1, <3>2 DEF Fits, Acting
      <3>4. inbound' \in Seq(Contents)
        BY <2>0, <3>1, <3>3, Delivers
      <3>5. r \in HandRecords /\ Fits(r)
        BY <1>1, <3>2 DEF HandRecords, Fits
      <3> HIDE DEF r
      <3>6. QED BY <3>2, <3>4, <3>5, HandMoved
    <2>8. QED BY <2>1, <2>2, <2>3, <2>4, <2>5, <2>6, <2>7 DEF Reaching
  <1>4. QED BY <1>2, <1>3 DEF Shape, TypeOK, OrdersInv, HandRecords, kernel, told


\* What waits to be drained: the first of it, and the rest.
LEMMA Waiting ==
  ASSUME NEW S, NEW q \in Seq(S), q # <<>>
  PROVE  Head(q) = q[1] /\ q[1] \in S /\ Tail(q) \in Seq(S)
  OBVIOUS

\* One position is written.
LEMMA Written ==
  ASSUME NEW tbl \in Tables, NEW d \in Contents
  PROVE  [tbl EXCEPT ![d.at] = d.holds] \in Tables
  BY DEF Tables, Contents

LEMMA Single == ASSUME NEW S, NEW q \in Seq(S), Len(q) = 1 PROVE q = <<q[1]>> /\ q[1] \in S
  <1>1. q[1] \in S
    OBVIOUS
  <1> DEFINE t == <<q[1]>>
  <1>2. t \in Seq(S) /\ Len(t) = 1 /\ t[1] = q[1]
    BY <1>1
  <1> HIDE DEF t
  <1>3. q = t
    BY <1>2, SeqEqual
  <1>4. QED BY <1>1, <1>3 DEF t

\* The move the arm is asked for.
LEMMA TheOne ==
  ASSUME Shape, NEW c \in ToSet(asked)
  PROVE  c \in Moves /\ asked = <<c>>
  <1>1. asked \in Seq(Commands) /\ Len(asked) <= 1 /\ \E k \in DOMAIN asked : asked[k] = c
    BY DEF Shape, TypeOK, ToSet
  <1>2. PICK k \in DOMAIN asked : asked[k] = c
    BY <1>1
  <1>3. k = 1 /\ Len(asked) = 1
    <2>1. DOMAIN asked = 1 .. Len(asked) /\ Len(asked) \in Nat
      BY <1>1
    <2>2. QED BY <1>1, <2>1
  <1>4. asked = <<asked[1]>>
    BY <1>1, <1>3, Single
  <1>5. QED BY <1>2, <1>3, <1>4 DEF Shape, OrdersInv

LEMMA ShapeKernel == ASSUME Shape, Step PROVE Shape'
  <1>1. TypeOK /\ OrdersInv /\ HandsInv
    BY DEF Shape
  <1>2. CASE BeginStep \/ DrainDone \/ OtherTick
    <2>1. raced' \in BOOLEAN
      BY <1>1, <1>2 DEF BeginStep, DrainDone, OtherTick, TypeOK, people
    <2>2. /\ UNCHANGED <<store, inbound, held, asked, publishing, jobs, told, hand, drags, says, placed>>
          /\ asked = <<>> /\ publishing = <<>> /\ phase' \in {"resting", "draining", "ticking"}
      BY <1>1, <1>2 DEF BeginStep, DrainDone, OtherTick, people, OrdersInv
    <2>3. QED BY <1>1, <2>1, <2>2 DEF Shape, TypeOK, OrdersInv, HandsInv, told
  <1>3. CASE DrainOne
    <2>1. inbound \in Seq(Contents) /\ inbound # <<>>
      BY <1>1, <1>3 DEF TypeOK, DrainOne
    <2>2. Head(inbound) \in Contents /\ inbound' \in Seq(Contents)
      BY <1>3, <2>1, Waiting DEF DrainOne
    <2>3. store' \in Tables
      BY <1>1, <1>3, <2>2, Written DEF TypeOK, DrainOne
    <2>4. QED BY <1>1, <1>3, <2>2, <2>3 DEF Shape, TypeOK, OrdersInv, HandsInv, told, kernel, people, DrainOne
  <1>4. CASE \E j \in Running : Compose(j) \/ Quit(j)
    <2>1. PICK j \in {"stacker", "tidy"} : Compose(j) \/ Quit(j)
      BY <1>4 DEF Running
    <2>2. jobs \in [{"stacker", "tidy"} -> [alive : BOOLEAN, doing : Commands,
                                           last : {"move", "speak", "exit", "none"}]]
      BY <1>1 DEF TypeOK
    <2>3. /\ jobs' \in [{"stacker", "tidy"} -> [alive : BOOLEAN, doing : Commands,
                                               last : {"move", "speak", "exit", "none"}]]
          /\ \A i \in {"stacker", "tidy"} : jobs'[i].doing \in Orders
      <3>1. CASE Compose(j)
        <4>1. PICK c \in Orders : jobs' = [jobs EXCEPT ![j].doing = c]
          BY <3>1, Composes DEF Compose
        <4>2. c \in Commands
          BY OrdersAreCommands
        <4>3. QED BY <1>1, <2>2, <4>1, <4>2 DEF OrdersInv
      <3>2. CASE Quit(j)
        <4>1. jobs' = [jobs EXCEPT ![j] = [alive |-> FALSE, doing |-> None, last |-> "exit"]]
          BY <3>2 DEF Quit
        <4>2. None \in Commands /\ None \in Orders
          BY OrdersAreCommands DEF Orders
        <4>3. QED BY <1>1, <2>2, <4>1, <4>2 DEF OrdersInv
      <3>3. QED BY <2>1, <3>1, <3>2
    <2>4. /\ phase' = "resting" /\ UNCHANGED <<store, inbound, held, asked, publishing, told, people, placed>>
          /\ asked = <<>> /\ publishing = <<>>
      BY <1>1, <2>1 DEF Compose, Quit, OrdersInv
    <2>5. QED BY <1>1, <2>3, <2>4 DEF Shape, TypeOK, OrdersInv, HandsInv, told, people
  <1>5. CASE \E j \in Running : Issue(j)
    <2>1. PICK j \in {"stacker", "tidy"} : Issue(j)
      BY <1>5 DEF Running
    <2> DEFINE c == jobs[j].doing
    <2>2. c \in Orders /\ c \in Commands
      BY <1>1, OrdersAreCommands DEF OrdersInv
    <2>3. /\ jobs' = [jobs EXCEPT ![j].doing = None, ![j].last = c.verb]
          /\ asked' = IF c.verb = "move" THEN Append(asked, c) ELSE asked
          /\ phase' = IF c.verb = "move" THEN "serving" ELSE "resting"
          /\ placed' = IF c.verb = "move" /\ j = "stacker" /\ c.to = goal.to
                         THEN placed \cup c.block ELSE placed
          /\ UNCHANGED <<store, inbound, held, publishing, told, people>> /\ phase = "ticking"
      BY <2>1 DEF Issue
    <2> HIDE DEF c
    <2>4. jobs \in [{"stacker", "tidy"} -> [alive : BOOLEAN, doing : Commands,
                                           last : {"move", "speak", "exit", "none"}]]
      BY <1>1 DEF TypeOK
    <2>5. c.verb \in {"move", "speak", "exit", "none"} /\ c.block \in SUBSET Blocks
      BY <2>2 DEF Commands
    <2>6. /\ jobs' \in [{"stacker", "tidy"} -> [alive : BOOLEAN, doing : Commands,
                                               last : {"move", "speak", "exit", "none"}]]
          /\ \A i \in {"stacker", "tidy"} : jobs'[i].doing \in Orders
      <3>1. None \in Commands /\ None \in Orders
        BY OrdersAreCommands DEF Orders
      <3>2. QED BY <1>1, <2>3, <2>4, <2>5, <3>1 DEF OrdersInv
    <2>7. asked' \in Seq(Commands) /\ Len(asked') <= 1 /\ \A k \in DOMAIN asked' : asked'[k] \in Moves
      <3>1. asked = <<>>
        BY <1>1, <2>3 DEF OrdersInv
      <3>2. CASE c.verb = "move"
        <4>1. c \in Moves /\ asked' = <<c>>
          BY <2>2, <2>3, <3>1, <3>2, Verbs
        <4>2. QED BY <2>2, <4>1
      <3>3. CASE c.verb # "move"
        BY <2>3, <3>1, <3>3
      <3>4. QED BY <3>2, <3>3
    <2>8. QED BY <1>1, <2>3, <2>5, <2>6, <2>7 DEF Shape, TypeOK, OrdersInv, HandsInv, told, people
  <1>6. CASE Serve
    <2>0. PICK c \in ToSet(asked) : \E b \in c.block :
            IF Allowed(store, b, c.to)
              THEN /\ store' = [store EXCEPT ![PositionOf(store, b)] = Front(@)]
                   /\ publishing' = <<[at |-> c.to, holds |-> Append(store[c.to], b)]>>
                   /\ phase' = "publishing"
              ELSE Refuse
      BY <1>6 DEF Serve
    <2>1. PICK b \in c.block :
            IF Allowed(store, b, c.to)
              THEN /\ store' = [store EXCEPT ![PositionOf(store, b)] = Front(@)]
                   /\ publishing' = <<[at |-> c.to, holds |-> Append(store[c.to], b)]>>
                   /\ phase' = "publishing"
              ELSE Refuse
      BY <2>0
    <2>2. c.to \in Positions /\ b \in Blocks
      BY <2>1, TheOne, Verbs
    <2>3. store' \in Tables /\ publishing' \in Seq(Contents) /\ Len(publishing') <= 1
          /\ phase' \in {"publishing", "resting"} /\ ((phase' = "publishing") <=> (publishing' # <<>>))
      <3>1. CASE Allowed(store, b, c.to)
        <4> DEFINE p == PositionOf(store, b)
        <4>1. p \in Positions /\ store[p] \in Seq(Blocks) /\ store[p] # <<>> /\ store[c.to] \in Seq(Blocks)
          BY <1>1, <2>2, <3>1, Found DEF Allowed, TypeOK, Tables
        <4>2. Front(store[p]) \in Seq(Blocks)
          BY <4>1, TopTaken
        <4>3. store' \in Tables
          BY <1>1, <2>1, <3>1, <4>1, <4>2 DEF TypeOK, Tables
        <4>4. [at |-> c.to, holds |-> Append(store[c.to], b)] \in Contents
          BY <2>2, <4>1 DEF Contents
        <4> DEFINE d == [at |-> c.to, holds |-> Append(store[c.to], b)]
        <4>5. publishing' = <<d>> /\ phase' = "publishing"
          BY <2>1, <3>1
        <4> HIDE DEF d
        <4>6. publishing' # <<>> /\ publishing' \in Seq(Contents) /\ Len(publishing') <= 1
          BY <4>4, <4>5 DEF d
        <4>7. QED BY <4>3, <4>5, <4>6
      <3>2. CASE ~Allowed(store, b, c.to)
        BY <1>1, <1>6, <2>1, <3>2 DEF Refuse, TypeOK, OrdersInv, Serve
      <3>3. QED BY <3>1, <3>2
    <2>4. asked' = <<>> /\ UNCHANGED <<inbound, held, jobs, told, people, placed>>
      BY <1>6 DEF Serve
    <2>5. asked' \in Seq(Commands) /\ Len(asked') <= 1 /\ DOMAIN asked' = {}
      BY <2>4
    <2>6. QED BY <1>1, <2>3, <2>4, <2>5 DEF Shape, TypeOK, OrdersInv, HandsInv, told, people
  <1>7. CASE Publish
    <2>1. publishing \in Seq(Contents) /\ publishing # <<>>
      BY <1>1, <1>7 DEF TypeOK, OrdersInv, Publish
    <2>2. publishing[1] \in Contents
      BY <2>1, Waiting
    <2>3. store' \in Tables
      BY <1>1, <1>7, <2>2, Written DEF TypeOK, Publish
    <2>4. /\ publishing' = <<>> /\ publishing' \in Seq(Contents) /\ Len(publishing') <= 1 /\ phase' = "resting"
          /\ asked' = <<>> /\ UNCHANGED <<inbound, held, asked, jobs, told, people, placed>>
      BY <1>1, <1>7 DEF Publish, OrdersInv
    <2>5. QED BY <1>1, <2>3, <2>4 DEF Shape, TypeOK, OrdersInv, HandsInv, told, people
  <1>8. QED BY <1>2, <1>3, <1>4, <1>5, <1>6, <1>7 DEF Step, Command

LEMMA ShapeNext == ASSUME Shape, [Next]_vars PROVE Shape'
  <1>1. ASSUME NEW g \in Goals, Say(g) PROVE Shape'
    <2>1. jobs' \in [{"stacker", "tidy"} -> [alive : BOOLEAN, doing : Commands,
                                            last : {"move", "speak", "exit", "none"}]]
          /\ \A j \in {"stacker", "tidy"} : jobs'[j].doing \in Orders
      <3>1. None \in Orders /\ None \in Commands
        BY OrdersAreCommands DEF Orders
      <3>2. Fresh(TRUE) \in [alive : BOOLEAN, doing : Commands, last : {"move", "speak", "exit", "none"}]
            /\ Fresh(TRUE).doing = None
        BY <3>1 DEF Fresh
      <3>3. QED BY <1>1, <3>1, <3>2 DEF Say, Shape, TypeOK, OrdersInv
    <2>2. plain' \in BOOLEAN
      BY <1>1, Zenon DEF Say, OneOfAColour
    <2>3. says' \in 0 .. MaxSays
      BY <1>1, WorkspaceAssumption DEF Say, Shape, TypeOK
    <2>4. goal' \in Goals /\ placed' = {} /\ UNCHANGED <<store, inbound, held, kernel, hand, drags, raced>>
      BY <1>1 DEF Say
    <2>5. QED BY <2>1, <2>2, <2>3, <2>4 DEF Shape, TypeOK, OrdersInv, HandsInv, kernel
  <1>2. CASE UNCHANGED vars
    BY <1>2 DEF vars, kernel, people, told, Shape, TypeOK, OrdersInv, HandsInv
  <1>3. QED BY <1>1, <1>2, ShapeHands, ShapeKernel DEF Next

-----------------------------------------------------------------------------
(***************************************************************************)
(* No job sees a move half done.                                           *)
(***************************************************************************)
After(tbl, d) == [tbl EXCEPT ![d.at] = d.holds]

\* The table once what waits to be drained is in.
Settled ==
  CASE Len(inbound) = 1 -> After(store, inbound[1])
    [] Len(inbound) = 2 -> After(After(store, inbound[1]), inbound[2])
    [] OTHER            -> store

Settles == Len(inbound) <= 2 /\ EachOnce(Settled)

\* What a hand that looked at a table at rest knows of it, and what it has delivered.
Square(h) ==
  /\ hand[h].at = "looking" =>
       /\ inbound = <<>> /\ EachOnce(store)
       /\ \A k \in DOMAIN hand[h].view : hand[h].view[k] = store[k]
  /\ hand[h].at = "delivering" =>
       /\ hand[h].view = store /\ EachOnce(store)
       /\ \A b \in hand[h].block : inbound = <<Delivered(h, b, PositionOf(store, b))>>
  /\ hand[h].at = "done" => Settles

HandsFirst ==
  \A h \in Hands : Acting(h) =>
    phase = "resting" /\ Square(h) /\ \A k \in Hands : Acting(k) => k = h

StepWhole ==
  /\ phase = "draining" \/ (phase = "resting" /\ \A h \in Hands : ~Acting(h)) => Settles
  /\ phase \in {"ticking", "serving", "publishing"} => inbound = <<>>
  /\ phase \in {"ticking", "serving"} => EachOnce(store)
  /\ phase = "publishing" =>
       \E b \in Blocks, to \in Positions :
         AllBut(store, b) /\ publishing = <<[at |-> to, holds |-> Append(store[to], b)]>>

WholeInv == ~raced => HandsFirst /\ StepWhole

\* Lifting a block out of one stack and putting it on another, a position at a time.
LEMMA Carried ==
  ASSUME Shape, NEW h \in Hands, hand[h].view = store, EachOnce(store), NEW b \in BlocksOf(store),
         hand[h].to \in Positions
  PROVE  EachOnce(After(After(store, Delivered(h, b, PositionOf(store, b))), Delivered(h, b, hand[h].to)))
  <1> DEFINE p == PositionOf(store, b)
  <1> DEFINE to == hand[h].to
  <1> DEFINE w == Without(store[p], b)
  <1> DEFINE t == [store EXCEPT ![p] = w]
  <1>1. store \in Tables /\ b \in Blocks /\ p \in Positions
    BY Found DEF Shape, TypeOK
  <1>2. /\ w \in Seq(Blocks)
        /\ \E k \in DOMAIN store[p] : store[p][k] = b /\ Less1(w, store[p], k)
    <2> DEFINE K == {j \in DOMAIN store[p] : store[p][j] = b}
    <2>1. store[p] \in Seq(Blocks) /\ DOMAIN store[p] \subseteq Nat
      BY <1>1, Places
    <2>2. K # {} /\ K \in SUBSET Nat
      BY <1>1, <2>1, Found
    <2>3. Min(K) \in K
      BY <2>2, Lowest
    <2>4. w = RemoveAt(store[p], Min(K))
      BY DEF Without
    <2>5. QED BY <2>1, <2>3, <2>4, LeftOut
  <1>3. t \in Tables /\ AllBut(t, b)
    BY <1>1, <1>2, Lifted
  <1> DEFINE u == [t EXCEPT ![to] = Append(t[to], b)]
  <1>4. EachOnce(u)
    BY <1>1, <1>3, PutDown
  <1>5. DOMAIN store = Positions /\ t[p] = w /\ \A q \in Positions \ {p} : t[q] = store[q]
    BY <1>1 DEF Tables
  <1>6. Delivered(h, b, p) = [at |-> p, holds |-> IF p = to THEN Append(w, b) ELSE w]
    BY DEF Delivered
  <1>7. Delivered(h, b, to) = [at |-> to, holds |-> Append(IF to = p THEN w ELSE store[to], b)]
    BY DEF Delivered
  <1> HIDE DEF p, w, to
  <1>8. CASE p = to
    <2>1. After(store, Delivered(h, b, p)) = u
      BY <1>1, <1>5, <1>6, <1>8 DEF After, Tables
    <2>2. After(u, Delivered(h, b, to)) = u
      BY <1>1, <1>5, <1>7, <1>8 DEF After, Tables
    <2>3. QED BY <1>4, <2>1, <2>2 DEF p, to
  <1>9. CASE p # to
    <2>1. After(store, Delivered(h, b, p)) = t
      BY <1>6, <1>9 DEF After
    <2>2. Delivered(h, b, to) = [at |-> to, holds |-> Append(t[to], b)]
      BY <1>5, <1>7, <1>9 DEF to
    <2>3. After(t, Delivered(h, b, to)) = u
      BY <2>2 DEF After
    <2>4. QED BY <1>4, <2>1, <2>3 DEF p, to
  <1>10. QED BY <1>8, <1>9

\* A table at rest: nothing to drain, and each block there once.
LEMMA SettledAlone ==
  /\ inbound = <<>> => (Settles <=> EachOnce(store))
  /\ \A d : inbound = <<d>> => (Settles <=> EachOnce(After(store, d)))
  /\ \A d, e : inbound = <<d, e>> => (Settles <=> EachOnce(After(After(store, d), e)))
  <1>1. inbound = <<>> => (Settles <=> EachOnce(store))
    <2>1. inbound = <<>> => Len(inbound) = 0
      OBVIOUS
    <2>2. QED BY <2>1 DEF Settles, Settled
  <1>2. ASSUME NEW d, inbound = <<d>> PROVE Settles <=> EachOnce(After(store, d))
    <2>1. Len(inbound) = 1 /\ inbound[1] = d
      BY <1>2
    <2>2. QED BY <2>1 DEF Settles, Settled
  <1>3. ASSUME NEW d, NEW e, inbound = <<d, e>> PROVE Settles <=> EachOnce(After(After(store, d), e))
    <2>1. Len(inbound) = 2 /\ inbound[1] = d /\ inbound[2] = e
      BY <1>3
    <2>2. QED BY <2>1 DEF Settles, Settled
  <1>4. QED BY <1>1, <1>2, <1>3

LEMMA WholeHands ==
  ASSUME Shape, WholeInv, NEW h \in Hands,
         Reach(h) \/ Reaching(h) \/ \E b \in Names, to \in Positions : Type(h, b, to)
  PROVE  WholeInv'
  <1>1. SUFFICES ASSUME ~raced' PROVE HandsFirst' /\ StepWhole'
    BY DEF WholeInv
  <1>2. ~raced /\ HandsFirst /\ StepWhole
    <2>1. raced => raced'
      BY Zenon DEF Reach, Reaching, PutBack, Drop, Type, Disturb, LookAt, FindNothing,
                   DeliverSource, DeliverDestination, Leave
    <2>2. QED BY <1>1, <2>1 DEF WholeInv
  <1>3. hand \in [Hands -> HandRecords] /\ Shape'
    BY ShapeHands DEF Shape, TypeOK, HandRecords
  <1>4. UNCHANGED <<store, phase, publishing>>
    BY DEF kernel, Reach, Reaching, PutBack, Drop, Type, Disturb, LookAt, FindNothing,
           DeliverSource, DeliverDestination, Leave
  <1>5. /\ hand' \in [Hands -> HandRecords] /\ \A k \in Hands \ {h} : hand'[k] = hand[k]
    BY <1>3 DEF Shape, TypeOK, HandRecords, Reach, Reaching, PutBack, Drop, Type, Disturb, LookAt, FindNothing,
           Finish, DeliverSource, DeliverDestination, Leave
  <1>6. \A k \in Hands \ {h} : Acting(k)' <=> Acting(k)
    BY <1>5 DEF Acting
  <1>7. CASE (Reach(h) \/ PutBack(h))
    <2>1. ~Acting(h) /\ ~Acting(h)' /\ UNCHANGED inbound
      BY <1>3, <1>7 DEF Reach, PutBack, Acting, Away
    <2>2. \A k \in Hands : /\ Acting(k)' <=> Acting(k)
                           /\ Acting(k) => k # h
      BY <1>6, <2>1
    <2>3. Settles' <=> Settles
      BY <1>4, <2>1 DEF Settles, Settled, After
    <2>4. \A k \in Hands \ {h} : Square(k) => Square(k)'
      BY <1>4, <1>5, <2>1, <2>3 DEF Square, Delivered
    <2>5. HandsFirst'
      BY <1>2, <1>4, <2>2, <2>4 DEF HandsFirst
    <2>6. StepWhole'
      BY <1>2, <1>4, <2>1, <2>2, <2>3 DEF StepWhole
    <2>7. QED BY <2>5, <2>6
  <1>8. CASE \E b \in Names, to \in Positions : Drop(h, b, to) \/ Type(h, b, to)
    <2>1. PICK b \in Names, to \in Positions, drag \in BOOLEAN : Disturb(h, b, to, drag)
      BY <1>8 DEF Drop, Type
    <2>2. AtRest(h) /\ UNCHANGED inbound
      BY <1>1, <2>1, Zenon DEF Disturb
    <2>3. /\ phase = "resting" /\ inbound = <<>> /\ \A k \in Hands \ {h} : ~Acting(k)
      BY <2>2 DEF AtRest
    <2>4. ~Acting(h)
      <3>1. Away.at = "away"
        BY DEF Away
      <3>2. hand[h].at = "dragging" \/ hand[h] = Away
        BY <1>8 DEF Drop, Type
      <3>3. QED BY <3>1, <3>2 DEF Acting
    <2>5. EachOnce(store)
      BY <1>2, <2>3, <2>4, SettledAlone DEF StepWhole
    <2>6. hand'[h].at = "looking" /\ hand'[h].view = <<>>
      BY <1>3, <2>1 DEF Disturb
    <2>7. HandsFirst'
      BY <1>4, <1>6, <2>2, <2>3, <2>5, <2>6 DEF HandsFirst, Square
    <2>8. StepWhole'
      BY <1>4, <2>3, <2>6 DEF StepWhole, Acting
    <2>9. QED BY <2>7, <2>8
  <1>9. CASE Acting(h)
    <2>1. /\ phase = "resting" /\ Square(h) /\ \A k \in Hands : Acting(k) => k = h
      BY <1>2, <1>9 DEF HandsFirst
    <2>2. CASE LookAt(h)
      <3> DEFINE v == hand[h].view
      <3>1. /\ hand[h].at = "looking" /\ Len(v) < N /\ v \in Seq(Seq(Blocks)) /\ UNCHANGED inbound
            /\ hand'[h].at = "looking" /\ hand'[h].view = Append(v, store[Len(v) + 1])
        BY <1>3, <2>2 DEF LookAt, HandRecords
      <3>2. inbound = <<>> /\ EachOnce(store) /\ \A k \in DOMAIN v : v[k] = store[k]
        BY <2>1, <3>1 DEF Square
      <3> HIDE DEF v
      <3>3. \A k \in DOMAIN Append(v, store[Len(v) + 1]) : Append(v, store[Len(v) + 1])[k] = store[k]
        BY <3>1, <3>2
      <3>4. Square(h)'
        BY <1>4, <3>1, <3>2, <3>3 DEF Square
      <3>5. HandsFirst'
        BY <1>4, <1>6, <2>1, <3>4 DEF HandsFirst
      <3>6. StepWhole'
        BY <1>4, <2>1, <3>1 DEF StepWhole, Acting
      <3>7. QED BY <3>5, <3>6
    <2>3. CASE FindNothing(h)
      <3>1. hand[h].at = "looking" /\ UNCHANGED inbound /\ hand'[h].at = "done"
        BY <1>3, <2>3 DEF FindNothing, SeenWhole, Finish
      <3>2. inbound = <<>> /\ EachOnce(store)
        BY <2>1, <3>1 DEF Square
      <3>3. Settles'
        BY <1>4, <3>1, <3>2, SettledAlone DEF Settles, Settled, After
      <3>4. Square(h)'
        BY <3>1, <3>3 DEF Square
      <3>5. HandsFirst'
        BY <1>4, <1>6, <2>1, <3>4 DEF HandsFirst
      <3>6. StepWhole'
        BY <1>4, <2>1, <3>1 DEF StepWhole, Acting
      <3>7. QED BY <3>5, <3>6
    <2>4. CASE DeliverSource(h)
      <3>1. /\ hand[h].at = "looking" /\ SeenWhole(h)
            /\ hand'[h] = [hand[h] EXCEPT !.at = "delivering"]
        BY <1>3, <2>4 DEF DeliverSource, SeenWhole
      <3>2. PICK b \in hand[h].block :
              Finds(h, b) /\ inbound' = Append(inbound, Delivered(h, b, PositionOf(hand[h].view, b)))
        BY <2>4 DEF DeliverSource
      <3>3. hand[h].view \in Tables /\ hand[h].block = {b}
        BY <3>1, <3>2, Sees DEF Shape, HandsInv, Fits
      <3>4. inbound = <<>> /\ EachOnce(store) /\ \A k \in DOMAIN hand[h].view : hand[h].view[k] = store[k]
        BY <2>1, <3>1 DEF Square
      <3>5. hand[h].view = store
        BY <3>3, <3>4 DEF Shape, TypeOK, Tables
      <3>6. inbound' = <<Delivered(h, b, PositionOf(store, b))>>
        BY <3>2, <3>4, <3>5
      <3>7. /\ hand'[h].at = "delivering" /\ hand'[h].view = hand[h].view /\ hand'[h].block = {b}
            /\ hand'[h].to = hand[h].to
        BY <1>3, <3>1, <3>3 DEF HandRecords
      <3>8. Delivered(h, b, PositionOf(store, b))' = Delivered(h, b, PositionOf(store, b))
        BY <1>4, <3>7 DEF Delivered
      <3>9. Square(h)'
        BY <1>4, <3>4, <3>5, <3>6, <3>7, <3>8 DEF Square
      <3>10. HandsFirst'
        BY <1>4, <1>6, <2>1, <3>9 DEF HandsFirst
      <3>11. StepWhole'
        BY <1>4, <2>1, <3>7 DEF StepWhole, Acting
      <3>12. QED BY <3>10, <3>11
    <2>5. CASE DeliverDestination(h)
      <3>1. hand[h].at = "delivering" /\ hand'[h].at = "done"
        BY <1>3, <2>5 DEF DeliverDestination, Finish
      <3>2. PICK b \in hand[h].block : inbound' = Append(inbound, Delivered(h, b, hand[h].to))
        BY <2>5 DEF DeliverDestination
      <3>3. /\ hand[h].view = store /\ EachOnce(store)
            /\ inbound = <<Delivered(h, b, PositionOf(store, b))>>
        BY <2>1, <3>1, <3>2 DEF Square
      <3>4. hand[h].to \in Positions /\ b \in BlocksOf(store)
        BY <1>9, <3>1, <3>2, <3>3 DEF Shape, HandsInv, Fits, Acting
      <3>5. EachOnce(After(After(store, Delivered(h, b, PositionOf(store, b))), Delivered(h, b, hand[h].to)))
        BY <3>3, <3>4, Carried
      <3> DEFINE d == Delivered(h, b, PositionOf(store, b))
      <3> DEFINE e == Delivered(h, b, hand[h].to)
      <3>6. inbound' = Append(inbound, e) /\ inbound = <<d>> /\ EachOnce(After(After(store, d), e))
        BY <3>2, <3>3, <3>5
      <3> HIDE DEF d, e
      <3>7. inbound \in Seq({d, e}) /\ Len(inbound) = 1 /\ inbound[1] = d
        BY <3>6
      <3>8. Len(inbound') = 2 /\ inbound'[1] = d /\ inbound'[2] = e
        BY <3>6, <3>7
      <3>9. Settles'
        BY <1>4, <3>6, <3>8 DEF Settles, Settled, After
      <3>10. Square(h)'
        BY <3>1, <3>9 DEF Square
      <3>11. HandsFirst'
        BY <1>4, <1>6, <2>1, <3>10 DEF HandsFirst
      <3>12. StepWhole'
        BY <1>4, <2>1, <3>1 DEF StepWhole, Acting
      <3>13. QED BY <3>11, <3>12
    <2>6. CASE Leave(h)
      <3>1. hand[h].at = "done" /\ hand'[h] = Away /\ UNCHANGED inbound
        BY <1>3, <2>6 DEF Leave
      <3>2. ~Acting(h)' /\ \A k \in Hands : ~Acting(k)'
        BY <1>6, <2>1, <3>1 DEF Acting, Away
      <3>3. Settles
        BY <2>1, <3>1 DEF Square
      <3>4. Settles'
        BY <1>4, <3>1, <3>3 DEF Settles, Settled, After
      <3>5. QED BY <1>4, <2>1, <3>2, <3>4 DEF HandsFirst, StepWhole
    <2>7. QED BY <1>7, <1>8, <2>2, <2>3, <2>4, <2>5, <2>6 DEF Reaching
  <1>10. CASE ~Acting(h)
    <2>1. ~(LookAt(h) \/ FindNothing(h) \/ DeliverSource(h) \/ DeliverDestination(h) \/ Leave(h))
      BY <1>10 DEF Acting, LookAt, FindNothing, SeenWhole, DeliverSource, DeliverDestination, Leave
    <2>2. QED BY <1>7, <1>8, <2>1 DEF Reaching
  <1>11. QED BY <1>9, <1>10

\* The arm lifts a block that is clear.
LEMMA Lifts ==
  ASSUME store \in Tables, EachOnce(store), NEW b, NEW to, Allowed(store, b, to),
         store' = [store EXCEPT ![PositionOf(store, b)] = Front(@)]
  PROVE  store' \in Tables /\ AllBut(store', b) /\ b \in Blocks
  <1> DEFINE p == PositionOf(store, b)
  <1>1. b \in BlocksOf(store) /\ store[p][Len(store[p])] = b /\ p # to
    BY DEF Allowed, IsClear
  <1>2. p \in Positions /\ b \in Blocks /\ \E k \in DOMAIN store[p] : store[p][k] = b
    BY <1>1, Found
  <1>3. store[p] \in Seq(Blocks) /\ store[p] # <<>>
    BY <1>2 DEF Tables
  <1>4. Front(store[p]) \in Seq(Blocks) /\ Less1(Front(store[p]), store[p], Len(store[p])) /\ Len(store[p]) \in DOMAIN store[p]
    BY <1>3, TopTaken
  <1>5. store' = [store EXCEPT ![p] = Front(store[p])]
    OBVIOUS
  <1> HIDE DEF p
  <1> DEFINE r == Front(store[p])
  <1>6. PICK k \in DOMAIN store[p] : store[p][k] = b /\ Less1(r, store[p], k)
    BY <1>1, <1>4
  <1> HIDE DEF r
  <1>7. [store EXCEPT ![p] = r] \in Tables /\ AllBut([store EXCEPT ![p] = r], b)
    BY <1>2, <1>4, <1>6, Lifted DEF r
  <1>8. QED BY <1>2, <1>5, <1>7 DEF r

LEMMA WholeKernel == ASSUME Shape, WholeInv, Step PROVE WholeInv'
  <1>1. SUFFICES ASSUME ~raced' PROVE HandsFirst' /\ StepWhole'
    BY DEF WholeInv
  <1>2. ~raced /\ HandsFirst /\ StepWhole /\ Shape'
    <2>1. raced => raced'
      BY Zenon DEF Step, BeginStep, DrainOne, DrainDone, OtherTick, Command, Compose, Quit, Issue, Serve, Publish, people
    <2>2. QED BY <1>1, <2>1, ShapeKernel DEF WholeInv
  <1>3. UNCHANGED hand /\ \A h \in Hands : Acting(h)' <=> Acting(h)
    BY DEF Step, BeginStep, DrainOne, DrainDone, OtherTick, Command, Compose, Quit, Issue, Serve, Publish, people, Acting
  <1>4. \A h \in Hands : ~Acting(h)
    <2>1. CASE BeginStep
      BY <1>1, <2>1, Zenon DEF BeginStep
    <2>2. CASE ~BeginStep
      <3>1. phase # "resting"
        BY <2>2 DEF Step, DrainOne, DrainDone, OtherTick, Command, Compose, Quit, Issue, Serve, Publish
      <3>2. QED BY <1>2, <3>1 DEF HandsFirst
    <2>3. QED BY <2>1, <2>2
  <1>5. HandsFirst'
    BY <1>3, <1>4 DEF HandsFirst
  <1>6. store \in Tables /\ inbound \in Seq(Contents)
    BY DEF Shape, TypeOK
  <1>7. CASE BeginStep
    <2>1. phase = "resting" /\ phase' = "draining" /\ UNCHANGED <<store, inbound>>
      BY <1>7 DEF BeginStep
    <2>2. Settles
      BY <1>2, <1>4, <2>1 DEF StepWhole
    <2>3. Settles'
      BY <2>1, <2>2 DEF Settles, Settled, After
    <2>4. QED BY <1>5, <2>1, <2>3 DEF StepWhole
  <1>8. CASE DrainOne
    <2>1. phase = "draining" /\ UNCHANGED phase /\ inbound # <<>> /\ inbound' = Tail(inbound)
          /\ store' = After(store, Head(inbound))
      BY <1>8 DEF DrainOne, kernel, After
    <2>2. Settles
      BY <1>2, <2>1 DEF StepWhole
    <2>3. /\ Len(inbound) \in {1, 2} /\ Head(inbound) = inbound[1] /\ Len(inbound') = Len(inbound) - 1
          /\ Len(inbound) = 2 => inbound'[1] = inbound[2]
      <3> DEFINE n == Len(inbound)
      <3>1. n \in Nat /\ n # 0 /\ n <= 2
        BY <1>6, <2>1, <2>2 DEF Settles
      <3> HIDE DEF n
      <3>2. n \in {1, 2}
        BY <3>1
      <3> USE DEF n
      <3>3. QED BY <1>6, <2>1, <3>2
    <2>4. Settles'
      <3>1. CASE Len(inbound) = 1
        BY <2>1, <2>2, <2>3, <3>1 DEF Settles, Settled
      <3>2. CASE Len(inbound) = 2
        <4>1. Len(inbound') = 1 /\ inbound'[1] = inbound[2]
          BY <2>3, <3>2
        <4>2. Settled = After(After(store, inbound[1]), inbound[2])
          BY <3>2 DEF Settled
        <4>3. Settled' = After(store', inbound'[1])
          BY <4>1 DEF Settled, After
        <4>4. QED BY <2>1, <2>2, <2>3, <4>1, <4>2, <4>3 DEF Settles, EachOnce, NoneTwice, BlocksOf
      <3>3. QED BY <2>3, <3>1, <3>2
    <2>5. QED BY <1>5, <2>1, <2>4 DEF StepWhole
  <1>9. CASE DrainDone
    <2>1. phase = "draining" /\ phase' = "ticking" /\ inbound = <<>> /\ UNCHANGED <<store, inbound>>
      BY <1>9 DEF DrainDone
    <2>2. EachOnce(store)
      BY <1>2, <2>1, SettledAlone DEF StepWhole
    <2>3. QED BY <1>5, <2>1, <2>2 DEF StepWhole
  <1>10. CASE OtherTick \/ Command
    <2>1. phase = "ticking" /\ phase' \in {"resting", "serving"} /\ UNCHANGED <<store, inbound, publishing>>
      BY <1>10 DEF OtherTick, Command, Compose, Quit, Issue
    <2>2. inbound = <<>> /\ EachOnce(store)
      BY <1>2, <2>1 DEF StepWhole
    <2>3. Settles
      BY <2>2, SettledAlone
    <2>4. Settles'
      BY <2>1, <2>3 DEF Settles, Settled, After
    <2>5. QED BY <1>5, <2>1, <2>2, <2>4 DEF StepWhole
  <1>11. CASE Serve
    <2>0. phase = "serving" /\ inbound = <<>> /\ EachOnce(store) /\ UNCHANGED inbound
      BY <1>2, <1>11 DEF Serve, StepWhole
    <2>1. PICK c \in ToSet(asked) : \E b \in c.block :
            IF Allowed(store, b, c.to)
              THEN /\ store' = [store EXCEPT ![PositionOf(store, b)] = Front(@)]
                   /\ publishing' = <<[at |-> c.to, holds |-> Append(store[c.to], b)]>>
                   /\ phase' = "publishing"
              ELSE Refuse
      BY <1>11 DEF Serve
    <2>2. PICK b \in c.block :
            IF Allowed(store, b, c.to)
              THEN /\ store' = [store EXCEPT ![PositionOf(store, b)] = Front(@)]
                   /\ publishing' = <<[at |-> c.to, holds |-> Append(store[c.to], b)]>>
                   /\ phase' = "publishing"
              ELSE Refuse
      BY <2>1
    <2>3. c.to \in Positions
      BY TheOne, Verbs
    <2>4. CASE Allowed(store, b, c.to)
      <3>1. store' \in Tables /\ AllBut(store', b) /\ b \in Blocks
        BY <1>6, <2>0, <2>2, <2>4, Lifts
      <3>2. store'[c.to] = store[c.to]
        BY <1>6, <2>2, <2>3, <2>4 DEF Allowed, Tables
      <3>3. phase' = "publishing" /\ publishing' = <<[at |-> c.to, holds |-> Append(store'[c.to], b)]>>
        BY <2>2, <2>4, <3>2
      <3>4. StepWhole'
        BY <2>0, <2>3, <3>1, <3>3 DEF StepWhole, AllBut, NoneTwice, BlocksOf
      <3>5. QED BY <1>5, <3>4
    <2>5. CASE ~Allowed(store, b, c.to)
      <3>1. phase' = "resting" /\ UNCHANGED store
        BY <2>2, <2>5 DEF Refuse
      <3>2. Settles
        BY <2>0, SettledAlone
      <3>3. Settles'
        BY <2>0, <3>1, <3>2 DEF Settles, Settled, After
      <3>4. QED BY <1>5, <3>1, <3>3 DEF StepWhole
    <2>6. QED BY <2>4, <2>5
  <1>12. CASE Publish
    <2>1. phase = "publishing" /\ phase' = "resting" /\ UNCHANGED inbound /\ inbound = <<>>
          /\ store' = [store EXCEPT ![publishing[1].at] = publishing[1].holds]
      BY <1>2, <1>12 DEF Publish, StepWhole
    <2>2. PICK b \in Blocks, to \in Positions :
            AllBut(store, b) /\ publishing = <<[at |-> to, holds |-> Append(store[to], b)]>>
      BY <1>2, <2>1 DEF StepWhole
    <2>3. publishing[1].at = to /\ publishing[1].holds = Append(store[to], b)
      BY <2>2
    <2>4. EachOnce(store')
      BY <1>6, <2>1, <2>2, <2>3, PutDown
    <2>5. Settles'
      BY <2>1, <2>4 DEF Settles, Settled, EachOnce, NoneTwice, BlocksOf
    <2>6. QED BY <1>5, <2>1, <2>5 DEF StepWhole
  <1>13. QED BY <1>7, <1>8, <1>9, <1>10, <1>11, <1>12 DEF Step

\* What every reachable state of the workspace is like.
Inv == Shape /\ WholeInv

LEMMA InvInit == Init => Inv
  <1>1. SUFFICES ASSUME Init PROVE WholeInv
    BY ShapeInit DEF Inv
  <1>2. EachOnce(store) /\ inbound = <<>> /\ phase = "resting"
    BY <1>1, WorkspaceAssumption DEF Init
  <1>3. Settles
    BY <1>2, SettledAlone
  <1>4. \A h \in Hands : ~Acting(h)
    BY <1>1 DEF Init, Acting, Away
  <1>5. QED BY <1>2, <1>3, <1>4 DEF WholeInv, HandsFirst, StepWhole

LEMMA InvNext == ASSUME Inv, [Next]_vars PROVE Inv'
  <1>1. Shape'
    BY ShapeNext DEF Inv
  <1>2. CASE UNCHANGED <<store, inbound, phase, publishing, hand, raced>>
    <2>1. Settles' <=> Settles
      BY <1>2 DEF Settles, Settled, After
    <2>2. \A h \in Hands : Square(h)' <=> Square(h)
      BY <1>2, <2>1 DEF Square, Delivered
    <2>3. HandsFirst' <=> HandsFirst
      BY <1>2, <2>2 DEF HandsFirst, Acting
    <2>4. StepWhole' <=> StepWhole
      BY <1>2, <2>1 DEF StepWhole, Acting
    <2>5. QED BY <1>1, <1>2, <2>3, <2>4 DEF Inv, WholeInv
  <1>3. CASE \E g \in Goals : Say(g)
    BY <1>2, <1>3 DEF Say, kernel
  <1>4. CASE UNCHANGED vars
    BY <1>2, <1>4 DEF vars, kernel, people
  <1>5. QED BY <1>1, <1>3, <1>4, WholeHands, WholeKernel DEF Next, Inv

\* Whenever a job decodes, every block is on the table once: the arm's move is complete, and
\* both deliveries of a hand are in, for any table and hands that looked at one at rest.
\* (session.py, Session.step and disturb; arm.py, Arm.ask)
THEOREM NoMoveHalfSeen == Spec => []JobsSeeAWholeTable
  <1>1. Inv => JobsSeeAWholeTable
    BY DEF Inv, WholeInv, StepWhole, JobsSeeAWholeTable, Whole
  <1>2. QED BY <1>1, InvInit, InvNext, PTL DEF Spec

-----------------------------------------------------------------------------
(***************************************************************************)
(* With nobody reaching in: one block is meant, and it is where it was to  *)
(* be when the stacker exits.                                              *)
(***************************************************************************)
Shown(tbl, p)   == \E k \in DOMAIN tbl[p] : ColourOf[tbl[p][k]] = goal.what
OneShown(tbl)   ==
  \A p \in Positions : \A j, k \in DOMAIN tbl[p] :
    ColourOf[tbl[p][j]] = goal.what /\ ColourOf[tbl[p][k]] = goal.what => j = k
FromEmptied(tbl) == \A k \in DOMAIN goal.from : goal.from[k] # goal.to => ~Shown(tbl, goal.from[k])

Alone == (\A h \in Hands : hand[h] = Away) /\ ~raced /\ inbound = <<>>

\* The move a stacker has in mind is the one the table still calls for.
InMind ==
  jobs.stacker.alive /\ jobs.stacker.doing \in Moves =>
    /\ phase \notin {"serving", "publishing"}
    /\ jobs.stacker.doing \in NextCommands(store, goal)

Named == goal.what \in Blocks => placed \subseteq {goal.what}

\* A colour was said, and no block of it was put at the destination so far: no stack shows it
\* twice, and what is moved is of another.
NonePlaced ==
  /\ placed = {} /\ OneShown(store)
  /\ phase = "serving" => \A k \in DOMAIN asked : \A b \in asked[k].block : ColourOf[b] # goal.what
  /\ phase = "publishing" => OneShown(After(store, publishing[1]))

\* One was, or is on its way there: from then on the destination shows it, and the place it
\* was said to be at does not.
OnePlaced ==
  \E x \in Blocks :
    /\ placed = {x} /\ ColourOf[x] = goal.what
    /\ CASE phase = "serving" ->
              /\ asked = <<Move(x, goal.to)>> /\ Allowed(store, x, goal.to) /\ OneShown(store)
              /\ \A k \in DOMAIN goal.from :
                   goal.from[k] # goal.to /\ Shown(store, goal.from[k]) => goal.from[k] = PositionOf(store, x)
         [] phase = "publishing" ->
              /\ FromEmptied(store) /\ publishing[1].at = goal.to
              /\ \E k \in DOMAIN publishing[1].holds : ColourOf[publishing[1].holds[k]] = goal.what
         [] OTHER -> Shown(store, goal.to) /\ FromEmptied(store)

Coloured ==
  plain /\ goal.what \in Colours =>
    /\ placed = {} \/ \E x \in Blocks : placed = {x}
    /\ jobs.stacker.alive => NonePlaced \/ OnePlaced

SoloInv == drags = 0 => Alone /\ InMind /\ Named /\ Coloured

LEMMA TheStacker == jobs["stacker"] = jobs.stacker /\ jobs["tidy"] = jobs.tidy
  OBVIOUS

\* A block with nothing over it is on top; one with something over it is not.
LEMMA Covered ==
  ASSUME NEW tbl \in Tables, NoneTwice(tbl), NEW b \in BlocksOf(tbl)
  PROVE  /\ Above(tbl, b) = {} => IsClear(tbl, b)
         /\ \A k \in DOMAIN tbl[PositionOf(tbl, b)] :
              tbl[PositionOf(tbl, b)][k] = b /\ Above(tbl, b) # {} => Len(tbl[PositionOf(tbl, b)]) > k
  <1> DEFINE p == PositionOf(tbl, b)
  <1> DEFINE s == tbl[p]
  <1> DEFINE n == Len(s)
  <1>1. p \in Positions /\ \E k \in DOMAIN s : s[k] = b
    BY Found
  <1>2. DOMAIN s = 1 .. n /\ n \in Nat
    BY <1>1, Places
  <1>3. \A j, k \in DOMAIN s : s[j] = b /\ s[k] = b => j = k
    BY <1>1 DEF NoneTwice
  <1>4. Above(tbl, b) = {k \in DOMAIN s : \E j \in DOMAIN s : s[j] = b /\ j < k}
    BY DEF Above
  <1>5. IsClear(tbl, b) <=> s[n] = b
    BY DEF IsClear
  <1> HIDE DEF n, s
  <1>6. PICK k \in 1 .. n : s[k] = b
    BY <1>1, <1>2
  <1>7. Above(tbl, b) = {} => IsClear(tbl, b)
    <2>1. n \in 1 .. n /\ (k = n \/ k < n)
      BY <1>2, <1>6
    <2>2. k < n => n \in Above(tbl, b)
      BY <1>2, <1>4, <1>6, <2>1
    <2>3. QED BY <1>5, <1>6, <2>1, <2>2
  <1>8. Above(tbl, b) # {} => n > k
    BY <1>2, <1>3, <1>4, <1>6
  <1>9. QED BY <1>2, <1>3, <1>6, <1>7, <1>8 DEF n, s

\* The colour that was said is no block's name.
LEMMA SaidColour ==
  ASSUME goal \in Goals, goal.what \in Colours, NEW tbl \in Tables
  PROVE  Target(tbl, goal) = FirstOf(tbl, goal.what, Looked(goal))
  <1>1. goal.what \notin Blocks
    BY WorkspaceAssumption
  <1>2. goal.what \notin BlocksOf(tbl)
    BY <1>1, Places
  <1>3. QED BY <1>1, <1>2, Meant DEF ColourMeant

\* The block pursued is the topmost of its colour where it is; where it was said to be comes
\* first, then the destination.
LEMMA Pursued ==
  ASSUME goal \in Goals, goal.what \in Colours, NEW tbl \in Tables, EachOnce(tbl), NEW b \in Target(tbl, goal)
  PROVE  /\ b \in BlocksOf(tbl) /\ PositionOf(tbl, b) \in Positions
         /\ b \in Resolve(tbl, goal.what, PositionOf(tbl, b))
         /\ PositionOf(tbl, b) # goal.to =>
              \A k \in DOMAIN goal.from :
                goal.from[k] # goal.to /\ Shown(tbl, goal.from[k]) => goal.from[k] = PositionOf(tbl, b)
         /\ Shown(tbl, goal.to) /\ FromEmptied(tbl) => PositionOf(tbl, b) = goal.to
  <1> DEFINE L == Looked(goal)
  <1> DEFINE m == Len(goal.from)
  <1> DEFINE p == PositionOf(tbl, b)
  <1>1. PICK k \in DOMAIN L : /\ b \in Resolve(tbl, goal.what, L[k])
                             /\ \A l \in DOMAIN L : l < k => Resolve(tbl, goal.what, L[l]) = {}
    BY SaidColour, FirstFound, Looks
  <1>2. b \in BlocksOf(tbl)
    BY Meant
  <1>3. L[k] \in Positions /\ \A l \in DOMAIN L : L[l] \in Positions
    BY Looks
  <1>4. L[k] = p
    <2>1. \E i \in DOMAIN tbl[L[k]] : tbl[L[k]][i] = b
      BY <1>1, <1>3, Resolved
    <2>2. QED BY <1>2, <1>3, <2>1, Where DEF EachOnce
  <1>5. /\ DOMAIN L = 1 .. m + 1 + N /\ m \in 0 .. 1 /\ N \in Nat /\ L[m + 1] = goal.to
        /\ DOMAIN goal.from = 1 .. m /\ \A i \in DOMAIN goal.from : L[i] = goal.from[i]
    BY Looks, WorkspaceAssumption
  <1>6. \A q \in Positions : Resolve(tbl, goal.what, q) = {} <=> ~Shown(tbl, q)
    BY Resolved DEF Shown
  <1> HIDE DEF L, m, p
  <1>7. ASSUME p # goal.to, NEW i \in DOMAIN goal.from, goal.from[i] # goal.to, Shown(tbl, goal.from[i])
        PROVE  goal.from[i] = p
    <2>1. i \in DOMAIN L /\ i = 1 /\ m = 1 /\ goal.from[i] = L[i]
      BY <1>5
    <2>2. ~(i < k)
      BY <1>1, <1>3, <1>6, <1>7, <2>1
    <2>3. k = 1
      BY <1>5, <2>1, <2>2
    <2>4. QED BY <1>4, <2>1, <2>3
  <1>8. ASSUME Shown(tbl, goal.to), FromEmptied(tbl)
        PROVE  p = goal.to
    <2>1. m + 1 \in DOMAIN L /\ m + 1 \in Nat
      BY <1>5
    <2>2. ~(m + 1 < k)
      BY <1>1, <1>3, <1>5, <1>6, <1>8, <2>1
    <2>3. k \in Nat /\ (k = m + 1 \/ k \in 1 .. m)
      BY <1>5, <2>2
    <2>4. CASE k = m + 1
      BY <1>4, <1>5, <2>4
    <2>5. CASE k \in 1 .. m
      <3>1. goal.from[k] = p /\ k \in DOMAIN goal.from
        BY <1>4, <1>5, <2>5
      <3>2. Shown(tbl, p)
        BY <1>1, <1>3, <1>4, <1>6
      <3>3. QED BY <1>8, <3>1, <3>2 DEF FromEmptied
    <2>6. QED BY <2>3, <2>4, <2>5
  <1>9. QED BY <1>1, <1>2, <1>3, <1>4, <1>7, <1>8 DEF p

\* The moves a stacker that was told a colour makes: the block pursued, to its destination, when
\* nothing is over it; else what is on top, of another colour, to somewhere else.
LEMMA ColourMoves ==
  ASSUME goal \in Goals, goal.what \in Colours, NEW tbl \in Tables, EachOnce(tbl),
         NEW c \in NextCommands(tbl, goal), c \in Moves
  PROVE  /\ ~(Shown(tbl, goal.to) /\ FromEmptied(tbl))
         /\ \/ \E b \in Blocks :
                 /\ c = Move(b, goal.to) /\ ColourOf[b] = goal.what /\ Allowed(tbl, b, goal.to)
                 /\ \A k \in DOMAIN goal.from :
                      goal.from[k] # goal.to /\ Shown(tbl, goal.from[k]) => goal.from[k] = PositionOf(tbl, b)
            \/ /\ c.to # goal.to
               /\ \A b \in c.block : ColourOf[b] # goal.what
  <1>1. c # Speak
    BY Verbs
  <1>2. PICK b \in Target(tbl, goal) : c = CommandFor(tbl, b, PositionOf(tbl, b), goal.to)
    BY <1>1 DEF NextCommands
  <1> DEFINE p == PositionOf(tbl, b)
  <1>3. /\ b \in BlocksOf(tbl) /\ p \in Positions /\ b \in Resolve(tbl, goal.what, p)
        /\ p # goal.to =>
              \A k \in DOMAIN goal.from : goal.from[k] # goal.to /\ Shown(tbl, goal.from[k]) => goal.from[k] = p
        /\ Shown(tbl, goal.to) /\ FromEmptied(tbl) => p = goal.to
    BY Pursued
  <1>4. goal.to \in Positions /\ b \in Blocks
    BY <1>3, Looks, Places
  <1>5. p # goal.to
    BY <1>1, <1>2, <1>3, <1>4, Commanded
  <1>6. PICK i \in DOMAIN tbl[p] : /\ tbl[p][i] = b /\ ColourOf[b] = goal.what
                                  /\ \A l \in DOMAIN tbl[p] : l > i => ColourOf[tbl[p][l]] # goal.what
    BY <1>3, Resolved
  <1>7. CASE Above(tbl, b) = {}
    <2>1. c = Move(b, goal.to)
      BY <1>2, <1>3, <1>4, <1>5, <1>7, Commanded
    <2>2. Allowed(tbl, b, goal.to)
      BY <1>3, <1>5, <1>7, Covered DEF Allowed, EachOnce
    <2>3. QED BY <1>3, <1>4, <1>5, <1>6, <2>1, <2>2
  <1>8. CASE Above(tbl, b) # {}
    <2>1. PICK q \in Positions \ {goal.to} : c = Move(Top(tbl, p), q)
      BY <1>1, <1>2, <1>3, <1>4, <1>5, <1>8, Commanded
    <2>2. Len(tbl[p]) > i /\ Len(tbl[p]) \in DOMAIN tbl[p]
      <3>1. Len(tbl[p]) > i
        BY <1>3, <1>6, <1>8, Covered DEF EachOnce
      <3>2. DOMAIN tbl[p] = 1 .. Len(tbl[p]) /\ Len(tbl[p]) \in Nat
        BY <1>3, Places
      <3>3. QED BY <3>1, <3>2
    <2>3. ColourOf[Top(tbl, p)] # goal.what
      BY <1>6, <2>2 DEF Top
    <2>4. c.to = q /\ c.block = {Top(tbl, p)}
      BY <2>1, Verbs
    <2>5. QED BY <1>3, <1>5, <2>1, <2>3, <2>4
  <1>9. QED BY <1>7, <1>8

\* A stacker told a block moves no other to its destination.
LEMMA NamedMoves ==
  ASSUME goal \in Goals, goal.what \in Blocks, NEW tbl \in Tables, EachOnce(tbl),
         NEW c \in NextCommands(tbl, goal), c \in Moves, c.to = goal.to
  PROVE  c.block = {goal.what}
  <1>1. goal.what \in BlocksOf(tbl)
    BY DEF EachOnce
  <1>2. Target(tbl, goal) = {goal.what} /\ goal.to \in Positions
    BY <1>1, Meant, Looks
  <1> DEFINE b == goal.what
  <1>3. c = CommandFor(tbl, b, PositionOf(tbl, b), goal.to) /\ c # Speak
    BY <1>2, Verbs DEF NextCommands
  <1>4. c = Move(b, goal.to) \/ \E q \in Positions \ {goal.to} : c = Move(Top(tbl, PositionOf(tbl, b)), q)
    BY <1>1, <1>2, <1>3, Commanded
  <1>5. QED BY <1>4, Verbs

\* What a stack shows when its top is taken, and when something is put on it.
LEMMA TopGone ==
  ASSUME NEW tbl \in Tables, NEW p \in Positions, tbl[p] # <<>>, OneShown(tbl)
  PROVE  /\ OneShown([tbl EXCEPT ![p] = Front(@)])
         /\ \A q \in Positions : Shown([tbl EXCEPT ![p] = Front(@)], q) => Shown(tbl, q)
         /\ ColourOf[tbl[p][Len(tbl[p])]] = goal.what => ~Shown([tbl EXCEPT ![p] = Front(@)], p)
  <1> DEFINE t == [tbl EXCEPT ![p] = Front(@)]
  <1> DEFINE s == tbl[p]
  <1> DEFINE n == Len(s)
  <1>1. s \in Seq(Blocks)
    BY DEF Tables
  <1>2. Front(s) \in Seq(Blocks) /\ Less1(Front(s), s, n) /\ n \in DOMAIN s
    BY <1>1, TopTaken
  <1>3. t[p] = Front(s) /\ \A q \in Positions \ {p} : t[q] = tbl[q]
    BY DEF Tables
  <1>4. n \in Nat /\ DOMAIN s = 1 .. n /\ DOMAIN Front(s) = 1 .. n - 1
    BY <1>1, <1>2 DEF Less1
  <1>5. \A i \in DOMAIN t[p] : i \in DOMAIN s /\ i # n /\ t[p][i] = s[i]
    BY <1>2, <1>3, <1>4 DEF Less1
  <1> HIDE DEF t
  <1>6. OneShown(t)
    BY <1>3, <1>5 DEF OneShown
  <1>7. \A q \in Positions : Shown(t, q) => Shown(tbl, q)
    BY <1>3, <1>5 DEF Shown
  <1>8. ColourOf[s[n]] = goal.what => ~Shown(t, p)
    BY <1>2, <1>5 DEF Shown, OneShown
  <1>9. QED BY <1>6, <1>7, <1>8 DEF t

LEMMA OtherPut ==
  ASSUME NEW tbl \in Tables, OneShown(tbl), NEW p \in Positions, NEW b \in Blocks, ColourOf[b] # goal.what
  PROVE  OneShown([tbl EXCEPT ![p] = Append(tbl[p], b)])
  <1> DEFINE t == [tbl EXCEPT ![p] = Append(tbl[p], b)]
  <1> DEFINE n == Len(tbl[p])
  <1>1. t[p] = Append(tbl[p], b) /\ \A q \in Positions \ {p} : t[q] = tbl[q]
    BY DEF Tables
  <1>2. tbl[p] \in Seq(Blocks)
    BY DEF Tables
  <1>3. \A i \in DOMAIN t[p] : t[p][i] = b \/ (i \in DOMAIN tbl[p] /\ t[p][i] = tbl[p][i])
    BY <1>1, <1>2
  <1> HIDE DEF t
  <1>4. QED BY <1>1, <1>3 DEF OneShown, t

LEMMA Quiet ==
  ASSUME Inv, SoloInv, drags = 0
  PROVE  /\ Alone /\ InMind /\ Named /\ Coloured
         /\ store \in Tables /\ goal \in Goals
         /\ phase # "publishing" => EachOnce(store)
         /\ \A h \in Hands : ~Acting(h)
  <1>1. Alone /\ InMind /\ Named /\ Coloured
    BY DEF SoloInv
  <1>2. store \in Tables /\ goal \in Goals
        /\ phase \in {"resting", "draining", "ticking", "serving", "publishing"}
    BY DEF Inv, Shape, TypeOK
  <1>3. \A h \in Hands : ~Acting(h)
    BY <1>1 DEF Alone, Away, Acting
  <1>4. StepWhole /\ inbound = <<>>
    BY <1>1 DEF Alone, Inv, WholeInv
  <1>5. phase # "publishing" => EachOnce(store)
    BY <1>2, <1>3, <1>4, SettledAlone DEF StepWhole
  <1>6. QED BY <1>1, <1>2, <1>3, <1>5

\* A table left alone between two deliveries of the arm.
LEMMA SoloStill ==
  ASSUME Coloured, UNCHANGED <<store, goal, plain, placed>>, jobs'.stacker.alive => jobs.stacker.alive,
         phase \notin {"serving", "publishing"}, phase' \notin {"serving", "publishing"}
  PROVE  Coloured'
  <1>1. NonePlaced => NonePlaced'
    BY DEF NonePlaced, OneShown
  <1>2. OnePlaced => OnePlaced'
    BY DEF OnePlaced, Shown, FromEmptied
  <1>3. QED BY <1>1, <1>2 DEF Coloured

LEMMA SoloCompose ==
  ASSUME Inv, SoloInv, drags = 0, NEW j \in Running, Compose(j) \/ Quit(j)
  PROVE  InMind' /\ Named' /\ Coloured'
  <1>1. /\ UNCHANGED <<store, inbound, held, asked, publishing, told, people, placed>>
        /\ phase = "ticking" /\ phase' = "resting"
    BY DEF Compose, Quit
  <1>2. j \in {"stacker", "tidy"} /\ (j = "tidy" => ~jobs.stacker.alive)
    BY DEF Running
  <1>3. jobs \in [{"stacker", "tidy"} -> [alive : BOOLEAN, doing : Commands,
                                         last : {"move", "speak", "exit", "none"}]]
    BY DEF Inv, Shape, TypeOK
  <1>4. jobs'.stacker.alive => jobs.stacker.alive
    BY <1>2, <1>3 DEF Compose, Quit
  <1>5. Named'
    BY <1>1, Quiet DEF Named, told
  <1>6. Coloured'
    BY <1>1, <1>4, Quiet, SoloStill DEF told
  <1>7. InMind'
    <2>1. CASE j = "tidy"
      BY <1>2, <1>4, <2>1 DEF InMind
    <2>2. CASE j = "stacker" /\ Quit(j)
      <3>1. jobs'.stacker.alive = FALSE
        BY <1>3, <2>2 DEF Quit
      <3>2. QED BY <3>1 DEF InMind
    <2>3. CASE j = "stacker" /\ Compose(j)
      <3>1. PICK c \in Composed(j) \ {Exit} : jobs' = [jobs EXCEPT ![j].doing = c]
        BY <2>3 DEF Compose
      <3>2. jobs'.stacker.doing = c
        BY <1>3, <2>3, <3>1
      <3>3. c \in NextCommands(store, goal)
        BY <2>3, <3>1 DEF Composed, StopAfterSaying
      <3>4. QED BY <1>1, <3>2, <3>3 DEF InMind, told
    <2>4. QED BY <1>2, <2>1, <2>2, <2>3
  <1>8. QED BY <1>5, <1>6, <1>7

LEMMA SoloIssue ==
  ASSUME Inv, SoloInv, drags = 0, NEW j \in Running, Issue(j)
  PROVE  InMind' /\ Named' /\ Coloured'
  <1> DEFINE c == jobs[j].doing
  <1>1. j \in {"stacker", "tidy"} /\ (j = "tidy" => ~jobs.stacker.alive)
    BY DEF Running
  <1>2. jobs \in [{"stacker", "tidy"} -> [alive : BOOLEAN, doing : Commands,
                                         last : {"move", "speak", "exit", "none"}]]
    BY DEF Inv, Shape, TypeOK
  <1>3. /\ jobs' = [jobs EXCEPT ![j].doing = None, ![j].last = c.verb]
        /\ asked' = IF c.verb = "move" THEN Append(asked, c) ELSE asked
        /\ phase' = IF c.verb = "move" THEN "serving" ELSE "resting"
        /\ placed' = IF c.verb = "move" /\ j = "stacker" /\ c.to = goal.to
                       THEN placed \cup c.block ELSE placed
        /\ UNCHANGED <<store, inbound, held, publishing, told, people>> /\ phase = "ticking"
    BY DEF Issue
  <1>4. jobs'.stacker.alive = jobs.stacker.alive
    BY <1>1, <1>2, <1>3
  <1>5. /\ InMind /\ Named /\ Coloured /\ store \in Tables /\ goal \in Goals /\ EachOnce(store)
        /\ UNCHANGED <<goal, plain>> /\ asked = <<>> /\ c \in Orders
    BY <1>1, <1>3, Quiet DEF told, Inv, Shape, OrdersInv
  <1>6. CASE j = "tidy"
    <2>1. ~jobs'.stacker.alive /\ placed' = placed
      BY <1>1, <1>3, <1>4, <1>6
    <2>2. QED BY <1>5, <2>1 DEF InMind, Named, Coloured
  <1>7. CASE j = "stacker"
    <2>1. jobs.stacker.alive /\ c = jobs.stacker.doing
      BY <1>7 DEF Running
    <2>2. InMind'
      <3>1. jobs'.stacker.doing = None /\ None \notin Moves
        BY <1>2, <1>3, <1>7, Verbs
      <3>2. QED BY <3>1 DEF InMind
    <2> HIDE DEF c
    <2>3. CASE c \in Moves
      <3>1. c \in NextCommands(store, goal) /\ c.verb = "move"
        BY <1>5, <2>1, <2>3, Verbs DEF InMind
      <3>2. /\ asked' = <<c>> /\ phase' = "serving"
            /\ placed' = IF c.to = goal.to THEN placed \cup c.block ELSE placed
        BY <1>3, <1>5, <1>7, <3>1
      <3>3. Named'
        <4>1. goal.what \in Blocks /\ c.to = goal.to => c.block = {goal.what}
          BY <1>5, <2>3, <3>1, NamedMoves
        <4>2. QED BY <1>5, <3>2, <4>1 DEF Named
      <3>4. Coloured'
        <4>1. SUFFICES ASSUME plain, goal.what \in Colours
                       PROVE  /\ placed' = {} \/ \E x \in Blocks : placed' = {x}
                              /\ NonePlaced' \/ OnePlaced'
          BY <1>5, Zenon DEF Coloured
        <4>2. NonePlaced \/ OnePlaced
          BY <1>5, <2>1, <4>1 DEF Coloured
        <4>3. /\ ~(Shown(store, goal.to) /\ FromEmptied(store))
              /\ \/ \E b \in Blocks :
                      /\ c = Move(b, goal.to) /\ ColourOf[b] = goal.what /\ Allowed(store, b, goal.to)
                      /\ \A k \in DOMAIN goal.from :
                           goal.from[k] # goal.to /\ Shown(store, goal.from[k]) => goal.from[k] = PositionOf(store, b)
                 \/ /\ c.to # goal.to
                    /\ \A b \in c.block : ColourOf[b] # goal.what
          BY <1>5, <2>3, <3>1, <4>1, ColourMoves
        <4>4. ~OnePlaced
          BY <1>3, <4>3 DEF OnePlaced
        <4>5. placed = {} /\ OneShown(store)
          BY <4>2, <4>4 DEF NonePlaced
        <4>6. OneShown(store)'
          BY <1>3, <1>5, <4>5 DEF OneShown
        <4>7. CASE c.to # goal.to
          <5>1. \A b \in c.block : ColourOf[b] # goal.what
            BY <4>3, <4>7, Verbs
          <5>2. \A k \in DOMAIN asked' : asked'[k] = c
            BY <3>2
          <5>3. placed' = {} /\ phase' = "serving"
            BY <3>2, <4>5, <4>7
          <5>4. NonePlaced'
            BY <1>5, <4>6, <5>1, <5>2, <5>3 DEF NonePlaced
          <5>5. QED BY <5>3, <5>4
        <4>8. CASE c.to = goal.to
          <5>1. PICK b \in Blocks :
                  /\ c = Move(b, goal.to) /\ ColourOf[b] = goal.what /\ Allowed(store, b, goal.to)
                  /\ \A k \in DOMAIN goal.from :
                       goal.from[k] # goal.to /\ Shown(store, goal.from[k]) => goal.from[k] = PositionOf(store, b)
            BY <4>3, <4>8
          <5>2. placed' = {b}
            BY <3>2, <4>5, <4>8, <5>1, Verbs
          <5>3. asked' = <<Move(b, goal.to)>>
            BY <3>2, <5>1
          <5>4. Allowed(store, b, goal.to)' /\ PositionOf(store, b)' = PositionOf(store, b)
            BY <1>3, <1>5, <5>1
          <5>5. \A k \in DOMAIN goal.from : Shown(store, goal.from[k])' <=> Shown(store, goal.from[k])
            BY <1>3, <1>5 DEF Shown
          <5>6. OnePlaced'
            BY <1>5, <3>2, <4>6, <5>1, <5>2, <5>3, <5>4, <5>5 DEF OnePlaced
          <5>7. QED BY <5>2, <5>6
        <4>9. QED BY <4>7, <4>8
      <3>5. QED BY <2>2, <3>3, <3>4
    <2>4. CASE c \notin Moves
      <3>1. phase' = "resting" /\ placed' = placed
        BY <1>3, <1>5, <2>4, Verbs
      <3>2. QED BY <1>3, <1>4, <1>5, <2>2, <3>1, SoloStill DEF Named
    <2>5. QED BY <2>3, <2>4
  <1>8. QED BY <1>1, <1>6, <1>7

LEMMA SoloServe ==
  ASSUME Inv, SoloInv, drags = 0, Serve
  PROVE  InMind' /\ Named' /\ Coloured'
  <1>1. PICK c \in ToSet(asked) : \E b \in c.block :
          IF Allowed(store, b, c.to)
            THEN /\ store' = [store EXCEPT ![PositionOf(store, b)] = Front(@)]
                 /\ publishing' = <<[at |-> c.to, holds |-> Append(store[c.to], b)]>>
                 /\ phase' = "publishing"
            ELSE Refuse
    BY DEF Serve
  <1>2. PICK b \in c.block :
          IF Allowed(store, b, c.to)
            THEN /\ store' = [store EXCEPT ![PositionOf(store, b)] = Front(@)]
                 /\ publishing' = <<[at |-> c.to, holds |-> Append(store[c.to], b)]>>
                 /\ phase' = "publishing"
            ELSE Refuse
    BY <1>1
  <1>3. c \in Moves /\ asked = <<c>> /\ c.to \in Positions /\ b \in Blocks
    BY <1>2, TheOne, Verbs DEF Inv
  <1>4. /\ phase = "serving" /\ UNCHANGED <<jobs, goal, plain, placed>>
        /\ InMind /\ Named /\ Coloured /\ store \in Tables /\ EachOnce(store)
    BY Quiet DEF Serve, told
  <1>5. InMind' /\ Named'
    BY <1>4 DEF InMind, Named
  <1>6. Coloured'
    <2>1. SUFFICES ASSUME plain, goal.what \in Colours, jobs.stacker.alive
                   PROVE  NonePlaced' \/ OnePlaced'
      BY <1>4, Zenon DEF Coloured
    <2>2. NonePlaced \/ OnePlaced
      BY <1>4, <2>1 DEF Coloured
    <2>3. OneShown(store)
      BY <1>4, <2>2 DEF NonePlaced, OnePlaced
    <2> DEFINE p == PositionOf(store, b)
    <2>4. CASE Allowed(store, b, c.to)
      <3>1. p \in Positions /\ p # c.to /\ store[p] # <<>> /\ store[p][Len(store[p])] = b
        <4>1. b \in BlocksOf(store) /\ IsClear(store, b) /\ p # c.to
          BY <2>4 DEF Allowed
        <4>2. p \in Positions /\ \E k \in DOMAIN store[p] : store[p][k] = b
          BY <1>4, <4>1, Found
        <4>3. store[p] # <<>>
          BY <4>2
        <4>4. QED BY <4>1, <4>2, <4>3 DEF IsClear
      <3>2. /\ store' = [store EXCEPT ![p] = Front(@)] /\ phase' = "publishing"
            /\ publishing' = <<[at |-> c.to, holds |-> Append(store[c.to], b)]>>
        BY <1>2, <2>4
      <3>3. publishing'[1].at = c.to /\ publishing'[1].holds = Append(store[c.to], b)
        BY <3>2
      <3> HIDE DEF p
      <3>4. store'[c.to] = store[c.to] /\ store' \in Tables
        <4>1. Front(store[p]) \in Seq(Blocks)
          BY <1>4, <3>1, TopTaken DEF Tables
        <4>2. QED BY <1>3, <1>4, <3>1, <3>2, <4>1 DEF Tables
      <3>5. /\ OneShown(store') /\ \A q \in Positions : Shown(store', q) => Shown(store, q)
            /\ ColourOf[b] = goal.what => ~Shown(store', p)
        BY <1>4, <2>3, <3>1, <3>2, TopGone
      <3>6. CASE NonePlaced
        <4>1. placed = {} /\ ColourOf[b] # goal.what
          BY <1>2, <1>3, <1>4, <3>6 DEF NonePlaced
        <4>2. OneShown([store' EXCEPT ![c.to] = Append(store'[c.to], b)])
          BY <1>3, <3>4, <3>5, <4>1, OtherPut
        <4>3. OneShown(After(store', publishing'[1]))
          BY <3>3, <3>4, <4>2 DEF After
        <4>4. OneShown(store)' /\ OneShown(After(store, publishing[1]))'
          BY <1>4, <3>5, <4>3 DEF OneShown, After
        <4>5. NonePlaced'
          BY <1>4, <3>2, <4>1, <4>4 DEF NonePlaced
        <4>6. QED BY <4>5
      <3>7. CASE OnePlaced
        <4>1. PICK x \in Blocks :
                /\ placed = {x} /\ ColourOf[x] = goal.what /\ asked = <<Move(x, goal.to)>>
                /\ \A k \in DOMAIN goal.from :
                     goal.from[k] # goal.to /\ Shown(store, goal.from[k]) => goal.from[k] = PositionOf(store, x)
          BY <1>4, <3>7 DEF OnePlaced
        <4>2. c = Move(x, goal.to)
          BY <1>3, <4>1
        <4>3. x = b /\ c.to = goal.to
          BY <4>2, Verbs
        <4>4. FromEmptied(store')
          <5>1. \A k \in DOMAIN goal.from : goal.from[k] \in Positions
            BY Quiet, WorkspaceAssumption
          <5>2. QED BY <3>5, <4>1, <4>3, <5>1 DEF FromEmptied, p
        <4>5. FromEmptied(store)'
          BY <1>4, <4>4 DEF FromEmptied, Shown
        <4>6. \E k \in DOMAIN publishing'[1].holds : ColourOf[publishing'[1].holds[k]] = goal.what
          <5> DEFINE s == store[c.to]
          <5>1. s \in Seq(Blocks)
            BY <1>3, <1>4 DEF Tables
          <5> HIDE DEF s
          <5>2. Len(s) + 1 \in DOMAIN Append(s, b) /\ Append(s, b)[Len(s) + 1] = b
            BY <1>3, <5>1
          <5>3. QED BY <3>3, <4>1, <4>3, <5>2 DEF s
        <4>7. OnePlaced'
          BY <1>4, <3>2, <3>3, <4>1, <4>3, <4>5, <4>6 DEF OnePlaced
        <4>8. QED BY <4>7
      <3>8. QED BY <2>2, <3>6, <3>7
    <2>5. CASE ~Allowed(store, b, c.to)
      <3>1. phase' = "resting" /\ UNCHANGED <<store, publishing>>
        BY <1>2, <2>5 DEF Refuse
      <3>2. ~OnePlaced
        BY <1>2, <1>3, <1>4, <2>5, Verbs DEF OnePlaced
      <3>3. NonePlaced'
        BY <1>4, <2>2, <3>1, <3>2 DEF NonePlaced, OneShown
      <3>4. QED BY <3>3
    <2>6. QED BY <2>4, <2>5
  <1>7. QED BY <1>5, <1>6

LEMMA SoloPublish ==
  ASSUME Inv, SoloInv, drags = 0, Publish
  PROVE  InMind' /\ Named' /\ Coloured'
  <1>1. /\ phase = "publishing" /\ phase' = "resting" /\ UNCHANGED <<jobs, goal, plain, placed>>
        /\ store' = After(store, publishing[1])
        /\ InMind /\ Named /\ Coloured /\ store \in Tables /\ goal \in Goals
    BY Quiet DEF Publish, told, After
  <1>2. InMind' /\ Named'
    BY <1>1 DEF InMind, Named
  <1>3. SUFFICES ASSUME plain, goal.what \in Colours, jobs.stacker.alive
                 PROVE  NonePlaced' \/ OnePlaced'
    BY <1>1, <1>2, Zenon DEF Coloured
  <1>4. NonePlaced \/ OnePlaced
    BY <1>1, <1>3 DEF Coloured
  <1>5. CASE NonePlaced
    <2>1. OneShown(store')
      BY <1>1, <1>5 DEF NonePlaced
    <2>2. OneShown(store)'
      BY <1>1, <2>1 DEF OneShown
    <2>3. NonePlaced'
      BY <1>1, <1>5, <2>2 DEF NonePlaced
    <2>4. QED BY <2>3
  <1>6. CASE OnePlaced
    <2>1. PICK x \in Blocks :
            /\ placed = {x} /\ ColourOf[x] = goal.what
            /\ FromEmptied(store) /\ publishing[1].at = goal.to
            /\ \E k \in DOMAIN publishing[1].holds : ColourOf[publishing[1].holds[k]] = goal.what
      BY <1>1, <1>6 DEF OnePlaced
    <2>2. goal.to \in Positions
      BY <1>1, Looks
    <2>3. store'[goal.to] = publishing[1].holds /\ \A q : q # goal.to => store'[q] = store[q]
      BY <1>1, <2>1, <2>2 DEF After, Tables
    <2>4. Shown(store, goal.to)'
      BY <1>1, <2>1, <2>3 DEF Shown
    <2>5. FromEmptied(store)'
      BY <1>1, <2>1, <2>3 DEF FromEmptied, Shown
    <2>6. OnePlaced'
      BY <1>1, <2>1, <2>4, <2>5 DEF OnePlaced
    <2>7. QED BY <2>6
  <1>7. QED BY <1>4, <1>5, <1>6

\* With the hands away, the only thing a hand can do is begin.
LEMMA NoHand ==
  ASSUME Inv, SoloInv, drags' = 0, [Next]_vars
  PROVE  drags = 0 /\ ((\E g \in Goals : Say(g)) \/ Step \/ UNCHANGED vars)
  <1>1. drags \in Nat
    BY WorkspaceAssumption DEF Inv, Shape, TypeOK
  <1>2. ASSUME NEW h \in Hands, Reach(h) PROVE FALSE
    BY <1>1, <1>2 DEF Reach
  <1>3. ASSUME NEW h \in Hands, NEW b \in Names, NEW to \in Positions, Type(h, b, to) PROVE FALSE
    BY <1>1, <1>3 DEF Type
  <1>4. drags = 0
    BY <1>2, <1>3 DEF Next, Say, Reaching, PutBack, Drop, Disturb, LookAt, FindNothing, DeliverSource,
         DeliverDestination, Leave, Step, BeginStep, DrainOne, DrainDone, OtherTick, Command, Compose, Quit, Issue,
         Serve, Publish, people, vars
  <1>5. ASSUME NEW h \in Hands, Reaching(h) PROVE FALSE
    <2>1. hand[h] = Away
      BY <1>4, Quiet DEF Alone
    <2>2. hand[h].at = "away"
      BY <2>1 DEF Away
    <2>3. QED BY <1>5, <2>2 DEF Reaching, PutBack, Drop, LookAt, FindNothing, SeenWhole, DeliverSource, DeliverDestination, Leave
  <1>6. QED BY <1>2, <1>3, <1>4, <1>5 DEF Next

LEMMA SoloNext == ASSUME Inv, SoloInv, [Next]_vars PROVE SoloInv'
  <1>1. SUFFICES ASSUME drags' = 0 PROVE (Alone /\ InMind /\ Named /\ Coloured)'
    BY DEF SoloInv
  <1>2. drags = 0 /\ ((\E g \in Goals : Say(g)) \/ Step \/ UNCHANGED vars)
    BY <1>1, NoHand
  <1>3. /\ Alone /\ InMind /\ Named /\ Coloured /\ store \in Tables /\ goal \in Goals
        /\ phase # "publishing" => EachOnce(store)
        /\ \A h \in Hands : ~Acting(h)
    BY <1>2, Quiet
  <1>4. CASE \E g \in Goals : Say(g)
    <2>1. PICK g \in Goals : Say(g)
      BY <1>4
    <2>2. /\ goal' = g /\ plain' = OneOfAColour(store) /\ placed' = {} /\ phase = "draining"
          /\ UNCHANGED <<store, inbound, hand, raced, phase>>
          /\ jobs' = [jobs EXCEPT !.stacker = Fresh(TRUE)]
      BY <2>1 DEF Say, kernel
    <2>3. jobs'.stacker.doing = None /\ None \notin Moves
      BY <2>2, Verbs DEF Inv, Shape, TypeOK, Fresh
    <2>4. Alone'
      BY <1>3, <2>2 DEF Alone
    <2>5. InMind'
      BY <2>3 DEF InMind
    <2>6. Named'
      BY <2>2 DEF Named
    <2>7. plain' => OneShown(store)'
      <3>1. plain' => OneOfAColour(store)
        BY <2>2, Zenon
      <3>2. UNCHANGED store
        BY <2>2
      <3>3. OneOfAColour(store) => OneShown(store)'
        BY <3>2 DEF OneOfAColour, OneShown
      <3>4. QED BY <3>1, <3>3, Zenon
    <2>8. Coloured'
      BY <2>2, <2>7 DEF Coloured, NonePlaced
    <2>9. QED BY <2>4, <2>5, <2>6, <2>8
  <1>5. CASE UNCHANGED vars
    <2>1. UNCHANGED <<store, inbound, phase, asked, publishing, jobs, goal, plain, placed, hand, raced>>
      BY <1>5 DEF vars, kernel, people, told
    <2>2. Alone' /\ InMind' /\ Named'
      BY <1>3, <2>1 DEF Alone, InMind, Named
    <2>3. NonePlaced => NonePlaced'
      BY <2>1 DEF NonePlaced, OneShown, After
    <2>4. OnePlaced => OnePlaced'
      <3>1. \A x \in Blocks : Allowed(store, x, goal.to)' <=> Allowed(store, x, goal.to)
        BY <2>1
      <3>2. \A x \in Blocks : PositionOf(store, x)' = PositionOf(store, x)
        BY <2>1
      <3>3. QED BY <2>1, <3>1, <3>2 DEF OnePlaced, OneShown, Shown, FromEmptied
    <2>5. Coloured'
      BY <1>3, <2>1, <2>3, <2>4 DEF Coloured
    <2>6. QED BY <2>2, <2>5
  <1>6. CASE Step
    <2>1. ~DrainOne
      BY <1>3 DEF Alone, DrainOne
    <2>2. UNCHANGED <<hand, inbound>>
      BY <1>6, <2>1 DEF Step, BeginStep, DrainDone, OtherTick, Command, Compose, Quit, Issue, Serve, Publish, people
    <2>3. ~raced'
      <3>1. ~raced
        BY <1>3 DEF Alone
      <3>2. CASE BeginStep
        BY <1>3, <3>1, <3>2, Zenon DEF BeginStep
      <3>3. CASE ~BeginStep
        BY <1>6, <2>1, <3>1, <3>3, Zenon DEF Step, DrainDone, OtherTick, Command, Compose, Quit, Issue, Serve, Publish, people
      <3>4. QED BY <3>2, <3>3
    <2>4. Alone'
      BY <1>3, <2>2, <2>3 DEF Alone
    <2>5. CASE BeginStep \/ DrainDone \/ OtherTick
      <3>1. /\ UNCHANGED <<store, jobs, goal, plain, placed>>
            /\ phase \notin {"serving", "publishing"} /\ phase' \notin {"serving", "publishing"}
        BY <2>5 DEF BeginStep, DrainDone, OtherTick, told
      <3>2. Coloured'
        BY <1>3, <3>1, SoloStill
      <3>3. InMind' /\ Named'
        BY <1>3, <3>1 DEF InMind, Named
      <3>4. QED BY <2>4, <3>2, <3>3
    <2>6. QED BY <1>2, <1>6, <2>1, <2>4, <2>5, SoloCompose, SoloIssue, SoloServe, SoloPublish DEF Step, Command
  <1>7. QED BY <1>2, <1>4, <1>5, <1>6

LEMMA SoloInit == Init => SoloInv
  <1>1. SUFFICES ASSUME Init PROVE Alone /\ InMind /\ Named /\ Coloured
    BY DEF SoloInv
  <1>2. (\A h \in Hands : hand[h] = Away) /\ ~raced /\ inbound = <<>> /\ ~plain /\ placed = {}
    BY <1>1 DEF Init
  <1>3. ~jobs.stacker.alive
    BY <1>1 DEF Init, Fresh
  <1>4. QED BY <1>2, <1>3 DEF Alone, InMind, Named, Coloured

\* With no hand in the run, a stacker told of a colour no stack shows twice puts at most one
\* block on its destination, and one told of a block puts no other there, on any table and
\* for any sentence.  (planner.py, _target and _command; jobs.py, the stacker)
THEOREM OneIsMeant == Spec => []OneBlockIsMeant
  <1>1. Inv /\ SoloInv => OneBlockIsMeant
    <2>1. SUFFICES ASSUME Inv, SoloInv, drags = 0
                   PROVE  /\ plain => Cardinality(placed) <= 1
                          /\ goal.what \in Blocks => placed \subseteq {goal.what}
      BY DEF OneBlockIsMeant
    <2>2. Named /\ Coloured /\ goal.what \in Blocks \cup Colours
      BY <2>1, Quiet, WorkspaceAssumption
    <2>3. goal.what \in Blocks => placed = {} \/ placed = {goal.what}
      BY <2>2 DEF Named
    <2>4. plain => placed = {} \/ \E x \in Blocks : placed = {x}
      BY <2>2, <2>3 DEF Coloured
    <2>5. Cardinality({}) = 0 /\ \A x : Cardinality({x}) = 1
      BY FS_EmptySet, FS_Singleton
    <2>6. plain => Cardinality(placed) <= 1
      BY <2>4, <2>5
    <2>7. QED BY <2>2, <2>6 DEF Named
  <1>2. Init => Inv /\ SoloInv
    BY InvInit, SoloInit
  <1>3. Inv /\ SoloInv /\ [Next]_vars => (Inv /\ SoloInv)'
    BY InvNext, SoloNext
  <1>4. QED BY <1>1, <1>2, <1>3, PTL DEF Spec

\* What a stacker has to say once nothing is left to move: the block is there.
LEMMA SaidWhenThere ==
  ASSUME store \in Tables, EachOnce(store), goal \in Goals, N >= 3, Speak \in NextCommands(store, goal),
         Wanted \cap BlocksOf(store) # {}
  PROVE  Wanted \cap ToSet(store[goal.to]) # {}
  <1>1. goal.to \in Positions /\ goal.what \in Blocks \cup Colours
    BY Looks, WorkspaceAssumption
  <1>2. goal.what \in BlocksOf(store) <=> goal.what \in Blocks
    BY Places DEF EachOnce
  <1>3. \A b \in Target(store, goal) : b \in BlocksOf(store) /\ b \in Wanted
    <2>1. CASE goal.what \in Blocks
      BY <1>2, <2>1, Meant DEF Wanted
    <2>2. CASE goal.what \notin Blocks
      <3>1. goal.what \in Colours
        BY <1>1, <2>2
      <3>2. TAKE b \in Target(store, goal)
      <3>3. b \in BlocksOf(store) /\ b \in Resolve(store, goal.what, PositionOf(store, b)) /\ PositionOf(store, b) \in Positions
        BY <3>1, Pursued
      <3>4. ColourOf[b] = goal.what /\ b \in Blocks
        BY <3>3, Resolved, Places
      <3>5. QED BY <2>2, <3>3, <3>4 DEF Wanted
    <2>3. QED BY <2>1, <2>2
  <1>4. Target(store, goal) # {}
    <2>1. PICK b \in Wanted : b \in BlocksOf(store)
      OBVIOUS
    <2>2. CASE goal.what \in Blocks
      BY <1>2, <2>2, Meant
    <2>3. CASE goal.what \notin Blocks
      <3>1. goal.what \in Colours /\ ColourOf[b] = goal.what
        BY <1>1, <2>1, <2>3 DEF Wanted
      <3>2. PICK p \in Positions : \E k \in DOMAIN store[p] : store[p][k] = b
        BY <2>1, Places
      <3>3. Resolve(store, goal.what, p) # {}
        BY <3>1, <3>2, Resolved
      <3>4. \E k \in DOMAIN Looked(goal) : Looked(goal)[k] = p
        <4> DEFINE m == Len(goal.from)
        <4>1. m \in 0 .. 1 /\ DOMAIN Looked(goal) = 1 .. m + 1 + N /\ Looked(goal)[m + 1 + p] = p
          BY <3>2, Looks
        <4>2. N \in Nat /\ p \in 1 .. N
          BY <3>2, Places
        <4> HIDE DEF m
        <4>3. m + 1 + p \in 1 .. m + 1 + N
          BY <4>1, <4>2
        <4>4. QED BY <4>1, <4>3
      <3>5. FirstOf(store, goal.what, Looked(goal)) # {}
        BY <3>3, <3>4, FirstFound, Looks
      <3>6. QED BY <3>1, <3>5, SaidColour
    <2>4. QED BY <2>2, <2>3
  <1>5. PICK b \in Target(store, goal) : CommandFor(store, b, PositionOf(store, b), goal.to) = Speak
    BY <1>4 DEF NextCommands
  <1>6. b \in BlocksOf(store) /\ b \in Wanted
    BY <1>3
  <1>7. PositionOf(store, b) = goal.to
    <2> DEFINE from == PositionOf(store, b)
    <2>1. \A x, q : Move(x, q) # Speak
      BY Verbs
    <2>2. N \in Nat
      BY WorkspaceAssumption
    <2> HIDE DEF from
    <2>3. from # goal.to /\ Above(store, b) = {} => CommandFor(store, b, from, goal.to) # Speak
      BY <1>1, <1>6, <2>1, Commanded DEF from
    <2>4. from # goal.to /\ Above(store, b) # {} => CommandFor(store, b, from, goal.to) # Speak
      BY <1>1, <1>6, <2>1, <2>2, Commanded DEF from
    <2>5. QED BY <1>5, <2>3, <2>4 DEF from
  <1>8. b \in ToSet(store[goal.to])
    <2>1. \E k \in DOMAIN store[goal.to] : store[goal.to][k] = b
      BY <1>6, <1>7, Found
    <2>2. QED BY <2>1 DEF ToSet
  <1>9. QED BY <1>6, <1>8

\* On a table of three positions or more, with nobody reaching in, a stacker that exits has done
\* what it was told.  On two there is nowhere to put what is in the way, and the planner says so.
\* (planner.py, next_command; jobs.py, the stacker)
THEOREM ExitedWhenDone == ASSUME N >= 3 PROVE Spec => ExitMeansDone
  <1> DEFINE Kept ==
        jobs.stacker.alive /\ ~jobs'.stacker.alive /\ drags = 0
          /\ Wanted \cap BlocksOf(store) # {} => Wanted \cap ToSet(store[goal.to]) # {}
  <1>1. ASSUME Inv, SoloInv, Next PROVE Kept
    <2>1. SUFFICES ASSUME jobs.stacker.alive, ~jobs'.stacker.alive, drags = 0, Wanted \cap BlocksOf(store) # {}
                   PROVE  Wanted \cap ToSet(store[goal.to]) # {}
      OBVIOUS
    <2>2. jobs \in [{"stacker", "tidy"} -> [alive : BOOLEAN, doing : Commands,
                                           last : {"move", "speak", "exit", "none"}]]
      BY <1>1 DEF Inv, Shape, TypeOK
    <2>3. Quit("stacker")
      <3>1. ASSUME NEW j \in Running, Compose(j) \/ Issue(j) PROVE FALSE
        BY <2>1, <2>2, <3>1 DEF Compose, Issue, Running
      <3>2. ASSUME NEW j \in Running, Quit(j) PROVE j = "stacker"
        BY <2>1 DEF Running
      <3>3. UNCHANGED jobs \/ Command
        BY <1>1, <2>1 DEF Next, Say, Reach, Type, Reaching, PutBack, Drop, Disturb, LookAt, FindNothing, DeliverSource,
             DeliverDestination, Leave, Step, BeginStep, DrainOne, DrainDone, OtherTick, Serve, Publish
      <3>4. QED BY <2>1, <3>1, <3>2, <3>3 DEF Command
    <2>4. Exit \in Composed("stacker") /\ phase = "ticking"
      BY <2>3 DEF Quit
    <2>5. store \in Tables /\ EachOnce(store) /\ goal \in Goals
      BY <1>1, <2>1, <2>4, Quiet
    <2>6. PICK c \in NextCommands(store, goal) : Exit = StopAfterSaying(c, jobs["stacker"].last)
      BY <2>4 DEF Composed
    <2>7. c = Speak
      <3>1. c \in Moves \cup {Speak}
        BY <2>5, Planned
      <3>2. c # Speak => c.verb = "move"
        BY <3>1, Verbs
      <3>3. QED BY <2>6, <3>2, Verbs DEF StopAfterSaying
    <2>8. QED BY <2>1, <2>5, <2>6, <2>7, SaidWhenThere
  <1>2. ASSUME Inv, SoloInv, [Next]_vars PROVE [Kept]_vars
    BY <1>1, <1>2
  <1>3. Init => Inv /\ SoloInv
    BY InvInit, SoloInit
  <1>4. Inv /\ SoloInv /\ [Next]_vars => (Inv /\ SoloInv)'
    BY InvNext, SoloNext
  <1>5. QED BY <1>2, <1>3, <1>4, PTL DEF Spec, ExitMeansDone

\* Types, for every value of the constants.
THEOREM WorkspaceTypes == Spec => []TypeOK
  <1>1. Inv => TypeOK
    BY DEF Inv, Shape
  <1>2. QED BY <1>1, InvInit, InvNext, PTL DEF Spec

\* The hold is some hand's that is part way through a drag: with every hand away, nothing
\* is held.  (session.py, Session.hold and release)
THEOREM TheHoldIsSomebodys == Spec => []NotHeldByNobody
  <1> DEFINE Somebody == held => \E h \in Hands : hand[h].drag
  <1>1. Init => Somebody
    BY DEF Init
  <1>2. ASSUME Inv, Somebody, [Next]_vars PROVE Somebody'
    <2>1. hand \in [Hands -> HandRecords]
      BY <1>2 DEF Inv, Shape, TypeOK, HandRecords
    <2>2. ASSUME NEW h \in Hands, Reach(h) PROVE Somebody'
      BY <2>1, <2>2 DEF Reach, HandRecords
    <2>3. ASSUME NEW h \in Hands, PutBack(h) \/ Leave(h) PROVE Somebody'
      <3>1. hand' = [hand EXCEPT ![h] = Away] /\ (held' => held /\ ~hand[h].drag)
        BY <2>1, <2>3, Zenon DEF PutBack, Leave
      <3>2. QED BY <1>2, <2>1, <3>1
    <2>4. ASSUME NEW h \in Hands, NEW b \in Names, NEW to \in Positions, Drop(h, b, to) \/ Type(h, b, to)
          PROVE  Somebody'
      <3>1. hand'[h].drag \/ hand[h] = Away
        BY <2>1, <2>4 DEF Drop, Type, Disturb
      <3>2. UNCHANGED held /\ \A k \in Hands \ {h} : hand'[k] = hand[k]
        BY <2>1, <2>4 DEF Drop, Type, Disturb
      <3>3. ~Away.drag
        BY DEF Away
      <3>4. QED BY <1>2, <3>1, <3>2, <3>3
    <2>5. ASSUME NEW h \in Hands, LookAt(h) \/ FindNothing(h) \/ DeliverSource(h) \/ DeliverDestination(h)
          PROVE  Somebody'
      <3>1. UNCHANGED held /\ \A k \in Hands : hand'[k].drag = hand[k].drag
        <4>1. CASE LookAt(h)
          <5>1. PICK v : hand' = [hand EXCEPT ![h].view = v]
            BY <4>1 DEF LookAt
          <5>2. QED BY <2>1, <4>1, <5>1 DEF LookAt, HandRecords
        <4>2. CASE FindNothing(h) \/ DeliverSource(h) \/ DeliverDestination(h)
          <5>1. PICK a : hand' = [hand EXCEPT ![h].at = a]
            BY <4>2 DEF FindNothing, DeliverSource, DeliverDestination, Finish
          <5>2. UNCHANGED held
            BY <4>2 DEF FindNothing, DeliverSource, DeliverDestination
          <5>3. QED BY <2>1, <5>1, <5>2 DEF HandRecords
        <4>3. QED BY <2>5, <4>1, <4>2
      <3>2. QED BY <1>2, <3>1
    <2>6. ASSUME UNCHANGED <<hand, held>> PROVE Somebody'
      BY <1>2, <2>6
    <2>7. UNCHANGED <<hand, held>> \/ \E h \in Hands : \/ Reach(h) \/ Reaching(h)
                                                      \/ \E b \in Names, to \in Positions : Type(h, b, to)
      BY <1>2 DEF Next, Say, Step, BeginStep, DrainOne, DrainDone, OtherTick, Command, Compose, Quit, Issue,
           Serve, Publish, people, vars
    <2>8. QED BY <2>2, <2>3, <2>4, <2>5, <2>6, <2>7 DEF Reaching
  <1>3. Somebody => NotHeldByNobody
    BY DEF NotHeldByNobody
  <1>4. QED BY <1>1, <1>2, <1>3, InvInit, InvNext, PTL DEF Spec
=============================================================================
