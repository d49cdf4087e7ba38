------------------------- MODULE AccessUnits_proofs -------------------------
(***************************************************************************)
(* Theorems about AccessUnits, for every layout, any number of frames and  *)
(* every way to cut the stream into reads, and their proofs.  The first    *)
(* part is about split_access_units alone, for any buffer: its loop cuts   *)
(* at every delimiter.  The second is about the stream an encoder writes   *)
(* and the part of it that the reader thread holds.                        *)
(***************************************************************************)
EXTENDS AccessUnits, WellFoundedInduction, SequenceTheorems, TLAPS

USE UnitsAssumption DEF UnitsAssumption

----------------------------------------------------------------------------
(* The natural numbers.  InductionOn is induction over a set instead of a  *)
(* predicate.                                                              *)

LEMMA NatOrder == \A m, n \in Nat : <<m, n>> \in OpToRel(<, Nat) <=> m < n
  BY Zenon DEF OpToRel

LEMMA LeastOf ==
  ASSUME NEW S \in SUBSET Nat, S # {}
  PROVE  \E n \in S : \A m \in S : n <= m
<1>1. \E n \in S : \A m \in S : ~ (<<m, n>> \in OpToRel(<, Nat))
  BY NatLessThanWellFounded, WFMin, Zenon
<1>2. PICK n \in S : \A m \in S : ~ (<<m, n>> \in OpToRel(<, Nat))
  BY <1>1, Zenon
<1>3. \A m \in S : ~ (m < n)
  BY <1>2, NatOrder, Zenon
<1> QED
  BY <1>3

LEMMA InductionOn ==
  ASSUME NEW S \in SUBSET Nat, 0 \in S, \A n \in Nat : n \in S => n + 1 \in S
  PROVE  S = Nat
<1> SUFFICES ASSUME Nat \ S # {} PROVE FALSE
  OBVIOUS
<1>1. PICK n \in Nat \ S : \A m \in Nat \ S : n <= m
  <2>1. Nat \ S \in SUBSET Nat
    OBVIOUS
  <2> QED
    BY <2>1, LeastOf
<1>2. n - 1 \in S
  BY <1>1
<1> QED
  BY <1>1, <1>2

----------------------------------------------------------------------------
(* split_access_units, for any buffer b.                                   *)

LEMMA FindIs ==
  ASSUME NEW b \in Seq(Symbols), NEW from \in Nat, NEW i \in Delimiters(b, from),
         \A j \in Delimiters(b, from) : i <= j
  PROVE  Find(b, from) = i
<1> DEFINE at == Delimiters(b, from)
<1>1. at \subseteq Nat /\ at # {}
  <2>1. at \subseteq from .. Len(b) - 1 /\ at # {}
    BY DEF Delimiters
  <2>2. from .. Len(b) - 1 \subseteq Nat
    OBVIOUS
  <2> QED
    BY <2>1, <2>2
<1> HIDE DEF at
<1>2. \A n \in at : (\A j \in at : n <= j) => n = i
  BY <1>1 DEF at
<1>3. (CHOOSE n \in at : \A j \in at : n <= j) = i
  BY <1>2 DEF at
<1> QED
  BY <1>1, <1>3 DEF Find, at

LEMMA FindNone ==
  ASSUME NEW b, NEW from, Delimiters(b, from) = {}
  PROVE  Find(b, from) = 0
  BY DEF Find

\* The state of the loop before its first turn.
FirstCut(b) ==
    [units |-> <<>>, start |-> Find(b, 1), prefix |-> SubSeq(b, 1, Find(b, 1) - 1)]

\* Its state after n turns is what one more turn makes of it after n - 1.
LEMMA CutsAre ==
  ASSUME NEW b \in Seq(Symbols)
  PROVE  /\ Cuts(b)[0] = FirstCut(b)
         /\ \A n \in 1 .. Len(b) : Cuts(b)[n] = Turn(b, Cuts(b)[n - 1])
<1> DEFINE First == FirstCut(b)
           Follows(r, k) == r = [n \in 0 .. k |-> IF n = 0 THEN First ELSE Turn(b, r[n - 1])]
           S == { k \in Nat : \E r : Follows(r, k) }
<1> HIDE DEF First
<1>1. 0 \in S
  <2> DEFINE r == [n \in 0 .. 0 |-> First]
  <2>1. r = [n \in 0 .. 0 |-> IF n = 0 THEN First ELSE Turn(b, r[n - 1])]
    OBVIOUS
  <2> HIDE DEF r
  <2>2. \E q : Follows(q, 0)
    BY <2>1
  <2> QED
    BY <2>2
<1>2. ASSUME NEW k \in Nat, k \in S PROVE k + 1 \in S
  <2> PICK r : Follows(r, k)
    BY <1>2
  <2> DEFINE q == [n \in 0 .. k + 1 |-> IF n = k + 1 THEN Turn(b, r[k]) ELSE r[n]]
  <2>1. /\ \A n \in 0 .. k : q[n] = r[n]
        /\ q[k + 1] = Turn(b, r[k])
        /\ q = [n \in 0 .. k + 1 |-> q[n]]
    OBVIOUS
  <2> HIDE DEF q
  <2>2. \A n \in 0 .. k : r[n] = IF n = 0 THEN First ELSE Turn(b, r[n - 1])
    OBVIOUS
  <2> HIDE DEF Follows
  <2>3. ASSUME NEW n \in 0 .. k + 1
        PROVE  q[n] = IF n = 0 THEN First ELSE Turn(b, q[n - 1])
    <3>1. CASE n = 0
      <4>1. 0 \in 0 .. k
        OBVIOUS
      <4>2. q[0] = r[0] /\ r[0] = First
        BY <4>1, <2>1, <2>2
      <4> QED
        BY <3>1, <4>2
    <3>2. CASE n \in 1 .. k
      <4>1. n \in 0 .. k /\ n - 1 \in 0 .. k /\ n # 0
        BY <3>2
      <4>2. q[n] = r[n] /\ q[n - 1] = r[n - 1]
        BY <4>1, <2>1
      <4> QED
        BY <4>1, <4>2, <2>2
    <3>3. CASE n = k + 1
      <4>1. n # 0 /\ n - 1 = k /\ k \in 0 .. k
        BY <3>3
      <4> QED
        BY <3>3, <4>1, <2>1
    <3> QED
      BY <3>1, <3>2, <3>3
  <2>4. q = [n \in 0 .. k + 1 |-> IF n = 0 THEN First ELSE Turn(b, q[n - 1])]
    BY <2>1, <2>3
  <2>5. \E f : Follows(f, k + 1)
    BY <2>4 DEF Follows
  <2> QED
    BY <2>5
<1>3. S \in SUBSET Nat
  OBVIOUS
<1> HIDE DEF S
<1>4. Len(b) \in S
  BY <1>1, <1>2, <1>3, InductionOn
<1>5. PICK r : Follows(r, Len(b))
  BY <1>4 DEF S
<1>6. Follows(Cuts(b), Len(b))
  BY <1>5, Zenon DEF Cuts, First, FirstCut
<1> HIDE DEF Cuts
<1> QED
  BY <1>6 DEF First

\* at[1], ..., at[m] are where b has a delimiter, from the first to the last.
DelimitersOf(b, m, at) ==
    /\ m \in Nat /\ at \in [1 .. m -> 1 .. Len(b) - 1]
    /\ \A j, k \in 1 .. m : j < k => at[j] + Len(AUD) <= at[k]
    /\ Delimiters(b, 1) = { at[k] : k \in 1 .. m }

\* What goes from the k-th delimiter up to the next one, as a unit.
UnitOf(b, at, k) ==
    Reattach(IF k = 1 THEN SubSeq(b, 1, at[1] - 1) ELSE <<>>, Unit(b, at[k], at[k + 1]))

\* Every delimiter is two symbols, so that b is long enough for m of them.
LEMMA RoomForAll ==
  ASSUME NEW b \in Seq(Symbols), NEW m \in Nat, NEW at, DelimitersOf(b, m, at), m > 0
  PROVE  m < Len(b)
<1> DEFINE S == { n \in Nat : n + 1 \in 1 .. m => at[n + 1] >= n + 1 }
<1>1. at \in [1 .. m -> 1 .. Len(b) - 1] /\ Len(b) \in Nat
  BY DEF DelimitersOf
<1>2. 0 \in S
  BY <1>1
<1>3. ASSUME NEW n \in Nat, n \in S PROVE n + 1 \in S
  <2> SUFFICES ASSUME n + 2 \in 1 .. m PROVE at[n + 2] >= n + 2
    OBVIOUS
  <2>1. at[n + 1] >= n + 1 /\ n + 1 \in 1 .. m /\ n + 1 < n + 2
    BY <1>3
  <2>2. at[n + 1] + 2 <= at[n + 2]
    BY <2>1 DEF DelimitersOf, AUD
  <2>3. at[n + 1] \in Int /\ at[n + 2] \in Int
    BY <1>1, <2>1
  <2> QED
    BY <2>1, <2>2, <2>3
<1>4. S = Nat
  <2>1. S \in SUBSET Nat
    OBVIOUS
  <2> HIDE DEF S
  <2> QED
    BY <1>2, <1>3, <2>1, InductionOn
<1>5. m - 1 \in Nat /\ (m - 1) + 1 = m /\ m \in 1 .. m
  OBVIOUS
<1>6. at[m] >= m
  BY <1>4, <1>5
<1>7. at[m] \in 1 .. Len(b) - 1
  BY <1>1, <1>5
<1> QED
  BY <1>1, <1>6, <1>7

\* From where the k-th delimiter ends the next one to be found is the k+1-st.
LEMMA FindNext ==
  ASSUME NEW b \in Seq(Symbols), NEW m \in Nat, NEW at, DelimitersOf(b, m, at), NEW k \in 1 .. m
  PROVE  /\ Find(b, 1) = at[1]
         /\ Find(b, at[k] + Len(AUD)) = IF k = m THEN 0 ELSE at[k + 1]
<1>1. /\ at \in [1 .. m -> 1 .. Len(b) - 1] /\ Len(b) \in Nat /\ k \in Nat
      /\ \A i, j \in 1 .. m : i < j => at[i] + 2 <= at[j]
      /\ \A i : i \in Delimiters(b, 1) <=> \E j \in 1 .. m : i = at[j]
  BY DEF DelimitersOf, AUD
<1>2. \A j \in 1 .. m : at[j] \in 1 .. Len(b) - 1 /\ at[j] \in Nat /\ at[j] >= 1
  BY <1>1
<1>3. Find(b, 1) = at[1]
  <2>1. 1 \in 1 .. m /\ at[1] \in Delimiters(b, 1)
    BY <1>1
  <2>2. \A j \in 1 .. m : j = 1 \/ 1 < j
    OBVIOUS
  <2>3. \A j \in 1 .. m : at[1] <= at[j]
    BY <1>1, <1>2, <2>1, <2>2
  <2>4. \A j \in Delimiters(b, 1) : at[1] <= j
    BY <1>1, <2>3
  <2> QED
    BY <2>1, <2>4, FindIs
<1> DEFINE from == at[k] + Len(AUD)
<1>4. from = at[k] + 2 /\ from \in Nat /\ from >= 1
  BY <1>2 DEF AUD
<1>5. \A i : i \in Delimiters(b, from) <=> i \in Delimiters(b, 1) /\ i >= from
  <2>1. \A i : i \in from .. Len(b) - 1 <=> i \in 1 .. Len(b) - 1 /\ i >= from
    BY <1>1, <1>4
  <2> HIDE DEF from
  <2> QED
    BY <2>1 DEF Delimiters
<1> HIDE DEF from
<1>6. \A j \in 1 .. m : at[j] >= from <=> j > k
  <2> TAKE j \in 1 .. m
  <2>1. j < k \/ j = k \/ j > k
    BY <1>1
  <2>2. j < k => at[j] + 2 <= at[k]
    BY <1>1
  <2>3. j > k => at[k] + 2 <= at[j]
    BY <1>1
  <2>4. at[j] \in Nat /\ at[k] \in Nat
    BY <1>2
  <2> QED
    BY <1>1, <1>4, <2>1, <2>2, <2>3, <2>4
<1>7. CASE k = m
  <2>1. \A j \in 1 .. m : ~ (at[j] >= from)
    BY <1>1, <1>6, <1>7
  <2>2. Delimiters(b, from) = {}
    BY <1>1, <1>5, <2>1
  <2> QED
    BY <1>3, <1>7, <2>2, FindNone DEF from
<1>8. CASE k # m
  <2>1. k + 1 \in 1 .. m /\ k + 1 > k
    BY <1>1, <1>8
  <2>2. at[k + 1] \in Delimiters(b, from)
    BY <1>1, <1>5, <1>6, <2>1
  <2>3. \A j \in 1 .. m : j > k => at[k + 1] <= at[j]
    <3> TAKE j \in 1 .. m
    <3>1. j > k => j = k + 1 \/ k + 1 < j
      BY <1>1
    <3>2. k + 1 < j => at[k + 1] + 2 <= at[j]
      BY <1>1, <2>1
    <3> QED
      BY <1>2, <2>1, <3>1, <3>2
  <2>4. \A j \in Delimiters(b, from) : at[k + 1] <= j
    BY <1>1, <1>5, <1>6, <2>3
  <2> QED
    BY <1>3, <1>4, <1>8, <2>2, <2>4, FindIs DEF from
<1> QED
  BY <1>7, <1>8

\* split_access_units cuts at every delimiter: it returns what lies between
\* them, the first time with what precedes them all behind the delimiter, and
\* keeps what goes from the last one on.
THEOREM SplitIsSound ==
  ASSUME NEW b \in Seq(Symbols), NEW m \in Nat, NEW at, DelimitersOf(b, m, at)
  PROVE  Split(b) = IF m = 0 THEN [units |-> <<>>, rest |-> b]
                    ELSE [units |-> [k \in 1 .. m - 1 |-> UnitOf(b, at, k)],
                          rest  |-> SubSeq(b, at[m], Len(b))]
<1>1. CASE m = 0
  <2>1. Delimiters(b, 1) = {}
    BY <1>1 DEF DelimitersOf
  <2> QED
    BY <1>1, <2>1, FindNone DEF Split
<1>2. CASE m # 0
  <2> DEFINE pre == SubSeq(b, 1, at[1] - 1)
             Cut(n) == [units  |-> [k \in 1 .. n |-> UnitOf(b, at, k)],
                        start  |-> at[n + 1],
                        prefix |-> IF n = 0 THEN pre ELSE <<>>]
             S == { n \in Nat : n <= Len(b) =>
                                   Cuts(b)[n] = IF n < m THEN Cut(n) ELSE Cut(m - 1) }
  <2>1. m < Len(b) /\ Len(b) \in Nat /\ m - 1 \in Nat
    BY <1>2, RoomForAll
  <2>2. Find(b, 1) = at[1] /\ at[1] \in Nat /\ at[1] # 0
    <3>1. 1 \in 1 .. m
      BY <1>2
    <3>2. at[1] \in 1 .. Len(b) - 1
      BY <3>1 DEF DelimitersOf
    <3> QED
      BY <2>1, <3>1, <3>2, FindNext
  <2>3. 0 \in S
    <3>1. [k \in 1 .. 0 |-> UnitOf(b, at, k)] = <<>>
      OBVIOUS
    <3>2. Cuts(b)[0] = [units |-> <<>>, start |-> at[1], prefix |-> pre]
      BY <2>2, CutsAre DEF FirstCut
    <3>3. 0 < m /\ 0 + 1 = 1
      BY <1>2
    <3> QED
      BY <3>1, <3>2, <3>3
  <2>4. ASSUME NEW n \in Nat, n \in S PROVE n + 1 \in S
    <3> SUFFICES ASSUME n + 1 <= Len(b)
                 PROVE  Cuts(b)[n + 1] = IF n + 1 < m THEN Cut(n + 1) ELSE Cut(m - 1)
      OBVIOUS
    <3>1. Cuts(b)[n + 1] = Turn(b, Cuts(b)[n])
      <4>1. n + 1 \in 1 .. Len(b) /\ (n + 1) - 1 = n
        BY <2>1
      <4> QED
        BY <4>1, CutsAre
    <3>2. Cuts(b)[n] = IF n < m THEN Cut(n) ELSE Cut(m - 1)
      BY <2>1, <2>4
    <3>3. CASE n + 1 < m
      <4>1. n + 1 \in 1 .. m /\ n + 1 # m /\ (n + 1) + 1 = n + 2 /\ n < m
        BY <3>3
      <4>2. Find(b, at[n + 1] + Len(AUD)) = at[n + 2]
        BY <4>1, FindNext
      <4>3. at[n + 2] # 0
        BY <2>1, <3>3 DEF DelimitersOf
      <4>4. Reattach(Cut(n).prefix, Unit(b, Cut(n).start, at[n + 2])) = UnitOf(b, at, n + 1)
        <5>1. Cut(n).start = at[n + 1]
          OBVIOUS
        <5>2. Cut(n).prefix = IF n + 1 = 1 THEN pre ELSE <<>>
          OBVIOUS
        <5> QED
          BY <4>1, <5>1, <5>2, Zenon DEF UnitOf
      <4>5. Turn(b, Cut(n)) = [units  |-> Append(Cut(n).units, UnitOf(b, at, n + 1)),
                               start  |-> at[n + 2],
                               prefix |-> <<>>]
        BY <4>2, <4>3, <4>4 DEF Turn
      <4>6. Append(Cut(n).units, UnitOf(b, at, n + 1)) = [k \in 1 .. n + 1 |-> UnitOf(b, at, k)]
        OBVIOUS
      <4>7. Cut(n + 1) = [units  |-> [k \in 1 .. n + 1 |-> UnitOf(b, at, k)],
                          start  |-> at[n + 2],
                          prefix |-> <<>>]
        BY <4>1
      <4> QED
        BY <3>1, <3>2, <3>3, <4>1, <4>5, <4>6, <4>7
    <3>4. CASE ~ (n + 1 < m)
      <4>1. Cuts(b)[n] = Cut(m - 1)
        <5>1. n < m => n = m - 1
          BY <3>4
        <5> QED
          BY <3>2, <5>1
      <4>2. Cut(m - 1).start = at[m]
        OBVIOUS
      <4>3. m \in 1 .. m
        BY <1>2
      <4>4. Find(b, at[m] + Len(AUD)) = 0
        BY <4>3, FindNext
      <4>5. Turn(b, Cut(m - 1)) = Cut(m - 1)
        BY <4>2, <4>4 DEF Turn
      <4> QED
        BY <3>1, <3>4, <4>1, <4>5
    <3> QED
      BY <3>3, <3>4
  <2>5. S = Nat
    <3>1. S \in SUBSET Nat
      OBVIOUS
    <3> HIDE DEF S
    <3> QED
      BY <2>3, <2>4, <3>1, InductionOn
  <2>6. Cuts(b)[Len(b)] = Cut(m - 1)
    <3>1. ~ (Len(b) < m) /\ Len(b) <= Len(b)
      BY <2>1
    <3> QED
      BY <2>1, <2>5, <3>1
  <2>7. Cut(m - 1).start = at[m] /\ Cut(m - 1).units = [k \in 1 .. m - 1 |-> UnitOf(b, at, k)]
    OBVIOUS
  <2> HIDE DEF Cut
  <2> QED
    BY <1>2, <2>2, <2>6, <2>7 DEF Split, Rest
<1> QED
  BY <1>1, <1>2

----------------------------------------------------------------------------
(* Parts of sequences of symbols.                                          *)

LEMMA Part ==
  ASSUME NEW t \in Seq(Symbols), NEW i \in Nat, NEW j \in Nat,
         1 <= i, i <= j + 1, j <= Len(t)
  PROVE  /\ SubSeq(t, i, j) \in Seq(Symbols)
         /\ Len(SubSeq(t, i, j)) = j - i + 1
         /\ \A k \in 1 .. j - i + 1 : SubSeq(t, i, j)[k] = t[i + k - 1]
<1>1. \A k \in i .. j : t[k] \in Symbols
  OBVIOUS
<1>2. /\ SubSeq(t, i, j) \in Seq(Symbols)
      /\ Len(SubSeq(t, i, j)) = IF i <= j THEN j - i + 1 ELSE 0
      /\ \A k \in 1 .. j - i + 1 : SubSeq(t, i, j)[k] = t[i + k - 1]
  BY <1>1, SubSeqProperties
<1> QED
  BY <1>2

LEMMA PartOfPart ==
  ASSUME NEW t \in Seq(Symbols), NEW i \in Nat, NEW j \in Nat,
         1 <= i, i <= j + 1, j <= Len(t),
         NEW k \in Nat, NEW l \in Nat, 1 <= k, k <= l + 1, l <= j - i + 1
  PROVE  SubSeq(SubSeq(t, i, j), k, l) = SubSeq(t, i + k - 1, i + l - 1)
<1> DEFINE u == SubSeq(t, i, j)
           x == SubSeq(u, k, l)
           y == SubSeq(t, i + k - 1, i + l - 1)
<1>1. /\ u \in Seq(Symbols) /\ Len(u) = j - i + 1
      /\ \A n \in 1 .. j - i + 1 : u[n] = t[i + n - 1]
  BY Part
<1> HIDE DEF u
<1>2. x \in Seq(Symbols) /\ Len(x) = l - k + 1 /\ \A n \in 1 .. l - k + 1 : x[n] = u[k + n - 1]
  BY <1>1, Part
<1>3. /\ i + k - 1 \in Nat /\ i + l - 1 \in Nat /\ 1 <= i + k - 1
      /\ i + k - 1 <= (i + l - 1) + 1 /\ i + l - 1 <= Len(t)
      /\ (i + l - 1) - (i + k - 1) + 1 = l - k + 1
  OBVIOUS
<1>4. /\ y \in Seq(Symbols) /\ Len(y) = l - k + 1
      /\ \A n \in 1 .. l - k + 1 : y[n] = t[(i + k - 1) + n - 1]
  BY <1>3, Part
<1>5. ASSUME NEW n \in 1 .. l - k + 1 PROVE x[n] = y[n]
  <2>1. k + n - 1 \in 1 .. j - i + 1 /\ i + (k + n - 1) - 1 = (i + k - 1) + n - 1
    OBVIOUS
  <2> QED
    BY <1>1, <1>2, <1>4, <2>1
<1> HIDE DEF x, y
<1>6. x = y
  BY <1>2, <1>4, <1>5, SeqEqual
<1> QED
  BY <1>6 DEF x, y, u

\* A part of what is left of a sequence behind p.
LEMMA PartOfRest ==
  ASSUME NEW t \in Seq(Symbols), NEW p \in Nat, p <= Len(t),
         NEW k \in Nat, NEW l \in Nat, 1 <= k, k <= l + 1, l <= Len(t) - p
  PROVE  SubSeq(SubSeq(t, p + 1, Len(t)), k, l) = SubSeq(t, p + k, p + l)
<1> PICK i : i = p + 1
  OBVIOUS
<1> PICK j : j = Len(t)
  OBVIOUS
<1>1. /\ i \in Nat /\ j \in Nat /\ 1 <= i /\ i <= j + 1 /\ j <= Len(t) /\ l <= j - i + 1
      /\ i + k - 1 = p + k /\ i + l - 1 = p + l
  OBVIOUS
<1>2. SubSeq(SubSeq(t, i, j), k, l) = SubSeq(t, i + k - 1, i + l - 1)
  BY <1>1, PartOfPart
<1> QED
  BY <1>1, <1>2, Zenon

LEMMA PartsJoin ==
  ASSUME NEW t \in Seq(Symbols), NEW i \in Nat, NEW j \in Nat, NEW k \in Nat,
         1 <= i, i <= j + 1, j <= k, k <= Len(t)
  PROVE  SubSeq(t, i, j) \o SubSeq(t, j + 1, k) = SubSeq(t, i, k)
<1> DEFINE x == SubSeq(t, i, j)
           y == SubSeq(t, j + 1, k)
           z == SubSeq(t, i, k)
<1>1. /\ x \in Seq(Symbols) /\ Len(x) = j - i + 1
      /\ \A n \in 1 .. j - i + 1 : x[n] = t[i + n - 1]
  BY Part
<1>2. /\ y \in Seq(Symbols) /\ Len(y) = k - j
      /\ \A n \in 1 .. k - j : y[n] = t[j + n]
  <2>1. j + 1 \in Nat /\ 1 <= j + 1 /\ j + 1 <= k + 1 /\ k - (j + 1) + 1 = k - j
    OBVIOUS
  <2>2. \A n \in Nat : (j + 1) + n - 1 = j + n
    OBVIOUS
  <2> QED
    BY <2>1, <2>2, Part
<1>3. /\ z \in Seq(Symbols) /\ Len(z) = k - i + 1
      /\ \A n \in 1 .. k - i + 1 : z[n] = t[i + n - 1]
  BY Part
<1> HIDE DEF x, y, z
<1>4. /\ x \o y \in Seq(Symbols) /\ Len(x \o y) = k - i + 1
      /\ \A n \in 1 .. k - i + 1 :
            (x \o y)[n] = IF n <= j - i + 1 THEN x[n] ELSE y[n - (j - i + 1)]
  <2>1. (j - i + 1) + (k - j) = k - i + 1
    OBVIOUS
  <2>2. /\ x \o y \in Seq(Symbols) /\ Len(x \o y) = Len(x) + Len(y)
        /\ \A n \in 1 .. Len(x) + Len(y) : (x \o y)[n] = IF n <= Len(x) THEN x[n] ELSE y[n - Len(x)]
    BY <1>1, <1>2, ConcatProperties
  <2> QED
    BY <1>1, <1>2, <2>1, <2>2
<1>5. ASSUME NEW n \in 1 .. k - i + 1 PROVE (x \o y)[n] = z[n]
  <2>1. CASE n <= j - i + 1
    BY <1>1, <1>3, <1>4, <2>1
  <2>2. CASE ~ (n <= j - i + 1)
    <3>1. n - (j - i + 1) \in 1 .. k - j /\ j + (n - (j - i + 1)) = i + n - 1
      BY <2>2
    <3> QED
      BY <1>2, <1>3, <1>4, <2>2, <3>1
  <2> QED
    BY <2>1, <2>2
<1>6. x \o y = z
  BY <1>3, <1>4, <1>5, SeqEqual
<1> QED
  BY <1>6 DEF x, y, z

LEMMA Appended ==
  ASSUME NEW T, NEW t \in Seq(T), NEW e \in T
  PROVE  /\ Append(t, e) \in Seq(T) /\ Len(Append(t, e)) = Len(t) + 1
         /\ Append(t, e)[Len(t) + 1] = e
         /\ \A k \in 1 .. Len(t) : Append(t, e)[k] = t[k]
  OBVIOUS

\* What a longer sequence has in the place of a shorter one, and behind it.
LEMMA PartOfLonger ==
  ASSUME NEW t \in Seq(Symbols), NEW u \in Seq(Symbols),
         NEW i \in Nat, NEW j \in Nat, 1 <= i, i <= j + 1, j <= Len(t)
  PROVE  /\ SubSeq(t \o u, i, j) = SubSeq(t, i, j)
         /\ SubSeq(t, i, Len(t)) \o u = SubSeq(t \o u, i, Len(t) + Len(u))
         /\ SubSeq(t \o u, Len(t) + 1, Len(t) + Len(u)) = u
<1> DEFINE w == t \o u
<1>1. /\ w \in Seq(Symbols) /\ Len(w) = Len(t) + Len(u)
      /\ \A n \in 1 .. Len(t) + Len(u) : w[n] = IF n <= Len(t) THEN t[n] ELSE u[n - Len(t)]
  BY ConcatProperties
<1>2. Len(t) \in Nat /\ Len(u) \in Nat
  OBVIOUS
<1> HIDE DEF w
<1>3. ASSUME NEW k \in Nat, NEW l \in Nat, 1 <= k, k <= l + 1, l <= Len(t)
      PROVE  SubSeq(w, k, l) = SubSeq(t, k, l)
  <2> DEFINE x == SubSeq(w, k, l)
             y == SubSeq(t, k, l)
  <2>1. x \in Seq(Symbols) /\ Len(x) = l - k + 1 /\ \A n \in 1 .. l - k + 1 : x[n] = w[k + n - 1]
    BY <1>1, <1>2, <1>3, Part
  <2>2. y \in Seq(Symbols) /\ Len(y) = l - k + 1 /\ \A n \in 1 .. l - k + 1 : y[n] = t[k + n - 1]
    BY <1>2, <1>3, Part
  <2> HIDE DEF x, y
  <2>3. ASSUME NEW n \in 1 .. l - k + 1 PROVE x[n] = y[n]
    <3>1. k + n - 1 \in 1 .. Len(t) + Len(u) /\ k + n - 1 <= Len(t)
      BY <1>2, <1>3
    <3> QED
      BY <1>1, <2>1, <2>2, <3>1
  <2>4. x = y
    BY <2>1, <2>2, <2>3, SeqEqual
  <2> QED
    BY <2>4 DEF x, y
<1>4. SubSeq(w, Len(t) + 1, Len(t) + Len(u)) = u
  <2> DEFINE x == SubSeq(w, Len(t) + 1, Len(t) + Len(u))
  <2>1. /\ Len(t) + 1 \in Nat /\ Len(t) + Len(u) \in Nat /\ 1 <= Len(t) + 1
        /\ Len(t) + 1 <= (Len(t) + Len(u)) + 1 /\ Len(t) + Len(u) <= Len(w)
        /\ (Len(t) + Len(u)) - (Len(t) + 1) + 1 = Len(u)
    BY <1>1, <1>2
  <2>2. x \in Seq(Symbols) /\ Len(x) = Len(u) /\ \A n \in 1 .. Len(u) : x[n] = w[(Len(t) + 1) + n - 1]
    BY <1>1, <2>1, Part
  <2> HIDE DEF x
  <2>3. ASSUME NEW n \in 1 .. Len(u) PROVE x[n] = u[n]
    <3>1. /\ (Len(t) + 1) + n - 1 = Len(t) + n /\ Len(t) + n \in 1 .. Len(t) + Len(u)
          /\ ~ (Len(t) + n <= Len(t)) /\ (Len(t) + n) - Len(t) = n
      BY <1>2
    <3> QED
      BY <1>1, <2>2, <3>1
  <2>4. x = u
    BY <2>2, <2>3, SeqEqual
  <2> QED
    BY <2>4 DEF x
<1>5. SubSeq(t, i, Len(t)) \o u = SubSeq(w, i, Len(t) + Len(u))
  <2>1. SubSeq(w, i, Len(t)) = SubSeq(t, i, Len(t))
    BY <1>2, <1>3
  <2>2. SubSeq(w, i, Len(t)) \o SubSeq(w, Len(t) + 1, Len(t) + Len(u))
            = SubSeq(w, i, Len(t) + Len(u))
    <3>1. /\ Len(t) + Len(u) \in Nat /\ Len(t) <= Len(t) + Len(u)
          /\ Len(t) + Len(u) <= Len(w) /\ i <= Len(t) + 1
      BY <1>1, <1>2
    <3> QED
      BY <1>1, <1>2, <3>1, PartsJoin
  <2> QED
    BY <1>4, <2>1, <2>2
<1> QED
  BY <1>3, <1>4, <1>5 DEF w

LEMMA PartAppended ==
  ASSUME NEW t \in Seq(Symbols), NEW u \in Seq(Symbols), NEW i \in Nat, 1 <= i, i <= Len(t) + 1
  PROVE  SubSeq(t, i, Len(t)) \o u = SubSeq(t \o u, i, Len(t) + Len(u))
<1>1. Len(t) \in Nat /\ Len(t) <= Len(t)
  OBVIOUS
<1> QED
  BY <1>1, PartOfLonger

----------------------------------------------------------------------------
(* The stream of an encoder, and the part of it that the reader holds.     *)

\* stream is everything the encoder has written; frame k has its delimiter at
\* off[k], at least Lead symbols and a slice before the next one.
LaidOut(stream, off) ==
    /\ stream \in Seq(Symbols) /\ off \in Seq(Nat) /\ Len(off) = Len(frames)
    /\ frames = <<>> => stream = <<>>
    /\ \A k \in 1 .. Len(off) :
          1 <= off[k] /\ off[k] + Lead <= Len(stream) /\ stream[off[k] + 1] = AUD[2]
    /\ \A j, k \in 1 .. Len(off) : j < k => off[j] + Lead < off[k]
    /\ \A i \in 1 .. Len(stream) : stream[i] = AUD[1] <=> \E k \in 1 .. Len(off) : i = off[k]

\* What goes from the delimiter of frame k up to the next one.
Until(stream, off, k) == IF k = Len(off) THEN Len(stream) ELSE off[k + 1] - 1
FramesThere(stream, off) ==
    layout = "behind" =>
        /\ off # <<>> => off[1] = 1
        /\ \A k \in 1 .. Len(off) : SubSeq(stream, off[k], Until(stream, off, k)) = Bytes(frames[k])

\* The reader has taken the first p symbols and holds them from s on: either no
\* delimiter has come yet, or s is that of the first frame whose unit has not
\* been handed on.  The next one after that has not come yet.
Held(stream, off, s, p) ==
    /\ s \in Nat /\ 1 <= s /\ p \in Nat /\ s <= p + 1 /\ p <= Len(stream)
    /\ buf = SubSeq(stream, s, p) /\ pipe = SubSeq(stream, p + 1, Len(stream))
    /\ \/ s = 1 /\ units = <<>> /\ (off # <<>> => p <= off[1])
       \/ Len(units) + 1 <= Len(off) /\ s = off[Len(units) + 1] /\ s < p
    /\ Len(units) + 2 <= Len(off) => p <= off[Len(units) + 2]

HandedOn ==
    /\ units \in Seq([au : Seq(Symbols), sync : BOOLEAN])
    /\ UnitsLeadWithDelimiter /\ UnitsAreFrames

UnitsInv ==
    /\ layout \in Layouts /\ frames \in Seq(BOOLEAN) /\ Len(frames) <= MaxFrames
    /\ reader \in {"reading", "ended"}
    /\ \E stream, off, s, p :
          LaidOut(stream, off) /\ FramesThere(stream, off) /\ Held(stream, off, s, p)
    /\ HandedOn

\* The part of the stream from s to q has the delimiters of the frames n+1 to
\* n+m and no others: it begins behind that of frame n and ends within that of
\* frame n+m+1.
Within(stream, off, s, q, n, m) ==
    /\ s \in Nat /\ q \in Nat /\ 1 <= s /\ s <= q + 1 /\ q <= Len(stream)
    /\ n \in Nat /\ m \in Nat /\ n + m <= Len(off)
    /\ n > 0 => off[n] < s
    /\ m > 0 => s <= off[n + 1] /\ off[n + m] < q
    /\ n + m < Len(off) => q <= off[n + m + 1]

LEMMA DelimitersInPart ==
  ASSUME NEW stream, NEW off, LaidOut(stream, off),
         NEW s, NEW q, NEW n, NEW m, Within(stream, off, s, q, n, m)
  PROVE  \E at : /\ DelimitersOf(SubSeq(stream, s, q), m, at)
                 /\ \A k \in 1 .. m : at[k] = off[n + k] - s + 1
<1> USE DEF Within
<1> DEFINE b  == SubSeq(stream, s, q)
           at == [k \in 1 .. m |-> off[n + k] - s + 1]
<1>1. /\ b \in Seq(Symbols) /\ Len(b) = q - s + 1
      /\ \A i \in 1 .. q - s + 1 : b[i] = stream[s + i - 1]
  BY Part DEF LaidOut
<1>2. Len(off) \in Nat /\ Len(stream) \in Nat /\ \A k \in 1 .. Len(off) : off[k] \in Nat
  BY DEF LaidOut
<1>3. \A j, k \in 1 .. Len(off) : j < k => off[j] + 3 < off[k]
  BY DEF LaidOut, Lead
<1>4. ASSUME NEW k \in 1 .. m
      PROVE  /\ n + k \in 1 .. Len(off) /\ at[k] = off[n + k] - s + 1
             /\ at[k] \in 1 .. Len(b) - 1
  <2>1. n + k \in 1 .. Len(off) /\ n + 1 \in 1 .. Len(off) /\ n + m \in 1 .. Len(off)
    BY <1>2
  <2>2. off[n + 1] <= off[n + k]
    <3>1. n + 1 < n + k => off[n + 1] + 3 < off[n + k]
      BY <1>3, <2>1
    <3>2. n + 1 < n + k \/ n + 1 = n + k
      OBVIOUS
    <3> QED
      BY <1>2, <2>1, <3>1, <3>2
  <2>3. off[n + k] <= off[n + m]
    <3>1. n + k < n + m => off[n + k] + 3 < off[n + m]
      BY <1>3, <2>1
    <3>2. n + k < n + m \/ n + k = n + m
      OBVIOUS
    <3> QED
      BY <1>2, <2>1, <3>1, <3>2
  <2>4. off[n + k] \in Nat /\ off[n + 1] \in Nat /\ off[n + m] \in Nat
    BY <1>2, <2>1
  <2>5. s <= off[n + k] /\ off[n + k] < q
    BY <2>2, <2>3, <2>4
  <2> QED
    BY <1>1, <2>1, <2>4, <2>5
<1>5. at \in [1 .. m -> 1 .. Len(b) - 1]
  BY <1>4
<1> HIDE DEF at
<1>6. \A j, k \in 1 .. m : j < k => at[j] + Len(AUD) <= at[k]
  <2> TAKE j, k \in 1 .. m
  <2>1. n + j \in 1 .. Len(off) /\ n + k \in 1 .. Len(off) /\ (j < k => n + j < n + k)
    <3>1. j < k => n + j < n + k
      OBVIOUS
    <3> QED
      BY <1>4, <3>1, Zenon
  <2>2. j < k => off[n + j] + 3 < off[n + k]
    BY <1>3, <2>1
  <2>3. off[n + j] \in Nat /\ off[n + k] \in Nat
    BY <1>2, <2>1
  <2>4. at[j] = off[n + j] - s + 1 /\ at[k] = off[n + k] - s + 1
    BY <1>4, Zenon
  <2>5. Len(AUD) = 2
    BY DEF AUD
  <2>6. j < k => (off[n + j] - s + 1) + 2 <= off[n + k] - s + 1
    <3>1. s \in Nat
      OBVIOUS
    <3>2. \A x, y \in Nat : x + 3 < y => (x - s + 1) + 2 <= y - s + 1
      BY <3>1
    <3> QED
      BY <2>2, <2>3, <3>2, Zenon
  <2> QED
    BY <2>4, <2>5, <2>6
<1>7. ASSUME NEW i \in 1 .. Len(b) - 1
      PROVE  SubSeq(b, i, i + 1) = AUD <=> \E k \in 1 .. m : i = at[k]
  <2>1. /\ i \in 1 .. q - s + 1 /\ i + 1 \in 1 .. q - s + 1 /\ s + (i + 1) - 1 = s + i
        /\ s + i - 1 \in 1 .. Len(stream) /\ s + i - 1 < q
    BY <1>1, <1>2
  <2>2. b[i] = stream[s + i - 1] /\ b[i + 1] = stream[s + i]
    BY <1>1, <2>1
  <2>3. SubSeq(b, i, i + 1) = <<b[i], b[i + 1]>>
    <3>1. /\ i \in Nat /\ i + 1 \in Nat /\ 1 <= i /\ i <= (i + 1) + 1 /\ i + 1 <= Len(b)
          /\ (i + 1) - i + 1 = 2 /\ i + 1 - 1 = i /\ i + 2 - 1 = i + 1
      BY <1>1
    <3>2. /\ SubSeq(b, i, i + 1) \in Seq(Symbols) /\ Len(SubSeq(b, i, i + 1)) = 2
          /\ SubSeq(b, i, i + 1)[1] = b[i] /\ SubSeq(b, i, i + 1)[2] = b[i + 1]
      BY <1>1, <3>1, Part
    <3>3. <<b[i], b[i + 1]>> \in Seq(Symbols)
      BY <1>1, <3>1
    <3> DEFINE x == SubSeq(b, i, i + 1)
               y == <<b[i], b[i + 1]>>
    <3>4. Len(y) = 2 /\ y[1] = b[i] /\ y[2] = b[i + 1]
      OBVIOUS
    <3> HIDE DEF x, y
    <3>5. Len(x) = Len(y) /\ \A k \in 1 .. Len(x) : x[k] = y[k]
      <4>1. \A k \in 1 .. 2 : k = 1 \/ k = 2
        OBVIOUS
      <4> QED
        BY <3>2, <3>4, <4>1 DEF x
    <3>6. x = y
      BY <3>2, <3>3, <3>5, SeqEqual DEF x, y
    <3> QED
      BY <3>6 DEF x, y
  <2>4. ASSUME NEW k \in 1 .. m, i = at[k] PROVE SubSeq(b, i, i + 1) = AUD
    <3>1. n + k \in 1 .. Len(off) /\ off[n + k] = s + i - 1 /\ off[n + k] + 1 = s + i
      <4>1. n + k \in 1 .. Len(off) /\ i = off[n + k] - s + 1
        BY <1>4, <2>4, Zenon
      <4>2. off[n + k] \in Nat /\ i \in Int
        BY <1>2, <4>1
      <4>3. \A o \in Nat : i = o - s + 1 => o = s + i - 1 /\ o + 1 = s + i
        BY <4>2
      <4> QED
        BY <4>1, <4>2, <4>3, Zenon
    <3>2. stream[s + i - 1] = AUD[1] /\ stream[s + i] = AUD[2]
      BY <2>1, <3>1 DEF LaidOut
    <3> QED
      BY <2>2, <2>3, <3>2 DEF AUD
  <2>5. ASSUME SubSeq(b, i, i + 1) = AUD PROVE \E k \in 1 .. m : i = at[k]
    <3>1. stream[s + i - 1] = AUD[1]
      BY <2>2, <2>3, <2>5 DEF AUD
    <3>2. PICK j \in 1 .. Len(off) : s + i - 1 = off[j]
      BY <2>1, <3>1 DEF LaidOut
    <3>3. j \in Nat /\ off[j] \in Nat /\ s <= off[j] /\ off[j] < q
      BY <1>2, <2>1, <3>2
    <3>4. n < j
      <4>1. CASE n > 0 /\ j <= n
        <5>1. n \in 1 .. Len(off) /\ off[n] \in Nat /\ off[n] < s
          BY <1>2, <4>1
        <5>2. j < n => off[j] + 3 < off[n]
          BY <1>3, <5>1
        <5> QED
          BY <3>3, <4>1, <5>1, <5>2
      <4> QED
        BY <4>1, <3>3
    <3>5. j <= n + m
      <4>1. CASE j > n + m
        <5>1. n + m + 1 \in 1 .. Len(off) /\ off[n + m + 1] \in Nat /\ q <= off[n + m + 1]
          BY <1>2, <4>1
        <5>2. n + m + 1 < j => off[n + m + 1] + 3 < off[j]
          BY <1>3, <5>1
        <5>3. n + m + 1 < j \/ n + m + 1 = j
          BY <3>3, <4>1
        <5> QED
          BY <3>3, <5>1, <5>2, <5>3
      <4> QED
        BY <4>1, <3>3
    <3>6. j - n \in 1 .. m /\ n + (j - n) = j
      BY <3>3, <3>4, <3>5
    <3>7. at[j - n] = off[j] - s + 1
      BY <1>4, <3>6
    <3>8. at[j - n] = i
      BY <1>1, <3>2, <3>3, <3>7
    <3> QED
      BY <3>6, <3>8
  <2> QED
    BY <2>4, <2>5
<1> HIDE DEF b
<1>8. Delimiters(b, 1) = { at[k] : k \in 1 .. m }
  BY <1>5, <1>7 DEF Delimiters
<1>9. DelimitersOf(SubSeq(stream, s, q), m, at)
  BY <1>5, <1>6, <1>8 DEF DelimitersOf, at, b
<1>10. \A k \in 1 .. m : at[k] = off[n + k] - s + 1
  BY <1>4
<1> HIDE DEF at
<1> QED
  BY <1>9, <1>10, Zenon

LEMMA BytesIs ==
  ASSUME NEW key
  PROVE  /\ ~ key => Bytes(key) = <<"start", "aud", "payload", "delta">>
         /\ key /\ layout = "behind" =>
               Bytes(key) = <<"start", "aud", "payload", "sps", "idr">>
         /\ key /\ layout = "before" =>
               Bytes(key) = <<"sps", "start", "aud", "payload", "idr">>
<1>1. AUD[1] = "start" /\ AUD[2] = "aud" /\ SPS = "sps"
  BY DEF AUD, SPS
<1>2. "behind" # "before"
  OBVIOUS
<1> HIDE DEF AUD, SPS
<1>3. ~ key => Bytes(key) = <<AUD[1], AUD[2], "payload", "delta">>
  BY Zenon DEF Bytes
<1>4. key /\ layout = "behind" => Bytes(key) = <<AUD[1], AUD[2], "payload", SPS, "idr">>
  BY <1>2, Zenon DEF Bytes
<1>5. key /\ layout = "before" => Bytes(key) = <<SPS, AUD[1], AUD[2], "payload", "idr">>
  BY <1>2, Zenon DEF Bytes
<1> QED
  BY <1>1, <1>3, <1>4, <1>5, Zenon

\* What the encoder writes for a frame: a delimiter, which has a prefix only in
\* the layout "before".
LEMMA BytesAre ==
  ASSUME NEW key \in BOOLEAN, layout \in Layouts
  PROVE  \E d \in {1, 2} :
            /\ Bytes(key) \in Seq(Symbols) /\ d + Lead <= Len(Bytes(key))
            /\ Bytes(key)[d + 1] = AUD[2]
            /\ \A i \in 1 .. Len(Bytes(key)) : Bytes(key)[i] = AUD[1] <=> i = d
            /\ layout = "behind" => d = 1
<1> DEFINE X == Bytes(key)
<1>1. CASE ~ key
  <2>1. X = <<"start", "aud", "payload", "delta">>
    BY <1>1, BytesIs
  <2> HIDE DEF X
  <2>2. /\ X \in Seq(Symbols) /\ Len(X) = 4 /\ X[1] = "start" /\ X[2] = "aud"
        /\ X[3] = "payload" /\ X[4] = "delta"
    BY <2>1 DEF Symbols, AUD
  <2>3. \A i \in 1 .. 4 : i = 1 \/ i = 2 \/ i = 3 \/ i = 4
    OBVIOUS
  <2>4. /\ X \in Seq(Symbols) /\ 1 + Lead <= Len(X) /\ X[1 + 1] = AUD[2]
        /\ \A i \in 1 .. Len(X) : X[i] = AUD[1] <=> i = 1
    BY <2>2, <2>3 DEF AUD, Lead
  <2> QED
    BY <2>4 DEF X
<1>2. CASE key /\ layout = "behind"
  <2>1. X = <<"start", "aud", "payload", "sps", "idr">>
    BY <1>2, BytesIs
  <2> HIDE DEF X
  <2>2. /\ X \in Seq(Symbols) /\ Len(X) = 5 /\ X[1] = "start" /\ X[2] = "aud"
        /\ X[3] = "payload" /\ X[4] = "sps" /\ X[5] = "idr"
    BY <2>1 DEF Symbols, AUD, SPS
  <2>3. \A i \in 1 .. 5 : i = 1 \/ i = 2 \/ i = 3 \/ i = 4 \/ i = 5
    OBVIOUS
  <2>4. /\ X \in Seq(Symbols) /\ 1 + Lead <= Len(X) /\ X[1 + 1] = AUD[2]
        /\ \A i \in 1 .. Len(X) : X[i] = AUD[1] <=> i = 1
    BY <2>2, <2>3 DEF AUD, Lead
  <2> QED
    BY <2>4 DEF X
<1>3. CASE key /\ layout = "before"
  <2>1. X = <<"sps", "start", "aud", "payload", "idr">>
    BY <1>3, BytesIs
  <2> HIDE DEF X
  <2>2. /\ X \in Seq(Symbols) /\ Len(X) = 5 /\ X[1] = "sps" /\ X[2] = "start"
        /\ X[3] = "aud" /\ X[4] = "payload" /\ X[5] = "idr"
    BY <2>1 DEF Symbols, AUD, SPS
  <2>3. \A i \in 1 .. 5 : i = 1 \/ i = 2 \/ i = 3 \/ i = 4 \/ i = 5
    OBVIOUS
  <2>4. /\ X \in Seq(Symbols) /\ 2 + Lead <= Len(X) /\ X[2 + 1] = AUD[2]
        /\ \A i \in 1 .. Len(X) : X[i] = AUD[1] <=> i = 2
    BY <2>2, <2>3 DEF AUD, Lead
  <2> QED
    BY <1>3, <2>4 DEF X
<1> QED
  BY <1>1, <1>2, <1>3

\* is_sync tells a keyframe in the layout "behind".
LEMMA SyncIsKey ==
  ASSUME NEW key \in BOOLEAN, layout = "behind"
  PROVE  IsSync(Bytes(key)) = key
<1>1. CASE ~ key
  <2>1. Bytes(key) = <<"start", "aud", "payload", "delta">>
    BY <1>1, BytesIs
  <2>2. \A i \in 1 .. 4 : i = 1 \/ i = 2 \/ i = 3 \/ i = 4
    OBVIOUS
  <2>3. ~ IsSync(<<"start", "aud", "payload", "delta">>)
    BY <2>2 DEF IsSync, Contains, SPS
  <2>4. ~ IsSync(Bytes(key))
    BY <2>1, <2>3
  <2>5. IsSync(Bytes(key)) \in BOOLEAN
    BY Zenon DEF IsSync, Contains
  <2> QED
    BY <1>1, <2>4, <2>5, Zenon
<1>2. CASE key
  <2>1. Bytes(key) = <<"start", "aud", "payload", "sps", "idr">>
    BY <1>2, BytesIs
  <2>2. IsSync(<<"start", "aud", "payload", "sps", "idr">>)
    BY DEF IsSync, Contains, SPS
  <2>3. IsSync(Bytes(key))
    BY <2>1, <2>2
  <2>4. IsSync(Bytes(key)) \in BOOLEAN
    BY Zenon DEF IsSync, Contains
  <2> QED
    BY <1>2, <2>3, <2>4, Zenon
<1> QED
  BY <1>1, <1>2

LEMMA UnitsInit == Init => UnitsInv
<1> SUFFICES ASSUME Init PROVE UnitsInv
  OBVIOUS
<1> USE DEF Init
<1> DEFINE e == <<>>
<1>1. LaidOut(e, e) /\ FramesThere(e, e)
  BY DEF LaidOut, FramesThere
<1>2. Held(e, e, 1, 0)
  <2>1. SubSeq(e, 1, 0) = <<>> /\ Len(e) = 0
    BY SubSeqEmpty
  <2> QED
    BY <2>1 DEF Held
<1>3. HandedOn
  BY DEF HandedOn, UnitsLeadWithDelimiter, UnitsAreFrames
<1>4. \E stream, off, s, p :
          LaidOut(stream, off) /\ FramesThere(stream, off) /\ Held(stream, off, s, p)
  BY <1>1, <1>2
<1> QED
  BY <1>3, <1>4 DEF UnitsInv

\* The units handed on are those of the first frames, and there is a frame
\* whose unit is still held.
LEMMA UnitsBehind ==
  ASSUME UnitsInv
  PROVE  /\ Len(units) \in Nat /\ DOMAIN units = 1 .. Len(units)
         /\ Len(units) > 0 => Len(units) < Len(frames)
<1> PICK stream, off, s, p :
         LaidOut(stream, off) /\ FramesThere(stream, off) /\ Held(stream, off, s, p)
  BY DEF UnitsInv
<1>1. Len(units) \in Nat /\ DOMAIN units = 1 .. Len(units)
  BY DEF UnitsInv, HandedOn
<1>2. Len(off) \in Nat /\ Len(off) = Len(frames)
  BY DEF LaidOut
<1>3. units = <<>> => Len(units) = 0
  OBVIOUS
<1> QED
  BY <1>1, <1>2, <1>3 DEF Held

LEMMA EncodeStep ==
  ASSUME UnitsInv, NEW key \in BOOLEAN, Encode(key)
  PROVE  UnitsInv'
<1> PICK stream, off, s, p :
         LaidOut(stream, off) /\ FramesThere(stream, off) /\ Held(stream, off, s, p)
  BY DEF UnitsInv
<1> PICK X : X = Bytes(key)
  OBVIOUS
<1>1. PICK d \in {1, 2} :
         /\ X \in Seq(Symbols) /\ d + Lead <= Len(X) /\ X[d + 1] = AUD[2]
         /\ \A i \in 1 .. Len(X) : X[i] = AUD[1] <=> i = d
         /\ layout = "behind" => d = 1
  BY BytesAre DEF UnitsInv
<1>2. /\ frames' = Append(frames, key) /\ pipe' = pipe \o X
      /\ UNCHANGED <<layout, buf, units, reader>> /\ Len(frames) < MaxFrames
  BY DEF Encode
<1> DEFINE L    == Len(stream)
           n    == Len(off)
           st   == stream \o X
           offs == Append(off, L + d)
<1>3. /\ stream \in Seq(Symbols) /\ L \in Nat /\ off \in Seq(Nat) /\ n \in Nat
      /\ frames \in Seq(BOOLEAN) /\ n = Len(frames) /\ Len(X) \in Nat
      /\ \A k \in 1 .. n : off[k] \in Nat /\ 1 <= off[k] /\ off[k] + 3 <= L
  <2>1. frames \in Seq(BOOLEAN) /\ Len(X) \in Nat
    BY <1>1 DEF UnitsInv
  <2>2. stream \in Seq(Symbols) /\ off \in Seq(Nat) /\ n = Len(frames)
    BY DEF LaidOut
  <2>3. \A k \in 1 .. n : off[k] \in Nat /\ 1 <= off[k] /\ off[k] + Lead <= L
    BY <2>2 DEF LaidOut
  <2> QED
    BY <2>1, <2>2, <2>3 DEF Lead
<1>4. /\ st \in Seq(Symbols) /\ Len(st) = L + Len(X)
      /\ \A i \in 1 .. L : st[i] = stream[i]
      /\ \A i \in 1 .. Len(X) : st[L + i] = X[i]
  <2>1. /\ st \in Seq(Symbols) /\ Len(st) = L + Len(X)
        /\ \A i \in 1 .. L + Len(X) : st[i] = IF i <= L THEN stream[i] ELSE X[i - L]
    BY <1>1, <1>3, ConcatProperties
  <2>2. \A i \in 1 .. L : i \in 1 .. L + Len(X) /\ i <= L
    BY <1>3
  <2>3. \A i \in 1 .. Len(X) : L + i \in 1 .. L + Len(X) /\ ~ (L + i <= L) /\ (L + i) - L = i
    BY <1>3
  <2> HIDE DEF st
  <2> QED
    BY <2>1, <2>2, <2>3
<1>5. /\ offs \in Seq(Nat) /\ Len(offs) = n + 1 /\ offs[n + 1] = L + d
      /\ \A k \in 1 .. n : offs[k] = off[k]
  BY <1>1, <1>3
<1>6. /\ frames' \in Seq(BOOLEAN) /\ Len(frames') = n + 1 /\ Len(frames') <= MaxFrames
      /\ frames'[n + 1] = key
      /\ \A k \in 1 .. n : frames'[k] = frames[k]
  <2>1. /\ frames' \in Seq(BOOLEAN) /\ Len(frames') = Len(frames) + 1
        /\ frames'[Len(frames) + 1] = key
        /\ \A k \in 1 .. Len(frames) : frames'[k] = frames[k]
    BY <1>2, <1>3, Appended
  <2>2. Len(frames) + 1 <= MaxFrames
    BY <1>2, <1>3
  <2> QED
    BY <1>3, <2>1, <2>2, Zenon
<1> HIDE DEF st, offs
<1>7. \A k \in 1 .. n + 1 : k \in 1 .. n \/ k = n + 1
  BY <1>3
<1>8. LaidOut(st, offs)'
  <2>1. frames' # <<>>
    BY <1>3, <1>6
  <2>2. ASSUME NEW k \in 1 .. n + 1
        PROVE  1 <= offs[k] /\ offs[k] + Lead <= Len(st) /\ st[offs[k] + 1] = AUD[2]
    <3>1. CASE k \in 1 .. n
      <4>1. stream[off[k] + 1] = AUD[2] /\ offs[k] = off[k]
        BY <1>5, <3>1 DEF LaidOut
      <4>2. /\ off[k] \in Nat /\ 1 <= off[k] /\ off[k] + 3 <= L
            /\ off[k] + 1 \in 1 .. L /\ off[k] + 3 <= L + Len(X)
        BY <1>3, <3>1
      <4>3. st[off[k] + 1] = AUD[2]
        BY <1>4, <4>1, <4>2
      <4> QED
        BY <1>4, <4>1, <4>2, <4>3 DEF Lead
    <3>2. CASE k = n + 1
      <4>1. /\ offs[k] = L + d /\ d + 1 \in 1 .. Len(X) /\ (L + d) + 1 = L + (d + 1)
            /\ 1 <= L + d /\ (L + d) + 3 <= L + Len(X)
        BY <1>1, <1>3, <1>5, <3>2 DEF Lead
      <4>2. st[L + (d + 1)] = X[d + 1]
        BY <1>4, <4>1
      <4> QED
        BY <1>1, <1>4, <4>1, <4>2 DEF Lead
    <3> QED
      BY <1>7, <3>1, <3>2
  <2>3. ASSUME NEW j \in 1 .. n + 1, NEW k \in 1 .. n + 1, j < k
        PROVE  offs[j] + Lead < offs[k]
    <3>1. j \in 1 .. n
      BY <1>3, <2>3
    <3>2. offs[j] = off[j] /\ off[j] \in Nat /\ off[j] + 3 <= L
      BY <1>3, <1>5, <3>1, Zenon
    <3>3. CASE k \in 1 .. n
      <4>1. off[j] + Lead < off[k]
        BY <2>3, <3>1, <3>3, Zenon DEF LaidOut
      <4>2. offs[k] = off[k]
        BY <1>5, <3>3, Zenon
      <4> QED
        BY <3>2, <4>1, <4>2, Zenon
    <3>4. CASE k = n + 1
      <4>1. offs[k] = L + d
        BY <1>5, <3>4, Zenon
      <4>2. \A o \in Nat : o + 3 <= L => o + 3 < L + d
        BY <1>1, <1>3
      <4> QED
        BY <3>2, <4>1, <4>2, Zenon DEF Lead
    <3> QED
      BY <1>7, <3>3, <3>4
  <2>4. ASSUME NEW i \in 1 .. Len(st)
        PROVE  st[i] = AUD[1] <=> \E k \in 1 .. n + 1 : i = offs[k]
    <3>1. CASE i <= L
      <4>1. i \in 1 .. L /\ st[i] = stream[i]
        BY <1>3, <1>4, <3>1
      <4>2. stream[i] = AUD[1] <=> \E k \in 1 .. n : i = off[k]
        BY <4>1 DEF LaidOut
      <4>3. i # offs[n + 1]
        BY <1>1, <1>3, <1>5, <3>1
      <4>4. \A k \in 1 .. n : k \in 1 .. n + 1
        BY <1>3
      <4> QED
        BY <1>5, <1>7, <4>1, <4>2, <4>3, <4>4
    <3>2. CASE ~ (i <= L)
      <4>1. i - L \in 1 .. Len(X) /\ L + (i - L) = i
        BY <1>3, <1>4, <3>2
      <4>2. st[i] = X[i - L]
        BY <1>4, <4>1
      <4>3. X[i - L] = AUD[1] <=> i = L + d
        <5>1. X[i - L] = AUD[1] <=> i - L = d
          BY <1>1, <4>1
        <5>2. i - L = d <=> i = L + d
          BY <1>1, <1>3, <4>1
        <5> QED
          BY <5>1, <5>2
      <4>4. \A k \in 1 .. n : i # offs[k]
        <5> TAKE k \in 1 .. n
        <5>1. off[k] \in Nat /\ off[k] + 3 <= L /\ offs[k] = off[k]
          BY <1>3, <1>5
        <5> QED
          BY <1>3, <3>2, <4>1, <5>1
      <4>5. n + 1 \in 1 .. n + 1
        BY <1>3
      <4> QED
        BY <1>5, <1>7, <4>2, <4>3, <4>4, <4>5
    <3> QED
      BY <3>1, <3>2
  <2> QED
    BY <1>4, <1>5, <1>6, <2>1, <2>2, <2>3, <2>4 DEF LaidOut
<1>9. FramesThere(st, offs)'
  <2> SUFFICES ASSUME layout = "behind"
               PROVE  /\ offs[1] = 1
                      /\ \A k \in 1 .. n + 1 :
                            SubSeq(st, offs[k], Until(st, offs, k)) = Bytes(frames'[k])
    <3>1. layout' = layout /\ Len(offs) = n + 1
      BY <1>2, <1>5
    <3> QED
      BY <3>1, Zenon DEF FramesThere, Until, Bytes
  <2>0. d = 1
    BY <1>1
  <2>1. offs[1] = 1
    <3>1. CASE n = 0
      <4>1. frames = <<>>
        BY <1>3, <3>1, EmptySeq
      <4>2. L = 0
        BY <4>1 DEF LaidOut
      <4> QED
        BY <1>1, <1>5, <2>0, <3>1, <4>2
    <3>2. CASE n # 0
      <4>1. 1 \in 1 .. n /\ off # <<>>
        BY <1>3, <3>2
      <4> QED
        BY <1>5, <4>1 DEF FramesThere
    <3> QED
      BY <3>1, <3>2
  <2>2. ASSUME NEW k \in 1 .. n + 1
        PROVE  SubSeq(st, offs[k], Until(st, offs, k)) = Bytes(frames'[k])
    <3>1. CASE k \in 1 .. n
      <4> DEFINE l == Until(stream, off, k)
      <4>1. Until(st, offs, k) = l /\ l \in Nat /\ off[k] <= l + 1 /\ l <= L
        <5>1. CASE k = n
          <6>1. k # n + 1 /\ k + 1 = n + 1
            BY <1>3, <5>1
          <6>2. l = L /\ Until(st, offs, k) = (L + 1) - 1
            BY <1>5, <2>0, <5>1, <6>1 DEF Until
          <6>3. (L + 1) - 1 = L /\ off[k] \in Nat /\ off[k] + 3 <= L
            BY <1>3, <3>1
          <6> HIDE DEF l
          <6> QED
            BY <1>3, <6>2, <6>3
        <5>2. CASE k # n
          <6>1. k + 1 \in 1 .. n /\ k < k + 1 /\ k # n + 1
            BY <1>3, <3>1, <5>2
          <6>2. l = off[k + 1] - 1 /\ Until(st, offs, k) = off[k + 1] - 1
            BY <1>3, <1>5, <5>2, <6>1 DEF Until
          <6>3. off[k] + Lead < off[k + 1]
            BY <3>1, <6>1 DEF LaidOut
          <6>4. /\ off[k] \in Nat /\ off[k + 1] \in Nat /\ 1 <= off[k]
                /\ off[k + 1] + 3 <= L /\ off[k] + 3 < off[k + 1]
            BY <1>3, <3>1, <6>1, <6>3 DEF Lead
          <6>5. \A o, i \in Nat : o + 3 <= L /\ i + 3 < o =>
                   o - 1 \in Nat /\ i <= (o - 1) + 1 /\ o - 1 <= L
            BY <1>3
          <6> HIDE DEF l
          <6> QED
            BY <6>2, <6>4, <6>5, Zenon
        <5> QED
          BY <5>1, <5>2
      <4> HIDE DEF l
      <4>2. off[k] \in Nat /\ 1 <= off[k]
        BY <1>3, <3>1
      <4>3. SubSeq(st, off[k], l) = SubSeq(stream, off[k], l)
        <5>1. \A i, j \in Nat : 1 <= i /\ i <= j + 1 /\ j <= L =>
                 SubSeq(stream \o X, i, j) = SubSeq(stream, i, j)
          BY <1>1, <1>3, PartOfLonger
        <5> QED
          BY <4>1, <4>2, <5>1 DEF st
      <4>4. SubSeq(stream, off[k], l) = Bytes(frames[k])
        BY <3>1, Zenon DEF FramesThere, l
      <4> QED
        BY <1>5, <1>6, <3>1, <4>1, <4>3, <4>4
    <3>2. CASE k = n + 1
      <4>1. Until(st, offs, k) = L + Len(X) /\ offs[k] = L + 1
        BY <1>1, <1>3, <1>4, <1>5, <3>2 DEF Until
      <4>2. SubSeq(st, L + 1, L + Len(X)) = X
        <5>1. 1 <= 1 /\ 1 <= 0 + 1 /\ 0 <= L
          BY <1>3
        <5> QED
          BY <1>1, <1>3, <5>1, PartOfLonger DEF st
      <4> QED
        BY <1>6, <3>2, <4>1, <4>2
    <3> QED
      BY <1>7, <3>1, <3>2
  <2> QED
    BY <2>1, <2>2
<1>10. Held(st, offs, s, p)'
  <2>1. s \in Nat /\ 1 <= s /\ p \in Nat /\ s <= p + 1 /\ p <= L /\ 1 <= p + 1
    BY DEF Held
  <2>2. buf = SubSeq(st, s, p)
    <3>1. buf = SubSeq(stream, s, p)
      BY DEF Held
    <3> QED
      BY <1>1, <1>3, <2>1, <3>1, PartOfLonger DEF st
  <2>3. pipe' = SubSeq(st, p + 1, L + Len(X))
    <3>1. pipe = SubSeq(stream, p + 1, L)
      BY DEF Held
    <3>2. p + 1 \in Nat /\ L \in Nat /\ p + 1 <= L + 1 /\ L <= L
      BY <1>3, <2>1
    <3>3. SubSeq(stream, p + 1, L) \o X = SubSeq(st, p + 1, L + Len(X))
      <4>1. \A i \in Nat : 1 <= i /\ i <= L + 1 =>
               SubSeq(stream, i, L) \o X = SubSeq(stream \o X, i, L + Len(X))
        BY <1>1, <1>3, PartAppended
      <4>2. p + 1 \in Nat /\ 1 <= p + 1
        BY <2>1
      <4> QED
        BY <3>2, <4>1, <4>2, Zenon DEF st
    <3> QED
      BY <1>2, <3>1, <3>3
  <2>4. Len(units) \in Nat
    BY UnitsBehind
  <2>5. \/ s = 1 /\ units = <<>> /\ p <= offs[1]
        \/ Len(units) + 1 <= Len(offs) /\ s = offs[Len(units) + 1] /\ s < p
    <3>1. CASE s = 1 /\ units = <<>> /\ (off # <<>> => p <= off[1])
      <4>1. CASE n = 0
        BY <1>1, <1>3, <1>5, <2>1, <3>1, <4>1
      <4>2. CASE n # 0
        <5>1. off # <<>> /\ 1 \in 1 .. n
          BY <1>3, <4>2
        <5>2. offs[1] = off[1]
          BY <1>5, <5>1, Zenon
        <5> QED
          BY <3>1, <5>1, <5>2, Zenon
      <4> QED
        BY <4>1, <4>2
    <3>2. CASE Len(units) + 1 <= n /\ s = off[Len(units) + 1] /\ s < p
      BY <1>3, <1>5, <2>4, <3>2
    <3> QED
      BY <3>1, <3>2 DEF Held
  <2>6. Len(units) + 2 <= Len(offs) => p <= offs[Len(units) + 2]
    <3>1. CASE Len(units) + 2 <= n
      BY <1>3, <1>5, <2>4, <3>1 DEF Held
    <3>2. CASE Len(units) + 2 = n + 1
      BY <1>1, <1>3, <1>5, <2>1, <3>2
    <3> QED
      BY <1>3, <1>5, <2>4, <3>1, <3>2
  <2>7. p <= Len(st) /\ L + Len(X) = Len(st)
    BY <1>3, <1>4, <2>1
  <2> QED
    BY <1>2, <2>1, <2>2, <2>3, <2>5, <2>6, <2>7 DEF Held
<1>11. HandedOn'
  <2>1. UnitsLeadWithDelimiter' /\ units' \in Seq([au : Seq(Symbols), sync : BOOLEAN])
    BY <1>2 DEF UnitsInv, HandedOn, UnitsLeadWithDelimiter
  <2>2. \A k \in DOMAIN units : k \in 1 .. n
    BY <1>3, UnitsBehind
  <2>3. \A k \in DOMAIN units : frames'[k] = frames[k]
    BY <1>6, <2>2
  <2>4. UnitsAreFrames
    BY DEF UnitsInv, HandedOn
  <2>5. UnitsAreFrames'
    BY <1>2, <2>3, <2>4, Zenon DEF UnitsAreFrames, Bytes
  <2> QED
    BY <2>1, <2>5 DEF HandedOn
<1>12. layout' \in Layouts /\ reader' \in {"reading", "ended"}
  BY <1>2 DEF UnitsInv
<1>13. (\E t, o, i, j : LaidOut(t, o) /\ FramesThere(t, o) /\ Held(t, o, i, j))'
  BY <1>8, <1>9, <1>10, Zenon DEF st, offs
<1> QED
  BY <1>6, <1>11, <1>12, <1>13 DEF UnitsInv

----------------------------------------------------------------------------
(* A read.                                                                 *)

LEMMA ReattachIs ==
  ASSUME NEW pre \in Seq(Symbols), NEW au \in Seq(Symbols), Len(au) >= Lead,
         au[1] = AUD[1], au[2] = AUD[2]
  PROVE  /\ Reattach(pre, au) \in Seq(Symbols)
         /\ SubSeq(Reattach(pre, au), 1, Len(AUD)) = AUD
         /\ pre = <<>> => Reattach(pre, au) = au
<1> DEFINE x == Reattach(pre, au)
<1>1. au \in Seq(Symbols) /\ Len(au) \in Nat /\ Len(au) >= 3 /\ Len(pre) \in Nat
  BY DEF Lead
<1>2. x \in Seq(Symbols) /\ Len(x) >= 3 /\ x[1] = au[1] /\ x[2] = au[2]
  <2>1. CASE pre = <<>>
    <3>1. x = au
      BY <2>1 DEF Reattach
    <3> QED
      BY <1>1, <3>1
  <2>2. CASE pre # <<>>
    <3> DEFINE f == SubSeq(au, 1, 3)
               g == SubSeq(au, 4, Len(au))
               h == f \o pre
    <3>1. x = h \o g
      <4>1. Lead = 3 /\ Lead + 1 = 4
        BY DEF Lead
      <4> QED
        BY <2>2, <4>1, Zenon DEF Reattach
    <3>2. f \in Seq(Symbols) /\ Len(f) = 3 /\ f[1] = au[1] /\ f[2] = au[2]
      <4>1. /\ 1 <= 1 /\ 1 <= 3 + 1 /\ 3 <= Len(au) /\ 3 - 1 + 1 = 3
            /\ 1 \in 1 .. 3 /\ 2 \in 1 .. 3 /\ 1 + 1 - 1 = 1 /\ 1 + 2 - 1 = 2
        BY <1>1
      <4>2. /\ f \in Seq(Symbols) /\ Len(f) = 3 - 1 + 1
            /\ \A k \in 1 .. 3 - 1 + 1 : f[k] = au[1 + k - 1]
        BY <4>1, Part
      <4> HIDE DEF f
      <4> QED
        BY <4>1, <4>2
    <3>3. g \in Seq(Symbols)
      BY <1>1, Part
    <3> HIDE DEF f, g
    <3>4. h \in Seq(Symbols) /\ Len(h) >= 3 /\ h[1] = f[1] /\ h[2] = f[2]
      <4>1. /\ f \o pre \in Seq(Symbols) /\ Len(f \o pre) = Len(f) + Len(pre)
            /\ \A i \in 1 .. Len(f) + Len(pre) :
                  (f \o pre)[i] = IF i <= Len(f) THEN f[i] ELSE pre[i - Len(f)]
        BY <3>2, ConcatProperties
      <4>2. 1 \in 1 .. Len(f) + Len(pre) /\ 2 \in 1 .. Len(f) + Len(pre)
        BY <1>1, <3>2
      <4> QED
        BY <1>1, <3>2, <4>1, <4>2
    <3> HIDE DEF h
    <3>5. h \o g \in Seq(Symbols) /\ Len(h \o g) >= 3 /\ (h \o g)[1] = h[1] /\ (h \o g)[2] = h[2]
      <4>1. /\ h \o g \in Seq(Symbols) /\ Len(h \o g) = Len(h) + Len(g)
            /\ \A i \in 1 .. Len(h) + Len(g) :
                  (h \o g)[i] = IF i <= Len(h) THEN h[i] ELSE g[i - Len(h)]
        BY <3>3, <3>4, ConcatProperties
      <4>2. /\ Len(h) \in Nat /\ Len(g) \in Nat
            /\ 1 \in 1 .. Len(h) + Len(g) /\ 2 \in 1 .. Len(h) + Len(g)
        BY <3>3, <3>4
      <4> QED
        BY <3>4, <4>1, <4>2
    <3> QED
      BY <3>1, <3>2, <3>4, <3>5
  <2> QED
    BY <2>1, <2>2
<1>3. pre = <<>> => x = au
  BY DEF Reattach
<1> HIDE DEF x
<1>4. SubSeq(x, 1, Len(AUD)) = AUD
  <2> DEFINE y == SubSeq(x, 1, 2)
  <2>1. y \in Seq(Symbols) /\ Len(y) = 2 /\ y[1] = x[1] /\ y[2] = x[2]
    <3>1. /\ 1 <= 1 /\ 1 <= 2 + 1 /\ 2 <= Len(x) /\ 2 - 1 + 1 = 2
          /\ 1 \in 1 .. 2 /\ 2 \in 1 .. 2 /\ 1 + 1 - 1 = 1 /\ 1 + 2 - 1 = 2
      BY <1>2
    <3>2. /\ y \in Seq(Symbols) /\ Len(y) = 2 - 1 + 1
          /\ \A k \in 1 .. 2 - 1 + 1 : y[k] = x[1 + k - 1]
      BY <1>2, <3>1, Part
    <3> HIDE DEF y
    <3> QED
      BY <3>1, <3>2
  <2>2. AUD \in Seq(Symbols) /\ Len(AUD) = 2
    BY DEF AUD, Symbols
  <2>3. \A k \in 1 .. 2 : k = 1 \/ k = 2
    OBVIOUS
  <2>4. y[1] = AUD[1] /\ y[2] = AUD[2]
    BY <1>2, <2>1
  <2> HIDE DEF y, AUD
  <2>5. y = AUD
    BY <2>1, <2>2, <2>3, <2>4, SeqEqual
  <2> QED
    BY <2>2, <2>5 DEF y
<1> QED
  BY <1>2, <1>3, <1>4 DEF x

\* How many delimiters a part of the stream has that ends at q, from that of
\* frame n+1 on.
LEMMA HowMany ==
  ASSUME NEW stream, NEW off, LaidOut(stream, off), NEW q \in Nat,
         NEW n \in Nat, n <= Len(off)
  PROVE  \E m \in Nat : /\ n + m <= Len(off)
                        /\ m > 0 => off[n + m] < q
                        /\ n + m < Len(off) => q <= off[n + m + 1]
<1> DEFINE S == { m \in Nat : n + m = Len(off) \/ (n + m < Len(off) /\ q <= off[n + m + 1]) }
<1>1. Len(off) \in Nat /\ \A k \in 1 .. Len(off) : off[k] \in Nat
  BY DEF LaidOut
<1>2. Len(off) - n \in S
  BY <1>1
<1>3. S \in SUBSET Nat
  OBVIOUS
<1> HIDE DEF S
<1>4. PICK m \in S : \A k \in S : m <= k
  BY <1>2, <1>3, LeastOf
<1> USE DEF S
<1>5. m \in Nat /\ n + m <= Len(off) /\ (n + m < Len(off) => q <= off[n + m + 1])
  BY <1>1, <1>4
<1>6. ASSUME m > 0 PROVE off[n + m] < q
  <2>1. m - 1 \in Nat /\ ~ (m <= m - 1) /\ n + (m - 1) < Len(off) /\ n + (m - 1) + 1 = n + m
    BY <1>1, <1>5, <1>6
  <2>2. m - 1 \notin S
    BY <1>4, <2>1
  <2>3. ~ (q <= off[n + m])
    BY <2>1, <2>2
  <2>4. off[n + m] \in Nat
    BY <1>1, <1>5, <1>6
  <2> QED
    BY <2>3, <2>4
<1> QED
  BY <1>5, <1>6

\* What is cut from b, the part of the stream from s to q, with delimiters at
\* the places at.
Cutting(stream, off, s, q, n, m, b, at) ==
    /\ LaidOut(stream, off) /\ FramesThere(stream, off)
    /\ Within(stream, off, s, q, n, m)
    /\ layout = "behind" => off[n + 1] = s
    /\ b = SubSeq(stream, s, q)
    /\ DelimitersOf(b, m, at)
    /\ \A j \in 1 .. m : at[j] = off[n + j] - s + 1

\* A unit that is handed on for a frame.
GoodUnit(unit, key) ==
    /\ unit \in Seq(Symbols)
    /\ SubSeq(unit, 1, Len(AUD)) = AUD
    /\ layout = "behind" => unit = Bytes(key)

LEMMA NewUnits ==
  ASSUME NEW stream, NEW off, NEW s, NEW q, NEW n, NEW m, NEW b, NEW at,
         Cutting(stream, off, s, q, n, m, b, at), NEW k \in 1 .. m - 1
  PROVE  GoodUnit(UnitOf(b, at, k), frames[n + k])
<1> USE DEF Cutting
<1>0. /\ s \in Nat /\ q \in Nat /\ 1 <= s /\ s <= q + 1 /\ q <= Len(stream)
      /\ n \in Nat /\ m \in Nat /\ n + m <= Len(off)
      /\ s <= off[n + 1] /\ off[n + m] < q
  <2>1. m \in Nat /\ (m > 0 => s <= off[n + 1] /\ off[n + m] < q)
    BY DEF Within
  <2> QED
    BY <2>1 DEF Within
<1> USE <1>0
<1>1. /\ stream \in Seq(Symbols) /\ Len(stream) \in Nat /\ Len(off) \in Nat
      /\ k \in Nat /\ k \in 1 .. m /\ k + 1 \in 1 .. m /\ 1 \in 1 .. m
      /\ n + k \in 1 .. Len(off) /\ n + k + 1 \in 1 .. Len(off) /\ n + 1 \in 1 .. Len(off)
  <2>1. stream \in Seq(Symbols) /\ off \in Seq(Nat)
    BY DEF LaidOut
  <2>2. Len(stream) \in Nat /\ Len(off) \in Nat
    BY <2>1, LenProperties
  <2>3. /\ k \in Nat /\ k \in 1 .. m /\ k + 1 \in 1 .. m /\ 1 \in 1 .. m
    OBVIOUS
  <2>4. \A l \in Nat : n + m <= l =>
           n + k \in 1 .. l /\ n + k + 1 \in 1 .. l /\ n + 1 \in 1 .. l
    OBVIOUS
  <2> QED
    BY <2>1, <2>2, <2>3, <2>4, Zenon
<1>2. b \in Seq(Symbols) /\ Len(b) = q - s + 1
  BY <1>1, Part
<1>3. PICK o \in Nat, o2 \in Nat, o1 \in Nat :
         o = off[n + k] /\ o2 = off[n + k + 1] /\ o1 = off[n + 1]
  <2>1. off \in Seq(Nat)
    BY DEF LaidOut
  <2>2. off[n + k] \in Nat /\ off[n + k + 1] \in Nat /\ off[n + 1] \in Nat
    BY <1>1, <2>1, ElementOfSeq, Zenon
  <2> QED
    BY <2>2, Zenon
<1>4. /\ o + Lead < o2 /\ 1 <= o /\ o2 <= Len(stream)
      /\ stream[o] = AUD[1] /\ stream[o + 1] = AUD[2]
  <2>1. o + Lead < o2
    <3>1. n + k < n + k + 1
      BY <1>1
    <3> QED
      BY <1>1, <1>3, <3>1, Zenon DEF LaidOut
  <2>2. 1 <= o /\ stream[o + 1] = AUD[2] /\ o2 + Lead <= Len(stream) /\ o + Lead <= Len(stream)
    BY <1>1, <1>3, Zenon DEF LaidOut
  <2>3. o \in 1 .. Len(stream) /\ o2 <= Len(stream)
    BY <1>1, <2>2 DEF Lead
  <2>4. stream[o] = AUD[1]
    BY <1>1, <1>3, <2>3, Zenon DEF LaidOut
  <2> QED
    BY <2>1, <2>2, <2>3, <2>4
<1>5. /\ at[k] = o - s + 1 /\ at[k + 1] = o2 - s + 1 /\ at[1] = o1 - s + 1
      /\ n + (k + 1) = n + k + 1
  <2>1. \A j \in 1 .. m : at[j] = off[n + j] - s + 1
    BY Zenon
  <2>2. n + (k + 1) = n + k + 1
    BY <1>1
  <2>3. /\ at[k] = off[n + k] - s + 1 /\ at[k + 1] = off[n + (k + 1)] - s + 1
        /\ at[1] = off[n + 1] - s + 1
    BY <1>1, <2>1, Zenon
  <2> QED
    BY <1>3, <2>2, <2>3, Zenon
<1>6. /\ at[k] \in 1 .. Len(b) - 1 /\ at[k + 1] \in 1 .. Len(b) - 1 /\ at[1] \in 1 .. Len(b) - 1
  BY <1>1 DEF DelimitersOf
<1> PICK a, a2, a1 : a = at[k] /\ a2 = at[k + 1] /\ a1 = at[1]
  OBVIOUS
<1> DEFINE au == Unit(b, at[k], at[k + 1])
<1>7. au = SubSeq(stream, o, o2 - 1)
  <2>1. /\ a = o - s + 1 /\ a2 = o2 - s + 1
        /\ a \in 1 .. (q - s + 1) - 1 /\ a2 \in 1 .. (q - s + 1) - 1
    BY <1>2, <1>5, <1>6, Zenon
  <2>2. /\ a \in Nat /\ a2 - 1 \in Nat /\ 1 <= a /\ a <= (a2 - 1) + 1 /\ a2 - 1 <= q - s + 1
        /\ s + a - 1 = o /\ s + (a2 - 1) - 1 = o2 - 1
    <3>1. o + 3 < o2
      BY <1>4 DEF Lead
    <3>2. \A x, x2 \in 1 .. (q - s + 1) - 1 :
             x = o - s + 1 /\ x2 = o2 - s + 1 =>
                /\ x \in Nat /\ x2 - 1 \in Nat /\ 1 <= x /\ x <= (x2 - 1) + 1 /\ x2 - 1 <= q - s + 1
                /\ s + x - 1 = o /\ s + (x2 - 1) - 1 = o2 - 1
      BY <3>1
    <3> QED
      BY <2>1, <3>2, Zenon
  <2>3. SubSeq(SubSeq(stream, s, q), a, a2 - 1)
            = SubSeq(stream, s + a - 1, s + (a2 - 1) - 1)
    <3>1. \A i, j \in Nat : 1 <= i /\ i <= j + 1 /\ j <= q - s + 1 =>
             SubSeq(SubSeq(stream, s, q), i, j) = SubSeq(stream, s + i - 1, s + j - 1)
      BY <1>1, PartOfPart
    <3> QED
      BY <2>2, <3>1, Zenon
  <2> QED
    BY <2>2, <2>3, Zenon DEF Unit
<1>8. au \in Seq(Symbols) /\ Len(au) >= Lead /\ au[1] = AUD[1] /\ au[2] = AUD[2]
  <2>1. /\ o2 - 1 \in Nat /\ o <= (o2 - 1) + 1 /\ o2 - 1 <= Len(stream)
        /\ (o2 - 1) - o + 1 >= Lead /\ 1 \in 1 .. (o2 - 1) - o + 1 /\ 2 \in 1 .. (o2 - 1) - o + 1
        /\ o + 1 - 1 = o /\ o + 2 - 1 = o + 1
    BY <1>1, <1>4 DEF Lead
  <2>2. /\ au \in Seq(Symbols) /\ Len(au) = (o2 - 1) - o + 1
        /\ \A i \in 1 .. (o2 - 1) - o + 1 : au[i] = stream[o + i - 1]
    <3>1. \A j \in Nat : o <= j + 1 /\ j <= Len(stream) =>
             /\ SubSeq(stream, o, j) \in Seq(Symbols) /\ Len(SubSeq(stream, o, j)) = j - o + 1
             /\ \A i \in 1 .. j - o + 1 : SubSeq(stream, o, j)[i] = stream[o + i - 1]
      <4>1. stream \in Seq(Symbols) /\ 1 <= o
        BY <1>1, <1>4
      <4> QED
        BY <4>1, Part
    <3>2. /\ SubSeq(stream, o, o2 - 1) \in Seq(Symbols)
          /\ Len(SubSeq(stream, o, o2 - 1)) = (o2 - 1) - o + 1
          /\ \A i \in 1 .. (o2 - 1) - o + 1 : SubSeq(stream, o, o2 - 1)[i] = stream[o + i - 1]
      BY <2>1, <3>1, Zenon
    <3> QED
      BY <1>7, <3>2, Zenon
  <2> HIDE DEF au
  <2> QED
    BY <1>4, <2>1, <2>2
<1> DEFINE pre == IF k = 1 THEN SubSeq(b, 1, at[1] - 1) ELSE <<>>
<1>9. pre \in Seq(Symbols) /\ (layout = "behind" => pre = <<>>)
  <2>1. SubSeq(b, 1, at[1] - 1) \in Seq(Symbols)
    <3>1. at[1] - 1 \in Nat /\ 1 <= (at[1] - 1) + 1 /\ at[1] - 1 <= Len(b) /\ 1 <= 1
      <4>1. \A i \in 1 .. Len(b) - 1 : i - 1 \in Nat /\ 1 <= (i - 1) + 1 /\ i - 1 <= Len(b) /\ 1 <= 1
        <5>1. Len(b) \in Nat
          BY <1>2, LenProperties
        <5> QED
          BY <5>1
      <4> QED
        BY <1>6, <4>1, Zenon
    <3> QED
      BY <1>2, <3>1, Part
  <2>2. layout = "behind" => SubSeq(b, 1, at[1] - 1) = <<>>
    <3>1. layout = "behind" => at[1] - 1 = 0
      <4>1. layout = "behind" => o1 = s
        BY <1>3, Zenon
      <4> QED
        BY <1>5, <4>1
    <3>2. SubSeq(b, 1, 0) = <<>>
      BY SubSeqEmpty
    <3> QED
      BY <3>1, <3>2
  <2>3. <<>> \in Seq(Symbols)
    OBVIOUS
  <2> QED
    BY <2>1, <2>2, <2>3
<1>10. UnitOf(b, at, k) = Reattach(pre, au)
  BY DEF UnitOf
<1> HIDE DEF pre, au
<1>11. layout = "behind" => au = Bytes(frames[n + k])
  <2> SUFFICES ASSUME layout = "behind" PROVE au = Bytes(frames[n + k])
    OBVIOUS
  <2>1. n + k # Len(off)
    BY <1>1
  <2>2. SubSeq(stream, off[n + k], Until(stream, off, n + k)) = Bytes(frames[n + k])
    BY <1>1, Zenon DEF FramesThere
  <2>3. Until(stream, off, n + k) = o2 - 1
    BY <1>3, <2>1 DEF Until
  <2> QED
    BY <1>3, <1>7, <2>2, <2>3
<1>12. /\ Reattach(pre, au) \in Seq(Symbols)
       /\ SubSeq(Reattach(pre, au), 1, Len(AUD)) = AUD
       /\ pre = <<>> => Reattach(pre, au) = au
  BY <1>8, <1>9, ReattachIs
<1>13. UnitOf(b, at, k) = Reattach(pre, au)
  BY <1>10
<1> HIDE DEF pre, au
<1> QED
  BY <1>9, <1>11, <1>12, <1>13, Zenon DEF GoodUnit

LEMMA ReadStep ==
  ASSUME UnitsInv, NEW cnt \in 1 .. Len(pipe), Read(cnt)
  PROVE  UnitsInv'
<1> PICK stream, off, s, p :
         LaidOut(stream, off) /\ FramesThere(stream, off) /\ Held(stream, off, s, p)
  BY DEF UnitsInv
<1> PICK n : n = Len(units)
  OBVIOUS
<1>0. PICK b : b = buf \o SubSeq(pipe, 1, cnt)
  OBVIOUS
<1> DEFINE L == Len(stream)
           q == p + cnt
<1>1. /\ pipe' = SubSeq(pipe, cnt + 1, Len(pipe)) /\ buf' = Split(b).rest
      /\ units' = units \o [k \in DOMAIN Split(b).units |->
                               [au |-> Split(b).units[k], sync |-> IsSync(Split(b).units[k])]]
      /\ UNCHANGED <<layout, frames, reader>>
  BY <1>0 DEF Read
<1>2. /\ stream \in Seq(Symbols) /\ L \in Nat /\ off \in Seq(Nat) /\ Len(off) \in Nat
      /\ Len(off) = Len(frames) /\ \A k \in 1 .. Len(off) : off[k] \in Nat /\ 1 <= off[k]
      /\ \A j, k \in 1 .. Len(off) : j < k => off[j] + 3 < off[k]
  <2>1. stream \in Seq(Symbols) /\ off \in Seq(Nat) /\ Len(off) = Len(frames)
    BY DEF LaidOut
  <2>2. \A k \in 1 .. Len(off) : off[k] \in Nat /\ 1 <= off[k]
    BY <2>1 DEF LaidOut
  <2>3. \A j, k \in 1 .. Len(off) : j < k => off[j] + 3 < off[k]
    BY DEF LaidOut, Lead
  <2> QED
    BY <2>1, <2>2, <2>3
<1>3. /\ n \in Nat /\ DOMAIN units = 1 .. n
      /\ units \in Seq([au : Seq(Symbols), sync : BOOLEAN])
  BY UnitsBehind DEF UnitsInv, HandedOn
<1>4. /\ s \in Nat /\ 1 <= s /\ p \in Nat /\ s <= p + 1 /\ p <= L
      /\ buf = SubSeq(stream, s, p) /\ pipe = SubSeq(stream, p + 1, L)
  BY DEF Held
<1>5. \/ s = 1 /\ units = <<>> /\ n = 0 /\ (off # <<>> => p <= off[1])
      \/ n + 1 <= Len(off) /\ s = off[n + 1] /\ s < p
  BY DEF Held
<1>6. Len(pipe) = L - p /\ cnt \in Nat /\ 1 <= cnt /\ cnt <= L - p
  <2>1. p + 1 \in Nat /\ 1 <= p + 1 /\ p + 1 <= L + 1 /\ L <= L /\ L - (p + 1) + 1 = L - p
    BY <1>2, <1>4
  <2>2. Len(SubSeq(stream, p + 1, L)) = L - (p + 1) + 1
    BY <1>2, <2>1, Part, Zenon
  <2>3. Len(pipe) = L - p
    BY <1>4, <2>1, <2>2, Zenon
  <2> QED
    BY <1>2, <1>4, <2>3
<1>7. q \in Nat /\ q <= L /\ s <= q + 1 /\ p < q
  BY <1>2, <1>4, <1>6
<1>8. b = SubSeq(stream, s, q)
  <2>1. SubSeq(pipe, 1, cnt) = SubSeq(stream, p + 1, q)
    <3>1. 1 \in Nat /\ 1 <= 1 /\ 1 <= cnt + 1
      BY <1>6
    <3>2. SubSeq(SubSeq(stream, p + 1, L), 1, cnt) = SubSeq(stream, p + 1, p + cnt)
      BY <1>2, <1>4, <1>6, <3>1, PartOfRest
    <3> QED
      BY <1>4, <3>2, Zenon
  <2>2. SubSeq(stream, s, p) \o SubSeq(stream, p + 1, q) = SubSeq(stream, s, q)
    <3>1. p <= q
      BY <1>4, <1>7
    <3> HIDE DEF q
    <3> QED
      BY <1>2, <1>4, <1>7, <3>1, PartsJoin
  <2> QED
    BY <1>0, <1>4, <2>1, <2>2
<1>9. pipe' = SubSeq(stream, q + 1, L)
  <2>1. PICK i, j : i = cnt + 1 /\ j = L - p
    OBVIOUS
  <2>2. i \in Nat /\ j \in Nat /\ 1 <= i /\ i <= j + 1 /\ j <= L - p /\ p + i = q + 1 /\ p + j = L
    BY <1>2, <1>4, <1>6, <2>1
  <2>3. SubSeq(SubSeq(stream, p + 1, L), i, j) = SubSeq(stream, p + i, p + j)
    BY <1>2, <1>4, <2>2, PartOfRest
  <2> QED
    BY <1>1, <1>4, <1>6, <2>1, <2>2, <2>3, Zenon
<1> HIDE DEF q
<1>10. n <= Len(off)
  BY <1>2, <1>3, <1>5
<1>11. PICK m \in Nat : /\ n + m <= Len(off)
                        /\ m > 0 => off[n + m] < q
                        /\ n + m < Len(off) => q <= off[n + m + 1]
  BY <1>3, <1>7, <1>10, HowMany
<1>12. n > 0 => off[n] < s
  <2> SUFFICES ASSUME n > 0 PROVE off[n] < s
    OBVIOUS
  <2>1. n + 1 <= Len(off) /\ s = off[n + 1]
    BY <1>3, <1>5
  <2>2. n \in 1 .. Len(off) /\ n + 1 \in 1 .. Len(off) /\ n < n + 1
    BY <1>2, <1>3, <2>1
  <2>3. off[n] + 3 < off[n + 1] /\ off[n] \in Nat
    BY <1>2, <2>2
  <2> QED
    BY <1>4, <2>1, <2>3
<1>13. m > 0 => s <= off[n + 1]
  <2>1. m > 0 => n + 1 \in 1 .. Len(off)
    BY <1>2, <1>3, <1>11
  <2> QED
    BY <1>2, <1>4, <1>5, <2>1
<1>14. Within(stream, off, s, q, n, m)
  BY <1>3, <1>4, <1>7, <1>11, <1>12, <1>13 DEF Within
<1>15. PICK at : DelimitersOf(b, m, at) /\ \A k \in 1 .. m : at[k] = off[n + k] - s + 1
  <2>1. PICK x : /\ DelimitersOf(SubSeq(stream, s, q), m, x)
                 /\ \A k \in 1 .. m : x[k] = off[n + k] - s + 1
    BY <1>14, DelimitersInPart
  <2>2. DelimitersOf(b, m, x)
    BY <1>8, <2>1, Zenon
  <2> QED
    BY <2>1, <2>2, Zenon
<1>16. b \in Seq(Symbols) /\ Len(b) = q - s + 1
  <2>1. /\ SubSeq(stream, s, q) \in Seq(Symbols)
        /\ Len(SubSeq(stream, s, q)) = q - s + 1
    BY <1>2, <1>4, <1>7, Part
  <2> QED
    BY <1>8, <2>1, Zenon
<1>17. Split(b) = IF m = 0 THEN [units |-> <<>>, rest |-> b]
                  ELSE [units |-> [k \in 1 .. m - 1 |-> UnitOf(b, at, k)],
                        rest  |-> SubSeq(b, at[m], Len(b))]
  BY <1>15, <1>16, SplitIsSound
<1>18. LaidOut(stream, off)' /\ FramesThere(stream, off)'
  BY <1>1, Zenon DEF LaidOut, FramesThere, Bytes
<1>19. layout' \in Layouts /\ frames' \in Seq(BOOLEAN) /\ Len(frames') <= MaxFrames
       /\ reader' \in {"reading", "ended"}
  BY <1>1 DEF UnitsInv
<1>20. ASSUME NEW t, Held(stream, off, t, q)', HandedOn' PROVE UnitsInv'
  <2>1. (\E x, o, i, j : LaidOut(x, o) /\ FramesThere(x, o) /\ Held(x, o, i, j))'
    BY <1>18, <1>20, Zenon
  <2> QED
    BY <1>19, <1>20, <2>1 DEF UnitsInv
<1>21. CASE m = 0
  <2>1. units' = units /\ buf' = b
    <3>1. Split(b).units = <<>> /\ Split(b).rest = b
      BY <1>17, <1>21
    <3>2. [k \in DOMAIN <<>> |-> [au |-> <<>>[k], sync |-> IsSync(<<>>[k])]] = <<>>
      OBVIOUS
    <3>3. units' = units \o <<>>
      BY <1>1, <3>1, <3>2
    <3> QED
      BY <1>1, <1>3, <3>1, <3>3, ConcatEmptySeq
  <2>2. ~ (n + 1 <= Len(off) /\ s = off[n + 1] /\ s < p)
    <3> SUFFICES ASSUME n + 1 <= Len(off), s = off[n + 1], s < p PROVE FALSE
      OBVIOUS
    <3>1. n + m < Len(off) /\ n + m + 1 = n + 1
      BY <1>2, <1>3, <1>21
    <3>2. q <= s
      BY <1>11, <3>1
    <3> QED
      BY <1>4, <1>7, <3>2
  <2>3. s = 1 /\ units = <<>> /\ n = 0
    BY <1>5, <2>2
  <2>4. off # <<>> => q <= off[1]
    <3>1. off # <<>> => n + m < Len(off) /\ n + m + 1 = 1
      BY <1>2, <1>21, <2>3
    <3> QED
      BY <1>11, <3>1
  <2>5. n + 2 <= Len(off) => q <= off[n + 2]
    <3> SUFFICES ASSUME 2 <= Len(off) PROVE q <= off[2]
      BY <2>3
    <3>1. 1 \in 1 .. Len(off) /\ 2 \in 1 .. Len(off) /\ off # <<>>
      BY <1>2
    <3>2. off[1] + 3 < off[2] /\ off[1] \in Nat /\ off[2] \in Nat
      BY <1>2, <3>1
    <3> QED
      BY <1>7, <2>4, <3>1, <3>2
  <2>6. Held(stream, off, s, q)'
    BY <1>4, <1>7, <1>8, <1>9, <2>1, <2>3, <2>4, <2>5 DEF Held
  <2>7. HandedOn'
    BY <1>1, <2>1, Zenon DEF UnitsInv, HandedOn, UnitsLeadWithDelimiter, UnitsAreFrames, Bytes
  <2> QED
    BY <1>20, <2>6, <2>7
<1>22. CASE m # 0
  <2> DEFINE cut == [k \in 1 .. m - 1 |-> UnitOf(b, at, k)]
             new == [k \in 1 .. m - 1 |-> [au |-> cut[k], sync |-> IsSync(cut[k])]]
  <2>1. /\ m \in 1 .. m /\ 1 \in 1 .. m /\ m - 1 \in Nat /\ m > 0
        /\ n + m \in 1 .. Len(off) /\ n + 1 \in 1 .. Len(off)
    BY <1>2, <1>3, <1>11, <1>22
  <2>2. buf' = SubSeq(stream, off[n + m], q)
    <3>1. at[m] = off[n + m] - s + 1 /\ off[n + m] \in Nat /\ off[n + m] < q
      BY <1>2, <1>11, <1>15, <2>1
    <3>2. at[m] \in 1 .. Len(b) - 1
      BY <1>15, <2>1 DEF DelimitersOf
    <3>3. PICK a, o : a = at[m] /\ o = off[n + m]
      OBVIOUS
    <3>4. /\ a \in Nat /\ q - s + 1 \in Nat /\ 1 <= a /\ a <= (q - s + 1) + 1
          /\ q - s + 1 <= q - s + 1
          /\ s + a - 1 = o /\ s + (q - s + 1) - 1 = q
      <4>1. a \in 1 .. (q - s + 1) - 1 /\ a = o - s + 1 /\ o \in Nat
        BY <1>16, <3>1, <3>2, <3>3, Zenon
      <4>2. \A x \in 1 .. (q - s + 1) - 1, y \in Nat : x = y - s + 1 =>
               /\ x \in Nat /\ q - s + 1 \in Nat /\ 1 <= x /\ x <= (q - s + 1) + 1
               /\ q - s + 1 <= q - s + 1
               /\ s + x - 1 = y /\ s + (q - s + 1) - 1 = q
        BY <1>4, <1>7
      <4> QED
        BY <4>1, <4>2, Zenon
    <3>5. SubSeq(SubSeq(stream, s, q), a, q - s + 1) = SubSeq(stream, s + a - 1, s + (q - s + 1) - 1)
      <4>1. \A i, j \in Nat : 1 <= i /\ i <= j + 1 /\ j <= q - s + 1 =>
               SubSeq(SubSeq(stream, s, q), i, j) = SubSeq(stream, s + i - 1, s + j - 1)
        BY <1>2, <1>4, <1>7, PartOfPart
      <4> QED
        BY <3>4, <4>1, Zenon
    <3>6. buf' = SubSeq(b, at[m], Len(b))
      <4>1. Split(b).rest = SubSeq(b, at[m], Len(b))
        <5> DEFINE us   == [k \in 1 .. m - 1 |-> UnitOf(b, at, k)]
                   rest == SubSeq(b, at[m], Len(b))
        <5>1. Split(b) = [units |-> us, rest |-> rest]
          BY <1>17, <1>22, Zenon
        <5> HIDE DEF us, rest
        <5>2. Split(b).rest = rest
          BY <5>1
        <5> QED
          BY <5>2 DEF rest
      <4> QED
        BY <1>1, <4>1, Zenon
    <3> QED
      BY <1>8, <1>16, <3>3, <3>4, <3>5, <3>6, Zenon
  <2>3. layout = "behind" => off[n + 1] = s
    <3> SUFFICES ASSUME layout = "behind", s = 1, n = 0 PROVE off[n + 1] = s
      BY <1>5
    <3>1. off # <<>>
      BY <2>1
    <3> QED
      BY <3>1 DEF FramesThere
  <2>4. ASSUME NEW k \in 1 .. m - 1
        PROVE  /\ cut[k] \in Seq(Symbols) /\ SubSeq(cut[k], 1, Len(AUD)) = AUD
               /\ layout = "behind" => cut[k] = Bytes(frames[n + k])
    <3>2. Cutting(stream, off, s, q, n, m, b, at)
      BY <1>8, <1>14, <1>15, <2>3, Zenon DEF Cutting
    <3>3. GoodUnit(UnitOf(b, at, k), frames[n + k])
      BY <3>2, NewUnits, Zenon
    <3>4. cut[k] = UnitOf(b, at, k)
      OBVIOUS
    <3> HIDE DEF cut
    <3> QED
      BY <3>3, <3>4, Zenon DEF GoodUnit
  <2>5. units' = units \o new
    <3>1. Split(b).units = cut
      BY <1>17, <1>22
    <3> HIDE DEF cut
    <3>2. DOMAIN cut = 1 .. m - 1
      BY DEF cut
    <3> QED
      BY <1>1, <3>1, <3>2
  <2>6. new \in Seq([au : Seq(Symbols), sync : BOOLEAN]) /\ Len(new) = m - 1
    <3>1. ASSUME NEW k \in 1 .. m - 1
          PROVE  [au |-> cut[k], sync |-> IsSync(cut[k])] \in [au : Seq(Symbols), sync : BOOLEAN]
      <4>1. IsSync(cut[k]) \in BOOLEAN
        BY Zenon DEF IsSync, Contains
      <4> QED
        BY <2>4, <3>1, <4>1, Zenon
    <3> HIDE DEF cut
    <3> DEFINE T == [au : Seq(Symbols), sync : BOOLEAN]
    <3>2. new \in [1 .. m - 1 -> T]
      BY <3>1, Zenon
    <3> HIDE DEF T
    <3>3. new \in Seq(T) /\ Len(new) = m - 1
      BY <2>1, <3>2
    <3> QED
      BY <3>3 DEF T
  <2>7. \A k \in 1 .. m - 1 : new[k].au = cut[k] /\ new[k].sync = IsSync(cut[k])
    BY Zenon
  <2> HIDE DEF new, cut
  <2>8. /\ units' \in Seq([au : Seq(Symbols), sync : BOOLEAN])
        /\ Len(units') = n + (m - 1) /\ DOMAIN units' = 1 .. n + (m - 1)
        /\ \A k \in 1 .. n + (m - 1) : units'[k] = IF k <= n THEN units[k] ELSE new[k - n]
    <3> DEFINE T == [au : Seq(Symbols), sync : BOOLEAN]
    <3>1. units \in Seq(T) /\ new \in Seq(T)
      BY <1>3, <2>6, Zenon
    <3> HIDE DEF T
    <3>2. /\ units \o new \in Seq(T) /\ Len(units \o new) = n + (m - 1)
          /\ \A k \in 1 .. n + (m - 1) : (units \o new)[k] = IF k <= n THEN units[k] ELSE new[k - n]
      BY <2>6, <3>1, ConcatProperties
    <3>3. DOMAIN (units \o new) = 1 .. n + (m - 1)
      BY <3>2, LenProperties
    <3> QED
      BY <2>5, <3>2, <3>3, Zenon DEF T
  <2>9. Held(stream, off, off[n + m], q)'
    <3>1. off[n + m] \in Nat /\ 1 <= off[n + m] /\ off[n + m] < q
      BY <1>2, <1>11, <2>1
    <3>2. /\ Len(units') + 1 = n + m /\ Len(units') + 2 = n + m + 1 /\ n + m <= Len(off)
          /\ n + m + 1 <= Len(off) => n + m < Len(off)
      <4>1. PICK u : u = Len(units')
        OBVIOUS
      <4>2. u = n + (m - 1)
        BY <2>8, <4>1, Zenon
      <4>3. /\ u + 1 = n + m /\ u + 2 = n + m + 1 /\ n + m <= Len(off)
            /\ n + m + 1 <= Len(off) => n + m < Len(off)
        BY <1>2, <1>3, <1>11, <2>1, <4>2
      <4> QED
        BY <4>1, <4>3, Zenon
    <3>3. off[n + m] <= q + 1
      BY <1>7, <3>1
    <3> QED
      BY <1>7, <1>9, <1>11, <2>2, <3>1, <3>2, <3>3, Zenon DEF Held
  <2>10. ASSUME NEW k \in 1 .. n + (m - 1)
         PROVE  \/ k \in 1 .. n /\ units'[k] = units[k]
                \/ /\ k - n \in 1 .. m - 1 /\ n + (k - n) = k
                   /\ units'[k] = new[k - n]
    <3>1. n \in Nat /\ m \in Nat
      BY <1>3
    <3>2. \/ k <= n /\ k \in 1 .. n
          \/ ~ (k <= n) /\ k - n \in 1 .. m - 1 /\ n + (k - n) = k
      BY <3>1
    <3>3. units'[k] = IF k <= n THEN units[k] ELSE new[k - n]
      BY <2>8, Zenon
    <3> QED
      BY <3>2, <3>3, Zenon
  <2>11. UnitsLeadWithDelimiter'
    <3>1. ASSUME NEW k \in 1 .. n + (m - 1) PROVE SubSeq(units'[k].au, 1, Len(AUD)) = AUD
      <4>1. CASE k \in 1 .. n /\ units'[k] = units[k]
        BY <1>3, <4>1 DEF UnitsInv, HandedOn, UnitsLeadWithDelimiter
      <4>2. CASE k - n \in 1 .. m - 1 /\ units'[k] = new[k - n]
        BY <2>4, <2>7, <4>2
      <4> QED
        BY <2>10, <4>1, <4>2
    <3> QED
      BY <2>8, <3>1 DEF UnitsLeadWithDelimiter
  <2>12. UnitsAreFrames'
    <3> SUFFICES ASSUME layout = "behind", NEW k \in 1 .. n + (m - 1)
                 PROVE  units'[k] = [au |-> Bytes(frames[k]), sync |-> frames[k]]
      BY <1>1, <2>8, Zenon DEF UnitsAreFrames, Bytes
    <3>1. CASE k \in 1 .. n /\ units'[k] = units[k]
      BY <1>3, <3>1, Zenon DEF UnitsInv, HandedOn, UnitsAreFrames
    <3>2. CASE k - n \in 1 .. m - 1 /\ n + (k - n) = k /\ units'[k] = new[k - n]
      <4>1. new[k - n] = [au |-> cut[k - n], sync |-> IsSync(cut[k - n])]
        BY <3>2, Zenon DEF new
      <4>2. cut[k - n] = Bytes(frames[k])
        BY <2>4, <3>2
      <4>3. frames[k] \in BOOLEAN
        <5>1. k \in 1 .. Len(frames)
          BY <1>2, <1>3, <2>1
        <5>2. frames \in Seq(BOOLEAN)
          BY DEF UnitsInv
        <5> QED
          BY <5>1, <5>2, ElementOfSeq
      <4>4. IsSync(Bytes(frames[k])) = frames[k]
        BY <4>3, SyncIsKey
      <4> QED
        BY <3>2, <4>1, <4>2, <4>4, Zenon
    <3> QED
      BY <2>10, <3>1, <3>2
  <2> QED
    BY <1>20, <2>8, <2>9, <2>11, <2>12 DEF HandedOn
<1> QED
  BY <1>21, <1>22

----------------------------------------------------------------------------
(* What the runs check, for every value of the constants.                  *)

LEMMA Invariant == Spec => []UnitsInv
<1>1. Init => UnitsInv
  BY UnitsInit
<1>2. UnitsInv /\ [Next]_vars => UnitsInv'
  <2> SUFFICES ASSUME UnitsInv, [Next]_vars PROVE UnitsInv'
    OBVIOUS
  <2>1. ASSUME NEW key \in BOOLEAN, Encode(key) PROVE UnitsInv'
    BY <2>1, EncodeStep
  <2>2. ASSUME NEW n \in 1 .. Len(pipe), Read(n) PROVE UnitsInv'
    BY <2>2, ReadStep
  <2>3. ASSUME UNCHANGED <<layout, frames, pipe, buf, units>>,
               reader' \in {"reading", "ended"}
        PROVE  UnitsInv'
    <3> PICK stream, off, s, p :
             LaidOut(stream, off) /\ FramesThere(stream, off) /\ Held(stream, off, s, p)
      BY DEF UnitsInv
    <3>1. (LaidOut(stream, off) /\ FramesThere(stream, off) /\ Held(stream, off, s, p))'
      BY <2>3, Zenon DEF LaidOut, FramesThere, Held, Bytes
    <3>2. (\E x, o, i, j : LaidOut(x, o) /\ FramesThere(x, o) /\ Held(x, o, i, j))'
      BY <3>1, Zenon
    <3>3. HandedOn'
      BY <2>3, Zenon DEF UnitsInv, HandedOn, UnitsLeadWithDelimiter, UnitsAreFrames, Bytes
    <3> QED
      BY <2>3, <3>2, <3>3, Zenon DEF UnitsInv
  <2>4. CASE EndOfFile
    BY <2>3, <2>4 DEF EndOfFile
  <2>5. CASE UNCHANGED vars
    BY <2>3, <2>5 DEF vars, UnitsInv
  <2> QED
    BY <2>1, <2>2, <2>4, <2>5 DEF Next
<1> QED
  BY <1>1, <1>2, PTL DEF Spec

\* What the reader holds has one delimiter at most, at its start.
LEMMA AtMostOneHeld ==
  ASSUME NEW stream, NEW off, NEW s, NEW p, UnitsInv,
         LaidOut(stream, off), Held(stream, off, s, p)
  PROVE  \E m \in {0, 1} : Within(stream, off, s, p, Len(units), m)
<1> PICK n : n = Len(units)
  OBVIOUS
<1>1. n \in Nat /\ (units = <<>> => n = 0)
  BY UnitsBehind
<1>2. /\ off \in Seq(Nat) /\ Len(off) \in Nat /\ \A k \in 1 .. Len(off) : off[k] \in Nat
      /\ \A j, k \in 1 .. Len(off) : j < k => off[j] + 3 < off[k]
  BY DEF LaidOut, Lead
<1>3. /\ s \in Nat /\ 1 <= s /\ p \in Nat /\ s <= p + 1 /\ p <= Len(stream)
      /\ n + 2 <= Len(off) => p <= off[n + 2]
  BY DEF Held
<1>4. CASE s = 1 /\ units = <<>> /\ (off # <<>> => p <= off[1])
  <2>1. n + 0 < Len(off) => p <= off[n + 0 + 1]
    BY <1>1, <1>2, <1>4
  <2>2. Within(stream, off, s, p, n, 0)
    BY <1>1, <1>2, <1>3, <1>4, <2>1 DEF Within
  <2> QED
    BY <2>2
<1>5. CASE n + 1 <= Len(off) /\ s = off[n + 1] /\ s < p
  <2>1. n > 0 => off[n] < s
    <3> SUFFICES ASSUME n > 0 PROVE off[n] < s
      OBVIOUS
    <3>1. n \in 1 .. Len(off) /\ n + 1 \in 1 .. Len(off) /\ n < n + 1
      BY <1>1, <1>2, <1>5
    <3>2. off[n] + 3 < off[n + 1] /\ off[n] \in Nat
      BY <1>2, <3>1
    <3> QED
      BY <1>3, <1>5, <3>2
  <2>2. n + 1 < Len(off) => p <= off[n + 1 + 1]
    <3>1. n + 1 + 1 = n + 2 /\ (n + 1 < Len(off) => n + 2 <= Len(off))
      BY <1>1, <1>2
    <3> QED
      BY <1>3, <3>1, Zenon
  <2>3. Within(stream, off, s, p, n, 1)
    BY <1>1, <1>2, <1>3, <1>5, <2>1, <2>2 DEF Within
  <2> QED
    BY <2>3
<1> QED
  BY <1>4, <1>5 DEF Held

\* The type invariant; part of it is that the reader never holds a unit that it
\* could hand on, so that split_access_units leaves at most one in buf.
THEOREM TypeCorrect == Spec => []TypeOK
<1>1. UnitsInv => TypeOK
  <2> SUFFICES ASSUME UnitsInv PROVE TypeOK
    OBVIOUS
  <2> PICK stream, off, s, p :
           LaidOut(stream, off) /\ FramesThere(stream, off) /\ Held(stream, off, s, p)
    BY DEF UnitsInv
  <2>1. PICK n, m : m \in {0, 1} /\ Within(stream, off, s, p, n, m)
    BY AtMostOneHeld
  <2>2. /\ stream \in Seq(Symbols) /\ Len(stream) \in Nat
        /\ s \in Nat /\ 1 <= s /\ p \in Nat /\ s <= p + 1 /\ p <= Len(stream)
    BY DEF LaidOut, Held
  <2>3. buf = SubSeq(stream, s, p) /\ pipe = SubSeq(stream, p + 1, Len(stream))
    BY DEF Held
  <2>4. buf \in Seq(Symbols)
    BY <2>2, <2>3, Part
  <2>5. pipe \in Seq(Symbols)
    <3>1. /\ p + 1 \in Nat /\ 1 <= p + 1 /\ p + 1 <= Len(stream) + 1
          /\ Len(stream) <= Len(stream)
      BY <2>2
    <3>2. SubSeq(stream, p + 1, Len(stream)) \in Seq(Symbols)
      BY <2>2, <3>1, Part
    <3> QED
      BY <2>3, <3>2, Zenon
  <2>6. Split(buf).units = <<>>
    <3>1. Within(stream, off, s, p, n, m)
      BY <2>1
    <3>2. PICK at : DelimitersOf(buf, m, at)
      BY <2>3, <3>1, DelimitersInPart, Zenon
    <3> DEFINE cut == [k \in 1 .. m - 1 |-> UnitOf(buf, at, k)]
               rest == SubSeq(buf, at[m], Len(buf))
    <3>3. Split(buf) = IF m = 0 THEN [units |-> <<>>, rest |-> buf]
                       ELSE [units |-> cut, rest |-> rest]
      BY <2>1, <2>4, <3>2, SplitIsSound
    <3>4. m = 1 => cut = <<>>
      OBVIOUS
    <3> HIDE DEF cut, rest
    <3> QED
      BY <2>1, <3>3, <3>4
  <2> QED
    BY <2>4, <2>5, <2>6 DEF TypeOK, UnitsInv, HandedOn
<1> QED
  BY <1>1, Invariant, PTL

\* However the stream of an encoder with parameter sets behind the delimiter is
\* cut into reads, the units handed on are its frames, and is_sync marks the
\* keyframes among them.
THEOREM FramesHandedOn == Spec => []UnitsAreFrames
<1>1. UnitsInv => UnitsAreFrames
  BY DEF UnitsInv, HandedOn
<1> QED
  BY <1>1, Invariant, PTL

\* Every unit handed on starts with its delimiter, in either layout.
THEOREM UnitsLead == Spec => []UnitsLeadWithDelimiter
<1>1. UnitsInv => UnitsLeadWithDelimiter
  BY DEF UnitsInv, HandedOn
<1> QED
  BY <1>1, Invariant, PTL

\* A reader that has read all there is has handed on every frame but the last.
THEOREM LastHeldBack == Spec => []OnlyLastHeldBack
<1>1. UnitsInv => OnlyLastHeldBack
  <2> SUFFICES ASSUME UnitsInv, pipe = <<>>, frames # <<>>
               PROVE  Len(units) = Len(frames) - 1
    BY DEF OnlyLastHeldBack
  <2> PICK stream, off, s, p :
           LaidOut(stream, off) /\ FramesThere(stream, off) /\ Held(stream, off, s, p)
    BY DEF UnitsInv
  <2> PICK n : n = Len(units)
    OBVIOUS
  <2>1. n \in Nat
    BY UnitsBehind
  <2>2. /\ stream \in Seq(Symbols) /\ Len(stream) \in Nat /\ off \in Seq(Nat)
        /\ Len(off) \in Nat /\ Len(off) = Len(frames)
        /\ \A k \in 1 .. Len(off) : off[k] \in Nat /\ off[k] + 3 <= Len(stream)
    BY DEF LaidOut, Lead
  <2>3. Len(frames) \in Nat /\ Len(frames) # 0
    BY DEF UnitsInv
  <2>4. p \in Nat /\ p <= Len(stream) /\ pipe = SubSeq(stream, p + 1, Len(stream))
    BY DEF Held
  <2>5. p = Len(stream)
    <3>1. /\ p + 1 \in Nat /\ 1 <= p + 1 /\ p + 1 <= Len(stream) + 1
          /\ Len(stream) <= Len(stream) /\ Len(stream) - (p + 1) + 1 = Len(stream) - p
      BY <2>2, <2>4
    <3>2. Len(SubSeq(stream, p + 1, Len(stream))) = Len(stream) - (p + 1) + 1
      BY <2>2, <3>1, Part
    <3>3. Len(pipe) = 0
      OBVIOUS
    <3>4. Len(pipe) = Len(stream) - p
      BY <2>4, <3>1, <3>2, Zenon
    <3>5. p \in Nat /\ p <= Len(stream)
      BY <2>4
    <3> QED
      BY <2>2, <3>3, <3>4, <3>5
  <2>6. \A k \in 1 .. Len(off) : ~ (p <= off[k])
    BY <2>2, <2>5
  <2>7. off # <<>> /\ 1 \in 1 .. Len(off)
    BY <2>2, <2>3
  <2>8. n + 1 <= Len(off)
    BY <2>6, <2>7 DEF Held
  <2>9. ~ (n + 2 <= Len(off))
    <3> SUFFICES ASSUME n + 2 <= Len(off) PROVE FALSE
      OBVIOUS
    <3>1. n + 2 \in 1 .. Len(off) /\ p <= off[n + 2]
      BY <2>1, <2>2 DEF Held
    <3> QED
      BY <2>6, <3>1
  <2> QED
    BY <2>1, <2>2, <2>8, <2>9
<1> QED
  BY <1>1, Invariant, PTL

=============================================================================
