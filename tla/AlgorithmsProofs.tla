-------------------------- MODULE AlgorithmsProofs --------------------------
(***************************************************************************)
(* What operators of Labels, Matching, ToolCalls and Chat do for every     *)
(* input. Most are folds over sequences: a fold is shown to be what its    *)
(* accumulator is after the last of its steps (FoldDefined, FoldRuns), and *)
(* what holds of that after each step is said by a predicate on the number *)
(* of steps (Reached, Pulled, Sorted, ...), proved as the least step after *)
(* which it does not hold. Each part has its theorems at its end.          *)
(***************************************************************************)
EXTENDS Labels, Matching, ToolCalls, Chat, FiniteSetTheorems, WellFoundedInduction, TLAPS

-----------------------------------------------------------------------------
(* Folds. FoldLeft is a function on the sets of positions of its sequence;   *)
(* what it is on the first k of them is its value after k steps.             *)

\* A set of numbers has a least: what an induction over steps is made of here.
LEMMA Least ==
  ASSUME NEW S \in SUBSET Nat, S # {}
  PROVE  \E x \in S : \A y \in S : x <= y
<1>1. \E x \in S : \A y \in S : ~ (<<y, x>> \in OpToRel(<, Nat))
  BY NatLessThanWellFounded, WFMin
<1>2. PICK x \in S : \A y \in S : ~ (<<y, x>> \in OpToRel(<, Nat))
  BY <1>1
<1>3. \A y \in S : ~(y < x)
  BY <1>2 DEF OpToRel
<1> QED
  BY <1>3

\* What holds at first and, when it holds after a step, after the next, holds at last;
\* here of the steps after which it does not.
LEMMA Steps ==
  ASSUME NEW n \in Nat, NEW S \in SUBSET (0 .. n), 0 \notin S,
         \A k \in 1 .. n : k \in S => k - 1 \in S
  PROVE  S = {}
<1> SUFFICES ASSUME S # {} PROVE FALSE
  OBVIOUS
<1>1. S \in SUBSET Nat
  OBVIOUS
<1>2. PICK k \in S : \A y \in S : k <= y
  BY <1>1, Least
<1>3. k \in 1 .. n /\ k - 1 \in S
  BY <1>2
<1> QED
  BY <1>2, <1>3

\* A non-empty set of positions has a last one.
LEMMA Greatest ==
  ASSUME NEW n \in Nat, NEW S \in SUBSET (1 .. n), S # {}
  PROVE  /\ Max(S) \in S
         /\ \A y \in S : Max(S) >= y
<1> DEFINE T == {n - x : x \in S}
<1>1. T \in SUBSET Nat /\ T # {}
  OBVIOUS
<1> HIDE DEF T
<1>2. PICK t \in T : \A y \in T : t <= y
  BY <1>1, Least
<1> USE DEF T
<1>3. PICK x \in S : t = n - x
  BY <1>2
<1>4. ASSUME NEW y \in S PROVE x >= y
  <2>1. n - y \in T
    OBVIOUS
  <2>2. n - x <= n - y
    BY <1>2, <1>3, <2>1
  <2> QED
    BY <2>2
<1>5. \E z \in S : \A y \in S : z >= y
  BY <1>4
<1> QED
  BY <1>5 DEF Max

\* The last of the first k.
LEMMA GreatestOfFirst ==
  ASSUME NEW k \in Nat \ {0}
  PROVE  /\ 1 .. k # {} /\ Max(1 .. k) = k /\ (1 .. k) \ {k} = 1 .. (k - 1)
<1>1. k \in 1 .. k
  OBVIOUS
<1>2. Max(1 .. k) \in 1 .. k /\ Max(1 .. k) >= k
  BY <1>1, Greatest
<1>3. Max(1 .. k) = k
  BY <1>2
<1>4. (1 .. k) \ {k} = 1 .. (k - 1)
  OBVIOUS
<1> QED
  BY <1>1, <1>3, <1>4

\* A function on the sets of the first n positions that folds them, and the values a fold
\* of them runs through.
FoldsBy(f, base, step, n) ==
    \A s \in SUBSET (1 .. n) : f[s] = IF s = {} THEN base ELSE step[<<f[s \ {Max(s)}], Max(s)>>]
RunsThrough(acc, base, step, n) == acc[0] = base /\ \A k \in 1 .. n : acc[k] = step[<<acc[k - 1], k>>]

StepsOf(c, T, base, step, n) ==
    c[{}] = base /\ \A k \in 1 .. n : c[1 .. (k - 1)] \in T => c[1 .. k] = step[<<c[1 .. (k - 1)], k>>]

\* A fold is defined: of a first length for which it were not, it is by what it is for the
\* length before.
LEMMA FoldDefined ==
  ASSUME NEW n \in Nat, NEW T, NEW base \in T, NEW step \in [T \X (1 .. n) -> T]
  PROVE  \E f \in [SUBSET (1 .. n) -> T] : FoldsBy(f, base, step, n)
<1> DEFINE Defined(m) == \E f \in [SUBSET (1 .. m) -> T] : FoldsBy(f, base, step, m)
           S == {m \in 0 .. n : ~Defined(m)}
<1>1. 0 \notin S
  <2> DEFINE f == [s \in SUBSET (1 .. 0) |-> base]
  <2>1. 1 .. 0 = {}
    OBVIOUS
  <2>2. f \in [SUBSET (1 .. 0) -> T]
    OBVIOUS
  <2>3. \A s \in SUBSET (1 .. 0) : s = {} /\ f[s] = base
    BY <2>1
  <2> HIDE DEF f
  <2>4. FoldsBy(f, base, step, 0)
    BY <2>3 DEF FoldsBy
  <2>5. Defined(0)
    BY <2>2, <2>4
  <2> QED
    BY <2>5
<1>2. ASSUME NEW m \in 1 .. n, Defined(m - 1) PROVE Defined(m)
  <2>1. PICK f \in [SUBSET (1 .. (m - 1)) -> T] : FoldsBy(f, base, step, m - 1)
    BY <1>2
  <2> DEFINE less(s) == s \ {m}
             g == [s \in SUBSET (1 .. m) |-> IF m \in s THEN step[<<f[less(s)], m>>] ELSE f[s]]
  <2>2. ASSUME NEW s \in SUBSET (1 .. m) PROVE less(s) \in SUBSET (1 .. (m - 1)) /\ f[less(s)] \in T
    <3>1. less(s) \in SUBSET (1 .. (m - 1))
      OBVIOUS
    <3> HIDE DEF less
    <3> QED
      BY <3>1
  <2>3. ASSUME NEW s \in SUBSET (1 .. m), m \notin s PROVE s \in SUBSET (1 .. (m - 1))
    BY <2>3
  <2>4. g \in [SUBSET (1 .. m) -> T]
    <3>1. ASSUME NEW s \in SUBSET (1 .. m) PROVE (IF m \in s THEN step[<<f[less(s)], m>>] ELSE f[s]) \in T
      <4>1. CASE m \in s
        <5>1. f[less(s)] \in T
          BY <2>2
        <5> HIDE DEF less
        <5> QED
          BY <4>1, <5>1
      <4>2. CASE m \notin s
        BY <2>3, <4>2
      <4> QED
        BY <4>1, <4>2
    <3> HIDE DEF less
    <3> QED
      BY <3>1
  <2>5. ASSUME NEW s \in SUBSET (1 .. m) PROVE g[s] = IF s = {} THEN base ELSE step[<<g[s \ {Max(s)}], Max(s)>>]
    <3>1. CASE m \in s
      <4>1. m \in Nat /\ s # {}
        BY <3>1
      <4>2. Max(s) = m
        <5> DEFINE x == Max(s)
        <5>1. x \in s /\ \A y \in s : x >= y
          BY <4>1, Greatest
        <5> HIDE DEF x
        <5>2. x = m
          BY <3>1, <5>1
        <5> QED
          BY <5>2 DEF x
      <4>3. s \ {m} \in SUBSET (1 .. m) /\ m \notin s \ {m}
        OBVIOUS
      <4>4. g[s \ {m}] = f[less(s)]
        BY <4>3
      <4>5. g[s] = step[<<f[less(s)], m>>]
        BY <3>1
      <4> HIDE DEF g, less
      <4> QED
        BY <3>1, <4>2, <4>4, <4>5
    <3>2. CASE m \notin s
      <4>1. s \in SUBSET (1 .. (m - 1)) /\ s \ {Max(s)} \in SUBSET (1 .. (m - 1))
        BY <2>3, <3>2
      <4>2. g[s] = f[s]
        BY <3>2
      <4>3. m \notin s \ {Max(s)} /\ s \ {Max(s)} \in SUBSET (1 .. m)
        BY <3>2
      <4>4. g[s \ {Max(s)}] = f[s \ {Max(s)}]
        BY <4>3
      <4>5. f[s] = IF s = {} THEN base ELSE step[<<f[s \ {Max(s)}], Max(s)>>]
        BY <2>1, <4>1 DEF FoldsBy
      <4> HIDE DEF g
      <4> QED
        BY <4>2, <4>4, <4>5
    <3> QED
      BY <3>1, <3>2
  <2> HIDE DEF g
  <2>6. FoldsBy(g, base, step, m)
    BY <2>5 DEF FoldsBy
  <2> QED
    BY <2>4, <2>6
<1>3. \A m \in 1 .. n : m \in S => m - 1 \in S
  <2> HIDE DEF Defined
  <2> QED
    BY <1>2
<1>4. S \in SUBSET (0 .. n)
  OBVIOUS
<1>5. S = {}
  <2> HIDE DEF S
  <2> QED
    BY <1>1, <1>3, <1>4, Steps
<1>6. Defined(n)
  <2> HIDE DEF Defined
  <2> QED
    BY <1>5
<1> QED
  BY <1>6

\* What a fold is on the first k positions is its value after k steps, when each of its
\* steps is one of step.
LEMMA FoldRuns ==
  ASSUME NEW n \in Nat, NEW T, NEW base \in T, NEW step \in [T \X (1 .. n) -> T],
         NEW c, StepsOf(c, T, base, step, n)
  PROVE  \E acc \in [0 .. n -> T] : acc[n] = c[1 .. n] /\ RunsThrough(acc, base, step, n)
<1> DEFINE acc == [k \in 0 .. n |-> c[1 .. k]]
           S == {k \in 0 .. n : c[1 .. k] \notin T}
<1>1. 1 .. 0 = {}
  OBVIOUS
<1>2. 0 \notin S
  BY <1>1 DEF StepsOf
<1>3. ASSUME NEW k \in 1 .. n, k \in S PROVE k - 1 \in S
  <2> SUFFICES ASSUME c[1 .. (k - 1)] \in T PROVE FALSE
    OBVIOUS
  <2>1. c[1 .. k] = step[<<c[1 .. (k - 1)], k>>]
    BY DEF StepsOf
  <2>2. step[<<c[1 .. (k - 1)], k>>] \in T
    OBVIOUS
  <2> QED
    BY <1>3, <2>1, <2>2
<1>4. S \in SUBSET (0 .. n)
  OBVIOUS
<1>5. S = {}
  <2> HIDE DEF S
  <2> QED
    BY <1>2, <1>3, <1>4, Steps
<1>6. \A k \in 0 .. n : c[1 .. k] \in T
  BY <1>5
<1>7. acc \in [0 .. n -> T]
  BY <1>6
<1>8. acc[0] = base /\ acc[n] = c[1 .. n]
  BY <1>1 DEF StepsOf
<1>9. ASSUME NEW k \in 1 .. n PROVE acc[k] = step[<<acc[k - 1], k>>]
  <2>1. k \in 0 .. n /\ k - 1 \in 0 .. n
    OBVIOUS
  <2>2. acc[k] = c[1 .. k] /\ acc[k - 1] = c[1 .. (k - 1)]
    BY <2>1
  <2> HIDE DEF acc
  <2> QED
    BY <1>6, <2>1, <2>2 DEF StepsOf
<1> HIDE DEF acc
<1> QED
  BY <1>7, <1>8, <1>9 DEF RunsThrough

-----------------------------------------------------------------------------
(* Sheets of labels.                                                         *)

Placements(L, most) == [sheet : Nat \ {0}, cell : 0 .. (most - 1), label : L]
Printing(L, most)   == [sheet : Nat \ {0}, cell : 0 .. most, placed : Seq(Placements(L, most))]

\* There is a next free cell or the end of the sheet, and it is the first one.
LEMMA FreeIs ==
  ASSUME NEW most \in Nat, NEW cell \in 0 .. most, NEW used
  PROVE  /\ Free(cell, used, most) \in cell .. most
         /\ Free(cell, used, most) = most \/ Free(cell, used, most) \notin used
         /\ \A d \in cell .. (Free(cell, used, most) - 1) : d \in used
<1> DEFINE S == {c \in cell .. most : c = most \/ c \notin used}
           Is(c) == (c = most \/ c \notin used) /\ \A d \in cell .. (c - 1) : d \in used
<1>1. S \in SUBSET Nat /\ S # {}
  OBVIOUS
<1>2. PICK c \in S : \A d \in S : c <= d
  <2> HIDE DEF S
  <2> QED
    BY <1>1, Least
<1>3. c \in cell .. most /\ (c = most \/ c \notin used)
  BY <1>2
<1>4. ASSUME NEW d \in cell .. (c - 1) PROVE d \in used
  <2>1. d \in cell .. most /\ d < c
    BY <1>3
  <2>2. d \notin S
    BY <1>2, <2>1
  <2> QED
    BY <2>1, <2>2
<1>5. \E x \in cell .. most : Is(x)
  BY <1>3, <1>4
<1> DEFINE f == CHOOSE x \in cell .. most : Is(x)
<1>6. f \in cell .. most /\ Is(f)
  <2> HIDE DEF Is
  <2> QED
    BY <1>5
<1>7. Free(cell, used, most) = f
  BY DEF Free
<1> HIDE DEF f
<1> QED
  BY <1>6, <1>7

\* Where a label is placed.
PlacesAt(p, s, label, used, most) ==
    /\ Place(s, label, used, most) = [sheet |-> p.sheet, cell |-> p.cell + 1, placed |-> Append(s.placed, p)]
    /\ p.label = label
    /\ p.sheet = 1 => p.cell \notin used
    /\ ~Earlier(p.sheet, p.cell, s)
    /\ \A sheet \in Nat \ {0}, cell \in 0 .. (most - 1) :
           Earlier(sheet, cell, p) => Earlier(sheet, cell, s) \/ (sheet = 1 /\ cell \in used)

\* A label goes to the first free place that is not before where the printing stands, and
\* the printing then stands behind it.
LEMMA PlaceIs ==
  ASSUME NEW L, NEW most \in Nat \ {0}, NEW used, NEW label \in L, NEW s \in Printing(L, most)
  PROVE  \E p \in Placements(L, most) : PlacesAt(p, s, label, used, most)
<1> DEFINE at == IF s.sheet = 1 THEN Free(s.cell, used, most) ELSE s.cell
           to == IF at >= most THEN [sheet |-> s.sheet + 1, cell |-> 0] ELSE [sheet |-> s.sheet, cell |-> at]
           p  == [sheet |-> to.sheet, cell |-> to.cell, label |-> label]
<1>1. s.sheet \in Nat \ {0} /\ s.cell \in 0 .. most
  BY DEF Printing
<1>2. /\ at \in s.cell .. most
      /\ s.sheet = 1 => (at = most \/ at \notin used) /\ \A d \in s.cell .. (at - 1) : d \in used
      /\ s.sheet # 1 => at = s.cell
  BY <1>1, FreeIs
<1>3. Place(s, label, used, most) = [sheet |-> to.sheet, cell |-> to.cell + 1, placed |-> Append(s.placed, p)]
  BY DEF Place
<1> HIDE DEF at
<1>4. CASE at >= most
  <2>1. at = most /\ to.sheet = s.sheet + 1 /\ to.cell = 0
    BY <1>1, <1>2, <1>4
  <2>2. to.sheet # 1 /\ to.sheet \in Nat \ {0} /\ to.cell \in 0 .. (most - 1)
    BY <1>1, <2>1
  <2> HIDE DEF to
  <2>3. p \in Placements(L, most) /\ p.sheet = to.sheet /\ p.cell = to.cell /\ p.label = label
    BY <2>2 DEF Placements
  <2> HIDE DEF p
  <2>4. ~Earlier(p.sheet, p.cell, s)
    BY <1>1, <2>1, <2>3 DEF Earlier
  <2>5. ASSUME NEW sheet \in Nat \ {0}, NEW cell \in 0 .. (most - 1), Earlier(sheet, cell, p)
        PROVE  Earlier(sheet, cell, s) \/ (sheet = 1 /\ cell \in used)
    <3>1. sheet <= s.sheet
      BY <1>1, <2>1, <2>3, <2>5 DEF Earlier
    <3>2. CASE sheet < s.sheet
      BY <3>2 DEF Earlier
    <3>3. CASE sheet = s.sheet
      BY <1>1, <1>2, <2>1, <3>3 DEF Earlier
    <3> QED
      BY <1>1, <3>1, <3>2, <3>3
  <2> QED
    BY <1>3, <2>2, <2>3, <2>4, <2>5 DEF PlacesAt
<1>5. CASE ~(at >= most)
  <2>1. at \in 0 .. (most - 1) /\ to.sheet = s.sheet /\ to.cell = at
    BY <1>1, <1>2, <1>5
  <2> HIDE DEF to
  <2>3. p \in Placements(L, most) /\ p.sheet = to.sheet /\ p.cell = to.cell /\ p.label = label
    BY <1>1, <2>1 DEF Placements
  <2> HIDE DEF p
  <2>4. ~Earlier(p.sheet, p.cell, s)
    BY <1>1, <1>2, <2>1, <2>3 DEF Earlier
  <2>5. ASSUME NEW sheet \in Nat \ {0}, NEW cell \in 0 .. (most - 1), Earlier(sheet, cell, p)
        PROVE  Earlier(sheet, cell, s) \/ (sheet = 1 /\ cell \in used)
    <3>1. sheet < s.sheet \/ (sheet = s.sheet /\ cell < at)
      BY <2>1, <2>3, <2>5 DEF Earlier
    <3>2. CASE sheet < s.sheet
      BY <3>2 DEF Earlier
    <3>3. CASE sheet = s.sheet /\ cell < at
      BY <1>1, <1>2, <2>1, <3>3 DEF Earlier
    <3> QED
      BY <3>1, <3>2, <3>3
  <2>6. p.sheet = 1 => p.cell \notin used
    BY <1>1, <1>2, <2>1, <2>3
  <2> QED
    BY <1>3, <2>3, <2>4, <2>5, <2>6 DEF PlacesAt
<1> QED
  BY <1>4, <1>5

\* Every place the printing has passed is used up or has a label.
Passed(s, k, used, most) ==
    \A sheet \in Nat \ {0}, cell \in 0 .. (most - 1) :
        Earlier(sheet, cell, s) =>
            \/ sheet = 1 /\ cell \in used
            \/ \E j \in 1 .. k : s.placed[j].sheet = sheet /\ s.placed[j].cell = cell

\* What holds after k labels: they are placed, in free places one after the other.
Reached(s, k, items, used, most) ==
    /\ Len(s.placed) = k /\ \A i \in 1 .. k : s.placed[i].label = items[i]
    /\ k > 0 => s.placed[k].sheet = s.sheet
    /\ Filled(s.placed, used, most)
    /\ \A i \in 1 .. k : Earlier(s.placed[i].sheet, s.placed[i].cell, s)
    /\ Passed(s, k, used, most)

\* One place is before another, not both, and what is before the one is before the other.
LEMMA EarlierOrders ==
  ASSUME NEW a, NEW b, NEW c, a.sheet \in Nat, a.cell \in Nat, b.sheet \in Nat, b.cell \in Nat, c.sheet \in Nat, c.cell \in Nat
  PROVE  /\ Earlier(a.sheet, a.cell, b) /\ ~Earlier(c.sheet, c.cell, b) => Earlier(a.sheet, a.cell, c)
         /\ Earlier(a.sheet, a.cell, b) /\ Earlier(b.sheet, b.cell, c) => Earlier(a.sheet, a.cell, c)
BY DEF Earlier

\* Another label keeps it so.
LEMMA PlaceReaches ==
  ASSUME NEW L, NEW most \in Nat \ {0}, NEW used, NEW items \in Seq(L), NEW k \in 1 .. Len(items),
         NEW s \in Printing(L, most), Reached(s, k - 1, items, used, most)
  PROVE  /\ Place(s, items[k], used, most) \in Printing(L, most)
         /\ Reached(Place(s, items[k], used, most), k, items, used, most)
<1> DEFINE r == Place(s, items[k], used, most)
<1>1. items[k] \in L
  OBVIOUS
<1>2. PICK p \in Placements(L, most) : PlacesAt(p, s, items[k], used, most)
  BY <1>1, PlaceIs
<1>21. /\ r = [sheet |-> p.sheet, cell |-> p.cell + 1, placed |-> Append(s.placed, p)]
       /\ p.label = items[k]
       /\ p.sheet = 1 => p.cell \notin used
       /\ ~Earlier(p.sheet, p.cell, s)
       /\ \A sheet \in Nat \ {0}, cell \in 0 .. (most - 1) :
              Earlier(sheet, cell, p) => Earlier(sheet, cell, s) \/ (sheet = 1 /\ cell \in used)
  BY <1>2 DEF PlacesAt
<1> HIDE DEF r
<1>3. p.sheet \in Nat \ {0} /\ p.cell \in 0 .. (most - 1) /\ p.label \in L
  BY DEF Placements
<1>4. s.placed \in Seq(Placements(L, most)) /\ Len(s.placed) = k - 1 /\ s.sheet \in Nat \ {0} /\ s.cell \in 0 .. most
  BY DEF Printing, Reached
<1> DEFINE q == Append(s.placed, p)
<1>5. /\ q \in Seq(Placements(L, most)) /\ Len(q) = k /\ DOMAIN q = 1 .. k /\ q[k] = p
      /\ \A i \in 1 .. (k - 1) : q[i] = s.placed[i]
  BY <1>4
<1>6. r.sheet = p.sheet /\ r.cell = p.cell + 1 /\ r.placed = q
  BY <1>21
<1>7. r \in Printing(L, most)
  <2>1. p.cell + 1 \in 0 .. most
    BY <1>3
  <2> HIDE DEF q
  <2> QED
    BY <1>21, <1>3, <1>5, <1>6, <2>1 DEF Printing, q
<1> HIDE DEF q
<1>8. \A i \in 1 .. k : q[i].sheet \in Nat \ {0} /\ q[i].cell \in 0 .. (most - 1)
  <2>1. \A i \in 1 .. k : q[i] \in Placements(L, most)
    BY <1>5
  <2> QED
    BY <2>1 DEF Placements
<1>9. \A i \in 1 .. (k - 1) : Earlier(q[i].sheet, q[i].cell, s)
  BY <1>5 DEF Reached
<1>10. \A i \in 1 .. (k - 1) : Earlier(q[i].sheet, q[i].cell, p)
  <2>1. ASSUME NEW i \in 1 .. (k - 1) PROVE Earlier(q[i].sheet, q[i].cell, p)
    <3>1. i \in 1 .. k
      OBVIOUS
    <3>2. q[i].sheet \in Nat /\ q[i].cell \in Nat
      BY <1>8, <3>1
    <3> QED
      BY <1>21, <1>3, <1>4, <1>9, <3>2, EarlierOrders, SMTT(30)
  <2> QED
    BY <2>1
<1>11. \A i \in 1 .. k : Earlier(q[i].sheet, q[i].cell, r)
  <2>1. Earlier(p.sheet, p.cell, r)
    BY <1>3, <1>6 DEF Earlier
  <2>2. ASSUME NEW i \in 1 .. (k - 1) PROVE Earlier(q[i].sheet, q[i].cell, r)
    <3>1. i \in 1 .. k
      OBVIOUS
    <3>2. q[i].sheet \in Nat /\ q[i].cell \in Nat
      BY <1>8, <3>1
    <3>3. r.sheet \in Nat /\ r.cell \in Nat
      BY <1>3, <1>6
    <3> QED
      BY <1>3, <1>10, <2>1, <3>2, <3>3, EarlierOrders
  <2>3. \A i \in 1 .. k : i = k \/ i \in 1 .. (k - 1)
    OBVIOUS
  <2> QED
    BY <1>5, <2>1, <2>2, <2>3
<1>12. ASSUME NEW sheet \in Nat \ {0}, NEW cell \in 0 .. (most - 1), Earlier(sheet, cell, p)
       PROVE  \/ sheet = 1 /\ cell \in used
              \/ \E j \in 1 .. (k - 1) : q[j].sheet = sheet /\ q[j].cell = cell
  <2>1. Earlier(sheet, cell, s) \/ (sheet = 1 /\ cell \in used)
    BY <1>21, <1>12
  <2>2. ASSUME Earlier(sheet, cell, s)
        PROVE  (sheet = 1 /\ cell \in used) \/ \E j \in 1 .. (k - 1) : s.placed[j].sheet = sheet /\ s.placed[j].cell = cell
    <3>1. Passed(s, k - 1, used, most)
      BY DEF Reached
    <3> QED
      BY <2>2, <3>1 DEF Passed
  <2> QED
    BY <1>5, <2>1, <2>2
<1>13. ASSUME NEW sheet \in Nat \ {0}, NEW cell \in 0 .. (most - 1), Earlier(sheet, cell, r)
       PROVE  \/ sheet = 1 /\ cell \in used
              \/ \E j \in 1 .. k : q[j].sheet = sheet /\ q[j].cell = cell
  <2>1. Earlier(sheet, cell, p) \/ (sheet = p.sheet /\ cell = p.cell)
    BY <1>3, <1>6, <1>13 DEF Earlier
  <2>2. \A j \in 1 .. (k - 1) : j \in 1 .. k
    OBVIOUS
  <2>3. k \in 1 .. k
    OBVIOUS
  <2>4. CASE Earlier(sheet, cell, p)
    BY <1>12, <2>2, <2>4
  <2>5. CASE sheet = p.sheet /\ cell = p.cell
    BY <1>5, <2>3, <2>5
  <2> QED
    BY <2>1, <2>4, <2>5
<1>14. Filled(q, used, most)
  <2>1. ASSUME NEW i \in 1 .. k PROVE q[i].sheet > 0 /\ q[i].cell \in 0 .. (most - 1) /\ (q[i].sheet = 1 => q[i].cell \notin used)
    <3>1. CASE i = k
      BY <1>21, <1>3, <1>5, <1>8, <3>1
    <3>2. CASE i # k
      <4>1. i \in DOMAIN s.placed /\ q[i] = s.placed[i]
        BY <1>4, <1>5, <3>2
      <4>2. q[i].sheet > 0 /\ q[i].cell \in 0 .. (most - 1)
        BY <1>8
      <4>3. s.placed[i].sheet = 1 => s.placed[i].cell \notin used
        <5>1. Filled(s.placed, used, most)
          BY DEF Reached
        <5> QED
          BY <4>1, <5>1, Zenon DEF Filled
      <4> QED
        BY <4>1, <4>2, <4>3
    <3> QED
      BY <3>1, <3>2
  <2>2. ASSUME NEW i \in 1 .. k, NEW j \in 1 .. k, i < j PROVE Earlier(q[i].sheet, q[i].cell, q[j])
    <3>1. CASE j = k
      <4>1. i \in 1 .. (k - 1)
        BY <2>2, <3>1
      <4> QED
        BY <1>5, <1>10, <3>1, <4>1
    <3>2. CASE j # k
      <4>1. i \in DOMAIN s.placed /\ j \in DOMAIN s.placed /\ q[i] = s.placed[i] /\ q[j] = s.placed[j]
        BY <1>4, <1>5, <2>2, <3>2, SMTT(30)
      <4> QED
        BY <2>2, <4>1 DEF Reached, Filled
    <3> QED
      BY <3>1, <3>2
  <2>3. ASSUME NEW i \in 1 .. k, NEW sheet \in 1 .. q[i].sheet, NEW cell \in 0 .. (most - 1), Earlier(sheet, cell, q[i])
        PROVE  \/ sheet = 1 /\ cell \in used
               \/ \E j \in 1 .. (i - 1) : q[j].sheet = sheet /\ q[j].cell = cell
    <3>1. sheet \in Nat \ {0}
      BY <1>8
    <3>2. CASE i = k
      BY <1>5, <1>12, <2>3, <3>1, <3>2
    <3>3. CASE i # k
      <4>1. i \in DOMAIN s.placed /\ q[i] = s.placed[i]
        BY <1>4, <1>5, <3>3
      <4>2. \/ sheet = 1 /\ cell \in used
            \/ \E j \in 1 .. (i - 1) : s.placed[j].sheet = sheet /\ s.placed[j].cell = cell
        <5>1. \A m \in DOMAIN s.placed : \A sh \in 1 .. s.placed[m].sheet : \A c \in 0 .. (most - 1) :
                  Earlier(sh, c, s.placed[m]) =>
                      \/ sh = 1 /\ c \in used
                      \/ \E j \in 1 .. (m - 1) : s.placed[j].sheet = sh /\ s.placed[j].cell = c
          BY DEF Reached, Filled
        <5>2. sheet \in 1 .. s.placed[i].sheet /\ Earlier(sheet, cell, s.placed[i])
          BY <2>3, <4>1
        <5> QED
          BY <4>1, <5>1, <5>2
      <4>3. \A j \in 1 .. (i - 1) : q[j] = s.placed[j]
        BY <1>5
      <4> QED
        BY <4>2, <4>3
    <3> QED
      BY <3>2, <3>3
  <2> QED
    <3>1. DOMAIN q = 1 .. k
      BY <1>5
    <3>2. \A i \in DOMAIN q : q[i].sheet > 0 /\ q[i].cell \in 0 .. (most - 1)
      BY <2>1, <3>1
    <3>3. \A i \in DOMAIN q : q[i].sheet = 1 => q[i].cell \notin used
      BY <2>1, <3>1
    <3>4. \A i, j \in DOMAIN q : i < j => Earlier(q[i].sheet, q[i].cell, q[j])
      BY <2>2, <3>1
    <3>5. \A i \in DOMAIN q : \A sheet \in 1 .. q[i].sheet : \A cell \in 0 .. (most - 1) :
              Earlier(sheet, cell, q[i]) =>
                  \/ sheet = 1 /\ cell \in used
                  \/ \E j \in 1 .. (i - 1) : q[j].sheet = sheet /\ q[j].cell = cell
      BY <2>3, <3>1
    <3> QED
      BY <3>2, <3>3, <3>4, <3>5 DEF Filled
<1>15. \A i \in 1 .. k : q[i].label = items[i]
  <2>1. \A i \in 1 .. k : i = k \/ i \in 1 .. (k - 1)
    OBVIOUS
  <2> QED
    BY <1>21, <1>5, <2>1 DEF Reached
<1>16. Reached(r, k, items, used, most)
  <2>1. Passed(r, k, used, most)
    BY <1>6, <1>13 DEF Passed
  <2> QED
    BY <1>5, <1>6, <1>11, <1>14, <1>15, <2>1 DEF Reached
<1> QED
  BY <1>7, <1>16 DEF r

\* Every label that is printed is on a sheet, in order: in a cell the first sheet has left,
\* no two in one, and no free cell before it is passed over, whatever was used of the first
\* sheet and however many there are (RenderSheet).
THEOREM LabelsFillSheets ==
  ASSUME NEW media, PerSheet(media) \in Nat \ {0}, NEW L, NEW items \in Seq(L), NEW used
  PROVE  LET out == RenderSheet(media, items, used) IN
         /\ out.status = "ok"
         /\ Len(out.is.placed) = Len(items) /\ \A i \in 1 .. Len(items) : out.is.placed[i].label = items[i]
         /\ Filled(out.is.placed, used, PerSheet(media))
         /\ Len(items) > 0 => out.is.sheets = out.is.placed[Len(items)].sheet
<1> DEFINE n    == Len(items)
           most == PerSheet(media)
           base == [sheet |-> 1, cell |-> 0, placed |-> <<>>]
<1>1. most \in Nat \ {0}
  OBVIOUS
<1> DEFINE T    == Printing(L, most)
           G(f) == [s \in SUBSET DOMAIN items |-> IF s = {} THEN base ELSE Place(f[s \ {Max(s)}], items[Max(s)], used, most)]
           step == [x \in T \X (1 .. n) |-> Place(x[1], items[x[2]], used, most)]
           end  == FoldLeft(LAMBDA s, label : Place(s, label, used, most), base, items)
           c    == CHOOSE f : f = G(f)
<1>2. end = c[DOMAIN items]
  BY DEF FoldLeft, MapThenFoldSet
<1>3. RenderSheet(media, items, used) = Done([sheets |-> end.sheet, placed |-> end.placed])
  <2>1. ~(PerSheet(media) <= 0)
    BY <1>1
  <2> QED
    BY <2>1 DEF RenderSheet, FoldLeft, MapThenFoldSet
<1>4. n \in Nat /\ DOMAIN items = 1 .. n /\ \A i \in 1 .. n : items[i] \in L
  OBVIOUS
<1>5. base \in T /\ Reached(base, 0, items, used, most)
  <2>1. base \in T
    BY <1>1 DEF Printing
  <2>2. base.sheet = 1 /\ base.cell = 0 /\ base.placed = <<>>
    OBVIOUS
  <2> HIDE DEF base
  <2>3. \A sheet \in Nat \ {0}, cell \in 0 .. (most - 1) : ~Earlier(sheet, cell, base)
    BY <1>1, <2>2 DEF Earlier
  <2> QED
    BY <2>1, <2>2, <2>3 DEF Reached, Passed, Filled
<1>6. step \in [T \X (1 .. n) -> T]
  <2>1. ASSUME NEW t \in T, NEW label \in L PROVE Place(t, label, used, most) \in T
    <3>0. PICK p \in Placements(L, most) : PlacesAt(p, t, label, used, most)
      BY PlaceIs
    <3>1. Place(t, label, used, most) = [sheet |-> p.sheet, cell |-> p.cell + 1, placed |-> Append(t.placed, p)]
      BY <3>0 DEF PlacesAt
    <3>2. p.sheet \in Nat \ {0} /\ p.cell + 1 \in 0 .. most
      BY <1>1 DEF Placements
    <3>3. t.placed \in Seq(Placements(L, most))
      BY DEF Printing
    <3> QED
      BY <3>1, <3>2, <3>3 DEF Printing
  <2> HIDE DEF T
  <2> QED
    BY <1>4, <2>1
<1> HIDE DEF base
<1>7. c = G(c)
  <2>1. PICK f \in [SUBSET (1 .. n) -> T] : FoldsBy(f, base, step, n)
    <3> HIDE DEF T, step, n
    <3> QED
      BY <1>4, <1>5, <1>6, FoldDefined
  <2>2. ASSUME NEW s \in SUBSET (1 .. n) PROVE f[s] = IF s = {} THEN base ELSE Place(f[s \ {Max(s)}], items[Max(s)], used, most)
    <3>1. CASE s # {}
      <4>1. Max(s) \in 1 .. n
        BY <1>4, <3>1, Greatest
      <4>2. f[s \ {Max(s)}] \in T
        OBVIOUS
      <4> HIDE DEF T
      <4> QED
        BY <2>1, <3>1, <4>1, <4>2 DEF FoldsBy
    <3> QED
      BY <2>1, <3>1 DEF FoldsBy
  <2>3. f = G(f)
    <3>1. f = [s \in SUBSET (1 .. n) |-> f[s]]
      OBVIOUS
    <3>2. [s \in SUBSET (1 .. n) |-> f[s]] = G(f)
      BY <1>4, <2>2
    <3> QED
      BY <3>1, <3>2
  <2> HIDE DEF G
  <2> QED
    BY <2>3
<1> HIDE DEF c
<1>8. c[{}] = base /\ \A k \in 1 .. n : c[1 .. k] = Place(c[1 .. (k - 1)], items[k], used, most)
  <2>1. \A s \in SUBSET (1 .. n) : c[s] = IF s = {} THEN base ELSE Place(c[s \ {Max(s)}], items[Max(s)], used, most)
    <3>1. c = [s \in SUBSET (1 .. n) |-> IF s = {} THEN base ELSE Place(c[s \ {Max(s)}], items[Max(s)], used, most)]
      BY <1>4, <1>7
    <3> QED
      BY <3>1
  <2>2. ASSUME NEW k \in 1 .. n PROVE c[1 .. k] = Place(c[1 .. (k - 1)], items[k], used, most)
    <3>1. 1 .. k \in SUBSET (1 .. n) /\ 1 .. k # {} /\ Max(1 .. k) = k /\ (1 .. k) \ {k} = 1 .. (k - 1)
      BY GreatestOfFirst, SMTT(30)
    <3> QED
      BY <2>1, <3>1
  <2> QED
    BY <2>1, <2>2
<1>9. PICK acc \in [0 .. n -> T] : acc[n] = c[1 .. n] /\ RunsThrough(acc, base, step, n)
  <2>1. StepsOf(c, T, base, step, n)
    <3> HIDE DEF T
    <3> QED
      BY <1>8 DEF StepsOf
  <2> HIDE DEF T, step, n
  <2> QED
    BY <1>4, <1>5, <1>6, <2>1, FoldRuns
<1> DEFINE S == {k \in 0 .. n : ~Reached(acc[k], k, items, used, most)}
<1>10. S = {}
  <2>1. 0 \notin S
    BY <1>5, <1>9 DEF RunsThrough
  <2>2. ASSUME NEW k \in 1 .. n, k \in S PROVE k - 1 \in S
    <3> SUFFICES ASSUME Reached(acc[k - 1], k - 1, items, used, most) PROVE FALSE
      OBVIOUS
    <3>1. acc[k - 1] \in T /\ acc[k] = Place(acc[k - 1], items[k], used, most)
      <4>1. acc[k - 1] \in T
        OBVIOUS
      <4> HIDE DEF T
      <4> QED
        BY <1>9, <4>1 DEF RunsThrough
    <3>2. Reached(acc[k], k, items, used, most)
      BY <3>1, PlaceReaches
    <3> QED
      BY <2>2, <3>2
  <2>3. S \in SUBSET (0 .. n)
    OBVIOUS
  <2> HIDE DEF S
  <2> QED
    BY <1>4, <2>1, <2>2, <2>3, Steps
<1>11. end = acc[n] /\ Reached(end, n, items, used, most)
  <2>1. end = acc[n]
    BY <1>2, <1>4, <1>9
  <2>2. n \in 0 .. n /\ n \notin S
    BY <1>4, <1>10
  <2> HIDE DEF end
  <2> QED
    BY <2>1, <2>2
<1> HIDE DEF end
<1>12. RenderSheet(media, items, used).status = "ok" /\ RenderSheet(media, items, used).is = [sheets |-> end.sheet, placed |-> end.placed]
  BY <1>3 DEF Done
<1> QED
  BY <1>1, <1>4, <1>11, <1>12 DEF Reached

-----------------------------------------------------------------------------
(* What a part takes from its lots.                                          *)

Lots      == [part : STRING, name : Int, bin : Nat, quantity : Nat \ {0}]
Entries   == [lot : Nat, part : STRING, name : Int, bin : Nat, quantity : Nat \ {0}]
Lines     == [part : STRING \cup {NoPart}, quantity : Nat]
Pulling   == [left : Nat, entries : Seq(Entries)]

\* An entry is a lot of the part with some of what is in it.
From(e, i, lots, part) ==
    /\ e.lot = i /\ e.part = part /\ lots[i].part = part /\ e.name = lots[i].name /\ e.bin = lots[i].bin
    /\ e.quantity <= lots[i].quantity

\* Entries of a total.
Totals(entries, total) ==
    \E sums \in [0 .. Len(entries) -> Nat] :
        /\ sums[0] = 0 /\ sums[Len(entries)] = total
        /\ \A j \in 1 .. Len(entries) : sums[j] = sums[j - 1] + entries[j].quantity

\* What holds after k lots: what is missing is what they do not have, the entries are some
\* of the lots, in order and from the first, and each but the last takes all of its lot.
Pulled(s, lots, part, need, have, k) ==
    /\ s.left = IF have < need THEN need - have ELSE 0
    /\ Totals(s.entries, need - s.left)
    /\ \A j \in DOMAIN s.entries : \E i \in 1 .. k : From(s.entries[j], i, lots, part)
    /\ \A i, j \in DOMAIN s.entries : i < j => s.entries[i].lot < s.entries[j].lot
    /\ \A j \in DOMAIN s.entries :
           s.left > 0 \/ j < Len(s.entries) => s.entries[j].quantity = lots[s.entries[j].lot].quantity
    /\ \A i \in 1 .. k :
           lots[i].part = part /\ (s.left > 0 \/ \E j \in DOMAIN s.entries : i < s.entries[j].lot) =>
               \E j \in DOMAIN s.entries : s.entries[j].lot = i

\* One more lot: it is of another part, nothing is missing, or it is taken from.
Taken(r, s, lots, part, i) ==
    IF lots[i].part # part \/ s.left <= 0 THEN r = s
    ELSE \E pull \in Nat \ {0} :
             /\ pull = IF lots[i].quantity < s.left THEN lots[i].quantity ELSE s.left
             /\ r = [left |-> s.left - pull,
                     entries |-> Append(s.entries, [lot |-> i, part |-> part, name |-> lots[i].name,
                                                    bin |-> lots[i].bin, quantity |-> pull])]

\* An entry more adds to the total.
LEMMA TotalGrows ==
  ASSUME NEW s \in Seq(Entries), NEW e \in Entries, NEW total \in Nat, Totals(s, total)
  PROVE  Totals(Append(s, e), total + e.quantity)
<1>1. PICK sums \in [0 .. Len(s) -> Nat] :
          /\ sums[0] = 0 /\ sums[Len(s)] = total
          /\ \A j \in 1 .. Len(s) : sums[j] = sums[j - 1] + s[j].quantity
  BY DEF Totals
<1> DEFINE t == Append(s, e)
           n == Len(s) + 1
           more == [j \in 0 .. n |-> IF j = n THEN total + e.quantity ELSE sums[j]]
<1>2. Len(s) \in Nat /\ Len(t) = n /\ t[n] = e /\ (\A j \in 1 .. Len(s) : t[j] = s[j]) /\ e.quantity \in Nat
  BY DEF Entries
<1>3. more \in [0 .. n -> Nat]
  BY <1>2
<1>4. more[0] = 0 /\ more[n] = total + e.quantity
  BY <1>1, <1>2
<1>5. ASSUME NEW j \in 1 .. n PROVE more[j] = more[j - 1] + t[j].quantity
  <2>1. CASE j = n
    <3>1. more[j] = total + e.quantity /\ more[j - 1] = sums[Len(s)]
      BY <1>2, <2>1
    <3> QED
      BY <1>1, <1>2, <2>1, <3>1
  <2>2. CASE j # n
    <3>1. j \in 1 .. Len(s) /\ more[j] = sums[j] /\ more[j - 1] = sums[j - 1]
      BY <1>2, <2>2
    <3> QED
      BY <1>1, <1>2, <3>1
  <2> QED
    BY <2>1, <2>2
<1> HIDE DEF more, t
<1>6. \E m \in [0 .. Len(t) -> Nat] :
          /\ m[0] = 0 /\ m[Len(t)] = total + e.quantity
          /\ \A j \in 1 .. Len(t) : m[j] = m[j - 1] + t[j].quantity
  BY <1>2, <1>3, <1>4, <1>5
<1>7. Totals(t, total + e.quantity)
  BY <1>6 DEF Totals
<1> QED
  BY <1>7 DEF t

\* Another lot keeps it so.
LEMMA TakingPulls ==
  ASSUME NEW lots \in Seq(Lots), NEW part, NEW need \in Nat, NEW have \in Nat, NEW k \in 1 .. Len(lots),
         NEW s \in Pulling, Pulled(s, lots, part, need, have, k - 1),
         NEW r \in Pulling, Taken(r, s, lots, part, k)
  PROVE  Pulled(r, lots, part, need, IF lots[k].part = part THEN have + lots[k].quantity ELSE have, k)
<1>1. s.left \in Nat /\ s.entries \in Seq(Entries) /\ lots[k].quantity \in Nat \ {0} /\ k \in Nat \ {0}
  <2>1. lots[k] \in Lots /\ k \in Nat \ {0}
    OBVIOUS
  <2> QED
    BY <2>1 DEF Pulling, Lots
<1>2. \A i \in 1 .. k : i = k \/ i \in 1 .. (k - 1)
  OBVIOUS
<1>3. \A j \in DOMAIN s.entries : s.entries[j].lot \in 1 .. (k - 1)
  BY DEF Pulled, From
<1>4. CASE lots[k].part # part
  <2>1. r = s
    BY <1>4 DEF Taken
  <2>2. \A j \in DOMAIN s.entries : \E i \in 1 .. k : From(s.entries[j], i, lots, part)
    <3>1. \A i \in 1 .. (k - 1) : i \in 1 .. k
      OBVIOUS
    <3> QED
      BY <3>1 DEF Pulled
  <2>3. \A i \in 1 .. k :
           lots[i].part = part /\ (s.left > 0 \/ \E j \in DOMAIN s.entries : i < s.entries[j].lot) =>
               \E j \in DOMAIN s.entries : s.entries[j].lot = i
    <3>1. \A i \in 1 .. (k - 1) :
             lots[i].part = part /\ (s.left > 0 \/ \E j \in DOMAIN s.entries : i < s.entries[j].lot) =>
                 \E j \in DOMAIN s.entries : s.entries[j].lot = i
      BY DEF Pulled
    <3> QED
      BY <1>2, <1>4, <3>1
  <2>4. Pulled(s, lots, part, need, have, k)
    BY <2>2, <2>3 DEF Pulled
  <2>5. (IF lots[k].part = part THEN have + lots[k].quantity ELSE have) = have
    BY <1>4
  <2> QED
    BY <2>1, <2>4, <2>5
<1>5. CASE lots[k].part = part /\ s.left <= 0
  <2>1. r = s /\ s.left = 0
    BY <1>1, <1>5 DEF Taken
  <2>2. \A j \in DOMAIN s.entries : \E i \in 1 .. k : From(s.entries[j], i, lots, part)
    <3>1. \A i \in 1 .. (k - 1) : i \in 1 .. k
      OBVIOUS
    <3> QED
      BY <3>1 DEF Pulled
  <2>3. \A j \in DOMAIN s.entries : ~(k < s.entries[j].lot)
    BY <1>1, <1>3
  <2>4. ~(have < need)
    BY <2>1 DEF Pulled
  <2>5. \A i \in 1 .. k :
           lots[i].part = part /\ (s.left > 0 \/ \E j \in DOMAIN s.entries : i < s.entries[j].lot) =>
               \E j \in DOMAIN s.entries : s.entries[j].lot = i
    <3>1. \A i \in 1 .. (k - 1) :
             lots[i].part = part /\ (s.left > 0 \/ \E j \in DOMAIN s.entries : i < s.entries[j].lot) =>
                 \E j \in DOMAIN s.entries : s.entries[j].lot = i
      BY DEF Pulled
    <3> QED
      BY <1>2, <2>1, <2>3, <3>1
  <2>6. PICK more \in Nat : more = have + lots[k].quantity
    BY <1>1
  <2>7. s.left = IF more < need THEN need - more ELSE 0
    BY <1>1, <2>1, <2>4, <2>6
  <2>8. Pulled(s, lots, part, need, more, k)
    BY <2>2, <2>5, <2>7 DEF Pulled
  <2>9. (IF lots[k].part = part THEN have + lots[k].quantity ELSE have) = more
    BY <1>5, <2>6
  <2> QED
    BY <2>1, <2>8, <2>9
<1>6. CASE lots[k].part = part /\ ~(s.left <= 0)
  <2>1. PICK pull \in Nat \ {0} :
             /\ pull = IF lots[k].quantity < s.left THEN lots[k].quantity ELSE s.left
             /\ r = [left |-> s.left - pull,
                     entries |-> Append(s.entries, [lot |-> k, part |-> part, name |-> lots[k].name,
                                                    bin |-> lots[k].bin, quantity |-> pull])]
    BY <1>6 DEF Taken
  <2> DEFINE e == [lot |-> k, part |-> part, name |-> lots[k].name, bin |-> lots[k].bin, quantity |-> pull]
             q == Append(s.entries, e)
             n == Len(s.entries) + 1
  <2>2. e \in Entries /\ From(e, k, lots, part) /\ e.lot = k /\ e.quantity = pull
    <3>1. lots[k] \in Lots
      OBVIOUS
    <3>2. lots[k].part \in STRING /\ lots[k].name \in Int /\ lots[k].bin \in Nat
      BY <3>1 DEF Lots
    <3>3. part \in STRING
      BY <1>6, <3>2
    <3> QED
      BY <1>1, <1>6, <2>1, <3>2, <3>3 DEF Entries, From
  <2> HIDE DEF e
  <2>3. /\ n \in Nat /\ DOMAIN q = 1 .. n /\ Len(q) = n /\ q[n] = e /\ DOMAIN s.entries = 1 .. (n - 1)
        /\ \A j \in 1 .. (n - 1) : q[j] = s.entries[j]
    BY <1>1, <2>2
  <2>4. r.left = s.left - pull /\ r.entries = q
    BY <2>1 DEF e
  <2>5. s.left = need - have /\ have < need
    BY <1>6 DEF Pulled
  <2>6. Totals(q, (need - s.left) + pull)
    <3>1. Totals(s.entries, need - s.left) /\ need - s.left \in Nat
      BY <1>1, <2>5 DEF Pulled
    <3> HIDE DEF q
    <3>2. Totals(Append(s.entries, e), (need - s.left) + e.quantity)
      BY <1>1, <2>2, <3>1, TotalGrows
    <3> QED
      BY <2>2, <3>2 DEF q
  <2>61. (need - s.left) + pull = need - (s.left - pull)
    BY <1>1, <2>1
  <2>7. \A j \in 1 .. n : j = n \/ j \in 1 .. (n - 1)
    BY <2>3
  <2> HIDE DEF q
  <2>8. ASSUME NEW j \in 1 .. n PROVE \E i \in 1 .. k : From(q[j], i, lots, part)
    <3>1. CASE j = n
      <4>1. k \in 1 .. k
        BY <1>1
      <4> QED
        BY <2>2, <2>3, <3>1, <4>1
    <3>2. CASE j \in 1 .. (n - 1)
      <4>1. PICK i \in 1 .. (k - 1) : From(q[j], i, lots, part)
        BY <2>3, <3>2 DEF Pulled
      <4>2. i \in 1 .. k
        OBVIOUS
      <4> QED
        BY <4>1, <4>2
    <3> QED
      BY <2>7, <3>1, <3>2
  <2>9. ASSUME NEW i \in 1 .. n, NEW j \in 1 .. n, i < j PROVE q[i].lot < q[j].lot
    <3>1. i \in 1 .. (n - 1)
      BY <2>3, <2>9
    <3>2. CASE j = n
      <4>1. q[i] = s.entries[i] /\ i \in DOMAIN s.entries
        BY <2>3, <3>1
      <4>2. s.entries[i].lot \in 1 .. (k - 1)
        BY <1>3, <4>1
      <4> QED
        BY <1>1, <2>2, <2>3, <3>2, <4>1, <4>2, SMTT(30)
    <3>3. CASE j \in 1 .. (n - 1)
      <4>1. \A x, y \in DOMAIN s.entries : x < y => s.entries[x].lot < s.entries[y].lot
        BY DEF Pulled
      <4> QED
        BY <2>3, <2>9, <3>1, <3>3, <4>1
    <3> QED
      BY <2>7, <3>2, <3>3
  <2>10. ASSUME NEW j \in 1 .. n, r.left > 0 \/ j < n PROVE q[j].quantity = lots[q[j].lot].quantity
    <3>1. CASE j = n
      <4>1. pull = lots[k].quantity
        BY <1>1, <2>1, <2>3, <2>4, <2>10, <3>1
      <4> QED
        BY <2>2, <2>3, <3>1, <4>1
    <3>2. CASE j \in 1 .. (n - 1)
      <4>1. s.left > 0
        BY <1>1, <1>6
      <4> QED
        BY <2>3, <3>2, <4>1 DEF Pulled
    <3> QED
      BY <2>7, <3>1, <3>2
  <2>11. ASSUME NEW i \in 1 .. k, lots[i].part = part PROVE \E j \in 1 .. n : q[j].lot = i
    <3>1. CASE i = k
      <4>1. n \in 1 .. n
        BY <2>3
      <4> QED
        BY <2>2, <2>3, <3>1, <4>1
    <3>2. CASE i \in 1 .. (k - 1)
      <4>1. s.left > 0
        BY <1>1, <1>6
      <4>2. PICK j \in DOMAIN s.entries : s.entries[j].lot = i
        BY <2>11, <3>2, <4>1 DEF Pulled
      <4>3. j \in 1 .. n
        BY <2>3
      <4> QED
        BY <2>3, <4>2, <4>3
    <3> QED
      BY <1>2, <3>1, <3>2
  <2>12. r.left = IF have + lots[k].quantity < need THEN need - (have + lots[k].quantity) ELSE 0
    BY <1>1, <2>1, <2>4, <2>5, SMTT(30)
  <2> QED
    BY <1>6, <2>3, <2>4, <2>6, <2>61, <2>8, <2>9, <2>10, <2>11, <2>12 DEF Pulled
<1> QED
  BY <1>4, <1>5, <1>6

\* What there is of a part is added up lot by lot.
LEMMA AvailableRuns ==
  ASSUME NEW lots \in Seq(Lots), NEW part
  PROVE  \E have \in [0 .. Len(lots) -> Nat] :
             /\ have[0] = 0 /\ have[Len(lots)] = Available(lots, part)
             /\ \A k \in 1 .. Len(lots) : have[k] = IF lots[k].part = part THEN have[k - 1] + lots[k].quantity ELSE have[k - 1]
<1> DEFINE n       == Len(lots)
           More(t, l) == IF l.part = part THEN t + l.quantity ELSE t
           G(f)    == [s \in SUBSET DOMAIN lots |-> IF s = {} THEN 0 ELSE More(f[s \ {Max(s)}], lots[Max(s)])]
           step    == [x \in Nat \X (1 .. n) |-> More(x[1], lots[x[2]])]
           c       == CHOOSE f : f = G(f)
<1>1. Available(lots, part) = c[DOMAIN lots]
  BY DEF Available, FoldLeft, MapThenFoldSet
<1>2. n \in Nat /\ DOMAIN lots = 1 .. n /\ \A i \in 1 .. n : lots[i].quantity \in Nat
  <2>1. \A i \in 1 .. n : lots[i] \in Lots
    OBVIOUS
  <2> QED
    BY <2>1 DEF Lots
<1>3. step \in [Nat \X (1 .. n) -> Nat]
  <2>1. ASSUME NEW t \in Nat, NEW i \in 1 .. n PROVE More(t, lots[i]) \in Nat
    BY <1>2
  <2> HIDE DEF More
  <2> QED
    BY <2>1
<1> HIDE DEF More
<1>4. c = G(c)
  <2>1. PICK f \in [SUBSET (1 .. n) -> Nat] : FoldsBy(f, 0, step, n)
    <3> HIDE DEF step, n
    <3> QED
      BY <1>2, <1>3, FoldDefined
  <2>2. ASSUME NEW s \in SUBSET (1 .. n) PROVE f[s] = IF s = {} THEN 0 ELSE More(f[s \ {Max(s)}], lots[Max(s)])
    <3>1. CASE s # {}
      <4>1. Max(s) \in 1 .. n
        BY <1>2, <3>1, Greatest
      <4>2. f[s \ {Max(s)}] \in Nat
        OBVIOUS
      <4> QED
        BY <2>1, <3>1, <4>1, <4>2 DEF FoldsBy
    <3> QED
      BY <2>1, <3>1 DEF FoldsBy
  <2>3. f = G(f)
    <3>1. f = [s \in SUBSET (1 .. n) |-> f[s]]
      OBVIOUS
    <3>2. [s \in SUBSET (1 .. n) |-> f[s]] = G(f)
      BY <1>2, <2>2
    <3> QED
      BY <3>1, <3>2
  <2> HIDE DEF G
  <2> QED
    BY <2>3
<1> HIDE DEF c
<1>5. c[{}] = 0 /\ \A k \in 1 .. n : c[1 .. k] = More(c[1 .. (k - 1)], lots[k])
  <2>1. \A s \in SUBSET (1 .. n) : c[s] = IF s = {} THEN 0 ELSE More(c[s \ {Max(s)}], lots[Max(s)])
    <3>1. c = [s \in SUBSET (1 .. n) |-> IF s = {} THEN 0 ELSE More(c[s \ {Max(s)}], lots[Max(s)])]
      BY <1>2, <1>4
    <3> QED
      BY <3>1
  <2>2. ASSUME NEW k \in 1 .. n PROVE c[1 .. k] = More(c[1 .. (k - 1)], lots[k])
    <3>1. 1 .. k \in SUBSET (1 .. n) /\ 1 .. k # {} /\ Max(1 .. k) = k /\ (1 .. k) \ {k} = 1 .. (k - 1)
      BY GreatestOfFirst, SMTT(30)
    <3> QED
      BY <2>1, <3>1
  <2> QED
    BY <2>1, <2>2
<1>6. PICK acc \in [0 .. n -> Nat] : acc[n] = c[1 .. n] /\ RunsThrough(acc, 0, step, n)
  <2>1. StepsOf(c, Nat, 0, step, n)
    BY <1>5 DEF StepsOf
  <2>2. 0 \in Nat
    OBVIOUS
  <2> HIDE DEF step, n
  <2> QED
    BY <1>2, <1>3, <2>1, <2>2, FoldRuns
<1>7. \A k \in 1 .. n : acc[k] = More(acc[k - 1], lots[k])
  <2>1. \A k \in 1 .. n : acc[k - 1] \in Nat
    OBVIOUS
  <2> QED
    BY <1>6, <2>1 DEF RunsThrough
<1>8. acc[0] = 0 /\ acc[n] = Available(lots, part)
  BY <1>1, <1>2, <1>6 DEF RunsThrough
<1> QED
  BY <1>7, <1>8 DEF More

\* A part is given what it needs, or all there is: so much is missing as the lots do not
\* have, what is given is taken from lots of that part, in order and from the first, from
\* none twice or more than it holds, and none but the last is left with something (Pull).
THEOREM PartsArePulled ==
  ASSUME NEW lots \in Seq(Lots), NEW part, NEW need \in Nat
  PROVE  /\ Pull(lots, part, need) \in Pulling
         /\ Pulled(Pull(lots, part, need), lots, part, need, Available(lots, part), Len(lots))
<1> DEFINE n == Len(lots)
           T == Pulling
           TakeOne(s, i) ==
               LET pull == IF lots[i].quantity < s.left THEN lots[i].quantity ELSE s.left
               IN  IF lots[i].part # part \/ s.left <= 0 THEN s
                   ELSE [left |-> s.left - pull,
                         entries |-> Append(s.entries, [lot |-> i, part |-> part, name |-> lots[i].name,
                                                     bin |-> lots[i].bin, quantity |-> pull])]
           idx  == [i \in DOMAIN lots |-> i]
           base == [left |-> need, entries |-> <<>>]
           G(f) == [s \in SUBSET DOMAIN idx |-> IF s = {} THEN base ELSE TakeOne(f[s \ {Max(s)}], idx[Max(s)])]
           step == [x \in T \X (1 .. n) |-> TakeOne(x[1], x[2])]
           c    == CHOOSE f : f = G(f)
<1>1. Pull(lots, part, need) = c[DOMAIN idx]
  BY DEF Pull, FoldLeft, MapThenFoldSet
<1>2. n \in Nat /\ DOMAIN lots = 1 .. n /\ DOMAIN idx = 1 .. n /\ \A i \in 1 .. n : lots[i] \in Lots /\ idx[i] = i
  OBVIOUS
<1>3. base \in T /\ Pulled(base, lots, part, need, 0, 0)
  <2>1. base.left = need /\ base.entries = <<>> /\ base.entries \in Seq(Entries) /\ Len(base.entries) = 0
    OBVIOUS
  <2>2. base \in T
    BY DEF Pulling
  <2> HIDE DEF base
  <2>3. Totals(base.entries, 0)
    <3> DEFINE none == [j \in 0 .. 0 |-> 0]
    <3>1. none \in [0 .. 0 -> Nat] /\ none[0] = 0
      OBVIOUS
    <3> HIDE DEF none
    <3> QED
      BY <2>1, <3>1 DEF Totals
  <2>4. base.left = IF 0 < need THEN need - 0 ELSE 0
    BY <2>1
  <2>5. need - base.left = 0
    BY <2>1
  <2> QED
    BY <2>1, <2>2, <2>3, <2>4, <2>5 DEF Pulled
<1>4. ASSUME NEW t \in T, NEW i \in 1 .. n PROVE TakeOne(t, i) \in T /\ Taken(TakeOne(t, i), t, lots, part, i)
  <2>1. lots[i] \in Lots /\ t.left \in Nat /\ t.entries \in Seq(Entries)
    BY <1>2 DEF Pulling
  <2>2. lots[i].part \in STRING /\ lots[i].name \in Int /\ lots[i].bin \in Nat /\ lots[i].quantity \in Nat \ {0}
    BY <2>1 DEF Lots
  <2>3. CASE lots[i].part # part \/ t.left <= 0
    BY <2>3 DEF Taken
  <2>4. CASE ~(lots[i].part # part \/ t.left <= 0)
    <3> DEFINE pull == IF lots[i].quantity < t.left THEN lots[i].quantity ELSE t.left
    <3>1. pull \in Nat \ {0} /\ t.left - pull \in Nat /\ part \in STRING
      BY <2>1, <2>2, <2>4
    <3> DEFINE e == [lot |-> i, part |-> part, name |-> lots[i].name, bin |-> lots[i].bin, quantity |-> pull]
               r == [left |-> t.left - pull, entries |-> Append(t.entries, e)]
    <3>2. TakeOne(t, i) = r
      BY <2>4
    <3>3. Taken(r, t, lots, part, i)
      BY <2>4, <3>1 DEF Taken
    <3>4. e \in Entries
      <4> HIDE DEF pull
      <4> QED
        BY <2>2, <3>1 DEF Entries
    <3>5. r \in T
      <4> HIDE DEF pull, e
      <4> QED
        BY <2>1, <3>1, <3>4 DEF Pulling
    <3> HIDE DEF r
    <3> QED
      BY <3>2, <3>3, <3>5
  <2> QED
    BY <2>3, <2>4
<1> HIDE DEF TakeOne
<1>5. step \in [T \X (1 .. n) -> T]
  <2> HIDE DEF T
  <2> QED
    BY <1>4
<1> HIDE DEF base, T
<1>6. c = G(c)
  <2>1. PICK f \in [SUBSET (1 .. n) -> T] : FoldsBy(f, base, step, n)
    <3> HIDE DEF step, n
    <3> QED
      BY <1>2, <1>3, <1>5, FoldDefined
  <2>2. ASSUME NEW s \in SUBSET (1 .. n) PROVE f[s] = IF s = {} THEN base ELSE TakeOne(f[s \ {Max(s)}], idx[Max(s)])
    <3>1. CASE s # {}
      <4>1. Max(s) \in 1 .. n
        BY <1>2, <3>1, Greatest
      <4>2. f[s \ {Max(s)}] \in T
        OBVIOUS
      <4> QED
        BY <1>2, <2>1, <3>1, <4>1, <4>2 DEF FoldsBy
    <3> QED
      BY <2>1, <3>1 DEF FoldsBy
  <2>3. f = G(f)
    <3>1. f = [s \in SUBSET (1 .. n) |-> f[s]]
      OBVIOUS
    <3>2. [s \in SUBSET (1 .. n) |-> f[s]] = G(f)
      BY <1>2, <2>2
    <3> QED
      BY <3>1, <3>2
  <2> HIDE DEF G
  <2> QED
    BY <2>3
<1> HIDE DEF c
<1>7. c[{}] = base /\ \A k \in 1 .. n : c[1 .. k] = TakeOne(c[1 .. (k - 1)], k)
  <2>1. \A s \in SUBSET (1 .. n) : c[s] = IF s = {} THEN base ELSE TakeOne(c[s \ {Max(s)}], idx[Max(s)])
    <3>1. c = [s \in SUBSET (1 .. n) |-> IF s = {} THEN base ELSE TakeOne(c[s \ {Max(s)}], idx[Max(s)])]
      BY <1>2, <1>6
    <3> QED
      BY <3>1
  <2>2. ASSUME NEW k \in 1 .. n PROVE c[1 .. k] = TakeOne(c[1 .. (k - 1)], k)
    <3>1. 1 .. k \in SUBSET (1 .. n) /\ 1 .. k # {} /\ Max(1 .. k) = k /\ (1 .. k) \ {k} = 1 .. (k - 1)
      BY GreatestOfFirst, SMTT(30)
    <3> QED
      BY <1>2, <2>1, <3>1
  <2> QED
    BY <2>1, <2>2
<1>8. PICK acc \in [0 .. n -> T] : acc[n] = c[1 .. n] /\ RunsThrough(acc, base, step, n)
  <2>1. StepsOf(c, T, base, step, n)
    BY <1>7 DEF StepsOf
  <2> HIDE DEF step, n
  <2> QED
    BY <1>2, <1>3, <1>5, <2>1, FoldRuns
<1>9. PICK have \in [0 .. n -> Nat] :
             /\ have[0] = 0 /\ have[n] = Available(lots, part)
             /\ \A k \in 1 .. n : have[k] = IF lots[k].part = part THEN have[k - 1] + lots[k].quantity ELSE have[k - 1]
  BY AvailableRuns
<1> DEFINE S == {k \in 0 .. n : ~Pulled(acc[k], lots, part, need, have[k], k)}
<1>10. S = {}
  <2>1. 0 \notin S
    BY <1>3, <1>8, <1>9 DEF RunsThrough
  <2>2. ASSUME NEW k \in 1 .. n, k \in S PROVE k - 1 \in S
    <3> SUFFICES ASSUME Pulled(acc[k - 1], lots, part, need, have[k - 1], k - 1) PROVE FALSE
      OBVIOUS
    <3>1. PICK s \in T, r \in T, h \in Nat : s = acc[k - 1] /\ r = acc[k] /\ h = have[k - 1]
      OBVIOUS
    <3>2. Taken(r, s, lots, part, k)
      <4>1. r = TakeOne(s, k)
        BY <1>8, <3>1 DEF RunsThrough
      <4> QED
        BY <1>4, <4>1
    <3>3. Pulled(r, lots, part, need, IF lots[k].part = part THEN h + lots[k].quantity ELSE h, k)
      BY <3>1, <3>2, TakingPulls DEF T
    <3>4. have[k] = IF lots[k].part = part THEN h + lots[k].quantity ELSE h
      BY <1>9, <3>1
    <3> QED
      BY <2>2, <3>1, <3>3, <3>4
  <2>3. S \in SUBSET (0 .. n)
    OBVIOUS
  <2> HIDE DEF S
  <2> QED
    BY <1>2, <2>1, <2>2, <2>3, Steps
<1>11. Pull(lots, part, need) = acc[n] /\ n \in 0 .. n /\ n \notin S
  BY <1>1, <1>2, <1>8, <1>10
<1> QED
  BY <1>9, <1>11 DEF T

-----------------------------------------------------------------------------
(* The walk past the bins.                                                   *)

\* What is put among entries stands behind the last it does not come before.
Inserted(r, s, x, n) ==
    /\ Len(r) = Len(s) + 1 /\ r[n + 1] = x
    /\ \A i \in 1 .. n : r[i] = s[i]
    /\ \A i \in (n + 1) .. Len(s) : r[i + 1] = s[i] /\ WalkLess(x, s[i])
    /\ n > 0 => ~WalkLess(x, s[n])

\* An entry is put behind those that do not come after it.
LEMMA InsertIs ==
  ASSUME NEW s \in Seq(Entries), NEW x \in Entries
  PROVE  /\ Insert(WalkLess, s, x) \in Seq(Entries)
         /\ \E n \in 0 .. Len(s) : Inserted(Insert(WalkLess, s, x), s, x, n)
<1> DEFINE S == {i \in 1 .. Len(s) : ~WalkLess(x, s[i])}
           Is(n) == /\ \A i \in (n + 1) .. Len(s) : WalkLess(x, s[i])
                    /\ n > 0 => ~WalkLess(x, s[n])
           n == CHOOSE n \in 0 .. Len(s) : Is(n)
           r == SubSeq(s, 1, n) \o <<x>> \o SubSeq(s, n + 1, Len(s))
<1>1. \E m \in 0 .. Len(s) : Is(m)
  <2>1. CASE S = {}
    <3>1. 0 \in 0 .. Len(s) /\ \A i \in (0 + 1) .. Len(s) : WalkLess(x, s[i])
      BY <2>1
    <3>2. Is(0)
      BY <3>1
    <3> QED
      BY <3>1, <3>2
  <2>2. CASE S # {}
    <3>1. PICK m \in S : \A i \in S : m >= i
      <4>1. Len(s) \in Nat /\ S \in SUBSET (1 .. Len(s))
        OBVIOUS
      <4> HIDE DEF S
      <4>2. Max(S) \in S /\ \A i \in S : Max(S) >= i
        BY <2>2, <4>1, Greatest
      <4> QED
        BY <4>2
    <3>2. \A i \in (m + 1) .. Len(s) : i \in 1 .. Len(s) /\ i \notin S
      BY <3>1
    <3>3. m \in 0 .. Len(s) /\ ~WalkLess(x, s[m])
      BY <3>1
    <3>4. Is(m)
      BY <3>2, <3>3
    <3> HIDE DEF Is
    <3> QED
      BY <3>3, <3>4
  <2> QED
    BY <2>1, <2>2
<1>2. n \in 0 .. Len(s) /\ Is(n)
  <2> HIDE DEF Is
  <2> QED
    BY <1>1
<1>3. Insert(WalkLess, s, x) = r
  BY DEF Insert
<1> HIDE DEF n
<1>4. /\ r \in Seq(Entries) /\ Len(r) = Len(s) + 1 /\ r[n + 1] = x
      /\ \A i \in 1 .. n : r[i] = s[i]
      /\ \A i \in (n + 1) .. Len(s) : r[i + 1] = s[i]
  <2> DEFINE a == SubSeq(s, 1, n)
             b == SubSeq(s, n + 1, Len(s))
  <2>1. n \in Nat /\ Len(s) \in Nat /\ n <= Len(s)
    BY <1>2
  <2>2. a \in Seq(Entries) /\ Len(a) = n /\ \A i \in 1 .. n : a[i] = s[i]
    BY <2>1
  <2>3. b \in Seq(Entries) /\ Len(b) = Len(s) - n /\ \A i \in 1 .. (Len(s) - n) : b[i] = s[n + i]
    BY <2>1
  <2> HIDE DEF a, b
  <2> DEFINE d == a \o <<x>>
  <2>4. d \in Seq(Entries) /\ Len(d) = n + 1 /\ d[n + 1] = x /\ \A i \in 1 .. n : d[i] = s[i]
    BY <2>1, <2>2
  <2> HIDE DEF d
  <2> DEFINE q == d \o b
  <2>5. q \in Seq(Entries) /\ Len(q) = Len(s) + 1
    <3>1. q \in Seq(Entries) /\ Len(q) = Len(d) + Len(b)
      BY <2>3, <2>4, SMTT(30)
    <3> HIDE DEF q
    <3> QED
      BY <2>1, <2>3, <2>4, <3>1
  <2>6. \A i \in 1 .. (n + 1) : q[i] = d[i]
    BY <2>1, <2>3, <2>4
  <2>7. \A i \in 1 .. (Len(s) - n) : q[n + 1 + i] = b[i]
    BY <2>1, <2>3, <2>4
  <2>8. r = q
    BY DEF a, b, d
  <2> HIDE DEF q, r
  <2>9. ASSUME NEW i \in (n + 1) .. Len(s) PROVE q[i + 1] = s[i]
    <3>1. PICK j \in 1 .. (Len(s) - n) : i = n + j
      <4>1. i - n \in 1 .. (Len(s) - n) /\ i = n + (i - n)
        BY <2>1
      <4> QED
        BY <4>1
    <3>2. q[n + 1 + j] = s[n + j]
      BY <2>3, <2>7
    <3>3. i + 1 = n + 1 + j
      BY <2>1, <3>1
    <3> QED
      BY <3>1, <3>2, <3>3
  <2> QED
    BY <2>1, <2>4, <2>5, <2>6, <2>8, <2>9
<1>5. Inserted(r, s, x, n)
  BY <1>2, <1>4 DEF Inserted
<1> HIDE DEF r
<1> QED
  BY <1>2, <1>3, <1>4, <1>5

\* The walk orders entries by bin and name: of two at most one comes first, and what comes
\* before another comes before or after any third.
LEMMA WalkOrders ==
  ASSUME NEW a \in Entries, NEW b \in Entries, NEW c \in Entries, WalkLess(a, c)
  PROVE  ~WalkLess(c, a) /\ (WalkLess(a, b) \/ WalkLess(b, c))
BY DEF WalkLess, Entries

\* Entries are inserted one by one.
LEMMA SortRuns ==
  ASSUME NEW s \in Seq(Entries)
  PROVE  \E acc \in [0 .. Len(s) -> Seq(Entries)] :
             /\ acc[0] = <<>> /\ acc[Len(s)] = StableSort(WalkLess, s)
             /\ \A k \in 1 .. Len(s) : acc[k] = Insert(WalkLess, acc[k - 1], s[k])
<1> DEFINE n        == Len(s)
           T        == Seq(Entries)
           base     == <<>>
           Op(t, x) == Insert(WalkLess, t, x)
           G(f)     == [d \in SUBSET DOMAIN s |-> IF d = {} THEN base ELSE Op(f[d \ {Max(d)}], s[Max(d)])]
           step     == [y \in T \X (1 .. n) |-> Op(y[1], s[y[2]])]
           c        == CHOOSE f : f = G(f)
<1>1. StableSort(WalkLess, s) = c[DOMAIN s]
  BY DEF StableSort, FoldLeft, MapThenFoldSet
<1>2. n \in Nat /\ DOMAIN s = 1 .. n /\ \A i \in 1 .. n : s[i] \in Entries
  OBVIOUS
<1>3. base \in T
  OBVIOUS
<1>4. ASSUME NEW t \in T, NEW x, x \in Entries PROVE Op(t, x) \in T
  BY <1>4, InsertIs
<1> HIDE DEF Op, T, base
<1>5. step \in [T \X (1 .. n) -> T]
  BY <1>2, <1>4
<1>6. c = G(c)
  <2>1. PICK f \in [SUBSET (1 .. n) -> T] : FoldsBy(f, base, step, n)
    <3> HIDE DEF step, n
    <3> QED
      BY <1>2, <1>3, <1>5, FoldDefined
  <2>2. ASSUME NEW d \in SUBSET (1 .. n) PROVE f[d] = IF d = {} THEN base ELSE Op(f[d \ {Max(d)}], s[Max(d)])
    <3>1. CASE d # {}
      <4>1. Max(d) \in 1 .. n
        BY <1>2, <3>1, Greatest
      <4>2. f[d \ {Max(d)}] \in T
        OBVIOUS
      <4> QED
        BY <2>1, <3>1, <4>1, <4>2 DEF FoldsBy
    <3> QED
      BY <2>1, <3>1 DEF FoldsBy
  <2>3. f = G(f)
    <3>1. f = [d \in SUBSET (1 .. n) |-> f[d]]
      OBVIOUS
    <3>2. [d \in SUBSET (1 .. n) |-> f[d]] = G(f)
      BY <1>2, <2>2
    <3> QED
      BY <3>1, <3>2
  <2> HIDE DEF G
  <2> QED
    BY <2>3
<1> HIDE DEF c
<1>7. c[{}] = base /\ \A k \in 1 .. n : c[1 .. k] = Op(c[1 .. (k - 1)], s[k])
  <2>1. \A d \in SUBSET (1 .. n) : c[d] = IF d = {} THEN base ELSE Op(c[d \ {Max(d)}], s[Max(d)])
    <3>1. c = [d \in SUBSET (1 .. n) |-> IF d = {} THEN base ELSE Op(c[d \ {Max(d)}], s[Max(d)])]
      BY <1>2, <1>6
    <3> QED
      BY <3>1
  <2>2. ASSUME NEW k \in 1 .. n PROVE c[1 .. k] = Op(c[1 .. (k - 1)], s[k])
    <3>1. 1 .. k \in SUBSET (1 .. n) /\ 1 .. k # {} /\ Max(1 .. k) = k /\ (1 .. k) \ {k} = 1 .. (k - 1)
      BY GreatestOfFirst, SMTT(30)
    <3> QED
      BY <2>1, <3>1
  <2> QED
    BY <2>1, <2>2
<1>8. PICK acc \in [0 .. n -> T] : acc[n] = c[1 .. n] /\ RunsThrough(acc, base, step, n)
  <2>1. StepsOf(c, T, base, step, n)
    BY <1>7 DEF StepsOf
  <2> HIDE DEF step, n
  <2> QED
    BY <1>2, <1>3, <1>5, <2>1, FoldRuns
<1>9. \A k \in 1 .. n : acc[k] = Op(acc[k - 1], s[k])
  <2>1. \A k \in 1 .. n : acc[k - 1] \in T
    OBVIOUS
  <2> QED
    BY <1>8, <2>1 DEF RunsThrough
<1>10. acc[0] = base /\ acc[n] = StableSort(WalkLess, s)
  BY <1>1, <1>2, <1>8 DEF RunsThrough
<1> QED
  BY <1>9, <1>10 DEF Op, T, base

\* The parts of the lines are collected line by line.
LEMMA OrderRuns ==
  ASSUME NEW lines \in Seq(Lines)
  PROVE  \E acc \in [0 .. Len(lines) -> Seq(STRING)] :
             /\ acc[0] = <<>> /\ acc[Len(lines)] = Order(lines)
             /\ \A k \in 1 .. Len(lines) : acc[k] = IF lines[k].part = NoPart \/ Contains(acc[k - 1], lines[k].part) THEN acc[k - 1] ELSE Append(acc[k - 1], lines[k].part)
<1> DEFINE n        == Len(lines)
           T        == Seq(STRING)
           base     == <<>>
           Op(t, x) == IF x.part = NoPart \/ Contains(t, x.part) THEN t ELSE Append(t, x.part)
           G(f)     == [s \in SUBSET DOMAIN lines |-> IF s = {} THEN base ELSE Op(f[s \ {Max(s)}], lines[Max(s)])]
           step     == [y \in T \X (1 .. n) |-> Op(y[1], lines[y[2]])]
           c        == CHOOSE f : f = G(f)
<1>1. Order(lines) = c[DOMAIN lines]
  BY DEF Order, FoldLeft, MapThenFoldSet
<1>2. n \in Nat /\ DOMAIN lines = 1 .. n /\ \A i \in 1 .. n : lines[i] \in Lines
  OBVIOUS
<1>3. base \in T
  OBVIOUS
<1>4. ASSUME NEW t \in T, NEW x, x \in Lines PROVE Op(t, x) \in T
  <2>1. CASE x.part = NoPart \/ Contains(t, x.part)
    BY <2>1 DEF Contains
  <2>2. CASE ~(x.part = NoPart \/ Contains(t, x.part))
    <3>1. x.part \in STRING
      BY <1>4, <2>2 DEF Lines
    <3> DEFINE r == Append(t, x.part)
    <3>2. r \in Seq(STRING)
      BY <3>1
    <3>3. Op(t, x) = r
      BY <2>2 DEF Contains
    <3> HIDE DEF r, Op
    <3> QED
      BY <3>2, <3>3
  <2> QED
    BY <2>1, <2>2
<1> HIDE DEF Op, T, base
<1>5. step \in [T \X (1 .. n) -> T]
  BY <1>2, <1>4
<1>6. c = G(c)
  <2>1. PICK f \in [SUBSET (1 .. n) -> T] : FoldsBy(f, base, step, n)
    <3> HIDE DEF step, n
    <3> QED
      BY <1>2, <1>3, <1>5, FoldDefined
  <2>2. ASSUME NEW s \in SUBSET (1 .. n) PROVE f[s] = IF s = {} THEN base ELSE Op(f[s \ {Max(s)}], lines[Max(s)])
    <3>1. CASE s # {}
      <4>1. Max(s) \in 1 .. n
        BY <1>2, <3>1, Greatest
      <4>2. f[s \ {Max(s)}] \in T
        OBVIOUS
      <4> QED
        BY <2>1, <3>1, <4>1, <4>2 DEF FoldsBy
    <3> QED
      BY <2>1, <3>1 DEF FoldsBy
  <2>3. f = G(f)
    <3>1. f = [s \in SUBSET (1 .. n) |-> f[s]]
      OBVIOUS
    <3>2. [s \in SUBSET (1 .. n) |-> f[s]] = G(f)
      BY <1>2, <2>2
    <3> QED
      BY <3>1, <3>2
  <2> HIDE DEF G
  <2> QED
    BY <2>3
<1> HIDE DEF c
<1>7. c[{}] = base /\ \A k \in 1 .. n : c[1 .. k] = Op(c[1 .. (k - 1)], lines[k])
  <2>1. \A s \in SUBSET (1 .. n) : c[s] = IF s = {} THEN base ELSE Op(c[s \ {Max(s)}], lines[Max(s)])
    <3>1. c = [s \in SUBSET (1 .. n) |-> IF s = {} THEN base ELSE Op(c[s \ {Max(s)}], lines[Max(s)])]
      BY <1>2, <1>6
    <3> QED
      BY <3>1
  <2>2. ASSUME NEW k \in 1 .. n PROVE c[1 .. k] = Op(c[1 .. (k - 1)], lines[k])
    <3>1. 1 .. k \in SUBSET (1 .. n) /\ 1 .. k # {} /\ Max(1 .. k) = k /\ (1 .. k) \ {k} = 1 .. (k - 1)
      BY GreatestOfFirst, SMTT(30)
    <3> QED
      BY <2>1, <3>1
  <2> QED
    BY <2>1, <2>2
<1>8. PICK acc \in [0 .. n -> T] : acc[n] = c[1 .. n] /\ RunsThrough(acc, base, step, n)
  <2>1. StepsOf(c, T, base, step, n)
    BY <1>7 DEF StepsOf
  <2> HIDE DEF step, n
  <2> QED
    BY <1>2, <1>3, <1>5, <2>1, FoldRuns
<1>9. \A k \in 1 .. n : acc[k] = Op(acc[k - 1], lines[k])
  <2>1. \A k \in 1 .. n : acc[k - 1] \in T
    OBVIOUS
  <2> QED
    BY <1>8, <2>1 DEF RunsThrough
<1>10. acc[0] = base /\ acc[n] = Order(lines)
  BY <1>1, <1>2, <1>8 DEF RunsThrough
<1> QED
  BY <1>9, <1>10 DEF Op, T, base

\* What the lines need of a part is added up line by line.
LEMMA RequiredRuns ==
  ASSUME NEW lines \in Seq(Lines), NEW part, NEW copies \in Nat, NEW qty \in Nat
  PROVE  \E acc \in [0 .. Len(lines) -> Nat] :
             /\ acc[0] = 0 /\ acc[Len(lines)] = Required(lines, part, copies, qty)
             /\ \A k \in 1 .. Len(lines) : acc[k] = IF lines[k].part = part THEN acc[k - 1] + lines[k].quantity * copies * qty ELSE acc[k - 1]
<1> DEFINE n        == Len(lines)
           T        == Nat
           base     == 0
           Op(t, x) == IF x.part = part THEN t + x.quantity * copies * qty ELSE t
           G(f)     == [s \in SUBSET DOMAIN lines |-> IF s = {} THEN base ELSE Op(f[s \ {Max(s)}], lines[Max(s)])]
           step     == [y \in T \X (1 .. n) |-> Op(y[1], lines[y[2]])]
           c        == CHOOSE f : f = G(f)
<1>1. Required(lines, part, copies, qty) = c[DOMAIN lines]
  BY DEF Required, FoldLeft, MapThenFoldSet
<1>2. n \in Nat /\ DOMAIN lines = 1 .. n /\ \A i \in 1 .. n : lines[i] \in Lines
  OBVIOUS
<1>3. base \in T
  OBVIOUS
<1>4. ASSUME NEW t \in T, NEW x, x \in Lines PROVE Op(t, x) \in T
  <2>1. x.quantity \in Nat
    BY <1>4 DEF Lines
  <2>2. x.quantity * copies \in Nat
    BY <2>1
  <2> DEFINE all == x.quantity * copies * qty
  <2>3. all \in Nat
    <3> DEFINE some == x.quantity * copies
    <3>1. some \in Nat
      BY <2>2
    <3> HIDE DEF some
    <3>2. some * qty \in Nat
      BY <3>1
    <3> QED
      BY <3>2 DEF some
  <2>4. Op(t, x) = IF x.part = part THEN t + all ELSE t
    OBVIOUS
  <2> HIDE DEF all, Op
  <2> QED
    BY <2>3, <2>4
<1> HIDE DEF Op, T, base
<1>5. step \in [T \X (1 .. n) -> T]
  BY <1>2, <1>4
<1>6. c = G(c)
  <2>1. PICK f \in [SUBSET (1 .. n) -> T] : FoldsBy(f, base, step, n)
    <3> HIDE DEF step, n
    <3> QED
      BY <1>2, <1>3, <1>5, FoldDefined
  <2>2. ASSUME NEW s \in SUBSET (1 .. n) PROVE f[s] = IF s = {} THEN base ELSE Op(f[s \ {Max(s)}], lines[Max(s)])
    <3>1. CASE s # {}
      <4>1. Max(s) \in 1 .. n
        BY <1>2, <3>1, Greatest
      <4>2. f[s \ {Max(s)}] \in T
        OBVIOUS
      <4> QED
        BY <2>1, <3>1, <4>1, <4>2 DEF FoldsBy
    <3> QED
      BY <2>1, <3>1 DEF FoldsBy
  <2>3. f = G(f)
    <3>1. f = [s \in SUBSET (1 .. n) |-> f[s]]
      OBVIOUS
    <3>2. [s \in SUBSET (1 .. n) |-> f[s]] = G(f)
      BY <1>2, <2>2
    <3> QED
      BY <3>1, <3>2
  <2> HIDE DEF G
  <2> QED
    BY <2>3
<1> HIDE DEF c
<1>7. c[{}] = base /\ \A k \in 1 .. n : c[1 .. k] = Op(c[1 .. (k - 1)], lines[k])
  <2>1. \A s \in SUBSET (1 .. n) : c[s] = IF s = {} THEN base ELSE Op(c[s \ {Max(s)}], lines[Max(s)])
    <3>1. c = [s \in SUBSET (1 .. n) |-> IF s = {} THEN base ELSE Op(c[s \ {Max(s)}], lines[Max(s)])]
      BY <1>2, <1>6
    <3> QED
      BY <3>1
  <2>2. ASSUME NEW k \in 1 .. n PROVE c[1 .. k] = Op(c[1 .. (k - 1)], lines[k])
    <3>1. 1 .. k \in SUBSET (1 .. n) /\ 1 .. k # {} /\ Max(1 .. k) = k /\ (1 .. k) \ {k} = 1 .. (k - 1)
      BY GreatestOfFirst, SMTT(30)
    <3> QED
      BY <2>1, <3>1
  <2> QED
    BY <2>1, <2>2
<1>8. PICK acc \in [0 .. n -> T] : acc[n] = c[1 .. n] /\ RunsThrough(acc, base, step, n)
  <2>1. StepsOf(c, T, base, step, n)
    BY <1>7 DEF StepsOf
  <2> HIDE DEF step, n
  <2> QED
    BY <1>2, <1>3, <1>5, <2>1, FoldRuns
<1>9. \A k \in 1 .. n : acc[k] = Op(acc[k - 1], lines[k])
  <2>1. \A k \in 1 .. n : acc[k - 1] \in T
    OBVIOUS
  <2> QED
    BY <1>8, <2>1 DEF RunsThrough
<1>10. acc[0] = base /\ acc[n] = Required(lines, part, copies, qty)
  BY <1>1, <1>2, <1>8 DEF RunsThrough
<1> QED
  BY <1>9, <1>10 DEF Op, T, base

\* What holds of the parts of the first k lines: each is there, and once.
Collected(acc, lines, k) ==
    /\ \A i, j \in 1 .. Len(acc) : acc[i] = acc[j] => i = j
    /\ \A i \in 1 .. Len(acc) : acc[i] # NoPart /\ \E m \in 1 .. k : lines[m].part = acc[i]
    /\ \A m \in 1 .. k : lines[m].part # NoPart => \E i \in 1 .. Len(acc) : acc[i] = lines[m].part

\* A line's part is added to the parts of the lines before it.
LEMMA CollectedStays ==
  ASSUME NEW lines \in Seq(Lines), NEW k \in 1 .. Len(lines), NEW s \in Seq(STRING), NEW r \in Seq(STRING),
         Collected(s, lines, k - 1),
         r = IF lines[k].part = NoPart \/ Contains(s, lines[k].part) THEN s ELSE Append(s, lines[k].part)
  PROVE  Collected(r, lines, k)
<1> DEFINE p == lines[k].part
<1>1. k \in 1 .. k /\ \A m \in 1 .. k : m = k \/ m \in 1 .. (k - 1)
  OBVIOUS
<1>2. \A m \in 1 .. (k - 1) : m \in 1 .. k
  OBVIOUS
<1>3. CASE p = NoPart \/ \E i \in 1 .. Len(s) : s[i] = p
  <2>1. r = s
    BY <1>3 DEF Contains
  <2> QED
    BY <1>1, <1>2, <1>3, <2>1 DEF Collected
<1>4. CASE ~(p = NoPart \/ \E i \in 1 .. Len(s) : s[i] = p)
  <2>1. r = Append(s, p)
    BY <1>4 DEF Contains
  <2>2. p \in STRING
    <3>1. lines[k] \in Lines
      OBVIOUS
    <3> QED
      BY <1>4, <3>1 DEF Lines
  <2> HIDE DEF p
  <2>3. /\ Len(s) \in Nat /\ Len(r) = Len(s) + 1 /\ r[Len(s) + 1] = p
        /\ \A i \in 1 .. Len(s) : r[i] = s[i]
    BY <2>1, <2>2
  <2>4. /\ Len(s) + 1 \in 1 .. Len(r)
        /\ \A i \in 1 .. Len(r) : i = Len(s) + 1 \/ i \in 1 .. Len(s)
        /\ \A i \in 1 .. Len(s) : i \in 1 .. Len(r)
    BY <2>3
  <2>5. \A i, j \in 1 .. Len(r) : r[i] = r[j] => i = j
    BY <1>4, <2>3, <2>4 DEF Collected
  <2>6. \A i \in 1 .. Len(r) : r[i] # NoPart /\ \E m \in 1 .. k : lines[m].part = r[i]
    BY <1>1, <1>2, <1>4, <2>3, <2>4 DEF Collected, p
  <2>7. \A m \in 1 .. k : lines[m].part # NoPart => \E i \in 1 .. Len(r) : r[i] = lines[m].part
    BY <1>1, <2>3, <2>4 DEF Collected, p
  <2> QED
    BY <2>5, <2>6, <2>7 DEF Collected
<1> QED
  BY <1>3, <1>4

\* Every part of the lines is in order once.
LEMMA OrderIs ==
  ASSUME NEW lines \in Seq(Lines)
  PROVE  Order(lines) \in Seq(STRING) /\ Collected(Order(lines), lines, Len(lines))
<1> DEFINE n == Len(lines)
<1>1. PICK acc \in [0 .. n -> Seq(STRING)] :
             /\ acc[0] = <<>> /\ acc[n] = Order(lines)
             /\ \A k \in 1 .. n : acc[k] = IF lines[k].part = NoPart \/ Contains(acc[k - 1], lines[k].part) THEN acc[k - 1] ELSE Append(acc[k - 1], lines[k].part)
  BY OrderRuns
<1> DEFINE S == {k \in 0 .. n : ~Collected(acc[k], lines, k)}
<1>2. n \in Nat /\ n \in 0 .. n /\ 0 \in 0 .. n
  OBVIOUS
<1>3. 0 \notin S
  BY <1>1, <1>2 DEF Collected
<1>4. ASSUME NEW k \in 1 .. n, k \in S PROVE k - 1 \in S
  <2> SUFFICES ASSUME Collected(acc[k - 1], lines, k - 1) PROVE FALSE
    OBVIOUS
  <2>1. PICK s \in Seq(STRING), r \in Seq(STRING) : s = acc[k - 1] /\ r = acc[k]
    OBVIOUS
  <2>2. r = IF lines[k].part = NoPart \/ Contains(s, lines[k].part) THEN s ELSE Append(s, lines[k].part)
    BY <1>1, <2>1
  <2>3. Collected(r, lines, k)
    BY <2>1, <2>2, CollectedStays
  <2> QED
    BY <1>4, <2>1, <2>3
<1>5. S \in SUBSET (0 .. n)
  OBVIOUS
<1>6. S = {}
  <2> HIDE DEF S
  <2> QED
    BY <1>2, <1>3, <1>4, <1>5, Steps
<1> QED
  BY <1>1, <1>2, <1>6

\* What is needed of a part is a number.
LEMMA RequiredIs ==
  ASSUME NEW lines \in Seq(Lines), NEW part, NEW copies \in Nat, NEW qty \in Nat
  PROVE  Required(lines, part, copies, qty) \in Nat
<1>1. \E acc \in [0 .. Len(lines) -> Nat] : acc[Len(lines)] = Required(lines, part, copies, qty)
  BY RequiredRuns
<1> QED
  BY <1>1

\* Entries of lots that differ, and what holds when the first k of them are sorted: they
\* are there, each once, and none comes before the one in front of it.
LotsDiffer(s)     == \A i, j \in 1 .. Len(s) : s[i].lot = s[j].lot => i = j
InWalk(s)    == \A i, j \in 1 .. Len(s) : i < j => ~WalkLess(s[j], s[i])
Sorted(r, s, k) ==
    /\ Len(r) = k /\ InWalk(r) /\ LotsDiffer(r)
    /\ \A j \in 1 .. k : \E i \in 1 .. k : r[j] = s[i]
    /\ \A i \in 1 .. k : \E j \in 1 .. k : r[j] = s[i]

\* An entry put into sorted ones leaves them sorted.
LEMMA InsertSorts ==
  ASSUME NEW s \in Seq(Entries), LotsDiffer(s), NEW k \in 1 .. Len(s),
         NEW t \in Seq(Entries), Sorted(t, s, k - 1),
         NEW r \in Seq(Entries), NEW n \in 0 .. (k - 1), Inserted(r, t, s[k], n)
  PROVE  Sorted(r, s, k)
<1> DEFINE x == s[k]
<1>1. x \in Entries /\ k \in Nat \ {0} /\ Len(t) = k - 1 /\ \A i \in 1 .. (k - 1) : t[i] \in Entries
  <2>1. x \in Entries /\ k \in Nat \ {0}
    OBVIOUS
  <2>2. Len(t) = k - 1
    BY DEF Sorted
  <2> QED
    BY <2>1, <2>2
<1>2. /\ Len(r) = k /\ r[n + 1] = x
      /\ \A i \in 1 .. n : r[i] = t[i]
      /\ \A i \in (n + 1) .. (k - 1) : r[i + 1] = t[i] /\ WalkLess(x, t[i])
      /\ n > 0 => ~WalkLess(x, t[n])
  <2>1. /\ Len(r) = Len(t) + 1 /\ r[n + 1] = x
        /\ \A i \in 1 .. n : r[i] = t[i]
        /\ \A i \in (n + 1) .. Len(t) : r[i + 1] = t[i] /\ WalkLess(x, t[i])
        /\ n > 0 => ~WalkLess(x, t[n])
    BY Zenon DEF Inserted
  <2> HIDE DEF x
  <2> QED
    BY <1>1, <2>1
<1> HIDE DEF x
<1>3. /\ n + 1 \in 1 .. k
      /\ \A i \in 1 .. n : i \in 1 .. k /\ i \in 1 .. (k - 1)
      /\ \A i \in (n + 1) .. (k - 1) : i + 1 \in 1 .. k /\ i \in 1 .. (k - 1)
  BY <1>1
<1>4. ASSUME NEW j \in 1 .. k
      PROVE  \/ j \in 1 .. n /\ r[j] = t[j]
             \/ j = n + 1 /\ r[j] = x
             \/ j - 1 \in (n + 1) .. (k - 1) /\ r[j] = t[j - 1]
  <2>1. j \in 1 .. n \/ j = n + 1 \/ j - 1 \in (n + 1) .. (k - 1)
    BY <1>1
  <2>2. ASSUME j - 1 \in (n + 1) .. (k - 1) PROVE r[j] = t[j - 1]
    <3>1. r[(j - 1) + 1] = t[j - 1]
      BY <1>2, <2>2
    <3>2. (j - 1) + 1 = j
      BY <1>1
    <3> QED
      BY <3>1, <3>2
  <2> QED
    BY <1>2, <2>1, <2>2
<1>5. \A i, j \in 1 .. (k - 1) : i < j => ~WalkLess(t[j], t[i])
  BY <1>1 DEF Sorted, InWalk
<1>6. \A i \in 1 .. n : ~WalkLess(x, t[i])
  <2> SUFFICES ASSUME NEW i \in 1 .. n, WalkLess(x, t[i]) PROVE FALSE
    OBVIOUS
  <2>1. n > 0 /\ n \in 1 .. (k - 1) /\ i \in 1 .. (k - 1) /\ (i < n \/ i = n)
    BY <1>1
  <2>2. ~WalkLess(x, t[n])
    BY <1>2, <2>1
  <2>3. i < n
    BY <2>1, <2>2
  <2>4. ~WalkLess(t[n], t[i])
    BY <1>5, <2>1, <2>3
  <2>5. PICK a \in Entries, b \in Entries, c \in Entries : a = x /\ b = t[n] /\ c = t[i]
    BY <1>1, <2>1
  <2> QED
    BY <2>2, <2>4, <2>5, WalkOrders
<1>7. \A i \in (n + 1) .. (k - 1) : ~WalkLess(t[i], x)
  <2> SUFFICES ASSUME NEW i \in (n + 1) .. (k - 1) PROVE ~WalkLess(t[i], x)
    OBVIOUS
  <2>1. PICK a \in Entries, c \in Entries : a = x /\ c = t[i]
    BY <1>1, <1>3
  <2>2. WalkLess(a, c)
    BY <1>2, <2>1
  <2> QED
    BY <2>1, <2>2, WalkOrders
<1>8. InWalk(r)
  <2> SUFFICES ASSUME NEW i \in 1 .. k, NEW j \in 1 .. k, i < j PROVE ~WalkLess(r[j], r[i])
    BY <1>2 DEF InWalk
  <2>1. CASE i \in 1 .. n /\ r[i] = t[i]
    <3>1. CASE j \in 1 .. n /\ r[j] = t[j]
      BY <1>3, <1>5, <2>1, <3>1
    <3>2. CASE j = n + 1 /\ r[j] = x
      BY <1>6, <2>1, <3>2
    <3>3. CASE j - 1 \in (n + 1) .. (k - 1) /\ r[j] = t[j - 1]
      <4>1. i < j - 1 /\ i \in 1 .. (k - 1) /\ j - 1 \in 1 .. (k - 1)
        BY <1>1, <2>1, <3>3
      <4> QED
        BY <1>5, <2>1, <3>3, <4>1
    <3> QED
      BY <1>4, <3>1, <3>2, <3>3
  <2>2. CASE i = n + 1 /\ r[i] = x
    <3>1. j - 1 \in (n + 1) .. (k - 1) /\ r[j] = t[j - 1]
      BY <1>1, <1>4, <2>2
    <3> QED
      BY <1>7, <2>2, <3>1
  <2>3. CASE i - 1 \in (n + 1) .. (k - 1) /\ r[i] = t[i - 1]
    <3>1. j - 1 \in (n + 1) .. (k - 1) /\ r[j] = t[j - 1]
      BY <1>1, <1>4, <2>3
    <3>2. i - 1 \in 1 .. (k - 1) /\ j - 1 \in 1 .. (k - 1) /\ i - 1 < j - 1
      BY <1>1, <2>3, <3>1
    <3> QED
      BY <1>5, <2>3, <3>1, <3>2
  <2> QED
    BY <1>4, <2>1, <2>2, <2>3
<1>9. \A i \in 1 .. (k - 1) : t[i].lot # x.lot
  <2> SUFFICES ASSUME NEW i \in 1 .. (k - 1) PROVE t[i].lot # x.lot
    OBVIOUS
  <2>1. PICK m \in 1 .. (k - 1) : t[i] = s[m]
    BY DEF Sorted
  <2>2. m \in 1 .. Len(s) /\ k \in 1 .. Len(s) /\ m # k
    BY <1>1
  <2> QED
    BY <2>1, <2>2 DEF LotsDiffer, x
<1>10. \A i, j \in 1 .. (k - 1) : t[i].lot = t[j].lot => i = j
  BY <1>1 DEF Sorted, LotsDiffer
<1>11. LotsDiffer(r)
  <2> SUFFICES ASSUME NEW i \in 1 .. k, NEW j \in 1 .. k, r[i].lot = r[j].lot PROVE i = j
    BY <1>2 DEF LotsDiffer
  <2> DEFINE Was(h) == IF h <= n THEN h ELSE h - 1
  <2>1. \A h \in 1 .. k : h = n + 1 \/ (Was(h) \in 1 .. (k - 1) /\ r[h] = t[Was(h)])
    BY <1>1, <1>4
  <2>2. CASE i = n + 1 \/ j = n + 1
    <3>1. \A h \in 1 .. k : h # n + 1 => r[h].lot # x.lot
      <4> HIDE DEF Was
      <4> QED
        BY <1>9, <2>1
    <3> QED
      BY <1>2, <2>2, <3>1
  <2>3. CASE i # n + 1 /\ j # n + 1
    <3>1. Was(i) = Was(j)
      <4> HIDE DEF Was
      <4>1. PICK a \in 1 .. (k - 1), b \in 1 .. (k - 1) : a = Was(i) /\ b = Was(j) /\ r[i] = t[a] /\ r[j] = t[b]
        BY <2>1, <2>3
      <4>2. t[a].lot = t[b].lot
        BY <4>1
      <4> QED
        BY <1>10, <4>1, <4>2
    <3> QED
      BY <1>1, <2>3, <3>1
  <2> QED
    BY <2>2, <2>3
<1>12. ASSUME NEW j \in 1 .. k PROVE \E i \in 1 .. k : r[j] = s[i]
  <2>1. CASE r[j] = x
    BY <1>1, <2>1 DEF x
  <2>2. CASE r[j] # x
    <3>1. PICK h \in 1 .. (k - 1) : r[j] = t[h]
      BY <1>3, <1>4, <2>2
    <3>2. PICK i \in 1 .. (k - 1) : t[h] = s[i]
      BY DEF Sorted
    <3>3. i \in 1 .. k
      OBVIOUS
    <3> QED
      BY <3>1, <3>2, <3>3
  <2> QED
    BY <2>1, <2>2
<1>13. ASSUME NEW i \in 1 .. k PROVE \E j \in 1 .. k : r[j] = s[i]
  <2>1. CASE i = k
    BY <1>2, <1>3, <2>1 DEF x
  <2>2. CASE i # k
    <3>1. PICK h \in 1 .. (k - 1) : t[h] = s[i]
      <4>1. i \in 1 .. (k - 1)
        BY <2>2
      <4> QED
        BY <4>1 DEF Sorted
    <3>2. h \in 1 .. n \/ h \in (n + 1) .. (k - 1)
      BY <1>1
    <3> QED
      BY <1>2, <1>3, <3>1, <3>2
  <2> QED
    BY <2>1, <2>2
<1> QED
  BY <1>2, <1>8, <1>11, <1>12, <1>13 DEF Sorted

\* Sorting loses no entry, makes none, and puts them in the order of the walk.
LEMMA SortIs ==
  ASSUME NEW s \in Seq(Entries), LotsDiffer(s)
  PROVE  StableSort(WalkLess, s) \in Seq(Entries) /\ Sorted(StableSort(WalkLess, s), s, Len(s))
<1> DEFINE n == Len(s)
<1>1. PICK acc \in [0 .. n -> Seq(Entries)] :
             /\ acc[0] = <<>> /\ acc[n] = StableSort(WalkLess, s)
             /\ \A k \in 1 .. n : acc[k] = Insert(WalkLess, acc[k - 1], s[k])
  BY SortRuns
<1> DEFINE S == {k \in 0 .. n : ~Sorted(acc[k], s, k)}
<1>2. n \in Nat /\ n \in 0 .. n /\ 0 \in 0 .. n
  OBVIOUS
<1>3. 0 \notin S
  BY <1>1, <1>2 DEF Sorted, InWalk, LotsDiffer
<1>4. ASSUME NEW k \in 1 .. n, k \in S PROVE k - 1 \in S
  <2> SUFFICES ASSUME Sorted(acc[k - 1], s, k - 1) PROVE FALSE
    OBVIOUS
  <2>1. PICK t \in Seq(Entries), r \in Seq(Entries), x \in Entries : t = acc[k - 1] /\ r = acc[k] /\ x = s[k]
    OBVIOUS
  <2>2. r = Insert(WalkLess, t, x)
    BY <1>1, <2>1
  <2>3. PICK m \in 0 .. Len(t) : Inserted(r, t, x, m)
    BY <2>2, InsertIs
  <2>4. Len(t) = k - 1
    BY <2>1 DEF Sorted
  <2>5. Sorted(r, s, k)
    BY <2>1, <2>3, <2>4, InsertSorts
  <2> QED
    BY <1>4, <2>1, <2>5
<1>5. S \in SUBSET (0 .. n)
  OBVIOUS
<1>6. S = {}
  <2> HIDE DEF S
  <2> QED
    BY <1>2, <1>3, <1>4, <1>5, Steps
<1> QED
  BY <1>1, <1>2, <1>6

\* Lists of entries no two of which are of one lot, and the first k of them as one.
AllDiffer(lists) ==
    \A a, b \in 1 .. Len(lists) : \A i \in 1 .. Len(lists[a]), j \in 1 .. Len(lists[b]) :
        lists[a][i].lot = lists[b][j].lot => a = b /\ i = j
Flat(r, lists, k) ==
    /\ LotsDiffer(r)
    /\ \A m \in 1 .. Len(r) : \E a \in 1 .. k : \E i \in 1 .. Len(lists[a]) : r[m] = lists[a][i]
    /\ \A a \in 1 .. k : \A i \in 1 .. Len(lists[a]) : \E m \in 1 .. Len(r) : r[m] = lists[a][i]

\* One list more, behind the others.
LEMMA FlatStays ==
  ASSUME NEW lists \in Seq(Seq(Entries)), AllDiffer(lists), NEW k \in 1 .. Len(lists),
         NEW t \in Seq(Entries), Flat(t, lists, k - 1), NEW r, r = t \o lists[k]
  PROVE  Flat(r, lists, k)
<1>1. PICK u \in Seq(Entries) : u = lists[k]
  OBVIOUS
<1>2. /\ Len(t) \in Nat /\ Len(u) \in Nat /\ Len(r) = Len(t) + Len(u)
      /\ (\A m \in 1 .. Len(t) : r[m] = t[m])
      /\ \A i \in 1 .. Len(u) : r[Len(t) + i] = u[i]
  BY <1>1
<1>3. /\ k \in 1 .. k /\ \A a \in 1 .. k : a = k \/ a \in 1 .. (k - 1)
      /\ \A a \in 1 .. (k - 1) : a \in 1 .. k /\ a \in 1 .. Len(lists) /\ a # k
  OBVIOUS
<1>4. ASSUME NEW m \in 1 .. Len(r) PROVE (m \in 1 .. Len(t) /\ r[m] = t[m]) \/ (m - Len(t) \in 1 .. Len(u) /\ r[m] = u[m - Len(t)])
  <2>1. CASE m \in 1 .. Len(t)
    BY <1>2, <2>1
  <2>2. CASE m \notin 1 .. Len(t)
    <3>1. m - Len(t) \in 1 .. Len(u) /\ Len(t) + (m - Len(t)) = m
      BY <1>2, <2>2
    <3> QED
      BY <1>2, <3>1
  <2> QED
    BY <2>1, <2>2
<1>5. \A m \in 1 .. Len(t), i \in 1 .. Len(u) : t[m].lot # u[i].lot
  <2> SUFFICES ASSUME NEW m \in 1 .. Len(t), NEW i \in 1 .. Len(u) PROVE t[m].lot # u[i].lot
    OBVIOUS
  <2>1. PICK a \in 1 .. (k - 1) : \E j \in 1 .. Len(lists[a]) : t[m] = lists[a][j]
    BY DEF Flat
  <2>2. a \in 1 .. Len(lists) /\ a # k
    BY <1>3
  <2>3. PICK j \in 1 .. Len(lists[a]) : t[m] = lists[a][j]
    BY <2>1
  <2>4. \A b \in 1 .. Len(lists) : \A x \in 1 .. Len(lists[a]), y \in 1 .. Len(lists[b]) :
            lists[a][x].lot = lists[b][y].lot => a = b
    BY <2>2 DEF AllDiffer
  <2>5. \A y \in 1 .. Len(lists[k]) : lists[a][j].lot # lists[k][y].lot
    BY <2>2, <2>4
  <2> QED
    BY <1>1, <2>3, <2>5
<1>6. LotsDiffer(u)
  BY <1>1 DEF AllDiffer, LotsDiffer
<1>7. LotsDiffer(r)
  <2> SUFFICES ASSUME NEW m \in 1 .. Len(r), NEW l \in 1 .. Len(r), r[m].lot = r[l].lot PROVE m = l
    BY DEF LotsDiffer
  <2>1. CASE m \in 1 .. Len(t) /\ r[m] = t[m]
    <3>1. l \in 1 .. Len(t) /\ r[l] = t[l]
      BY <1>4, <1>5, <2>1
    <3> QED
      BY <2>1, <3>1 DEF Flat, LotsDiffer
  <2>2. CASE m - Len(t) \in 1 .. Len(u) /\ r[m] = u[m - Len(t)]
    <3>1. l - Len(t) \in 1 .. Len(u) /\ r[l] = u[l - Len(t)]
      BY <1>4, <1>5, <2>2
    <3>2. PICK x \in 1 .. Len(u), y \in 1 .. Len(u) : x = m - Len(t) /\ y = l - Len(t)
      BY <2>2, <3>1
    <3>3. x = y
      BY <1>6, <2>2, <3>1, <3>2 DEF LotsDiffer
    <3> QED
      BY <1>2, <3>2, <3>3
  <2> QED
    BY <1>4, <2>1, <2>2
<1>8. ASSUME NEW m \in 1 .. Len(r) PROVE \E a \in 1 .. k : \E i \in 1 .. Len(lists[a]) : r[m] = lists[a][i]
  <2>1. CASE m \in 1 .. Len(t) /\ r[m] = t[m]
    <3>1. PICK a \in 1 .. (k - 1) : \E i \in 1 .. Len(lists[a]) : t[m] = lists[a][i]
      BY <2>1 DEF Flat
    <3> QED
      BY <1>3, <2>1, <3>1
  <2>2. CASE m - Len(t) \in 1 .. Len(u) /\ r[m] = u[m - Len(t)]
    BY <1>1, <1>3, <2>2
  <2> QED
    BY <1>4, <2>1, <2>2
<1>9. ASSUME NEW a \in 1 .. k, NEW i \in 1 .. Len(lists[a]) PROVE \E m \in 1 .. Len(r) : r[m] = lists[a][i]
  <2>1. CASE a = k
    <3>1. Len(t) + i \in 1 .. Len(r) /\ r[Len(t) + i] = u[i]
      BY <1>1, <1>2, <2>1
    <3> QED
      BY <1>1, <2>1, <3>1
  <2>2. CASE a \in 1 .. (k - 1)
    <3>1. PICK m \in 1 .. Len(t) : t[m] = lists[a][i]
      BY <2>2 DEF Flat
    <3>2. m \in 1 .. Len(r) /\ r[m] = t[m]
      BY <1>2
    <3> QED
      BY <3>1, <3>2
  <2> QED
    BY <1>3, <2>1, <2>2
<1> QED
  BY <1>7, <1>8, <1>9 DEF Flat

\* Lists put together.
LEMMA FlattenRuns ==
  ASSUME NEW lists \in Seq(Seq(Entries)), Len(lists) > 0
  PROVE  \E acc \in [0 .. Len(lists) -> Seq(Entries)] :
             /\ acc[0] = <<>> /\ acc[Len(lists)] = FlattenSeq(lists)
             /\ \A k \in 1 .. Len(lists) : acc[k] = acc[k - 1] \o lists[k]
<1> DEFINE n    == Len(lists)
           T    == Seq(Entries)
           base == <<>>
           step == [y \in T \X (1 .. n) |-> y[1] \o lists[y[2]]]
           G(f) == [i \in 1 .. n |-> IF i = 1 THEN lists[i] ELSE f[i - 1] \o lists[i]]
           c    == CHOOSE f : f = G(f)
<1>1. n \in Nat /\ n > 0 /\ DOMAIN lists = 1 .. n /\ \A i \in 1 .. n : lists[i] \in T
  OBVIOUS
<1>2. FlattenSeq(lists) = c[n]
  BY DEF FlattenSeq
<1>3. base \in T /\ \A t \in T : base \o t = t
  OBVIOUS
<1>4. \A t \in T, u \in T : t \o u \in T
  OBVIOUS
<1> HIDE DEF T, base
<1>5. step \in [T \X (1 .. n) -> T]
  BY <1>1, <1>4
<1>6. PICK f \in [SUBSET (1 .. n) -> T] : FoldsBy(f, base, step, n)
  <2> HIDE DEF step, n
  <2> QED
    BY <1>1, <1>3, <1>5, FoldDefined
<1>7. StepsOf(f, T, base, step, n)
  <2>1. f[{}] = base
    <3>1. {} \in SUBSET (1 .. n)
      OBVIOUS
    <3> QED
      BY <1>6, <3>1 DEF FoldsBy
  <2>2. ASSUME NEW k \in 1 .. n PROVE f[1 .. k] = step[<<f[1 .. (k - 1)], k>>]
    <3>0. k \in Nat \ {0} /\ 1 .. k \in SUBSET (1 .. n)
      BY <1>1
    <3>1. 1 .. k \in SUBSET (1 .. n) /\ 1 .. k # {} /\ Max(1 .. k) = k /\ (1 .. k) \ {k} = 1 .. (k - 1)
      BY <3>0, GreatestOfFirst
    <3> HIDE DEF step
    <3> QED
      BY <1>6, <3>1 DEF FoldsBy
  <2> QED
    BY <2>1, <2>2 DEF StepsOf
<1>8. PICK acc \in [0 .. n -> T] : acc[n] = f[1 .. n] /\ RunsThrough(acc, base, step, n)
  <2> HIDE DEF step, n
  <2> QED
    BY <1>1, <1>3, <1>5, <1>7, FoldRuns
<1>9. ASSUME NEW k \in 1 .. n PROVE acc[k] = acc[k - 1] \o lists[k] /\ acc[k - 1] \in T /\ acc[k] \in T
  <2>0. k - 1 \in 0 .. n /\ k \in 0 .. n
    BY <1>1
  <2>1. acc[k - 1] \in T /\ acc[k] \in T
    BY <2>0
  <2>2. step[<<acc[k - 1], k>>] = acc[k - 1] \o lists[k]
    BY <2>1
  <2> HIDE DEF step
  <2> QED
    BY <1>8, <2>1, <2>2 DEF RunsThrough
<1>10. \E g : g = G(g)
  <2> DEFINE g == [i \in 1 .. n |-> acc[i]]
  <2>1. ASSUME NEW i \in 1 .. n PROVE acc[i] = IF i = 1 THEN lists[i] ELSE g[i - 1] \o lists[i]
    <3>1. CASE i = 1
      <4>1. acc[0] = base /\ i - 1 = 0
        BY <1>8, <3>1 DEF RunsThrough
      <4> QED
        BY <1>1, <1>3, <1>9, <3>1, <4>1
    <3>2. CASE i # 1
      <4>1. i - 1 \in 1 .. n
        BY <3>2
      <4> QED
        BY <1>9, <3>2, <4>1
    <3> QED
      BY <3>1, <3>2
  <2>2. [i \in 1 .. n |-> acc[i]] = G(g)
    <3> HIDE DEF g
    <3> QED
      BY <2>1
  <2> HIDE DEF G, g
  <2>3. g = G(g)
    BY <2>2 DEF g
  <2> QED
    BY <2>3
<1>11. c = G(c)
  <2> HIDE DEF G
  <2> QED
    BY <1>10
<1> HIDE DEF c
<1>12. \A i \in 1 .. n : c[i] = IF i = 1 THEN lists[i] ELSE c[i - 1] \o lists[i]
  <2>1. c = [i \in 1 .. n |-> IF i = 1 THEN lists[i] ELSE c[i - 1] \o lists[i]]
    BY <1>11
  <2> QED
    BY <2>1
<1> DEFINE S == {k \in 0 .. n : k > 0 /\ c[k] # acc[k]}
<1>13. ASSUME NEW k \in 1 .. n, k \in S PROVE k - 1 \in S
  <2>1. CASE k = 1
    <3>1. acc[k] = lists[k]
      <4>1. acc[0] = base /\ k - 1 = 0
        BY <1>8, <2>1 DEF RunsThrough
      <4> QED
        BY <1>1, <1>3, <1>9, <4>1
    <3> QED
      BY <1>12, <1>13, <2>1, <3>1
  <2>2. CASE k # 1
    <3>1. c[k] = c[k - 1] \o lists[k] /\ acc[k] = acc[k - 1] \o lists[k]
      BY <1>9, <1>12, <2>2
    <3>2. c[k - 1] # acc[k - 1]
      BY <1>13, <3>1
    <3>3. k - 1 \in 0 .. n /\ k - 1 > 0
      BY <1>1, <2>2
    <3> QED
      BY <3>2, <3>3
  <2> QED
    BY <2>1, <2>2
<1>14. S \in SUBSET (0 .. n) /\ 0 \notin S
  OBVIOUS
<1>15. S = {}
  <2> HIDE DEF S
  <2> QED
    BY <1>1, <1>13, <1>14, Steps
<1>16. acc[n] = FlattenSeq(lists)
  BY <1>1, <1>2, <1>15
<1>17. acc[0] = base
  BY <1>8 DEF RunsThrough
<1> QED
  BY <1>9, <1>16, <1>17 DEF T, base

\* Put together they are all there, and nothing else.
LEMMA FlattenIs ==
  ASSUME NEW lists \in Seq(Seq(Entries)), AllDiffer(lists)
  PROVE  FlattenSeq(lists) \in Seq(Entries) /\ Flat(FlattenSeq(lists), lists, Len(lists))
<1> DEFINE n == Len(lists)
<1>1. n \in Nat /\ n \in 0 .. n /\ 0 \in 0 .. n
  OBVIOUS
<1>2. CASE n = 0
  <2>1. lists = <<>> /\ FlattenSeq(lists) = <<>>
    BY <1>2 DEF FlattenSeq
  <2> DEFINE none == FlattenSeq(lists)
  <2> HIDE DEF none
  <2>2. none \in Seq(Entries) /\ Len(none) = 0
    <3>1. none = <<>>
      BY <2>1 DEF none
    <3> QED
      BY <3>1
  <2>3. Flat(none, lists, n)
    BY <1>2, <2>2 DEF Flat, LotsDiffer
  <2> QED
    BY <2>2, <2>3 DEF none
<1>3. CASE n # 0
  <2>1. PICK acc \in [0 .. n -> Seq(Entries)] :
             /\ acc[0] = <<>> /\ acc[n] = FlattenSeq(lists)
             /\ \A k \in 1 .. n : acc[k] = acc[k - 1] \o lists[k]
    <3>1. Len(lists) > 0
      BY <1>1, <1>3
    <3> QED
      BY <3>1, FlattenRuns
  <2> DEFINE S == {k \in 0 .. n : ~Flat(acc[k], lists, k)}
  <2>2. 0 \notin S
    BY <2>1, <1>1 DEF Flat, LotsDiffer
  <2>3. ASSUME NEW k \in 1 .. n, k \in S PROVE k - 1 \in S
    <3> SUFFICES ASSUME Flat(acc[k - 1], lists, k - 1) PROVE FALSE
      OBVIOUS
    <3>0. k - 1 \in 0 .. n /\ k \in 0 .. n
      BY <1>1
    <3>1. PICK t \in Seq(Entries), r \in Seq(Entries) : t = acc[k - 1] /\ r = acc[k]
      BY <3>0
    <3>2. r = t \o lists[k]
      BY <2>1, <3>1
    <3>3. Flat(r, lists, k)
      BY <3>1, <3>2, FlatStays
    <3> QED
      BY <2>3, <3>1, <3>3
  <2>4. S \in SUBSET (0 .. n)
    OBVIOUS
  <2>5. S = {}
    <3> HIDE DEF S
    <3> QED
      BY <1>1, <2>2, <2>3, <2>4, Steps
  <2> QED
    BY <1>1, <2>1, <2>5
<1> QED
  BY <1>2, <1>3

\* What a pick list has of a part, for a number of boards.
Times(n) == IF n < 1 THEN 1 ELSE n
PulledFor(lines, copies, qty, lots, p) == Pull(lots, p, Required(lines, p, Times(copies), Times(qty))).entries

\* The walk past the bins has what was pulled for each part some line means, every lot
\* of it once, and nothing else, in the order of the bins and in one bin by name: no
\* second walk is needed for a bin that was passed (Compute).
THEOREM WalkTakesThePulls ==
  ASSUME NEW lines \in Seq(Lines), NEW lots \in Seq(Lots), NEW copies \in Int, NEW qty \in Int
  PROVE  LET walk     == Compute(lines, copies, qty, lots).entries
             Pulls(p) == PulledFor(lines, copies, qty, lots, p)
         IN  /\ InWalk(walk) /\ LotsDiffer(walk)
             /\ \A j \in 1 .. Len(walk) : \E m \in 1 .. Len(lines) :
                    /\ lines[m].part # NoPart
                    /\ \E i \in 1 .. Len(Pulls(lines[m].part)) : walk[j] = Pulls(lines[m].part)[i]
             /\ \A m \in 1 .. Len(lines) : lines[m].part # NoPart =>
                    \A i \in 1 .. Len(Pulls(lines[m].part)) : \E j \in 1 .. Len(walk) : walk[j] = Pulls(lines[m].part)[i]
<1> DEFINE c        == Times(copies)
           q        == Times(qty)
           order    == Order(lines)
           Need(p)  == Required(lines, p, c, q)
           Pulls(p) == PulledFor(lines, copies, qty, lots, p)
           lists    == [i \in DOMAIN order |-> Pulls(order[i])]
           pulls    == FlattenSeq(lists)
           walk     == StableSort(WalkLess, pulls)
<1>1. Compute(lines, copies, qty, lots).entries = walk
  BY DEF Compute, PulledFor, Times
<1>2. c \in Nat /\ q \in Nat
  BY DEF Times
<1> HIDE DEF c, q
<1>3. order \in Seq(STRING) /\ Collected(order, lines, Len(lines))
  BY OrderIs
<1> HIDE DEF order
<1>4. ASSUME NEW p
      PROVE  /\ Pulls(p) \in Seq(Entries) /\ \A i \in 1 .. Len(Pulls(p)) : Pulls(p)[i].part = p
             /\ \A i, j \in 1 .. Len(Pulls(p)) : i < j => Pulls(p)[i].lot < Pulls(p)[j].lot
             /\ \A i \in 1 .. Len(Pulls(p)) : lots[Pulls(p)[i].lot].part = p
  <2>1. PICK need \in Nat : need = Need(p)
    BY <1>2, RequiredIs
  <2> DEFINE out == Pull(lots, p, need)
             es  == out.entries
  <2>2. out \in Pulling /\ Pulled(out, lots, p, need, Available(lots, p), Len(lots))
    BY PartsArePulled
  <2>3. Pulls(p) = es
    BY <2>1 DEF PulledFor, c, q
  <2> HIDE DEF out
  <2>4. es \in Seq(Entries) /\ DOMAIN es = 1 .. Len(es)
    BY <2>2 DEF Pulling
  <2>5. \A i \in 1 .. Len(es) : es[i].part = p /\ lots[es[i].lot].part = p
    BY <2>2, <2>4 DEF Pulled, From
  <2>6. \A i, j \in 1 .. Len(es) : i < j => es[i].lot < es[j].lot
    BY <2>2, <2>4 DEF Pulled
  <2> HIDE DEF es, Pulls
  <2> QED
    BY <2>3, <2>4, <2>5, <2>6
<1> HIDE DEF Pulls
<1>5. Len(order) \in Nat /\ DOMAIN order = 1 .. Len(order)
  BY <1>3
<1>6. lists \in Seq(Seq(Entries)) /\ Len(lists) = Len(order) /\ \A a \in 1 .. Len(order) : lists[a] = Pulls(order[a])
  BY <1>4, <1>5
<1> HIDE DEF lists
<1>7. AllDiffer(lists)
  <2> SUFFICES ASSUME NEW a \in 1 .. Len(lists), NEW b \in 1 .. Len(lists),
                      NEW i \in 1 .. Len(lists[a]), NEW j \in 1 .. Len(lists[b]),
                      lists[a][i].lot = lists[b][j].lot
               PROVE  a = b /\ i = j
    BY Zenon DEF AllDiffer
  <2>0. /\ a \in 1 .. Len(order) /\ b \in 1 .. Len(order)
        /\ lists[a] = Pulls(order[a]) /\ lists[b] = Pulls(order[b])
    BY <1>6
  <2>01. /\ i \in 1 .. Len(Pulls(order[a])) /\ j \in 1 .. Len(Pulls(order[b]))
         /\ Pulls(order[a])[i].lot = Pulls(order[b])[j].lot
    BY <2>0
  <2>1. order[a] = order[b]
    <3>1. lots[Pulls(order[a])[i].lot].part = order[a]
      BY <1>4, <2>0, <2>01
    <3>2. lots[Pulls(order[b])[j].lot].part = order[b]
      BY <1>4, <2>0, <2>01
    <3> QED
      BY <2>01, <3>1, <3>2
  <2>2. a = b
    BY <1>3, <2>0, <2>1 DEF Collected
  <2>3. PICK es \in Seq(Entries) : es = Pulls(order[a])
    BY <1>4, <2>0
  <2>4. \A x, y \in 1 .. Len(es) : x < y => es[x].lot < es[y].lot
    BY <1>4, <2>0, <2>3
  <2>5. \A x \in 1 .. Len(es) : es[x].lot \in Nat
    <3>1. \A x \in 1 .. Len(es) : es[x] \in Entries
      OBVIOUS
    <3> QED
      BY <3>1 DEF Entries
  <2>6. i \in 1 .. Len(es) /\ j \in 1 .. Len(es) /\ es[i].lot = es[j].lot
    BY <2>01, <2>2, <2>3
  <2>7. ~(i < j) /\ ~(j < i)
    BY <2>4, <2>5, <2>6
  <2>8. i \in Int /\ j \in Int
    OBVIOUS
  <2> QED
    BY <2>2, <2>7, <2>8
<1>8. pulls \in Seq(Entries) /\ Flat(pulls, lists, Len(order))
  BY <1>6, <1>7, FlattenIs
<1> HIDE DEF pulls
<1>9. walk \in Seq(Entries) /\ Sorted(walk, pulls, Len(pulls))
  BY <1>8, SortIs DEF Flat
<1> HIDE DEF walk
<1>10. InWalk(walk) /\ LotsDiffer(walk) /\ Len(walk) = Len(pulls)
  BY <1>9 DEF Sorted
<1>11. ASSUME NEW j \in 1 .. Len(walk)
       PROVE  \E m \in 1 .. Len(lines) :
                    /\ lines[m].part # NoPart
                    /\ \E i \in 1 .. Len(Pulls(lines[m].part)) : walk[j] = Pulls(lines[m].part)[i]
  <2>1. PICK k \in 1 .. Len(pulls) : walk[j] = pulls[k]
    BY <1>9, <1>10 DEF Sorted
  <2>2. PICK a \in 1 .. Len(order) : \E i \in 1 .. Len(lists[a]) : pulls[k] = lists[a][i]
    BY <1>8 DEF Flat
  <2>3. PICK m \in 1 .. Len(lines) : lines[m].part = order[a] /\ order[a] # NoPart
    BY <1>3 DEF Collected
  <2> QED
    BY <1>6, <2>1, <2>2, <2>3
<1>12. ASSUME NEW m \in 1 .. Len(lines), lines[m].part # NoPart, NEW i \in 1 .. Len(Pulls(lines[m].part))
       PROVE  \E j \in 1 .. Len(walk) : walk[j] = Pulls(lines[m].part)[i]
  <2>1. PICK a \in 1 .. Len(order) : order[a] = lines[m].part
    BY <1>3, <1>12 DEF Collected
  <2>2. PICK k \in 1 .. Len(pulls) : pulls[k] = lists[a][i]
    <3>1. i \in 1 .. Len(lists[a])
      BY <1>6, <2>1
    <3> QED
      BY <1>8, <3>1 DEF Flat
  <2>3. PICK j \in 1 .. Len(pulls) : walk[j] = pulls[k]
    BY <1>9 DEF Sorted
  <2> QED
    BY <1>6, <1>10, <2>1, <2>2, <2>3
<1> QED
  BY <1>1, <1>10, <1>11, <1>12 DEF Pulls

-----------------------------------------------------------------------------
(* The built-in layout.                                                      *)

\* A text of one line is as high as the line, where it stands.
LEMMA OneLine ==
  ASSUME NEW x, NEW y \in Int, NEW w, NEW font \in Nat \ {0}
  PROVE  LET a == Inked(Element("text", x, y, w, 0, font))
         IN  a.x = x /\ a.y = y /\ a.w = w /\ a.h = LineHeight(font)
<1> DEFINE box   == Element("text", x, y, w, 0, font)
           most  == AtLeast(box.h \div LineHeight(box.font), 1)
           shown == AtMost(1, most)
           slack == AtLeast(box.h - shown * LineHeight(box.font), 0)
           a     == [box EXCEPT !.y = @ + 0, !.h = shown * LineHeight(box.font)]
<1>1. box = [type |-> "text", x |-> x, y |-> y, w |-> w, h |-> 0, font |-> font]
  BY DEF Element
<1>2. Inked(box) = a
  BY <1>1 DEF Inked, drawText
<1>3. LineHeight(font) \in Nat \ {0}
  BY DEF LineHeight
<1> HIDE DEF a
<1>4. box.h = 0 /\ box.y = y /\ box.x = x /\ box.w = w /\ box.font = font
  BY <1>1
<1>5. shown = 1
  <2>1. 0 \div LineHeight(font) \in Int
    BY <1>3
  <2> QED
    BY <1>4, <2>1 DEF AtMost, AtLeast
<1> HIDE DEF box, shown
<1>6. a = [type |-> "text", x |-> x, y |-> y, w |-> w, h |-> LineHeight(font), font |-> font]
  <2>1. shown * LineHeight(box.font) = LineHeight(font)
    BY <1>3, <1>4, <1>5
  <2>2. box.y + 0 = y
    BY <1>4
  <2>3. a = [box EXCEPT !.y = box.y + 0, !.h = LineHeight(font)]
    BY <2>1 DEF a
  <2>4. a = [box EXCEPT !.y = y, !.h = LineHeight(font)]
    BY <2>2, <2>3
  <2> HIDE DEF a
  <2> QED
    BY <1>1, <2>4
<1> QED
  BY <1>2, <1>6 DEF box

\* What is drawn of a box is on a label of that size.
On(box, lw, lh) ==
    LET a == Inked(box) IN a.x >= 0 /\ a.y >= 0 /\ a.x + a.w <= 100 * lw /\ a.y + a.h <= 100 * lh
Clear(box, other) == Apart(Inked(box), Inked(other)) /\ Apart(Inked(other), Inked(box))

\* Boxes fit when each is on the label and any two are clear of each other.
LEMMA EachFits ==
  ASSUME NEW lw, NEW lh, NEW boxes, \A i \in DOMAIN boxes : On(boxes[i], lw, lh),
         \A i, j \in DOMAIN boxes : i # j => Clear(boxes[i], boxes[j])
  PROVE  FitsOn(boxes, lw, lh)
BY DEF FitsOn, On, Clear

\* What a concatenation holds.
Joins(u, s, t) ==
    /\ Len(u) = Len(s) + Len(t)
    /\ \A i \in 1 .. Len(s) : u[i] = s[i]
    /\ \A i \in 1 .. Len(t) : u[Len(s) + i] = t[i]

\* A sequence behind another has the elements of both, in order.
LEMMA Both ==
  ASSUME NEW S, NEW s \in Seq(S), NEW t \in Seq(S)
  PROVE  s \o t \in Seq(S) /\ Joins(s \o t, s, t)
BY DEF Joins

\* One element behind a pair, and two.
LEMMA TwoAndOne ==
  ASSUME NEW S, NEW s \in Seq(S), NEW t \in Seq(S), Len(s) = 2, Len(t) = 1
  PROVE  s \o t = <<s[1], s[2], t[1]>>
<1>1. PICK u : u = s \o t
  OBVIOUS
<1>2. u \in Seq(S) /\ Joins(u, s, t)
  BY <1>1, Both
<1>3. u[1] = s[1] /\ u[2] = s[2]
  BY <1>2 DEF Joins
<1>4. u[3] = t[1]
  <2>1. 1 \in 1 .. Len(t) /\ Len(s) + 1 = 3
    OBVIOUS
  <2> QED
    BY <1>2, <2>1 DEF Joins
<1>5. Len(u) = 3
  BY <1>2 DEF Joins
<1>6. u = <<s[1], s[2], t[1]>>
  BY <1>2, <1>3, <1>4, <1>5
<1> QED
  BY <1>1, <1>6

\* Two elements behind a pair.
LEMMA TwoAndTwo ==
  ASSUME NEW S, NEW s \in Seq(S), NEW t \in Seq(S), Len(s) = 2, Len(t) = 2
  PROVE  s \o t = <<s[1], s[2], t[1], t[2]>>
<1>1. PICK u : u = s \o t
  OBVIOUS
<1>2. u \in Seq(S) /\ Joins(u, s, t)
  BY <1>1, Both
<1>3. u[1] = s[1] /\ u[2] = s[2]
  BY <1>2 DEF Joins
<1>4. u[3] = t[1] /\ u[4] = t[2]
  <2>1. 1 \in 1 .. Len(t) /\ 2 \in 1 .. Len(t) /\ Len(s) + 1 = 3 /\ Len(s) + 2 = 4
    OBVIOUS
  <2> QED
    BY <1>2, <2>1 DEF Joins
<1>5. Len(u) = 4
  BY <1>2 DEF Joins
<1>6. u = <<s[1], s[2], t[1], t[2]>>
  BY <1>2, <1>3, <1>4, <1>5
<1> QED
  BY <1>1, <1>6

\* Boxes behind two others.
LEMMA Behind ==
  ASSUME NEW a, NEW b, NEW c, NEW d
  PROVE  /\ <<a, b>> \o <<>> = <<a, b>>
         /\ <<a, b>> \o <<c, d>> = <<a, b, c, d>>
         /\ <<a, b>> \o <<c>> = <<a, b, c>>
<1> DEFINE S == {a, b, c, d}
           s == <<a, b>>
           t == <<c>>
           u == <<c, d>>
<1>1. s \in Seq(S) /\ Len(s) = 2 /\ s[1] = a /\ s[2] = b
  OBVIOUS
<1>2. t \in Seq(S) /\ Len(t) = 1 /\ t[1] = c
  OBVIOUS
<1>3. u \in Seq(S) /\ Len(u) = 2 /\ u[1] = c /\ u[2] = d
  OBVIOUS
<1> HIDE DEF s, t, u, S
<1>4. s \o <<>> = s
  BY <1>1
<1>5. s \o t = <<s[1], s[2], t[1]>>
  BY <1>1, <1>2, TwoAndOne
<1>6. s \o u = <<s[1], s[2], u[1], u[2]>>
  BY <1>1, <1>3, TwoAndTwo
<1>7. s \o <<>> = <<a, b>>
  BY <1>4 DEF s
<1> QED
  BY <1>1, <1>2, <1>3, <1>5, <1>6, <1>7 DEF s, t, u

\* The built-in layout adapts to the size of the label: on any of 46 by 36 points or more
\* the link, the name, the code, its bars and the line under a lot's name are drawn inside of
\* it, and none over another, whatever they say (BuildPartLabel, BuildStockLabel).
THEOREM BuiltInLabelsFit ==
  ASSUME NEW lw \in Nat, NEW lh \in Nat, lw >= 46, lh >= 36, NEW ipn, NEW sub
  PROVE  FitsOn(BuildPartLabel(lw, lh, ipn), lw, lh) /\ FitsOn(BuildStockLabel(lw, lh, sub), lw, lh)
<1> DEFINE pad   == Pad(lh)
           side  == QrSide(lw, lh)
           textX == TextX(lw, lh)
           width == TextWidth(lw, lh)
           font  == clamp(13 * lh, 700, 1200)
           bcH   == clamp(28 * lh, 1200, 4000)
           small == clamp(11 * lh, 600, 900)
           bcY   == 100 * lh - pad - bcH
           below == pad + (font * 5) \div 2
           link == Element("qr", pad, pad, side, side, 0)
           name == Element("text", textX, pad, width, 0, font)
           code == Element("text", textX, bcY - 900, width, 0, 650)
           bars == Element("barcode", textX, bcY, width, bcH, 0)
           line == Element("text", textX, below, width, 0, small)
<1>1. /\ pad \in 288 .. 700
      /\ side \in Nat /\ side <= 50 * lw /\ side <= 100 * lh - 2 * pad
      /\ textX = pad + side + 800
      /\ width \in Nat /\ textX + width <= 100 * lw
      /\ font \in 700 .. 1200 /\ (font = 700 \/ font <= 13 * lh)
      /\ bcH \in 1200 .. 4000 /\ (bcH = 1200 \/ bcH <= 28 * lh)
      /\ small \in 600 .. 900
      /\ pad <= 300 \/ pad <= 8 * lh
  BY DEF Pad, QrSide, TextX, TextWidth, clamp, AtMost, AtLeast
<1>2. Heading(lw, lh) = <<link, name>>
  BY DEF Heading
<1> DEFINE partRest  == IF ipn = "" THEN <<>> ELSE <<code, bars>>
           stockRest == IF sub = <<>> THEN <<>> ELSE <<line>>
<1>21. BuildPartLabel(lw, lh, ipn) = Heading(lw, lh) \o partRest /\ BuildStockLabel(lw, lh, sub) = Heading(lw, lh) \o stockRest
  BY DEF BuildPartLabel, BuildStockLabel
<1> HIDE DEF link, name, code, bars, line
<1>22. (partRest = <<>> \/ partRest = <<code, bars>>) /\ (stockRest = <<>> \/ stockRest = <<line>>)
  BY Zenon
<1> HIDE DEF partRest, stockRest
<1> USE DEF link, name, code, bars, line
<1> HIDE DEF pad, side, textX, width, font, bcH, small
<1>3. /\ Inked(link).x = pad /\ Inked(link).y = pad /\ Inked(link).w = side /\ Inked(link).h = side
      /\ Inked(bars).x = textX /\ Inked(bars).y = bcY /\ Inked(bars).w = width /\ Inked(bars).h = bcH
  BY DEF Inked, Element
<1>4. /\ Inked(name).x = textX /\ Inked(name).y = pad /\ Inked(name).w = width /\ Inked(name).h = LineHeight(font)
      /\ Inked(code).x = textX /\ Inked(code).y = bcY - 900 /\ Inked(code).w = width /\ Inked(code).h = LineHeight(650)
      /\ Inked(line).x = textX /\ Inked(line).y = below /\ Inked(line).w = width /\ Inked(line).h = LineHeight(small)
  <2>1. pad \in Int /\ bcY - 900 \in Int /\ below \in Int /\ font \in Nat \ {0} /\ small \in Nat \ {0} /\ 650 \in Nat \ {0}
    BY <1>1
  <2> QED
    BY <2>1, OneLine
<1>5. LineHeight(650) = 767 /\ LineHeight(font) \in 826 .. 1416 /\ LineHeight(small) \in 708 .. 1062
      /\ 100 * LineHeight(font) <= 118 * font
  BY <1>1 DEF LineHeight
<1> HIDE DEF link, name, code, bars, line
<1>6. On(link, lw, lh) /\ On(name, lw, lh) /\ On(code, lw, lh) /\ On(bars, lw, lh) /\ On(line, lw, lh)
  <2>1. pad >= 0 /\ textX >= 0 /\ bcY - 900 >= 0 /\ bcY >= 0 /\ below >= 0
    BY <1>1
  <2>2. pad + side <= 100 * lw /\ pad + side <= 100 * lh
    BY <1>1
  <2>3. pad + LineHeight(font) <= 100 * lh /\ bcY - 900 + LineHeight(650) <= 100 * lh /\ bcY + bcH <= 100 * lh
    BY <1>1, <1>5
  <2>4. below + LineHeight(small) <= 100 * lh
    BY <1>1, <1>5
  <2> QED
    BY <1>1, <1>3, <1>4, <2>1, <2>2, <2>3, <2>4 DEF On
<1>7. Clear(link, name) /\ Clear(link, code) /\ Clear(link, bars) /\ Clear(link, line)
  <2>1. pad + side <= textX
    BY <1>1
  <2> QED
    BY <1>3, <1>4, <2>1 DEF Clear, Apart
<1>8. Clear(name, code) /\ Clear(name, bars) /\ Clear(code, bars) /\ Clear(name, line)
  <2>1. pad + LineHeight(font) <= bcY - 900
    BY <1>1, <1>5
  <2>2. bcY - 900 + LineHeight(650) <= bcY
    BY <1>1, <1>5
  <2>3. pad + LineHeight(font) <= bcY
    BY <1>1, <1>5, <2>1
  <2>4. pad + LineHeight(font) <= below
    BY <1>1, <1>5
  <2> QED
    BY <1>3, <1>4, <2>1, <2>2, <2>3, <2>4 DEF Clear, Apart
<1>9. \A a, b : Clear(a, b) => Clear(b, a)
  BY DEF Clear
<1>10. FitsOn(BuildPartLabel(lw, lh, ipn), lw, lh)
  <2>1. FitsOn(<<link, name>>, lw, lh)
    BY <1>6, <1>7, <1>9, EachFits
  <2>2. FitsOn(<<link, name, code, bars>>, lw, lh)
    BY <1>6, <1>7, <1>8, <1>9, EachFits
  <2>3. <<link, name>> \o <<code, bars>> = <<link, name, code, bars>>
    BY Behind, ZenonT(30)
  <2>4. <<link, name>> \o <<>> = <<link, name>>
    BY Behind, Zenon
  <2> QED
    BY <1>2, <1>21, <1>22, <2>1, <2>2, <2>3, <2>4, Zenon
<1>11. FitsOn(BuildStockLabel(lw, lh, sub), lw, lh)
  <2>1. FitsOn(<<link, name>>, lw, lh)
    BY <1>6, <1>7, <1>9, EachFits
  <2>2. FitsOn(<<link, name, line>>, lw, lh)
    BY <1>6, <1>7, <1>8, <1>9, EachFits
  <2>3. <<link, name>> \o <<line>> = <<link, name, line>>
    BY Behind, Zenon
  <2>4. <<link, name>> \o <<>> = <<link, name>>
    BY Behind, Zenon
  <2> QED
    BY <1>2, <1>21, <1>22, <2>1, <2>2, <2>3, <2>4, Zenon
<1> QED
  BY <1>10, <1>11

\* A text that has room for a line of its own is drawn inside of its box, however many
\* lines it has and wherever in the box it stands.
THEOREM TextStaysInBox ==
  ASSUME NEW box, box = [type |-> box.type, x |-> box.x, y |-> box.y, w |-> box.w, h |-> box.h, font |-> box.font],
         box.y \in Int, box.h \in Nat, box.font \in Nat \ {0}, NEW lines \in Nat \ {0}, NEW valign
  PROVE  LET d == drawText(box, lines, valign)
         IN  /\ d.h > 0
             /\ LineHeight(box.font) <= box.h => d.y >= box.y /\ d.y + d.h <= box.y + box.h
<1> DEFINE high  == LineHeight(box.font)
           most  == AtLeast(box.h \div high, 1)
           shown == AtMost(lines, most)
           slack == AtLeast(box.h - shown * high, 0)
           off   == CASE valign = "M" -> slack \div 2 [] valign = "B" -> slack [] OTHER -> 0
           d     == drawText(box, lines, valign)
<1>1. d = [box EXCEPT !.y = @ + off, !.h = shown * high]
  BY DEF drawText
<1>2. high \in Nat \ {0}
  BY DEF LineHeight
<1>3. off = slack \div 2 \/ off = slack \/ off = 0
  BY Zenon
<1> HIDE DEF d, off, high
<1>4. d.y = box.y + off /\ d.h = shown * high
  BY <1>1
<1>5. PICK n \in Nat : n = box.h \div high /\ n * high <= box.h /\ (high <= box.h => n >= 1)
  <2>1. box.h \div high \in Nat /\ (box.h \div high) * high <= box.h /\ (high <= box.h => box.h \div high >= 1)
    BY <1>2
  <2> QED
    BY <2>1
<1>6. shown \in Nat \ {0} /\ (shown <= n \/ shown = 1)
  BY <1>5 DEF AtMost, AtLeast
<1> HIDE DEF shown
<1>7. PICK inked \in Nat \ {0} : inked = shown * high /\ (high <= box.h => inked <= box.h)
  <2>1. shown * high \in Nat \ {0}
    BY <1>2, <1>6
  <2>2. ASSUME high <= box.h PROVE shown * high <= box.h
    <3>1. shown <= n
      BY <1>5, <1>6, <2>2
    <3>2. shown * high <= n * high
      BY <1>2, <1>6, <3>1
    <3> QED
      BY <1>2, <1>5, <1>6, <3>2
  <2> QED
    BY <2>1, <2>2
<1>8. slack = AtLeast(box.h - inked, 0)
  BY <1>7
<1> HIDE DEF slack
<1>9. slack \in Nat /\ (high <= box.h => slack = box.h - inked)
  BY <1>7, <1>8 DEF AtLeast
<1>10. high <= box.h => off >= 0 /\ off + inked <= box.h /\ off \in Int
  BY <1>3, <1>7, <1>9
<1> QED
  BY <1>4, <1>7, <1>10 DEF d, high

-----------------------------------------------------------------------------
\* Matches.

\* The rungs of a line, one by one.
LEMMA RungsAre ==
  ASSUME NEW db, NEW rules, NEW l
  PROVE  LET rungs == Rungs(db, rules, l)
         IN  /\ DOMAIN rungs = 1 .. 6
             /\ rungs[1] = <<"fbpn", IF Unsaid(l.ipn) THEN {} ELSE FindPartByIPN(db, l.ipn)>>
             /\ rungs[2] = <<"project", ProjectMatch(rules, matchKey(l))>>
             /\ rungs[3][1] = "mpn" /\ rungs[4][1] = "supplier" /\ rungs[5][1] = "value_footprint"
             /\ rungs[6] = <<"tag", tagMatch(db, l.words)>>
BY DEF Rungs

\* What answers is the best rung that has an answer.
LEMMA BestAnswers ==
  ASSUME NEW db, NEW rules, NEW l, NEW i \in 1 .. 6, Rungs(db, rules, l)[i][2] # {},
         \A j \in 1 .. i - 1 : Rungs(db, rules, l)[j][2] = {}
  PROVE  resolveMatch(db, rules, l) =
             {[part |-> p, kind |-> Rungs(db, rules, l)[i][1]] : p \in Rungs(db, rules, l)[i][2]}
<1> DEFINE rungs == Rungs(db, rules, l)
           hits  == {j \in DOMAIN rungs : rungs[j][2] # {}}
           first == CHOOSE j \in hits : \A k \in hits : j <= k
<1>1. DOMAIN rungs = 1 .. 6
  BY RungsAre
<1> HIDE DEF rungs
<1>2. i \in hits /\ hits \subseteq Int
  BY <1>1 DEF rungs
<1>3. \A k \in hits : i <= k
  BY <1>1 DEF rungs
<1> HIDE DEF hits
<1>4. first \in hits /\ \A k \in hits : first <= k
  BY <1>2, <1>3
<1> HIDE DEF first
<1>5. first = i
  <2>1. first <= i /\ i <= first
    BY <1>2, <1>3, <1>4
  <2>2. first \in Int
    BY <1>2, <1>4
  <2> QED
    BY <2>1, <2>2
<1>6. hits # {}
  BY <1>2
<1>7. resolveMatch(db, rules, l) = {[part |-> p, kind |-> rungs[first][1]] : p \in rungs[first][2]}
  BY <1>6, Zenon DEF resolveMatch, hits, first, rungs
<1> QED
  BY <1>5, <1>7 DEF rungs

\* Every match is an answer of a rung, and of the best that has one.
LEMMA MatchIsAnswer ==
  ASSUME NEW db, NEW rules, NEW l, NEW m \in resolveMatch(db, rules, l)
  PROVE  \/ m = [part |-> NoPart, kind |-> "none"]
         \/ \E i \in 1 .. 6 : /\ m.kind = Rungs(db, rules, l)[i][1] /\ m.part \in Rungs(db, rules, l)[i][2]
                              /\ \A j \in 1 .. i - 1 : Rungs(db, rules, l)[j][2] = {}
<1>1. PICK rungs : rungs = Rungs(db, rules, l) /\ DOMAIN rungs = 1 .. 6
  BY RungsAre
<1>2. CASE \A j \in 1 .. 6 : rungs[j][2] = {}
  <2>1. {j \in DOMAIN rungs : rungs[j][2] # {}} = {}
    BY <1>1, <1>2
  <2>2. resolveMatch(db, rules, l) = {[part |-> NoPart, kind |-> "none"]}
    BY <1>1, <2>1 DEF resolveMatch
  <2> QED
    BY <2>2
<1>3. CASE \E j \in 1 .. 6 : rungs[j][2] # {}
  <2> DEFINE hits == {j \in 1 .. 6 : rungs[j][2] # {}}
  <2>1. hits \in SUBSET Nat /\ hits # {}
    BY <1>3
  <2> HIDE DEF hits
  <2>2. PICK i \in hits : \A k \in hits : i <= k
    BY <2>1, Least
  <2>3. i \in 1 .. 6 /\ rungs[i][2] # {} /\ \A k \in 1 .. i - 1 : rungs[k][2] = {}
    BY <2>2 DEF hits
  <2>4. resolveMatch(db, rules, l) = {[part |-> p, kind |-> rungs[i][1]] : p \in rungs[i][2]}
    BY <1>1, <2>3, BestAnswers
  <2>5. m.kind = rungs[i][1] /\ m.part \in rungs[i][2]
    BY <2>4
  <2> QED
    BY <1>1, <2>3, <2>5
<1> QED
  BY <1>2, <1>3

\* A choice kept for a key decides every line of that key whose own part number names no
\* part, whatever else could answer, and changes no other line (resolveMatch with the
\* rules of SetMatch), when every lookup is answered.
THEOREM RulesDecideTheirLines ==
  ASSUME NEW db, NEW rules, NEW key, NEW part, part # NoPart, NEW l
  PROVE  LET more == [k \in DOMAIN rules \cup {key} |-> IF k = key THEN part ELSE rules[k]]
             own  == ~Unsaid(l.ipn) /\ FindPartByIPN(db, l.ipn) # {}
         IN  resolveMatch(db, more, l) = IF ~own /\ matchKey(l) = key THEN {[part |-> part, kind |-> "project"]}
                                         ELSE resolveMatch(db, rules, l)
<1> DEFINE more == [k \in DOMAIN rules \cup {key} |-> IF k = key THEN part ELSE rules[k]]
           own  == ~Unsaid(l.ipn) /\ FindPartByIPN(db, l.ipn) # {}
<1>1. CASE matchKey(l) # key
  <2>1. PICK k : k = matchKey(l) /\ k # key
    BY <1>1
  <2>2. (k \in DOMAIN more <=> k \in DOMAIN rules) /\ (k \in DOMAIN rules => more[k] = rules[k])
    BY <2>1
  <2>3. ProjectMatch(more, k) = ProjectMatch(rules, k)
    BY <2>2 DEF ProjectMatch
  <2> HIDE DEF more
  <2>4. Rungs(db, more, l) = Rungs(db, rules, l)
    BY <2>1, <2>3, Zenon DEF Rungs
  <2>5. resolveMatch(db, more, l) = resolveMatch(db, rules, l)
    BY <2>4, Zenon DEF resolveMatch
  <2> QED
    BY <1>1, <2>5 DEF more
<1>2. CASE own
  <2> HIDE DEF more
  <2>1. PICK a, b : a = Rungs(db, more, l) /\ b = Rungs(db, rules, l)
    OBVIOUS
  <2>2. a[1] = <<"fbpn", FindPartByIPN(db, l.ipn)>> /\ b[1] = <<"fbpn", FindPartByIPN(db, l.ipn)>>
    BY <1>2, <2>1, RungsAre
  <2>3. a[1][2] # {} /\ b[1][2] # {} /\ a[1] = b[1]
    BY <1>2, <2>2
  <2>4. resolveMatch(db, more, l) = {[part |-> p, kind |-> a[1][1]] : p \in a[1][2]}
    BY <2>1, <2>3, BestAnswers
  <2>5. resolveMatch(db, rules, l) = {[part |-> p, kind |-> b[1][1]] : p \in b[1][2]}
    BY <2>1, <2>3, BestAnswers
  <2>6. resolveMatch(db, more, l) = resolveMatch(db, rules, l)
    BY <2>3, <2>4, <2>5
  <2> QED
    BY <1>2, <2>6 DEF more
<1>3. CASE ~own /\ matchKey(l) = key
  <2>1. key \in DOMAIN more /\ more[key] = part
    OBVIOUS
  <2>2. ProjectMatch(more, key) = {part}
    BY <2>1 DEF ProjectMatch
  <2> HIDE DEF more
  <2>3. PICK a : a = Rungs(db, more, l)
    OBVIOUS
  <2>4. a[1][2] = {} /\ a[2][1] = "project" /\ a[2][2] = {part}
    BY <1>3, <2>2, <2>3, RungsAre
  <2>5. resolveMatch(db, more, l) = {[part |-> p, kind |-> a[2][1]] : p \in a[2][2]}
    BY <2>3, <2>4, BestAnswers
  <2>6. resolveMatch(db, more, l) = {[part |-> part, kind |-> "project"]}
    BY <2>4, <2>5
  <2> QED
    BY <1>3, <2>6 DEF more
<1> QED
  BY <1>1, <1>2, <1>3

\* A tag answers only when the line names one tag and one part has it: the answer is that
\* part alone, and no better rung had one (tagMatch, resolveMatch), when every lookup is
\* answered.
THEOREM TagsAnswerAlone ==
  ASSUME NEW db, IsFiniteSet(db.tags), NEW rules, NEW l, NEW m \in resolveMatch(db, rules, l), m.kind = "tag"
  PROVE  /\ resolveMatch(db, rules, l) = {m}
         /\ \E t : /\ tagsNamedBy(l.words, {x[1] : x \in db.tags}) = {t}
                   /\ Named(db.tags, t) = {m.part}
         /\ Unsaid(l.ipn) \/ FindPartByIPN(db, l.ipn) = {}
         /\ ProjectMatch(rules, matchKey(l)) = {}
<1>1. PICK rungs : rungs = Rungs(db, rules, l)
  OBVIOUS
<1>2. /\ rungs[1] = <<"fbpn", IF Unsaid(l.ipn) THEN {} ELSE FindPartByIPN(db, l.ipn)>>
      /\ rungs[2] = <<"project", ProjectMatch(rules, matchKey(l))>>
      /\ rungs[3][1] = "mpn" /\ rungs[4][1] = "supplier" /\ rungs[5][1] = "value_footprint"
      /\ rungs[6] = <<"tag", tagMatch(db, l.words)>>
  BY <1>1, RungsAre
<1>3. PICK i \in 1 .. 6 : m.kind = rungs[i][1] /\ m.part \in rungs[i][2] /\ \A j \in 1 .. i - 1 : rungs[j][2] = {}
  <2>1. m # [part |-> NoPart, kind |-> "none"]
    OBVIOUS
  <2> QED
    BY <1>1, <2>1, MatchIsAnswer
<1>4. i = 6
  BY <1>2, <1>3
<1>5. \A j \in 1 .. 5 : rungs[j][2] = {}
  BY <1>3, <1>4
<1>6. m.part \in tagMatch(db, l.words)
  BY <1>2, <1>3, <1>4
<1> DEFINE named == tagsNamedBy(l.words, {x[1] : x \in db.tags})
           parts == UNION {Named(db.tags, t) : t \in named}
<1>7. tagMatch(db, l.words) = parts /\ Cardinality(named) = 1 /\ Cardinality(parts) = 1
  BY <1>6, Zenon DEF tagMatch
<1>8. IsFiniteSet(named) /\ IsFiniteSet(parts)
  <2>1. IsFiniteSet({x[1] : x \in db.tags}) /\ IsFiniteSet({x[2] : x \in db.tags})
    <3> DEFINE S == db.tags
               f == [x \in S |-> x[1]]
               g == [x \in S |-> x[2]]
    <3>1. f \in Surjection(S, {x[1] : x \in S}) /\ g \in Surjection(S, {x[2] : x \in S})
      BY DEF Surjection
    <3> HIDE DEF f, g
    <3> QED
      BY <3>1, FS_Surjection
  <2>2. named \subseteq {x[1] : x \in db.tags}
    BY DEF tagsNamedBy
  <2>3. parts \subseteq {x[2] : x \in db.tags}
    <3>1. \A t : Named(db.tags, t) \subseteq {x[2] : x \in db.tags}
      BY DEF Named
    <3> QED
      BY <3>1
  <2> HIDE DEF named, parts
  <2> QED
    BY <2>1, <2>2, <2>3, FS_Subset
<1> HIDE DEF named, parts
<1>9. PICK t : named = {t}
  BY <1>7, <1>8, FS_Singleton
<1>10. PICK p : parts = {p}
  BY <1>7, <1>8, FS_Singleton
<1>11. p = m.part /\ Named(db.tags, t) = {m.part}
  BY <1>6, <1>7, <1>9, <1>10 DEF parts
<1>12. resolveMatch(db, rules, l) = {m}
  <2>1. rungs[6][2] # {} /\ rungs[6][2] = {m.part} /\ rungs[6][1] = "tag"
    BY <1>2, <1>7, <1>10, <1>11
  <2>2. resolveMatch(db, rules, l) = {[part |-> q, kind |-> rungs[6][1]] : q \in rungs[6][2]}
    BY <1>1, <1>5, <2>1, BestAnswers
  <2>3. resolveMatch(db, rules, l) = {[part |-> m.part, kind |-> "tag"]}
    BY <2>1, <2>2
  <2> QED
    BY <2>3
<1>13. rungs[1][2] = {} /\ rungs[2][2] = {}
  BY <1>5
<1>14. Unsaid(l.ipn) \/ FindPartByIPN(db, l.ipn) = {}
  BY <1>2, <1>13
<1> QED
  BY <1>2, <1>9, <1>11, <1>12, <1>13, <1>14 DEF named

-----------------------------------------------------------------------------
\* Tools.

\* One tool fits, or none is named.
LEMMA FitIsOnly ==
  ASSUME NEW S, NEW defs \in Seq(S), NEW keys
  PROVE  \/ OnlyFit(keys, defs) = NoTool
         \/ \E i \in DOMAIN defs : /\ OnlyFit(keys, defs) = defs[i].name /\ argsFit(keys, defs[i])
                                   /\ \A j \in DOMAIN defs : argsFit(keys, defs[j]) => j = i
<1> DEFINE fit == {i \in DOMAIN defs : argsFit(keys, defs[i])}
           one == CHOOSE i \in fit : TRUE
<1>1. IsFiniteSet(fit)
  <2>1. fit \subseteq 1 .. Len(defs)
    OBVIOUS
  <2>2. IsFiniteSet(1 .. Len(defs))
    BY FS_Interval
  <2> HIDE DEF fit
  <2> QED
    BY <2>1, <2>2, FS_Subset
<1>2. CASE keys # {} /\ Cardinality(fit) = 1
  <2>1. OnlyFit(keys, defs) = defs[one].name
    BY <1>2, Zenon DEF OnlyFit
  <2> HIDE DEF fit
  <2>2. PICK i : fit = {i}
    BY <1>1, <1>2, FS_Singleton
  <2>3. one = i
    BY <2>2
  <2>4. \A j \in DOMAIN defs : argsFit(keys, defs[j]) <=> j \in fit
    BY DEF fit
  <2>5. i \in DOMAIN defs
    BY <2>2 DEF fit
  <2> HIDE DEF one
  <2> QED
    BY <2>1, <2>2, <2>3, <2>4, <2>5
<1>3. CASE ~(keys # {} /\ Cardinality(fit) = 1)
  <2>1. OnlyFit(keys, defs) = NoTool
    BY <1>3, Zenon DEF OnlyFit
  <2> QED
    BY <2>1
<1> QED
  BY <1>2, <1>3

\* A call whose name was lost, or written wrong, is made as the one tool that takes its
\* arguments: of a call that was meant for a tool, with everything it requires, that tool
\* or none, whichever tools there are ("running the wrong tool ... would turn a legible
\* failure into a wrong answer", resolveToolName, strayToolCall).
THEOREM ArgumentsNameTheirTool ==
  ASSUME NEW S, NEW defs \in Seq(S), NEW keys, NEW i \in DOMAIN defs, argsFit(keys, defs[i])
  PROVE  /\ \A says : ~wrappedCall([keys |-> keys, says |-> says]) =>
                strayToolCall([keys |-> keys, says |-> says], defs) \in {defs[i].name, NoTool}
         /\ \A name, tail : name \notin NamesOf(defs) /\ tail \notin NamesOf(defs) =>
                resolveToolName([name |-> name, tail |-> tail, keys |-> keys], defs) \in {defs[i].name, NoTool}
<1>1. OnlyFit(keys, defs) \in {defs[i].name, NoTool}
  BY FitIsOnly
<1>2. ASSUME NEW says, ~wrappedCall([keys |-> keys, says |-> says])
      PROVE  strayToolCall([keys |-> keys, says |-> says], defs) \in {defs[i].name, NoTool}
  <2> DEFINE obj == [keys |-> keys, says |-> says]
  <2>1. obj.keys = keys
    OBVIOUS
  <2> HIDE DEF obj
  <2>2. strayToolCall(obj, defs) = NoTool \/ strayToolCall(obj, defs) = OnlyFit(obj.keys, defs)
    BY <1>2, Zenon DEF strayToolCall, obj
  <2> QED
    BY <1>1, <2>1, <2>2 DEF obj
<1>3. ASSUME NEW name, NEW tail, name \notin NamesOf(defs), tail \notin NamesOf(defs)
      PROVE  resolveToolName([name |-> name, tail |-> tail, keys |-> keys], defs) \in {defs[i].name, NoTool}
  BY <1>1, <1>3 DEF resolveToolName
<1> QED
  BY <1>2, <1>3

\* What a stray object or a broken call is made as is a tool there is; unless it was named,
\* one that requires something, and takes those arguments as no other does (argsFit,
\* OnlyFit): a tool that requires nothing is never run on a guess.
THEOREM NoToolOnAGuess ==
  ASSUME NEW S, NEW defs \in Seq(S), NEW obj, strayToolCall(obj, defs) # NoTool
  PROVE  /\ strayToolCall(obj, defs) \in NamesOf(defs)
         /\ \/ wrappedCall(obj) /\ strayToolCall(obj, defs) = obj.says
            \/ \E i \in DOMAIN defs : /\ strayToolCall(obj, defs) = defs[i].name
                                      /\ defs[i].required # {} /\ defs[i].required \subseteq obj.keys
                                      /\ obj.keys \subseteq defs[i].props
                                      /\ \A j \in DOMAIN defs : argsFit(obj.keys, defs[j]) => j = i
<1>1. CASE wrappedCall(obj)
  <2>1. strayToolCall(obj, defs) = obj.says /\ obj.says \in NamesOf(defs)
    BY <1>1, Zenon DEF strayToolCall
  <2> QED
    BY <1>1, <2>1
<1>2. CASE ~wrappedCall(obj)
  <2>1. strayToolCall(obj, defs) = OnlyFit(obj.keys, defs)
    BY <1>2, Zenon DEF strayToolCall
  <2>2. PICK i \in DOMAIN defs : /\ OnlyFit(obj.keys, defs) = defs[i].name /\ argsFit(obj.keys, defs[i])
                                 /\ \A j \in DOMAIN defs : argsFit(obj.keys, defs[j]) => j = i
    BY <2>1, FitIsOnly
  <2>3. defs[i].name \in NamesOf(defs)
    BY DEF NamesOf
  <2>4. defs[i].required # {} /\ defs[i].required \subseteq obj.keys /\ obj.keys \subseteq defs[i].props
    BY <2>2 DEF argsFit
  <2> QED
    BY <2>1, <2>2, <2>3, <2>4
<1> QED
  BY <1>1, <1>2

\* The part of a page that is shown around a match has all of the match in it, is within
\* the page and as long as it may be, wherever on the page the match is (WindowFrom and
\* LeftOf of snippetAround, whose positions are those of the page).
THEOREM WindowHasTheMatch ==
  ASSUME SnippetRunes \in Nat, NEW S, NEW page \in Seq(S), NEW at \in Nat, NEW size \in Nat,
         at + size <= Len(page), size <= SnippetRunes
  PROVE  LET window == WindowFrom(page, LeftOf(at, size))
         IN  /\ 1 <= window[1] /\ window[2] <= Len(page)
             /\ window[1] <= at + 1 /\ at + size <= window[2]
             /\ window[2] + 1 - window[1] = IF Len(page) < SnippetRunes THEN Len(page) ELSE SnippetRunes
<1> DEFINE half == (SnippetRunes - size) \div 2
           left == LeftOf(at, size)
<1>1. half \in Nat /\ 2 * half <= SnippetRunes - size
  OBVIOUS
<1>2. left = IF at < half THEN 0 ELSE at - half
  BY DEF LeftOf
<1> HIDE DEF half, left
<1>3. left \in Nat /\ left <= at /\ at + size <= left + SnippetRunes
  BY <1>1, <1>2
<1>4. CASE left + SnippetRunes <= Len(page)
  <2>1. WindowFrom(page, left) = <<left + 1, left + SnippetRunes>>
    BY <1>4 DEF WindowFrom
  <2> QED
    BY <1>3, <1>4, <2>1, SMTT(30) DEF left
<1>5. CASE ~(left + SnippetRunes <= Len(page))
  <2>1. WindowFrom(page, left) = <<(IF Len(page) < SnippetRunes THEN 0 ELSE Len(page) - SnippetRunes) + 1, Len(page)>>
    BY <1>5 DEF WindowFrom
  <2> QED
    BY <1>3, <1>5, <2>1 DEF left
<1> QED
  BY <1>4, <1>5

-----------------------------------------------------------------------------
\* The catalogue of sheets.

EntryOf(templates, k) ==
    [brand |-> Bases(templates)[k].brand, code |-> k, geometry |-> Bases(templates)[k].geometry]
AliasOf(templates, a) ==
    [brand |-> IF a.brand = "" THEN Bases(templates)[a.equiv].brand ELSE a.brand, code |-> a.part,
     geometry |-> Bases(templates)[a.equiv].geometry]

Entries0(templates) == {EntryOf(templates, k) : k \in DOMAIN Bases(templates)}
Listable(templates) == Entries0(templates) \cup {AliasOf(templates, templates[i]) : i \in {j \in DOMAIN templates : templates[j].equiv \in DOMAIN Bases(templates)}}

Listed(es, e) == \E x \in es : x.brand = e.brand /\ x.code = e.code
Alike(es, templates, t) ==
    IF t.equiv \in DOMAIN Bases(templates) /\ ~Listed(es, AliasOf(templates, t))
    THEN es \cup {AliasOf(templates, t)} ELSE es

\* The catalogue after each of the templates.
LEMMA CatalogueRuns ==
  ASSUME NEW S, NEW templates \in Seq(S)
  PROVE  \E acc \in [0 .. Len(templates) -> SUBSET Listable(templates)] :
             /\ acc[0] = Entries0(templates) /\ acc[Len(templates)] = buildCatalog(templates)
             /\ \A k \in 1 .. Len(templates) : acc[k] = Alike(acc[k - 1], templates, templates[k])
<1> DEFINE n        == Len(templates)
           T        == SUBSET Listable(templates)
           base     == Entries0(templates)
           Op(t, x) == Alike(t, templates, x)
           G(f)     == [s \in SUBSET DOMAIN templates |-> IF s = {} THEN base ELSE Op(f[s \ {Max(s)}], templates[Max(s)])]
           step     == [y \in T \X (1 .. n) |-> Op(y[1], templates[y[2]])]
           c        == CHOOSE f : f = G(f)
<1>1. buildCatalog(templates) = c[DOMAIN templates]
  BY Zenon DEF buildCatalog, Entries0, EntryOf, AliasOf, Alike, Listed, FoldLeft, MapThenFoldSet
<1>2. n \in Nat /\ DOMAIN templates = 1 .. n
  OBVIOUS
<1>3. base \in T
  BY DEF Listable
<1>4. ASSUME NEW t \in T, NEW i \in 1 .. n PROVE Op(t, templates[i]) \in T
  <2>1. templates[i].equiv \in DOMAIN Bases(templates) => AliasOf(templates, templates[i]) \in Listable(templates)
    BY <1>2 DEF Listable
  <2> QED
    BY <2>1 DEF Alike
<1> HIDE DEF Op, T, base
<1>5. step \in [T \X (1 .. n) -> T]
  BY <1>2, <1>4
<1>6. c = G(c)
  <2>1. PICK f \in [SUBSET (1 .. n) -> T] : FoldsBy(f, base, step, n)
    <3> HIDE DEF step, n
    <3> QED
      BY <1>2, <1>3, <1>5, FoldDefined
  <2>2. ASSUME NEW s \in SUBSET (1 .. n) PROVE f[s] = IF s = {} THEN base ELSE Op(f[s \ {Max(s)}], templates[Max(s)])
    <3>1. CASE s # {}
      <4>1. Max(s) \in 1 .. n
        BY <1>2, <3>1, Greatest
      <4>2. f[s \ {Max(s)}] \in T
        OBVIOUS
      <4> QED
        BY <2>1, <3>1, <4>1, <4>2 DEF FoldsBy
    <3> QED
      BY <2>1, <3>1 DEF FoldsBy
  <2>3. f = G(f)
    <3>1. f = [s \in SUBSET (1 .. n) |-> f[s]]
      OBVIOUS
    <3>2. [s \in SUBSET (1 .. n) |-> f[s]] = G(f)
      BY <1>2, <2>2
    <3> QED
      BY <3>1, <3>2
  <2> HIDE DEF G
  <2> QED
    BY <2>3
<1> HIDE DEF c
<1>7. c[{}] = base /\ \A k \in 1 .. n : c[1 .. k] = Op(c[1 .. (k - 1)], templates[k])
  <2>1. \A s \in SUBSET (1 .. n) : c[s] = IF s = {} THEN base ELSE Op(c[s \ {Max(s)}], templates[Max(s)])
    <3>1. c = [s \in SUBSET (1 .. n) |-> IF s = {} THEN base ELSE Op(c[s \ {Max(s)}], templates[Max(s)])]
      BY <1>2, <1>6
    <3> QED
      BY <3>1
  <2>2. ASSUME NEW k \in 1 .. n PROVE c[1 .. k] = Op(c[1 .. (k - 1)], templates[k])
    <3>1. 1 .. k \in SUBSET (1 .. n) /\ 1 .. k # {} /\ Max(1 .. k) = k /\ (1 .. k) \ {k} = 1 .. (k - 1)
      BY GreatestOfFirst, SMTT(30)
    <3> QED
      BY <2>1, <3>1
  <2> QED
    BY <2>1, <2>2
<1>8. PICK acc \in [0 .. n -> T] : acc[n] = c[1 .. n] /\ RunsThrough(acc, base, step, n)
  <2>1. StepsOf(c, T, base, step, n)
    BY <1>7 DEF StepsOf
  <2> HIDE DEF step, n
  <2> QED
    BY <1>2, <1>3, <1>5, <2>1, FoldRuns
<1>9. \A k \in 1 .. n : acc[k] = Op(acc[k - 1], templates[k])
  <2>1. \A k \in 1 .. n : acc[k - 1] \in T
    OBVIOUS
  <2> QED
    BY <1>8, <2>1 DEF RunsThrough
<1>10. acc[0] = base /\ acc[n] = buildCatalog(templates)
  BY <1>1, <1>2, <1>8 DEF RunsThrough
<1> QED
  BY <1>9, <1>10 DEF Op, T, base

\* Of the rectangular sheets read under one part number the last is listed, as itself and
\* once (a sheet read later takes the place of the earlier); the code of every template
\* that is equivalent to one is listed, once; and nothing is listed that is neither such a
\* sheet nor an equivalent with its sheet's geometry (buildCatalog).
THEOREM CatalogueListsOnce ==
  ASSUME NEW S, NEW templates \in Seq(S)
  PROVE  LET all == buildCatalog(templates)
         IN  /\ \A x, y \in all : x.brand = y.brand /\ x.code = y.code => x = y
             /\ \A k \in DOMAIN Bases(templates) : EntryOf(templates, k) \in all
             /\ \A i \in DOMAIN templates :
                    templates[i].equiv \in DOMAIN Bases(templates) => Listed(all, AliasOf(templates, templates[i]))
             /\ all \subseteq Listable(templates)
<1>1. PICK acc \in [0 .. Len(templates) -> SUBSET Listable(templates)] :
             /\ acc[0] = Entries0(templates) /\ acc[Len(templates)] = buildCatalog(templates)
             /\ \A k \in 1 .. Len(templates) : acc[k] = Alike(acc[k - 1], templates, templates[k])
  BY CatalogueRuns
<1> DEFINE n == Len(templates)
           Once(k) == /\ \A x, y \in acc[k] : x.brand = y.brand /\ x.code = y.code => x = y
                      /\ Entries0(templates) \subseteq acc[k]
                      /\ \A i \in 1 .. k : templates[i].equiv \in DOMAIN Bases(templates) => Listed(acc[k], AliasOf(templates, templates[i]))
           T == {k \in 0 .. n : ~Once(k)}
<1>2. n \in Nat
  OBVIOUS
<1>3. Once(0)
  BY <1>1 DEF Entries0, EntryOf
<1>4. ASSUME NEW k \in 1 .. n, Once(k - 1) PROVE Once(k)
  <2>1. PICK before : before = acc[k - 1]
    OBVIOUS
  <2>2. PICK after : after = acc[k]
    OBVIOUS
  <2>3. PICK a : a = AliasOf(templates, templates[k])
    OBVIOUS
  <2>4. after = IF templates[k].equiv \in DOMAIN Bases(templates) /\ ~Listed(before, a) THEN before \cup {a} ELSE before
    BY <1>1, <2>1, <2>2, <2>3 DEF Alike
  <2>5. /\ \A x, y \in before : x.brand = y.brand /\ x.code = y.code => x = y
        /\ Entries0(templates) \subseteq before
        /\ \A i \in 1 .. (k - 1) : templates[i].equiv \in DOMAIN Bases(templates) => Listed(before, AliasOf(templates, templates[i]))
    BY <1>4, <2>1
  <2> HIDE DEF Once
  <2>6. before \subseteq after
    BY <2>4
  <2>7. \A x, y \in after : x.brand = y.brand /\ x.code = y.code => x = y
    BY <2>4, <2>5 DEF Listed
  <2>8. Listed(after, a) \/ templates[k].equiv \notin DOMAIN Bases(templates)
    BY <2>4 DEF Listed
  <2>9. \A e : Listed(before, e) => Listed(after, e)
    BY <2>6 DEF Listed
  <2>10. ASSUME NEW i \in 1 .. k, templates[i].equiv \in DOMAIN Bases(templates)
         PROVE  Listed(after, AliasOf(templates, templates[i]))
    <3>1. CASE i = k
      BY <2>3, <2>8, <2>10, <3>1
    <3>2. CASE i # k
      <4>1. i \in 1 .. (k - 1)
        BY <3>2
      <4> QED
        BY <2>5, <2>9, <2>10, <4>1
    <3> QED
      BY <3>1, <3>2
  <2> QED
    BY <2>2, <2>5, <2>6, <2>7, <2>10 DEF Once
<1>5. T = {}
  <2>1. 0 \notin T
    BY <1>3
  <2>2. \A k \in 1 .. n : k \in T => k - 1 \in T
    <3> HIDE DEF Once
    <3> QED
      BY <1>4
  <2>3. T \in SUBSET (0 .. n)
    OBVIOUS
  <2> HIDE DEF T, n
  <2> QED
    BY <1>2, <2>1, <2>2, <2>3, Steps
<1>6. Once(n)
  <2> HIDE DEF Once
  <2> QED
    BY <1>2, <1>5
<1>7. acc[n] \in SUBSET Listable(templates)
  BY <1>2
<1>8. \A k \in DOMAIN Bases(templates) : EntryOf(templates, k) \in Entries0(templates)
  BY DEF Entries0
<1>9. DOMAIN templates = 1 .. n
  OBVIOUS
<1> QED
  BY <1>1, <1>6, <1>7, <1>8, <1>9

-----------------------------------------------------------------------------
\* Replies that come in pieces.

Pieces(A, Ids, Names) == [index : Int, id : Ids, name : Names, args : Seq(A)]

ToldApart(calls) == \A i, j \in DOMAIN calls : calls[i].index = calls[j].index => i = j
Indexes(calls)   == {calls[i].index : i \in DOMAIN calls}

\* The arguments there are of the call with an index, and with another piece.
ArgsOf(calls, x) ==
    IF x \in Indexes(calls) THEN calls[CHOOSE i \in DOMAIN calls : calls[i].index = x].args ELSE <<>>
WithPiece(args, x, piece) == IF piece.index = x THEN args \o piece.args ELSE args

\* The calls and the arguments of one behind some pieces.
Gathered(before, pieces) == FoldLeft(Fragment, before, pieces)
Piled(args, x, pieces)   == FoldLeft(LAMBDA a, p : WithPiece(a, x, p), args, pieces)

\* What a piece does to the calls there are: it begins one, or adds to the one of its index.
Adds(calls, piece, out) ==
    \/ piece.index \notin Indexes(calls) /\ out = Append(calls, piece)
    \/ \E at \in DOMAIN calls :
           /\ calls[at].index = piece.index /\ Len(out) = Len(calls)
           /\ out[at].index = piece.index /\ out[at].args = calls[at].args \o piece.args
           /\ \A i \in DOMAIN calls : i # at => out[i] = calls[i]

\* The first of some positions.
LEMMA FirstOf ==
  ASSUME NEW n \in Nat, NEW S \in SUBSET (1 .. n), S # {}
  PROVE  Min(S) \in S
<1>1. PICK x \in S : \A y \in S : x <= y
  BY Least
<1> QED
  BY <1>1 DEF Min

\* A piece of a call, added.
Longer(c, piece, out) == out.index = c.index /\ out.args = c.args \o piece.args

\* A call with a piece added is a call, with its arguments longer by the piece's.
LEMMA RefinedIs ==
  ASSUME NEW A, NEW Ids, NEW Names, NEW c \in Pieces(A, Ids, Names), NEW piece \in Pieces(A, Ids, Names)
  PROVE  Refined(c, piece) \in Pieces(A, Ids, Names) /\ Longer(c, piece, Refined(c, piece))
<1> DEFINE id == IF piece.id = NoId THEN c.id ELSE piece.id
           name == IfSaid(piece.name, c.name)
           args == c.args \o piece.args
<1>1. c.index \in Int /\ c.id \in Ids /\ c.name \in Names /\ c.args \in Seq(A)
  BY DEF Pieces
<1>2. piece.id \in Ids /\ piece.name \in Names /\ piece.args \in Seq(A)
  BY DEF Pieces
<1>3. id \in Ids /\ name \in Names /\ args \in Seq(A)
  <2>1. name = c.name \/ name = piece.name
    BY Zenon DEF IfSaid
  <2> HIDE DEF name
  <2> QED
    BY <1>1, <1>2, <2>1
<1>4. Refined(c, piece) = [[[c EXCEPT !.id = id] EXCEPT !.name = name] EXCEPT !.args = args]
  BY DEF Refined
<1> HIDE DEF id, name, args
<1>5. c = [index |-> c.index, id |-> c.id, name |-> c.name, args |-> c.args]
  BY DEF Pieces
<1>6. Refined(c, piece) = [index |-> c.index, id |-> id, name |-> name, args |-> args]
  <2>1. PICK b : b = [c EXCEPT !.id = id]
    OBVIOUS
  <2>2. b = [index |-> c.index, id |-> id, name |-> c.name, args |-> c.args]
    BY <1>5, <2>1
  <2>3. PICK d : d = [b EXCEPT !.name = name]
    OBVIOUS
  <2>4. d = [index |-> c.index, id |-> id, name |-> name, args |-> c.args]
    BY <2>2, <2>3
  <2>5. Refined(c, piece) = [d EXCEPT !.args = args]
    BY <1>4, <2>1, <2>3
  <2> QED
    BY <2>4, <2>5
<1> QED
  BY <1>1, <1>3, <1>6 DEF Pieces, Longer, args

\* A piece adds to a call or begins one.
LEMMA FragmentAdds ==
  ASSUME NEW A, NEW Ids, NEW Names, NEW calls \in Seq(Pieces(A, Ids, Names)), NEW piece \in Pieces(A, Ids, Names)
  PROVE  Fragment(calls, piece) \in Seq(Pieces(A, Ids, Names)) /\ Adds(calls, piece, Fragment(calls, piece))
<1> DEFINE P     == Pieces(A, Ids, Names)
           where == {i \in 1 .. Len(calls) : calls[i].index = piece.index}
           at    == Position(calls, piece.index)
<1>1. at = IF where # {} THEN Min(where) ELSE 0
  BY Zenon DEF Position, SelectInSeq
<1>2. Fragment(calls, piece) =
          IF at = 0 THEN Append(calls, piece) ELSE [calls EXCEPT ![at] = Refined(calls[at], piece)]
  BY DEF Fragment
<1>3. calls \in Seq(P) /\ piece \in P
  OBVIOUS
<1> HIDE DEF at
<1>4. CASE where = {}
  <2>1. Fragment(calls, piece) = Append(calls, piece)
    BY <1>1, <1>2, <1>4
  <2>2. piece.index \notin Indexes(calls)
    BY <1>4 DEF Indexes
  <2> HIDE DEF P, where
  <2>3. Append(calls, piece) \in Seq(P)
    BY <1>3
  <2> QED
    BY <2>1, <2>2, <2>3 DEF Adds, P
<1>5. CASE where # {}
  <2>1. where \in SUBSET (1 .. Len(calls)) /\ Len(calls) \in Nat
    OBVIOUS
  <2>2. at \in where
    <3> HIDE DEF where
    <3> QED
      BY <1>1, <1>5, <2>1, FirstOf
  <2>3. at \in DOMAIN calls /\ calls[at].index = piece.index /\ at # 0
    BY <2>2
  <2>4. PICK new : new = Refined(calls[at], piece)
    OBVIOUS
  <2>5. new \in P /\ new.index = piece.index /\ new.args = calls[at].args \o piece.args
    <3>1. PICK old \in Pieces(A, Ids, Names) : old = calls[at]
      BY <2>3
    <3>2. Refined(old, piece) \in Pieces(A, Ids, Names) /\ Longer(old, piece, Refined(old, piece))
      BY RefinedIs
    <3> QED
      BY <2>3, <2>4, <3>1, <3>2 DEF Longer
  <2> DEFINE out == [calls EXCEPT ![at] = new]
  <2>6. Fragment(calls, piece) = out
    BY <1>2, <2>3, <2>4
  <2>7. out \in Seq(P) /\ Len(out) = Len(calls) /\ out[at] = new /\ \A i \in DOMAIN calls : i # at => out[i] = calls[i]
    <3> HIDE DEF P
    <3> QED
      BY <1>3, <2>3, <2>5
  <2> HIDE DEF out
  <2>8. Adds(calls, piece, out)
    BY <2>3, <2>5, <2>7 DEF Adds
  <2> QED
    BY <2>6, <2>7, <2>8
<1> QED
  BY <1>4, <1>5

\* A piece adds to the call of its index and to no other, and begins one when there is none.
LEMMA FragmentKeeps ==
  ASSUME NEW A, NEW Ids, NEW Names, NEW calls \in Seq(Pieces(A, Ids, Names)), NEW piece \in Pieces(A, Ids, Names),
         NEW out \in Seq(Pieces(A, Ids, Names)), Adds(calls, piece, out), ToldApart(calls), NEW x
  PROVE  /\ ToldApart(out) /\ Indexes(out) = Indexes(calls) \cup {piece.index}
         /\ ArgsOf(out, x) = WithPiece(ArgsOf(calls, x), x, piece)
<1> DEFINE n == Len(calls)
<1>0. DOMAIN calls = 1 .. n /\ n \in Nat
  OBVIOUS
<1>01. ASSUME NEW cs, ToldApart(cs), NEW i \in DOMAIN cs PROVE ArgsOf(cs, cs[i].index) = cs[i].args
  BY <1>01 DEF ToldApart, Indexes, ArgsOf
<1>02. \A cs, y : y \notin Indexes(cs) => ArgsOf(cs, y) = <<>>
  BY DEF ArgsOf
<1>1. CASE piece.index \notin Indexes(calls) /\ out = Append(calls, piece)
  <2>1. /\ DOMAIN out = 1 .. (n + 1) /\ out[n + 1] = piece /\ \A i \in 1 .. n : out[i] = calls[i]
    BY <1>0, <1>1
  <2>2. \A i \in 1 .. n : calls[i].index # piece.index
    BY <1>0, <1>1 DEF Indexes
  <2>3. ToldApart(out)
    BY <1>0, <2>1, <2>2 DEF ToldApart
  <2>4. Indexes(out) = Indexes(calls) \cup {piece.index}
    <3>1. \A i \in 1 .. (n + 1) : i \in 1 .. n \/ i = n + 1
      BY <1>0
    <3>2. n + 1 \in 1 .. (n + 1) /\ \A i \in 1 .. n : i \in 1 .. (n + 1)
      BY <1>0
    <3> QED
      BY <1>0, <2>1, <3>1, <3>2 DEF Indexes
  <2>5. CASE x = piece.index
    <3>1. ArgsOf(out, x) = piece.args
      <4>1. n + 1 \in DOMAIN out
        BY <1>0, <2>1
      <4> QED
        BY <1>01, <2>1, <2>3, <2>5, <4>1
    <3>2. ArgsOf(calls, x) = <<>>
      BY <1>02, <1>1, <2>5
    <3>3. piece.args \in Seq(A)
      BY DEF Pieces
    <3> QED
      BY <2>3, <2>4, <2>5, <3>1, <3>2, <3>3 DEF WithPiece
  <2>6. CASE x # piece.index
    <3>1. CASE x \in Indexes(calls)
      <4>1. PICK i \in 1 .. n : calls[i].index = x
        BY <1>0, <3>1 DEF Indexes
      <4>2. i \in DOMAIN out /\ i \in DOMAIN calls /\ out[i] = calls[i]
        BY <1>0, <2>1, <4>1
      <4>3. ArgsOf(out, x) = out[i].args /\ ArgsOf(calls, x) = calls[i].args
        BY <1>01, <2>3, <4>1, <4>2
      <4> QED
        BY <2>3, <2>4, <2>6, <4>2, <4>3 DEF WithPiece
    <3>2. CASE x \notin Indexes(calls)
      <4>1. x \notin Indexes(out)
        BY <2>4, <2>6, <3>2
      <4> QED
        BY <1>02, <2>3, <2>4, <2>6, <3>2, <4>1 DEF WithPiece
    <3> QED
      BY <3>1, <3>2
  <2> QED
    BY <2>5, <2>6
<1>2. ASSUME NEW at \in DOMAIN calls, calls[at].index = piece.index, Len(out) = Len(calls),
             out[at].index = piece.index, out[at].args = calls[at].args \o piece.args,
             \A i \in DOMAIN calls : i # at => out[i] = calls[i]
      PROVE  /\ ToldApart(out) /\ Indexes(out) = Indexes(calls) \cup {piece.index}
             /\ ArgsOf(out, x) = WithPiece(ArgsOf(calls, x), x, piece)
  <2>1. DOMAIN out = DOMAIN calls
    BY <1>2
  <2>2. \A i \in DOMAIN calls : out[i].index = calls[i].index
    BY <1>2
  <2>3. ToldApart(out)
    BY <2>1, <2>2 DEF ToldApart
  <2>4. Indexes(out) = Indexes(calls) /\ piece.index \in Indexes(calls)
    BY <1>2, <2>1, <2>2 DEF Indexes
  <2>5. CASE x = piece.index
    <3>1. ArgsOf(out, x) = out[at].args /\ ArgsOf(calls, x) = calls[at].args
      BY <1>01, <1>2, <2>1, <2>3, <2>5
    <3> QED
      BY <1>2, <2>3, <2>4, <2>5, <3>1 DEF WithPiece
  <2>6. CASE x # piece.index
    <3>1. CASE x \in Indexes(calls)
      <4>1. PICK i \in DOMAIN calls : calls[i].index = x
        BY <3>1 DEF Indexes
      <4>2. i # at /\ out[i] = calls[i]
        BY <1>2, <2>6, <4>1
      <4>3. ArgsOf(out, x) = out[i].args /\ ArgsOf(calls, x) = calls[i].args
        BY <1>01, <2>1, <2>3, <4>1, <4>2
      <4> QED
        BY <2>3, <2>4, <2>6, <4>2, <4>3 DEF WithPiece
    <3>2. CASE x \notin Indexes(calls)
      BY <1>02, <2>3, <2>4, <2>6, <3>2 DEF WithPiece
    <3> QED
      BY <3>1, <3>2
  <2> QED
    BY <2>5, <2>6
<1> QED
  BY <1>1, <1>2 DEF Adds

\* The calls after each of some pieces, and the arguments of one of them.
LEMMA PiecesRun ==
  ASSUME NEW A, NEW Ids, NEW Names, NEW before \in Seq(Pieces(A, Ids, Names)), NEW pieces \in Seq(Pieces(A, Ids, Names))
  PROVE  \E acc \in [0 .. Len(pieces) -> Seq(Pieces(A, Ids, Names))] :
             /\ acc[0] = before /\ acc[Len(pieces)] = Gathered(before, pieces)
             /\ \A k \in 1 .. Len(pieces) : acc[k] = Fragment(acc[k - 1], pieces[k])
<1> DEFINE n        == Len(pieces)
           T        == Seq(Pieces(A, Ids, Names))
           base     == before
           Op(t, x) == Fragment(t, x)
           G(f)     == [s \in SUBSET DOMAIN pieces |-> IF s = {} THEN base ELSE Op(f[s \ {Max(s)}], pieces[Max(s)])]
           step     == [y \in T \X (1 .. n) |-> Op(y[1], pieces[y[2]])]
           c        == CHOOSE f : f = G(f)
<1>1. Gathered(before, pieces) = c[DOMAIN pieces]
  BY DEF Gathered, Piled, FoldLeft, MapThenFoldSet
<1>2. n \in Nat /\ DOMAIN pieces = 1 .. n
  OBVIOUS
<1>3. base \in T
  OBVIOUS
<1>4. ASSUME NEW t \in T, NEW i \in 1 .. n PROVE Op(t, pieces[i]) \in T
  <2>1. pieces[i] \in Pieces(A, Ids, Names)
    OBVIOUS
  <2> QED
    BY <2>1, FragmentAdds
<1> HIDE DEF Op, T, base
<1>5. step \in [T \X (1 .. n) -> T]
  BY <1>2, <1>4
<1>6. c = G(c)
  <2>1. PICK f \in [SUBSET (1 .. n) -> T] : FoldsBy(f, base, step, n)
    <3> HIDE DEF step, n
    <3> QED
      BY <1>2, <1>3, <1>5, FoldDefined
  <2>2. ASSUME NEW s \in SUBSET (1 .. n) PROVE f[s] = IF s = {} THEN base ELSE Op(f[s \ {Max(s)}], pieces[Max(s)])
    <3>1. CASE s # {}
      <4>1. Max(s) \in 1 .. n
        BY <1>2, <3>1, Greatest
      <4>2. f[s \ {Max(s)}] \in T
        OBVIOUS
      <4> QED
        BY <2>1, <3>1, <4>1, <4>2 DEF FoldsBy
    <3> QED
      BY <2>1, <3>1 DEF FoldsBy
  <2>3. f = G(f)
    <3>1. f = [s \in SUBSET (1 .. n) |-> f[s]]
      OBVIOUS
    <3>2. [s \in SUBSET (1 .. n) |-> f[s]] = G(f)
      BY <1>2, <2>2
    <3> QED
      BY <3>1, <3>2
  <2> HIDE DEF G
  <2> QED
    BY <2>3
<1> HIDE DEF c
<1>7. c[{}] = base /\ \A k \in 1 .. n : c[1 .. k] = Op(c[1 .. (k - 1)], pieces[k])
  <2>1. \A s \in SUBSET (1 .. n) : c[s] = IF s = {} THEN base ELSE Op(c[s \ {Max(s)}], pieces[Max(s)])
    <3>1. c = [s \in SUBSET (1 .. n) |-> IF s = {} THEN base ELSE Op(c[s \ {Max(s)}], pieces[Max(s)])]
      BY <1>2, <1>6
    <3> QED
      BY <3>1
  <2>2. ASSUME NEW k \in 1 .. n PROVE c[1 .. k] = Op(c[1 .. (k - 1)], pieces[k])
    <3>1. 1 .. k \in SUBSET (1 .. n) /\ 1 .. k # {} /\ Max(1 .. k) = k /\ (1 .. k) \ {k} = 1 .. (k - 1)
      BY GreatestOfFirst, SMTT(30)
    <3> QED
      BY <2>1, <3>1
  <2> QED
    BY <2>1, <2>2
<1>8. PICK acc \in [0 .. n -> T] : acc[n] = c[1 .. n] /\ RunsThrough(acc, base, step, n)
  <2>1. StepsOf(c, T, base, step, n)
    BY <1>7 DEF StepsOf
  <2> HIDE DEF step, n
  <2> QED
    BY <1>2, <1>3, <1>5, <2>1, FoldRuns
<1>9. \A k \in 1 .. n : acc[k] = Op(acc[k - 1], pieces[k])
  <2>1. \A k \in 1 .. n : acc[k - 1] \in T
    OBVIOUS
  <2> QED
    BY <1>8, <2>1 DEF RunsThrough
<1>10. acc[0] = base /\ acc[n] = Gathered(before, pieces)
  BY <1>1, <1>2, <1>8 DEF RunsThrough
<1> QED
  BY <1>9, <1>10 DEF Op, T, base

\* The arguments with the pieces put to them one by one.
LEMMA ArgumentsRun ==
  ASSUME NEW A, NEW Ids, NEW Names, NEW args \in Seq(A), NEW pieces \in Seq(Pieces(A, Ids, Names)), NEW x
  PROVE  \E acc \in [0 .. Len(pieces) -> Seq(A)] :
             /\ acc[0] = args /\ acc[Len(pieces)] = Piled(args, x, pieces)
             /\ \A k \in 1 .. Len(pieces) : acc[k] = WithPiece(acc[k - 1], x, pieces[k])
<1> DEFINE n        == Len(pieces)
           T        == Seq(A)
           base     == args
           Op(t, p) == WithPiece(t, x, p)
           G(f)     == [s \in SUBSET DOMAIN pieces |-> IF s = {} THEN base ELSE Op(f[s \ {Max(s)}], pieces[Max(s)])]
           step     == [y \in T \X (1 .. n) |-> Op(y[1], pieces[y[2]])]
           c        == CHOOSE f : f = G(f)
<1>1. Piled(args, x, pieces) = c[DOMAIN pieces]
  BY DEF Gathered, Piled, FoldLeft, MapThenFoldSet
<1>2. n \in Nat /\ DOMAIN pieces = 1 .. n
  OBVIOUS
<1>3. base \in T
  OBVIOUS
<1>4. ASSUME NEW t \in T, NEW i \in 1 .. n PROVE Op(t, pieces[i]) \in T
  <2>1. pieces[i].args \in Seq(A)
    <3>1. pieces[i] \in Pieces(A, Ids, Names)
      OBVIOUS
    <3> QED
      BY <3>1 DEF Pieces
  <2>2. t \o pieces[i].args \in Seq(A)
    BY <2>1
  <2> QED
    BY <2>2 DEF WithPiece
<1> HIDE DEF Op, T, base
<1>5. step \in [T \X (1 .. n) -> T]
  BY <1>2, <1>4
<1>6. c = G(c)
  <2>1. PICK f \in [SUBSET (1 .. n) -> T] : FoldsBy(f, base, step, n)
    <3> HIDE DEF step, n
    <3> QED
      BY <1>2, <1>3, <1>5, FoldDefined
  <2>2. ASSUME NEW s \in SUBSET (1 .. n) PROVE f[s] = IF s = {} THEN base ELSE Op(f[s \ {Max(s)}], pieces[Max(s)])
    <3>1. CASE s # {}
      <4>1. Max(s) \in 1 .. n
        BY <1>2, <3>1, Greatest
      <4>2. f[s \ {Max(s)}] \in T
        OBVIOUS
      <4> QED
        BY <2>1, <3>1, <4>1, <4>2 DEF FoldsBy
    <3> QED
      BY <2>1, <3>1 DEF FoldsBy
  <2>3. f = G(f)
    <3>1. f = [s \in SUBSET (1 .. n) |-> f[s]]
      OBVIOUS
    <3>2. [s \in SUBSET (1 .. n) |-> f[s]] = G(f)
      BY <1>2, <2>2
    <3> QED
      BY <3>1, <3>2
  <2> HIDE DEF G
  <2> QED
    BY <2>3
<1> HIDE DEF c
<1>7. c[{}] = base /\ \A k \in 1 .. n : c[1 .. k] = Op(c[1 .. (k - 1)], pieces[k])
  <2>1. \A s \in SUBSET (1 .. n) : c[s] = IF s = {} THEN base ELSE Op(c[s \ {Max(s)}], pieces[Max(s)])
    <3>1. c = [s \in SUBSET (1 .. n) |-> IF s = {} THEN base ELSE Op(c[s \ {Max(s)}], pieces[Max(s)])]
      BY <1>2, <1>6
    <3> QED
      BY <3>1
  <2>2. ASSUME NEW k \in 1 .. n PROVE c[1 .. k] = Op(c[1 .. (k - 1)], pieces[k])
    <3>1. 1 .. k \in SUBSET (1 .. n) /\ 1 .. k # {} /\ Max(1 .. k) = k /\ (1 .. k) \ {k} = 1 .. (k - 1)
      BY GreatestOfFirst, SMTT(30)
    <3> QED
      BY <2>1, <3>1
  <2> QED
    BY <2>1, <2>2
<1>8. PICK acc \in [0 .. n -> T] : acc[n] = c[1 .. n] /\ RunsThrough(acc, base, step, n)
  <2>1. StepsOf(c, T, base, step, n)
    BY <1>7 DEF StepsOf
  <2> HIDE DEF step, n
  <2> QED
    BY <1>2, <1>3, <1>5, <2>1, FoldRuns
<1>9. \A k \in 1 .. n : acc[k] = Op(acc[k - 1], pieces[k])
  <2>1. \A k \in 1 .. n : acc[k - 1] \in T
    OBVIOUS
  <2> QED
    BY <1>8, <2>1 DEF RunsThrough
<1>10. acc[0] = base /\ acc[n] = Piled(args, x, pieces)
  BY <1>1, <1>2, <1>8 DEF RunsThrough
<1> QED
  BY <1>9, <1>10 DEF Op, T, base

\* However the pieces of several calls come mixed in a stream, every call is put together
\* of its own: no two calls have one index, there is one for every index that was said and
\* for no other, and its arguments are those of its pieces in the order they came, behind
\* what was there of it (Fragment, which every line of a stream is read with).
THEOREM PiecesMakeTheirCalls ==
  ASSUME NEW A, NEW Ids, NEW Names, NEW before \in Seq(Pieces(A, Ids, Names)), ToldApart(before),
         NEW pieces \in Seq(Pieces(A, Ids, Names))
  PROVE  LET calls == Gathered(before, pieces)
         IN  /\ ToldApart(calls)
             /\ Indexes(calls) = Indexes(before) \cup Indexes(pieces)
             /\ \A x \in Indexes(calls) :
                    ArgsOf(calls, x) = Piled(ArgsOf(before, x), x, pieces)
<1> DEFINE n == Len(pieces)
           P == Pieces(A, Ids, Names)
<1>1. n \in Nat /\ DOMAIN pieces = 1 .. n
  OBVIOUS
<1>2. PICK acc \in [0 .. n -> Seq(P)] :
          /\ acc[0] = before /\ acc[n] = Gathered(before, pieces)
          /\ \A k \in 1 .. n : acc[k] = Fragment(acc[k - 1], pieces[k])
  BY PiecesRun, SMTT(30)
<1>3. ASSUME NEW x
      PROVE  /\ ToldApart(acc[n]) /\ Indexes(acc[n]) = Indexes(before) \cup {pieces[m].index : m \in 1 .. n}
             /\ ArgsOf(acc[n], x) = Piled(ArgsOf(before, x), x, pieces)
  <2>1. ArgsOf(before, x) \in Seq(A)
    <3>1. CASE x \in Indexes(before)
      <4>1. PICK i \in DOMAIN before : i = CHOOSE j \in DOMAIN before : before[j].index = x
        BY <3>1 DEF Indexes
      <4>2. before[i].args \in Seq(A)
        <5>1. before[i] \in P
          OBVIOUS
        <5> QED
          BY <5>1 DEF Pieces
      <4> QED
        BY <3>1, <4>1, <4>2 DEF ArgsOf
    <3>2. CASE x \notin Indexes(before)
      <4>1. ArgsOf(before, x) = <<>>
        BY <3>2 DEF ArgsOf
      <4> QED
        BY <4>1
    <3> QED
      BY <3>1, <3>2
  <2>2. PICK run \in [0 .. n -> Seq(A)] :
            /\ run[0] = ArgsOf(before, x) /\ run[n] = Piled(ArgsOf(before, x), x, pieces)
            /\ \A k \in 1 .. n : run[k] = WithPiece(run[k - 1], x, pieces[k])
    BY <2>1, ArgumentsRun
  <2> DEFINE Right(k) == /\ ToldApart(acc[k]) /\ Indexes(acc[k]) = Indexes(before) \cup {pieces[m].index : m \in 1 .. k}
                         /\ ArgsOf(acc[k], x) = run[k]
             S == {k \in 0 .. n : ~Right(k)}
  <2>3. Right(0)
    BY <1>2, <2>2
  <2>4. ASSUME NEW k \in 1 .. n, Right(k - 1) PROVE Right(k)
    <3>1. k - 1 \in 0 .. n /\ k \in 0 .. n
      OBVIOUS
    <3>2. PICK old \in Seq(P) : old = acc[k - 1]
      BY <1>2, <3>1
    <3>3. PICK new \in Seq(P) : new = acc[k]
      BY <1>2, <3>1
    <3>4. PICK piece \in P : piece = pieces[k]
      BY <1>1
    <3>5. new = Fragment(old, piece)
      BY <1>2, <3>2, <3>3, <3>4
    <3>6. Adds(old, piece, new)
      BY <3>5, FragmentAdds
    <3>7. ToldApart(old) /\ Indexes(old) = Indexes(before) \cup {pieces[m].index : m \in 1 .. (k - 1)} /\ ArgsOf(old, x) = run[k - 1]
      BY <2>4, <3>2
    <3>8. /\ ToldApart(new) /\ Indexes(new) = Indexes(old) \cup {piece.index}
          /\ ArgsOf(new, x) = WithPiece(ArgsOf(old, x), x, piece)
      <4> HIDE DEF P, Right
      <4> QED
        BY <3>6, <3>7, FragmentKeeps DEF P
    <3>9. {pieces[m].index : m \in 1 .. k} = {pieces[m].index : m \in 1 .. (k - 1)} \cup {pieces[k].index}
      <4>1. \A m \in 1 .. k : m \in 1 .. (k - 1) \/ m = k
        OBVIOUS
      <4>2. k \in 1 .. k /\ \A m \in 1 .. (k - 1) : m \in 1 .. k
        OBVIOUS
      <4> QED
        BY <4>1, <4>2
    <3>10. Indexes(new) = Indexes(before) \cup {pieces[m].index : m \in 1 .. k}
      BY <3>4, <3>7, <3>8, <3>9
    <3>11. ArgsOf(new, x) = run[k]
      BY <2>2, <3>4, <3>7, <3>8
    <3> QED
      BY <3>3, <3>8, <3>10, <3>11
  <2>5. S = {}
    <3>1. 0 \notin S
      BY <2>3
    <3>2. \A k \in 1 .. n : k \in S => k - 1 \in S
      <4> HIDE DEF Right
      <4> QED
        BY <2>4
    <3>3. S \in SUBSET (0 .. n)
      OBVIOUS
    <3> HIDE DEF S, n
    <3> QED
      BY <1>1, <3>1, <3>2, <3>3, Steps
  <2>6. Right(n)
    <3> HIDE DEF Right
    <3> QED
      BY <1>1, <2>5
  <2> QED
    BY <2>2, <2>6
<1>4. Indexes(pieces) = {pieces[m].index : m \in 1 .. n}
  BY <1>1 DEF Indexes
<1> QED
  BY <1>2, <1>3, <1>4
=============================================================================
