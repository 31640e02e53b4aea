-------------------------- MODULE StockLotsProofs --------------------------
(* The ledger, the sign and the conservation of the quantities in StockLots, *)
(* which lots may go, and that each transaction is one operation of the      *)
(* Inventory, for any number of concurrent transactions, lots, parts, places *)
(* and requests.                                                             *)
EXTENDS StockLots, WellFoundedInduction, TLAPS

-----------------------------------------------------------------------------
(* The inductive invariant.                                                  *)

\* What a transaction has selected it has locked, and nothing has changed since.
Holds(x, l) ==
  /\ l \in lots
  /\ lock[l] = x
  /\ seen[x][l] = row[l].qty

\* The rows of a transaction, by the phase it is in and the operation it is.
TxInv(x) ==
  /\ req[x] \in Requests
  /\ phase[x] \in {"idle", "patch"} => got[x] = {} /\ moved[x] = 0
  /\ phase[x] # "second" => dest[x] = None
  /\ \A l \in got[x] : Holds(x, l)
  /\ dest[x] # None => Holds(x, dest[x])
  /\ req[x].op \in ById => got[x] \subseteq {req[x].lot}
  /\ phase[x] = "second" => got[x] # {}
  /\ phase[x] = "second" /\ req[x].op = "move" => req[x].qty <= seen[x][req[x].lot]

\* Ids are given out in order.
IdsInOrder == lots \subseteq 1..made

Inv ==
  /\ TypeOK
  /\ IdsInOrder
  /\ \A x \in Txs : TxInv(x)
  /\ LedgerAgrees
  /\ \A x \in Txs : moved[x] >= 0

\* What BelowZeroAsAsked says of the step of one transaction.
BelowAsked(x) ==
  \A l \in lots' :
    row'[l].qty < 0 /\ row'[l].qty < (IF l \in lots THEN row[l].qty ELSE 0) => AsksBelow(x)

\* How many lots there can be.
Size == StartCount + MaxRequests

\* What the lots of a set hold, one by one.
Taken(G, r) == [n \in Lots |-> IF n \in G THEN r[n].qty ELSE 0]

\* What a transaction has selected still is what it asked for, and what it counted
\* while selecting is what its rows hold.
Pinned(x) ==
  /\ \A k \in got[x] : FirstMatch(req[x], k)
  /\ dest[x] # None => SecondMatch(x, dest[x])
  /\ phase[x] = "first" => scan[x] \cap got[x] = {}
  /\ phase[x] \in {"first", "second"} => Accepted(req[x])
  /\ req[x].op = "movepart" => moved[x] = Sums(Taken(got[x], row))[Size]

PinnedInv == \A x \in Txs : Pinned(x)

\* The inductive invariant of all of it.
Safe == Inv /\ PinnedInv /\ StockConserved

-----------------------------------------------------------------------------
(* Sums over lots.                                                           *)

\* There are no less than no lots.
LEMMA SizeIsNat == Size \in Nat /\ Lots = 1..Size
BY CountAssumption DEF Size, Lots

\* A set of numbers has a least: what an induction over lots is made of here.
LEMMA Least ==
  ASSUME NEW S \in SUBSET Nat, S # {}
  PROVE  \E x \in S : \A y \in S : x <= y
<1>1. \E x \in S : \A y \in S : ~ (<<y, x>> \in OpToRel(<, Nat))
  BY NatLessThanWellFounded, WFMin
<1>2. PICK x \in S : \A y \in S : ~ (<<y, x>> \in OpToRel(<, Nat))
  BY <1>1
<1>3. \A y \in S : ~(y < x)
  BY <1>2 DEF OpToRel
<1> QED
  BY <1>3

\* The sums are defined up to every lot: of a first lot for which they were not, they are
\* by those up to the lot before.
LEMMA SumsDefined ==
  ASSUME NEW q, NEW N \in 0..Size
  PROVE  \E f : f = [n \in 0..N |-> IF n = 0 THEN 0 ELSE f[n - 1] + q[n]]
<1> DEFINE Defined(M) == \E f : f = [n \in 0..M |-> IF n = 0 THEN 0 ELSE f[n - 1] + q[n]]
           S == {M \in 0..Size : ~Defined(M)}
<1>1. CASE S = {}
  BY <1>1
<1>2. CASE S # {}
  <2>1. S \in SUBSET Nat
    BY SizeIsNat
  <2> HIDE DEF S
  <2>2. PICK M \in S : \A y \in S : M <= y
    BY <1>2, <2>1, Least
  <2> USE DEF S
  <2>3. CASE M = 0
    <3> DEFINE f == [n \in 0..0 |-> 0]
    <3>1. f = [n \in 0..0 |-> IF n = 0 THEN 0 ELSE f[n - 1] + q[n]]
      OBVIOUS
    <3> HIDE DEF f
    <3> QED
      BY <2>2, <2>3, <3>1
  <2>4. CASE M # 0
    <3>1. M - 1 \in 0..Size /\ M \in 1..Size
      BY <2>2, <2>4, SizeIsNat
    <3>2. Defined(M - 1)
      BY <2>2, <3>1
    <3>3. PICK f : f = [n \in 0..(M - 1) |-> IF n = 0 THEN 0 ELSE f[n - 1] + q[n]]
      BY <3>2
    <3> DEFINE g == [n \in 0..M |-> IF n = M THEN f[M - 1] + q[M] ELSE f[n]]
    <3>4. ASSUME NEW n \in 0..M PROVE g[n] = IF n = 0 THEN 0 ELSE g[n - 1] + q[n]
      <4>1. CASE n = 0
        BY <3>1, <3>3, <4>1
      <4>2. CASE n # 0
        <5>1. n - 1 \in 0..M /\ n - 1 # M /\ n - 1 \in 0..(M - 1)
          BY <3>1, <4>2
        <5>2. g[n - 1] = f[n - 1]
          BY <5>1
        <5>3. CASE n = M
          BY <4>2, <5>2, <5>3
        <5>4. CASE n # M
          <6>1. n \in 0..(M - 1)
            BY <3>1, <5>4
          <6>2. g[n] = f[n]
            BY <5>4
          <6> HIDE DEF g
          <6>3. f[n] = IF n = 0 THEN 0 ELSE f[n - 1] + q[n]
            BY <3>3, <6>1
          <6> QED
            BY <4>2, <5>2, <6>2, <6>3
        <5> QED
          BY <5>3, <5>4
      <4> QED
        BY <4>1, <4>2
    <3>5. g = [n \in 0..M |-> IF n = 0 THEN 0 ELSE g[n - 1] + q[n]]
      <4>1. g = [n \in 0..M |-> g[n]]
        OBVIOUS
      <4> HIDE DEF g
      <4>2. [n \in 0..M |-> g[n]] = [n \in 0..M |-> IF n = 0 THEN 0 ELSE g[n - 1] + q[n]]
        BY <3>4
      <4> QED
        BY <4>1, <4>2
    <3> HIDE DEF g
    <3> QED
      BY <2>2, <3>5
  <2> QED
    BY <2>3, <2>4
<1> QED
  BY <1>1, <1>2

\* So they are what their definition says.
LEMMA SumsAre ==
  ASSUME NEW q, NEW n \in 0..Size
  PROVE  Sums(q)[n] = IF n = 0 THEN 0 ELSE Sums(q)[n - 1] + q[n]
<1> DEFINE F(f) == [m \in 0..Size |-> IF m = 0 THEN 0 ELSE f[m - 1] + q[m]]
<1>1. \E f : f = F(f)
  <2>1. Size \in 0..Size
    BY SizeIsNat
  <2> QED
    BY <2>1, SumsDefined
<1>2. Sums(q) = CHOOSE f : f = F(f)
  BY DEF Sums, Size
<1>3. Sums(q) = F(Sums(q))
  <2> HIDE DEF F
  <2>1. (CHOOSE f : f = F(f)) = F(CHOOSE f : f = F(f))
    BY <1>1
  <2> QED
    BY <1>2, <2>1
<1> DEFINE e == Sums(q)
<1>4. e = [m \in 0..Size |-> IF m = 0 THEN 0 ELSE e[m - 1] + q[m]]
  BY <1>3
<1> HIDE DEF e
<1>5. e[n] = IF n = 0 THEN 0 ELSE e[n - 1] + q[n]
  BY <1>4
<1> QED
  BY <1>5 DEF e

\* A statement of every length holds if it holds of no lots and of one more than it holds
\* of; here of the numbers that refute it.
LEMMA SumStep ==
  ASSUME NEW S \in SUBSET (0..Size), 0 \notin S, \A n \in 1..Size : n \in S => n - 1 \in S
  PROVE  S = {}
<1> SUFFICES ASSUME S # {} PROVE FALSE
  OBVIOUS
<1>1. S \in SUBSET Nat
  BY SizeIsNat
<1>2. PICK n \in S : \A y \in S : n <= y
  BY <1>1, Least
<1>3. n \in 1..Size /\ n - 1 \in S
  BY <1>2, SizeIsNat
<1> QED
  BY <1>2, <1>3, SizeIsNat

\* Sums of numbers are numbers.
LEMMA SumsTyped ==
  ASSUME NEW q \in [Lots -> Int]
  PROVE  \A n \in 0..Size : Sums(q)[n] \in Int
<1> DEFINE S == {n \in 0..Size : Sums(q)[n] \notin Int}
<1>1. 0 \notin S
  BY SizeIsNat, SumsAre
<1>2. ASSUME NEW n \in 1..Size, n \in S PROVE n - 1 \in S
  <2>1. n \in 0..Size /\ n - 1 \in 0..Size /\ q[n] \in Int /\ n # 0
    BY SizeIsNat
  <2>2. Sums(q)[n] = Sums(q)[n - 1] + q[n]
    BY <2>1, SumsAre
  <2> QED
    BY <1>2, <2>1, <2>2
<1> HIDE DEF S
<1>3. S = {}
  <2>1. S \in SUBSET (0..Size)
    BY DEF S
  <2> QED
    BY <1>1, <1>2, <2>1, SumStep
<1> QED
  BY <1>3 DEF S

\* The sum of sums.
LEMMA SumsAdd ==
  ASSUME NEW q \in [Lots -> Int], NEW r \in [Lots -> Int], NEW s \in [Lots -> Int],
         \A n \in Lots : s[n] = q[n] + r[n]
  PROVE  Sums(s)[Size] = Sums(q)[Size] + Sums(r)[Size]
<1> DEFINE S == {n \in 0..Size : Sums(s)[n] # Sums(q)[n] + Sums(r)[n]}
<1>1. 0 \notin S
  <2>1. 0 \in 0..Size
    BY SizeIsNat
  <2>2. Sums(s)[0] = 0 /\ Sums(q)[0] = 0 /\ Sums(r)[0] = 0
    BY <2>1, SumsAre
  <2> QED
    BY <2>2
<1>2. ASSUME NEW n \in 1..Size, n \in S PROVE n - 1 \in S
  <2>1. /\ n \in 0..Size /\ n - 1 \in 0..Size /\ n # 0 /\ n \in Lots
        /\ q[n] \in Int /\ r[n] \in Int /\ s[n] = q[n] + r[n]
    BY SizeIsNat
  <2>2. /\ Sums(s)[n] = Sums(s)[n - 1] + s[n] /\ Sums(q)[n] = Sums(q)[n - 1] + q[n]
        /\ Sums(r)[n] = Sums(r)[n - 1] + r[n]
    BY <2>1, SumsAre
  <2>3. Sums(s)[n - 1] \in Int /\ Sums(q)[n - 1] \in Int /\ Sums(r)[n - 1] \in Int
    BY <2>1, SumsTyped
  <2> QED
    BY <1>2, <2>1, <2>2, <2>3
<1> HIDE DEF S
<1>3. S = {}
  <2>1. S \in SUBSET (0..Size)
    BY DEF S
  <2> QED
    BY <1>1, <1>2, <2>1, SumStep
<1> QED
  BY <1>3, SizeIsNat DEF S

\* The sum of one number.
LEMMA SumsOne ==
  ASSUME NEW q \in [Lots -> Int], NEW k \in Lots, \A n \in Lots \ {k} : q[n] = 0
  PROVE  Sums(q)[Size] = q[k]
<1> DEFINE S == {n \in 0..Size : Sums(q)[n] # IF n < k THEN 0 ELSE q[k]}
<1>1. 0 \notin S
  <2>1. 0 \in 0..Size /\ 0 < k
    BY SizeIsNat
  <2> QED
    BY <2>1, SumsAre
<1>2. ASSUME NEW n \in 1..Size, n \in S PROVE n - 1 \in S
  <2>1. /\ n \in 0..Size /\ n - 1 \in 0..Size /\ n # 0 /\ n \in Lots /\ q[n] \in Int /\ k \in Nat
        /\ q[k] \in Int /\ n \in Nat
    BY SizeIsNat
  <2>2. Sums(q)[n] = Sums(q)[n - 1] + q[n]
    BY <2>1, SumsAre
  <2>3. Sums(q)[n] # IF n < k THEN 0 ELSE q[k]
    BY <1>2
  <2>4. CASE n = k
    BY <2>1, <2>2, <2>3, <2>4
  <2>5. CASE n # k
    BY <2>1, <2>2, <2>3, <2>5
  <2> QED
    BY <2>4, <2>5
<1> HIDE DEF S
<1>3. S = {}
  <2>1. S \in SUBSET (0..Size)
    BY DEF S
  <2> QED
    BY <1>1, <1>2, <2>1, SumStep
<1> QED
  BY <1>3, SizeIsNat DEF S

\* The sum of nothing.
LEMMA SumsNone ==
  ASSUME NEW q \in [Lots -> Int], \A n \in Lots : q[n] = 0
  PROVE  Sums(q)[Size] = 0
<1>1. \A n \in Lots : q[n] = q[n] + q[n]
  OBVIOUS
<1>2. Sums(q)[Size] = Sums(q)[Size] + Sums(q)[Size]
  BY <1>1, SumsAdd
<1>3. PICK z : z = Sums(q)[Size]
  OBVIOUS
<1>4. z \in Int
  BY <1>3, SumsTyped, SizeIsNat
<1>5. z = z + z
  BY <1>2, <1>3
<1>6. z = 0
  BY ONLY <1>4, <1>5
<1> QED
  BY <1>3, <1>6

\* The sum of two numbers.
LEMMA SumsTwo ==
  ASSUME NEW q \in [Lots -> Int], NEW a \in Lots, NEW b \in Lots, a # b,
         \A n \in Lots \ {a, b} : q[n] = 0
  PROVE  Sums(q)[Size] = q[a] + q[b]
<1> DEFINE f == [n \in Lots |-> IF n = a THEN q[a] ELSE 0]
           g == [n \in Lots |-> IF n = b THEN q[b] ELSE 0]
<1>1. f \in [Lots -> Int] /\ g \in [Lots -> Int] /\ \A n \in Lots : q[n] = f[n] + g[n]
  OBVIOUS
<1>2. f[a] = q[a] /\ g[b] = q[b] /\ (\A n \in Lots \ {a} : f[n] = 0) /\ \A n \in Lots \ {b} : g[n] = 0
  OBVIOUS
<1> HIDE DEF f, g
<1>3. Sums(q)[Size] = Sums(f)[Size] + Sums(g)[Size]
  BY <1>1, SumsAdd
<1>4. Sums(f)[Size] = q[a] /\ Sums(g)[Size] = q[b]
  BY <1>1, <1>2, SumsOne
<1> QED
  BY <1>3, <1>4

\* Tables of quantities are tables of numbers.
LEMMA TablesTyped ==
  ASSUME NEW r \in [Lots -> Lot]
  PROVE  /\ \A G : Taken(G, r) \in [Lots -> Int]
         /\ \A p, L : Held(p, L, r) \in [Lots -> Int]
BY DEF Taken, Held, Lot

\* One more row held adds what it holds.
LEMMA TakenOneMore ==
  ASSUME NEW r \in [Lots -> Lot], NEW G \in SUBSET Lots, NEW k \in Lots, k \notin G
  PROVE  Sums(Taken(G \cup {k}, r))[Size] = Sums(Taken(G, r))[Size] + r[k].qty
<1> DEFINE q == Taken(G, r)
           o == Taken({k}, r)
           s == Taken(G \cup {k}, r)
<1>1. q \in [Lots -> Int] /\ o \in [Lots -> Int] /\ s \in [Lots -> Int]
  BY TablesTyped
<1>2. \A n \in Lots : s[n] = q[n] + o[n]
  <2>1. ASSUME NEW n \in Lots PROVE s[n] = q[n] + o[n]
    <3>1. r[n].qty \in Int
      BY DEF Lot
    <3> QED
      BY <3>1 DEF Taken
  <2> QED
    BY <2>1
<1>3. o[k] = r[k].qty /\ \A n \in Lots \ {k} : o[n] = 0
  BY DEF Taken
<1> HIDE DEF q, o, s
<1>4. Sums(s)[Size] = Sums(q)[Size] + Sums(o)[Size]
  BY <1>1, <1>2, SumsAdd
<1>5. Sums(o)[Size] = o[k]
  BY <1>1, <1>3, SumsOne
<1> QED
  BY <1>3, <1>4, <1>5 DEF q, s

-----------------------------------------------------------------------------
(* Type correctness.                                                         *)

\* There are values of the right kind for what is not in use.
LEMMA Fillers == /\ SomeRequest \in Requests
                 /\ SomeRequest \in Request
BY RequestsAssumption DEF SomeRequest

\* Writing lots into the tables keeps them typed.
LEMMA WriteTyped ==
  ASSUME TypeOK,
         NEW S \in SUBSET Lots, NEW new \in [S -> Lot], NEW delta \in [S -> Int],
         NEW gone \in SUBSET Lots, Write(new, delta, gone)
  PROVE  /\ row' \in [Lots -> Lot]
         /\ lots' \subseteq Lots
         /\ made' \in Nat
         /\ ledger' \in [Lots -> Int]
         /\ last' \in [Lots -> Int]
<1>1. row' \in [Lots -> Lot]
  BY DEF Write, TypeOK
<1>2. lots' \subseteq Lots
  BY DEF Write, TypeOK
<1>3. made' \in Nat
  BY DEF Write, TypeOK
<1>4. ledger' \in [Lots -> Int]
  BY DEF Write, TypeOK
<1>5. ASSUME NEW l \in Lots PROVE last'[l] \in Int
  BY DEF Write, TypeOK, Lot
<1>6. last' \in [Lots -> Int]
  BY <1>5 DEF Write
<1> QED
  BY <1>1, <1>2, <1>3, <1>4, <1>6

\* The end of a transaction leaves its bookkeeping typed.
LEMMA EndTyped ==
  ASSUME TypeOK, NEW x \in Txs, End(x)
  PROVE  /\ lock' \in [Lots -> Txs \cup {None}]
         /\ phase' \in [Txs -> {"idle", "first", "second", "patch"}]
         /\ req' \in [Txs -> Request]
         /\ scan' \in [Txs -> SUBSET Lots]
         /\ got' \in [Txs -> SUBSET Lots]
         /\ dest' \in [Txs -> Lots \cup {None}]
         /\ seen' \in [Txs -> [Lots -> Int]]
         /\ moved' \in [Txs -> Int]
         /\ carried' \in [Txs -> BOOLEAN]
         /\ served' \in 0..MaxRequests
BY Fillers DEF End, Unlocked, TypeOK

-----------------------------------------------------------------------------
(* Transactions that write nothing.                                          *)

\* The end of a transaction takes nothing from the others and clears its own rows.
LEMMA EndKeepsTxInv ==
  ASSUME Inv, NEW x \in Txs, End(x),
         \A y \in Txs \ {x} : \A l \in lots :
           lock[l] = y => l \in lots' /\ row'[l].qty = row[l].qty
  PROVE  \A y \in Txs : TxInv(y)'
<1>1. TxInv(x)'
  BY Fillers DEF End, Unlocked, TxInv, Inv, TypeOK
<1>2. ASSUME NEW y \in Txs \ {x} PROVE TxInv(y)'
  <2>1. UNCHANGED <<req[y], phase[y], got[y], moved[y], dest[y], seen[y]>>
    BY DEF End, Unlocked, Inv, TypeOK
  <2>2. TxInv(y)
    BY DEF Inv
  <2>3. ASSUME NEW l \in Lots, Holds(y, l) PROVE Holds(y, l)'
    <3>1. l \in lots' /\ row'[l].qty = row[l].qty
      BY <2>3 DEF Holds
    <3>2. lock'[l] = y
      BY <2>3 DEF Holds, End, Unlocked
    <3> QED
      BY <2>1, <2>3, <3>1, <3>2 DEF Holds
  <2>4. got[y] \subseteq Lots /\ dest[y] \in Lots \cup {None}
    BY DEF Inv, TypeOK
  <2> QED
    BY <2>1, <2>2, <2>3, <2>4 DEF TxInv
<1> QED
  BY <1>1, <1>2

\* A transaction whose rows and bookkeeping a step leaves alone stays pinned.
LEMMA StaysPinned ==
  ASSUME Inv, NEW y \in Txs, Pinned(y),
         UNCHANGED <<req[y], phase[y], scan[y], got[y], dest[y], moved[y]>>,
         \A l \in lots : lock[l] = y => row'[l] = row[l]
  PROVE  Pinned(y)'
<1>1. TxInv(y) /\ got[y] \subseteq Lots
  BY DEF Inv, TypeOK
<1>2. ASSUME NEW k \in got[y] PROVE row'[k] = row[k]
  BY <1>1 DEF TxInv, Holds
<1>3. \A k \in got[y] : FirstMatch(req[y], k)'
  BY <1>2 DEF Pinned, FirstMatch, At
<1>4. dest[y] # None => SecondMatch(y, dest[y])'
  <2> SUFFICES ASSUME dest[y] # None PROVE SecondMatch(y, dest[y])'
    OBVIOUS
  <2>1. SecondMatch(y, dest[y]) /\ row'[dest[y]] = row[dest[y]]
    BY <1>1 DEF Pinned, TxInv, Holds
  <2>2. req[y].op = "move" => row'[req[y].lot] = row[req[y].lot]
    BY <1>1, <1>2 DEF TxInv, ById
  <2> QED
    BY <2>1, <2>2 DEF SecondMatch, MovedPart, At
<1>5. Taken(got[y], row)' = Taken(got[y], row)
  BY <1>2 DEF Taken
<1> QED
  BY <1>3, <1>4, <1>5 DEF Pinned

\* The end of a transaction leaves it with nothing to keep, and the others as they were
\* when it writes rows it has locked only.
LEMMA EndKeepsPinned ==
  ASSUME Inv, PinnedInv, NEW x \in Txs, End(x),
         \A y \in Txs \ {x} : \A l \in lots : lock[l] = y => row'[l] = row[l],
         row' \in [Lots -> Lot]
  PROVE  PinnedInv'
<1>1. Pinned(x)'
  <2>1. got'[x] = {} /\ dest'[x] = None /\ phase'[x] = "idle" /\ moved'[x] = 0
    BY DEF End, Inv, TypeOK
  <2>2. \A n \in Lots : Taken(got[x], row)'[n] = 0
    BY <2>1 DEF Taken
  <2>3. Taken(got[x], row)' \in [Lots -> Int]
    BY <2>1 DEF Taken
  <2>4. PICK q : q = Taken(got[x], row)'
    OBVIOUS
  <2>5. Sums(q)[Size] = 0
    BY <2>2, <2>3, <2>4, SumsNone
  <2> QED
    BY <2>1, <2>4, <2>5 DEF Pinned
<1>2. ASSUME NEW y \in Txs \ {x} PROVE Pinned(y)'
  <2>1. UNCHANGED <<req[y], phase[y], scan[y], got[y], dest[y], moved[y]>>
    BY DEF End, Inv, TypeOK
  <2> QED
    BY <2>1, StaysPinned DEF PinnedInv
<1> QED
  BY <1>1, <1>2 DEF PinnedInv

\* A rollback keeps the invariant.
LEMMA RollbackKeeps ==
  ASSUME Inv, PinnedInv, StockConserved, NEW x \in Txs, UNCHANGED db, End(x)
  PROVE  Inv' /\ PinnedInv' /\ StockConserved'
<1>1. TypeOK'
  BY EndTyped DEF Inv, TypeOK, db
<1>2. \A y \in Txs : TxInv(y)'
  BY EndKeepsTxInv DEF db
<1>3. IdsInOrder' /\ LedgerAgrees'
  BY DEF Inv, db, IdsInOrder, LedgerAgrees
<1>4. \A y \in Txs : moved'[y] >= 0
  BY DEF Inv, End, Unlocked, TypeOK
<1>5. PinnedInv'
  BY EndKeepsPinned DEF Inv, TypeOK, db
<1>6. StockConserved'
  BY DEF StockConserved, db
<1> QED
  BY <1>1, <1>2, <1>3, <1>4, <1>5, <1>6 DEF Inv

-----------------------------------------------------------------------------
(* Transactions that write.                                                  *)

\* What makes a write sound: rows it has locked or the one it created, new
\* quantities that are the stored ones plus the deltas it logs, and no lot
\* taken below zero but on request.
SoundWrite(x, S, new, delta, gone) ==
  /\ \A k \in S : k = made + 1 \/ (k \in lots /\ lock[k] = x)
  /\ \A k \in S : new[k].qty = (IF k \in lots THEN row[k].qty ELSE 0) + delta[k]
  /\ \A k \in gone : lock[k] = x
  /\ \A k \in S : new[k].qty < 0 /\ delta[k] < 0 => AsksBelow(x)

\* A sound write and its commit keep the invariant.
LEMMA WriteKeeps ==
  ASSUME Inv, NEW x \in Txs,
         NEW S \in SUBSET Lots, NEW new \in [S -> Lot], NEW delta \in [S -> Int],
         NEW gone \in SUBSET Lots,
         SoundWrite(x, S, new, delta, gone), Write(new, delta, gone), End(x),
         net' \in [Parts -> Int], refOnly' \in [Parts -> BOOLEAN]
  PROVE  Inv'
<1> DOMAIN new = S
  OBVIOUS
<1>1. TypeOK'
  <2>1. TypeOK
    BY DEF Inv
  <2> QED
    BY <2>1, WriteTyped, EndTyped DEF TypeOK
<1>2. IdsInOrder'
  BY DEF Inv, IdsInOrder, Write, SoundWrite, TypeOK
<1>3. \A y \in Txs : TxInv(y)'
  <2>1. ASSUME NEW y \in Txs \ {x}, NEW l \in lots, lock[l] = y
        PROVE  l \in lots' /\ row'[l].qty = row[l].qty
    <3>1. l # made + 1 /\ l \in Lots
      BY DEF Inv, IdsInOrder, TypeOK
    <3>2. l \notin S /\ l \notin gone
      BY <2>1, <3>1 DEF SoundWrite
    <3> QED
      BY <3>1, <3>2 DEF Write
  <2> QED
    BY <2>1, EndKeepsTxInv
<1>4. ASSUME NEW l \in lots'
      PROVE  ledger'[l] = row'[l].qty /\ last'[l] = row'[l].qty
  <2>1. CASE l \in S
    BY <2>1 DEF Inv, LedgerAgrees, Write, SoundWrite, TypeOK, Lot
  <2>2. CASE l \notin S
    BY <2>2 DEF Inv, LedgerAgrees, Write, TypeOK
  <2> QED
    BY <2>1, <2>2
<1>5. \A y \in Txs : moved'[y] >= 0
  BY DEF Inv, End, Unlocked, TypeOK
<1> QED
  BY <1>1, <1>2, <1>3, <1>4, <1>5 DEF Inv, LedgerAgrees

\* A sound write takes no lot below zero but on request.
LEMMA WriteAsAsked ==
  ASSUME Inv, NEW x \in Txs,
         NEW S \in SUBSET Lots, NEW new \in [S -> Lot], NEW delta \in [S -> Int],
         NEW gone \in SUBSET Lots, SoundWrite(x, S, new, delta, gone), Write(new, delta, gone)
  PROVE  BelowAsked(x)
<1> DEFINE had(l) == IF l \in lots THEN row[l].qty ELSE 0
<1> SUFFICES ASSUME NEW l \in lots', row'[l].qty < 0, row'[l].qty < had(l)
             PROVE  AsksBelow(x)
  BY DEF BelowAsked
<1>1. l \in Lots /\ had(l) \in Int
  BY DEF Inv, TypeOK, Lot, Write
<1>2. CASE l \in S
  <2>1. row'[l].qty = new[l].qty /\ new[l].qty = had(l) + delta[l] /\ delta[l] \in Int
    BY <1>1, <1>2 DEF Write, SoundWrite
  <2>2. delta[l] < 0
    BY <1>1, <2>1
  <2> QED
    BY <1>2, <2>1, <2>2 DEF SoundWrite
<1>3. CASE l \notin S
  <2>1. row'[l].qty = row[l].qty /\ l \in lots
    BY <1>1, <1>3 DEF Write
  <2> QED
    BY <1>1, <2>1
<1> QED
  BY <1>2, <1>3

\* What a write changes of what the lots of a part hold, lot by lot.
Flow(p, S, new, delta, gone) ==
  [n \in Lots |-> IF n \in S THEN (IF new[n].part = p THEN delta[n] ELSE 0)
                  ELSE IF n \in gone /\ row[n].part = p THEN -row[n].qty ELSE 0]

\* What a write must keep for its flow to say it all: the lots it rewrites stay with
\* their part, and those it deletes are others, and are there.
SameParts(S, new, gone) ==
  /\ \A k \in S : k \in lots => new[k].part = row[k].part
  /\ gone \subseteq lots
  /\ gone \cap S = {}

\* What a part holds after a write is what it held and what flowed.
LEMMA WriteFlows ==
  ASSUME Inv, NEW x \in Txs, NEW p \in Parts,
         NEW S \in SUBSET Lots, NEW new \in [S -> Lot], NEW delta \in [S -> Int],
         NEW gone \in SUBSET Lots,
         SoundWrite(x, S, new, delta, gone), SameParts(S, new, gone), Write(new, delta, gone)
  PROVE  /\ Flow(p, S, new, delta, gone) \in [Lots -> Int]
         /\ Total(p, lots', row') = Total(p, lots, row) + Sums(Flow(p, S, new, delta, gone))[Size]
<1> DOMAIN new = S
  OBVIOUS
<1>1. row \in [Lots -> Lot] /\ row' \in [Lots -> Lot]
  BY WriteTyped DEF Inv, TypeOK
<1>2. \A n \in Lots : row[n].qty \in Int /\ row'[n].qty \in Int
  BY <1>1 DEF Lot
<1> DEFINE f == Flow(p, S, new, delta, gone)
           a == Held(p, lots, row)
           b == Held(p, lots', row')
<1>3. f \in [Lots -> Int]
  <2>1. ASSUME NEW n \in Lots
        PROVE  (IF n \in S THEN (IF new[n].part = p THEN delta[n] ELSE 0)
                ELSE IF n \in gone /\ row[n].part = p THEN -row[n].qty ELSE 0) \in Int
    BY <1>2
  <2> QED
    BY <2>1 DEF Flow
<1>4. a \in [Lots -> Int] /\ b \in [Lots -> Int]
  <2>1. a \in [Lots -> Int]
    BY <1>1, TablesTyped
  <2>2. PICK r : r = row'
    OBVIOUS
  <2>3. PICK L : L = lots'
    OBVIOUS
  <2>4. Held(p, L, r) \in [Lots -> Int]
    BY <1>1, <2>2, TablesTyped
  <2> QED
    BY <2>1, <2>2, <2>3, <2>4
<1>5. ASSUME NEW n \in Lots PROVE b[n] = a[n] + f[n]
  <2>1. row'[n] = IF n \in S THEN new[n] ELSE row[n]
    BY DEF Write
  <2>2. n \in lots' <=> (n \in lots \/ n \in S) /\ n \notin gone
    BY DEF Write
  <2>3. a[n] = IF n \in lots /\ row[n].part = p THEN row[n].qty ELSE 0
    BY DEF Held
  <2>4. b[n] = IF n \in lots' /\ row'[n].part = p THEN row'[n].qty ELSE 0
    BY DEF Held
  <2>5. f[n] = IF n \in S THEN (IF new[n].part = p THEN delta[n] ELSE 0)
               ELSE IF n \in gone /\ row[n].part = p THEN -row[n].qty ELSE 0
    BY DEF Flow
  <2> HIDE DEF a, b, f
  <2>6. CASE n \in S
    <3>1. /\ new[n].qty = (IF n \in lots THEN row[n].qty ELSE 0) + delta[n]
          /\ n \in lots => new[n].part = row[n].part
          /\ n \notin gone /\ delta[n] \in Int
      BY <2>6 DEF SoundWrite, SameParts
    <3> QED
      BY <1>2, <2>1, <2>2, <2>3, <2>4, <2>5, <2>6, <3>1
  <2>7. CASE n \notin S
    <3>1. n \in gone => n \in lots
      BY DEF SameParts
    <3> QED
      BY <1>2, <2>1, <2>2, <2>3, <2>4, <2>5, <2>7, <3>1
  <2> QED
    BY <2>6, <2>7
<1> HIDE DEF f, a, b
<1>6. Sums(b)[Size] = Sums(a)[Size] + Sums(f)[Size]
  BY <1>3, <1>4, <1>5, SumsAdd
<1>7. Sums(b)[Size] = Total(p, lots', row') /\ Sums(a)[Size] = Total(p, lots, row)
  BY DEF Total, Size, a, b
<1> QED
  BY <1>3, <1>6, <1>7 DEF f

\* Totals are numbers, and so is what they start from.
LEMMA TotalsTyped ==
  ASSUME NEW r \in [Lots -> Lot], NEW p, NEW L
  PROVE  Total(p, L, r) \in Int
<1>1. Held(p, L, r) \in [Lots -> Int]
  BY TablesTyped
<1>2. PICK q : q = Held(p, L, r)
  OBVIOUS
<1>3. Sums(q)[Size] \in Int
  BY <1>1, <1>2, SumsTyped, SizeIsNat
<1> QED
  BY <1>2, <1>3 DEF Total, Size

\* So is what a part starts with.
LEMMA StartTotal ==
  ASSUME NEW p
  PROVE  Total(p, 1..StartCount, Start) \in Int
<1> DEFINE q == Held(p, 1..StartCount, Start)
<1>1. q \in [Lots -> Int]
  BY StartAssumption DEF Held, Lot
<1>2. Total(p, 1..StartCount, Start) = Sums(q)[Size]
  BY DEF Total, Size
<1> HIDE DEF q
<1>3. Sums(q)[Size] \in Int
  BY <1>1, SumsTyped, SizeIsNat
<1> QED
  BY <1>2, <1>3

\* A write whose flow is what the part receives conserves the stock of the part.
LEMMA BalancedWrite ==
  ASSUME Inv, StockConserved, NEW x \in Txs,
         NEW S \in SUBSET Lots, NEW new \in [S -> Lot], NEW delta \in [S -> Int],
         NEW gone \in SUBSET Lots,
         SoundWrite(x, S, new, delta, gone), SameParts(S, new, gone), Write(new, delta, gone),
         \A p \in Parts : net'[p] = net[p] + Sums(Flow(p, S, new, delta, gone))[Size]
  PROVE  StockConserved'
<1>1. ASSUME NEW p \in Parts
      PROVE  Total(p, lots', row') = Total(p, 1..StartCount, Start) + net'[p]
  <2>1. PICK f : f = Sums(Flow(p, S, new, delta, gone))[Size]
    OBVIOUS
  <2>2. /\ Flow(p, S, new, delta, gone) \in [Lots -> Int]
        /\ Total(p, lots', row') = Total(p, lots, row) + f
    BY <2>1, WriteFlows
  <2>3. f \in Int
    <3>1. PICK q : q = Flow(p, S, new, delta, gone)
      OBVIOUS
    <3> QED
      BY <2>1, <2>2, <3>1, SumsTyped, SizeIsNat
  <2>4. net[p] \in Int /\ net'[p] = net[p] + f
    BY <2>1 DEF Inv, TypeOK
  <2>5. Total(p, lots, row) = Total(p, 1..StartCount, Start) + net[p]
    BY DEF StockConserved
  <2>6. Total(p, lots, row) \in Int
    BY TotalsTyped DEF Inv, TypeOK
  <2>7. Total(p, 1..StartCount, Start) \in Int
    BY StartTotal
  <2> QED
    BY <2>2, <2>3, <2>4, <2>5, <2>6, <2>7
<1> QED
  BY <1>1 DEF StockConserved

\* A sound write that balances, with what it leaves of the other tables.
BalancedCommit(x, S, new, delta, gone) ==
  /\ S \in SUBSET Lots /\ new \in [S -> Lot] /\ delta \in [S -> Int] /\ gone \in SUBSET Lots
  /\ SoundWrite(x, S, new, delta, gone)
  /\ SameParts(S, new, gone)
  /\ Write(new, delta, gone)
  /\ End(x)
  /\ net' \in [Parts -> Int] /\ refOnly' \in [Parts -> BOOLEAN]
  /\ \A p \in Parts : net'[p] = net[p] + Sums(Flow(p, S, new, delta, gone))[Size]

\* Such a commit keeps the whole invariant.
LEMMA WriteSafe ==
  ASSUME Inv, PinnedInv, StockConserved, NEW x \in Txs,
         NEW S, NEW new, NEW delta, NEW gone, BalancedCommit(x, S, new, delta, gone)
  PROVE  Inv' /\ PinnedInv' /\ StockConserved' /\ BelowAsked(x)
<1> /\ S \in SUBSET Lots /\ new \in [S -> Lot] /\ delta \in [S -> Int] /\ gone \in SUBSET Lots
    /\ SoundWrite(x, S, new, delta, gone) /\ SameParts(S, new, gone)
    /\ Write(new, delta, gone) /\ End(x)
    /\ net' \in [Parts -> Int] /\ refOnly' \in [Parts -> BOOLEAN]
    /\ \A p \in Parts : net'[p] = net[p] + Sums(Flow(p, S, new, delta, gone))[Size]
  BY DEF BalancedCommit
<1>1. Inv'
  BY WriteKeeps
<1>2. StockConserved'
  BY BalancedWrite
<1>3. row' \in [Lots -> Lot]
  BY <1>1 DEF Inv, TypeOK
<1>4. ASSUME NEW y \in Txs \ {x}, NEW l \in lots, lock[l] = y PROVE row'[l] = row[l]
  <2>1. l # made + 1 /\ l \in Lots
    BY DEF Inv, IdsInOrder, TypeOK
  <2>2. l \notin S /\ DOMAIN new = S
    BY <1>4, <2>1 DEF SoundWrite
  <2> QED
    BY <2>1, <2>2 DEF Write
<1>5. PinnedInv'
  BY <1>3, <1>4, EndKeepsPinned
<1>6. BelowAsked(x)
  BY WriteAsAsked
<1> QED
  BY <1>1, <1>2, <1>5, <1>6

\* What flows when one row is written: its delta, for its part.
LEMMA FlowOne ==
  ASSUME NEW p \in Parts, NEW l \in Lots, NEW new \in [{l} -> Lot], NEW delta \in [{l} -> Int]
  PROVE  Sums(Flow(p, {l}, new, delta, {}))[Size] = IF new[l].part = p THEN delta[l] ELSE 0
<1> DEFINE f == Flow(p, {l}, new, delta, {})
<1>1. f \in [Lots -> Int]
  BY DEF Flow
<1>2. (\A n \in Lots \ {l} : f[n] = 0) /\ f[l] = IF new[l].part = p THEN delta[l] ELSE 0
  BY DEF Flow
<1> HIDE DEF f
<1>3. Sums(f)[Size] = f[l]
  BY <1>1, <1>2, SumsOne
<1> QED
  BY <1>2, <1>3 DEF f

\* Between two rows of a part nothing flows in or out.
LEMMA FlowTwo ==
  ASSUME NEW p \in Parts, NEW a \in Lots, NEW b \in Lots, a # b,
         NEW new \in [{a, b} -> Lot], NEW delta \in [{a, b} -> Int],
         new[a].part = new[b].part, delta[a] = -delta[b]
  PROVE  Sums(Flow(p, {a, b}, new, delta, {}))[Size] = 0
<1> DEFINE f == Flow(p, {a, b}, new, delta, {})
<1>1. f \in [Lots -> Int]
  BY DEF Flow
<1>2. /\ \A n \in Lots \ {a, b} : f[n] = 0
      /\ f[a] = IF new[a].part = p THEN delta[a] ELSE 0
      /\ f[b] = IF new[b].part = p THEN delta[b] ELSE 0
  BY DEF Flow
<1> HIDE DEF f
<1>3. Sums(f)[Size] = f[a] + f[b]
  BY <1>1, <1>2, SumsTwo
<1>4. delta[a] \in Int /\ delta[b] \in Int
  OBVIOUS
<1>5. f[a] + f[b] = 0
  BY <1>2, <1>4
<1> QED
  BY <1>3, <1>5 DEF f

\* A new quantity is a quantity; it falls below zero only by a negative number, and a
\* removal does not take it there.
LEMMA NewQtyBounds ==
  ASSUME NEW how, NEW cur \in Int, NEW q \in Int
  PROVE  /\ NewQty(how, cur, q) \in Int
         /\ NewQty(how, cur, q) < 0 /\ NewQty(how, cur, q) - cur < 0 => how # "remove" /\ q < 0
BY DEF NewQty

\* A row a transaction holds is a lot, with the stored quantity in its hands.
LEMMA HeldRow ==
  ASSUME Inv, NEW x \in Txs, NEW l, Holds(x, l)
  PROVE  /\ l \in Lots /\ l \in lots /\ lock[l] = x
         /\ row[l] \in Lot /\ seen[x][l] = row[l].qty /\ row[l].qty \in Int
BY DEF Holds, Inv, TypeOK, Lot

\* What is known of a transaction: its request, and the id of a lot it creates.
LEMMA AboutTx ==
  ASSUME Inv, NEW x \in Txs
  PROVE  /\ req[x] \in Request /\ req[x].lot \in Lots /\ req[x].part \in Parts
         /\ req[x].to \in Places /\ req[x].qty \in Int /\ req[x].plain \in BOOLEAN
         /\ made \in Nat /\ made + 1 \notin lots
         /\ moved[x] \in Int /\ moved[x] >= 0
         /\ TxInv(x)
<1>1. req[x] \in Request /\ req[x] \in Requests
  BY DEF Inv, TypeOK, TxInv
<1>2. made \in Nat /\ made + 1 \notin lots
  BY DEF Inv, TypeOK, IdsInOrder
<1>3. moved[x] \in Int /\ moved[x] >= 0 /\ TxInv(x)
  BY DEF Inv, TypeOK
<1> QED
  BY <1>1, <1>2, <1>3 DEF Request

\* An operation that selects by id and does not fail holds the row of that id.
LEMMA HoldsAsked ==
  ASSUME Inv, NEW x \in Txs, req[x].op \in ById, got[x] # {}
  PROVE  Holds(x, req[x].lot)
BY DEF Inv, TxInv

\* Adjust of a part at a location keeps the invariant.
LEMMA AdjustKeeps ==
  ASSUME Inv, PinnedInv, StockConserved, NEW x \in Txs, CommitAdjust(x)
  PROVE  Inv' /\ PinnedInv' /\ StockConserved' /\ BelowAsked(x)
<1> DEFINE r   == req[x]
           l   == IF got[x] = {} THEN made + 1 ELSE CHOOSE g \in got[x] : TRUE
           lot == IF got[x] = {} THEN NewLot(r.part, r.to, TRUE) ELSE row[l]
           cur == IF got[x] = {} THEN 0 ELSE seen[x][l]
           qty == NewQty(r.how, cur, r.qty)
           new == [k \in {l} |-> [lot EXCEPT !.qty = qty]]
           delta == [k \in {l} |-> qty - cur]
<1>1. Write(new, delta, {}) /\ End(x)
  BY DEF CommitAdjust
<1>2. l \in Lots
  BY <1>1 DEF Write
<1>3. /\ lot \in Lot /\ cur \in Int
      /\ l = made + 1 \/ (l \in lots /\ lock[l] = x)
      /\ cur = IF l \in lots THEN row[l].qty ELSE 0
  <2>1. CASE got[x] = {}
    BY <2>1, AboutTx DEF NewLot, Lot
  <2>2. CASE got[x] # {}
    <3>1. l \in got[x]
      BY <2>2
    <3>2. Holds(x, l)
      BY <3>1, AboutTx DEF TxInv
    <3> QED
      BY <2>2, <3>2, HeldRow
  <2> QED
    BY <2>1, <2>2
<1>4. qty \in Int /\ (qty < 0 /\ qty - cur < 0 => AsksBelow(x))
  <2>1. r.op = "adjust" /\ r.qty \in Int
    BY AboutTx DEF CommitAdjust, Ready
  <2> HIDE DEF cur
  <2> QED
    BY <1>3, <2>1, NewQtyBounds DEF AsksBelow
<1>5. new \in [{l} -> Lot] /\ delta \in [{l} -> Int] /\ new[l].qty = qty
  <2> HIDE DEF l, lot, cur, qty, r
  <2> QED
    BY <1>3, <1>4 DEF Lot
<1>6. SoundWrite(x, {l}, new, delta, {})
  <2> HIDE DEF l, lot, cur, qty, r
  <2> QED
    BY <1>3, <1>4, <1>5 DEF SoundWrite
<1>7. net' \in [Parts -> Int] /\ refOnly' \in [Parts -> BOOLEAN]
  <2>1. Receive(r.part, qty - cur)
    BY DEF CommitAdjust
  <2>2. refOnly' = [refOnly EXCEPT ![r.part] = @ /\ ~(qty > cur /\ qty > 0)]
    BY DEF CommitAdjust
  <2> HIDE DEF qty, cur, l, lot
  <2>3. net' \in [Parts -> Int]
    BY <1>3, <1>4, <2>1, AboutTx DEF Receive, Inv, TypeOK
  <2>4. ASSUME NEW p \in Parts PROVE refOnly'[p] \in BOOLEAN
    BY <2>2 DEF Inv, TypeOK
  <2> QED
    BY <2>2, <2>3, <2>4 DEF Inv, TypeOK
<1>8. lot.part = r.part /\ (l \in lots => lot.part = row[l].part)
  <2>1. CASE got[x] = {}
    BY <2>1, AboutTx DEF NewLot
  <2>2. CASE got[x] # {}
    <3>1. FirstMatch(r, l) /\ r.op = "adjust"
      BY <2>2 DEF PinnedInv, Pinned, CommitAdjust, Ready
    <3> QED
      BY <2>2, <3>1 DEF FirstMatch, At, ById
  <2> QED
    BY <2>1, <2>2
<1>9. Receive(r.part, qty - cur)
  BY DEF CommitAdjust
<1> HIDE DEF qty, cur, lot, l
<1>10. new[l].part = r.part /\ delta[l] = qty - cur /\ SameParts({l}, new, {})
  BY <1>3, <1>8 DEF Lot, SameParts
<1> HIDE DEF new, delta, r
<1>11. ASSUME NEW p \in Parts
       PROVE  net'[p] = net[p] + Sums(Flow(p, {l}, new, delta, {}))[Size]
  <2>1. net[p] \in Int /\ net'[p] = IF p = r.part THEN net[p] + (qty - cur) ELSE net[p]
    BY <1>9 DEF Receive, Inv, TypeOK
  <2>2. Sums(Flow(p, {l}, new, delta, {}))[Size] = IF new[l].part = p THEN delta[l] ELSE 0
    BY <1>2, <1>5, FlowOne
  <2> QED
    BY <1>10, <2>1, <2>2
<1>21. BalancedCommit(x, {l}, new, delta, {})
  BY <1>1, <1>2, <1>5, <1>6, <1>7, <1>10, <1>11 DEF BalancedCommit
<1> QED
  BY <1>21, WriteSafe

\* Adjustment of one lot keeps the invariant.
LEMMA AdjustLotKeeps ==
  ASSUME Inv, PinnedInv, StockConserved, NEW x \in Txs, CommitAdjustLot(x)
  PROVE  Inv' /\ PinnedInv' /\ StockConserved' /\ BelowAsked(x)
<1> DEFINE l   == req[x].lot
           qty == NewQty(req[x].how, seen[x][l], req[x].qty)
           new == [k \in {l} |-> [row[l] EXCEPT !.qty = qty]]
           delta == [k \in {l} |-> qty - seen[x][l]]
<1>1. /\ Write(new, delta, {}) /\ End(x) /\ UNCHANGED refOnly
      /\ Receive(row[l].part, qty - seen[x][l])
  BY DEF CommitAdjustLot
<1>2. Holds(x, l)
  BY HoldsAsked DEF CommitAdjustLot, Ready, Fails, ById, Twice
<1>3. /\ l \in Lots /\ row[l] \in Lot /\ seen[x][l] \in Int /\ row[l].part \in Parts
      /\ l \in lots /\ lock[l] = x /\ seen[x][l] = row[l].qty
  BY <1>2, HeldRow DEF Lot
<1>4. qty \in Int /\ (qty < 0 /\ qty - seen[x][l] < 0 => AsksBelow(x))
  <2>1. req[x].op = "adjustlot" /\ req[x].qty \in Int
    BY AboutTx DEF CommitAdjustLot, Ready
  <2> HIDE DEF l
  <2> QED
    BY <1>3, <2>1, NewQtyBounds DEF AsksBelow
<1>5. new \in [{l} -> Lot] /\ delta \in [{l} -> Int] /\ new[l].qty = qty
  BY <1>3, <1>4 DEF Lot
<1>6. SoundWrite(x, {l}, new, delta, {})
  <2> HIDE DEF l, qty
  <2> QED
    BY <1>3, <1>4, <1>5 DEF SoundWrite
<1>7. net' \in [Parts -> Int] /\ refOnly' \in [Parts -> BOOLEAN]
  BY <1>1, <1>3, <1>4 DEF Receive, Inv, TypeOK
<1> HIDE DEF qty, l
<1>8. new[l].part = row[l].part /\ delta[l] = qty - seen[x][l] /\ SameParts({l}, new, {})
  BY <1>3 DEF Lot, SameParts
<1> HIDE DEF new, delta
<1>9. ASSUME NEW p \in Parts
      PROVE  net'[p] = net[p] + Sums(Flow(p, {l}, new, delta, {}))[Size]
  <2>1. /\ net[p] \in Int
        /\ net'[p] = IF p = row[l].part THEN net[p] + (qty - seen[x][l]) ELSE net[p]
    BY <1>1 DEF Receive, Inv, TypeOK
  <2>2. Sums(Flow(p, {l}, new, delta, {}))[Size] = IF new[l].part = p THEN delta[l] ELSE 0
    BY <1>3, <1>5, FlowOne
  <2> QED
    BY <1>8, <2>1, <2>2
<1>21. BalancedCommit(x, {l}, new, delta, {})
  BY <1>1, <1>3, <1>5, <1>6, <1>7, <1>8, <1>9 DEF BalancedCommit
<1> QED
  BY <1>21, WriteSafe

\* An operation that receives nothing leaves the other two tables typed.
LEMMA PartTablesKept ==
  ASSUME Inv, UNCHANGED <<net, refOnly>>
  PROVE  net' \in [Parts -> Int] /\ refOnly' \in [Parts -> BOOLEAN]
BY DEF Inv, TypeOK

\* A move between lots keeps the invariant, also onto the source itself.
LEMMA MoveKeeps ==
  ASSUME Inv, PinnedInv, StockConserved, NEW x \in Txs, CommitMove(x)
  PROVE  Inv' /\ PinnedInv' /\ StockConserved' /\ BelowAsked(x)
<1> DEFINE r   == req[x]
           s   == r.lot
           src == seen[x][s] - r.qty
           d   == IF dest[x] = None THEN made + 1 ELSE dest[x]
           lot == IF dest[x] = None THEN NewLot(row[s].part, r.to, TRUE) ELSE row[d]
           cur == DestQty(x, d)
           new == [k \in {s, d} |-> IF k = d THEN [lot EXCEPT !.qty = cur + r.qty]
                                             ELSE [row[s] EXCEPT !.qty = src]]
           delta == [k \in {s, d} |->
                       IF s = d THEN 0 ELSE IF k = d THEN r.qty ELSE -r.qty]
<1>1. Write(new, delta, {}) /\ End(x) /\ UNCHANGED <<net, refOnly>>
  BY DEF CommitMove
<1>2. /\ phase[x] = "second" /\ r.op = "move"
  BY DEF CommitMove, Ready, Twice
<1>3. Holds(x, s) /\ r.qty <= seen[x][s]
  BY <1>2, AboutTx, HoldsAsked DEF TxInv, ById
<1>4. /\ s \in Lots /\ row[s] \in Lot /\ row[s].part \in Parts
      /\ s \in lots /\ lock[s] = x /\ seen[x][s] = row[s].qty
      /\ src \in Int /\ src >= 0 /\ r.qty \in Int
      /\ src + r.qty = row[s].qty
      /\ r.qty > 0
  <2>1. Accepted(r)
    BY <1>2 DEF PinnedInv, Pinned
  <2> QED
    BY <1>2, <1>3, <2>1, HeldRow, AboutTx DEF Lot, Accepted
<1>5. /\ d \in Lots /\ lot \in Lot
      /\ d = made + 1 \/ (d \in lots /\ lock[d] = x)
      /\ d # s => /\ cur = IF d \in lots THEN row[d].qty ELSE 0
                  /\ cur \in Int
  <2>1. CASE dest[x] = None
    <3>1. d = made + 1 /\ d \in Lots
      BY <1>1, <2>1 DEF Write
    <3> QED
      BY <2>1, <3>1, <1>4, AboutTx DEF NewLot, Lot, DestQty
  <2>2. CASE dest[x] # None
    <3>1. Holds(x, d)
      BY <2>2, AboutTx DEF TxInv
    <3> QED
      BY <2>2, <3>1, HeldRow DEF DestQty
  <2> QED
    BY <2>1, <2>2
<1>11. /\ lot.part = row[s].part
       /\ d \in lots => lot.part = row[d].part
  <2>1. CASE dest[x] = None
    BY <2>1, AboutTx DEF NewLot
  <2>2. CASE dest[x] # None
    <3>1. SecondMatch(x, d)
      BY <2>2 DEF PinnedInv, Pinned
    <3> QED
      BY <1>2, <2>2, <3>1 DEF SecondMatch, MovedPart, At
  <2> QED
    BY <2>1, <2>2
<1>10. d = s => cur = src
  BY DEF DestQty
<1>6. cur \in Int
  BY <1>4, <1>5, <1>10
<1> HIDE DEF lot, d, cur, s, src, r
<1>7. new \in [{s, d} -> Lot]
  BY <1>4, <1>5, <1>6 DEF Lot
<1>8. delta \in [{s, d} -> Int]
  BY <1>4
<1>9. SoundWrite(x, {s, d}, new, delta, {})
  <2>1. CASE s = d
    <3>1. cur = src
      BY <2>1, <1>10
    <3> QED
      BY <2>1, <3>1, <1>4, <1>5, <1>6 DEF SoundWrite, Lot
  <2>2. CASE s # d
    <3>1. new[s].qty = src /\ delta[s] = -r.qty
      BY <2>2, <1>4 DEF Lot
    <3>2. new[d].qty = cur + r.qty /\ delta[d] = r.qty
      BY <2>2, <1>5 DEF Lot
    <3> HIDE DEF new, delta
    <3> QED
      BY <2>2, <3>1, <3>2, <1>4, <1>5, <1>6 DEF SoundWrite
  <2> QED
    BY <2>1, <2>2
<1>12. /\ new[s].part = row[s].part /\ new[d].part = row[s].part
       /\ SameParts({s, d}, new, {})
       /\ s = d => delta[d] = 0
       /\ s # d => delta[d] = r.qty /\ delta[s] = -r.qty
  BY <1>4, <1>5, <1>11 DEF Lot, SameParts
<1> HIDE DEF new, delta
<1>13. ASSUME NEW p \in Parts
       PROVE  net'[p] = net[p] + Sums(Flow(p, {s, d}, new, delta, {}))[Size]
  <2>1. net[p] \in Int /\ net'[p] = net[p]
    BY <1>1 DEF Inv, TypeOK
  <2>2. Sums(Flow(p, {s, d}, new, delta, {}))[Size] = 0
    <3>1. CASE s = d
      <4>1. /\ {s, d} = {d} /\ new \in [{d} -> Lot] /\ delta \in [{d} -> Int]
        BY <1>7, <1>8, <3>1
      <4>2. Sums(Flow(p, {d}, new, delta, {}))[Size] = IF new[d].part = p THEN delta[d] ELSE 0
        BY <1>5, <4>1, FlowOne
      <4> QED
        BY <1>12, <3>1, <4>1, <4>2
    <3>2. CASE s # d
      <4>1. delta[s] = -delta[d] /\ new[s].part = new[d].part
        BY <1>12, <3>2
      <4> QED
        BY <1>4, <1>5, <1>7, <1>8, <3>2, <4>1, FlowTwo
    <3> QED
      BY <3>1, <3>2
  <2> QED
    BY <2>1, <2>2
<1>20. net' \in [Parts -> Int] /\ refOnly' \in [Parts -> BOOLEAN]
  BY <1>1, PartTablesKept
<1>21. BalancedCommit(x, {s, d}, new, delta, {})
  BY <1>20, <1>1, <1>4, <1>5, <1>7, <1>8, <1>9, <1>12, <1>13 DEF BalancedCommit
<1> QED
  BY <1>21, WriteSafe

\* Moving all of a part to one location keeps the invariant.
LEMMA MovePartKeeps ==
  ASSUME Inv, PinnedInv, StockConserved, NEW x \in Txs, CommitMovePart(x)
  PROVE  Inv' /\ PinnedInv' /\ StockConserved' /\ BelowAsked(x)
<1> DEFINE d   == IF dest[x] = None THEN made + 1 ELSE dest[x]
           lot == IF dest[x] = None THEN NewLot(req[x].part, req[x].to, TRUE)
                                    ELSE row[d]
           cur == IF dest[x] = None THEN 0 ELSE seen[x][d]
           S   == got[x] \cup {d}
           new == [k \in S |-> IF k = d THEN [lot EXCEPT !.qty = cur + moved[x]]
                                        ELSE [row[k] EXCEPT !.qty = 0]]
           delta == [k \in S |-> IF k = d THEN moved[x] ELSE -seen[x][k]]
<1>1. Write(new, delta, {}) /\ End(x) /\ UNCHANGED <<net, refOnly>>
  BY DEF CommitMovePart
<1>2. /\ d \in Lots /\ lot \in Lot
      /\ d = made + 1 \/ (d \in lots /\ lock[d] = x)
      /\ cur = IF d \in lots THEN row[d].qty ELSE 0
      /\ cur \in Int
  <2>1. CASE dest[x] = None
    <3>1. d = made + 1 /\ d \in Lots
      BY <1>1, <2>1 DEF Write
    <3> QED
      BY <2>1, <3>1, AboutTx DEF NewLot, Lot
  <2>2. CASE dest[x] # None
    <3>1. Holds(x, d)
      BY <2>2, AboutTx DEF TxInv
    <3> QED
      BY <2>2, <3>1, HeldRow
  <2> QED
    BY <2>1, <2>2
<1>3. ASSUME NEW k \in got[x]
      PROVE  /\ k \in Lots /\ k \in lots /\ lock[k] = x /\ row[k] \in Lot
             /\ seen[x][k] = row[k].qty /\ row[k].qty \in Int
  BY AboutTx, HeldRow DEF TxInv
<1>4. moved[x] \in Int /\ moved[x] >= 0
  BY AboutTx
<1>10. /\ req[x].op = "movepart" /\ phase[x] = "second" /\ Pinned(x)
  BY DEF CommitMovePart, Ready, Twice, PinnedInv
<1>11. /\ \A k \in got[x] : row[k].part = req[x].part /\ row[k].place # req[x].to
       /\ moved[x] = Sums(Taken(got[x], row))[Size]
  BY <1>10 DEF Pinned, FirstMatch, ById
<1>12. /\ lot.part = req[x].part
       /\ d \in lots => lot.part = row[d].part
       /\ d \notin got[x]
  <2>1. CASE dest[x] = None
    BY <1>3, <2>1, AboutTx DEF NewLot
  <2>2. CASE dest[x] # None
    <3>1. SecondMatch(x, d)
      BY <1>10, <2>2 DEF Pinned
    <3>2. row[d].part = req[x].part /\ row[d].place = req[x].to
      BY <1>10, <3>1 DEF SecondMatch, MovedPart, At
    <3> QED
      BY <1>11, <2>2, <3>2
  <2> QED
    BY <2>1, <2>2
<1> HIDE DEF d, lot, cur
<1>5. S \in SUBSET Lots
  BY <1>2, <1>3
<1>6. new \in [S -> Lot]
  BY <1>2, <1>3, <1>4 DEF Lot
<1>7. delta \in [S -> Int]
  BY <1>3, <1>4
<1>8. ASSUME NEW k \in S
      PROVE  /\ k = made + 1 \/ (k \in lots /\ lock[k] = x)
             /\ new[k].qty = (IF k \in lots THEN row[k].qty ELSE 0) + delta[k]
             /\ ~(new[k].qty < 0 /\ delta[k] < 0)
  <2>1. CASE k = d
    <3>1. new[d].qty = cur + moved[x] /\ delta[d] = moved[x]
      BY <1>2 DEF Lot
    <3> HIDE DEF new, delta
    <3> QED
      BY <2>1, <3>1, <1>2, <1>4
  <2>2. CASE k # d
    <3>1. k \in got[x] /\ new[k].qty = 0 /\ delta[k] = -row[k].qty
      BY <2>2, <1>3 DEF Lot
    <3> HIDE DEF new, delta
    <3> QED
      BY <3>1, <1>3
  <2> QED
    BY <2>1, <2>2
<1>9. SoundWrite(x, S, new, delta, {})
  BY <1>8 DEF SoundWrite
<1>13. /\ \A k \in S : new[k].part = req[x].part
       /\ SameParts(S, new, {})
  <2>1. ASSUME NEW k \in S PROVE new[k].part = req[x].part /\ (k \in lots => new[k].part = row[k].part)
    BY <1>2, <1>3, <1>11, <1>12 DEF Lot
  <2> QED
    BY <2>1 DEF SameParts
<1>14. /\ S = got[x] \cup {d} /\ delta[d] = moved[x]
       /\ \A k \in got[x] : delta[k] = -row[k].qty
  BY <1>3, <1>12
<1> HIDE DEF new, delta, S
<1>15. ASSUME NEW p \in Parts
       PROVE  net'[p] = net[p] + Sums(Flow(p, S, new, delta, {}))[Size]
  <2>1. net[p] \in Int /\ net'[p] = net[p]
    BY <1>1 DEF Inv, TypeOK
  <2> DEFINE f == Flow(p, S, new, delta, {})
  <2>2. f \in [Lots -> Int]
    BY <1>7 DEF Flow
  <2>3. \A n \in Lots : f[n] = IF n \in S /\ req[x].part = p THEN delta[n] ELSE 0
    BY <1>13 DEF Flow
  <2> HIDE DEF f
  <2>4. Sums(f)[Size] = 0
    <3>1. CASE req[x].part # p
      BY <2>2, <2>3, <3>1, SumsNone
    <3>2. CASE req[x].part = p
      <4> DEFINE t == Taken(got[x], row)
                 o == [n \in Lots |-> IF n = d THEN moved[x] ELSE 0]
      <4>1. t \in [Lots -> Int] /\ o \in [Lots -> Int]
        BY <1>4, TablesTyped DEF Inv, TypeOK
      <4>2. ASSUME NEW n \in Lots PROVE o[n] = f[n] + t[n]
        <5>1. f[n] = (IF n \in S THEN delta[n] ELSE 0)
          BY <2>3, <3>2
        <5>2. t[n] = IF n \in got[x] THEN row[n].qty ELSE 0
          BY DEF Taken
        <5>3. CASE n = d
          BY <1>4, <1>12, <1>14, <5>1, <5>2, <5>3
        <5>4. CASE n \in got[x]
          BY <1>3, <1>12, <1>14, <5>1, <5>2, <5>4
        <5>5. CASE n # d /\ n \notin got[x]
          BY <1>14, <5>1, <5>2, <5>5
        <5> QED
          BY <5>3, <5>4, <5>5
      <4>3. o[d] = moved[x] /\ \A n \in Lots \ {d} : o[n] = 0
        BY <1>2
      <4>4. Sums(t)[Size] = moved[x]
        BY <1>11
      <4> HIDE DEF t, o
      <4>5. Sums(o)[Size] = Sums(f)[Size] + Sums(t)[Size]
        BY <2>2, <4>1, <4>2, SumsAdd
      <4>6. Sums(o)[Size] = o[d]
        BY <1>2, <4>1, <4>3, SumsOne
      <4>7. PICK z : z = Sums(f)[Size]
        OBVIOUS
      <4>8. z \in Int
        BY <2>2, <4>7, SumsTyped, SizeIsNat
      <4>9. moved[x] = z + moved[x]
        BY <4>3, <4>4, <4>5, <4>6, <4>7
      <4>10. z = 0
        BY <1>4, <4>8, <4>9
      <4> QED
        BY <4>7, <4>10
    <3> QED
      BY <3>1, <3>2
  <2> QED
    BY <2>1, <2>4 DEF f
<1>20. net' \in [Parts -> Int] /\ refOnly' \in [Parts -> BOOLEAN]
  BY <1>1, PartTablesKept
<1>21. BalancedCommit(x, S, new, delta, {})
  BY <1>20, <1>1, <1>5, <1>6, <1>7, <1>9, <1>13, <1>15 DEF BalancedCommit
<1> QED
  BY <1>21, WriteSafe

\* A split into a lot of its own keeps the invariant.
LEMMA SplitKeeps ==
  ASSUME Inv, PinnedInv, StockConserved, NEW x \in Txs, CommitSplit(x)
  PROVE  Inv' /\ PinnedInv' /\ StockConserved' /\ BelowAsked(x)
<1> DEFINE r   == req[x]
           s   == r.lot
           n   == made + 1
           new == [k \in {s, n} |->
                     IF k = n THEN [NewLot(row[s].part, r.to, r.plain) EXCEPT !.qty = r.qty]
                              ELSE [row[s] EXCEPT !.qty = seen[x][s] - r.qty]]
           delta == [k \in {s, n} |-> IF k = n THEN r.qty ELSE -r.qty]
<1>1. Write(new, delta, {}) /\ End(x) /\ UNCHANGED <<net, refOnly>>
  BY DEF CommitSplit
<1>2. /\ r.op = "split" /\ got[x] # {}
      /\ ~(r.qty > seen[x][s]) /\ ~(r.qty <= 0)
  BY DEF CommitSplit, Ready, Fails, Twice, ById
<1>3. Holds(x, s)
  BY <1>2, HoldsAsked DEF ById
<1>4. /\ s \in Lots /\ row[s] \in Lot /\ row[s].part \in Parts
      /\ s \in lots /\ lock[s] = x /\ seen[x][s] = row[s].qty
      /\ r.qty \in Int /\ row[s].qty \in Int /\ n \notin lots
      /\ r.qty > 0 /\ row[s].qty - r.qty >= 0
      /\ r.to \in Places /\ r.plain \in BOOLEAN
  BY <1>2, <1>3, HeldRow, AboutTx DEF Lot
<1>5. n \in Lots
  BY <1>1 DEF Write
<1> HIDE DEF s, r, n
<1>6. /\ new \in [{s, n} -> Lot] /\ delta \in [{s, n} -> Int]
      /\ new[n].qty = r.qty /\ delta[n] = r.qty
      /\ new[s].qty = row[s].qty - r.qty /\ delta[s] = -r.qty
  BY <1>4 DEF Lot, NewLot
<1>8. new[n].part = row[s].part /\ new[s].part = row[s].part /\ SameParts({s, n}, new, {})
  BY <1>4 DEF Lot, NewLot, SameParts
<1> HIDE DEF new, delta
<1>7. SoundWrite(x, {s, n}, new, delta, {})
  BY <1>4, <1>6 DEF SoundWrite, n
<1>9. ASSUME NEW p \in Parts
      PROVE  net'[p] = net[p] + Sums(Flow(p, {s, n}, new, delta, {}))[Size]
  <2>1. net[p] \in Int /\ net'[p] = net[p]
    BY <1>1 DEF Inv, TypeOK
  <2>2. s # n /\ delta[s] = -delta[n] /\ new[s].part = new[n].part
    BY <1>4, <1>6, <1>8
  <2>3. Sums(Flow(p, {s, n}, new, delta, {}))[Size] = 0
    BY <1>4, <1>5, <1>6, <2>2, FlowTwo
  <2> QED
    BY <2>1, <2>3
<1>20. net' \in [Parts -> Int] /\ refOnly' \in [Parts -> BOOLEAN]
  BY <1>1, PartTablesKept
<1>21. BalancedCommit(x, {s, n}, new, delta, {})
  BY <1>20, <1>1, <1>4, <1>5, <1>6, <1>7, <1>8, <1>9 DEF BalancedCommit
<1> QED
  BY <1>21, WriteSafe

\* A merge keeps the invariant: the target takes the quantity, the source goes.
LEMMA MergeKeeps ==
  ASSUME Inv, PinnedInv, StockConserved, NEW x \in Txs, CommitMerge(x)
  PROVE  Inv' /\ PinnedInv' /\ StockConserved' /\ BelowAsked(x)
<1> DEFINE s   == req[x].lot
           d   == dest[x]
           new == [k \in {d} |-> [row[d] EXCEPT !.qty = seen[x][d] + seen[x][s]]]
           delta == [k \in {d} |-> seen[x][s]]
<1>1. Write(new, delta, {s}) /\ End(x) /\ UNCHANGED <<net, refOnly>>
  BY DEF CommitMerge
<1>2. phase[x] = "second" /\ req[x].op = "merge" /\ d # None
  BY DEF CommitMerge, Ready, Fails, Twice
<1>3. Holds(x, s) /\ Holds(x, d)
  BY <1>2, AboutTx, HoldsAsked DEF TxInv, ById
<1>4. /\ s \in Lots /\ lock[s] = x /\ seen[x][s] \in Int
      /\ d \in Lots /\ d \in lots /\ lock[d] = x /\ row[d] \in Lot
      /\ seen[x][d] = row[d].qty /\ row[d].qty \in Int
  BY <1>3, HeldRow
<1>7. s # d /\ s \in lots /\ row[d].part = row[s].part /\ seen[x][s] = row[s].qty
  <2>1. Pinned(x)
    BY DEF PinnedInv
  <2>2. Accepted(req[x]) /\ SecondMatch(x, d)
    BY <1>2, <2>1 DEF Pinned
  <2>3. SamePart(x)
    BY <1>2 DEF CommitMerge, Ready, Fails
  <2> QED
    BY <1>2, <1>3, <2>2, <2>3, HeldRow DEF Accepted, SecondMatch, SamePart
<1>10. seen[x][s] < 0 => AsksBelow(x)
  BY <1>2, <1>7 DEF AsksBelow
<1> HIDE DEF s, d
<1>5. /\ new \in [{d} -> Lot] /\ delta \in [{d} -> Int]
      /\ new[d].qty = seen[x][d] + seen[x][s] /\ delta[d] = seen[x][s]
  BY <1>4 DEF Lot
<1>8. new[d].part = row[s].part /\ SameParts({d}, new, {s})
  BY <1>4, <1>7 DEF Lot, SameParts
<1> HIDE DEF new, delta
<1>6. SoundWrite(x, {d}, new, delta, {s})
  BY <1>4, <1>5, <1>10 DEF SoundWrite
<1>9. ASSUME NEW p \in Parts
      PROVE  net'[p] = net[p] + Sums(Flow(p, {d}, new, delta, {s}))[Size]
  <2>1. net[p] \in Int /\ net'[p] = net[p]
    BY <1>1 DEF Inv, TypeOK
  <2> DEFINE f == Flow(p, {d}, new, delta, {s})
  <2>2. /\ f[d] = IF row[s].part = p THEN seen[x][s] ELSE 0
        /\ f[s] = IF row[s].part = p THEN -row[s].qty ELSE 0
        /\ \A n \in Lots \ {d, s} : f[n] = 0
    BY <1>4, <1>5, <1>7, <1>8 DEF Flow
  <2>3. f \in [Lots -> Int]
    <3>1. \A n \in Lots : row[n].qty \in Int
      BY DEF Inv, TypeOK, Lot
    <3> QED
      BY <1>5, <3>1 DEF Flow
  <2> HIDE DEF f
  <2>4. Sums(f)[Size] = f[d] + f[s]
    BY <1>4, <1>7, <2>2, <2>3, SumsTwo
  <2>5. f[d] + f[s] = 0
    BY <1>4, <1>7, <2>2
  <2> QED
    BY <2>1, <2>4, <2>5 DEF f
<1>20. net' \in [Parts -> Int] /\ refOnly' \in [Parts -> BOOLEAN]
  BY <1>1, PartTablesKept
<1>21. BalancedCommit(x, {d}, new, delta, {s})
  BY <1>20, <1>1, <1>4, <1>5, <1>6, <1>8, <1>9 DEF BalancedCommit
<1> QED
  BY <1>21, WriteSafe

\* Relocation keeps the invariant: it logs a movement of nothing.
LEMMA RelocateKeeps ==
  ASSUME Inv, PinnedInv, StockConserved, NEW x \in Txs, CommitRelocate(x)
  PROVE  Inv' /\ PinnedInv' /\ StockConserved' /\ BelowAsked(x)
<1> DEFINE l   == req[x].lot
           new == [k \in {l} |-> [row[l] EXCEPT !.place = req[x].to]]
           delta == [k \in {l} |-> 0]
<1>1. Write(new, delta, {}) /\ End(x) /\ UNCHANGED <<net, refOnly>>
  BY DEF CommitRelocate
<1>2. Holds(x, l)
  BY HoldsAsked DEF CommitRelocate, Ready, Fails, ById, Twice
<1>3. /\ l \in Lots /\ l \in lots /\ lock[l] = x /\ row[l] \in Lot
      /\ row[l].qty \in Int
      /\ req[x].to \in Places
  BY <1>2, HeldRow, AboutTx
<1> HIDE DEF l
<1>4. /\ new \in [{l} -> Lot] /\ delta \in [{l} -> Int]
      /\ new[l].qty = row[l].qty /\ delta[l] = 0
  BY <1>3 DEF Lot
<1>6. new[l].part = row[l].part /\ SameParts({l}, new, {})
  BY <1>3 DEF Lot, SameParts
<1> HIDE DEF new, delta
<1>5. SoundWrite(x, {l}, new, delta, {})
  BY <1>3, <1>4 DEF SoundWrite
<1>7. ASSUME NEW p \in Parts
      PROVE  net'[p] = net[p] + Sums(Flow(p, {l}, new, delta, {}))[Size]
  <2>1. net[p] \in Int /\ net'[p] = net[p]
    BY <1>1 DEF Inv, TypeOK
  <2>2. Sums(Flow(p, {l}, new, delta, {}))[Size] = IF new[l].part = p THEN delta[l] ELSE 0
    BY <1>3, <1>4, FlowOne
  <2> QED
    BY <1>4, <2>1, <2>2
<1>20. net' \in [Parts -> Int] /\ refOnly' \in [Parts -> BOOLEAN]
  BY <1>1, PartTablesKept
<1>21. BalancedCommit(x, {l}, new, delta, {})
  BY <1>20, <1>1, <1>3, <1>4, <1>5, <1>6, <1>7 DEF BalancedCommit
<1> QED
  BY <1>21, WriteSafe

\* Clearing empty lots keeps the invariant.
LEMMA EmptyKeeps ==
  ASSUME Inv, PinnedInv, StockConserved, NEW x \in Txs, DeleteEmptyLots(x)
  PROVE  Inv' /\ PinnedInv' /\ StockConserved' /\ BelowAsked(x)
<1> DEFINE new == [k \in {} |-> SomeLot]
           delta == [k \in {} |-> 0]
<1>1. Write(new, delta, got[x]) /\ End(x) /\ UNCHANGED <<net, refOnly>>
  BY DEF DeleteEmptyLots
<1>2. got[x] \subseteq Lots /\ \A k \in got[x] : lock[k] = x
  BY AboutTx DEF TxInv, Holds, Inv, TypeOK
<1>3. new \in [{} -> Lot] /\ delta \in [{} -> Int]
  OBVIOUS
<1>5. SameParts({}, new, got[x])
  BY AboutTx DEF SameParts, TxInv, Holds
<1> HIDE DEF new, delta
<1>4. SoundWrite(x, {}, new, delta, got[x])
  BY <1>2 DEF SoundWrite
<1>6. \A k \in got[x] : row[k].qty = 0
  BY DEF PinnedInv, Pinned, FirstMatch, DeleteEmptyLots, Ready, ById
<1>7. ASSUME NEW p \in Parts
      PROVE  net'[p] = net[p] + Sums(Flow(p, {}, new, delta, got[x]))[Size]
  <2>1. net[p] \in Int /\ net'[p] = net[p]
    BY <1>1 DEF Inv, TypeOK
  <2> DEFINE f == Flow(p, {}, new, delta, got[x])
  <2>2. f \in [Lots -> Int] /\ \A n \in Lots : f[n] = 0
    BY <1>6 DEF Flow
  <2> HIDE DEF f
  <2>3. Sums(f)[Size] = 0
    BY <2>2, SumsNone
  <2> QED
    BY <2>1, <2>3 DEF f
<1>20. net' \in [Parts -> Int] /\ refOnly' \in [Parts -> BOOLEAN]
  BY <1>1, PartTablesKept
<1>21. BalancedCommit(x, {}, new, delta, got[x])
  BY <1>20, <1>1, <1>2, <1>3, <1>4, <1>5, <1>7 DEF BalancedCommit
<1> QED
  BY <1>21, WriteSafe

\* Every commit keeps the invariant.
LEMMA CommitKeeps ==
  ASSUME Inv, PinnedInv, StockConserved, NEW x \in Txs, Commit(x)
  PROVE  Inv' /\ PinnedInv' /\ StockConserved' /\ BelowAsked(x)
<1>1. CASE NothingToMove(x)
  <2>1. BelowAsked(x)
    BY <1>1 DEF NothingToMove, db, BelowAsked, Inv, TypeOK, Lot
  <2> QED
    BY <1>1, <2>1, RollbackKeeps DEF NothingToMove
<1> QED
  BY <1>1, AdjustKeeps, AdjustLotKeeps, MoveKeeps, MovePartKeeps, SplitKeeps,
     MergeKeeps, RelocateKeeps, EmptyKeeps DEF Commit

-----------------------------------------------------------------------------
(* Steps that select, and the PATCH.                                         *)

\* Starting a stock request keeps the invariant.
LEMMA BeginKeeps ==
  ASSUME Inv, NEW x \in Txs, NEW r \in Requests, Begin(x, r)
  PROVE  Inv'
<1>1. TypeOK'
  BY RequestsAssumption, CountAssumption DEF Begin, Inv, TypeOK, db
<1>2. ASSUME NEW y \in Txs PROVE TxInv(y)'
  BY DEF Begin, Inv, TypeOK, TxInv, Holds, db
<1> QED
  BY <1>1, <1>2
  DEF Inv, Begin, db, IdsInOrder, LedgerAgrees

\* Locking the next row keeps the invariant.
LEMMA LockRowKeeps ==
  ASSUME Inv, NEW x \in Txs, LockRow(x)
  PROVE  Inv'
<1> DEFINE first == phase[x] = "first"
           many  == first /\ req[x].op \in Many
<1>1. PICK l \in scan[x] :
        LET hit == StillMatches(x, l)
        IN /\ \A k \in scan[x] : l <= k
           /\ lock[l] \in {None, x}
           /\ lock' = [lock EXCEPT ![l] = IF l \in lots THEN x ELSE @]
           /\ scan' = [scan EXCEPT ![x] = IF hit /\ ~many THEN {} ELSE @ \ {l}]
           /\ got' = [got EXCEPT ![x] = IF hit /\ first THEN @ \cup {l} ELSE @]
           /\ dest' = [dest EXCEPT ![x] = IF hit /\ ~first THEN l ELSE @]
           /\ seen' = [seen EXCEPT ![x][l] = IF hit THEN row[l].qty ELSE @]
           /\ moved' = [moved EXCEPT ![x] = IF hit /\ many THEN @ + row[l].qty ELSE @]
  BY DEF LockRow
<1> DEFINE hit == StillMatches(x, l)
<1>2. /\ phase[x] \in {"first", "second"}
      /\ UNCHANGED <<row, lots, made, ledger, last, net, refOnly>>
      /\ UNCHANGED <<phase, req, carried, served>>
  BY DEF LockRow, db
<1>3. l \in Lots /\ row[l].qty \in Int
  BY DEF Inv, TypeOK, Lot
<1>4. hit /\ req[x].op \in ById /\ first => l = req[x].lot
  BY DEF StillMatches, FirstMatch, ById
<1> HIDE DEF hit, first, many
<1>5. TypeOK'
  <2>1. lock' \in [Lots -> Txs \cup {None}]
    BY <1>1, <1>3 DEF Inv, TypeOK
  <2>2. scan' \in [Txs -> SUBSET Lots] /\ got' \in [Txs -> SUBSET Lots]
    BY <1>1, <1>3 DEF Inv, TypeOK
  <2>3. dest' \in [Txs -> Lots \cup {None}]
    BY <1>1, <1>3 DEF Inv, TypeOK
  <2>4. seen' \in [Txs -> [Lots -> Int]]
    BY <1>1, <1>3 DEF Inv, TypeOK
  <2>5. moved' \in [Txs -> Int]
    BY <1>1, <1>3 DEF Inv, TypeOK
  <2> QED
    BY <1>2, <2>1, <2>2, <2>3, <2>4, <2>5 DEF Inv, TypeOK
<1>6. ASSUME NEW y \in Txs \ {x} PROVE TxInv(y)'
  <2>1. UNCHANGED <<req[y], phase[y], got[y], moved[y], dest[y], seen[y]>>
    BY <1>1, <1>2 DEF Inv, TypeOK
  <2>2. ASSUME NEW k \in Lots, Holds(y, k) PROVE Holds(y, k)'
    <3>1. lock'[k] = y
      BY <1>1, <2>2, TxsAssumption DEF Holds, Inv, TypeOK
    <3> QED
      BY <1>2, <2>1, <2>2, <3>1 DEF Holds
  <2>3. got[y] \subseteq Lots /\ dest[y] \in Lots \cup {None} /\ TxInv(y)
    BY DEF Inv, TypeOK
  <2> QED
    BY <2>1, <2>2, <2>3 DEF TxInv
<1>7. TxInv(x)'
  <2>1. TxInv(x) /\ got[x] \subseteq Lots /\ dest[x] \in Lots \cup {None}
    BY DEF Inv, TypeOK
  <2>2. hit => Holds(x, l)'
    BY <1>1, <1>2, <1>3 DEF Holds, hit, StillMatches, Inv, TypeOK
  <2>3. ASSUME NEW k \in Lots, Holds(x, k) PROVE Holds(x, k)'
    BY <1>1, <1>2, <1>3, <2>3 DEF Holds, Inv, TypeOK
  <2>4. /\ got'[x] = IF hit /\ first THEN got[x] \cup {l} ELSE got[x]
        /\ dest'[x] = IF hit /\ ~first THEN l ELSE dest[x]
        /\ req'[x] = req[x] /\ phase'[x] = phase[x]
    BY <1>1, <1>2 DEF hit, StillMatches, Inv, TypeOK
  <2>5. \A k \in got'[x] : Holds(x, k)'
    BY <2>1, <2>2, <2>3, <2>4 DEF TxInv
  <2>6. (dest[x] # None => Holds(x, dest[x]))'
    BY <2>1, <2>2, <2>3, <2>4 DEF TxInv
  <2>7. phase[x] = "second" /\ req[x].op = "move" => req[x].qty <= seen'[x][req[x].lot]
    <3> SUFFICES ASSUME phase[x] = "second", req[x].op = "move"
                 PROVE  req[x].qty <= seen'[x][req[x].lot]
      OBVIOUS
    <3>1. Holds(x, req[x].lot) /\ req[x].lot \in Lots
      BY <2>1, AboutTx, HoldsAsked DEF TxInv, ById
    <3>2. Holds(x, req[x].lot)'
      BY <1>2, <2>3, <2>4, <3>1
    <3> QED
      BY <1>2, <2>1, <2>4, <3>1, <3>2 DEF TxInv, Holds
  <2>8. phase[x] # "second" => dest'[x] = None
    BY <1>2, <2>1, <2>4 DEF TxInv, first
  <2> QED
    BY <1>2, <1>4, <2>1, <2>4, <2>5, <2>6, <2>7, <2>8 DEF TxInv, first
<1>8. \A y \in Txs : moved'[y] >= 0
  <2>1. hit /\ many => row[l].qty >= 0
    <3> SUFFICES ASSUME hit, many PROVE row[l].qty >= 0
      OBVIOUS
    <3>1. FirstMatch(req[x], l) /\ req[x].op \in Many
      BY DEF hit, many, first, StillMatches
    <3> QED
      BY <1>3, <3>1 DEF FirstMatch, Many, ById
  <2>2. moved'[x] = IF hit /\ many THEN moved[x] + row[l].qty ELSE moved[x]
    BY <1>1 DEF hit, StillMatches, Inv, TypeOK
  <2>3. moved[x] \in Int /\ moved[x] >= 0
    BY AboutTx
  <2>4. moved'[x] >= 0
    <3>1. CASE hit /\ many
      BY <1>3, <2>1, <2>2, <2>3, <3>1
    <3>2. CASE ~(hit /\ many)
      BY <2>2, <2>3, <3>2
    <3> QED
      BY <3>1, <3>2
  <2> QED
    BY <1>1, <2>4 DEF Inv, TypeOK
<1> QED
  BY <1>2, <1>5, <1>6, <1>7, <1>8
  DEF Inv, IdsInOrder, LedgerAgrees

\* Starting the second SELECT keeps the invariant.
LEMMA SelectSecondKeeps ==
  ASSUME Inv, NEW x \in Txs, SelectSecond(x)
  PROVE  Inv'
<1>1. TypeOK'
  BY DEF SelectSecond, Inv, TypeOK, db
<1>2. ASSUME NEW y \in Txs \ {x} PROVE TxInv(y)'
  BY DEF SelectSecond, Inv, TypeOK, TxInv, Holds, db
<1>3. TxInv(x)'
  <2>1. req[x].op = "move" => req[x].qty <= seen[x][req[x].lot]
    <3>1. /\ req[x].qty \in Int /\ seen[x][req[x].lot] \in Int
      BY AboutTx DEF Inv, TypeOK
    <3> QED
      BY <3>1 DEF SelectSecond, Fails
  <2> QED
    BY <2>1 DEF SelectSecond, Inv, TypeOK, TxInv, Holds, db
<1> QED
  BY <1>1, <1>2, <1>3
  DEF Inv, SelectSecond, db, IdsInOrder, LedgerAgrees

\* Reading the part for a PATCH keeps the invariant.
LEMMA ReadPartKeeps ==
  ASSUME Inv, NEW x \in Txs, NEW r \in Requests, ReadPart(x, r)
  PROVE  Inv'
<1>1. r \in Request /\ r.flag \in BOOLEAN /\ r.part \in Parts
  BY RequestsAssumption DEF Request
<1>2. TypeOK'
  BY <1>1, CountAssumption DEF ReadPart, Inv, TypeOK, db
<1>3. ASSUME NEW y \in Txs PROVE TxInv(y)'
  BY DEF ReadPart, Inv, TypeOK, TxInv, Holds, db
<1> QED
  BY <1>2, <1>3
  DEF Inv, ReadPart, db, IdsInOrder, LedgerAgrees

\* Writing the part back keeps the invariant.
LEMMA UpdatePartKeeps ==
  ASSUME Inv, PinnedInv, StockConserved, NEW x \in Txs, UpdatePart(x)
  PROVE  Inv' /\ PinnedInv' /\ StockConserved'
<1>1. End(x) /\ UNCHANGED <<row, lots, made, ledger, last, net>>
      /\ refOnly' \in [Parts -> BOOLEAN]
  BY DEF UpdatePart, Inv, TypeOK
<1>2. TypeOK'
  BY <1>1, EndTyped DEF Inv, TypeOK
<1>4. PinnedInv'
  BY <1>1, EndKeepsPinned DEF Inv, TypeOK
<1>5. StockConserved'
  BY <1>1 DEF StockConserved
<1>3. \A y \in Txs : TxInv(y)'
  BY <1>1, EndKeepsTxInv
<1> QED
  BY <1>1, <1>2, <1>3, <1>4, <1>5
  DEF Inv, End, Unlocked, TypeOK, IdsInOrder, LedgerAgrees

\* Locking a row keeps what is pinned: the row matches, or is passed over.
LEMMA LockRowPinned ==
  ASSUME Inv, PinnedInv, NEW x \in Txs, LockRow(x)
  PROVE  PinnedInv'
<1> DEFINE first == phase[x] = "first"
           many  == first /\ req[x].op \in Many
<1>1. PICK l \in scan[x] :
        LET hit == StillMatches(x, l)
        IN /\ \A k \in scan[x] : l <= k
           /\ lock[l] \in {None, x}
           /\ lock' = [lock EXCEPT ![l] = IF l \in lots THEN x ELSE @]
           /\ scan' = [scan EXCEPT ![x] = IF hit /\ ~many THEN {} ELSE @ \ {l}]
           /\ got' = [got EXCEPT ![x] = IF hit /\ first THEN @ \cup {l} ELSE @]
           /\ dest' = [dest EXCEPT ![x] = IF hit /\ ~first THEN l ELSE @]
           /\ seen' = [seen EXCEPT ![x][l] = IF hit THEN row[l].qty ELSE @]
           /\ moved' = [moved EXCEPT ![x] = IF hit /\ many THEN @ + row[l].qty ELSE @]
  BY DEF LockRow
<1> DEFINE hit == StillMatches(x, l)
<1>2. /\ phase[x] \in {"first", "second"}
      /\ UNCHANGED <<row, lots, phase, req>>
  BY DEF LockRow, db
<1>3. l \in Lots /\ l \in scan[x] /\ got[x] \in SUBSET Lots /\ row \in [Lots -> Lot]
  BY DEF Inv, TypeOK
<1>4. /\ hit /\ first => FirstMatch(req[x], l)
      /\ hit /\ ~first => SecondMatch(x, l)
  BY DEF StillMatches
<1> HIDE DEF hit, first, many
<1>5. /\ scan'[x] = IF hit /\ ~many THEN {} ELSE scan[x] \ {l}
      /\ got'[x] = IF hit /\ first THEN got[x] \cup {l} ELSE got[x]
      /\ dest'[x] = IF hit /\ ~first THEN l ELSE dest[x]
      /\ moved'[x] = IF hit /\ many THEN moved[x] + row[l].qty ELSE moved[x]
  BY <1>1 DEF hit, Inv, TypeOK
<1>6. ASSUME NEW y \in Txs \ {x} PROVE Pinned(y)'
  <2>1. UNCHANGED <<req[y], phase[y], scan[y], got[y], dest[y], moved[y]>>
    BY <1>1, <1>2 DEF Inv, TypeOK
  <2> QED
    BY <1>2, <2>1, StaysPinned DEF PinnedInv
<1>7. Pinned(x)'
  <2>1. Pinned(x)
    BY DEF PinnedInv
  <2>2. ASSUME NEW k \in got'[x] PROVE FirstMatch(req[x], k)'
    <3>1. FirstMatch(req[x], k)
      BY <1>4, <1>5, <2>1, <2>2 DEF Pinned
    <3> QED
      BY <1>2, <3>1 DEF FirstMatch, At
  <2>3. dest'[x] # None => SecondMatch(x, dest[x])'
    <3>1. dest'[x] # None => SecondMatch(x, dest'[x])
      BY <1>4, <1>5, <2>1 DEF Pinned
    <3> QED
      BY <1>2, <3>1 DEF SecondMatch, MovedPart, At
  <2>4. first => scan'[x] \cap got'[x] = {}
    BY <1>3, <1>5, <2>1 DEF Pinned, first
  <2>5. req[x].op = "movepart" => moved'[x] = Sums(Taken(got[x], row))[Size]'
    <3> SUFFICES ASSUME req[x].op = "movepart"
                 PROVE  moved'[x] = Sums(Taken(got'[x], row))[Size]
      BY <1>2
    <3>1. many <=> first
      BY DEF many, Many
    <3>2. moved[x] = Sums(Taken(got[x], row))[Size]
      BY <2>1 DEF Pinned
    <3>3. CASE hit /\ first
      <4>1. l \notin got[x]
        BY <1>3, <2>1, <3>3 DEF Pinned, first
      <4>2. Sums(Taken(got[x] \cup {l}, row))[Size] = Sums(Taken(got[x], row))[Size] + row[l].qty
        BY <1>3, <4>1, TakenOneMore
      <4> QED
        BY <1>5, <3>1, <3>2, <3>3, <4>2
    <3>4. CASE ~(hit /\ first)
      BY <1>5, <3>1, <3>2, <3>4
    <3> QED
      BY <3>3, <3>4
  <2> QED
    BY <1>2, <2>1, <2>2, <2>3, <2>4, <2>5 DEF Pinned, first
<1> QED
  BY <1>6, <1>7 DEF PinnedInv

\* So does the start of the second SELECT, which has no row yet.
LEMMA SelectSecondPinned ==
  ASSUME Inv, PinnedInv, NEW x \in Txs, SelectSecond(x)
  PROVE  PinnedInv'
<1>1. UNCHANGED <<row, lots, req, got, dest, moved>> /\ phase[x] = "first" /\ phase'[x] = "second"
  BY DEF SelectSecond, db, Inv, TypeOK
<1>2. ASSUME NEW y \in Txs \ {x} PROVE Pinned(y)'
  <2>1. UNCHANGED <<req[y], phase[y], scan[y], got[y], dest[y], moved[y]>>
    BY DEF SelectSecond, Inv, TypeOK
  <2> QED
    BY <1>1, <2>1, StaysPinned DEF PinnedInv
<1>3. Pinned(x)'
  <2>1. Pinned(x)
    BY DEF PinnedInv
  <2>2. \A k \in got[x] : FirstMatch(req[x], k)'
    BY <1>1, <2>1 DEF Pinned, FirstMatch, At
  <2>3. dest[x] # None => SecondMatch(x, dest[x])'
    BY <1>1, <2>1 DEF Pinned, SecondMatch, MovedPart, At
  <2>4. Taken(got[x], row)' = Taken(got[x], row)
    BY <1>1
  <2> QED
    BY <1>1, <2>1, <2>2, <2>3, <2>4 DEF Pinned
<1> QED
  BY <1>2, <1>3 DEF PinnedInv

\* A transaction that begins holds nothing yet.
LEMMA BeginPinned ==
  ASSUME Inv, PinnedInv, NEW x \in Txs, NEW r \in Requests, Begin(x, r) \/ ReadPart(x, r)
  PROVE  PinnedInv'
<1>1. /\ UNCHANGED <<row, lots, got, dest, moved>>
      /\ got[x] = {} /\ dest[x] = None /\ moved[x] = 0
  BY DEF Begin, ReadPart, db, Inv, TxInv
<1>2. ASSUME NEW y \in Txs \ {x} PROVE Pinned(y)'
  <2>1. UNCHANGED <<req[y], phase[y], scan[y], got[y], dest[y], moved[y]>>
    BY DEF Begin, ReadPart, Inv, TypeOK
  <2> QED
    BY <1>1, <2>1, StaysPinned DEF PinnedInv
<1>3. Pinned(x)'
  <2>1. phase'[x] \in {"first", "second"} => Accepted(req'[x])
    BY DEF Begin, ReadPart, Inv, TypeOK
  <2>2. Sums(Taken({}, row))[Size] = 0
    <3>1. \A n \in Lots : Taken({}, row)[n] = 0
      BY DEF Taken
    <3>2. Taken({}, row) \in [Lots -> Int]
      BY TablesTyped DEF Inv, TypeOK
    <3> QED
      BY <3>1, <3>2, SumsNone
  <2>3. Accepted(req[x])' <=> Accepted(req'[x])
    BY DEF Accepted
  <2> QED
    BY <1>1, <2>1, <2>2, <2>3 DEF Pinned
<1> QED
  BY <1>2, <1>3 DEF PinnedInv

-----------------------------------------------------------------------------
(* The theorems.                                                             *)

\* The initial tables satisfy the invariant.
LEMMA InvInit == Init => Inv
<1> SUFFICES ASSUME Init PROVE Inv
  OBVIOUS
<1>1. SomeLot \in Lot
  <2>1. PICK r : r \in Requests
    BY RequestsAssumption
  <2>2. r.part \in Parts /\ r.to \in Places
    BY <2>1, RequestsAssumption DEF Request
  <2> QED
    BY <2>2 DEF SomeLot, Lot
<1>2. row \in [Lots -> Lot]
  BY <1>1, StartAssumption, CountAssumption DEF Init, Lots
<1>3. lots \subseteq Lots
  BY CountAssumption DEF Init, Lots
<1>4. TypeOK
  BY <1>2, <1>3, Fillers, CountAssumption DEF Init, TypeOK, Lot
<1>5. IdsInOrder /\ LedgerAgrees
  BY <1>3 DEF Init, IdsInOrder, LedgerAgrees
<1>7. \A x \in Txs : TxInv(x) /\ moved[x] >= 0
  BY Fillers DEF Init, TxInv
<1> QED
  BY <1>4, <1>5, <1>7 DEF Inv

\* At first no transaction has selected anything and nothing was received.
LEMMA SafeInit == Init => Safe
<1> SUFFICES ASSUME Init PROVE Safe
  OBVIOUS
<1>1. Inv
  BY InvInit
<1>2. PinnedInv
  <2>1. ASSUME NEW x \in Txs PROVE Pinned(x)
    <3>1. got[x] = {} /\ dest[x] = None /\ phase[x] = "idle" /\ moved[x] = 0
      BY DEF Init
    <3>2. Taken({}, row) \in [Lots -> Int] /\ \A n \in Lots : Taken({}, row)[n] = 0
      BY DEF Taken
    <3>3. Sums(Taken({}, row))[Size] = 0
      BY <3>2, SumsNone
    <3> QED
      BY <3>1, <3>3 DEF Pinned
  <2> QED
    BY <2>1 DEF PinnedInv
<1>3. StockConserved
  <2>1. ASSUME NEW p \in Parts
        PROVE  Total(p, lots, row) = Total(p, 1..StartCount, Start) + net[p]
    <3>1. Held(p, lots, row) = Held(p, 1..StartCount, Start)
      BY StartAssumption, CountAssumption DEF Init, Held, Lots
    <3>2. Total(p, lots, row) = Total(p, 1..StartCount, Start)
      BY <3>1 DEF Total
    <3>3. Total(p, 1..StartCount, Start) \in Int
      BY StartTotal
    <3> QED
      BY <3>2, <3>3 DEF Init
  <2> QED
    BY <2>1 DEF StockConserved
<1> QED
  BY <1>1, <1>2, <1>3 DEF Safe

\* Every step keeps the invariant.
LEMMA SafeStep == Safe /\ [Next]_vars => Safe'
<1> SUFFICES ASSUME Inv, PinnedInv, StockConserved, [Next]_vars
             PROVE  Inv' /\ PinnedInv' /\ StockConserved'
  BY DEF Safe
<1>1. CASE UNCHANGED vars
  <2>1. Inv'
    BY <1>1 DEF vars, db, tx, Inv, TypeOK, IdsInOrder, TxInv, Holds, LedgerAgrees
  <2>2. PinnedInv'
    <3>1. \A y \in Txs : UNCHANGED <<req[y], phase[y], scan[y], got[y], dest[y], moved[y]>>
      BY <1>1 DEF vars, tx
    <3>2. row' = row
      BY <1>1 DEF vars, db
    <3> QED
      BY <3>1, <3>2, StaysPinned DEF PinnedInv
  <2>3. StockConserved'
    BY <1>1 DEF vars, db, StockConserved
  <2> QED
    BY <2>1, <2>2, <2>3
<1>2. ASSUME NEW x \in Txs, NEW r \in Requests, Begin(x, r) \/ ReadPart(x, r)
      PROVE  Inv' /\ PinnedInv' /\ StockConserved'
  BY <1>2, BeginKeeps, ReadPartKeeps, BeginPinned DEF Begin, ReadPart, db, StockConserved
<1>3. ASSUME NEW x \in Txs, Refuse(x) \/ Abandon(x) \/ BreakDeadlock(x)
      PROVE  Inv' /\ PinnedInv' /\ StockConserved'
  BY <1>3, RollbackKeeps DEF Refuse, Abandon, BreakDeadlock
<1>4. ASSUME NEW x \in Txs, LockRow(x) \/ SelectSecond(x)
      PROVE  Inv' /\ PinnedInv' /\ StockConserved'
  <2>1. StockConserved'
    BY <1>4 DEF LockRow, SelectSecond, db, StockConserved
  <2> QED
    BY <1>4, <2>1, LockRowKeeps, SelectSecondKeeps, LockRowPinned, SelectSecondPinned
<1>5. ASSUME NEW x \in Txs, Commit(x) \/ UpdatePart(x)
      PROVE  Inv' /\ PinnedInv' /\ StockConserved'
  BY <1>5, CommitKeeps, UpdatePartKeeps
<1> QED
  BY <1>1, <1>2, <1>3, <1>4, <1>5 DEF Next, Rest

\* The strengthening of the invariants below holds throughout.
THEOREM Invariance == Spec => []Safe
BY SafeInit, SafeStep, PTL DEF Spec

\* Every variable keeps its type: rows, logs and transaction bookkeeping.
THEOREM TypeCorrect == Spec => []TypeOK
<1>1. Safe => TypeOK
  BY DEF Safe, Inv
<1> QED
  BY <1>1, Invariance, PTL

\* stock.go: "the quantity and its audit row can never diverge": the sum of the
\* logged deltas of a lot and the last logged result are its quantity, whatever
\* transactions interleave, however often one is rolled back.
THEOREM LedgerKept == Spec => []LedgerAgrees
<1>1. Safe => LedgerAgrees
  BY DEF Safe, Inv
<1> QED
  BY <1>1, Invariance, PTL

\* A step takes no lot below zero, or further below, but for a transaction that asks for it.
LEMMA StepAsAsked ==
  ASSUME Safe, [Next]_vars
  PROVE  BelowAsAsked(Txs)
<1> Inv /\ PinnedInv /\ StockConserved
  BY DEF Safe
<1>1. \A l \in lots : row[l].qty \in Int
  BY DEF Inv, TypeOK, Lot
<1>2. CASE UNCHANGED <<row, lots>>
  BY <1>1, <1>2 DEF BelowAsAsked
<1>3. ASSUME NEW x \in Txs, Commit(x) PROVE BelowAsAsked(Txs)
  <2>1. BelowAsked(x)
    BY <1>3, CommitKeeps
  <2>2. phase[x] # "idle"
    BY <1>3 DEF Commit, CommitAdjust, CommitAdjustLot, CommitMove, CommitMovePart, NothingToMove,
                CommitSplit, CommitMerge, CommitRelocate, DeleteEmptyLots, Ready
  <2>3. End(x)
    BY <1>3 DEF Commit, CommitAdjust, CommitAdjustLot, CommitMove, CommitMovePart, NothingToMove,
                CommitSplit, CommitMerge, CommitRelocate, DeleteEmptyLots
  <2>4. phase'[x] = "idle"
    BY <2>3 DEF End, Inv, TypeOK
  <2> QED
    BY <2>1, <2>2, <2>4 DEF BelowAsked, BelowAsAsked
<1>4. ASSUME NEW x \in Txs, Commit(x) \/ UpdatePart(x) PROVE Commit(x) \/ UNCHANGED <<row, lots>>
  BY <1>4 DEF UpdatePart
<1> QED
  BY <1>2, <1>3, <1>4 DEF Next, Rest, vars, db, Begin, ReadPart, LockRow, SelectSecond, Refuse, Abandon,
         BreakDeadlock

\* The checks of MoveStock and SplitLot and the clamp of Adjust keep every operation from
\* taking out more than there is, with the quantity read under the lock: what goes below
\* zero is what a client counts, adds or adjusts by a negative number, or merges from there.
THEOREM NothingOverdrawn == Spec => BelowZeroAsAsked
<1>1. Safe /\ [Next]_vars => [BelowAsAsked(Txs)]_vars
  BY StepAsAsked
<1> QED
  BY <1>1, Invariance, PTL DEF Spec, BelowZeroAsAsked

\* Move, MovePartToLocation, SplitLot, MergeLot, RelocateLot and DeleteEmptyLots neither
\* make stock nor lose it: what the lots of a part hold together is what they held at
\* first and what Adjust and AdjustLot received since, whatever changed, moved or went
\* while a transaction waited for its rows.
THEOREM StockIsConserved == Spec => []StockConserved
<1>1. Safe => StockConserved
  BY DEF Safe
<1> QED
  BY <1>1, Invariance, PTL

\* A write deletes no lots but those it is told to.
LEMMA WriteDeletes ==
  ASSUME NEW S, NEW new, NEW delta, NEW gone, Write(new, delta, gone), NEW l \in lots, l \notin lots'
  PROVE  l \in gone
BY DEF Write

\* A step deletes a lot by merging it into another or because it is empty and anonymous.
LEMMA StepClears ==
  ASSUME Safe, [Next]_vars, NEW l \in lots, l \notin lots'
  PROVE  \/ row[l].qty = 0 /\ row[l].plain
         \/ \E x \in Txs : req[x].op = "merge" /\ req[x].lot = l /\ lock[l] = x
<1> Inv /\ PinnedInv
  BY DEF Safe
<1>1. PICK x \in Txs : Commit(x)
  BY DEF Next, Rest, vars, db, Begin, ReadPart, LockRow, SelectSecond, Refuse, UpdatePart, Abandon,
         BreakDeadlock
<1>2. CASE CommitMerge(x)
  <2>1. l = req[x].lot
    BY <1>2, WriteDeletes DEF CommitMerge
  <2>2. req[x].op = "merge" /\ phase[x] = "second"
    BY <1>2 DEF CommitMerge, Ready, Twice
  <2>3. Holds(x, l)
    BY <2>1, <2>2, AboutTx, HoldsAsked DEF TxInv, ById
  <2> QED
    BY <2>1, <2>2, <2>3 DEF Holds
<1>3. CASE DeleteEmptyLots(x)
  <2>1. l \in got[x]
    BY <1>3, WriteDeletes DEF DeleteEmptyLots
  <2>2. FirstMatch(req[x], l) /\ req[x].op = "empty"
    BY <1>3, <2>1 DEF DeleteEmptyLots, Ready, PinnedInv, Pinned
  <2> QED
    BY <2>2 DEF FirstMatch, ById
<1>4. CASE \/ CommitAdjust(x) \/ CommitAdjustLot(x) \/ CommitMove(x) \/ CommitMovePart(x)
           \/ CommitSplit(x) \/ CommitRelocate(x)
  <2>1. \E new, delta : Write(new, delta, {})
    BY <1>4 DEF CommitAdjust, CommitAdjustLot, CommitMove, CommitMovePart, CommitSplit, CommitRelocate
  <2> QED
    BY <2>1, WriteDeletes
<1>5. CASE NothingToMove(x)
  BY <1>5 DEF NothingToMove, db
<1> QED
  BY <1>1, <1>2, <1>3, <1>4, <1>5 DEF Commit

\* No lot disappears with stock in it, with a barcode or with a name, but the source of a
\* merge: DeleteEmptyLots looks at each row again when it has locked it, and what it has
\* locked no receipt can reach.
THEOREM OnlyEmptyLotsGo == Spec => OnlyEmptyLotsCleared
<1>1. Safe /\ [Next]_vars =>
        [\A l \in lots :
           l \notin lots' =>
             \/ row[l].qty = 0 /\ row[l].plain
             \/ \E x \in Txs : req[x].op = "merge" /\ req[x].lot = l /\ lock[l] = x]_vars
  BY StepClears
<1> QED
  BY <1>1, Invariance, PTL DEF Spec, OnlyEmptyLotsCleared

-----------------------------------------------------------------------------
(* Transactions happen at once.                                              *)

\* What a transaction writes is what an operation of the inventory puts on the shelf.
LEMMA WritePuts ==
  ASSUME Inv, NEW S \in SUBSET Lots, NEW new \in [S -> Lot], NEW delta, NEW gone,
         Write(new, delta, gone)
  PROVE  Atomic!Put(new, gone)
<1>1. DOMAIN new = S /\ lots \subseteq Lots
  BY DEF Inv, TypeOK
<1>2. lots' = (lots \cup S) \ gone
  BY <1>1 DEF Write
<1>3. \A l \in lots' : row'[l] = IF l \in S THEN new[l] ELSE row[l]
  BY <1>1, <1>2 DEF Write
<1>4. [l \in lots' |-> row'[l]]
        = [l \in (lots \cup S) \ gone |-> IF l \in S THEN new[l] ELSE [k \in lots |-> row[k]][l]]
  BY <1>2, <1>3
<1>5. DOMAIN [k \in lots |-> row[k]] = lots
  OBVIOUS
<1> QED
  BY <1>1, <1>4, <1>5 DEF Atomic!Put

\* The inventory counts as the code does.
LEMMA CountedIsNewQty ==
  ASSUME NEW how, NEW have \in Int, NEW q \in Int
  PROVE  Atomic!Counted(how, have, q) = NewQty(how, have, q)
BY DEF Atomic!Counted, NewQty

\* A lot is where stock may go if it is there, or new.
LEMMA Destinations ==
  ASSUME NEW p, NEW place, NEW l \in Lots
  PROVE  /\ l \notin lots => /\ l \in Atomic!There(p, place) \cup Atomic!New
                             /\ l \in Atomic!New
                             /\ Atomic!LotFor(l, p, place) = NewLot(p, place, TRUE)
         /\ l \in lots => Atomic!LotFor(l, p, place) = row[l]
         /\ l \in lots /\ row[l].part = p /\ row[l].place = place =>
                l \in Atomic!There(p, place) \cup Atomic!New
BY DEF Atomic!There, Atomic!New, Atomic!Ids, Atomic!LotFor, NewLot, Lots

\* An adjustment at a place is one operation on a lot that is there, or on its own.
LEMMA AdjustAtOnce ==
  ASSUME Inv, PinnedInv, NEW x \in Txs, CommitAdjust(x)
  PROVE  Atomic!Adjust(req[x])
<1> DEFINE r   == req[x]
           l   == IF got[x] = {} THEN made + 1 ELSE CHOOSE g \in got[x] : TRUE
           lot == IF got[x] = {} THEN NewLot(r.part, r.to, TRUE) ELSE row[l]
           cur == IF got[x] = {} THEN 0 ELSE seen[x][l]
           qty == NewQty(r.how, cur, r.qty)
           new == [k \in {l} |-> [lot EXCEPT !.qty = qty]]
           delta == [k \in {l} |-> qty - cur]
<1>1. Write(new, delta, {})
  BY DEF CommitAdjust
<1>2. l \in Lots
  BY <1>1 DEF Write
<1>3. r.op = "adjust" /\ r.how \in {"add", "remove", "count", "adjust"}
  BY DEF CommitAdjust, Ready, Fails, Twice
<1>4. /\ lot \in Lot /\ cur \in Int /\ lot.qty = cur /\ r.qty \in Int
      /\ l \in Atomic!There(r.part, r.to) \cup Atomic!New
      /\ Atomic!LotFor(l, r.part, r.to) = lot
  <2>1. CASE got[x] = {}
    <3>1. lot \in Lot /\ lot.qty = 0 /\ l \notin lots /\ r.qty \in Int /\ cur = 0
      BY <2>1, AboutTx DEF NewLot, Lot
    <3>2. lot = NewLot(r.part, r.to, TRUE)
      BY <2>1
    <3> HIDE DEF lot, l, cur, r
    <3>3. /\ l \in Atomic!There(r.part, r.to) \cup Atomic!New
          /\ Atomic!LotFor(l, r.part, r.to) = NewLot(r.part, r.to, TRUE)
      BY <1>2, <3>1, Destinations
    <3> QED
      BY <3>1, <3>2, <3>3 DEF NewLot
  <2>2. CASE got[x] # {}
    <3>1. l \in got[x]
      BY <2>2
    <3>2. Holds(x, l)
      BY <3>1, AboutTx DEF TxInv
    <3>3. FirstMatch(r, l)
      BY <3>1 DEF PinnedInv, Pinned
    <3>4. row[l].part = r.part /\ row[l].place = r.to
      BY <1>3, <3>3 DEF FirstMatch, At, ById
    <3>5. l \in lots /\ row[l] \in Lot /\ seen[x][l] = row[l].qty /\ row[l].qty \in Int /\ r.qty \in Int
      BY <3>2, HeldRow, AboutTx
    <3>6. lot = row[l] /\ cur = seen[x][l]
      BY <2>2
    <3> HIDE DEF lot, l, cur, r
    <3>7. /\ l \in Atomic!There(r.part, r.to) \cup Atomic!New
          /\ Atomic!LotFor(l, r.part, r.to) = row[l]
      BY <1>2, <3>4, <3>5, Destinations
    <3> QED
      BY <3>5, <3>6, <3>7
  <2> QED
    BY <2>1, <2>2
<1> HIDE DEF l, lot, cur
<1>5. qty \in Int /\ qty = Atomic!Counted(r.how, lot.qty, r.qty)
  BY <1>4, NewQtyBounds, CountedIsNewQty
<1> HIDE DEF qty
<1>6. new \in [{l} -> Lot] /\ new = [k \in {l} |-> Atomic!With(lot, Atomic!Counted(r.how, lot.qty, r.qty))]
  BY <1>4, <1>5 DEF Lot, Atomic!With
<1>7. Atomic!Put(new, {})
  BY <1>1, <1>2, <1>6, WritePuts
<1> HIDE DEF new, r
<1> QED
  BY <1>3, <1>4, <1>6, <1>7 DEF Atomic!Adjust, r

\* So is the adjustment of one lot.
LEMMA AdjustLotAtOnce ==
  ASSUME Inv, NEW x \in Txs, CommitAdjustLot(x)
  PROVE  Atomic!AdjustLot(req[x])
<1> DEFINE r   == req[x]
           l   == r.lot
           qty == NewQty(r.how, seen[x][l], r.qty)
           new == [k \in {l} |-> [row[l] EXCEPT !.qty = qty]]
           delta == [k \in {l} |-> qty - seen[x][l]]
<1>1. Write(new, delta, {})
  BY DEF CommitAdjustLot
<1>2. r.op = "adjustlot" /\ r.how \in {"add", "remove", "count"}
  BY DEF CommitAdjustLot, Ready, Fails, Twice
<1>3. Holds(x, l)
  BY HoldsAsked DEF CommitAdjustLot, Ready, Fails, ById, Twice
<1>4. /\ l \in Lots /\ l \in lots /\ row[l] \in Lot /\ seen[x][l] = row[l].qty
      /\ row[l].qty \in Int /\ r.qty \in Int
  BY <1>3, HeldRow, AboutTx
<1> HIDE DEF l
<1>5. qty \in Int /\ qty = Atomic!Counted(r.how, row[l].qty, r.qty)
  BY <1>4, NewQtyBounds, CountedIsNewQty
<1> HIDE DEF qty
<1>6. new \in [{l} -> Lot] /\ new = [k \in {l} |-> Atomic!With(row[l], Atomic!Counted(r.how, row[l].qty, r.qty))]
  BY <1>4, <1>5 DEF Lot, Atomic!With
<1>7. Atomic!Put(new, {})
  BY <1>1, <1>4, <1>6, WritePuts
<1>8. [k \in lots |-> row[k]][l] = row[l] /\ l = r.lot /\ DOMAIN [k \in lots |-> row[k]] = lots
  BY <1>4 DEF l
<1> HIDE DEF new, r
<1> QED
  BY <1>2, <1>4, <1>6, <1>7, <1>8 DEF Atomic!AdjustLot, r

\* A move is one operation, and none if it goes back where it came from.
LEMMA MoveAtOnce ==
  ASSUME Inv, PinnedInv, NEW x \in Txs, CommitMove(x)
  PROVE  Atomic!Move(req[x]) \/ UNCHANGED [l \in lots |-> row[l]]
<1> DEFINE r   == req[x]
           s   == r.lot
           src == seen[x][s] - r.qty
           d   == IF dest[x] = None THEN made + 1 ELSE dest[x]
           lot == IF dest[x] = None THEN NewLot(row[s].part, r.to, TRUE) ELSE row[d]
           cur == DestQty(x, d)
           new == [k \in {s, d} |-> IF k = d THEN [lot EXCEPT !.qty = cur + r.qty]
                                             ELSE [row[s] EXCEPT !.qty = src]]
           delta == [k \in {s, d} |->
                       IF s = d THEN 0 ELSE IF k = d THEN r.qty ELSE -r.qty]
<1>1. Write(new, delta, {})
  BY DEF CommitMove
<1>2. phase[x] = "second" /\ r.op = "move"
  BY DEF CommitMove, Ready, Twice
<1>3. Holds(x, s) /\ r.qty <= seen[x][s]
  BY <1>2, AboutTx, HoldsAsked DEF TxInv, ById
<1>4. /\ s \in Lots /\ s \in lots /\ row[s] \in Lot /\ seen[x][s] = row[s].qty
      /\ row[s].qty \in Int /\ r.qty \in Int /\ 0 < r.qty /\ r.qty <= row[s].qty
      /\ row[s].part \in Parts /\ r.to \in Places
  <2>1. Accepted(r)
    BY <1>2 DEF PinnedInv, Pinned
  <2> QED
    BY <1>2, <1>3, <2>1, HeldRow, AboutTx DEF Accepted, Lot
<1>5. /\ d \in Lots /\ lot \in Lot /\ (d # s => cur = lot.qty)
      /\ d \in Atomic!There(row[s].part, r.to) \cup Atomic!New
      /\ Atomic!LotFor(d, row[s].part, r.to) = lot
      /\ d = s => lot = row[s] /\ cur = src
  <2>1. CASE dest[x] = None
    <3>1. d = made + 1 /\ d \in Lots
      BY <1>1, <2>1 DEF Write
    <3>2. lot \in Lot /\ d \notin lots /\ d # s
      BY <1>4, <2>1, AboutTx DEF NewLot, Lot
    <3>3. lot = NewLot(row[s].part, r.to, TRUE) /\ lot.qty = 0 /\ cur = 0
      BY <1>4, <2>1, <3>1, <3>2 DEF DestQty, NewLot
    <3> HIDE DEF lot, d, cur, s, r
    <3>4. /\ d \in Atomic!There(row[s].part, r.to) \cup Atomic!New
          /\ Atomic!LotFor(d, row[s].part, r.to) = NewLot(row[s].part, r.to, TRUE)
      BY <3>1, <3>2, Destinations
    <3> QED
      BY <3>1, <3>2, <3>3, <3>4 DEF NewLot
  <2>2. CASE dest[x] # None
    <3>1. Holds(x, d)
      BY <2>2, AboutTx DEF TxInv
    <3>2. d \in Lots /\ d \in lots /\ row[d] \in Lot /\ seen[x][d] = row[d].qty
      BY <3>1, HeldRow
    <3>3. SecondMatch(x, d)
      BY <2>2 DEF PinnedInv, Pinned
    <3>4. row[d].part = row[s].part /\ row[d].place = r.to
      BY <1>2, <3>3 DEF SecondMatch, MovedPart, At
    <3>5. lot = row[d] /\ (d # s => cur = row[d].qty) /\ (d = s => cur = src)
      BY <2>2, <3>2 DEF DestQty
    <3> HIDE DEF lot, d, cur, s, r, src
    <3>6. /\ d \in Atomic!There(row[s].part, r.to) \cup Atomic!New
          /\ Atomic!LotFor(d, row[s].part, r.to) = row[d]
      BY <3>2, <3>4, Destinations
    <3> QED
      BY <3>2, <3>5, <3>6
  <2> QED
    BY <2>1, <2>2
<1>6. src = row[s].qty - r.qty
  BY <1>4
<1> HIDE DEF lot, d, cur, src, s
<1>7. CASE d = s
  <2>1. cur + r.qty = row[s].qty
    BY <1>4, <1>5, <1>6, <1>7
  <2>2. [row[s] EXCEPT !.qty = row[s].qty] = row[s]
    BY <1>4 DEF Lot
  <2>3. DOMAIN new = {s} /\ new[s] = row[s]
    BY <1>5, <1>7, <2>1, <2>2
  <2>4. lots' = lots /\ \A l \in lots : l \in Lots => row'[l] = row[l]
    BY <1>1, <1>4, <2>3 DEF Write
  <2> QED
    BY <2>4 DEF Inv, TypeOK
<1>8. CASE d # s
  <2>1. new \in [{s, d} -> Lot]
    BY <1>4, <1>5, <1>6, <1>8 DEF Lot
  <2>2. new = [k \in {s, d} |-> IF k = d THEN Atomic!With(lot, lot.qty + r.qty)
                                         ELSE Atomic!With(row[s], row[s].qty - r.qty)]
    BY <1>5, <1>6, <1>8 DEF Atomic!With
  <2>3. Atomic!Put(new, {})
    BY <1>1, <1>4, <1>5, <2>1, WritePuts
  <2>4. [k \in lots |-> row[k]][s] = row[s] /\ s = r.lot /\ DOMAIN [k \in lots |-> row[k]] = lots
    BY <1>4 DEF s
  <2> HIDE DEF new
  <2>5. /\ r.op = "move" /\ r.lot \in lots /\ 0 < r.qty /\ r.qty <= row[s].qty
        /\ d \in (Atomic!There(row[s].part, r.to) \cup Atomic!New) \ {r.lot}
    BY <1>2, <1>4, <1>5, <1>8, <2>4
  <2> HIDE DEF r
  <2>6. Atomic!Put([k \in {s, d} |-> IF k = d THEN Atomic!With(Atomic!LotFor(d, row[s].part, r.to), Atomic!LotFor(d, row[s].part, r.to).qty + r.qty)
                                              ELSE Atomic!With(row[s], row[s].qty - r.qty)], {})
    BY <1>5, <2>2, <2>3
  <2> QED
    BY <2>4, <2>5, <2>6 DEF Atomic!Move, r
<1> QED
  BY <1>7, <1>8

\* So is a move of all of a part that was seen to one location.
LEMMA MovePartAtOnce ==
  ASSUME Inv, PinnedInv, NEW x \in Txs, CommitMovePart(x)
  PROVE  Atomic!MovePartToLocation(req[x])
<1> DEFINE r   == req[x]
           d   == IF dest[x] = None THEN made + 1 ELSE dest[x]
           lot == IF dest[x] = None THEN NewLot(r.part, r.to, TRUE) ELSE row[d]
           cur == IF dest[x] = None THEN 0 ELSE seen[x][d]
           G   == got[x]
           S   == G \cup {d}
           new == [k \in S |-> IF k = d THEN [lot EXCEPT !.qty = cur + moved[x]]
                                        ELSE [row[k] EXCEPT !.qty = 0]]
           delta == [k \in S |-> IF k = d THEN moved[x] ELSE -seen[x][k]]
<1>1. Write(new, delta, {})
  BY DEF CommitMovePart
<1>2. r.op = "movepart" /\ phase[x] = "second" /\ Pinned(x)
  BY DEF CommitMovePart, Ready, Twice, PinnedInv
<1>3. ASSUME NEW k \in G
      PROVE  /\ k \in Lots /\ k \in lots /\ row[k] \in Lot
             /\ row[k].part = r.part /\ row[k].place # r.to /\ row[k].qty > 0
  <2>1. FirstMatch(r, k)
    BY <1>2, <1>3 DEF Pinned
  <2> QED
    BY <1>2, <1>3, <2>1, AboutTx, HeldRow DEF TxInv, FirstMatch, ById
<1>4. /\ d \in Lots /\ lot \in Lot /\ cur = lot.qty
      /\ d \in Atomic!There(r.part, r.to) \cup Atomic!New
      /\ Atomic!LotFor(d, r.part, r.to) = lot
  <2>1. CASE dest[x] = None
    <3>1. d = made + 1 /\ d \in Lots
      BY <1>1, <2>1 DEF Write
    <3>2. lot \in Lot /\ d \notin lots
      BY <2>1, AboutTx DEF NewLot, Lot
    <3>3. lot = NewLot(r.part, r.to, TRUE) /\ lot.qty = 0 /\ cur = 0
      BY <2>1 DEF NewLot
    <3> HIDE DEF lot, d, cur, r
    <3>4. /\ d \in Atomic!There(r.part, r.to) \cup Atomic!New
          /\ Atomic!LotFor(d, r.part, r.to) = NewLot(r.part, r.to, TRUE)
      BY <3>1, <3>2, Destinations
    <3> QED
      BY <3>1, <3>2, <3>3, <3>4 DEF NewLot
  <2>2. CASE dest[x] # None
    <3>1. Holds(x, d)
      BY <2>2, AboutTx DEF TxInv
    <3>2. d \in Lots /\ d \in lots /\ row[d] \in Lot /\ seen[x][d] = row[d].qty
      BY <3>1, HeldRow
    <3>3. SecondMatch(x, d)
      BY <1>2, <2>2 DEF Pinned
    <3>4. row[d].part = r.part /\ row[d].place = r.to
      BY <1>2, <3>3 DEF SecondMatch, MovedPart, At
    <3>5. lot = row[d] /\ cur = row[d].qty
      BY <2>2, <3>2
    <3> HIDE DEF lot, d, cur, r
    <3>6. /\ d \in Atomic!There(r.part, r.to) \cup Atomic!New
          /\ Atomic!LotFor(d, r.part, r.to) = row[d]
      BY <3>2, <3>4, Destinations
    <3> QED
      BY <3>2, <3>5, <3>6
  <2> QED
    BY <2>1, <2>2
<1>5. moved[x] = Atomic!Together(G) /\ moved[x] \in Int
  <2>1. moved[x] = Sums(Taken(G, row))[Size] /\ moved[x] \in Int
    BY <1>2, AboutTx DEF Pinned
  <2>2. Taken(G, row) = [n \in 1..Size |-> IF n \in G THEN [k \in lots |-> row[k]][n].qty ELSE 0]
    <3>1. ASSUME NEW n \in Lots
          PROVE  (IF n \in G THEN row[n].qty ELSE 0) = IF n \in G THEN [k \in lots |-> row[k]][n].qty ELSE 0
      BY <1>3
    <3> QED
      BY <3>1, SizeIsNat DEF Taken
  <2>3. \A q : Atomic!Sums(q) = Sums(q)
    BY DEF Atomic!Sums, Sums
  <2> QED
    BY <2>1, <2>2, <2>3 DEF Atomic!Together, Atomic!Ids, Size
<1> HIDE DEF d, lot, cur, G
<1>6. d \notin G
  <2>1. CASE d \in lots
    BY <1>3, <1>4, <2>1 DEF Atomic!There, Atomic!New
  <2>2. CASE d \notin lots
    BY <1>3, <2>2
  <2> QED
    BY <2>1, <2>2
<1>7. S \in SUBSET Lots /\ new \in [S -> Lot]
  <2>1. lot.qty \in Int
    BY <1>4 DEF Lot
  <2> QED
    BY <1>3, <1>4, <1>5, <2>1 DEF Lot
<1>8. new = [k \in G \cup {d} |-> IF k = d THEN Atomic!With(lot, lot.qty + Atomic!Together(G))
                                          ELSE Atomic!With([n \in lots |-> row[n]][k], 0)]
  <2>1. \A k \in G : [n \in lots |-> row[n]][k] = row[k]
    BY <1>3
  <2> QED
    BY <1>4, <1>5, <2>1 DEF Atomic!With
<1>9. Atomic!Put(new, {})
  BY <1>1, <1>7, WritePuts
<1>10. G \in SUBSET {l \in lots : /\ [n \in lots |-> row[n]][l].part = r.part
                                  /\ [n \in lots |-> row[n]][l].qty > 0
                                  /\ [n \in lots |-> row[n]][l].place # r.to}
  BY <1>3
<1>11. DOMAIN [n \in lots |-> row[n]] = lots
  OBVIOUS
<1> HIDE DEF new, r
<1>12. Atomic!Put([k \in G \cup {d} |->
                    IF k = d THEN Atomic!With(Atomic!LotFor(d, r.part, r.to),
                                              Atomic!LotFor(d, r.part, r.to).qty + Atomic!Together(G))
                             ELSE Atomic!With([n \in lots |-> row[n]][k], 0)], {})
  BY <1>4, <1>8, <1>9
<1> QED
  BY <1>2, <1>4, <1>10, <1>11, <1>12 DEF Atomic!MovePartToLocation, r

\* A split is one operation.
LEMMA SplitAtOnce ==
  ASSUME Inv, NEW x \in Txs, CommitSplit(x)
  PROVE  Atomic!SplitLot(req[x])
<1> DEFINE r   == req[x]
           s   == r.lot
           n   == made + 1
           half == [NewLot(row[s].part, r.to, r.plain) EXCEPT !.qty = r.qty]
           new == [k \in {s, n} |-> IF k = n THEN half ELSE [row[s] EXCEPT !.qty = seen[x][s] - r.qty]]
           delta == [k \in {s, n} |-> IF k = n THEN r.qty ELSE -r.qty]
<1>1. Write(new, delta, {})
  BY DEF CommitSplit
<1>2. /\ r.op = "split" /\ got[x] # {}
      /\ ~(r.qty > seen[x][s]) /\ ~(r.qty <= 0)
  BY DEF CommitSplit, Ready, Fails, Twice, ById
<1>3. Holds(x, s)
  BY <1>2, HoldsAsked DEF ById
<1>4. /\ s \in Lots /\ s \in lots /\ row[s] \in Lot /\ row[s].part \in Parts
      /\ seen[x][s] = row[s].qty /\ row[s].qty \in Int /\ r.qty \in Int
      /\ 0 < r.qty /\ r.qty <= row[s].qty
      /\ r.to \in Places /\ r.plain \in BOOLEAN /\ n \notin lots
  BY <1>2, <1>3, HeldRow, AboutTx DEF Lot
<1>5. n \in Lots
  BY <1>1 DEF Write
<1> HIDE DEF s, n, r
<1>6. n \in Atomic!New
  BY <1>4, <1>5, Destinations
<1>7. half \in Lot /\ half = [part |-> row[s].part, place |-> r.to, qty |-> r.qty, plain |-> r.plain]
  BY <1>4 DEF NewLot, Lot
<1> HIDE DEF half
<1>8. /\ new \in [{s, n} -> Lot]
      /\ new = [k \in {s, n} |-> IF k = n THEN half ELSE Atomic!With(row[s], row[s].qty - r.qty)]
  BY <1>4, <1>7 DEF Lot, Atomic!With
<1>9. Atomic!Put(new, {})
  BY <1>1, <1>4, <1>5, <1>8, WritePuts
<1>10. [k \in lots |-> row[k]][s] = row[s] /\ s = r.lot /\ DOMAIN [k \in lots |-> row[k]] = lots
  BY <1>4 DEF s
<1> HIDE DEF new
<1> QED
  BY <1>2, <1>4, <1>6, <1>7, <1>8, <1>9, <1>10 DEF Atomic!SplitLot, r

\* A merge is one operation.
LEMMA MergeAtOnce ==
  ASSUME Inv, PinnedInv, NEW x \in Txs, CommitMerge(x)
  PROVE  Atomic!MergeLot(req[x])
<1> DEFINE r   == req[x]
           s   == r.lot
           d   == dest[x]
           new == [k \in {d} |-> [row[d] EXCEPT !.qty = seen[x][d] + seen[x][s]]]
           delta == [k \in {d} |-> seen[x][s]]
           gone == {s}
<1>1. Write(new, delta, gone)
  BY DEF CommitMerge
<1>2. phase[x] = "second" /\ r.op = "merge" /\ d # None
  BY DEF CommitMerge, Ready, Fails, Twice
<1>3. Holds(x, s) /\ Holds(x, d)
  BY <1>2, AboutTx, HoldsAsked DEF TxInv, ById
<1>4. /\ s \in Lots /\ s \in lots /\ seen[x][s] = row[s].qty /\ row[s].qty \in Int
      /\ d \in Lots /\ d \in lots /\ row[d] \in Lot
      /\ seen[x][d] = row[d].qty /\ row[d].qty \in Int
  BY <1>3, HeldRow
<1>5. s # d /\ row[d].part = row[s].part /\ d = r.target
  <2>1. Accepted(r) /\ SecondMatch(x, d)
    BY <1>2 DEF PinnedInv, Pinned
  <2>2. SamePart(x)
    BY <1>2 DEF CommitMerge, Ready, Fails
  <2> QED
    BY <1>2, <2>1, <2>2 DEF Accepted, SecondMatch, SamePart
<1> HIDE DEF d, s
<1>6. /\ new \in [{d} -> Lot]
      /\ new = [k \in {d} |-> Atomic!With(row[d], row[d].qty + row[s].qty)]
  BY <1>4 DEF Lot, Atomic!With
<1>7. Atomic!Put(new, gone)
  <2> HIDE DEF new, delta, gone
  <2>1. PICK n, c, g : n = new /\ c = delta /\ g = gone
    OBVIOUS
  <2>2. Write(n, c, g)
    BY <1>1, <2>1 DEF Write
  <2>3. {d} \in SUBSET Lots /\ n \in [{d} -> Lot] /\ g \in SUBSET Lots
    BY <1>4, <1>6, <2>1 DEF gone
  <2>4. Atomic!Put(n, g)
    BY <2>2, <2>3, WritePuts
  <2> QED
    BY <2>1, <2>4 DEF Atomic!Put
<1> HIDE DEF new
<1>8. /\ [k \in lots |-> row[k]][s] = row[s] /\ [k \in lots |-> row[k]][d] = row[d]
      /\ s = r.lot /\ d = r.target /\ DOMAIN [k \in lots |-> row[k]] = lots
  BY <1>4, <1>5 DEF s
<1>9. PICK held : held = [n \in lots |-> row[n]]
  OBVIOUS
<1> HIDE DEF r
<1>10. /\ r.op = "merge" /\ {r.lot, r.target} \subseteq lots /\ r.lot # r.target
       /\ held[s] = row[s] /\ held[d] = row[d] /\ held[s].part = held[d].part
       /\ DOMAIN held = lots
  BY <1>2, <1>4, <1>5, <1>8, <1>9
<1>11. Atomic!Put([k \in {r.target} |-> Atomic!With(held[r.target], held[r.target].qty + held[r.lot].qty)],
                  {r.lot})
  BY <1>6, <1>7, <1>8, <1>10 DEF Atomic!Put
<1> QED
  BY <1>8, <1>9, <1>10, <1>11 DEF Atomic!MergeLot, r

\* A lot is put elsewhere in one operation.
LEMMA RelocateAtOnce ==
  ASSUME Inv, NEW x \in Txs, CommitRelocate(x)
  PROVE  Atomic!RelocateLot(req[x])
<1> DEFINE r   == req[x]
           l   == r.lot
           new == [k \in {l} |-> [row[l] EXCEPT !.place = r.to]]
           delta == [k \in {l} |-> 0]
<1>1. Write(new, delta, {})
  BY DEF CommitRelocate
<1>2. r.op = "relocate" /\ Holds(x, l)
  BY HoldsAsked DEF CommitRelocate, Ready, Fails, ById, Twice
<1>3. l \in Lots /\ l \in lots /\ row[l] \in Lot /\ r.to \in Places
  BY <1>2, HeldRow, AboutTx
<1> HIDE DEF l
<1>4. new \in [{l} -> Lot]
  BY <1>3 DEF Lot
<1>5. Atomic!Put(new, {})
  BY <1>1, <1>3, <1>4, WritePuts
<1>6. [k \in lots |-> row[k]][l] = row[l] /\ l = r.lot /\ DOMAIN [k \in lots |-> row[k]] = lots
  BY <1>3 DEF l
<1> HIDE DEF r
<1> QED
  BY <1>2, <1>3, <1>5, <1>6 DEF Atomic!RelocateLot, r

\* What is cleared is empty and anonymous when it goes.
LEMMA ClearAtOnce ==
  ASSUME Inv, PinnedInv, NEW x \in Txs, DeleteEmptyLots(x)
  PROVE  Atomic!DeleteEmptyLots(req[x])
<1> DEFINE G == got[x]
<1>1. req[x].op = "empty" /\ Write([k \in {} |-> SomeLot], [k \in {} |-> 0], G)
  BY DEF DeleteEmptyLots, Ready
<1>2. lots' = lots \ G /\ \A l \in lots' : l \in Lots /\ row'[l] = row[l]
  BY <1>1 DEF Write, Inv, TypeOK
<1>3. \A l \in G : l \in lots /\ row[l].qty = 0 /\ row[l].plain
  BY <1>1, AboutTx DEF PinnedInv, Pinned, FirstMatch, TxInv, Holds, ById
<1> HIDE DEF G
<1>4. [l \in lots' |-> row'[l]] = [l \in lots \ G |-> [k \in lots |-> row[k]][l]]
  BY <1>2
<1>5. G \in SUBSET {l \in lots : [k \in lots |-> row[k]][l].qty = 0 /\ [k \in lots |-> row[k]][l].plain}
  BY <1>3
<1>6. DOMAIN [k \in lots |-> row[k]] = lots
  OBVIOUS
<1> QED
  BY <1>1, <1>4, <1>5, <1>6 DEF Atomic!DeleteEmptyLots

\* A step is one operation of the inventory, or leaves the lots as they are.
LEMMA AtomicStep == Safe /\ [Next]_vars => [Atomic!Next]_[l \in lots |-> row[l]]
<1> SUFFICES ASSUME Inv, PinnedInv, [Next]_vars
             PROVE  Atomic!Next \/ UNCHANGED [l \in lots |-> row[l]]
  BY DEF Safe
<1>1. CASE UNCHANGED <<row, lots>>
  BY <1>1
<1>2. ASSUME NEW x \in Txs, Commit(x), ~NothingToMove(x)
      PROVE  Atomic!Next \/ UNCHANGED [l \in lots |-> row[l]]
  <2>1. PICK r \in Requests : r = req[x]
    BY AboutTx DEF TxInv
  <2>2. CASE CommitAdjust(x)
    <3>1. Atomic!Adjust(req[x])
      BY <2>2, AdjustAtOnce
    <3>2. Atomic!Adjust(r)
      BY <2>1, <3>1 DEF Atomic!Adjust
    <3> QED
      BY <3>2 DEF Atomic!Next
  <2>3. CASE CommitAdjustLot(x)
    <3>1. Atomic!AdjustLot(req[x])
      BY <2>3, AdjustLotAtOnce
    <3>2. Atomic!AdjustLot(r)
      BY <2>1, <3>1 DEF Atomic!AdjustLot
    <3> QED
      BY <3>2 DEF Atomic!Next
  <2>4. CASE CommitMove(x)
    <3>1. CASE UNCHANGED [l \in lots |-> row[l]]
      BY <3>1
    <3>2. CASE Atomic!Move(req[x])
      <4>1. Atomic!Move(r)
        BY <2>1, <3>2 DEF Atomic!Move
      <4> QED
        BY <4>1 DEF Atomic!Next
    <3> QED
      BY <2>4, <3>1, <3>2, MoveAtOnce
  <2>5. CASE CommitMovePart(x)
    <3>1. Atomic!MovePartToLocation(req[x])
      BY <2>5, MovePartAtOnce
    <3>2. Atomic!MovePartToLocation(r)
      BY <2>1, <3>1 DEF Atomic!MovePartToLocation
    <3> QED
      BY <3>2 DEF Atomic!Next
  <2>6. CASE CommitSplit(x)
    <3>1. Atomic!SplitLot(req[x])
      BY <2>6, SplitAtOnce
    <3>2. Atomic!SplitLot(r)
      BY <2>1, <3>1 DEF Atomic!SplitLot
    <3> QED
      BY <3>2 DEF Atomic!Next
  <2>7. CASE CommitMerge(x)
    <3>1. Atomic!MergeLot(req[x])
      BY <2>7, MergeAtOnce
    <3>2. Atomic!MergeLot(r)
      BY <2>1, <3>1 DEF Atomic!MergeLot, Atomic!Put
    <3> QED
      BY <3>2 DEF Atomic!Next
  <2>8. CASE CommitRelocate(x)
    <3>1. Atomic!RelocateLot(req[x])
      BY <2>8, RelocateAtOnce
    <3>2. Atomic!RelocateLot(r)
      BY <2>1, <3>1 DEF Atomic!RelocateLot
    <3> QED
      BY <3>2 DEF Atomic!Next
  <2>9. CASE DeleteEmptyLots(x)
    <3>1. Atomic!DeleteEmptyLots(req[x])
      BY <2>9, ClearAtOnce
    <3>2. Atomic!DeleteEmptyLots(r)
      BY <2>1, <3>1 DEF Atomic!DeleteEmptyLots
    <3> QED
      BY <3>2 DEF Atomic!Next
  <2> QED
    BY <1>2, <2>2, <2>3, <2>4, <2>5, <2>6, <2>7, <2>8, <2>9 DEF Commit
<1>3. UNCHANGED <<row, lots>> \/ \E x \in Txs : Commit(x) /\ ~NothingToMove(x)
  BY DEF Next, Rest, vars, db, Begin, ReadPart, LockRow, SelectSecond, NothingToMove, Refuse, UpdatePart,
         Abandon, BreakDeadlock
<1> QED
  BY <1>1, <1>2, <1>3

\* At first the inventory is what it starts with.
LEMMA AtomicInit == Init => Atomic!Init
<1> SUFFICES ASSUME Init PROVE [l \in lots |-> row[l]] = Start
  BY DEF Atomic!Init
<1>1. lots = 1..StartCount /\ \A l \in lots : row[l] = Start[l]
  BY CountAssumption DEF Init, Lots
<1> QED
  BY <1>1, StartAssumption

\* Row locks, the second look at a row after the wait and the quantities read under the lock
\* make each transaction of stock.go one operation on the lots as they are at its commit, for
\* any number of them at the same time, rolled back or not.
THEOREM ImplementsInventory == Spec => KeepsInventory
<1>1. Init => Atomic!Init
  BY AtomicInit
<1>2. Safe /\ [Next]_vars => [Atomic!Next]_[l \in lots |-> row[l]]
  BY AtomicStep
<1> QED
  BY <1>1, <1>2, Invariance, PTL DEF Spec, KeepsInventory, Atomic!Spec
=============================================================================
