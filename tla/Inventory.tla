----------------------------- MODULE Inventory -----------------------------
(***************************************************************************)
(* What an inventory promises to those who change it at the same time,     *)
(* without transactions, locks or rows read earlier: every operation       *)
(* happens at one moment, on the lots as they are then, or not at all.     *)
(* Which lots take part is left open where requests may not have seen each *)
(* other: stock that arrives goes into a lot that is there or into one of  *)
(* its own, and an operation on many lots may miss the latest of them.     *)
(***************************************************************************)
EXTENDS Integers

CONSTANTS
  Most,      \* how many lots there can be
  Start,     \* the lots there are at first
  Requests   \* what clients ask for

VARIABLE stock   \* the lots there are: of which part, where, how much, whether anonymous

Ids == 1..Most

Init == stock = Start

There(p, place) == {l \in DOMAIN stock : stock[l].part = p /\ stock[l].place = place}
New == Ids \ DOMAIN stock

\* A lot that is there, or one that was made for this and holds nothing yet.
LotFor(l, p, place) ==
  IF l \in DOMAIN stock THEN stock[l]
  ELSE [part |-> p, place |-> place, qty |-> 0, plain |-> TRUE]

With(lot, qty) == [lot EXCEPT !.qty = qty]

Put(changed, gone) ==
  stock' = [l \in (DOMAIN stock \cup DOMAIN changed) \ gone |->
              IF l \in DOMAIN changed THEN changed[l] ELSE stock[l]]

\* What a lot holds after it was counted, or after something came or went; nothing goes
\* that is not there.
Counted(how, have, qty) ==
  IF how = "count" THEN qty
  ELSE IF how \in {"add", "adjust"} THEN have + qty
  ELSE IF have < qty THEN 0 ELSE have - qty

\* What some lots hold together.
Sums(q) == LET upTo[n \in 0..Most] == IF n = 0 THEN 0 ELSE upTo[n - 1] + q[n] IN upTo
Together(G) == Sums([n \in Ids |-> IF n \in G THEN stock[n].qty ELSE 0])[Most]

Adjust(r) ==
  /\ r.op = "adjust"
  /\ r.how \in {"add", "remove", "count", "adjust"}
  /\ \E l \in There(r.part, r.to) \cup New :
       LET lot == LotFor(l, r.part, r.to)
       IN Put([k \in {l} |-> With(lot, Counted(r.how, lot.qty, r.qty))], {})

AdjustLot(r) ==
  /\ r.op = "adjustlot"
  /\ r.how \in {"add", "remove", "count"}
  /\ r.lot \in DOMAIN stock
  /\ LET lot == stock[r.lot]
     IN Put([k \in {r.lot} |-> With(lot, Counted(r.how, lot.qty, r.qty))], {})

\* A move onto itself changes nothing.
Move(r) ==
  /\ r.op = "move"
  /\ r.lot \in DOMAIN stock
  /\ 0 < r.qty /\ r.qty <= stock[r.lot].qty
  /\ LET from == stock[r.lot]
     IN \E d \in (There(from.part, r.to) \cup New) \ {r.lot} :
          LET into == LotFor(d, from.part, r.to)
          IN Put([k \in {r.lot, d} |-> IF k = d THEN With(into, into.qty + r.qty)
                                                ELSE With(from, from.qty - r.qty)], {})

MovePartToLocation(r) ==
  /\ r.op = "movepart"
  /\ \E G \in SUBSET {l \in DOMAIN stock : /\ stock[l].part = r.part /\ stock[l].qty > 0
                                           /\ stock[l].place # r.to} :
       \E d \in There(r.part, r.to) \cup New :
         LET into == LotFor(d, r.part, r.to)
         IN Put([k \in G \cup {d} |-> IF k = d THEN With(into, into.qty + Together(G))
                                               ELSE With(stock[k], 0)], {})

SplitLot(r) ==
  /\ r.op = "split"
  /\ r.lot \in DOMAIN stock
  /\ 0 < r.qty /\ r.qty <= stock[r.lot].qty
  /\ LET from == stock[r.lot]
     IN \E n \in New :
          LET half == [part |-> from.part, place |-> r.to, qty |-> r.qty, plain |-> r.plain]
          IN Put([k \in {r.lot, n} |-> IF k = n THEN half
                                                ELSE With(from, from.qty - r.qty)], {})

MergeLot(r) ==
  /\ r.op = "merge"
  /\ {r.lot, r.target} \subseteq DOMAIN stock
  /\ r.lot # r.target
  /\ stock[r.lot].part = stock[r.target].part
  /\ LET into == stock[r.target]
     IN Put([k \in {r.target} |-> With(into, into.qty + stock[r.lot].qty)], {r.lot})

RelocateLot(r) ==
  /\ r.op = "relocate"
  /\ r.lot \in DOMAIN stock
  /\ Put([k \in {r.lot} |-> [stock[r.lot] EXCEPT !.place = r.to]], {})

DeleteEmptyLots(r) ==
  /\ r.op = "empty"
  /\ \E G \in SUBSET {l \in DOMAIN stock : stock[l].qty = 0 /\ stock[l].plain} :
       stock' = [l \in DOMAIN stock \ G |-> stock[l]]

Next ==
  \E r \in Requests :
    \/ Adjust(r) \/ AdjustLot(r) \/ Move(r) \/ MovePartToLocation(r)
    \/ SplitLot(r) \/ MergeLot(r) \/ RelocateLot(r) \/ DeleteEmptyLots(r)

Spec == Init /\ [][Next]_stock
=============================================================================
