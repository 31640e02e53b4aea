---------------------------- MODULE MCStockLots ----------------------------
(* Small inventories and request mixes for the runs of StockLots.            *)
EXTENDS StockLots, TLC

CONSTANTS p1, p2, bin, shelf, null, x1, x2, x3

\* Lots 1 and 2 are in the same place; 2 is empty; 3 is a named spool.
MCStart ==
  (1 :> [part |-> p1, place |-> bin, qty |-> 2, plain |-> TRUE]) @@
  (2 :> [part |-> p1, place |-> bin, qty |-> 0, plain |-> TRUE]) @@
  (3 :> [part |-> p1, place |-> shelf, qty |-> 1, plain |-> FALSE]) @@
  (4 :> [part |-> p2, place |-> bin, qty |-> 1, plain |-> TRUE])

Ask(op, how, lot, target, to, qty) ==
  [op |-> op, part |-> p1, lot |-> lot, target |-> target, to |-> to, how |-> how,
   qty |-> qty, plain |-> TRUE, flag |-> FALSE]

\* Clients that add, take out, count and correct, also by a negative number.
Adjusts ==
  {Ask("adjust", "adjust", 1, 1, bin, -3), Ask("adjust", "remove", 1, 1, bin, 3),
   Ask("adjust", "count", 1, 1, null, 2), Ask("adjustlot", "add", 2, 1, bin, 1),
   Ask("adjustlot", "remove", 1, 1, bin, 1), Ask("adjustlot", "count", 3, 1, bin, 0),
   Ask("adjustlot", "adjust", 3, 1, bin, 1)}

\* Clients that move stock about, in both directions and onto itself.
Moves ==
  {Ask("move", "add", 1, 1, shelf, 1), Ask("move", "add", 3, 1, bin, 1),
   Ask("move", "add", 1, 1, bin, 1), Ask("movepart", "add", 1, 1, shelf, 0),
   Ask("movepart", "add", 1, 1, bin, 0), Ask("movepart", "add", 1, 1, null, 0),
   Ask("split", "add", 1, 1, null, 1), Ask("merge", "add", 1, 3, bin, 0),
   Ask("merge", "add", 3, 1, bin, 0), Ask("merge", "add", 4, 1, bin, 0),
   Ask("relocate", "add", 1, 1, null, 0), Ask("empty", "add", 1, 1, bin, 0)}

MCRequests == Adjusts \cup Moves \cup {Ask("patch", "carry", 1, 1, bin, 0)}

\* For three transactions at once: the ones that take several locks.
LockingRequests ==
  {Ask("move", "add", 1, 1, shelf, 1), Ask("movepart", "add", 1, 1, null, 0),
   Ask("merge", "add", 1, 3, bin, 0), Ask("merge", "add", 3, 1, bin, 0),
   Ask("empty", "add", 1, 1, bin, 0), Ask("adjust", "remove", 1, 1, bin, 1)}

LotReceipts   == {Ask("adjustlot", "add", 2, 1, bin, 1)}
PatchRequests == {Ask("adjust", "add", 1, 1, bin, 1), Ask("patch", "carry", 1, 1, bin, 0)}

\* One part without stock, marked reference_only.
EmptyStart == [l \in 1..2 |-> [part |-> p1, place |-> bin, qty |-> 0, plain |-> TRUE]]
=============================================================================
