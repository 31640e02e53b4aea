------------------------------ MODULE StockLots ------------------------------
(***************************************************************************)
(* Stock lots, their movement log and the reference_only flag of the part  *)
(* (repository/stock.go, and the PATCH of handlers/parts.go).              *)
(*                                                                         *)
(* Every operation is one READ COMMITTED transaction: it finds its rows    *)
(* with SELECT ... FOR UPDATE, checks, writes and commits.  What it writes *)
(* nobody sees before the commit and every row it changes it has locked,   *)
(* so the writes and the commit are one step here; the search for rows,    *)
(* the wait for each lock and the second look at a row after the wait are  *)
(* steps of their own.  A quantity the transaction computes with is the    *)
(* one it read when it got the lock.                                       *)
(***************************************************************************)
EXTENDS Integers, FiniteSets

CONSTANTS
  Txs,          \* requests in progress at the same time
  Parts,
  Places,       \* storage locations, with one value for NULL
  StartCount,   \* how many lots there are at first
  Start,        \* those lots
  StartRef,     \* the parts that are reference_only at first
  Requests,     \* what clients ask for
  MaxRequests   \* bound: how many requests are served

None == 0                                \* no lot, no holder of a lock
Lots == 1..(StartCount + MaxRequests)    \* a request adds one lot at most

Hows == {"add", "remove", "count", "adjust", "carry", "set"}
Ops  == {"adjust", "adjustlot", "move", "movepart", "split", "merge", "relocate",
         "empty", "patch"}

\* One shape for all requests; an operation ignores the fields it does not have.
Request == [op : Ops, part : Parts, lot : Lots, target : Lots, to : Places,
            how : Hows, qty : Int, plain : BOOLEAN, flag : BOOLEAN]
Lot == [part : Parts, place : Places, qty : Int, plain : BOOLEAN]

ASSUME TxsAssumption == None \notin Txs
ASSUME CountAssumption == StartCount \in Nat /\ MaxRequests \in Nat
ASSUME StartAssumption == Start \in [1..StartCount -> Lot] /\ StartRef \subseteq Parts
ASSUME RequestsAssumption == Requests \subseteq Request /\ Requests # {}

VARIABLES
  row,      \* stock_items: a lot's part, location, quantity, and whether it is
            \* plain: without a barcode and a name
  lots,     \* the ids of row that exist
  made,     \* the highest id given out; ids are ordered as added_at is
  ledger,   \* per lot, the sum of the deltas of its stock_transactions
  last,     \* per lot, resulting_quantity of its latest stock_transaction
  net,      \* per part, the stock received less the stock taken out
  refOnly,  \* parts.reference_only
  lock,     \* the transaction that holds the row lock of a lot, or None
  phase,    \* where a transaction is
  req,      \* what it was asked
  scan,     \* the rows its SELECT found and has yet to lock
  got,      \* the rows its first SELECT returned
  dest,     \* the row its second SELECT returned, or None
  seen,     \* the quantities it read with the locks
  moved,    \* what those of its sources add up to
  carried,  \* the reference_only a PATCH read
  served

db == <<row, lots, made, ledger, last, net, refOnly>>
tx == <<phase, req, scan, got, dest, seen, moved, carried>>
vars == <<db, lock, tx, served>>

\* What a lot id or a transaction that is not in use holds.
SomeLot == [part |-> CHOOSE p \in Parts : TRUE, place |-> CHOOSE p \in Places : TRUE,
            qty |-> 0, plain |-> TRUE]
SomeRequest == CHOOSE r \in Requests : TRUE

Init ==
  /\ row = [l \in Lots |-> IF l <= StartCount THEN Start[l] ELSE SomeLot]
  /\ lots = 1..StartCount
  /\ made = StartCount
  /\ ledger = [l \in Lots |-> row[l].qty]
  /\ last = [l \in Lots |-> row[l].qty]
  /\ net = [p \in Parts |-> 0]
  /\ refOnly = [p \in Parts |-> p \in StartRef]
  /\ lock = [l \in Lots |-> None]
  /\ phase = [x \in Txs |-> "idle"]
  /\ req = [x \in Txs |-> SomeRequest]
  /\ scan = [x \in Txs |-> {}]
  /\ got = [x \in Txs |-> {}]
  /\ dest = [x \in Txs |-> None]
  /\ seen = [x \in Txs |-> [l \in Lots |-> 0]]
  /\ moved = [x \in Txs |-> 0]
  /\ carried = [x \in Txs |-> FALSE]
  /\ served = 0

(* Names that begin with Bad are plausible bugs.  Nothing uses them: put in   *)
(* the place of the definition after them, they break a property.            *)

-----------------------------------------------------------------------------
(* The two SELECT ... FOR UPDATE of a transaction.                           *)

ById == {"adjustlot", "move", "split", "merge", "relocate"}  \* WHERE id = $1
Many == {"movepart", "empty"}                                \* no LIMIT 1
Twice == {"move", "movepart", "merge"}                       \* a second SELECT

At(l, p, place) == row[l].part = p /\ row[l].place = place

FirstMatch(r, l) ==
  \/ r.op \in ById /\ l = r.lot
  \/ r.op = "adjust" /\ At(l, r.part, r.to)
  \/ r.op = "movepart" /\ row[l].part = r.part /\ row[l].place # r.to /\ row[l].qty > 0
  \/ r.op = "empty" /\ row[l].qty = 0 /\ row[l].plain

\* The part a Move or a MovePartToLocation is about.
MovedPart(x) == IF req[x].op = "move" THEN row[req[x].lot].part ELSE req[x].part

SecondMatch(x, l) ==
  \/ req[x].op = "merge" /\ l = req[x].target
  \/ req[x].op \in {"move", "movepart"} /\ At(l, MovedPart(x), req[x].to)

\* The handlers' early returns: a move of nothing, a lot merged into itself.
Accepted(r) ==
  /\ r.op # "patch"
  /\ r.op = "move" => r.qty > 0
  /\ r.op = "merge" => r.lot # r.target

Begin(x, r) ==
  /\ phase[x] = "idle"
  /\ Accepted(r)
  /\ served < MaxRequests
  /\ served' = served + 1
  /\ phase' = [phase EXCEPT ![x] = "first"]
  /\ req' = [req EXCEPT ![x] = r]
  /\ scan' = [scan EXCEPT ![x] = {l \in lots : FirstMatch(r, l)}]
  /\ UNCHANGED <<db, lock, got, dest, seen, moved, carried>>

\* A row is looked at again once it is locked: it may have been deleted, or changed
\* so that it no longer matches, while the lock was awaited.
BadStillMatches(x, l) == l \in lots
StillMatches(x, l) ==
  l \in lots /\ IF phase[x] = "first" THEN FirstMatch(req[x], l) ELSE SecondMatch(x, l)

\* The oldest row of the result is next.
LockRow(x) ==
  /\ phase[x] \in {"first", "second"}
  /\ \E l \in scan[x] :
       LET first == phase[x] = "first"
           hit   == StillMatches(x, l)
           many  == first /\ req[x].op \in Many
       IN /\ \A k \in scan[x] : l <= k
          /\ lock[l] \in {None, x}
          /\ lock' = [lock EXCEPT ![l] = IF l \in lots THEN x ELSE @]
          /\ scan' = [scan EXCEPT ![x] = IF hit /\ ~many THEN {} ELSE @ \ {l}]
          /\ got' = [got EXCEPT ![x] = IF hit /\ first THEN @ \cup {l} ELSE @]
          /\ dest' = [dest EXCEPT ![x] = IF hit /\ ~first THEN l ELSE @]
          /\ seen' = [seen EXCEPT ![x][l] = IF hit THEN row[l].qty ELSE @]
          /\ moved' = [moved EXCEPT ![x] = IF hit /\ many THEN @ + row[l].qty ELSE @]
  /\ UNCHANGED <<db, phase, req, carried, served>>

BadSamePart(x) == TRUE
SamePart(x) == row[dest[x]].part = row[req[x].lot].part

\* What the code checks once it has its rows: the lot exists, holds enough, is
\* adjusted in a known way, is merged into a lot of the same part.
Fails(x) ==
  LET r == req[x]  have == seen[x][r.lot] IN
  /\ scan[x] = {}
  /\ \/ /\ phase[x] = "first"
        /\ \/ r.op \in ById /\ got[x] = {}
           \/ r.op \in {"move", "split"} /\ r.qty > have
           \/ r.op = "split" /\ r.qty <= 0
           \/ r.op = "adjustlot" /\ r.how \notin {"add", "remove", "count"}
           \/ r.op = "adjust" /\ r.how \notin {"add", "remove", "count", "adjust"}
     \/ /\ phase[x] = "second"
        /\ r.op = "merge"
        /\ ~(dest[x] # None /\ SamePart(x))

SelectSecond(x) ==
  /\ phase[x] = "first"
  /\ scan[x] = {}
  /\ got[x] # {}
  /\ req[x].op \in Twice
  /\ ~Fails(x)
  /\ phase' = [phase EXCEPT ![x] = "second"]
  /\ scan' = [scan EXCEPT ![x] = {l \in lots : SecondMatch(x, l)}]
  /\ UNCHANGED <<db, lock, req, got, dest, seen, moved, carried, served>>

-----------------------------------------------------------------------------
(* Writes and commit.                                                        *)

BadUnlocked(x) == lock                            \* returns without Commit or Rollback
Unlocked(x) == [l \in Lots |-> IF lock[l] = x THEN None ELSE lock[l]]

\* The transaction is over, committed or rolled back: its locks are free.
End(x) ==
  /\ phase' = [phase EXCEPT ![x] = "idle"]
  /\ req' = [req EXCEPT ![x] = SomeRequest]
  /\ scan' = [scan EXCEPT ![x] = {}]
  /\ got' = [got EXCEPT ![x] = {}]
  /\ dest' = [dest EXCEPT ![x] = None]
  /\ seen' = [seen EXCEPT ![x] = [l \in Lots |-> 0]]
  /\ moved' = [moved EXCEPT ![x] = 0]
  /\ carried' = [carried EXCEPT ![x] = FALSE]
  /\ lock' = Unlocked(x)
  /\ UNCHANGED served

Ready(x, op) ==
  /\ req[x].op = op
  /\ phase[x] = IF op \in Twice THEN "second" ELSE "first"
  /\ scan[x] = {}
  /\ ~Fails(x)

\* Rows to insert or update, each with the delta its stock_transaction records
\* next to the new quantity, and rows to delete (their log goes with them).
Write(new, delta, gone) ==
  /\ DOMAIN new \subseteq Lots
  /\ row' = [l \in Lots |-> IF l \in DOMAIN new THEN new[l] ELSE row[l]]
  /\ lots' = (lots \cup DOMAIN new) \ gone
  /\ made' = IF made + 1 \in DOMAIN new THEN made + 1 ELSE made
  /\ ledger' = [l \in Lots |-> IF l \in DOMAIN new
                                 THEN (IF l \in lots THEN ledger[l] ELSE 0) + delta[l]
                                 ELSE ledger[l]]
  /\ last' = [l \in Lots |-> IF l \in DOMAIN new THEN new[l].qty ELSE last[l]]

\* The lot a transaction created: id made + 1, quantity 0 until it is written.
NewLot(p, place, plain) == [part |-> p, place |-> place, qty |-> 0, plain |-> plain]

BadNewQty(how, cur, q) ==                         \* a removal is not cut off at zero
  IF how \in {"add", "adjust"} THEN cur + q ELSE IF how = "count" THEN q ELSE cur - q
NewQty(how, cur, q) ==
  IF how \in {"add", "adjust"} THEN cur + q
  ELSE IF how = "count" THEN q
  ELSE IF cur - q < 0 THEN 0 ELSE cur - q

\* External stock movements change what the part should hold altogether.
Receive(p, delta) == net' = [net EXCEPT ![p] = @ + delta]

CommitAdjust(x) ==
  /\ Ready(x, "adjust")
  /\ LET r   == req[x]
         l   == IF got[x] = {} THEN made + 1 ELSE CHOOSE g \in got[x] : TRUE
         lot == IF got[x] = {} THEN NewLot(r.part, r.to, TRUE) ELSE row[l]
         cur == IF got[x] = {} THEN 0 ELSE seen[x][l]
         qty == NewQty(r.how, cur, r.qty)
     IN /\ Write([k \in {l} |-> [lot EXCEPT !.qty = qty]], [k \in {l} |-> qty - cur], {})
        /\ Receive(r.part, qty - cur)
        /\ refOnly' = [refOnly EXCEPT ![r.part] = @ /\ ~(qty > cur /\ qty > 0)]
  /\ End(x)

CommitAdjustLot(x) ==
  /\ Ready(x, "adjustlot")
  /\ LET l   == req[x].lot
         qty == NewQty(req[x].how, seen[x][l], req[x].qty)
     IN /\ Write([k \in {l} |-> [row[l] EXCEPT !.qty = qty]],
                 [k \in {l} |-> qty - seen[x][l]], {})
        /\ Receive(row[l].part, qty - seen[x][l])
  /\ UNCHANGED refOnly
  /\ End(x)

\* What the destination holds: it may be the source itself, already decremented.
BadDestQty(x, d) == IF dest[x] = None THEN 0 ELSE seen[x][d]
DestQty(x, d) ==
  IF d = req[x].lot THEN seen[x][d] - req[x].qty
  ELSE IF dest[x] = None THEN 0 ELSE seen[x][d]

CommitMove(x) ==
  /\ Ready(x, "move")
  /\ LET r   == req[x]
         s   == r.lot
         src == seen[x][s] - r.qty
         d   == IF dest[x] = None THEN made + 1 ELSE dest[x]
         lot == IF dest[x] = None THEN NewLot(row[s].part, r.to, TRUE) ELSE row[d]
     IN Write([k \in {s, d} |-> IF k = d THEN [lot EXCEPT !.qty = DestQty(x, d) + r.qty]
                                         ELSE [row[s] EXCEPT !.qty = src]],
              [k \in {s, d} |-> IF s = d THEN 0 ELSE IF k = d THEN r.qty ELSE -r.qty], {})
  /\ UNCHANGED <<net, refOnly>>
  /\ End(x)

CommitMovePart(x) ==
  /\ Ready(x, "movepart")
  /\ LET d   == IF dest[x] = None THEN made + 1 ELSE dest[x]
         lot == IF dest[x] = None THEN NewLot(req[x].part, req[x].to, TRUE) ELSE row[d]
         cur == IF dest[x] = None THEN 0 ELSE seen[x][d]
     IN Write([k \in got[x] \cup {d} |->
                 IF k = d THEN [lot EXCEPT !.qty = cur + moved[x]]
                          ELSE [row[k] EXCEPT !.qty = 0]],
              [k \in got[x] \cup {d} |-> IF k = d THEN moved[x] ELSE -seen[x][k]], {})
  /\ UNCHANGED <<net, refOnly>>
  /\ End(x)

NothingToMove(x) ==
  /\ req[x].op = "movepart"
  /\ phase[x] = "first"
  /\ scan[x] = {} /\ got[x] = {}
  /\ UNCHANGED db
  /\ End(x)

CommitSplit(x) ==
  /\ Ready(x, "split")
  /\ LET r == req[x]
         s == r.lot
         n == made + 1
     IN Write([k \in {s, n} |->
                 IF k = n THEN [NewLot(row[s].part, r.to, r.plain) EXCEPT !.qty = r.qty]
                          ELSE [row[s] EXCEPT !.qty = seen[x][s] - r.qty]],
              [k \in {s, n} |-> IF k = n THEN r.qty ELSE -r.qty], {})
  /\ UNCHANGED <<net, refOnly>>
  /\ End(x)

CommitMerge(x) ==
  /\ Ready(x, "merge")
  /\ LET s == req[x].lot
         d == dest[x]
     IN Write([k \in {d} |-> [row[d] EXCEPT !.qty = seen[x][d] + seen[x][s]]],
              [k \in {d} |-> seen[x][s]], {s})
  /\ UNCHANGED <<net, refOnly>>
  /\ End(x)

CommitRelocate(x) ==
  /\ Ready(x, "relocate")
  /\ LET l == req[x].lot
     IN Write([k \in {l} |-> [row[l] EXCEPT !.place = req[x].to]], [k \in {l} |-> 0], {})
  /\ UNCHANGED <<net, refOnly>>
  /\ End(x)

DeleteEmptyLots(x) ==
  /\ Ready(x, "empty")
  /\ Write([k \in {} |-> SomeLot], [k \in {} |-> 0], got[x])
  /\ UNCHANGED <<net, refOnly>>
  /\ End(x)

Commit(x) ==
  \/ CommitAdjust(x) \/ CommitAdjustLot(x)
  \/ CommitMove(x) \/ CommitMovePart(x) \/ NothingToMove(x)
  \/ CommitSplit(x) \/ CommitMerge(x) \/ CommitRelocate(x)
  \/ DeleteEmptyLots(x)

Refuse(x) ==
  /\ phase[x] \in {"first", "second"}
  /\ Fails(x)
  /\ UNCHANGED db
  /\ End(x)

-----------------------------------------------------------------------------
(* PATCH /parts/{id}: the part is read, the fields of the request are put in *)
(* ("set") or not ("carry"), and every column is written back.               *)

ReadPart(x, r) ==
  /\ phase[x] = "idle"
  /\ r.op = "patch"
  /\ served < MaxRequests
  /\ served' = served + 1
  /\ phase' = [phase EXCEPT ![x] = "patch"]
  /\ req' = [req EXCEPT ![x] = r]
  /\ carried' = [carried EXCEPT ![x] = IF r.how = "set" THEN r.flag ELSE refOnly[r.part]]
  /\ UNCHANGED <<db, lock, scan, got, dest, seen, moved>>

UpdatePart(x) ==
  /\ phase[x] = "patch"
  /\ refOnly' = [refOnly EXCEPT ![req[x].part] = carried[x]]
  /\ UNCHANGED <<row, lots, made, ledger, last, net>>
  /\ End(x)

-----------------------------------------------------------------------------
(* What ends a transaction from outside.                                     *)

\* The client goes away or the process dies: the request's context is cancelled
\* and the transaction rolls back.
Abandon(x) ==
  /\ phase[x] # "idle"
  /\ UNCHANGED db
  /\ End(x)

Oldest(S) == CHOOSE l \in S : \A k \in S : l <= k

\* The transaction whose lock x waits for, or x if it waits for none.
WaitsFor(x) ==
  IF phase[x] \in {"first", "second"} /\ scan[x] # {}
    THEN LET h == lock[Oldest(scan[x])] IN IF h \in Txs THEN h ELSE x
    ELSE x

\* Postgres breaks a cycle of waiting transactions by failing one of them.
BreakDeadlock(x) ==
  /\ \E S \in SUBSET Txs :
       /\ x \in S
       /\ \A y \in S : WaitsFor(y) # y
       /\ {WaitsFor(y) : y \in S} = S
  /\ UNCHANGED db
  /\ End(x)

\* The bounded model has served all its requests.
Rest ==
  /\ served = MaxRequests
  /\ \A x \in Txs : phase[x] = "idle"
  /\ UNCHANGED vars

Next ==
  \/ \E x \in Txs :
       \/ \E r \in Requests : Begin(x, r) \/ ReadPart(x, r)
       \/ LockRow(x) \/ SelectSecond(x) \/ Commit(x) \/ Refuse(x)
       \/ UpdatePart(x)
       \/ Abandon(x) \/ BreakDeadlock(x)
  \/ Rest

Spec == Init /\ [][Next]_vars

\* The server runs a request it has begun; Postgres grants free locks and looks
\* for deadlocks.  No client is obliged to ask, or to go away.
Fairness ==
  \A x \in Txs :
    /\ WF_vars(LockRow(x)) /\ WF_vars(SelectSecond(x))
    /\ WF_vars(Commit(x)) /\ WF_vars(Refuse(x)) /\ WF_vars(UpdatePart(x))
    /\ WF_vars(BreakDeadlock(x))

FairSpec == Spec /\ Fairness

-----------------------------------------------------------------------------
(* Properties.                                                               *)

\* Every variable has its type.
TypeOK ==
  /\ row \in [Lots -> Lot]
  /\ lots \subseteq Lots
  /\ made \in Nat
  /\ ledger \in [Lots -> Int]
  /\ last \in [Lots -> Int]
  /\ net \in [Parts -> Int]
  /\ refOnly \in [Parts -> BOOLEAN]
  /\ lock \in [Lots -> Txs \cup {None}]
  /\ phase \in [Txs -> {"idle", "first", "second", "patch"}]
  /\ req \in [Txs -> Request]
  /\ scan \in [Txs -> SUBSET Lots]
  /\ got \in [Txs -> SUBSET Lots]
  /\ dest \in [Txs -> Lots \cup {None}]
  /\ seen \in [Txs -> [Lots -> Int]]
  /\ moved \in [Txs -> Int]
  /\ carried \in [Txs -> BOOLEAN]
  /\ served \in 0..MaxRequests

\* stock.go: "the quantity and its audit row can never diverge".  A lot's quantity
\* is the sum of its movements and what the latest of them says resulted, however
\* the transactions on it interleave.
LedgerAgrees ==
  \A l \in lots : ledger[l] = row[l].qty /\ last[l] = row[l].qty

\* The sums of the numbers of lots, up to each lot.
Sums(q) ==
  LET upTo[n \in 0..(StartCount + MaxRequests)] == IF n = 0 THEN 0 ELSE upTo[n - 1] + q[n]
  IN upTo

\* What the lots of a part hold, one by one and together, from a table of lots.
Held(p, L, r) == [n \in Lots |-> IF n \in L /\ r[n].part = p THEN r[n].qty ELSE 0]
Total(p, L, r) == Sums(Held(p, L, r))[StartCount + MaxRequests]

\* Moving, splitting, merging, relocating and clearing up neither make stock nor
\* lose it: a part holds what it held at first and what was received since.
StockConserved ==
  \A p \in Parts : Total(p, lots, row) = Total(p, 1..StartCount, Start) + net[p]

\* What may take a lot below zero: a client that adds, adjusts or counts with a negative
\* number, which nothing refuses, and a merge that brings a lot already there.
AsksBelow(x) ==
  \/ req[x].op \in {"adjust", "adjustlot"} /\ req[x].how # "remove" /\ req[x].qty < 0
  \/ req[x].op = "merge" /\ row[req[x].lot].qty < 0

\* What a step leaves of the lots is never below zero and below what it found there,
\* unless the transaction that commits asks for that.
BelowAsAsked(X) ==
  \A l \in lots' :
    row'[l].qty < 0 /\ row'[l].qty < (IF l \in lots THEN row[l].qty ELSE 0)
      => \E x \in X : phase[x] # "idle" /\ phase'[x] = "idle" /\ AsksBelow(x)

\* No lot goes below zero, or further below, but by a number a client asked for: a removal
\* stops at what there is and a move or a split takes no more than there is, at the time
\* it commits, whatever was taken while it waited for its rows.
BelowZeroAsAsked == [][BelowAsAsked(Txs)]_vars

\* A lot disappears only by being merged into another, or empty and without a
\* barcode or a name at the moment it is deleted - not when it was looked for.
OnlyEmptyLotsCleared ==
  [][\A l \in lots :
       l \notin lots' =>
         \/ row[l].qty = 0 /\ row[l].plain
         \/ \E x \in Txs : req[x].op = "merge" /\ req[x].lot = l /\ lock[l] = x]_vars

\* What the transactions of stock.go and their FOR UPDATE are for: each changes the lots
\* as one operation would that finds them as they are when it commits, whatever the others
\* did between its look at a row and its lock, and while it waited. Refused and abandoned
\* ones change nothing.
Atomic == INSTANCE Inventory WITH
  Most <- StartCount + MaxRequests, stock <- [l \in lots |-> row[l]]
KeepsInventory == Atomic!Spec

\* Every request comes to an end, also when transactions lock in opposite orders.
RequestsEnd == \A x \in Txs : phase[x] # "idle" ~> phase[x] = "idle"

-----------------------------------------------------------------------------
(* What the code's comments say, and the code does not do.                   *)

\* stock.go: "A part marked 'recorded but not owned' that holds three of them is
\* a state nothing in the app can describe".
ReferenceHoldsNothing ==
  \A p \in Parts, l \in lots :
    refOnly[p] /\ row[l].part = p => row[l].qty <= 0

\* parts.go, PATCH: "Start from what is stored, so anything the caller did not
\* mention survives" - a patch that does not mention reference_only keeps it.
UnmentionedSurvives ==
  [][\A x \in Txs :
       phase[x] = "patch" /\ req[x].how = "carry" /\ phase'[x] = "idle"
         => refOnly'[req[x].part] = refOnly[req[x].part]]_vars
=============================================================================
