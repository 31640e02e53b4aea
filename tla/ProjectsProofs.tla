--------------------------- MODULE ProjectsProofs ---------------------------
(***************************************************************************)
(* For any boards, lines, parts, rules, files and concurrent requests:     *)
(* what replaces an attachment leaves none of what it replaced, and a rule *)
(* reaches the lines it is about. First what a request has in hand at each *)
(* of its statements, then the cover, the attachments, and the matches,    *)
(* each with its part of the inductive invariant and what the steps that   *)
(* have nothing to do with it leave as it is.                              *)
(***************************************************************************)
EXTENDS Projects, FiniteSetTheorems, TLAPS

-----------------------------------------------------------------------------
\* What a request has in hand, by where it is.

Stages == {"idle", "done", "board", "match", "panel", "panelstore", "assets", "resolve", "rule",
           "setmatch", "write", "boards", "lines", "rematch", "set", "clear", "attach", "create",
           "cover", "uncover", "drop"}

Copies == UNION {[S -> Line] : S \in SUBSET Lines}

Proc == [pc : Stages, board : Boards \cup {NoBoard}, line : Lines \cup {NoLine},
         content : Contents \cup {NoContent}, given : Given, match : Match, changed : BOOLEAN,
         file : Seq(Contents), matched : Seq(Match), panel : BOOLEAN, iboms : Nat,
         boards : SUBSET Boards, todo : Copies, old : Assets \cup {NoAsset}, new : Assets \cup {NoAsset}]

Covering == {"create", "cover", "uncover", "drop"}

Staged(r) ==
    /\ r.pc \in {"match", "panel", "panelstore", "assets", "resolve", "rule", "write", "clear", "attach"}
           => r.board \in Boards
    /\ r.pc \in {"match", "panelstore"} => r.boards # {}
    /\ r.pc = "board" => r.matched = <<>>
    /\ r.pc = "match" => Len(r.matched) <= Len(r.file)
    /\ r.pc \in {"panel", "panelstore"} => Len(r.matched) = Len(r.file)
    /\ r.pc \in {"resolve", "rule", "setmatch", "write", "set"} => r.content \in Contents
    /\ r.pc \in {"resolve", "write"} /\ r.changed => matchKey(r.content) # <<>>
    /\ r.pc = "rule" => r.given \in {"none"} \cup Parts
    /\ r.pc = "setmatch" => r.given \in Parts /\ matchKey(r.content) # <<>>
    /\ r.pc \in {"boards", "lines", "rematch", "set"} => r.changed
    /\ r.pc = "set" => r.line \in Lines
    /\ r.pc \in Covering => r.board = NoBoard
    /\ r.pc = "cover" => r.new \in Assets
    /\ \A l \in DOMAIN r.todo : r.todo[l].content \in Contents

\* Tables and requests have their types, and rows refer to rows.
Tables ==
    /\ part \subseteq Parts /\ board \in [Boards -> {"unused", "live", "deleted"}]
    /\ line \in [Lines -> Line] /\ asset \in [Assets -> Asset]
    /\ rule \in [Keys -> Parts \cup {NoPart}] /\ cover \in Assets \cup {NoAsset}
    /\ faults \in 0 .. MaxFaults /\ missed \subseteq Keys /\ torn \subseteq Boards \cup {NoBoard}

References ==
    /\ \A l \in Lines : line[l].state = "live" =>
           /\ line[l].content \in Contents
           /\ board[line[l].board] = "live" /\ line[l].board \in Boards
           /\ line[l].match.part \in part \cup {NoPart}
    /\ \A k \in Keys : rule[k] \in part \cup {NoPart}
    /\ cover # NoAsset => asset[cover].state = "live"

Requests == proc \in [Procs -> Proc] /\ \A p \in Procs : Staged(proc[p])

-----------------------------------------------------------------------------
\* Attachments.

\* A request that will attach an interactive BOM to a board.
Attaches(r, b) ==
    /\ r.board = b
    /\ \/ r.pc = "attach"
       \/ r.pc \in {"match", "panel", "panelstore", "assets"} /\ r.iboms > 0

\* A board that is not there yet has nothing. What is attached to one that is not torn came
\* with one request, the one that will attach more if there is such a request.
BoardsAttached ==
    \A b \in Boards :
        /\ board[b] = "unused" => /\ \A a \in Assets : asset[a].state = "live" => asset[a].board # b
                                  /\ \A p \in Procs : proc[p].board # b
        /\ b \notin torn =>
               /\ \A a1, a2 \in AssetsOfKind(b, "ibom") : asset[a1].by = asset[a2].by
               /\ \A p \in Procs : Attaches(proc[p], b) =>
                      /\ \A a \in AssetsOfKind(b, "ibom") : asset[a].by = {p}
                      /\ \A q \in Procs : Attaches(proc[q], b) => q = p

\* One request at a time changes the cover, and has in hand what is not the cover.
Covered ==
    NoBoard \notin torn =>
        /\ \A p, q \in Procs : proc[p].pc \in Covering /\ proc[q].pc \in Covering => p = q
        /\ \A p \in Procs : proc[p].pc \in {"create", "cover", "uncover"} => cover \in {proc[p].old, NoAsset}
        /\ \A a \in Assets : asset[a].state = "live" /\ asset[a].board = NoBoard =>
               \/ a = cover
               \/ \E p \in Procs : \/ proc[p].pc = "cover" /\ proc[p].new = a
                                   \/ proc[p].pc = "drop" /\ proc[p].old = a

-----------------------------------------------------------------------------
\* Rules.

Right(k, m) ==
    IF k \in Keys /\ rule[k] # NoPart
    THEN m.kind = "fbpn" \/ m = [part |-> rule[k], kind |-> "project"]
    ELSE m.kind # "project"

\* A match that is right, or that nobody vouches for.
Fine(k, m) == k \in missed \/ m.part \notin part \/ Right(k, m)

Excused(k) == k \in missed \/ (k = <<>> /\ Keys \cap missed # {})

\* A line is what a copy of it says, up to its identity, or it was edited meanwhile.
Agrees(c, l) ==
    /\ line[l].state # "unused"
    /\ line[l].state = "live" => LET k == matchKey(line[l].content) IN matchKey(c) = k \/ Excused(k)

Held(r) ==
    /\ r.pc = "write" => r.changed \/ Fine(matchKey(r.content), r.match)
    /\ r.pc = "set" => Fine(matchKey(r.content), r.match) /\ Agrees(r.content, r.line)
    /\ r.pc \in {"match", "panel", "panelstore"} =>
           \A i \in DOMAIN r.matched : Fine(matchKey(r.file[i]), r.matched[i])
    /\ \A l \in DOMAIN r.todo : Agrees(r.todo[l].content, l)

\* A request that will go over this line.
Comes(r, l) ==
    /\ r.changed
    /\ \/ r.pc \in {"resolve", "write", "boards"}
       \/ r.pc \in {"lines", "rematch", "set"} /\ line[l].board \in r.boards
       \/ r.pc \in {"rematch", "set"} /\ l \in DOMAIN r.todo /\ r.todo[l] = line[l]
       \/ r.pc = "set" /\ r.line = l

Reached(l) ==
    line[l].state = "live" =>
        LET k == matchKey(line[l].content)
            m == line[l].match
        IN  \/ m.part = NoPart \/ Excused(k) \/ Right(k, m)
            \/ k # <<>> /\ \E p \in Procs : Comes(proc[p], l)

RulesInv == (\A p \in Procs : Held(proc[p])) /\ \A l \in Lines : Reached(l)

TypesInv == Tables /\ References /\ Requests

Attachments == BoardsAttached /\ Covered

Safe == TypesInv /\ Attachments /\ RulesInv

-----------------------------------------------------------------------------
\* Rows.

\* There are rows of the right kind for what is not in use.
LEMMA Rows ==
  /\ NoMatch \in Match /\ NoRow \in Line /\ NoRow.state = "unused" /\ NoRow.match = NoMatch
  /\ NoAsset0 \in Asset /\ NoAsset0.state = "unused" /\ NoAsset0.board = NoBoard /\ NoAsset0.kind = "image"
  /\ NoProc \in Proc /\ Done \in Proc /\ Done.pc = "done" /\ NoProc.pc = "idle"
  /\ Done.board = NoBoard /\ Done.changed = FALSE /\ Done.todo = [l \in {} |-> NoRow]
  /\ NoProc.board = NoBoard /\ NoProc.changed = FALSE /\ NoProc.todo = [l \in {} |-> NoRow]
  /\ NoProc.matched = <<>>
  /\ Staged(Done) /\ Staged(NoProc)
<1>1. NoMatch \in Match /\ NoRow \in Line
  BY DEF NoMatch, Match, Kinds, NoRow, Line
<1>2. NoAsset0 \in Asset
  BY DEF NoAsset0, Asset
<1>3. [l \in {} |-> NoRow] \in Copies
  BY DEF Copies
<1>4. NoProc \in Proc
  BY <1>1, <1>3 DEF NoProc, Proc, Stages, Given
<1>5. Done \in Proc
  BY <1>4 DEF Done, Proc, Stages
<1>6. Staged(NoProc)
  BY DEF NoProc, Staged, Covering
<1>7. Staged(Done)
  BY DEF Done, NoProc, Staged, Covering
<1> QED
  BY <1>1, <1>2, <1>4, <1>5, <1>6, <1>7 DEF Done, NoProc, NoRow, NoAsset0

\* What a request becomes when it goes on to its next statement.
LEMMA GoOn ==
  ASSUME NEW r \in Proc, NEW pc \in Stages
  PROVE  /\ [r EXCEPT !.pc = pc] \in Proc /\ [r EXCEPT !.pc = pc].pc = pc
         /\ [r EXCEPT !.pc = pc].board = r.board /\ [r EXCEPT !.pc = pc].line = r.line
         /\ [r EXCEPT !.pc = pc].content = r.content /\ [r EXCEPT !.pc = pc].given = r.given
         /\ [r EXCEPT !.pc = pc].match = r.match /\ [r EXCEPT !.pc = pc].changed = r.changed
         /\ [r EXCEPT !.pc = pc].file = r.file /\ [r EXCEPT !.pc = pc].matched = r.matched
         /\ [r EXCEPT !.pc = pc].panel = r.panel /\ [r EXCEPT !.pc = pc].iboms = r.iboms
         /\ [r EXCEPT !.pc = pc].boards = r.boards
         /\ [r EXCEPT !.pc = pc].todo = r.todo /\ [r EXCEPT !.pc = pc].old = r.old
         /\ [r EXCEPT !.pc = pc].new = r.new
BY DEF Proc

\* The fields of a request.
LEMMA Fields ==
  ASSUME NEW r \in Proc
  PROVE  /\ r.pc \in Stages /\ r.board \in Boards \cup {NoBoard} /\ r.line \in Lines \cup {NoLine}
         /\ r.content \in Contents \cup {NoContent} /\ r.given \in Given /\ r.match \in Match
         /\ r.changed \in BOOLEAN /\ r.file \in Seq(Contents) /\ r.matched \in Seq(Match)
         /\ r.panel \in BOOLEAN /\ r.iboms \in Nat /\ r.boards \in SUBSET Boards /\ r.todo \in Copies
         /\ r.old \in Assets \cup {NoAsset} /\ r.new \in Assets \cup {NoAsset}
BY DEF Proc

\* A step of one request is a new row for it.
LEMMA RowStep ==
  ASSUME Requests, NEW p \in Procs, NEW r \in Proc, Staged(r), proc' = [proc EXCEPT ![p] = r]
  PROVE  Requests' /\ proc'[p] = r /\ \A q \in Procs \ {p} : proc'[q] = proc[q]
BY DEF Requests

\* The request that has the turn.
LEMMA Turn ==
  ASSUME Requests, NEW p \in Procs
  PROVE  proc[p] \in Proc /\ Staged(proc[p])
BY DEF Requests

\* The parts a rung answers are parts there are.
LEMMA RungsAnswer ==
  ASSUME Tables, References, NEW c, NEW failed, NEW i \in 1 .. 6
  PROVE  Rungs(Db(failed), Rules(failed), c)[i][2] \subseteq part
<1> DEFINE db == Db(failed)
           rules == Rules(failed)
<1>1. \A text : /\ Named(db.ipns, text) \subseteq part /\ Named(db.mpns, text) \subseteq part
                /\ Named(db.skus, text) \subseteq part /\ Named(db.tags, text) \subseteq part
  BY DEF Db, Named
<1>2. DOMAIN db.names \subseteq part
  BY DEF Db
<1>5. ProjectMatch(rules, matchKey(c)) \subseteq part
  BY DEF ProjectMatch, Rules, Tables, References
<1> HIDE DEF db, rules
<1>3. \A v, f : FindPartByValueFootprint(db, v, f) \subseteq part
  BY <1>2 DEF FindPartByValueFootprint
<1>4. \A words : tagMatch(db, words) \subseteq part
  BY <1>1 DEF tagMatch
<1>6. i \in {1, 2, 3, 4, 5, 6}
  OBVIOUS
<1>7. Rungs(db, rules, c)[i][2] \subseteq part
  BY <1>1, <1>3, <1>4, <1>5, <1>6
  DEF Rungs, FindPartByIPN, FindPartByMPN, FindPartBySupplierSKU
<1> QED
  BY <1>7 DEF db, rules

\* What matching answers: a part there is, and the rule's part where there is a rule and
\* it could be looked up.
LEMMA Resolves ==
  ASSUME Tables, References, NEW c, NEW failed, NEW m \in Resolve(c, failed)
  PROVE  /\ m \in Match /\ m.part \in part \cup {NoPart}
         /\ "project" \notin failed => Right(matchKey(c), m)
<1> DEFINE R == Rungs(Db(failed), Rules(failed), c)
           k == matchKey(c)
<1>1. /\ R[1][1] = "fbpn" /\ R[2] = <<"project", ProjectMatch(Rules(failed), k)>>
      /\ R[3][1] = "mpn" /\ R[4][1] = "supplier" /\ R[5][1] = "value_footprint" /\ R[6][1] = "tag"
      /\ DOMAIN R = 1 .. 6
  BY DEF Rungs
<1>2. \A i \in 1 .. 6 : R[i][2] \subseteq part
  BY RungsAnswer
<1>3. DOMAIN rule = Keys /\ \A x \in Keys : rule[x] \in Parts \cup {NoPart}
  BY DEF Tables
<1>4. /\ "project" \notin failed =>
             ProjectMatch(Rules(failed), k) = IF k \in Keys THEN {rule[k]} \ {NoPart} ELSE {}
      /\ "project" \in failed => ProjectMatch(Rules(failed), k) = {}
  BY <1>3 DEF ProjectMatch, Rules
<1> DEFINE hits == {i \in DOMAIN R : R[i][2] # {}}
           first == CHOOSE i \in hits : \A j \in hits : i <= j
<1>5. m \in IF hits = {} THEN {[part |-> NoPart, kind |-> "none"]}
            ELSE {[part |-> q, kind |-> R[first][1]] : q \in R[first][2]}
  BY DEF Resolve, resolveMatch
<1> HIDE DEF R
<1>6. CASE hits = {}
  <2>1. R[2][2] = {}
    BY <1>1, <1>6
  <2>2. m = [part |-> NoPart, kind |-> "none"]
    BY <1>5, <1>6
  <2> QED
    BY <1>1, <1>4, <2>1, <2>2 DEF Right, Match, Kinds
<1>7. CASE hits # {}
  <2>1. hits \in SUBSET (1 .. 6)
    BY <1>1
  <2>2. \A h \in SUBSET (1 .. 6) : h # {} => \E i \in h : \A j \in h : i <= j
    <3> SUFFICES ASSUME NEW h \in SUBSET (1 .. 6), h # {},
                        \A i \in h : ~(\A j \in h : i <= j)
                 PROVE  FALSE
      OBVIOUS
    <3>1. 1 \notin h
      OBVIOUS
    <3>2. 2 \notin h
      BY <3>1
    <3>3. 3 \notin h
      BY <3>1, <3>2
    <3>4. 4 \notin h
      BY <3>1, <3>2, <3>3
    <3>5. 5 \notin h
      BY <3>1, <3>2, <3>3, <3>4
    <3>6. 6 \notin h
      BY <3>1, <3>2, <3>3, <3>4, <3>5
    <3>7. \A i \in h : i \in {1, 2, 3, 4, 5, 6}
      OBVIOUS
    <3>8. PICK i \in h : TRUE
      OBVIOUS
    <3> QED
      BY ONLY <3>1, <3>2, <3>3, <3>4, <3>5, <3>6, <3>7, <3>8
  <2>3. first \in hits /\ \A j \in hits : first <= j
    BY <1>7, <2>1, <2>2
  <2>4. first \in 1 .. 6 /\ (2 \in hits => first \in {1, 2})
    BY <2>1, <2>3
  <2>5. m \in {[part |-> q, kind |-> R[first][1]] : q \in R[first][2]}
    BY <1>5, <1>7
  <2>6. "project" \notin failed => (2 \in hits <=> (k \in Keys /\ rule[k] # NoPart))
    BY <1>1, <1>3, <1>4, NoneAssumption
  <2>7. first = 2 => 2 \in hits
    BY <2>3
  <2> HIDE DEF first, hits
  <2>8. PICK q \in R[first][2] : m = [part |-> q, kind |-> R[first][1]]
    BY <2>5
  <2>9. q \in part
    BY <1>2, <2>4, <2>8
  <2>10. first \in {1, 2, 3, 4, 5, 6}
    BY <2>4
  <2>11. m.part = q /\ m.kind = R[first][1]
    BY <2>8
  <2>12. m.kind \in Kinds /\ (m.kind = "project" <=> first = 2) /\ (first = 1 => m.kind = "fbpn")
    BY <1>1, <2>10, <2>11 DEF Kinds
  <2>13. m \in Match
    BY <2>8, <2>9, <2>11, <2>12 DEF Match, Tables
  <2>14. first = 2 /\ "project" \notin failed => q = rule[k]
    BY <1>1, <1>4, <2>6, <2>7, <2>8
  <2> QED
    BY <1>1, <2>4, <2>6, <2>7, <2>8, <2>9, <2>12, <2>13, <2>14 DEF Right
<1> QED
  BY <1>6, <1>7

-----------------------------------------------------------------------------
\* Steps that leave most of it alone.

\* A statement fails within the budget, or does not.
LEMMA Budget ==
  ASSUME Tables, Fault \/ NoFault
  PROVE  faults' \in 0 .. MaxFaults
BY BudgetAssumption DEF Tables, Fault, NoFault

\* What is said has an identity, or none.
LEMMA Identity ==
  ASSUME NEW c \in Contents
  PROVE  matchKey(c) # <<>> => matchKey(c) \in Keys
BY DEF Keys

\* A step that only a request and the notes of races see.
LEMMA TypesKeep ==
  ASSUME TypesInv, NEW p \in Procs, NEW r \in Proc, Staged(r), proc' = [proc EXCEPT ![p] = r],
         UNCHANGED <<part, board, line, rule, asset, cover>>,
         faults' \in 0 .. MaxFaults, missed' \subseteq Keys, torn' \subseteq Boards \cup {NoBoard}
  PROVE  TypesInv'
<1>1. Tables'
  BY DEF TypesInv, Tables
<1>2. References'
  BY DEF TypesInv, References
<1>3. Requests'
  BY RowStep DEF TypesInv
<1> QED
  BY <1>1, <1>2, <1>3 DEF TypesInv

\* Boards and covers stay in order when a request that has nothing to do with the
\* cover goes on and will attach no more than it would.
LEMMA AttachmentsKeep ==
  ASSUME Requests, Attachments, NEW p \in Procs, NEW r \in Proc, proc' = [proc EXCEPT ![p] = r],
         UNCHANGED <<board, asset, cover, torn>>,
         r.pc \notin Covering, proc[p].pc \notin Covering,
         \A b \in Boards : r.board = b => board[b] # "unused" \/ proc[p].board = b,
         \A b \in Boards : Attaches(r, b) => Attaches(proc[p], b)
  PROVE  Attachments'
<1>1. proc'[p] = r /\ \A q \in Procs : q # p => proc'[q] = proc[q]
  BY DEF Requests
<1>2. \A q \in Procs, b \in Boards : Attaches(proc'[q], b) => Attaches(proc[q], b)
  BY <1>1
<1>3. asset' = asset /\ \A b \in Boards : AssetsOfKind(b, "ibom")' = AssetsOfKind(b, "ibom")
  BY DEF AssetsOfKind
<1>4. \A q \in Procs, b \in Boards : proc'[q].board = b => board[b] # "unused" \/ proc[q].board = b
  BY <1>1
<1>5. BoardsAttached'
  <2> SUFFICES ASSUME NEW b \in Boards
               PROVE  /\ board'[b] = "unused" =>
                            /\ \A a \in Assets : asset'[a].state = "live" => asset'[a].board # b
                            /\ \A q \in Procs : proc'[q].board # b
                      /\ b \notin torn' =>
                            /\ \A a1, a2 \in AssetsOfKind(b, "ibom")' : asset'[a1].by = asset'[a2].by
                            /\ \A o \in Procs : Attaches(proc'[o], b) =>
                                   /\ \A a \in AssetsOfKind(b, "ibom")' : asset'[a].by = {o}
                                   /\ \A q \in Procs : Attaches(proc'[q], b) => q = o
    BY DEF BoardsAttached
  <2>1. CASE b \notin torn
    BY <1>2, <1>3, <1>4, <2>1 DEF Attachments, BoardsAttached
  <2>2. CASE b \in torn
    BY <1>4, <2>2 DEF Attachments, BoardsAttached
  <2> QED
    BY <2>1, <2>2
<1>6. Covered'
  <2>1. \A q \in Procs : (proc[q].pc \in Covering \/ proc'[q].pc \in Covering) => q # p /\ proc'[q] = proc[q]
    BY <1>1
  <2>2. {"create", "cover", "uncover", "drop"} = Covering
    BY DEF Covering
  <2> QED
    BY <2>1, <2>2 DEF Attachments, Covered
<1> QED
  BY <1>5, <1>6 DEF Attachments

\* Of the lines only those of C change: each of them is reached afterwards, and was not
\* being read or says still what a reader knows. A request that was to come by another
\* line still will, or is noted.
LinesMove(p, r, C) ==
    /\ UNCHANGED <<part, rule>> /\ missed \subseteq missed'
    /\ \A x \in Lines \ C : line'[x] = line[x]
    /\ \A x \in C : \/ \A c \in Contents : Agrees(c, x) => Agrees(c, x)'
                    \/ Reading(x) = {} /\ x \notin DOMAIN r.todo /\ r.pc # "set"
    /\ \A x \in C : Reached(x)'
    /\ \A x \in Lines \ C : line[x].state = "live" /\ Comes(proc[p], x) =>
           \/ Comes(r, x) \/ missed' = Keys \/ matchKey(line[x].content) \in missed'
           \/ Right(matchKey(line[x].content), line[x].match)

\* Then the lines stay in order.
LEMMA LinesChange ==
  ASSUME TypesInv, RulesInv, NEW p \in Procs, NEW r \in Proc, Staged(r), Held(r) \/ Held(r)',
         proc' = [proc EXCEPT ![p] = r],
         NEW C \in SUBSET Lines, LinesMove(p, r, C)
  PROVE  RulesInv'
<1>0. /\ UNCHANGED <<part, rule>> /\ missed \subseteq missed'
      /\ \A x \in Lines \ C : line'[x] = line[x]
      /\ \A x \in C : \/ \A c \in Contents : Agrees(c, x) => Agrees(c, x)'
                      \/ Reading(x) = {} /\ x \notin DOMAIN r.todo /\ r.pc # "set"
      /\ \A x \in C : Reached(x)'
      /\ \A x \in Lines \ C : line[x].state = "live" /\ Comes(proc[p], x) =>
             \/ Comes(r, x) \/ missed' = Keys \/ matchKey(line[x].content) \in missed'
             \/ Right(matchKey(line[x].content), line[x].match)
  BY DEF LinesMove
<1>1. proc'[p] = r /\ \A q \in Procs : q # p => proc'[q] = proc[q]
  BY DEF TypesInv, Requests
<1>2. \A k, m : Right(k, m)' <=> Right(k, m)
  BY <1>0 DEF Right
<1>3. /\ \A k, m : Fine(k, m) => Fine(k, m)'
      /\ \A k : Excused(k) => Excused(k)'
  BY <1>0, <1>2 DEF Fine, Excused
<1>4. \A c : \A x \in Lines \ C : Agrees(c, x) => Agrees(c, x)'
  BY <1>0, <1>3 DEF Agrees
<1>5. \A y \in Proc : /\ Held(y) /\ Staged(y)
                      /\ \A x \in C : \/ \A c \in Contents : Agrees(c, x) => Agrees(c, x)'
                                      \/ x \notin DOMAIN y.todo /\ (y.pc = "set" => y.line # x)
                      => Held(y)'
  <2> SUFFICES ASSUME NEW y \in Proc, Held(y), Staged(y),
                      \A x \in C : \/ \A c \in Contents : Agrees(c, x) => Agrees(c, x)'
                                   \/ x \notin DOMAIN y.todo /\ (y.pc = "set" => y.line # x)
               PROVE  Held(y)'
    OBVIOUS
  <2>1. \A x \in DOMAIN y.todo : x \in Lines /\ y.todo[x].content \in Contents
    BY DEF Proc, Copies, Staged
  <2>2. y.pc = "set" => y.line \in Lines /\ y.content \in Contents
    BY DEF Staged
  <2>3. \A x \in DOMAIN y.todo : Agrees(y.todo[x].content, x)'
    BY <1>4, <2>1 DEF Held
  <2>4. y.pc = "set" => Agrees(y.content, y.line)'
    BY <1>4, <2>2 DEF Held
  <2> QED
    BY <1>3, <2>3, <2>4 DEF Held
<1>6. \A q \in Procs : Held(proc[q])
  BY DEF RulesInv
<1>7. \A q \in Procs : Held(proc[q])'
  <2> SUFFICES ASSUME NEW q \in Procs
               PROVE  Held(proc[q])'
    OBVIOUS
  <2>1. CASE q = p
    <3>1. proc'[q] = r
      BY <1>1, <2>1
    <3>2. Held(r)'
      BY <1>0, <1>5
    <3> QED
      BY <3>1, <3>2 DEF Held, Agrees, Fine, Right, Excused
  <2>2. CASE q # p
    <3>1. PICK z \in Proc : z = proc[q] /\ Staged(z)
      BY DEF TypesInv, Requests
    <3>2. \A x \in C : Reading(x) = {} => x \notin DOMAIN z.todo /\ (z.pc = "set" => z.line # x)
      BY <3>1 DEF Reading, AtPc
    <3>3. Held(z)'
      BY <1>0, <1>5, <1>6, <3>1, <3>2
    <3>4. z = proc'[q]
      BY <1>1, <2>2, <3>1
    <3> QED
      BY <3>3, <3>4 DEF Held, Agrees, Fine, Right, Excused
  <2> QED
    BY <2>1, <2>2
<1>8. \A l \in Lines \ C : Reached(l)'
  <2> SUFFICES ASSUME NEW l \in Lines \ C
               PROVE  Reached(l)'
    OBVIOUS
  <2>1. Reached(l) /\ line'[l] = line[l]
    BY <1>0 DEF RulesInv
  <2>2. \A x : Comes(x, l) => Comes(x, l)'
    BY <2>1 DEF Comes
  <2>3. CASE \E q \in Procs : Comes(proc[q], l)
    <3>1. PICK q \in Procs : Comes(proc[q], l)
      BY <2>3
    <3>2. line[l].state = "live" /\ matchKey(line[l].content) # <<>> => matchKey(line[l].content) \in Keys
      BY Identity DEF TypesInv, References
    <3>0. CASE Right(matchKey(line[l].content), line[l].match)
      <4>1. PICK k, m : k = matchKey(line[l].content) /\ m = line[l].match
        OBVIOUS
      <4>2. Right(k, m)'
        BY <1>2, <3>0, <4>1
      <4>3. k = matchKey(line'[l].content) /\ m = line'[l].match
        BY <2>1, <4>1
      <4> QED
        BY <4>2, <4>3 DEF Reached
    <3>9. CASE line[l].state # "live"
      BY <2>1, <3>9 DEF Reached
    <3>3. CASE \E o \in Procs : Comes(proc[o], l)'
      <4>1. PICK k, m : k = matchKey(line[l].content) /\ m = line[l].match
        OBVIOUS
      <4>2. k = matchKey(line'[l].content) /\ m = line'[l].match
        BY <2>1, <4>1
      <4>3. line[l].state = "live" => m.part = NoPart \/ Excused(k) \/ Right(k, m) \/ k # <<>>
        BY <2>1, <4>1 DEF Reached
      <4>5. (Excused(k) => Excused(k)') /\ (Right(k, m) => Right(k, m)')
        BY <1>2, <1>3
      <4> QED
        BY <2>1, <3>3, <4>2, <4>3, <4>5 DEF Reached
    <3>4. CASE missed' = Keys \/ matchKey(line[l].content) \in missed'
      <4>1. PICK k, m : k = matchKey(line[l].content) /\ m = line[l].match
        OBVIOUS
      <4>2. k = matchKey(line'[l].content) /\ m = line'[l].match
        BY <2>1, <4>1
      <4>3. line[l].state = "live" => m.part = NoPart \/ Excused(k) \/ Right(k, m) \/ k \in Keys
        BY <2>1, <3>2, <4>1 DEF Reached
      <4>4. k \in Keys => Excused(k)'
        BY <3>4, <4>1 DEF Excused
      <4>5. (Excused(k) => Excused(k)') /\ (Right(k, m) => Right(k, m)')
        BY <1>2, <1>3
      <4> QED
        BY <2>1, <4>2, <4>3, <4>4, <4>5 DEF Reached
    <3>5. CASE q = p
      <4>1. CASE Comes(r, l)
        <5>1. proc'[p] = r
          BY <1>1
        <5>2. Comes(r, l)'
          BY <2>2, <4>1
        <5>3. Comes(proc[p], l)'
          BY <5>1, <5>2 DEF Comes
        <5> QED
          BY <3>3, <5>3
      <4> QED
        BY <1>0, <3>0, <3>1, <3>4, <3>5, <3>9, <4>1
    <3>6. CASE q # p
      <4>1. PICK z : z = proc[q]
        OBVIOUS
      <4>2. Comes(z, l)'
        BY <2>2, <3>1, <4>1
      <4>3. z = proc'[q]
        BY <1>1, <3>6, <4>1
      <4>4. Comes(proc[q], l)'
        BY <4>2, <4>3 DEF Comes
      <4> QED
        BY <3>3, <4>4
    <3> QED
      BY <3>5, <3>6
  <2>4. CASE ~(\E q \in Procs : Comes(proc[q], l))
    BY <1>2, <1>3, <2>1, <2>4 DEF Reached
  <2> QED
    BY <2>3, <2>4
<1> QED
  BY <1>0, <1>7, <1>8 DEF RulesInv

\* Lines stay in order when none changes.
LEMMA RulesKeep ==
  ASSUME TypesInv, RulesInv, NEW p \in Procs, NEW r \in Proc, Staged(r), Held(r) \/ Held(r)',
         proc' = [proc EXCEPT ![p] = r],
         UNCHANGED <<part, rule, line>>, missed \subseteq missed',
         \A x \in Lines : line[x].state = "live" /\ Comes(proc[p], x) =>
             \/ Comes(r, x) \/ missed' = Keys \/ matchKey(line[x].content) \in missed'
             \/ Right(matchKey(line[x].content), line[x].match)
  PROVE  RulesInv'
<1>1. PICK C \in SUBSET Lines : C = {}
  OBVIOUS
<1>2. LinesMove(p, r, C)
  BY <1>1 DEF LinesMove
<1> QED
  BY <1>2, LinesChange

\* A step that only one request and the notes of races see.
LEMMA Goes ==
  ASSUME Safe, NEW p \in Procs, NEW r \in Proc, Staged(r), Held(r) \/ Held(r)',
         proc' = [proc EXCEPT ![p] = r], UNCHANGED <<part, board, line, rule, asset, cover, torn>>,
         Fault \/ NoFault, missed \subseteq missed', missed' \subseteq Keys,
         r.pc \notin Covering, proc[p].pc \notin Covering,
         \A b \in Boards : r.board = b => board[b] # "unused" \/ proc[p].board = b,
         \A b \in Boards : Attaches(r, b) => Attaches(proc[p], b),
         \A l \in Lines : line[l].state = "live" /\ Comes(proc[p], l) =>
             \/ Comes(r, l) \/ missed' = Keys \/ matchKey(line[l].content) \in missed'
             \/ Right(matchKey(line[l].content), line[l].match)
  PROVE  Safe'
<1>1. TypesInv'
  BY TypesKeep, Budget DEF Safe, TypesInv, Tables
<1>2. Attachments'
  BY AttachmentsKeep DEF Safe, TypesInv
<1>3. RulesInv'
  BY RulesKeep DEF Safe
<1> QED
  BY <1>1, <1>2, <1>3 DEF Safe

\* Notes of what was missed take nothing away.
LEMMA NotesStay ==
  ASSUME UNCHANGED <<part, rule, line>>, missed \subseteq missed'
  PROVE  /\ \A k, m : Fine(k, m) => Fine(k, m)'
         /\ \A c, l : Agrees(c, l) => Agrees(c, l)'
<1>1. \A k, m : Right(k, m)' <=> Right(k, m)
  BY DEF Right
<1>2. /\ \A k, m : Fine(k, m) => Fine(k, m)'
      /\ \A k : Excused(k) => Excused(k)'
  BY <1>1 DEF Fine, Excused
<1> QED
  BY <1>2 DEF Agrees

\* A line is matched with what its lookups answer, of which some may fail: the match is
\* right, or it is noted that the line missed its rule.
LEMMA LookedUp ==
  ASSUME Tables, References, UNCHANGED <<part, rule>>,
         NEW c, NEW failed \in Failing(c), Lookup(c, failed), NEW m \in Resolve(c, failed)
  PROVE  /\ m \in Match /\ (Right(matchKey(c), m) \/ matchKey(c) \in missed')
         /\ Fine(matchKey(c), m)'
         /\ missed \subseteq missed' /\ missed' \subseteq Keys /\ (Fault \/ NoFault)
<1> DEFINE k == matchKey(c)
           R == Rungs(Db({}), Rules({}), c)
<1>1. m \in Match /\ ("project" \notin failed => Right(k, m))
  BY Resolves
<1>2. (Fault \/ NoFault) /\ missed' = missed \cup IF "project" \in failed THEN {k} ELSE {}
  BY DEF Lookup
<1>3. /\ R[1][1] = "fbpn" /\ R[2] = <<"project", ProjectMatch(Rules({}), k)>>
      /\ R[3][1] = "mpn" /\ R[4][1] = "supplier" /\ R[5][1] = "value_footprint" /\ R[6][1] = "tag"
      /\ Len(R) = 6
  BY DEF Rungs
<1>4. failed \in {{R[j][1] : j \in {j \in 1 .. i : R[j][2] # {}}} : i \in 0 .. Len(R)}
  BY DEF Failing
<1> HIDE DEF R
<1>5. ASSUME "project" \in failed
      PROVE  k \in Keys
  <2>1. PICK i \in 0 .. 6 : failed = {R[j][1] : j \in {j \in 1 .. i : R[j][2] # {}}}
    BY <1>3, <1>4
  <2>2. PICK j \in 1 .. i : R[j][2] # {} /\ R[j][1] = "project"
    BY <1>5, <2>1
  <2>3. j \in {1, 2, 3, 4, 5, 6}
    OBVIOUS
  <2>4. j = 2
    BY <1>3, <2>2, <2>3
  <2>5. ProjectMatch(Rules({}), k) # {}
    BY <1>3, <2>2, <2>4
  <2> QED
    BY <2>5 DEF ProjectMatch, Rules
<1>6. missed' \subseteq Keys
  BY <1>2, <1>5 DEF Tables
<1>7. Right(k, m)' <=> Right(k, m)
  BY DEF Right
<1> QED
  BY <1>1, <1>2, <1>6, <1>7 DEF Fine

-----------------------------------------------------------------------------
\* Requests begin, and go on.

\* An upload of a file is read.
LEMMA BeginImportSafe ==
  ASSUME Safe, NEW p \in Procs, BeginImport(p)
  PROVE  Safe'
<1>1. PICK f \in Files : proc' = [proc EXCEPT ![p] = [NoProc EXCEPT
           !.pc = "board", !.file = f.lines, !.panel = f.panel, !.iboms = f.iboms]]
  BY DEF BeginImport
<1> DEFINE r == [NoProc EXCEPT !.pc = "board", !.file = f.lines, !.panel = f.panel, !.iboms = f.iboms]
<1>0. f.lines \in Seq(Contents) /\ f.panel \in BOOLEAN /\ f.iboms \in Nat
  BY FilesAssumption
<1>2. r \in Proc /\ r.pc = "board" /\ r.board = NoBoard /\ r.todo = [l \in {} |-> NoRow] /\ r.matched = <<>>
  BY <1>0, Rows DEF Proc, Stages
<1>3. proc' = [proc EXCEPT ![p] = r]
  BY <1>1
<1> HIDE DEF r
<1>4. Staged(r) /\ Held(r)
  BY <1>2 DEF Staged, Held, Covering
<1>5. /\ UNCHANGED <<part, board, line, rule, asset, cover, torn>> /\ AtPc(p, "idle")
      /\ NoFault /\ missed' = missed /\ missed \subseteq Keys
  BY DEF BeginImport, AssetsUnchanged, Safe, TypesInv, Tables, NoFault
<1>6. \A b \in Boards : ~Attaches(r, b) /\ r.board # b
  BY <1>2, NoneAssumption DEF Attaches
<1>7. \A l \in Lines : ~Comes(proc[p], l)
  BY <1>5 DEF Comes, AtPc
<1> QED
  BY <1>2, <1>3, <1>4, <1>5, <1>6, <1>7, Goes DEF AtPc, Covering

\* A line, new or there, is said anew.
LEMMA BeginLineSafe ==
  ASSUME Safe, NEW p \in Procs, BeginLine(p)
  PROVE  Safe'
<1>1. PICK c \in Contents, g \in Given, b \in LiveBoards, l \in Lines \cup {NoLine} :
           proc' = [proc EXCEPT ![p] = [NoProc EXCEPT
               !.pc = IF g = "auto" THEN "resolve" ELSE "rule",
               !.board = b, !.content = c, !.given = g, !.line = l]]
  BY DEF BeginLine, LiveLines
<1> DEFINE pc == IF g = "auto" THEN "resolve" ELSE "rule"
           r == [NoProc EXCEPT !.pc = pc, !.board = b, !.content = c, !.given = g, !.line = l]
<1>0. /\ pc \in Stages /\ b \in Boards
      /\ (pc = "resolve" \/ pc = "rule") /\ (pc = "rule" => g # "auto")
  BY DEF Stages, LiveBoards
<1>3. proc' = [proc EXCEPT ![p] = r]
  BY <1>1
<1> HIDE DEF pc
<1>2. /\ r \in Proc /\ r.pc = pc /\ r.board = b
      /\ r.todo = [x \in {} |-> NoRow] /\ r.content = c /\ r.given = g /\ r.changed = FALSE
  BY <1>0, Rows DEF Proc
<1> HIDE DEF r
<1>4. Staged(r) /\ Held(r)
  BY <1>0, <1>2 DEF Staged, Held, Covering, Given
<1>5. /\ UNCHANGED <<part, board, line, rule, asset, cover, torn>> /\ AtPc(p, "idle")
      /\ NoFault /\ missed' = missed /\ missed \subseteq Keys
  BY DEF BeginLine, AssetsUnchanged, Safe, TypesInv, Tables, NoFault
<1>6. \A o \in Boards : ~Attaches(r, o) /\ (r.board = o => board[o] # "unused")
  BY <1>0, <1>2 DEF Attaches, LiveBoards
<1>7. \A o \in Lines : ~Comes(proc[p], o)
  BY <1>5 DEF Comes, AtPc
<1> QED
  BY <1>0, <1>2, <1>3, <1>4, <1>5, <1>6, <1>7, Goes DEF AtPc, Covering

\* A rule is about to be set.
LEMMA BeginSetProjectMatchSafe ==
  ASSUME Safe, NEW p \in Procs, BeginSetProjectMatch(p)
  PROVE  Safe'
<1>1. PICK c \in Contents, q \in Parts :
          /\ matchKey(c) # <<>>
          /\ proc' = [proc EXCEPT ![p] = [NoProc EXCEPT !.pc = "setmatch", !.content = c, !.given = q]]
  BY DEF BeginSetProjectMatch
<1> DEFINE r == [NoProc EXCEPT !.pc = "setmatch", !.content = c, !.given = q]
<1>2. /\ r \in Proc /\ r.pc = "setmatch" /\ r.board = NoBoard /\ r.content = c /\ r.given = q
      /\ r.todo = [x \in {} |-> NoRow]
  BY Rows DEF Proc, Stages, Given
<1>3. proc' = [proc EXCEPT ![p] = r]
  BY <1>1
<1> HIDE DEF r
<1>4. Staged(r) /\ Held(r)
  BY <1>1, <1>2 DEF Staged, Held, Covering
<1>5. /\ UNCHANGED <<part, board, line, rule, asset, cover, torn>> /\ AtPc(p, "idle")
      /\ NoFault /\ missed' = missed /\ missed \subseteq Keys
  BY DEF BeginSetProjectMatch, AssetsUnchanged, Safe, TypesInv, Tables, NoFault
<1>6. \A o \in Boards : ~Attaches(r, o) /\ r.board # o
  BY <1>2, NoneAssumption DEF Attaches
<1>7. \A o \in Lines : ~Comes(proc[p], o)
  BY <1>5 DEF Comes, AtPc
<1> QED
  BY <1>2, <1>3, <1>4, <1>5, <1>6, <1>7, Goes DEF AtPc, Covering

\* A board gets another interactive BOM.
LEMMA BeginUploadBoardAssetSafe ==
  ASSUME Safe, NEW p \in Procs, BeginUploadBoardAsset(p)
  PROVE  Safe'
<1>1. PICK b \in LiveBoards : proc' = [proc EXCEPT ![p] = [NoProc EXCEPT !.pc = "clear", !.board = b]]
  BY DEF BeginUploadBoardAsset
<1> DEFINE r == [NoProc EXCEPT !.pc = "clear", !.board = b]
<1>2. r \in Proc /\ r.pc = "clear" /\ r.board = b /\ r.todo = [x \in {} |-> NoRow]
  BY Rows DEF Proc, Stages, LiveBoards
<1>3. proc' = [proc EXCEPT ![p] = r]
  BY <1>1
<1> HIDE DEF r
<1>4. Staged(r) /\ Held(r)
  BY <1>2 DEF Staged, Held, Covering, LiveBoards
<1>5. /\ UNCHANGED <<part, board, line, rule, asset, cover, torn>> /\ AtPc(p, "idle")
      /\ NoFault /\ missed' = missed /\ missed \subseteq Keys
  BY DEF BeginUploadBoardAsset, AssetsUnchanged, Safe, TypesInv, Tables, NoFault
<1>6. \A o \in Boards : ~Attaches(r, o) /\ (r.board = o => board[o] # "unused")
  BY <1>2 DEF Attaches, LiveBoards
<1>7. \A o \in Lines : ~Comes(proc[p], o)
  BY <1>5 DEF Comes, AtPc
<1> QED
  BY <1>2, <1>3, <1>4, <1>5, <1>6, <1>7, Goes DEF AtPc, Covering

\* A line of an import is matched.
LEMMA MatchLineSafe ==
  ASSUME Safe, NEW p \in Procs, MatchLine(p)
  PROVE  Safe'
<1>1. PICK z \in Proc : z = proc[p] /\ Staged(z) /\ Held(z)
  BY DEF Safe, TypesInv, Requests, RulesInv
<1>2. PICK c : c = z.file[Len(z.matched) + 1]
  OBVIOUS
<1>3. PICK failed \in Failing(c) :
          /\ Lookup(c, failed)
          /\ \E m \in Resolve(c, failed) : proc' = [proc EXCEPT ![p].matched = Append(@, m)]
  BY <1>1, <1>2 DEF MatchLine
<1>4. PICK m \in Resolve(c, failed) : proc' = [proc EXCEPT ![p].matched = Append(@, m)]
  BY <1>3
<1> DEFINE r == [z EXCEPT !.matched = Append(z.matched, m)]
<1>5. UNCHANGED <<part, board, line, rule, asset, cover, torn>>
  BY DEF MatchLine, AssetsUnchanged
<1>6. /\ m \in Match /\ Fine(matchKey(c), m)'
      /\ missed \subseteq missed' /\ missed' \subseteq Keys /\ (Fault \/ NoFault)
  BY <1>3, <1>5, LookedUp DEF Safe, TypesInv
<1>7. z.matched \in Seq(Match) /\ Append(z.matched, m) \in Seq(Match) /\ z.file \in Seq(Contents)
  BY <1>6, Fields
<1>8. /\ r \in Proc /\ r.pc = z.pc /\ r.board = z.board /\ r.iboms = z.iboms /\ r.content = z.content
      /\ r.match = z.match /\ r.boards = z.boards /\ r.todo = z.todo /\ r.file = z.file
      /\ r.changed = z.changed /\ r.line = z.line
      /\ r.matched = Append(z.matched, m)
  BY <1>7 DEF Proc
<1>9. proc' = [proc EXCEPT ![p] = r]
  BY <1>1, <1>4 DEF Safe, TypesInv, Requests
<1> HIDE DEF r
<1>10. z.pc = "match" /\ Len(z.matched) < Len(z.file)
  BY <1>1 DEF MatchLine, AtPc
<1>11. Staged(r)
  BY <1>1, <1>7, <1>8, <1>10 DEF Staged, Covering
<1>12. Held(r)'
  <2>1. ASSUME NEW i \in DOMAIN r.matched
        PROVE  Fine(matchKey(r.file[i]), r.matched[i])'
    <3>1. CASE i \in DOMAIN z.matched
      <4>1. Fine(matchKey(z.file[i]), z.matched[i])
        BY <1>1, <1>10, <3>1 DEF Held
      <4>2. Fine(matchKey(z.file[i]), z.matched[i])'
        BY <1>5, <1>6, <4>1, NotesStay
      <4>3. r.file[i] = z.file[i] /\ r.matched[i] = z.matched[i]
        BY <1>7, <1>8, <3>1
      <4> QED
        BY <4>2, <4>3
    <3>2. CASE i = Len(z.matched) + 1
      <4>1. r.file[i] = c /\ r.matched[i] = m
        BY <1>2, <1>7, <1>8, <3>2
      <4> QED
        BY <1>6, <4>1
    <3> QED
      BY <1>7, <1>8, <3>1, <3>2
  <2>2. \A l \in DOMAIN r.todo : Agrees(r.todo[l].content, l)'
    BY <1>1, <1>5, <1>6, <1>8, NotesStay DEF Held
  <2> QED
    BY <1>8, <1>10, <2>1, <2>2 DEF Held
<1>13. \A o \in Boards : Attaches(r, o) => Attaches(proc[p], o)
  BY <1>1, <1>8 DEF Attaches
<1>14. \A o \in Lines : ~Comes(proc[p], o)
  BY <1>1, <1>10 DEF Comes
<1> QED
  BY <1>1, <1>5, <1>6, <1>8, <1>9, <1>10, <1>11, <1>12, <1>13, <1>14, Goes DEF Covering

\* A line of a request is matched.
LEMMA ResolveLineSafe ==
  ASSUME Safe, NEW p \in Procs, ResolveLine(p)
  PROVE  Safe'
<1>1. PICK z \in Proc : z = proc[p] /\ Staged(z) /\ Held(z)
  BY DEF Safe, TypesInv, Requests, RulesInv
<1>2. PICK failed \in Failing(z.content) :
          /\ Lookup(z.content, failed)
          /\ \E m \in Resolve(z.content, failed) : proc' = [proc EXCEPT ![p].pc = "write", ![p].match = m]
  BY <1>1 DEF ResolveLine
<1>3. PICK m \in Resolve(z.content, failed) : proc' = [proc EXCEPT ![p].pc = "write", ![p].match = m]
  BY <1>2
<1> DEFINE r == [z EXCEPT !.pc = "write", !.match = m]
<1>4. UNCHANGED <<part, board, line, rule, asset, cover, torn>>
  BY DEF ResolveLine, AssetsUnchanged
<1>5. /\ m \in Match /\ Fine(matchKey(z.content), m)'
      /\ missed \subseteq missed' /\ missed' \subseteq Keys /\ (Fault \/ NoFault)
  BY <1>2, <1>4, LookedUp DEF Safe, TypesInv
<1>6. /\ r \in Proc /\ r.pc = "write" /\ r.board = z.board /\ r.content = z.content
      /\ r.match = m /\ r.todo = z.todo /\ r.changed = z.changed
  BY <1>5 DEF Proc, Stages
<1>7. proc' = [proc EXCEPT ![p] = r]
  BY <1>1, <1>3 DEF Safe, TypesInv, Requests
<1> HIDE DEF r
<1>8. z.pc = "resolve"
  BY <1>1 DEF ResolveLine, AtPc
<1>9. Staged(r)
  BY <1>1, <1>5, <1>6, <1>8 DEF Staged, Covering
<1>10. Held(r)'
  <2>1. \A l \in DOMAIN r.todo : Agrees(r.todo[l].content, l)'
    BY <1>1, <1>4, <1>5, <1>6, NotesStay DEF Held
  <2> QED
    BY <1>5, <1>6, <2>1 DEF Held
<1>11. \A o \in Boards : ~Attaches(r, o) /\ (r.board = o => proc[p].board = o)
  BY <1>1, <1>6 DEF Attaches
<1>12. \A o \in Lines : Comes(proc[p], o) => Comes(r, o)
  BY <1>1, <1>6, <1>8 DEF Comes
<1> QED
  BY <1>1, <1>4, <1>5, <1>6, <1>7, <1>8, <1>9, <1>10, <1>11, <1>12, Goes DEF Covering

-----------------------------------------------------------------------------
\* rematchProject reads.

\* The boards there are are taken down, or the request gives up.
LEMMA ListBoardsSafe ==
  ASSUME Safe, NEW p \in Procs, ListBoards(p)
  PROVE  Safe'
<1>1. PICK z \in Proc : z = proc[p] /\ Staged(z) /\ Held(z)
  BY DEF Safe, TypesInv, Requests, RulesInv
<1>2. z.pc = "boards" /\ z.changed /\ missed \subseteq Keys
  BY <1>1 DEF ListBoards, AtPc, Staged, Safe, TypesInv, Tables
<1>3. UNCHANGED <<part, board, line, rule, asset, cover, torn>>
  BY DEF ListBoards, AssetsUnchanged
<1>4. CASE /\ NoFault /\ UNCHANGED missed
           /\ proc' = [proc EXCEPT ![p].pc = "lines", ![p].boards = LiveBoards]
  <2> DEFINE r == [z EXCEPT !.pc = "lines", !.boards = LiveBoards]
  <2>1. LiveBoards \in SUBSET Boards
    BY DEF LiveBoards
  <2>2. /\ r \in Proc /\ r.pc = "lines" /\ r.board = z.board /\ r.todo = z.todo /\ r.changed = z.changed
        /\ r.boards = LiveBoards
    BY <2>1 DEF Proc, Stages
  <2>3. proc' = [proc EXCEPT ![p] = r]
    BY <1>1, <1>4 DEF Safe, TypesInv, Requests
  <2> HIDE DEF r
  <2>4. Staged(r) /\ Held(r)
    BY <1>1, <1>2, <2>2 DEF Staged, Held, Covering
  <2>5. \A o \in Boards : ~Attaches(r, o) /\ (r.board = o => proc[p].board = o)
    BY <1>1, <2>2 DEF Attaches
  <2>6. \A o \in Lines : line[o].state = "live" => Comes(r, o)
    BY <1>2, <2>2 DEF Comes, LiveBoards, Safe, TypesInv, References
  <2> QED
    BY <1>1, <1>2, <1>3, <1>4, <2>2, <2>3, <2>4, <2>5, <2>6, Goes DEF Covering
<1>5. CASE Fault /\ GivesUp(p) /\ Finish(p)
  <2>1. missed' = Keys
    BY <1>1, <1>2, <1>5 DEF GivesUp
  <2>2. Held(Done) /\ \A b \in Boards : ~Attaches(Done, b) /\ Done.board # b
    BY Rows, NoneAssumption DEF Held, Attaches
  <2> QED
    BY <1>1, <1>2, <1>3, <1>5, <2>1, <2>2, Rows, Goes DEF Finish, Covering
<1> QED
  BY <1>4, <1>5 DEF ListBoards

\* The lines of the next board are read, or the request misses them and goes on.
LEMMA ListLinesSafe ==
  ASSUME Safe, NEW p \in Procs, ListLines(p)
  PROVE  Safe'
<1>1. PICK z \in Proc : z = proc[p] /\ Staged(z) /\ Held(z)
  BY DEF Safe, TypesInv, Requests, RulesInv
<1>2. z.pc = "lines" /\ z.changed /\ missed \subseteq Keys
  BY <1>1 DEF ListLines, AtPc, Staged, Safe, TypesInv, Tables
<1>3. UNCHANGED <<part, board, line, rule, asset, cover, torn>>
  BY DEF ListLines, AssetsUnchanged
<1>4. CASE z.boards = {} /\ NoFault /\ UNCHANGED missed /\ Finish(p)
  <2>1. \A l \in Lines : ~Comes(proc[p], l)
    BY <1>1, <1>2, <1>4 DEF Comes
  <2>2. Held(Done) /\ \A b \in Boards : ~Attaches(Done, b) /\ Done.board # b
    BY Rows, NoneAssumption DEF Held, Attaches
  <2> QED
    BY <1>1, <1>2, <1>3, <1>4, <2>1, <2>2, Rows, Goes DEF Finish, Covering
<1>5. ASSUME NEW b \in z.boards, NoFault, UNCHANGED missed,
             proc' = [proc EXCEPT ![p].pc = "rematch", ![p].boards = @ \ {b},
                                  ![p].todo = [l \in LiveLines(b) |-> line[l]]]
      PROVE  Safe'
  <2> DEFINE todo == [l \in LiveLines(b) |-> line[l]]
             r == [z EXCEPT !.pc = "rematch", !.boards = z.boards \ {b}, !.todo = todo]
  <2>1. LiveLines(b) \in SUBSET Lines /\ line \in [Lines -> Line]
    BY DEF LiveLines, Safe, TypesInv, Tables
  <2>2. /\ todo \in Copies /\ DOMAIN todo = LiveLines(b) /\ \A l \in LiveLines(b) : todo[l] = line[l]
        /\ z.boards \ {b} \in SUBSET Boards
    BY <2>1, Fields DEF Copies
  <2>3. proc' = [proc EXCEPT ![p] = r]
    BY <1>1, <1>5 DEF Safe, TypesInv, Requests
  <2> HIDE DEF todo
  <2>4. /\ r \in Proc /\ r.pc = "rematch" /\ r.board = z.board /\ r.todo = todo /\ r.changed = z.changed
        /\ r.boards = z.boards \ {b}
    BY <2>2 DEF Proc, Stages
  <2> HIDE DEF r
  <2>5. \A l \in LiveLines(b) : line[l].content \in Contents /\ line[l].state = "live"
    BY DEF LiveLines, Safe, TypesInv, References
  <2>6. Staged(r)
    BY <1>1, <1>2, <2>2, <2>4, <2>5 DEF Staged, Covering
  <2>7. Held(r)
    BY <2>2, <2>4, <2>5 DEF Held, Agrees
  <2>8. \A o \in Boards : ~Attaches(r, o) /\ (r.board = o => proc[p].board = o)
    BY <1>1, <2>4 DEF Attaches
  <2>9. \A l \in Lines : line[l].state = "live" /\ Comes(proc[p], l) => Comes(r, l)
    BY <1>1, <1>2, <2>2, <2>4 DEF Comes, LiveLines
  <2> QED
    BY <1>1, <1>2, <1>3, <1>5, <2>3, <2>4, <2>6, <2>7, <2>8, <2>9, Goes DEF Covering
<1>6. ASSUME NEW b \in z.boards, Fault, GivesUp(p), proc' = [proc EXCEPT ![p].boards = @ \ {b}]
      PROVE  Safe'
  <2> DEFINE r == [z EXCEPT !.boards = z.boards \ {b}]
  <2>1. missed' = Keys
    BY <1>1, <1>2, <1>6 DEF GivesUp
  <2>2. z.boards \ {b} \in SUBSET Boards
    BY Fields
  <2>3. proc' = [proc EXCEPT ![p] = r]
    BY <1>1, <1>6 DEF Safe, TypesInv, Requests
  <2>4. /\ r \in Proc /\ r.pc = "lines" /\ r.board = z.board /\ r.todo = z.todo /\ r.changed = z.changed
    BY <1>2, <2>2 DEF Proc
  <2> HIDE DEF r
  <2>5. Staged(r) /\ Held(r)
    BY <1>1, <1>2, <2>4 DEF Staged, Held, Covering
  <2>6. \A o \in Boards : ~Attaches(r, o) /\ (r.board = o => proc[p].board = o)
    BY <1>1, <2>4 DEF Attaches
  <2> QED
    BY <1>1, <1>2, <1>3, <1>6, <2>1, <2>3, <2>4, <2>5, <2>6, Goes DEF Covering
<1> QED
  BY <1>1, <1>4, <1>5, <1>6 DEF ListLines

\* One of the lines that were read is matched anew. What is right already is left alone.
LEMMA RematchSafe ==
  ASSUME Safe, NEW p \in Procs, Rematch(p)
  PROVE  Safe'
<1>1. PICK z \in Proc : z = proc[p] /\ Staged(z) /\ Held(z)
  BY DEF Safe, TypesInv, Requests, RulesInv
<1>2. z.pc = "rematch" /\ z.changed /\ missed \subseteq Keys
  BY <1>1 DEF Rematch, AtPc, Staged, Safe, TypesInv, Tables
<1>3. UNCHANGED <<part, board, line, rule, asset, cover, torn>>
  BY DEF Rematch, AssetsUnchanged
<1>4. CASE DOMAIN z.todo = {} /\ Goto(p, "lines") /\ NoFault /\ UNCHANGED missed
  <2> DEFINE r == [z EXCEPT !.pc = "lines"]
  <2>1. r \in Proc /\ r.pc = "lines" /\ r.board = z.board /\ r.todo = z.todo /\ r.changed = z.changed
        /\ r.boards = z.boards
    BY DEF Proc, Stages
  <2>2. proc' = [proc EXCEPT ![p] = r]
    BY <1>1, <1>4 DEF Goto, Safe, TypesInv, Requests
  <2> HIDE DEF r
  <2>3. Staged(r) /\ Held(r)
    BY <1>1, <1>2, <2>1 DEF Staged, Held, Covering
  <2>4. \A o \in Boards : ~Attaches(r, o) /\ (r.board = o => proc[p].board = o)
    BY <1>1, <2>1 DEF Attaches
  <2>5. \A l \in Lines : Comes(proc[p], l) => Comes(r, l)
    BY <1>1, <1>2, <1>4, <2>1 DEF Comes
  <2> QED
    BY <1>1, <1>2, <1>3, <1>4, <2>1, <2>2, <2>3, <2>4, <2>5, Goes DEF Covering
<1>5. ASSUME NEW l \in DOMAIN z.todo, NEW failed \in Failing(z.todo[l].content),
             Lookup(z.todo[l].content, failed), NEW m \in Resolve(z.todo[l].content, failed),
             proc' = [proc EXCEPT ![p].pc = IF Same(m, z.todo[l]) THEN "rematch" ELSE "set",
                                  ![p].line = l, ![p].match = m,
                                  ![p].todo = [o \in DOMAIN z.todo \ {l} |-> z.todo[o]],
                                  ![p].content = z.todo[l].content]
      PROVE  Safe'
  <2> DEFINE pc == IF Same(m, z.todo[l]) THEN "rematch" ELSE "set"
             c == z.todo[l].content
             rest == [o \in DOMAIN z.todo \ {l} |-> z.todo[o]]
             r == [z EXCEPT !.pc = pc, !.line = l, !.match = m, !.todo = rest, !.content = c]
  <2>1. /\ pc \in Stages /\ (pc = "rematch" \/ pc = "set") /\ (pc = "rematch" => m = z.todo[l].match)
    BY DEF Stages, Same
  <2>2. z.todo \in [DOMAIN z.todo -> Line] /\ DOMAIN z.todo \subseteq Lines /\ z.todo \in Copies
    BY DEF Proc, Copies
  <2>3. /\ rest \in Copies /\ DOMAIN rest = DOMAIN z.todo \ {l}
        /\ \A o \in DOMAIN rest : rest[o] = z.todo[o]
    BY <2>2 DEF Copies
  <2>4. /\ c \in Contents /\ l \in Lines /\ m \in Match /\ Agrees(c, l)
        /\ (Right(matchKey(c), m) \/ matchKey(c) \in missed') /\ Fine(matchKey(c), m)'
        /\ missed \subseteq missed' /\ missed' \subseteq Keys /\ (Fault \/ NoFault)
    BY <1>1, <1>3, <1>5, <2>2, LookedUp DEF Staged, Held, Safe, TypesInv
  <2>5. proc' = [proc EXCEPT ![p] = r]
    BY <1>1, <1>5 DEF Safe, TypesInv, Requests
  <2> HIDE DEF pc, rest, c
  <2>6. /\ r \in Proc /\ r.pc = pc /\ r.board = z.board /\ r.todo = rest /\ r.changed = z.changed
        /\ r.boards = z.boards /\ r.line = l /\ r.match = m /\ r.content = c
    BY <2>1, <2>3, <2>4 DEF Proc
  <2> HIDE DEF r
  <2>7. Staged(r)
    BY <1>1, <1>2, <2>1, <2>3, <2>4, <2>6 DEF Staged, Covering
  <2>8. Held(r)'
    <3>1. \A x \in DOMAIN r.todo : Agrees(r.todo[x].content, x)'
      BY <1>1, <1>3, <2>3, <2>4, <2>6, NotesStay DEF Held
    <3>2. Agrees(c, l)'
      BY <1>3, <2>4, NotesStay
    <3> QED
      BY <2>1, <2>4, <2>6, <3>1, <3>2 DEF Held
  <2>9. \A o \in Boards : ~Attaches(r, o) /\ (r.board = o => proc[p].board = o)
    BY <1>1, <2>1, <2>6 DEF Attaches
  <2>10. ASSUME NEW o \in Lines, Comes(proc[p], o)
         PROVE  \/ Comes(r, o) \/ matchKey(line[o].content) \in missed'
                \/ Right(matchKey(line[o].content), line[o].match)
    <3>1. CASE line[o].board \in z.boards
      BY <1>2, <2>1, <2>6, <3>1 DEF Comes
    <3>2. CASE o \in DOMAIN z.todo /\ z.todo[o] = line[o] /\ o # l
      BY <1>2, <2>1, <2>3, <2>6, <3>2 DEF Comes
    <3>3. CASE o = l /\ pc = "set"
      BY <1>2, <2>6, <3>3 DEF Comes
    <3>4. CASE o = l /\ z.todo[l] = line[l] /\ pc = "rematch"
      BY <2>1, <2>4, <3>4 DEF c
    <3> QED
      BY <1>1, <1>2, <2>1, <2>10, <3>1, <3>2, <3>3, <3>4 DEF Comes
  <2> QED
    BY <1>1, <1>2, <1>3, <2>1, <2>4, <2>5, <2>6, <2>7, <2>8, <2>9, <2>10, Goes DEF Covering
<1>6. CASE ~(DOMAIN z.todo = {} /\ Goto(p, "lines") /\ NoFault /\ UNCHANGED missed)
  <2>1. PICK l \in DOMAIN proc[p].todo : \E failed \in Failing(proc[p].todo[l].content) :
             /\ Lookup(proc[p].todo[l].content, failed)
             /\ \E m \in Resolve(proc[p].todo[l].content, failed) :
                proc' = [proc EXCEPT ![p].pc = IF Same(m, proc[p].todo[l]) THEN "rematch" ELSE "set",
                                     ![p].line = l, ![p].match = m,
                                     ![p].todo = [o \in DOMAIN proc[p].todo \ {l} |-> proc[p].todo[o]],
                                     ![p].content = proc[p].todo[l].content]
    BY <1>1, <1>6 DEF Rematch
  <2>2. PICK failed \in Failing(z.todo[l].content) :
             /\ Lookup(z.todo[l].content, failed)
             /\ \E m \in Resolve(z.todo[l].content, failed) :
                proc' = [proc EXCEPT ![p].pc = IF Same(m, z.todo[l]) THEN "rematch" ELSE "set",
                                     ![p].line = l, ![p].match = m,
                                     ![p].todo = [o \in DOMAIN z.todo \ {l} |-> z.todo[o]],
                                     ![p].content = z.todo[l].content]
    BY <1>1, <2>1
  <2>3. PICK m \in Resolve(z.todo[l].content, failed) :
                proc' = [proc EXCEPT ![p].pc = IF Same(m, z.todo[l]) THEN "rematch" ELSE "set",
                                     ![p].line = l, ![p].match = m,
                                     ![p].todo = [o \in DOMAIN z.todo \ {l} |-> z.todo[o]],
                                     ![p].content = z.todo[l].content]
    BY <2>2
  <2>4. Lookup(z.todo[l].content, failed)
    BY <2>2
  <2>5. l \in DOMAIN z.todo
    BY <1>1
  <2> QED
    BY ONLY <1>5, <2>3, <2>4, <2>5
<1> QED
  BY <1>4, <1>6

-----------------------------------------------------------------------------
\* Rules are written.

\* A request writes the rule of an identity, or removes it, and has the rematch before
\* it. Others that hold a match of that identity are noted.
LEMMA RuleWritten ==
  ASSUME TypesInv, RulesInv, NEW p \in Procs, NEW r \in Proc, proc' = [proc EXCEPT ![p] = r],
         NEW k \in Keys, NEW q \in part \cup {NoPart},
         rule' = Upserted(k, q), Race(p, k), UNCHANGED <<part, line>>,
         r.pc \in {"resolve", "write", "boards"}, r.changed,
         proc[p].pc \in {"rule", "setmatch"}, r.todo = proc[p].todo
  PROVE  RulesInv'
<1>1. proc'[p] = r /\ \A o \in Procs : o # p => proc'[o] = proc[o]
  BY DEF TypesInv, Requests
<1>2. /\ \A x \in Keys : x # k => rule'[x] = rule[x]
      /\ \A x, m : x # k => (Right(x, m)' <=> Right(x, m))
  <2>1. DOMAIN rule = Keys
    BY DEF TypesInv, Tables
  <2>2. \A x \in Keys : x # k => rule'[x] = rule[x]
    BY <2>1 DEF Upserted
  <2> QED
    BY <2>2 DEF Right
<1>3. missed \subseteq missed' /\ (Holding(k) \ {p} # {} => k \in missed')
  BY DEF Race
<1>4. /\ \A x, m : x # k => (Fine(x, m) => Fine(x, m)')
      /\ k \in missed' => \A m : Fine(k, m)'
      /\ \A x : Excused(x) => Excused(x)'
  BY <1>2, <1>3 DEF Fine, Excused
<1>5. \A c : \A l \in Lines : Agrees(c, l) => Agrees(c, l)'
  BY <1>4 DEF Agrees
<1>6. ASSUME NEW o \in Procs
      PROVE  Held(proc[o])'
  <2>1. PICK z \in Proc : z = proc[o] /\ Staged(z) /\ Held(z)
    BY DEF TypesInv, Requests, RulesInv
  <2>2. \A l \in DOMAIN z.todo : Agrees(z.todo[l].content, l)'
    <3>1. \A l \in DOMAIN z.todo : l \in Lines
      BY DEF Proc, Copies
    <3> QED
      BY <1>5, <2>1, <3>1 DEF Held
  <2>3. CASE o = p
    <3>1. Held(r)'
      BY <2>1, <2>2, <2>3 DEF Held
    <3> QED
      BY <1>1, <2>3, <3>1 DEF Held, Agrees, Fine, Right, Excused
  <2>4. CASE o # p
    <3>1. /\ z.pc \in {"write", "set"} /\ matchKey(z.content) = k => k \in missed'
          /\ z.pc \in {"match", "panel", "panelstore"} =>
                 \A i \in DOMAIN z.matched : matchKey(z.file[i]) = k => k \in missed'
      BY <1>3, <2>1, <2>4 DEF Holding, Key
    <3>2. z.pc = "write" => z.changed \/ Fine(matchKey(z.content), z.match)'
      BY <1>4, <2>1, <3>1 DEF Held
    <3>3. z.pc = "set" => Fine(matchKey(z.content), z.match)' /\ Agrees(z.content, z.line)'
      BY <1>4, <1>5, <2>1, <3>1 DEF Held, Staged
    <3>4. z.pc \in {"match", "panel", "panelstore"} =>
              \A i \in DOMAIN z.matched : Fine(matchKey(z.file[i]), z.matched[i])'
      BY <1>4, <2>1, <3>1 DEF Held
    <3>5. Held(z)'
      BY <2>2, <3>2, <3>3, <3>4 DEF Held
    <3>6. z = proc'[o]
      BY <1>1, <2>1, <2>4
    <3> QED
      BY <3>5, <3>6 DEF Held, Agrees, Fine, Right, Excused
  <2> QED
    BY <2>3, <2>4
<1>7. ASSUME NEW l \in Lines
      PROVE  Reached(l)'
  <2>1. PICK x, m : x = matchKey(line[l].content) /\ m = line[l].match
    OBVIOUS
  <2>2. x = matchKey(line'[l].content) /\ m = line'[l].match
    BY <2>1
  <2>3. Comes(r, l)
    BY DEF Comes
  <2>4. Comes(proc[p], l)'
    BY <1>1, <2>3 DEF Comes
  <2>5. line[l].state = "live" => m.part = NoPart \/ Excused(x) \/ Right(x, m) \/ x # <<>>
    BY <2>1 DEF RulesInv, Reached
  <2>6. k # <<>>
    BY DEF Keys
  <2>7. line[l].state = "live" => m.part = NoPart \/ Excused(x)' \/ Right(x, m)' \/ x # <<>>
    BY <1>2, <1>4, <2>5, <2>6
  <2> QED
    BY <2>2, <2>4, <2>7 DEF Reached
<1> QED
  BY <1>6, <1>7 DEF RulesInv

\* The types of a step that writes a rule.
LEMMA RuleTypes ==
  ASSUME TypesInv, NEW p \in Procs, NEW r \in Proc, Staged(r), proc' = [proc EXCEPT ![p] = r],
         NEW k \in Keys, NEW q \in part \cup {NoPart}, rule' = Upserted(k, q), Race(p, k),
         UNCHANGED <<part, board, line, asset, cover, torn>>, NoFault
  PROVE  TypesInv'
<1>1. Tables'
  BY DEF TypesInv, Tables, Upserted, Race, NoFault
<1>2. References'
  BY DEF TypesInv, References, Upserted, Tables
<1>3. Requests'
  BY RowStep DEF TypesInv
<1> QED
  BY <1>1, <1>2, <1>3 DEF TypesInv

\* A pin is applied: the rule is written or its error dropped, or there is no identity
\* to write it for and the pin is the line's own.
LEMMA ApplyMatchSafe ==
  ASSUME Safe, NEW p \in Procs, ApplyMatch(p)
  PROVE  Safe'
<1>1. PICK z \in Proc : z = proc[p] /\ Staged(z) /\ Held(z)
  BY DEF Safe, TypesInv, Requests, RulesInv
<1> DEFINE k == matchKey(z.content)
           g == z.given
           new == IF g = "none" THEN NoPart ELSE g
           pin == IF g = "none" THEN NoMatch
                  ELSE [part |-> g, kind |-> IF k = <<>> THEN "manual" ELSE "project"]
           pc == IF g = "none" THEN "resolve" ELSE "write"
           r == [z EXCEPT !.pc = pc, !.match = pin, !.changed = k # <<>>]
<1>2. z.pc = "rule" /\ z.content \in Contents /\ (g # "none" => g \in Parts) /\ z.board \in Boards
  BY <1>1 DEF ApplyMatch, AtPc, Staged
<1>3. k # <<>> => k \in Keys
  BY <1>2, Identity
<1>4. pin \in Match /\ (pin.kind # "project" \/ k # <<>>)
  BY <1>2, Rows DEF Match, Kinds, NoMatch
<1>5. pc \in Stages /\ (pc = "resolve" \/ pc = "write")
  BY DEF Stages
<1>6. /\ proc' = [proc EXCEPT ![p] = r]
      /\ \/ k # <<>> /\ new \in part \cup {NoPart} /\ NoFault /\ rule' = Upserted(k, new) /\ Race(p, k)
         \/ k # <<>> /\ (Fault \/ NoFault) /\ UNCHANGED <<rule, missed>>
         \/ k = <<>> /\ NoFault /\ UNCHANGED <<rule, missed>>
  BY <1>1 DEF ApplyMatch, Key, Safe, TypesInv, Requests
<1>7. UNCHANGED <<part, board, line, asset, cover, torn>> /\ missed \subseteq Keys
  BY DEF ApplyMatch, AssetsUnchanged, Safe, TypesInv, Tables
<1> HIDE DEF new, pin, pc
<1>8. /\ r \in Proc /\ r.pc = pc /\ r.board = z.board /\ r.todo = z.todo /\ r.changed = (k # <<>>)
      /\ r.match = pin /\ r.content = z.content
  BY <1>4, <1>5 DEF Proc
<1> HIDE DEF r
<1>9. Staged(r)
  BY <1>1, <1>2, <1>5, <1>8 DEF Staged, Covering
<1>10. \A o \in Boards : ~Attaches(r, o) /\ (r.board = o => proc[p].board = o)
  BY <1>1, <1>5, <1>8 DEF Attaches
<1>11. \A l \in Lines : ~Comes(proc[p], l)
  BY <1>1, <1>2 DEF Comes
<1>12. CASE k # <<>> /\ new \in part \cup {NoPart} /\ NoFault /\ rule' = Upserted(k, new) /\ Race(p, k)
  <2>1. TypesInv'
    BY <1>3, <1>6, <1>7, <1>8, <1>9, <1>12, RuleTypes DEF Safe
  <2>2. Attachments'
    BY <1>1, <1>2, <1>5, <1>6, <1>7, <1>8, <1>10, AttachmentsKeep DEF Safe, TypesInv, Covering
  <2>3. RulesInv'
    BY <1>1, <1>2, <1>3, <1>5, <1>6, <1>7, <1>8, <1>12, RuleWritten DEF Safe
  <2> QED
    BY <2>1, <2>2, <2>3 DEF Safe
<1>13. CASE /\ Fault \/ NoFault
            /\ UNCHANGED <<rule, missed>>
  <2>1. Held(r)
    <3>1. r.pc = "write" => r.changed \/ Fine(matchKey(r.content), r.match)
      <4>1. <<>> \notin Keys
        BY DEF Keys
      <4> QED
        BY <1>4, <1>8, <4>1 DEF Fine, Right
    <3> QED
      BY <1>1, <1>2, <1>5, <1>8, <3>1 DEF Held
  <2> QED
    BY <1>1, <1>2, <1>5, <1>6, <1>7, <1>8, <1>9, <1>10, <1>11, <1>13, <2>1, Goes DEF Covering
<1> QED
  BY <1>6, <1>12, <1>13

\* A rule is set on its own, and the rematch comes.
LEMMA SetProjectMatchSafe ==
  ASSUME Safe, NEW p \in Procs, SetProjectMatch(p)
  PROVE  Safe'
<1>1. PICK z \in Proc : z = proc[p] /\ Staged(z) /\ Held(z)
  BY DEF Safe, TypesInv, Requests, RulesInv
<1> DEFINE k == matchKey(z.content)
           q == z.given
           r == [z EXCEPT !.pc = "boards", !.changed = TRUE]
<1>2. z.pc = "setmatch" /\ k \in Keys
  BY <1>1, Identity DEF SetProjectMatch, AtPc, Staged
<1>3. UNCHANGED <<part, board, line, asset, cover, torn>> /\ missed \subseteq Keys
  BY DEF SetProjectMatch, AssetsUnchanged, Safe, TypesInv, Tables
<1>4. \/ /\ q \in part /\ NoFault /\ rule' = Upserted(k, q) /\ Race(p, k)
         /\ proc' = [proc EXCEPT ![p] = r]
      \/ (Fault \/ NoFault) /\ UNCHANGED <<rule, missed>> /\ Finish(p)
  BY <1>1 DEF SetProjectMatch, Key, Safe, TypesInv, Requests
<1>5. /\ r \in Proc /\ r.pc = "boards" /\ r.board = z.board /\ r.todo = z.todo /\ r.changed
  BY DEF Proc, Stages
<1> HIDE DEF r
<1>6. CASE /\ q \in part /\ NoFault /\ rule' = Upserted(k, q) /\ Race(p, k)
           /\ proc' = [proc EXCEPT ![p] = r]
  <2>1. Staged(r)
    BY <1>1, <1>5 DEF Staged, Covering
  <2>2. \A o \in Boards : ~Attaches(r, o) /\ (r.board = o => proc[p].board = o)
    BY <1>1, <1>5 DEF Attaches
  <2>3. TypesInv'
    BY <1>2, <1>3, <1>5, <1>6, <2>1, RuleTypes DEF Safe
  <2>4. Attachments'
    BY <1>1, <1>2, <1>3, <1>5, <1>6, <2>2, AttachmentsKeep DEF Safe, TypesInv, Covering
  <2>5. RulesInv'
    BY <1>1, <1>2, <1>3, <1>5, <1>6, RuleWritten DEF Safe
  <2> QED
    BY <2>3, <2>4, <2>5 DEF Safe
<1>7. CASE (Fault \/ NoFault) /\ UNCHANGED <<rule, missed>> /\ Finish(p)
  <2>1. \A l \in Lines : ~Comes(proc[p], l)
    BY <1>1, <1>2 DEF Comes
  <2>2. Held(Done) /\ \A b \in Boards : ~Attaches(Done, b) /\ Done.board # b
    BY Rows, NoneAssumption DEF Held, Attaches
  <2> QED
    BY <1>1, <1>2, <1>3, <1>7, <2>1, <2>2, Rows, Goes DEF Finish, Covering
<1> QED
  BY <1>4, <1>6, <1>7

-----------------------------------------------------------------------------
\* Lines are written.

\* A row of a line that may be stored.
Stored(x) ==
    /\ x \in Line
    /\ x.state = "live" => /\ x.content \in Contents
                           /\ board[x.board] = "live" /\ x.board \in Boards
                           /\ x.match.part \in part \cup {NoPart}

\* The lines there are may be stored.
LEMMA Stores ==
  ASSUME TypesInv, NEW l \in Lines
  PROVE  Stored(line[l])
BY DEF TypesInv, Tables, References, Stored

\* The types of a step that changes lines.
LEMMA LinesTypes ==
  ASSUME TypesInv, NEW p \in Procs, NEW r \in Proc, Staged(r), proc' = [proc EXCEPT ![p] = r],
         UNCHANGED <<part, board, rule, asset, cover, torn>>, Fault \/ NoFault, missed' \subseteq Keys,
         NEW f \in [Lines -> Line], line' = f, \A l \in Lines : Stored(f[l])
  PROVE  TypesInv'
<1>1. Tables'
  BY Budget DEF TypesInv, Tables
<1>2. References'
  BY DEF TypesInv, References, Stored
<1>3. Requests'
  BY RowStep DEF TypesInv
<1> QED
  BY <1>1, <1>2, <1>3 DEF TypesInv

\* A line is stored, new or in place of the edited one, and the rematch comes if the rule
\* changed.
LEMMA WriteLineSafe ==
  ASSUME Safe, NEW p \in Procs, WriteLine(p)
  PROVE  Safe'
<1>1. PICK z \in Proc : z = proc[p] /\ Staged(z) /\ Held(z)
  BY DEF Safe, TypesInv, Requests, RulesInv
<1> DEFINE c == z.content
           k == matchKey(c)
           m == z.match
           possible == /\ m.part \in part \cup {NoPart}
                       /\ z.line = NoLine => board[z.board] = "live"
<1>2. /\ z.pc = "write" /\ c \in Contents /\ z.board \in Boards /\ m \in Match
      /\ z.changed => k # <<>>
  BY <1>1 DEF WriteLine, AtPc, Staged, Proc
<1>3. UNCHANGED <<part, board, rule, asset, cover, torn>> /\ missed \subseteq Keys
  BY DEF WriteLine, AssetsUnchanged, Safe, TypesInv, Tables
<1>4. k # <<>> => k \in Keys
  BY <1>2, Identity
<1>5. ASSUME possible, NoFault,
             NEW l \in IF z.line = NoLine THEN Unused(line) ELSE {z.line},
             line' = Written(p, l), Overtaken(l, k),
             IF z.changed THEN Goto(p, "boards") ELSE Finish(p)
      PROVE  Safe'
  <2>1. PICK r \in Proc :
           /\ proc' = [proc EXCEPT ![p] = r] /\ Staged(r) /\ Held(r)
           /\ r.pc \in {"boards", "done"} /\ r.todo \in {z.todo, [x \in {} |-> NoRow]}
           /\ r.board \in {z.board, NoBoard} /\ (z.changed => r.pc = "boards" /\ r.changed)
    <3>1. CASE z.changed
      <4> DEFINE r == [z EXCEPT !.pc = "boards"]
      <4>1. r \in Proc /\ r.pc = "boards" /\ r.board = z.board /\ r.todo = z.todo /\ r.changed = z.changed
        BY DEF Proc, Stages
      <4>2. proc' = [proc EXCEPT ![p] = r]
        BY <1>1, <1>5, <3>1 DEF Goto, Safe, TypesInv, Requests
      <4> HIDE DEF r
      <4>3. Staged(r) /\ Held(r)
        BY <1>1, <3>1, <4>1 DEF Staged, Held, Covering
      <4> QED
        BY <3>1, <4>1, <4>2, <4>3
    <3>2. CASE ~z.changed
      <4>1. Held(Done)
        BY Rows DEF Held
      <4> QED
        BY <1>5, <3>2, <4>1, Rows DEF Finish
    <3> QED
      BY <3>1, <3>2
  <2>2. l \in Lines /\ line \in [Lines -> Line]
    <3>1. line \in [Lines -> Line] /\ z.line \in Lines \cup {NoLine}
      BY DEF Safe, TypesInv, Tables, Proc
    <3> QED
      BY <1>5, <3>1 DEF Unused
  <2> DEFINE row == [state |-> "live", board |-> IF z.line = NoLine THEN z.board ELSE line[l].board,
                     content |-> c, match |-> m]
  <2>3. PICK f \in [Lines -> Line] :
            /\ line' = f /\ (\A x \in Lines \ {l} : f[x] = line[x])
            /\ ((f[l] = line[l] /\ line[l].state # "live") \/ f[l] = row)
            /\ \A x \in Lines : Stored(f[x])
    <3>1. CASE z.line # NoLine /\ line[l].state # "live"
      BY <1>1, <1>5, <2>2, <3>1, Stores DEF Written, Safe
    <3>2. CASE ~(z.line # NoLine /\ line[l].state # "live")
      <4>1. Stored(line[l])
        BY <2>2, Stores DEF Safe
      <4>2. Stored(row)
        BY <1>2, <1>5, <2>2, <3>2, <4>1 DEF Stored, Line
      <4>3. line' = [line EXCEPT ![l] = row]
        BY <1>1, <1>5, <2>2, <3>2 DEF Written
      <4> HIDE DEF row
      <4>4. row \in Line
        BY <4>2 DEF Stored
      <4> QED
        BY <2>2, <4>2, <4>3, <4>4, Stores DEF Safe
    <3> QED
      BY <3>1, <3>2
  <2>4. missed \subseteq missed' /\ missed' \subseteq Keys
    BY <1>3, <1>4, <1>5 DEF Overtaken
  <2>5. TypesInv'
    BY <1>3, <1>5, <2>1, <2>3, <2>4, LinesTypes DEF Safe
  <2>6. Attachments'
    <3>1. \A o \in Boards : ~Attaches(r, o) /\ (r.board = o => proc[p].board = o)
      BY <1>1, <2>1, NoneAssumption DEF Attaches
    <3> QED
      BY <1>1, <1>2, <1>3, <2>1, <3>1, AttachmentsKeep DEF Safe, TypesInv, Covering
  <2>7. RulesInv'
    <3>1. \A x \in Lines \ {l} : line'[x] = line[x]
      BY <2>3
    <3>2. \/ \A y \in Contents : Agrees(y, l) => Agrees(y, l)'
          \/ Reading(l) = {} /\ l \notin DOMAIN r.todo /\ r.pc # "set"
      <4>1. CASE Reading(l) = {}
        <5>1. l \notin DOMAIN z.todo
          BY <1>1, <4>1 DEF Reading
        <5> QED
          BY <2>1, <4>1, <5>1
      <4>2. CASE Reading(l) # {}
        <5>1. k \in missed' \/ (k = <<>> /\ missed' = Keys)
          BY <1>3, <1>5, <4>2 DEF Overtaken
        <5>2. missed' = Keys /\ k = <<>> => Excused(k)' \/ Keys = {}
          BY DEF Excused
        <5>3. k \in missed' => Excused(k)'
          BY DEF Excused
        <5>4. ASSUME NEW y \in Contents, Agrees(y, l)
              PROVE  Agrees(y, l)'
          <6>1. CASE f[l] = line[l] /\ line[l].state # "live"
            BY <2>2, <2>3, <5>4, <6>1 DEF Agrees
          <6>2. CASE f[l] = row
            <7>1. row.state = "live" /\ row.content = c
              OBVIOUS
            <7>2. line'[l] = row
              BY <2>3, <6>2
            <7>3. Keys = {} => matchKey(y) = <<>>
              BY DEF Keys
            <7>4. matchKey(y) = k \/ Excused(k)'
              BY <5>1, <5>2, <5>3, <7>3
            <7> HIDE DEF row
            <7>5. line'[l].state = "live" /\ matchKey(line'[l].content) = k
              BY <7>1, <7>2
            <7> HIDE DEF k, c
            <7> QED
              BY <7>4, <7>5 DEF Agrees
          <6> QED
            BY <2>3, <6>1, <6>2
        <5> QED
          BY <5>4
      <4> QED
        BY <4>1, <4>2
    <3>3. Reached(l)'
      <4>1. CASE f[l] = line[l] /\ line[l].state # "live"
        BY <2>3, <4>1 DEF Reached
      <4>2. CASE f[l] = row
        <5>1. row.match = m /\ row.content = c
          OBVIOUS
        <5>2. line'[l] = row
          BY <2>3, <4>2
        <5> HIDE DEF row
        <5>3. matchKey(line'[l].content) = k /\ line'[l].match = m
          BY <5>1, <5>2
        <5>4. CASE z.changed
          <6>1. proc'[p] = r
            BY <2>1 DEF Safe, TypesInv, Requests
          <6>2. Comes(proc[p], l)'
            BY <2>1, <5>4, <6>1 DEF Comes
          <6> QED
            BY <1>2, <5>3, <5>4, <6>2 DEF Reached
        <5>5. CASE ~z.changed
          <6>1. Fine(k, m)
            BY <1>1, <1>2, <5>5 DEF Held
          <6>2. m.part = NoPart \/ k \in missed \/ Right(k, m)
            BY <1>5, <6>1 DEF Fine
          <6>3. m.part = NoPart \/ Excused(k)' \/ Right(k, m)'
            BY <1>3, <2>4, <6>2 DEF Excused, Right
          <6> HIDE DEF k, m, c
          <6> QED
            BY <5>3, <6>3 DEF Reached
        <5> QED
          BY <5>4, <5>5
      <4> QED
        BY <2>3, <4>1, <4>2
    <3>4. \A x \in Lines : Comes(proc[p], x) => Comes(r, x)
      BY <1>1, <1>2, <2>1 DEF Comes
    <3>5. PICK C \in SUBSET Lines : C = {l}
      BY <2>2
    <3>6. LinesMove(p, r, C)
      BY <1>3, <2>4, <3>1, <3>2, <3>3, <3>4, <3>5 DEF LinesMove
    <3> QED
      BY <2>1, <3>6, LinesChange DEF Safe
  <2> QED
    BY <2>5, <2>6, <2>7 DEF Safe
<1>6. CASE (Fault \/ NoFault) /\ UNCHANGED line /\ GivesUp(p) /\ Finish(p)
  <2>1. missed \subseteq missed' /\ missed' \subseteq Keys /\ (z.changed => missed' = Keys)
    BY <1>1, <1>3, <1>6 DEF GivesUp
  <2>2. Held(Done) /\ \A b \in Boards : ~Attaches(Done, b) /\ Done.board # b
    BY Rows, NoneAssumption DEF Held, Attaches
  <2>3. \A l \in Lines : Comes(proc[p], l) => missed' = Keys
    BY <1>1, <2>1 DEF Comes
  <2> QED
    BY <1>1, <1>2, <1>3, <1>6, <2>1, <2>2, <2>3, Rows, Goes DEF Finish, Covering
<1>7. \/ /\ possible /\ NoFault
         /\ \E l \in IF z.line = NoLine THEN Unused(line) ELSE {z.line} :
                line' = Written(p, l) /\ Overtaken(l, k)
         /\ IF z.changed THEN Goto(p, "boards") ELSE Finish(p)
      \/ (Fault \/ NoFault) /\ UNCHANGED line /\ GivesUp(p) /\ Finish(p)
  BY <1>1 DEF WriteLine, Key
<1> HIDE DEF possible, k, m
<1> QED
  BY <1>5, <1>6, <1>7

\* A line that a rematch went over gets its match, if it is still there.
LEMMA SetLineMatchSafe ==
  ASSUME Safe, NEW p \in Procs, SetLineMatch(p)
  PROVE  Safe'
<1>1. PICK z \in Proc : z = proc[p] /\ Staged(z) /\ Held(z)
  BY DEF Safe, TypesInv, Requests, RulesInv
<1> DEFINE l == z.line
           m == z.match
           k == matchKey(z.content)
           r == [z EXCEPT !.pc = "rematch"]
<1>2. z.pc = "set" /\ z.content \in Contents /\ z.changed /\ l \in Lines /\ m \in Match
  BY <1>1 DEF SetLineMatch, AtPc, Staged, Proc
<1>3. UNCHANGED <<part, board, rule, asset, cover, torn>> /\ missed \subseteq Keys
  BY DEF SetLineMatch, AssetsUnchanged, Safe, TypesInv, Tables
<1>4. /\ r \in Proc /\ r.pc = "rematch" /\ r.board = z.board /\ r.todo = z.todo /\ r.changed = z.changed
      /\ r.boards = z.boards
  BY DEF Proc, Stages
<1>5. proc' = [proc EXCEPT ![p] = r]
  BY <1>1 DEF SetLineMatch, Goto, Safe, TypesInv, Requests
<1> HIDE DEF r
<1>6. Staged(r) /\ Held(r)
  BY <1>1, <1>2, <1>4 DEF Staged, Held, Covering
<1>7. \A o \in Boards : ~Attaches(r, o) /\ (r.board = o => proc[p].board = o)
  BY <1>1, <1>4 DEF Attaches
<1>8. CASE /\ m.part \in part \cup {NoPart} /\ NoFault /\ UNCHANGED missed
           /\ line' = IF line[l].state = "live" THEN [line EXCEPT ![l].match = m] ELSE line
  <2> DEFINE row == [line[l] EXCEPT !.match = m]
  <2>1. line \in [Lines -> Line] /\ line[l] \in Line /\ Stored(line[l])
    BY <1>2, Stores DEF Safe, TypesInv, Tables
  <2>2. /\ row \in Line /\ row.state = line[l].state /\ row.content = line[l].content
        /\ row.board = line[l].board /\ row.match = m
    BY <1>2, <2>1 DEF Line
  <2>3. line[l].state = "live" => line' = [line EXCEPT ![l] = row]
    BY <1>2, <1>8, <2>1
  <2> HIDE DEF row
  <2>4. PICK f \in [Lines -> Line] :
            /\ line' = f /\ (\A x \in Lines \ {l} : f[x] = line[x])
            /\ ((f[l] = line[l] /\ line[l].state # "live") \/ f[l] = row)
            /\ \A x \in Lines : Stored(f[x])
    <3>1. CASE line[l].state = "live"
      <4>1. Stored(row)
        BY <1>8, <2>1, <2>2 DEF Stored
      <4> QED
        BY <1>2, <2>1, <2>2, <2>3, <3>1, <4>1, Stores DEF Safe
    <3>2. CASE line[l].state # "live"
      BY <1>8, <2>1, <3>2, Stores DEF Safe
    <3> QED
      BY <3>1, <3>2
  <2>5. TypesInv'
    BY <1>3, <1>4, <1>5, <1>6, <1>8, <2>4, LinesTypes DEF Safe
  <2>6. Attachments'
    BY <1>1, <1>2, <1>3, <1>4, <1>5, <1>7, AttachmentsKeep DEF Safe, TypesInv, Covering
  <2>7. RulesInv'
    <3>1. \A x \in Lines \ {l} : line'[x] = line[x]
      BY <2>4
    <3>2. line'[l].state = line[l].state /\ line'[l].content = line[l].content
      BY <2>2, <2>4
    <3>3. \A y \in Contents : Agrees(y, l) => Agrees(y, l)'
      BY <1>8, <3>2 DEF Agrees, Excused
    <3>4. Reached(l)'
      <4>1. CASE line[l].state # "live"
        BY <3>2, <4>1 DEF Reached
      <4>2. CASE line[l].state = "live"
        <5>1. PICK x : x = matchKey(line[l].content)
          OBVIOUS
        <5>2. Fine(k, m) /\ (k = x \/ Excused(x))
          BY <1>1, <1>2, <4>2, <5>1 DEF Held, Agrees
        <5>3. m.part = NoPart \/ k \in missed \/ Right(k, m)
          BY <1>8, <5>2 DEF Fine
        <5>4. m.part = NoPart \/ Excused(x)' \/ Right(x, m)'
          BY <1>3, <1>8, <5>2, <5>3 DEF Excused, Right
        <5>5. x = matchKey(line'[l].content) /\ line'[l].match = m
          BY <2>2, <2>4, <3>2, <4>2, <5>1
        <5> HIDE DEF m
        <5> QED
          BY <5>4, <5>5 DEF Reached
      <4> QED
        BY <4>1, <4>2
    <3>5. \A x \in Lines \ {l} : Comes(proc[p], x) => Comes(r, x)
      BY <1>1, <1>2, <1>4 DEF Comes
    <3>6. PICK C \in SUBSET Lines : C = {l}
      BY <1>2
    <3>7. LinesMove(p, r, C)
      BY <1>3, <1>8, <3>1, <3>3, <3>4, <3>5, <3>6 DEF LinesMove
    <3> QED
      BY <1>4, <1>5, <1>6, <3>7, LinesChange DEF Safe
  <2> QED
    BY <2>5, <2>6, <2>7 DEF Safe
<1>9. CASE (Fault \/ NoFault) /\ UNCHANGED line /\ GivesUp(p)
  <2>1. missed' = Keys
    BY <1>1, <1>2, <1>3, <1>9 DEF GivesUp
  <2> QED
    BY <1>1, <1>2, <1>3, <1>4, <1>5, <1>6, <1>7, <1>9, <2>1, Goes DEF Covering
<1>10. \/ /\ m.part \in part \cup {NoPart} /\ NoFault /\ UNCHANGED missed
          /\ line' = IF line[l].state = "live" THEN [line EXCEPT ![l].match = m] ELSE line
       \/ (Fault \/ NoFault) /\ UNCHANGED line /\ GivesUp(p)
  BY <1>1 DEF SetLineMatch
<1> QED
  BY <1>8, <1>9, <1>10

\* The lines of a board are replaced by those of a file, in one transaction.
LEMMA ReplaceBOMLinesSafe ==
  ASSUME Safe, NEW p \in Procs, ReplaceBOMLines(p)
  PROVE  Safe'
<1>1. PICK z \in Proc : z = proc[p] /\ Staged(z) /\ Held(z)
  BY DEF Safe, TypesInv, Requests, RulesInv
<1> DEFINE b    == CHOOSE b \in z.boards : TRUE
           next == IF z.pc = "match" /\ z.panel THEN "panel" ELSE "assets"
           r == [z EXCEPT !.pc = next]
<1>2. /\ z.pc \in {"match", "panelstore"} /\ Len(z.matched) = Len(z.file)
      /\ z.file \in Seq(Contents) /\ z.matched \in Seq(Match) /\ b \in Boards
  BY <1>1 DEF ReplaceBOMLines, AtPc, Staged, Proc
<1>3. UNCHANGED <<part, board, rule, missed, asset, cover, torn>> /\ missed \subseteq Keys
  BY DEF ReplaceBOMLines, AssetsUnchanged, Safe, TypesInv, Tables
<1>4. /\ Goto(p, next) => proc' = [proc EXCEPT ![p] = r]
      /\ next \in Stages /\ (next = "assets" \/ (next = "panel" /\ z.pc = "match"))
  BY <1>1 DEF Goto, Safe, TypesInv, Requests, Stages
<1>5. \/ /\ Storable(b, p) /\ NoFault /\ Goto(p, next)
         /\ \E ids \in [DOMAIN z.file -> Unused(line)] : line' = Replaced(b, p, ids)
      \/ /\ Fault \/ NoFault
         /\ UNCHANGED line
         /\ IF z.pc = "match" THEN Finish(p) ELSE Goto(p, next)
  BY <1>1 DEF ReplaceBOMLines, AtPc
<1> HIDE DEF next
<1>6. /\ r \in Proc /\ r.pc = next /\ r.board = z.board /\ r.todo = z.todo /\ r.changed = z.changed
      /\ r.boards = z.boards /\ r.iboms = z.iboms /\ r.file = z.file /\ r.matched = z.matched
  BY <1>4 DEF Proc
<1> HIDE DEF r
<1>7. Staged(r) /\ Held(r)
  BY <1>1, <1>2, <1>4, <1>6 DEF Staged, Held, Covering
<1>8. \A o \in Boards : (Attaches(r, o) => Attaches(proc[p], o)) /\ (r.board = o => proc[p].board = o)
  BY <1>1, <1>2, <1>4, <1>6 DEF Attaches
<1>9. \A l \in Lines : ~Comes(proc[p], l)
  BY <1>1, <1>2 DEF Comes
<1>10. ASSUME Storable(b, p), NoFault, proc' = [proc EXCEPT ![p] = r],
              NEW ids \in [DOMAIN z.file -> Unused(line)], line' = Replaced(b, p, ids)
       PROVE  Safe'
  <2> DEFINE new  == {x \in Lines : \E i \in DOMAIN ids : ids[i] = x}
             gone == {x \in Lines : line[x].state = "live" /\ line[x].board = b} \ new
             f == Replaced(b, p, ids)
  <2>1. line \in [Lines -> Line] /\ DOMAIN ids = DOMAIN z.file /\ \A x \in new : line[x].state = "unused"
    BY DEF Unused, Safe, TypesInv, Tables
  <2>2. /\ DOMAIN f = Lines
        /\ \A x \in new : \E i \in DOMAIN z.file :
               f[x] = [state |-> "live", board |-> b, content |-> z.file[i], match |-> z.matched[i]]
        /\ \A x \in gone : f[x] = [NoRow EXCEPT !.state = "deleted"]
        /\ \A x \in Lines \ (new \cup gone) : f[x] = line[x]
    BY <1>1, <2>1 DEF Replaced
  <2>3. /\ DOMAIN z.matched = DOMAIN z.file
        /\ \A i \in DOMAIN z.file : z.file[i] \in Contents /\ z.matched[i] \in Match
    BY <1>2
  <2>4. board[b] = "live" /\ \A i \in DOMAIN z.matched : z.matched[i].part \in part \cup {NoPart}
    BY <1>1, <1>10 DEF Storable
  <2>5. ASSUME NEW x \in new
        PROVE  Stored(f[x])
    <3>1. PICK i \in DOMAIN z.file :
              f[x] = [state |-> "live", board |-> b, content |-> z.file[i], match |-> z.matched[i]]
      BY <2>2
    <3>2. z.file[i] \in Contents /\ z.matched[i] \in Match /\ z.matched[i].part \in part \cup {NoPart}
      BY <2>3, <2>4
    <3> HIDE DEF f, b
    <3> QED
      BY <1>2, <2>4, <3>1, <3>2 DEF Stored, Line
  <2>6. \A x \in gone : Stored(f[x]) /\ f[x].state = "deleted"
    BY <2>2, Rows DEF Stored, Line
  <2>7. \A x \in Lines \ (new \cup gone) : Stored(f[x])
    BY <2>2, Stores DEF Safe
  <2>8. /\ \A x \in Lines : Stored(f[x])
        /\ line' = f /\ new \subseteq Lines /\ gone \subseteq Lines
    BY <1>10, <2>5, <2>6, <2>7
  <2>15. f = [x \in Lines |-> f[x]]
    BY DEF Replaced
  <2> HIDE DEF f
  <2>9. f \in [Lines -> Line]
    BY <2>8, <2>15 DEF Stored
  <2>10. TypesInv'
    BY <1>3, <1>6, <1>7, <1>10, <2>8, <2>9, LinesTypes DEF Safe
  <2>11. Attachments'
    BY <1>1, <1>2, <1>3, <1>4, <1>6, <1>8, <1>10, AttachmentsKeep DEF Safe, TypesInv, Covering
  <2> HIDE DEF new, gone
  <2>12. RulesInv'
    <3>1. PICK C \in SUBSET Lines : C = new \cup gone
      BY <2>8
    <3>2. \A x \in Lines \ C : line'[x] = line[x]
      BY <2>2, <2>8, <3>1
    <3>3. \A x \in C : \A y \in Contents : Agrees(y, x) => Agrees(y, x)'
      BY <2>1, <2>6, <2>8, <3>1 DEF Agrees
    <3>4. ASSUME NEW x \in new
          PROVE  Reached(x)'
      <4>1. PICK i \in DOMAIN z.file :
                f[x] = [state |-> "live", board |-> b, content |-> z.file[i], match |-> z.matched[i]]
        BY <2>2
      <4>2. PICK k, m : k = matchKey(z.file[i]) /\ m = z.matched[i]
        OBVIOUS
      <4>3. Fine(k, m) /\ m.part \in part \cup {NoPart}
        BY <1>1, <1>2, <2>3, <2>4, <4>2 DEF Held
      <4>4. m.part = NoPart \/ Excused(k)' \/ Right(k, m)'
        BY <1>3, <4>3 DEF Fine, Excused, Right
      <4>5. matchKey(line'[x].content) = k /\ line'[x].match = m
        BY <2>8, <4>1, <4>2
      <4> QED
        BY <4>4, <4>5 DEF Reached
    <3>5. \A x \in gone : Reached(x)'
      BY <2>6, <2>8 DEF Reached
    <3>6. LinesMove(p, r, C)
      BY <1>3, <1>9, <3>1, <3>2, <3>3, <3>4, <3>5 DEF LinesMove
    <3> QED
      BY <1>6, <1>7, <1>10, <3>6, LinesChange DEF Safe
  <2> QED
    BY <2>10, <2>11, <2>12 DEF Safe
<1>11. CASE (Fault \/ NoFault) /\ UNCHANGED line /\ proc' = [proc EXCEPT ![p] = r]
  BY <1>1, <1>2, <1>3, <1>4, <1>6, <1>7, <1>8, <1>9, <1>11, Goes DEF Covering
<1>12. CASE (Fault \/ NoFault) /\ UNCHANGED line /\ Finish(p)
  <2>1. Held(Done) /\ \A o \in Boards : ~Attaches(Done, o) /\ Done.board # o
    BY Rows, NoneAssumption DEF Held, Attaches
  <2> QED
    BY <1>1, <1>2, <1>3, <1>9, <1>12, <2>1, Rows, Goes DEF Finish, Covering
<1> HIDE DEF b
<1> QED
  BY <1>4, <1>5, <1>10, <1>11, <1>12

-----------------------------------------------------------------------------
\* Deleting.

\* Lines go.
LEMMA LinesGo ==
  ASSUME Safe, NEW gone \in SUBSET Lines, line' = WithoutLines(gone)
  PROVE  /\ line' \in [Lines -> Line] /\ \A l \in gone : line'[l].state = "deleted"
         /\ \A l \in Lines \ gone : line'[l] = line[l]
         /\ \A l \in gone : Reached(l)' /\ \A c \in Contents : Agrees(c, l)'
<1>1. line \in [Lines -> Line]
  BY DEF Safe, TypesInv, Tables
<1>2. [NoRow EXCEPT !.state = "deleted"] \in Line /\ [NoRow EXCEPT !.state = "deleted"].state = "deleted"
  BY Rows DEF Line
<1>3. line' = [l \in Lines |-> IF l \in gone THEN [NoRow EXCEPT !.state = "deleted"] ELSE line[l]]
  BY DEF WithoutLines
<1>4. /\ line' \in [Lines -> Line] /\ \A l \in gone : line'[l].state = "deleted"
      /\ \A l \in Lines \ gone : line'[l] = line[l]
  BY <1>1, <1>2, <1>3
<1> QED
  BY <1>4 DEF Reached, Agrees

\* A request that is over holds nothing.
LEMMA Over ==
  Held(Done) /\ (\A b \in Boards : ~Attaches(Done, b) /\ Done.board # b) /\ Done.pc \notin Covering
BY Rows, NoneAssumption DEF Held, Attaches, Covering

\* A request that has just begun comes by no line.
LEMMA Fresh ==
  ASSUME NEW p \in Procs, AtPc(p, "idle")
  PROVE  /\ proc[p].pc \notin Covering /\ \A l \in Lines : ~Comes(proc[p], l)
         /\ \A b : ~Attaches(proc[p], b)
BY DEF AtPc, Covering, Comes, Attaches

\* The rules of a step that only deletes lines.
LEMMA RulesGo ==
  ASSUME Safe, NEW p \in Procs, AtPc(p, "idle"), Finish(p),
         NEW gone \in SUBSET Lines, line' = WithoutLines(gone), UNCHANGED <<part, rule, missed>>
  PROVE  RulesInv'
<1>1. LinesMove(p, Done, gone)
  <2>1. \A x \in Lines \ gone : line'[x] = line[x]
    BY LinesGo
  <2>2. \A x \in gone : Reached(x)' /\ \A c \in Contents : Agrees(c, x)'
    BY LinesGo
  <2> QED
    BY <2>1, <2>2, Fresh DEF LinesMove
<1> QED
  BY <1>1, LinesChange, Rows, Over DEF Finish, Safe

\* A line goes.
LEMMA DeleteBOMLineSafe ==
  ASSUME Safe, NEW p \in Procs, DeleteBOMLine(p)
  PROVE  Safe'
<1>1. PICK l \in Lines : line[l].state = "live" /\ line' = WithoutLines({l})
  BY DEF DeleteBOMLine
<1>2. /\ AtPc(p, "idle") /\ proc' = [proc EXCEPT ![p] = Done]
      /\ UNCHANGED <<part, board, rule, asset, cover, torn, faults, missed>> /\ missed' \subseteq Keys
  BY DEF DeleteBOMLine, AssetsUnchanged, Finish, Safe, TypesInv, Tables
<1>3. PICK f \in [Lines -> Line] : /\ line' = f /\ f[l].state = "deleted"
                                   /\ \A x \in Lines \ {l} : f[x] = line[x]
  BY <1>1, LinesGo
<1>4. \A x \in Lines : Stored(f[x])
  BY <1>3, Stores DEF Safe, Stored
<1>5. TypesInv'
  BY <1>2, <1>3, <1>4, LinesTypes, Rows DEF Safe, NoFault
<1>6. Attachments'
  BY <1>2, AttachmentsKeep, Rows, Over, Fresh DEF Safe, TypesInv
<1>7. RulesInv'
  <2>1. {l} \in SUBSET Lines /\ Finish(p)
    BY DEF DeleteBOMLine
  <2> QED
    BY <1>1, <1>2, <2>1, RulesGo
<1> QED
  BY <1>5, <1>6, <1>7 DEF Safe

\* Assets go, and the cover with them.
LEMMA AssetsGo ==
  ASSUME Tables, References, NEW gone \in SUBSET Assets, WithoutAssets(gone)
  PROVE  /\ asset' \in [Assets -> Asset] /\ cover' \in Assets \cup {NoAsset}
         /\ \A a \in gone : asset'[a].state = "deleted"
         /\ \A a \in Assets \ gone : asset'[a] = asset[a]
         /\ cover' # NoAsset => asset'[cover'].state = "live"
         /\ cover' \in {cover, NoAsset} /\ (cover \notin gone => cover' = cover)
         /\ \A b \in Boards \cup {NoBoard}, kind \in {"ibom", "image"} :
                AssetsOfKind(b, kind)' = AssetsOfKind(b, kind) \ gone
<1>1. asset \in [Assets -> Asset] /\ cover \in Assets \cup {NoAsset}
  BY DEF Tables
<1>2. [NoAsset0 EXCEPT !.state = "deleted"] \in Asset /\ [NoAsset0 EXCEPT !.state = "deleted"].state = "deleted"
  BY Rows DEF Asset
<1>3. /\ asset' = [a \in Assets |-> IF a \in gone THEN [NoAsset0 EXCEPT !.state = "deleted"] ELSE asset[a]]
      /\ cover' = IF cover \in gone THEN NoAsset ELSE cover
  BY DEF WithoutAssets
<1>4. /\ asset' \in [Assets -> Asset]
      /\ \A a \in gone : asset'[a].state = "deleted"
      /\ \A a \in Assets \ gone : asset'[a] = asset[a]
  BY <1>1, <1>2, <1>3
<1>5. cover' # NoAsset => asset'[cover'].state = "live"
  BY <1>1, <1>3, <1>4 DEF References
<1>6. \A b \in Boards \cup {NoBoard}, kind \in {"ibom", "image"} :
          AssetsOfKind(b, kind)' = AssetsOfKind(b, kind) \ gone
  BY <1>4 DEF AssetsOfKind
<1> QED
  BY <1>1, <1>3, <1>4, <1>5, <1>6

-----------------------------------------------------------------------------
\* Boards come and go, and what is attached to them.

\* A step that may add boards, takes away assets or adds some that are on no board, and
\* where the request that moves will attach what it would have, or to a board that has
\* no interactive BOM and no other that will attach one.
BoardsMove(p, r) ==
    /\ torn \subseteq torn'
    /\ \A o \in Boards : board'[o] = "unused" => board[o] = "unused"
    /\ \A o \in Boards : r.board = o => board'[o] # "unused" \/ proc[p].board = o
    /\ \A a \in Assets : asset'[a].state = "live" =>
           \/ asset[a].state = "live" /\ asset'[a] = asset[a]
           \/ asset'[a].board \notin Boards
    /\ \A o \in Boards : Attaches(r, o) =>
           \/ Attaches(proc[p], o) \/ o \in torn'
           \/ AssetsOfKind(o, "ibom")' = {} /\ \A q \in Procs : q # p => ~Attaches(proc[q], o)

\* Then boards stay in order.
LEMMA BoardsKeep ==
  ASSUME Requests, BoardsAttached, NEW p \in Procs, NEW r \in Proc, proc' = [proc EXCEPT ![p] = r],
         BoardsMove(p, r)
  PROVE  BoardsAttached'
<1>0. /\ torn \subseteq torn'
      /\ \A o \in Boards : board'[o] = "unused" => board[o] = "unused"
      /\ \A o \in Boards : r.board = o => board'[o] # "unused" \/ proc[p].board = o
      /\ \A a \in Assets : asset'[a].state = "live" =>
             \/ asset[a].state = "live" /\ asset'[a] = asset[a]
             \/ asset'[a].board \notin Boards
      /\ \A o \in Boards : Attaches(r, o) =>
             \/ Attaches(proc[p], o) \/ o \in torn'
             \/ AssetsOfKind(o, "ibom")' = {} /\ \A q \in Procs : q # p => ~Attaches(proc[q], o)
  BY DEF BoardsMove
<1>1. proc'[p] = r /\ \A q \in Procs : q # p => proc'[q] = proc[q]
  BY DEF Requests
<1> SUFFICES ASSUME NEW b \in Boards
             PROVE  /\ board'[b] = "unused" =>
                          /\ \A a \in Assets : asset'[a].state = "live" => asset'[a].board # b
                          /\ \A q \in Procs : proc'[q].board # b
                    /\ b \notin torn' =>
                          /\ \A a1, a2 \in AssetsOfKind(b, "ibom")' : asset'[a1].by = asset'[a2].by
                          /\ \A o \in Procs : Attaches(proc'[o], b) =>
                                 /\ \A a \in AssetsOfKind(b, "ibom")' : asset'[a].by = {o}
                                 /\ \A q \in Procs : Attaches(proc'[q], b) => q = o
  BY DEF BoardsAttached
<1>2. /\ AssetsOfKind(b, "ibom")' \subseteq AssetsOfKind(b, "ibom")
      /\ \A a \in AssetsOfKind(b, "ibom")' : asset'[a] = asset[a]
  BY <1>0 DEF AssetsOfKind
<1>3. ASSUME board'[b] = "unused"
      PROVE  /\ \A a \in Assets : asset'[a].state = "live" => asset'[a].board # b
             /\ \A q \in Procs : proc'[q].board # b
  <2>1. board[b] = "unused"
    BY <1>0, <1>3
  <2> QED
    BY <1>0, <1>1, <1>3, <2>1 DEF BoardsAttached
<1>4. ASSUME b \notin torn'
      PROVE  /\ \A a1, a2 \in AssetsOfKind(b, "ibom")' : asset'[a1].by = asset'[a2].by
             /\ \A o \in Procs : Attaches(proc'[o], b) =>
                    /\ \A a \in AssetsOfKind(b, "ibom")' : asset'[a].by = {o}
                    /\ \A q \in Procs : Attaches(proc'[q], b) => q = o
  <2>1. b \notin torn
    BY <1>0, <1>4
  <2>2. /\ \A a1, a2 \in AssetsOfKind(b, "ibom") : asset[a1].by = asset[a2].by
        /\ \A o \in Procs : Attaches(proc[o], b) =>
               /\ \A a \in AssetsOfKind(b, "ibom") : asset[a].by = {o}
               /\ \A q \in Procs : Attaches(proc[q], b) => q = o
    BY <2>1 DEF BoardsAttached
  <2>3. \A q \in Procs : q # p => (Attaches(proc'[q], b) <=> Attaches(proc[q], b))
    BY <1>1
  <2>4. CASE Attaches(r, b) /\ ~Attaches(proc[p], b)
    <3>1. AssetsOfKind(b, "ibom")' = {} /\ \A q \in Procs : q # p => ~Attaches(proc[q], b)
      BY <1>0, <1>4, <2>4
    <3> QED
      BY <2>3, <3>1
  <2>5. CASE Attaches(r, b) => Attaches(proc[p], b)
    <3>1. \A q \in Procs : Attaches(proc'[q], b) => Attaches(proc[q], b)
      BY <1>1, <2>5
    <3> QED
      BY <1>2, <2>2, <3>1
  <2> QED
    BY <2>4, <2>5
<1> QED
  BY <1>3, <1>4

\* A step of a request that has nothing to do with the cover, and may take it away.
CoverMove(p, r) ==
    /\ r.pc \notin Covering /\ proc[p].pc \notin Covering
    /\ torn \subseteq torn'
    /\ cover' \in {cover, NoAsset}
    /\ \A a \in Assets : asset'[a].state = "live" /\ asset'[a].board = NoBoard =>
           /\ asset[a].state = "live" /\ asset[a].board = NoBoard
           /\ a = cover => cover' = cover

\* Then the cover stays in order.
LEMMA CoverKeeps ==
  ASSUME Requests, Covered, NEW p \in Procs, NEW r \in Proc, proc' = [proc EXCEPT ![p] = r],
         CoverMove(p, r)
  PROVE  Covered'
<1>1. proc'[p] = r /\ \A q \in Procs : q # p => proc'[q] = proc[q]
  BY DEF Requests
<1>2. \A q \in Procs : (proc[q].pc \in Covering \/ proc'[q].pc \in Covering) => q # p /\ proc'[q] = proc[q]
  BY <1>1 DEF CoverMove
<1>3. {"create", "cover", "uncover", "drop"} = Covering
  BY DEF Covering
<1>4. ASSUME NoBoard \notin torn'
      PROVE  /\ \A x, q \in Procs : proc'[x].pc \in Covering /\ proc'[q].pc \in Covering => x = q
             /\ \A x \in Procs : proc'[x].pc \in {"create", "cover", "uncover"} =>
                    cover' \in {proc'[x].old, NoAsset}
             /\ \A a \in Assets : asset'[a].state = "live" /\ asset'[a].board = NoBoard =>
                    \/ a = cover'
                    \/ \E x \in Procs : \/ proc'[x].pc = "cover" /\ proc'[x].new = a
                                        \/ proc'[x].pc = "drop" /\ proc'[x].old = a
  <2>1. NoBoard \notin torn
    BY <1>4 DEF CoverMove
  <2>2. \A x, q \in Procs : proc'[x].pc \in Covering /\ proc'[q].pc \in Covering => x = q
    BY <1>2, <2>1 DEF Covered
  <2>3. \A x \in Procs : proc'[x].pc \in {"create", "cover", "uncover"} => cover' \in {proc'[x].old, NoAsset}
    BY <1>2, <1>3, <2>1 DEF Covered, CoverMove
  <2>4. ASSUME NEW a \in Assets, asset'[a].state = "live", asset'[a].board = NoBoard
        PROVE  \/ a = cover'
               \/ \E x \in Procs : \/ proc'[x].pc = "cover" /\ proc'[x].new = a
                                   \/ proc'[x].pc = "drop" /\ proc'[x].old = a
    <3>1. asset[a].state = "live" /\ asset[a].board = NoBoard /\ (a = cover => cover' = cover)
      BY <2>4 DEF CoverMove
    <3>2. \/ a = cover
          \/ \E x \in Procs : \/ proc[x].pc = "cover" /\ proc[x].new = a
                              \/ proc[x].pc = "drop" /\ proc[x].old = a
      BY <2>1, <3>1 DEF Covered
    <3> QED
      BY <1>2, <1>3, <3>1, <3>2
  <2> QED
    BY <2>2, <2>3, <2>4
<1> QED
  BY <1>4 DEF Covered

\* A request that is not about rules comes by no line.
LEMMA Elsewhere ==
  ASSUME NEW r, r.pc \notin {"resolve", "write", "boards", "lines", "rematch", "set"}
  PROVE  \A l \in Lines : ~Comes(r, l)
BY DEF Comes

\* The types of a step about boards and assets.
LEMMA AssetTypes ==
  ASSUME TypesInv, NEW p \in Procs, NEW r \in Proc, Staged(r), proc' = [proc EXCEPT ![p] = r],
         UNCHANGED <<part, line, rule, missed>>, Fault \/ NoFault, torn' \subseteq Boards \cup {NoBoard},
         board' \in [Boards -> {"unused", "live", "deleted"}],
         \A b \in Boards : board[b] = "live" => board'[b] = "live",
         asset' \in [Assets -> Asset], cover' \in Assets \cup {NoAsset},
         cover' # NoAsset => asset'[cover'].state = "live"
  PROVE  TypesInv'
<1>1. Tables'
  BY Budget DEF TypesInv, Tables
<1>2. References'
  BY DEF TypesInv, References
<1>3. Requests'
  BY RowStep DEF TypesInv
<1> QED
  BY <1>1, <1>2, <1>3 DEF TypesInv

\* A board of a project, or of a panel in an imported file, comes into being.
LEMMA CreateBoardSafe ==
  ASSUME Safe, NEW p \in Procs, CreateBoard(p)
  PROVE  Safe'
<1>1. PICK z \in Proc : z = proc[p] /\ Staged(z) /\ Held(z)
  BY DEF Safe, TypesInv, Requests, RulesInv
<1>2. z.pc \in {"board", "panel"}
  BY <1>1 DEF CreateBoard
<1>3. UNCHANGED <<part, line, rule, missed, asset, cover, torn>> /\ missed \subseteq Keys
  BY DEF CreateBoard, AssetsUnchanged, Safe, TypesInv, Tables
<1>4. \A l \in Lines : ~Comes(proc[p], l)
  BY <1>1, <1>2, Elsewhere
<1>5. ASSUME NEW b \in Boards, board[b] = "unused", board' = [board EXCEPT ![b] = "live"], NoFault,
             proc' = [proc EXCEPT ![p].pc = IF @ = "board" THEN "match" ELSE "panelstore",
                                  ![p].board = IF AtPc(p, "board") THEN b ELSE @,
                                  ![p].boards = {b}]
      PROVE  Safe'
  <2> DEFINE pc == IF z.pc = "board" THEN "match" ELSE "panelstore"
             bd == IF z.pc = "board" THEN b ELSE z.board
             r == [z EXCEPT !.pc = pc, !.board = bd, !.boards = {b}]
  <2>1. proc' = [proc EXCEPT ![p] = r]
    BY <1>1, <1>5 DEF AtPc, Safe, TypesInv, Requests
  <2>2. /\ pc \in Stages /\ bd \in Boards \cup {NoBoard}
        /\ (z.pc = "board" /\ pc = "match" /\ bd = b) \/ (z.pc = "panel" /\ pc = "panelstore" /\ bd = z.board)
    BY <1>2 DEF Stages, Proc
  <2> HIDE DEF pc, bd
  <2>3. /\ r \in Proc /\ r.pc = pc /\ r.board = bd /\ r.boards = {b} /\ r.todo = z.todo /\ r.iboms = z.iboms
        /\ r.matched = z.matched /\ r.file = z.file
    BY <2>2 DEF Proc
  <2> HIDE DEF r
  <2>4. Staged(r)
    <3>1. Len(<<>>) = 0 /\ Len(z.file) \in Nat
      BY Fields
    <3> QED
      BY <1>1, <1>2, <1>5, <2>2, <2>3, <3>1 DEF Staged, Covering
  <2>5. Held(r)
    <3>1. \A i \in DOMAIN r.matched : Fine(matchKey(r.file[i]), r.matched[i])
      BY <1>1, <2>2, <2>3 DEF Staged, Held
    <3> QED
      BY <1>1, <2>2, <2>3, <3>1 DEF Held
  <2>6. /\ board' \in [Boards -> {"unused", "live", "deleted"}] /\ board'[b] = "live"
        /\ \A o \in Boards : o # b => board'[o] = board[o]
    BY <1>5 DEF Safe, TypesInv, Tables
  <2>7. TypesInv'
    BY <1>3, <1>5, <2>1, <2>3, <2>4, <2>6, AssetTypes DEF Safe, TypesInv, Tables, References
  <2>8. \A o \in Boards : Attaches(r, o) => Attaches(proc[p], o) \/ o = b
    BY <1>1, <2>2, <2>3 DEF Attaches
  <2>9. /\ AssetsOfKind(b, "ibom")' = {}
        /\ \A q \in Procs : ~Attaches(proc[q], b)
    BY <1>3, <1>5 DEF AssetsOfKind, Attaches, Safe, Attachments, BoardsAttached
  <2>10. BoardsMove(p, r)
    BY <1>1, <1>3, <2>2, <2>3, <2>6, <2>8, <2>9 DEF BoardsMove
  <2>11. CoverMove(p, r)
    BY <1>1, <1>2, <1>3, <2>2, <2>3 DEF CoverMove, Covering
  <2>12. Attachments'
    BY <2>1, <2>3, <2>10, <2>11, BoardsKeep, CoverKeeps DEF Safe, TypesInv, Attachments
  <2>13. RulesInv'
    BY <1>3, <1>4, <2>1, <2>3, <2>4, <2>5, RulesKeep DEF Safe
  <2> QED
    BY <2>7, <2>12, <2>13 DEF Safe
<1>6. CASE Fault /\ UNCHANGED board /\ (IF AtPc(p, "board") THEN Finish(p) ELSE Goto(p, "assets"))
  <2>1. CASE z.pc = "board"
    BY <1>1, <1>3, <1>4, <1>6, <2>1, Rows, Over, Goes DEF AtPc, Finish, Covering
  <2>2. CASE z.pc = "panel"
    <3> DEFINE r == [z EXCEPT !.pc = "assets"]
    <3>1. r \in Proc /\ r.pc = "assets" /\ r.board = z.board /\ r.todo = z.todo /\ r.iboms = z.iboms
      BY DEF Proc, Stages
    <3>2. proc' = [proc EXCEPT ![p] = r]
      BY <1>1, <1>6, <2>2 DEF AtPc, Goto, Safe, TypesInv, Requests
    <3> HIDE DEF r
    <3>3. Staged(r) /\ Held(r)
      BY <1>1, <2>2, <3>1 DEF Staged, Held, Covering
    <3>4. \A o \in Boards : (Attaches(r, o) => Attaches(proc[p], o)) /\ (r.board = o => proc[p].board = o)
      BY <1>1, <2>2, <3>1 DEF Attaches
    <3> QED
      BY <1>1, <1>3, <1>4, <1>6, <2>2, <3>1, <3>2, <3>3, <3>4, Goes DEF Covering
  <2> QED
    BY <1>2, <2>1, <2>2
<1> QED
  BY <1>2, <1>5, <1>6 DEF CreateBoard

\* A board without lines.
LEMMA CreateBlankBoardSafe ==
  ASSUME Safe, NEW p \in Procs, CreateBlankBoard(p)
  PROVE  Safe'
<1>1. PICK b \in Boards : board[b] = "unused" /\ board' = [board EXCEPT ![b] = "live"]
  BY DEF CreateBlankBoard
<1>2. /\ AtPc(p, "idle") /\ proc' = [proc EXCEPT ![p] = Done]
      /\ UNCHANGED <<part, line, rule, missed, asset, cover, torn, faults>>
  BY DEF CreateBlankBoard, AssetsUnchanged, Finish
<1>3. /\ board' \in [Boards -> {"unused", "live", "deleted"}] /\ board'[b] = "live"
      /\ \A o \in Boards : o # b => board'[o] = board[o]
  BY <1>1 DEF Safe, TypesInv, Tables
<1>4. TypesInv'
  BY <1>1, <1>2, <1>3, Rows, AssetTypes DEF Safe, TypesInv, Tables, References, NoFault
<1>5. BoardsMove(p, Done)
  BY <1>2, <1>3, Over DEF BoardsMove
<1>6. CoverMove(p, Done)
  BY <1>2, Over, Fresh DEF CoverMove
<1>7. Attachments'
  BY <1>2, <1>5, <1>6, Rows, BoardsKeep, CoverKeeps DEF Safe, TypesInv, Attachments
<1>8. RulesInv'
  BY <1>2, Rows, Over, Fresh, RulesKeep DEF Safe
<1> QED
  BY <1>4, <1>7, <1>8 DEF Safe

\* A board goes with its lines and assets.
LEMMA DeleteBoardSafe ==
  ASSUME Safe, NEW p \in Procs, DeleteBoard(p)
  PROVE  Safe'
<1>1. PICK b \in LiveBoards :
          /\ board' = [board EXCEPT ![b] = "deleted"] /\ line' = WithoutLines(LiveLines(b))
          /\ WithoutAssets({a \in Assets : asset[a].state = "live" /\ asset[a].board = b})
  BY DEF DeleteBoard
<1> DEFINE G == {a \in Assets : asset[a].state = "live" /\ asset[a].board = b}
<1>2. /\ AtPc(p, "idle") /\ proc' = [proc EXCEPT ![p] = Done] /\ Finish(p)
      /\ UNCHANGED <<part, rule, missed, torn, faults>>
  BY DEF DeleteBoard, Finish
<1>3. /\ board' \in [Boards -> {"unused", "live", "deleted"}] /\ b \in Boards
      /\ \A o \in Boards : o # b => board'[o] = board[o]
      /\ board'[b] = "deleted"
  BY <1>1 DEF Safe, TypesInv, Tables, LiveBoards
<1>4. /\ line' \in [Lines -> Line] /\ \A l \in LiveLines(b) : line'[l].state = "deleted"
      /\ \A l \in Lines \ LiveLines(b) : line'[l] = line[l]
      /\ LiveLines(b) \in SUBSET Lines
  BY <1>1, LinesGo DEF LiveLines
<1>5. /\ asset' \in [Assets -> Asset] /\ cover' \in Assets \cup {NoAsset}
      /\ \A a \in G : asset'[a].state = "deleted"
      /\ \A a \in Assets \ G : asset'[a] = asset[a]
      /\ cover' # NoAsset => asset'[cover'].state = "live"
      /\ cover' \in {cover, NoAsset} /\ (cover \notin G => cover' = cover)
  BY <1>1, AssetsGo DEF Safe, TypesInv
<1>6. TypesInv'
  <2>1. Tables'
    BY <1>2, <1>3, <1>4, <1>5 DEF Safe, TypesInv, Tables
  <2>2. References'
    <3>1. ASSUME NEW l \in Lines, line'[l].state = "live"
          PROVE  line'[l] = line[l] /\ line[l].state = "live" /\ line[l].board # b
      BY <1>4, <3>1 DEF LiveLines
    <3> QED
      BY <1>2, <1>3, <1>5, <3>1 DEF Safe, TypesInv, References
  <2>3. Requests'
    BY <1>2, Rows, RowStep DEF Safe, TypesInv
  <2> QED
    BY <2>1, <2>2, <2>3 DEF TypesInv
<1>7. BoardsMove(p, Done)
  BY <1>2, <1>3, <1>5, Over DEF BoardsMove
<1>8. CoverMove(p, Done)
  BY <1>2, <1>3, <1>5, Over, Fresh, NoneAssumption DEF CoverMove
<1>9. Attachments'
  BY <1>2, <1>7, <1>8, Rows, BoardsKeep, CoverKeeps DEF Safe, TypesInv, Attachments
<1>10. RulesInv'
  BY <1>1, <1>2, <1>4, RulesGo
<1> QED
  BY <1>6, <1>9, <1>10 DEF Safe

\* An asset goes.
LEMMA DeleteAssetSafe ==
  ASSUME Safe, NEW p \in Procs, DeleteAsset(p)
  PROVE  Safe'
<1>1. PICK d \in Assets : asset[d].state = "live" /\ WithoutAssets({d})
  BY DEF DeleteAsset
<1>2. /\ AtPc(p, "idle") /\ proc' = [proc EXCEPT ![p] = Done]
      /\ UNCHANGED <<part, board, line, rule, missed, torn, faults>>
  BY DEF DeleteAsset, Finish
<1>3. /\ asset' \in [Assets -> Asset] /\ cover' \in Assets \cup {NoAsset}
      /\ asset'[d].state = "deleted"
      /\ \A a \in Assets \ {d} : asset'[a] = asset[a]
      /\ cover' # NoAsset => asset'[cover'].state = "live"
      /\ cover' \in {cover, NoAsset} /\ (cover # d => cover' = cover)
  BY <1>1, AssetsGo DEF Safe, TypesInv
<1>4. TypesInv'
  BY <1>2, <1>3, Rows, AssetTypes DEF Safe, TypesInv, Tables, NoFault
<1>5. BoardsMove(p, Done)
  BY <1>2, <1>3, Over DEF BoardsMove
<1>6. CoverMove(p, Done)
  BY <1>2, <1>3, Over, Fresh DEF CoverMove
<1>7. Attachments'
  BY <1>2, <1>5, <1>6, Rows, BoardsKeep, CoverKeeps DEF Safe, TypesInv, Attachments
<1>8. RulesInv'
  BY <1>2, Rows, Over, Fresh, RulesKeep DEF Safe
<1> QED
  BY <1>4, <1>7, <1>8 DEF Safe

\* An interactive BOM is attached to a board by a request that had to, which is over or
\* goes on with the next of its file.
LEMMA Attached ==
  ASSUME Safe, NEW p \in Procs, NEW r \in Proc, proc' = [proc EXCEPT ![p] = r], Staged(r), Held(r),
         r.pc \in {"assets", "done"}, \A o \in Boards : r.board = o => proc[p].board = o,
         \A o \in Boards : Attaches(r, o) => Attaches(proc[p], o),
         proc[p].pc \in {"assets", "attach"},
         NEW b \in Boards, Attaches(proc[p], b), board[b] = "live", NEW d \in Unused(asset),
         asset' = [asset EXCEPT ![d] = [state |-> "live", board |-> b, kind |-> "ibom", by |-> {p}]],
         UNCHANGED <<part, board, line, rule, cover, missed, torn>>, NoFault
  PROVE  Safe'
<1>1. /\ asset \in [Assets -> Asset] /\ d \in Assets /\ asset[d].state = "unused"
      /\ [state |-> "live", board |-> b, kind |-> "ibom", by |-> {p}] \in Asset
  BY DEF Unused, Safe, TypesInv, Tables, Asset
<1>2. /\ asset' \in [Assets -> Asset] /\ asset'[d].state = "live" /\ asset'[d].board = b
      /\ asset'[d].kind = "ibom" /\ asset'[d].by = {p}
      /\ \A a \in Assets \ {d} : asset'[a] = asset[a]
  BY <1>1
<1>3. proc'[p] = r /\ \A q \in Procs : q # p => proc'[q] = proc[q]
  BY DEF Safe, TypesInv, Requests
<1>4. TypesInv'
  BY <1>1, <1>2, AssetTypes DEF Safe, TypesInv, Tables, References, NoFault
<1>5. BoardsAttached'
  <2> SUFFICES ASSUME NEW o \in Boards
               PROVE  /\ board'[o] = "unused" =>
                            /\ \A a \in Assets : asset'[a].state = "live" => asset'[a].board # o
                            /\ \A q \in Procs : proc'[q].board # o
                      /\ o \notin torn' =>
                            /\ \A a1, a2 \in AssetsOfKind(o, "ibom")' : asset'[a1].by = asset'[a2].by
                            /\ \A x \in Procs : Attaches(proc'[x], o) =>
                                   /\ \A a \in AssetsOfKind(o, "ibom")' : asset'[a].by = {x}
                                   /\ \A q \in Procs : Attaches(proc'[q], o) => q = x
    BY DEF BoardsAttached
  <2>1. \A x \in Procs : Attaches(proc'[x], o) => Attaches(proc[x], o)
    BY <1>3
  <2>2. /\ board[o] = "unused" =>
              /\ \A a \in Assets : asset[a].state = "live" => asset[a].board # o
              /\ \A q \in Procs : proc[q].board # o
        /\ o \notin torn =>
              /\ \A a1, a2 \in AssetsOfKind(o, "ibom") : asset[a1].by = asset[a2].by
              /\ \A x \in Procs : Attaches(proc[x], o) =>
                     /\ \A a \in AssetsOfKind(o, "ibom") : asset[a].by = {x}
                     /\ \A q \in Procs : Attaches(proc[q], o) => q = x
    BY DEF Safe, Attachments, BoardsAttached
  <2>3. \A q \in Procs : proc'[q].board = o => proc[q].board = o
    BY <1>3
  <2>4. CASE o = b
    <3>1. AssetsOfKind(o, "ibom")' = AssetsOfKind(o, "ibom") \cup {d}
      BY <1>1, <1>2, <2>4 DEF AssetsOfKind
    <3>2. o \notin torn => /\ \A a \in AssetsOfKind(o, "ibom") : asset[a].by = {p}
                          /\ \A q \in Procs : Attaches(proc[q], o) => q = p
      BY <2>2, <2>4
    <3>3. \A a \in AssetsOfKind(o, "ibom") : asset'[a] = asset[a]
      BY <1>1, <1>2 DEF AssetsOfKind
    <3>4. o \notin torn => \A a \in AssetsOfKind(o, "ibom")' : asset'[a].by = {p}
      BY <1>2, <3>1, <3>2, <3>3
    <3>5. board'[o] # "unused"
      BY <2>4
    <3>6. \A x \in Procs : o \notin torn /\ Attaches(proc'[x], o) => x = p
      BY <2>1, <3>2
    <3>7. o \notin torn' => \A a1, a2 \in AssetsOfKind(o, "ibom")' : asset'[a1].by = asset'[a2].by
      BY <3>4
    <3>8. ASSUME o \notin torn', NEW x \in Procs, Attaches(proc'[x], o)
          PROVE  /\ \A a \in AssetsOfKind(o, "ibom")' : asset'[a].by = {x}
                 /\ \A q \in Procs : Attaches(proc'[q], o) => q = x
      BY <3>4, <3>6, <3>8
    <3> QED
      BY <3>5, <3>7, <3>8
  <2>5. CASE o # b
    <3>1. /\ AssetsOfKind(o, "ibom")' = AssetsOfKind(o, "ibom")
          /\ \A a \in AssetsOfKind(o, "ibom") : asset'[a] = asset[a]
      BY <1>1, <1>2, <2>5 DEF AssetsOfKind
    <3>2. board'[o] = "unused" => /\ \A a \in Assets : asset'[a].state = "live" => asset'[a].board # o
                                  /\ \A q \in Procs : proc'[q].board # o
      BY <1>2, <2>2, <2>3, <2>5
    <3>3. o \notin torn' => \A a1, a2 \in AssetsOfKind(o, "ibom")' : asset'[a1].by = asset'[a2].by
      BY <2>2, <3>1
    <3>4. ASSUME o \notin torn', NEW x \in Procs, Attaches(proc'[x], o)
          PROVE  /\ \A a \in AssetsOfKind(o, "ibom")' : asset'[a].by = {x}
                 /\ \A q \in Procs : Attaches(proc'[q], o) => q = x
      BY <2>1, <2>2, <3>1, <3>4
    <3> QED
      BY <3>2, <3>3, <3>4
  <2> QED
    BY <2>4, <2>5
<1>6. CoverMove(p, r)
  BY <1>2, NoneAssumption DEF CoverMove, Covering
<1>7. Attachments'
  BY <1>5, <1>6, CoverKeeps DEF Safe, TypesInv, Attachments
<1>8. RulesInv'
  BY Elsewhere, RulesKeep DEF Safe
<1> QED
  BY <1>4, <1>7, <1>8 DEF Safe

\* What attaching one does, or fails to do.
LEMMA Attaching ==
  ASSUME NEW p \in Procs, Attach(p)
  PROVE  \/ /\ board[proc[p].board] = "live" /\ NoFault
            /\ \E d \in Unused(asset) :
                   asset' = [asset EXCEPT ![d] = [state |-> "live", board |-> proc[p].board,
                                                  kind |-> "ibom", by |-> {p}]]
         \/ (Fault \/ NoFault) /\ UNCHANGED asset
BY DEF Attach

\* The interactive BOMs of an imported file are attached to its board, one by one.
LEMMA ExtractAssetsSafe ==
  ASSUME Safe, NEW p \in Procs, ExtractAssets(p)
  PROVE  Safe'
<1>1. PICK z \in Proc : z = proc[p] /\ Staged(z) /\ Held(z)
  BY DEF Safe, TypesInv, Requests, RulesInv
<1>2. /\ z.pc = "assets" /\ z.board \in Boards
      /\ UNCHANGED <<part, board, line, rule, cover, missed, torn>> /\ missed \subseteq Keys
  BY <1>1 DEF ExtractAssets, AtPc, Staged, Safe, TypesInv, Tables
<1>3. \A l \in Lines : ~Comes(proc[p], l)
  BY <1>1, <1>2, Elsewhere
<1>4. CASE NoFault /\ UNCHANGED asset /\ Finish(p)
  BY <1>1, <1>2, <1>3, <1>4, Rows, Over, Goes DEF Finish, Covering
<1>5. CASE z.iboms > 0 /\ Attach(p) /\ proc' = [proc EXCEPT ![p].iboms = @ - 1]
  <2> DEFINE r == [z EXCEPT !.iboms = z.iboms - 1]
  <2>1. z.iboms - 1 \in Nat
    BY <1>5, Fields
  <2>2. /\ r \in Proc /\ r.pc = "assets" /\ r.board = z.board /\ r.todo = z.todo /\ r.iboms = z.iboms - 1
    BY <1>2, <2>1 DEF Proc
  <2>3. proc' = [proc EXCEPT ![p] = r]
    BY <1>1, <1>5 DEF Safe, TypesInv, Requests
  <2> HIDE DEF r
  <2>4. Staged(r) /\ Held(r)
    BY <1>1, <1>2, <2>2 DEF Staged, Held, Covering
  <2>5. \A o \in Boards : (Attaches(r, o) => Attaches(proc[p], o)) /\ (r.board = o => proc[p].board = o)
    BY <1>1, <1>2, <1>5, <2>2 DEF Attaches
  <2>6. CASE /\ board[z.board] = "live" /\ NoFault
             /\ \E d \in Unused(asset) :
                    asset' = [asset EXCEPT ![d] = [state |-> "live", board |-> z.board, kind |-> "ibom", by |-> {p}]]
    <3>1. Attaches(proc[p], z.board)
      BY <1>1, <1>2, <1>5 DEF Attaches
    <3>2. proc[p].pc \in {"assets", "attach"} /\ r.pc \in {"assets", "done"}
      BY <1>1, <1>2, <2>2
    <3> QED
      BY <1>2, <2>2, <2>3, <2>4, <2>5, <2>6, <3>1, <3>2, Attached
  <2>7. CASE (Fault \/ NoFault) /\ UNCHANGED asset
    BY <1>1, <1>2, <1>3, <2>2, <2>3, <2>4, <2>5, <2>7, Goes DEF Covering
  <2> QED
    BY <1>1, <1>5, <2>6, <2>7, Attaching
<1> QED
  BY <1>1, <1>4, <1>5 DEF ExtractAssets

\* An uploaded interactive BOM is attached, if its board is still there.
LEMMA AttachAssetSafe ==
  ASSUME Safe, NEW p \in Procs, AttachAsset(p)
  PROVE  Safe'
<1>1. PICK z \in Proc : z = proc[p] /\ Staged(z) /\ Held(z)
  BY DEF Safe, TypesInv, Requests, RulesInv
<1>2. /\ z.pc = "attach" /\ z.board \in Boards /\ proc' = [proc EXCEPT ![p] = Done] /\ Attach(p)
      /\ UNCHANGED <<part, board, line, rule, cover, missed, torn>> /\ missed \subseteq Keys
  BY <1>1 DEF AttachAsset, AtPc, Finish, Staged, Safe, TypesInv, Tables
<1>3. CASE /\ board[z.board] = "live" /\ NoFault
           /\ \E d \in Unused(asset) :
                  asset' = [asset EXCEPT ![d] = [state |-> "live", board |-> z.board, kind |-> "ibom", by |-> {p}]]
  <2>1. Attaches(proc[p], z.board) /\ proc[p].pc \in {"assets", "attach"}
    BY <1>1, <1>2 DEF Attaches
  <2>2. /\ Done \in Proc /\ Staged(Done) /\ Held(Done) /\ Done.pc \in {"assets", "done"}
        /\ \A o \in Boards : ~Attaches(Done, o) /\ Done.board # o
    BY Rows, Over
  <2> QED
    BY <1>2, <1>3, <2>1, <2>2, Attached
<1>4. CASE (Fault \/ NoFault) /\ UNCHANGED asset
  <2>1. \A l \in Lines : ~Comes(proc[p], l)
    BY <1>1, <1>2, Elsewhere
  <2> QED
    BY <1>1, <1>2, <1>4, <2>1, Rows, Over, Goes DEF Covering
<1> QED
  BY <1>1, <1>2, <1>3, <1>4, Attaching

\* The interactive BOM of a board is taken away for the one that will come. A board
\* another request will attach one to is noted.
LEMMA DeleteBoardAssetsOfKindSafe ==
  ASSUME Safe, NEW p \in Procs, DeleteBoardAssetsOfKind(p)
  PROVE  Safe'
<1>1. PICK z \in Proc : z = proc[p] /\ Staged(z) /\ Held(z)
  BY DEF Safe, TypesInv, Requests, RulesInv
<1> DEFINE b == z.board
           r == [z EXCEPT !.pc = "attach"]
<1>2. /\ z.pc = "clear" /\ b \in Boards /\ missed \subseteq Keys
      /\ UNCHANGED <<part, board, line, rule, missed>>
  BY <1>1 DEF DeleteBoardAssetsOfKind, AtPc, Staged, Safe, TypesInv, Tables
<1>3. \A l \in Lines : ~Comes(proc[p], l)
  BY <1>1, <1>2, Elsewhere
<1>4. CASE /\ NoFault /\ Goto(p, "attach") /\ WithoutAssets(AssetsOfKind(b, "ibom"))
           /\ torn' = torn \cup IF Replacing(b) = {} THEN {} ELSE {b}
  <2>1. /\ r \in Proc /\ r.pc = "attach" /\ r.board = b /\ r.todo = z.todo
    BY DEF Proc, Stages
  <2>2. proc' = [proc EXCEPT ![p] = r]
    BY <1>1, <1>4 DEF Goto, Safe, TypesInv, Requests
  <2> HIDE DEF r
  <2>3. Staged(r) /\ Held(r)
    BY <1>1, <1>2, <2>1 DEF Staged, Held, Covering
  <2> DEFINE G == AssetsOfKind(b, "ibom")
  <2>4. /\ asset' \in [Assets -> Asset] /\ cover' \in Assets \cup {NoAsset} /\ G \in SUBSET Assets
        /\ \A a \in G : asset'[a].state = "deleted"
        /\ \A a \in Assets \ G : asset'[a] = asset[a]
        /\ cover' # NoAsset => asset'[cover'].state = "live"
        /\ cover' \in {cover, NoAsset} /\ (cover \notin G => cover' = cover)
    <3>1. G \in SUBSET Assets
      BY DEF AssetsOfKind
    <3> HIDE DEF G
    <3>2. WithoutAssets(G)
      BY <1>4 DEF G
    <3> QED
      BY <3>1, <3>2, AssetsGo DEF Safe, TypesInv
  <2>5. TypesInv'
    BY <1>2, <1>4, <2>1, <2>2, <2>3, <2>4, AssetTypes DEF Safe, TypesInv, Tables
  <2>6. AssetsOfKind(b, "ibom")' = {}
    BY <2>4 DEF AssetsOfKind
  <2>7. b \notin torn' => \A q \in Procs : ~Attaches(proc[q], b)
    BY <1>4 DEF Replacing, Attaches
  <2>8. \A o \in Boards : Attaches(r, o) => o = b
    BY <2>1 DEF Attaches
  <2>9. BoardsMove(p, r)
    BY <1>1, <1>2, <1>4, <2>1, <2>4, <2>6, <2>7, <2>8 DEF BoardsMove
  <2>10. CoverMove(p, r)
    BY <1>1, <1>2, <1>4, <2>1, <2>4, NoneAssumption DEF CoverMove, Covering
  <2>11. Attachments'
    BY <2>1, <2>2, <2>9, <2>10, BoardsKeep, CoverKeeps DEF Safe, TypesInv, Attachments
  <2>12. RulesInv'
    BY <1>2, <1>3, <2>1, <2>2, <2>3, RulesKeep DEF Safe
  <2> QED
    BY <2>5, <2>11, <2>12 DEF Safe
<1>5. CASE Fault /\ Finish(p) /\ AssetsUnchanged
  BY <1>1, <1>2, <1>3, <1>5, Rows, Over, Goes DEF Finish, AssetsUnchanged, Covering
<1> QED
  BY <1>1, <1>4, <1>5 DEF DeleteBoardAssetsOfKind

-----------------------------------------------------------------------------
\* The cover.

\* A request for the cover is on no board.
LEMMA CoverBoards ==
  ASSUME Safe, NEW p \in Procs, NEW r \in Proc, proc' = [proc EXCEPT ![p] = r],
         r.board = NoBoard, r.pc \notin {"attach", "match", "panel", "panelstore", "assets"},
         UNCHANGED board, torn \subseteq torn',
         \A a \in Assets : asset'[a].state = "live" =>
             \/ asset[a].state = "live" /\ asset'[a] = asset[a]
             \/ asset'[a].board \notin Boards
  PROVE  BoardsAttached'
<1>1. \A o \in Boards : ~Attaches(r, o) /\ r.board # o
  BY NoneAssumption DEF Attaches
<1>2. BoardsMove(p, r)
  BY <1>1 DEF BoardsMove
<1> QED
  BY <1>2, BoardsKeep DEF Safe, TypesInv, Attachments

\* The old cover is looked up. Another request that is about the cover is noted.
LEMMA BeginCoverSafe ==
  ASSUME Safe, NEW p \in Procs, BeginCover(p)
  PROVE  Safe'
<1>1. PICK pc \in {"create", "uncover"} :
          proc' = [proc EXCEPT ![p] = [NoProc EXCEPT !.pc = pc, !.old = cover]]
  BY DEF BeginCover
<1>2. PICK o \in Assets \cup {NoAsset} : o = cover
  BY DEF Safe, TypesInv, Tables
<1> DEFINE r == [NoProc EXCEPT !.pc = pc, !.old = o]
<1>3. /\ r \in Proc /\ r.pc = pc /\ r.board = NoBoard /\ r.old = cover
      /\ r.todo = [x \in {} |-> NoRow]
  BY <1>2, Rows DEF Proc, Stages
<1>4. proc' = [proc EXCEPT ![p] = r]
  BY <1>1, <1>2
<1> HIDE DEF r
<1>5. Staged(r) /\ Held(r)
  BY <1>3 DEF Staged, Held, Covering
<1>6. /\ AtPc(p, "idle") /\ NoFault
      /\ torn' = torn \cup IF Replacing(NoBoard) = {} THEN {} ELSE {NoBoard}
      /\ UNCHANGED <<part, board, line, rule, asset, cover, missed>>
  BY DEF BeginCover, NoFault
<1>7. TypesInv'
  BY <1>3, <1>4, <1>5, <1>6, AssetTypes DEF Safe, TypesInv, Tables, References
<1>8. BoardsAttached'
  BY <1>3, <1>4, <1>6, CoverBoards
<1>9. Covered'
  <2>1. proc'[p] = r /\ \A q \in Procs : q # p => proc'[q] = proc[q]
    BY <1>4 DEF Safe, TypesInv, Requests
  <2>2. ASSUME NoBoard \notin torn', NEW q \in Procs, proc[q].pc \in Covering
        PROVE  FALSE
    <3>1. q \in Replacing(NoBoard)
      BY <2>2 DEF Replacing, Covering, Staged, Safe, TypesInv, Requests
    <3> QED
      BY <1>6, <2>2, <3>1
  <2>3. {"create", "cover", "uncover", "drop"} = Covering
    BY DEF Covering
  <2>4. ASSUME NoBoard \notin torn'
        PROVE  /\ \A x, q \in Procs : proc'[x].pc \in Covering /\ proc'[q].pc \in Covering => x = q
               /\ \A x \in Procs : proc'[x].pc \in {"create", "cover", "uncover"} =>
                      cover' \in {proc'[x].old, NoAsset}
               /\ \A a \in Assets : asset'[a].state = "live" /\ asset'[a].board = NoBoard => a = cover'
    <3>1. \A q \in Procs : proc'[q].pc \in Covering => q = p
      BY <2>1, <2>2, <2>4
    <3>2. \A q \in Procs : proc[q].pc \notin {"cover", "drop"}
      BY <2>2, <2>3, <2>4
    <3>3. NoBoard \notin torn
      BY <1>6, <2>4
    <3> QED
      BY <1>3, <1>6, <2>1, <2>3, <3>1, <3>2, <3>3 DEF Safe, Attachments, Covered
  <2> QED
    BY <2>4 DEF Covered
<1>10. RulesInv'
  BY <1>3, <1>4, <1>5, <1>6, Fresh, RulesKeep DEF Safe
<1> QED
  BY <1>7, <1>8, <1>9, <1>10 DEF Safe, Attachments

\* What is true of the one request that changes the cover while nothing is torn.
LEMMA CoverTurn ==
  ASSUME Safe, NEW p \in Procs, proc[p].pc \in Covering, NoBoard \notin torn
  PROVE  /\ \A q \in Procs : proc[q].pc \in Covering => q = p
         /\ \A q \in Procs : q # p => proc[q].pc \notin {"create", "cover", "uncover", "drop"}
         /\ proc[p].pc # "drop" => cover \in {proc[p].old, NoAsset}
         /\ \A a \in Assets : asset[a].state = "live" /\ asset[a].board = NoBoard =>
                \/ a = cover
                \/ proc[p].pc = "cover" /\ proc[p].new = a
                \/ proc[p].pc = "drop" /\ proc[p].old = a
<1>1. {"create", "cover", "uncover", "drop"} = Covering
  BY DEF Covering
<1> QED
  BY <1>1 DEF Safe, Attachments, Covered

\* When the one request that changes the cover moves, all that counts is what it has
\* in hand afterwards.
LEMMA CoverTurns ==
  ASSUME Safe, NEW p \in Procs, proc[p].pc \in Covering, NEW r \in Proc, proc' = [proc EXCEPT ![p] = r],
         torn \subseteq torn',
         NoBoard \notin torn' =>
             /\ r.pc \in {"create", "cover", "uncover"} => cover' \in {r.old, NoAsset}
             /\ \A a \in Assets : asset'[a].state = "live" /\ asset'[a].board = NoBoard =>
                    \/ a = cover'
                    \/ r.pc = "cover" /\ r.new = a
                    \/ r.pc = "drop" /\ r.old = a
  PROVE  Covered'
<1>1. proc'[p] = r /\ \A q \in Procs : q # p => proc'[q] = proc[q]
  BY DEF Safe, TypesInv, Requests
<1>2. {"create", "cover", "uncover", "drop"} = Covering
  BY DEF Covering
<1>3. ASSUME NoBoard \notin torn'
      PROVE  /\ \A x, q \in Procs : proc'[x].pc \in Covering /\ proc'[q].pc \in Covering => x = q
             /\ \A x \in Procs : proc'[x].pc \in {"create", "cover", "uncover"} =>
                    cover' \in {proc'[x].old, NoAsset}
             /\ \A a \in Assets : asset'[a].state = "live" /\ asset'[a].board = NoBoard =>
                    \/ a = cover'
                    \/ \E x \in Procs : \/ proc'[x].pc = "cover" /\ proc'[x].new = a
                                        \/ proc'[x].pc = "drop" /\ proc'[x].old = a
  <2>1. NoBoard \notin torn
    BY <1>3
  <2>2. \A q \in Procs : proc'[q].pc \in Covering => q = p
    BY <1>1, <2>1, CoverTurn
  <2> QED
    BY <1>1, <1>2, <1>3, <2>2
<1> QED
  BY <1>3 DEF Covered

\* A new cover is stored as an asset of the project.
LEMMA CreateCoverSafe ==
  ASSUME Safe, NEW p \in Procs, CreateCover(p)
  PROVE  Safe'
<1>1. PICK z \in Proc : z = proc[p] /\ Staged(z) /\ Held(z)
  BY DEF Safe, TypesInv, Requests, RulesInv
<1>2. /\ z.pc = "create" /\ z.board = NoBoard /\ z.pc \in Covering
      /\ UNCHANGED <<part, board, line, rule, cover, missed, torn>>
  BY <1>1 DEF CreateCover, AtPc, Staged, Covering
<1>3. \A l \in Lines : ~Comes(proc[p], l)
  BY <1>1, <1>2, Elsewhere
<1>4. ASSUME NoFault, NEW d \in Unused(asset),
             asset' = [asset EXCEPT ![d] = [NoAsset0 EXCEPT !.state = "live"]],
             proc' = [proc EXCEPT ![p].pc = "cover", ![p].new = d]
      PROVE  Safe'
  <2> DEFINE r == [z EXCEPT !.pc = "cover", !.new = d]
             row == [NoAsset0 EXCEPT !.state = "live"]
  <2>1. /\ asset \in [Assets -> Asset] /\ d \in Assets /\ asset[d].state = "unused"
        /\ row \in Asset /\ row.state = "live" /\ row.board = NoBoard
    BY Rows DEF Unused, Safe, TypesInv, Tables, Asset
  <2>2. /\ asset' \in [Assets -> Asset] /\ asset'[d] = row
        /\ \A a \in Assets \ {d} : asset'[a] = asset[a]
    BY <1>4, <2>1
  <2>3. /\ r \in Proc /\ r.pc = "cover" /\ r.board = NoBoard /\ r.todo = z.todo /\ r.old = z.old /\ r.new = d
    BY <1>2, <2>1 DEF Proc, Stages
  <2>4. proc' = [proc EXCEPT ![p] = r]
    BY <1>1, <1>4 DEF Safe, TypesInv, Requests
  <2> HIDE DEF r, row
  <2>5. Staged(r) /\ Held(r)
    BY <1>1, <2>1, <2>3 DEF Staged, Held, Covering
  <2>6. TypesInv'
    BY <1>2, <1>4, <2>1, <2>2, <2>3, <2>4, <2>5, AssetTypes DEF Safe, TypesInv, Tables, References
  <2>7. BoardsAttached'
    <3>1. \A a \in Assets : asset'[a].state = "live" =>
              \/ asset[a].state = "live" /\ asset'[a] = asset[a]
              \/ asset'[a].board \notin Boards
      BY <2>1, <2>2, NoneAssumption
    <3> QED
      BY <1>2, <2>3, <2>4, <3>1, CoverBoards
  <2>8. Covered'
    <3>1. NoBoard \notin torn => /\ cover \in {z.old, NoAsset}
                                /\ \A a \in Assets : asset[a].state = "live" /\ asset[a].board = NoBoard =>
                                       a = cover
      BY <1>1, <1>2, CoverTurn
    <3>2. NoBoard \notin torn =>
              \A a \in Assets : asset'[a].state = "live" /\ asset'[a].board = NoBoard => a = cover \/ a = d
      BY <2>2, <3>1
    <3> QED
      BY <1>1, <1>2, <2>3, <2>4, <3>1, <3>2, CoverTurns
  <2>9. RulesInv'
    BY <1>2, <1>3, <2>3, <2>4, <2>5, RulesKeep DEF Safe
  <2> QED
    BY <2>6, <2>7, <2>8, <2>9 DEF Safe, Attachments
<1>5. CASE Fault /\ UNCHANGED asset /\ Finish(p)
  <2>1. TypesInv'
    BY <1>2, <1>5, Rows, AssetTypes DEF Safe, TypesInv, Tables, References, Finish
  <2>2. BoardsAttached'
    BY <1>2, <1>5, Rows, CoverBoards DEF Finish
  <2>3. Covered'
    BY <1>1, <1>2, <1>5, Rows, CoverTurn, CoverTurns DEF Finish
  <2>4. RulesInv'
    BY <1>2, <1>3, <1>5, Rows, Over, RulesKeep DEF Safe, Finish
  <2> QED
    BY <2>1, <2>2, <2>3, <2>4 DEF Safe, Attachments
<1> QED
  BY <1>4, <1>5 DEF CreateCover

\* The new cover is set, if it is still there; otherwise it is noted as left behind.
LEMMA SetProjectCoverSafe ==
  ASSUME Safe, NEW p \in Procs, SetProjectCover(p)
  PROVE  Safe'
<1>1. PICK z \in Proc : z = proc[p] /\ Staged(z) /\ Held(z)
  BY DEF Safe, TypesInv, Requests, RulesInv
<1>2. /\ z.pc = "cover" /\ z.board = NoBoard /\ z.pc \in Covering /\ z.new \in Assets
      /\ UNCHANGED <<part, board, line, rule, asset, missed>>
  BY <1>1 DEF SetProjectCover, AtPc, Staged, Covering
<1>3. \A l \in Lines : ~Comes(proc[p], l)
  BY <1>1, <1>2, Elsewhere
<1>4. CASE asset[z.new].state = "live" /\ NoFault /\ cover' = z.new /\ UNCHANGED torn /\ Goto(p, "drop")
  <2> DEFINE r == [z EXCEPT !.pc = "drop"]
  <2>1. r \in Proc /\ r.pc = "drop" /\ r.board = NoBoard /\ r.todo = z.todo /\ r.old = z.old
    BY <1>2 DEF Proc, Stages
  <2>2. proc' = [proc EXCEPT ![p] = r]
    BY <1>1, <1>4 DEF Goto, Safe, TypesInv, Requests
  <2> HIDE DEF r
  <2>3. Staged(r) /\ Held(r)
    BY <1>1, <1>2, <2>1 DEF Staged, Held, Covering
  <2>4. TypesInv'
    BY <1>2, <1>4, <2>1, <2>2, <2>3, AssetTypes DEF Safe, TypesInv, Tables
  <2>5. BoardsAttached'
    BY <1>2, <1>4, <2>1, <2>2, CoverBoards
  <2>6. NoBoard \notin torn => \A a \in Assets : asset[a].state = "live" /\ asset[a].board = NoBoard =>
             a = z.new \/ a = z.old
    BY <1>1, <1>2, CoverTurn, NoneAssumption
  <2>7. Covered'
    BY <1>1, <1>2, <1>4, <2>1, <2>2, <2>6, CoverTurns
  <2>8. RulesInv'
    BY <1>2, <1>3, <2>1, <2>2, <2>3, RulesKeep DEF Safe
  <2> QED
    BY <2>4, <2>5, <2>7, <2>8 DEF Safe, Attachments
<1>5. CASE (Fault \/ NoFault) /\ UNCHANGED cover /\ torn' = torn \cup {NoBoard} /\ Finish(p)
  <2>1. TypesInv'
    BY <1>2, <1>5, Rows, AssetTypes DEF Safe, TypesInv, Tables, References, Finish
  <2>2. BoardsAttached'
    BY <1>2, <1>5, Rows, CoverBoards DEF Finish
  <2>3. Covered'
    BY <1>5 DEF Covered
  <2>4. RulesInv'
    BY <1>2, <1>3, <1>5, Rows, Over, RulesKeep DEF Safe, Finish
  <2> QED
    BY <2>1, <2>2, <2>3, <2>4 DEF Safe, Attachments
<1> QED
  BY <1>1, <1>4, <1>5 DEF SetProjectCover

\* The project forgets its cover, or fails to.
LEMMA ClearCoverSafe ==
  ASSUME Safe, NEW p \in Procs, ClearCover(p)
  PROVE  Safe'
<1>1. PICK z \in Proc : z = proc[p] /\ Staged(z) /\ Held(z)
  BY DEF Safe, TypesInv, Requests, RulesInv
<1> DEFINE r == [z EXCEPT !.pc = "drop"]
<1>2. /\ z.pc = "uncover" /\ z.board = NoBoard /\ z.pc \in Covering
      /\ UNCHANGED <<part, board, line, rule, asset, missed, torn>> /\ (Fault \/ NoFault)
      /\ cover' \in {cover, NoAsset}
  BY <1>1 DEF ClearCover, AtPc, Staged, Covering
<1>3. r \in Proc /\ r.pc = "drop" /\ r.board = NoBoard /\ r.todo = z.todo /\ r.old = z.old
  BY <1>2 DEF Proc, Stages
<1>4. proc' = [proc EXCEPT ![p] = r]
  BY <1>1 DEF ClearCover, Goto, Safe, TypesInv, Requests
<1> HIDE DEF r
<1>5. Staged(r) /\ Held(r)
  BY <1>1, <1>2, <1>3 DEF Staged, Held, Covering
<1>6. TypesInv'
  BY <1>2, <1>3, <1>4, <1>5, AssetTypes DEF Safe, TypesInv, Tables, References
<1>7. BoardsAttached'
  BY <1>2, <1>3, <1>4, CoverBoards
<1>8. NoBoard \notin torn => \A a \in Assets : asset[a].state = "live" /\ asset[a].board = NoBoard =>
           a = cover /\ (a = z.old \/ cover = NoAsset)
  BY <1>1, <1>2, CoverTurn
<1>9. Covered'
  BY <1>1, <1>2, <1>3, <1>4, <1>8, CoverTurns, NoneAssumption
<1>10. RulesInv'
  BY <1>1, <1>2, <1>3, <1>4, <1>5, Elsewhere, RulesKeep DEF Safe
<1> QED
  BY <1>6, <1>7, <1>9, <1>10 DEF Safe, Attachments

\* The old cover goes, or is noted as left behind.
LEMMA DropOldCoverSafe ==
  ASSUME Safe, NEW p \in Procs, DropOldCover(p)
  PROVE  Safe'
<1>1. PICK z \in Proc : z = proc[p] /\ Staged(z) /\ Held(z)
  BY DEF Safe, TypesInv, Requests, RulesInv
<1>2. /\ z.pc = "drop" /\ z.board = NoBoard /\ z.pc \in Covering
      /\ UNCHANGED <<part, board, line, rule, missed>> /\ proc' = [proc EXCEPT ![p] = Done]
  BY <1>1 DEF DropOldCover, AtPc, Staged, Covering, Finish
<1>3. \A l \in Lines : ~Comes(proc[p], l)
  BY <1>1, <1>2, Elsewhere
<1>4. RulesInv'
  BY <1>2, <1>3, Rows, Over, RulesKeep DEF Safe
<1>5. CASE NoFault /\ UNCHANGED torn /\ WithoutAssets(Outdated(p))
  <2> DEFINE G == Outdated(p)
  <2>1. G \in SUBSET Assets /\ (\A a \in Assets : a = z.old => a \in G)
    BY <1>1, NoneAssumption DEF Outdated, Proc
  <2> HIDE DEF G
  <2>2. WithoutAssets(G)
    BY <1>5 DEF G
  <2>3. /\ asset' \in [Assets -> Asset] /\ cover' \in Assets \cup {NoAsset}
        /\ \A a \in G : asset'[a].state = "deleted"
        /\ \A a \in Assets \ G : asset'[a] = asset[a]
        /\ cover' # NoAsset => asset'[cover'].state = "live"
        /\ cover' \in {cover, NoAsset} /\ (cover \notin G => cover' = cover)
    BY <2>1, <2>2, AssetsGo DEF Safe, TypesInv
  <2>4. TypesInv'
    BY <1>2, <1>5, <2>3, Rows, AssetTypes DEF Safe, TypesInv, Tables
  <2>5. BoardsAttached'
    BY <1>2, <1>5, <2>3, Rows, CoverBoards
  <2>6. NoBoard \notin torn => \A a \in Assets : asset[a].state = "live" /\ asset[a].board = NoBoard =>
             a = cover \/ a = z.old
    BY <1>1, <1>2, CoverTurn
  <2>7. \A a \in Assets : asset'[a].state = "live" => a \notin G /\ asset'[a] = asset[a]
    BY <2>3
  <2>8. NoBoard \notin torn =>
            \A a \in Assets : asset'[a].state = "live" /\ asset'[a].board = NoBoard => a = cover'
    BY <2>1, <2>3, <2>6, <2>7
  <2>9. Covered'
    BY <1>1, <1>2, <1>5, <2>8, Rows, CoverTurns
  <2> QED
    BY <1>4, <2>4, <2>5, <2>9 DEF Safe, Attachments
<1>6. CASE Fault /\ torn' = torn \cup {NoBoard} /\ UNCHANGED <<asset, cover>>
  <2>1. TypesInv'
    BY <1>2, <1>6, Rows, AssetTypes DEF Safe, TypesInv, Tables, References
  <2>2. BoardsAttached'
    BY <1>2, <1>6, Rows, CoverBoards
  <2>3. Covered'
    BY <1>6 DEF Covered
  <2> QED
    BY <1>4, <2>1, <2>2, <2>3 DEF Safe, Attachments
<1> QED
  BY <1>5, <1>6 DEF DropOldCover

-----------------------------------------------------------------------------
\* Parts.

\* A part goes with the rules that name it, and lines forget it. A match with it that a
\* request holds will not be stored.
LEMMA DeletePartSafe ==
  ASSUME Safe, NEW p \in Procs, DeletePart(p)
  PROVE  Safe'
<1>1. PICK q \in part :
          /\ part' = part \ {q} /\ rule' = RulesWithout(q)
          /\ line' = [l \in Lines |-> IF line[l].match.part = q THEN [line[l] EXCEPT !.match.part = NoPart]
                                      ELSE line[l]]
  BY DEF DeletePart
<1>2. /\ AtPc(p, "idle") /\ proc' = [proc EXCEPT ![p] = Done]
      /\ UNCHANGED <<board, asset, cover, torn, missed, faults>>
  BY DEF DeletePart, AssetsUnchanged, Finish
<1>3. line \in [Lines -> Line] /\ part \subseteq Parts /\ rule \in [Keys -> Parts \cup {NoPart}]
  BY DEF Safe, TypesInv, Tables
<1>4. ASSUME NEW l \in Lines
      PROVE  /\ line'[l] \in Line /\ line'[l].state = line[l].state /\ line'[l].content = line[l].content
             /\ line'[l].board = line[l].board
             /\ line[l].match.part = q => line'[l].match.part = NoPart
             /\ line[l].match.part # q => line'[l] = line[l]
  <2>1. line[l] \in Line
    BY <1>3
  <2>2. PICK row : row = line[l]
    OBVIOUS
  <2>3. row \in Line /\ row.match \in Match
    BY <2>1, <2>2 DEF Line
  <2> DEFINE m == [row.match EXCEPT !.part = NoPart]
  <2>4. m \in Match /\ m.part = NoPart
    BY <2>3 DEF Match
  <2>5. [row EXCEPT !.match.part = NoPart] = [row EXCEPT !.match = m]
    BY <2>3 DEF Line
  <2> HIDE DEF m
  <2>6. /\ [row EXCEPT !.match = m] \in Line /\ [row EXCEPT !.match = m].state = row.state
        /\ [row EXCEPT !.match = m].content = row.content /\ [row EXCEPT !.match = m].board = row.board
        /\ [row EXCEPT !.match = m].match = m
    BY <2>3, <2>4 DEF Line
  <2>7. line'[l] = IF row.match.part = q THEN [row EXCEPT !.match = m] ELSE row
    BY <1>1, <2>2, <2>5
  <2> QED
    BY <2>1, <2>2, <2>4, <2>6, <2>7
<1>5. line' = [l \in Lines |-> line'[l]]
  BY <1>1
<1>6. \A k \in Keys : rule'[k] = IF rule[k] = q THEN NoPart ELSE rule[k]
  BY <1>1 DEF RulesWithout
<1>7. rule' \in [Keys -> Parts \cup {NoPart}]
  BY <1>1, <1>3 DEF RulesWithout
<1>8. q # NoPart
  BY <1>3, NoneAssumption
<1>9. TypesInv'
  <2>1. line' \in [Lines -> Line]
    BY <1>4, <1>5
  <2>2. Tables'
    BY <1>1, <1>2, <1>7, <2>1 DEF Safe, TypesInv, Tables
  <2>3. References'
    <3>1. ASSUME NEW l \in Lines, line'[l].state = "live"
          PROVE  /\ line'[l].content \in Contents
                 /\ board'[line'[l].board] = "live" /\ line'[l].board \in Boards
                 /\ line'[l].match.part \in part' \cup {NoPart}
      BY <1>1, <1>2, <1>4, <3>1 DEF Safe, TypesInv, References
    <3>2. \A k \in Keys : rule'[k] \in part' \cup {NoPart}
      BY <1>1, <1>6 DEF Safe, TypesInv, References
    <3>3. cover' # NoAsset => asset'[cover'].state = "live"
      BY <1>2 DEF Safe, TypesInv, References
    <3> QED
      BY <3>1, <3>2, <3>3 DEF References
  <2>4. Requests'
    BY <1>2, Rows, RowStep DEF Safe, TypesInv
  <2> QED
    BY <2>2, <2>3, <2>4 DEF TypesInv
<1>10. Attachments'
  BY <1>2, AttachmentsKeep, Rows, Over, Fresh DEF Safe, TypesInv
<1>11. RulesInv'
  <2>1. \A k, m : m.part # q /\ Right(k, m) => Right(k, m)'
    <3> SUFFICES ASSUME NEW k, NEW m, m.part # q, Right(k, m)
                 PROVE  Right(k, m)'
      OBVIOUS
    <3>1. CASE k \in Keys
      <4>1. CASE rule[k] = q
        <5>1. m.kind = "fbpn" \/ m = [part |-> rule[k], kind |-> "project"]
          BY <1>8, <3>1, <4>1 DEF Right
        <5>2. m.kind = "fbpn"
          BY <4>1, <5>1
        <5> QED
          BY <1>6, <3>1, <4>1, <5>2 DEF Right
      <4>2. CASE rule[k] # q
        BY <1>6, <3>1, <4>2 DEF Right
      <4> QED
        BY <4>1, <4>2
    <3>2. CASE k \notin Keys
      BY <3>2 DEF Right
    <3> QED
      BY <3>1, <3>2
  <2>2. \A k, m : Fine(k, m) => Fine(k, m)'
    BY <1>1, <1>2, <2>1 DEF Fine
  <2>3. \A k : Excused(k) => Excused(k)'
    BY <1>2 DEF Excused
  <2>4. \A c : \A l \in Lines : Agrees(c, l) => Agrees(c, l)'
    BY <1>4, <2>3 DEF Agrees
  <2>5. proc'[p] = Done /\ \A o \in Procs : o # p => proc'[o] = proc[o]
    BY <1>2 DEF Safe, TypesInv, Requests
  <2>6. ASSUME NEW o \in Procs
        PROVE  Held(proc[o])'
    <3>1. CASE o = p
      <4>1. Held(Done)'
        BY Rows DEF Held
      <4> QED
        BY <2>5, <3>1, <4>1 DEF Held, Agrees, Fine, Right, Excused
    <3>2. CASE o # p
      <4>1. PICK z \in Proc : z = proc[o] /\ Staged(z) /\ Held(z)
        BY DEF Safe, TypesInv, Requests, RulesInv
      <4>2. \A l \in DOMAIN z.todo : Agrees(z.todo[l].content, l)'
        <5>1. \A l \in DOMAIN z.todo : l \in Lines
          BY DEF Proc, Copies
        <5> QED
          BY <2>4, <4>1, <5>1 DEF Held
      <4>3. z.pc = "set" => Agrees(z.content, z.line)'
        BY <2>4, <4>1 DEF Held, Staged
      <4>4. Held(z)'
        BY <2>2, <4>1, <4>2, <4>3 DEF Held
      <4>5. z = proc'[o]
        BY <2>5, <3>2, <4>1
      <4> QED
        BY <4>4, <4>5 DEF Held, Agrees, Fine, Right, Excused
    <3> QED
      BY <3>1, <3>2
  <2>7. ASSUME NEW l \in Lines
        PROVE  Reached(l)'
    <3>1. CASE line[l].match.part = q
      BY <1>4, <3>1 DEF Reached
    <3>2. CASE line[l].match.part # q
      <4>1. line'[l] = line[l]
        BY <1>4, <3>2
      <4>2. PICK k, m : k = matchKey(line[l].content) /\ m = line[l].match
        OBVIOUS
      <4>3. k = matchKey(line'[l].content) /\ m = line'[l].match
        BY <4>1, <4>2
      <4>4. line[l].state = "live" => \/ m.part = NoPart \/ Excused(k) \/ Right(k, m)
                                      \/ k # <<>> /\ \E o \in Procs : Comes(proc[o], l)
        BY <4>2 DEF Safe, RulesInv, Reached
      <4>5. Right(k, m) => Right(k, m)'
        BY <2>1, <3>2, <4>2
      <4>6. ASSUME NEW o \in Procs, Comes(proc[o], l)
            PROVE  Comes(proc[o], l)'
        <5>1. o # p
          BY <1>2, <4>6, Fresh
        <5>2. proc'[o] = proc[o]
          BY <2>5, <5>1
        <5> QED
          BY <4>1, <4>6, <5>2 DEF Comes
      <4> QED
        BY <2>3, <4>1, <4>3, <4>4, <4>5, <4>6 DEF Reached
    <3> QED
      BY <3>1, <3>2
  <2> QED
    BY <2>6, <2>7 DEF RulesInv
<1> QED
  BY <1>9, <1>10, <1>11 DEF Safe

-----------------------------------------------------------------------------
\* Every step.

\* A project without boards is in order.
LEMMA InitSafe ==
  ASSUME Init
  PROVE  Safe
<1>1. Tables
  <2>1. rule \in [Keys -> Parts \cup {NoPart}]
    BY DEF Init
  <2>2. line \in [Lines -> Line] /\ asset \in [Assets -> Asset]
    BY Rows DEF Init
  <2> QED
    BY <2>1, <2>2, BudgetAssumption DEF Init, Tables
<1>2. References
  BY Rows DEF Init, References
<1>3. Requests
  BY Rows DEF Init, Requests
<1>4. \A p \in Procs : proc[p] = NoProc /\ Held(NoProc)
  BY Rows DEF Init, Held
<1>5. \A b \in Boards : ~Attaches(NoProc, b) /\ NoProc.board # b
  BY Rows, NoneAssumption DEF Attaches
<1>6. NoProc.pc \notin Covering /\ {"create", "cover", "uncover", "drop"} = Covering
  BY Rows DEF Covering
<1>7. \A a \in Assets : asset[a].state = "unused"
  BY Rows DEF Init
<1>8. BoardsAttached
  BY <1>4, <1>5, <1>7 DEF BoardsAttached, AssetsOfKind
<1>9. Covered
  BY <1>4, <1>6, <1>7 DEF Covered
<1>10. RulesInv
  <2>1. \A p \in Procs : Held(proc[p])
    BY <1>4
  <2>2. \A l \in Lines : Reached(l)
    BY Rows DEF Init, Reached
  <2> QED
    BY <2>1, <2>2 DEF RulesInv
<1> QED
  BY <1>1, <1>2, <1>3, <1>8, <1>9, <1>10 DEF Safe, TypesInv, Attachments

\* Every statement of every request keeps what holds.
LEMMA NextSafe ==
  ASSUME Safe, [Next]_vars
  PROVE  Safe'
<1>1. ASSUME NEW p \in Procs, Request(p)
      PROVE  Safe'
  <2>1. CASE BeginImport(p) \/ CreateBoard(p) \/ MatchLine(p) \/ ReplaceBOMLines(p) \/ ExtractAssets(p)
    BY <2>1, BeginImportSafe, CreateBoardSafe, MatchLineSafe, ReplaceBOMLinesSafe, ExtractAssetsSafe
  <2>2. CASE CreateBlankBoard(p) \/ BeginLine(p) \/ BeginSetProjectMatch(p) \/ ApplyMatch(p)
    BY <2>2, CreateBlankBoardSafe, BeginLineSafe, BeginSetProjectMatchSafe, ApplyMatchSafe
  <2>3. CASE SetProjectMatch(p) \/ ResolveLine(p) \/ WriteLine(p)
    BY <2>3, SetProjectMatchSafe, ResolveLineSafe, WriteLineSafe
  <2>4. CASE ListBoards(p) \/ ListLines(p) \/ Rematch(p) \/ SetLineMatch(p)
    BY <2>4, ListBoardsSafe, ListLinesSafe, RematchSafe, SetLineMatchSafe
  <2>5. CASE DeleteBOMLine(p) \/ DeleteBoard(p) \/ DeletePart(p) \/ DeleteAsset(p)
    BY <2>5, DeleteBOMLineSafe, DeleteBoardSafe, DeletePartSafe, DeleteAssetSafe
  <2>6. CASE BeginUploadBoardAsset(p) \/ DeleteBoardAssetsOfKind(p) \/ AttachAsset(p)
    BY <2>6, BeginUploadBoardAssetSafe, DeleteBoardAssetsOfKindSafe, AttachAssetSafe
  <2>7. CASE BeginCover(p) \/ CreateCover(p) \/ SetProjectCover(p) \/ ClearCover(p) \/ DropOldCover(p)
    BY <2>7, BeginCoverSafe, CreateCoverSafe, SetProjectCoverSafe, ClearCoverSafe, DropOldCoverSafe
  <2> QED
    BY <1>1, <2>1, <2>2, <2>3, <2>4, <2>5, <2>6, <2>7 DEF Request
<1>2. CASE UNCHANGED vars
  <2>1. TypesInv'
    BY <1>2 DEF Safe, TypesInv, Tables, References, Requests, vars
  <2>2. BoardsAttached'
    BY <1>2 DEF Safe, Attachments, BoardsAttached, AssetsOfKind, Attaches, vars
  <2>3. Covered'
    BY <1>2 DEF Safe, Attachments, Covered, vars
  <2>4. RulesInv'
    BY <1>2 DEF Safe, RulesInv, Held, Reached, Agrees, Fine, Right, Excused, Comes, vars
  <2> QED
    BY <2>1, <2>2, <2>3, <2>4 DEF Safe, Attachments
<1> QED
  BY <1>1, <1>2 DEF Next

\* The inductive invariant of a project.
THEOREM ProjectSafe == Spec => []Safe
<1>1. Init => Safe
  BY InitSafe
<1>2. Safe /\ [Next]_vars => Safe'
  BY NextSafe
<1> QED
  BY <1>1, <1>2, PTL DEF Spec

\* Rows and requests have their types, and no row refers to a board, a part or an asset
\* that is gone, however requests and deletions interleave.
THEOREM ProjectTyped == Spec => []TypeOK
<1>1. Safe => TypeOK
  <2> SUFFICES ASSUME Safe
               PROVE  TypeOK
    OBVIOUS
  <2>1. ASSUME NEW p \in Procs
        PROVE  /\ DOMAIN proc[p] = DOMAIN NoProc /\ proc[p].match \in Match
               /\ proc[p].todo \in [DOMAIN proc[p].todo -> Line]
    <3>1. proc[p] \in Proc /\ NoProc \in Proc
      BY Rows DEF Safe, TypesInv, Requests
    <3>2. \A r \in Proc : DOMAIN r = {"pc", "board", "line", "content", "given", "match", "changed", "file",
                                      "matched", "panel", "iboms", "boards", "todo", "old", "new"}
      BY DEF Proc
    <3>3. proc[p].match \in Match /\ proc[p].todo \in Copies
      BY <3>1, Fields
    <3>4. proc[p].todo \in [DOMAIN proc[p].todo -> Line]
      BY <3>3 DEF Copies
    <3> QED
      BY <3>1, <3>2, <3>3, <3>4
  <2> QED
    BY <2>1 DEF TypeOK, Safe, TypesInv, Tables, References
<1> QED
  BY <1>1, ProjectSafe, PTL

\* What replaces an attachment leaves none of what it replaced: the interactive BOMs of a
\* board came with one request, an upload's one or those of an imported zip, and a project
\* has no image that is not its cover, unless two requests replaced it at once or one
\* failed half way.
THEOREM NothingLeftBehind == Spec => []AttachmentsReplaced
<1>1. Safe => AttachmentsReplaced
  <2> SUFFICES ASSUME Safe
               PROVE  AttachmentsReplaced
    OBVIOUS
  <2>1. OneIBOM
    BY DEF Safe, Attachments, BoardsAttached, OneIBOM
  <2>2. NoOrphanedCover
    BY DEF Safe, Attachments, Covered, NoOrphanedCover, Quiet
  <2> QED
    BY <2>1, <2>2 DEF AttachmentsReplaced
<1> QED
  BY <1>1, ProjectSafe, PTL

\* A rule reaches every line: when nothing is running, a matched line of an identity with
\* a rule has the rule's part, unless its own part number names one, and no line claims a
\* rule there is not, except for the identities that a change of the rule raced with or
\* whose rule could not be looked up.
THEOREM RulesReach == Spec => []RulesReachLines
<1>1. Safe => RulesReachLines
  <2> SUFFICES ASSUME Safe, Quiet, NEW l \in Lines, line[l].state = "live", line[l].match.part # NoPart,
                      matchKey(line[l].content) \notin missed,
                      matchKey(line[l].content) = <<>> => Keys \cap missed = {}
               PROVE  IF matchKey(line[l].content) # <<>> /\ rule[matchKey(line[l].content)] # NoPart
                      THEN \/ line[l].match.kind = "fbpn"
                           \/ line[l].match = [part |-> rule[matchKey(line[l].content)], kind |-> "project"]
                      ELSE line[l].match.kind # "project"
    BY DEF RulesReachLines
  <2>1. \A p \in Procs : ~Comes(proc[p], l)
    BY Elsewhere DEF Quiet
  <2>2. ~Excused(matchKey(line[l].content))
    BY DEF Excused
  <2>3. Right(matchKey(line[l].content), line[l].match)
    BY <2>1, <2>2 DEF Safe, RulesInv, Reached
  <2>4. matchKey(line[l].content) # <<>> => matchKey(line[l].content) \in Keys
    BY Identity DEF Safe, TypesInv, References
  <2>5. <<>> \notin Keys
    BY DEF Keys
  <2> QED
    BY <2>3, <2>4, <2>5 DEF Right
<1> QED
  BY <1>1, ProjectSafe, PTL
====
