------------------------------ MODULE Projects ------------------------------
\* The boards of one project, their BOM lines, the project's match rules and its
\* assets (handlers/projects.go, repository/project.go).
\*
\* A rule says which part a BOM identity means in the whole project. A request that
\* changes a rule goes over every line afterwards, one statement at a time, while
\* other requests add, edit and import lines they have matched a moment ago. No
\* transaction spans a request, except that a board's lines are replaced in one.
EXTENDS Matching

CONSTANTS Boards, Lines, Assets,    \* ids, each used at most once
          Parts,
          Catalogue,                \* what names the parts, as in Matching
          Contents,                 \* what BOM lines say: records of Matching
          Files,                    \* uploads: their lines, whether they hold a panel, and how many iBOMs
          Procs,                    \* requests, each served once
          NoBoard, NoLine, NoAsset, NoContent,
          MaxFaults                 \* how many statements may fail

ASSUME NoneAssumption == /\ NoPart \notin Parts /\ NoBoard \notin Boards
                         /\ NoLine \notin Lines /\ NoAsset \notin Assets
ASSUME BudgetAssumption == MaxFaults \in Nat
ASSUME FilesAssumption  == Files \subseteq [lines : Seq(Contents), panel : BOOLEAN, iboms : Nat]

VARIABLES part,         \* the parts there are
          board, line, rule, asset,
          cover,        \* the asset that is the project's uploaded cover
          proc, faults,
          missed,       \* identities a line of which may have missed the rule
          torn          \* boards, and NoBoard for the cover, whose assets were replaced twice at once

vars == <<part, board, line, rule, asset, cover, proc, faults, missed, torn>>

Keys  == {matchKey(c) : c \in Contents} \ {<<>>}
Kinds == {"none", "fbpn", "project", "mpn", "supplier", "value_footprint", "tag", "manual"}
Match == [part : Parts \cup {NoPart}, kind : Kinds]
NoMatch == [part |-> NoPart, kind |-> "none"]

Line  == [state : {"unused", "live", "deleted"}, board : Boards \cup {NoBoard},
          content : Contents \cup {NoContent}, match : Match]
Asset == [state : {"unused", "live", "deleted"}, board : Boards \cup {NoBoard}, kind : {"ibom", "image"},
          by : SUBSET Procs]          \* the request that attached an interactive BOM

NoRow    == [state |-> "unused", board |-> NoBoard, content |-> NoContent, match |-> NoMatch]
NoAsset0 == [state |-> "unused", board |-> NoBoard, kind |-> "image", by |-> {}]
NoProc   == [pc |-> "idle", board |-> NoBoard, line |-> NoLine, content |-> NoContent,
             given |-> "auto", match |-> NoMatch, changed |-> FALSE, file |-> <<>>,
             matched |-> <<>>, panel |-> FALSE, iboms |-> 0, boards |-> {},
             todo |-> [l \in {} |-> NoRow], old |-> NoAsset, new |-> NoAsset]
Done     == [NoProc EXCEPT !.pc = "done"]

TypeOK ==
    /\ part \subseteq Parts /\ board \in [Boards -> {"unused", "live", "deleted"}]
    /\ line \in [Lines -> Line] /\ asset \in [Assets -> Asset]
    /\ rule \in [Keys -> Parts \cup {NoPart}] /\ cover \in Assets \cup {NoAsset}
    /\ \A p \in Procs : /\ DOMAIN proc[p] = DOMAIN NoProc /\ proc[p].match \in Match
                        /\ proc[p].todo \in [DOMAIN proc[p].todo -> Line]
    /\ faults \in 0 .. MaxFaults /\ missed \subseteq Keys /\ torn \subseteq Boards \cup {NoBoard}
    \* Foreign keys: nothing refers to a row that is gone.
    /\ \A l \in Lines : line[l].state = "live" =>
           board[line[l].board] = "live" /\ line[l].match.part \in part \cup {NoPart}
    /\ \A k \in Keys : rule[k] \in part \cup {NoPart}
    /\ cover # NoAsset => asset[cover].state = "live"

Init ==
    /\ part = Parts /\ board = [b \in Boards |-> "unused"] /\ line = [l \in Lines |-> NoRow]
    /\ rule = [k \in Keys |-> NoPart] /\ asset = [a \in Assets |-> NoAsset0] /\ cover = NoAsset
    /\ proc = [p \in Procs |-> NoProc] /\ faults = 0 /\ missed = {} /\ torn = {}

Fault   == faults < MaxFaults /\ faults' = faults + 1
NoFault == UNCHANGED faults

AtPc(p, pc) == proc[p].pc = pc
Goto(p, pc) == proc' = [proc EXCEPT ![p].pc = pc]
Finish(p)   == proc' = [proc EXCEPT ![p] = Done]
Key(p)      == matchKey(proc[p].content)

LiveLines(b) == {l \in Lines : line[l].state = "live" /\ line[l].board = b}
LiveBoards   == {b \in Boards : board[b] = "live"}
Unused(rows) == {x \in DOMAIN rows : rows[x].state = "unused"}

\* What is there to be found when lookups fail: resolveMatch drops their errors, so a
\* failed one has found nothing. Each is named after its rung.
Db(failed) ==
    LET Of(rung, pairs) == {x \in pairs : x[2] \in part /\ rung \notin failed}
    IN  [names |-> [p \in {q \in part : "value_footprint" \notin failed} |-> Catalogue.names[p]],
         ipns  |-> Of("fbpn", Catalogue.ipns),     mpns |-> Of("mpn", Catalogue.mpns),
         skus  |-> Of("supplier", Catalogue.skus), tags |-> Of("tag", Catalogue.tags)]

Rules(failed) == [k \in {x \in Keys : "project" \notin failed} |-> rule[k]]

Resolve(content, failed) == resolveMatch(Db(failed), Rules(failed), content)

\* Lookups are made best rung first until one finds something. So those that fail, of
\* the ones that would have found something, are the first few.
Failing(content) ==
    LET rungs == Rungs(Db({}), Rules({}), content)
    IN  {{rungs[j][1] : j \in {j \in 1 .. i : rungs[j][2] # {}}} : i \in 0 .. Len(rungs)}

\* A line whose rule was not found for a failure misses it.
Lookup(content, failed) ==
    /\ IF failed = {} THEN NoFault ELSE Fault
    /\ missed' = missed \cup IF "project" \in failed THEN {matchKey(content)} ELSE {}

\* Requests that hold a match of this identity they have not written yet.
Holding(k) ==
    {p \in Procs : \/ proc[p].pc \in {"write", "set"} /\ Key(p) = k
                   \/ proc[p].pc \in {"match", "store", "panel", "panelstore"}
                      /\ \E i \in DOMAIN proc[p].matched : matchKey(proc[p].file[i]) = k}

\* Requests that are going over a copy of this line.
Reading(l) == {p \in Procs : l \in DOMAIN proc[p].todo \/ (AtPc(p, "set") /\ proc[p].line = l)}

\* Writing a rule under the eyes of such a request.
Race(p, k) == missed' = missed \cup IF Holding(k) \ {p} = {} THEN {} ELSE {k}

\* A request that changed a rule and gives up leaves lines behind.
GivesUp(p) == missed' = missed \cup IF proc[p].changed THEN Keys ELSE {}

\* An edited line that a rematch has a copy of gets the match of what it was.
Overtaken(l, k) == missed' = missed \cup IF Reading(l) = {} THEN {} ELSE IF k = <<>> THEN Keys ELSE {k}

AssetsUnchanged == UNCHANGED <<asset, cover, torn>>

-----------------------------------------------------------------------------
\* Importing a file: CreateBoard.

BeginImport(p) ==
    /\ AtPc(p, "idle")
    /\ \E f \in Files : proc' = [proc EXCEPT ![p] = [NoProc EXCEPT
           !.pc = "board", !.file = f.lines, !.panel = f.panel, !.iboms = f.iboms]]
    /\ UNCHANGED <<part, board, line, rule, faults, missed>> /\ AssetsUnchanged

\* A failure before the lines are stored ends the request; one of a panel or an asset is dropped.
CreateBoard(p) ==
    /\ proc[p].pc \in {"board", "panel"}
    /\ UNCHANGED <<part, line, rule, missed>> /\ AssetsUnchanged
    /\ \/ /\ \E b \in Boards :
               /\ board[b] = "unused" /\ board' = [board EXCEPT ![b] = "live"]
               /\ proc' = [proc EXCEPT ![p].pc = IF @ = "board" THEN "match" ELSE "panelstore",
                                       ![p].board = IF AtPc(p, "board") THEN b ELSE @,
                                       ![p].boards = {b}]
          /\ NoFault
       \/ Fault /\ UNCHANGED board /\ (IF AtPc(p, "board") THEN Finish(p) ELSE Goto(p, "assets"))

\* One line after the other.
MatchLine(p) ==
    /\ AtPc(p, "match") /\ Len(proc[p].matched) < Len(proc[p].file)
    /\ LET c == proc[p].file[Len(proc[p].matched) + 1]
       IN  \E failed \in Failing(c) :
               /\ Lookup(c, failed)
               /\ \E m \in Resolve(c, failed) : proc' = [proc EXCEPT ![p].matched = Append(@, m)]
    /\ UNCHANGED <<part, board, line, rule>> /\ AssetsUnchanged

\* The lines of board b after ReplaceBOMLines; ids of new rows in any order.
Replaced(b, p, ids) ==
    [l \in Lines |->
        IF \E i \in DOMAIN ids : ids[i] = l
        THEN LET i == CHOOSE i \in DOMAIN ids : ids[i] = l
             IN  [state |-> "live", board |-> b, content |-> proc[p].file[i], match |-> proc[p].matched[i]]
        ELSE IF line[l].state = "live" /\ line[l].board = b THEN [NoRow EXCEPT !.state = "deleted"]
        ELSE line[l]]

\* The transaction fails when the board, or a part that was matched, is gone.
Storable(b, p) == /\ board[b] = "live"
                  /\ \A i \in DOMAIN proc[p].matched : proc[p].matched[i].part \in part \cup {NoPart}

ReplaceBOMLines(p) ==
    /\ (AtPc(p, "match") /\ Len(proc[p].matched) = Len(proc[p].file)) \/ AtPc(p, "panelstore")
    /\ UNCHANGED <<part, board, rule, missed>> /\ AssetsUnchanged
    /\ LET b    == CHOOSE b \in proc[p].boards : TRUE
           next == IF AtPc(p, "match") /\ proc[p].panel THEN "panel" ELSE "assets"
       IN  \/ /\ Storable(b, p) /\ NoFault /\ Goto(p, next)
              /\ \E ids \in [DOMAIN proc[p].file -> Unused(line)] :
                     /\ \A i, j \in DOMAIN ids : ids[i] = ids[j] => i = j
                     /\ line' = Replaced(b, p, ids)
           \/ /\ IF Storable(b, p) THEN Fault ELSE NoFault
              /\ UNCHANGED line
              /\ IF AtPc(p, "match") THEN Finish(p) ELSE Goto(p, next)

\* CreateAsset of an interactive BOM, which fails when its board is gone.
Attach(p) ==
    LET possible == board[proc[p].board] = "live"
        row      == [state |-> "live", board |-> proc[p].board, kind |-> "ibom", by |-> {p}]
    IN  \/ possible /\ NoFault /\ \E a \in Unused(asset) : asset' = [asset EXCEPT ![a] = row]
        \/ (IF possible THEN Fault ELSE NoFault) /\ UNCHANGED asset

\* Every interactive BOM of the file is attached, one after the other.
ExtractAssets(p) ==
    /\ AtPc(p, "assets") /\ UNCHANGED <<part, board, line, rule, cover, missed, torn>>
    /\ \/ proc[p].iboms = 0 /\ NoFault /\ UNCHANGED asset /\ Finish(p)
       \/ proc[p].iboms > 0 /\ Attach(p) /\ proc' = [proc EXCEPT ![p].iboms = @ - 1]

CreateBlankBoard(p) ==
    /\ AtPc(p, "idle") /\ Finish(p)
    /\ \E b \in Boards : board[b] = "unused" /\ board' = [board EXCEPT ![b] = "live"]
    /\ UNCHANGED <<part, line, rule, faults, missed>> /\ AssetsUnchanged

-----------------------------------------------------------------------------
\* One line, and the rules: AddBOMLine, UpdateBOMLine, SetProjectMatch.

\* What the request says about the match: nothing, "none", or a part.
Given == {"auto", "none"} \cup Parts

BeginLine(p) ==
    /\ AtPc(p, "idle")
    /\ \E c \in Contents, g \in Given, b \in LiveBoards :
       \E l \in LiveLines(b) \cup {NoLine} :
           proc' = [proc EXCEPT ![p] = [NoProc EXCEPT
               !.pc = IF g = "auto" THEN "resolve" ELSE "rule",
               !.board = b, !.content = c, !.given = g, !.line = l]]
    /\ UNCHANGED <<part, board, line, rule, faults, missed>> /\ AssetsUnchanged

BeginSetProjectMatch(p) ==
    /\ AtPc(p, "idle")
    /\ \E c \in Contents, q \in Parts :
           /\ matchKey(c) # <<>>
           /\ proc' = [proc EXCEPT ![p] = [NoProc EXCEPT !.pc = "setmatch", !.content = c, !.given = q]]
    /\ UNCHANGED <<part, board, line, rule, faults, missed>> /\ AssetsUnchanged

\* UpsertProjectMatch succeeds while the part exists.
Upserted(k, q) == [rule EXCEPT ![k] = q]

\* A pinned match: the rule is written and its error dropped; without an identity
\* only this line is pinned. "none" removes the rule and matches anew.
ApplyMatch(p) ==
    /\ AtPc(p, "rule") /\ UNCHANGED <<part, board, line>> /\ AssetsUnchanged
    /\ LET k   == Key(p)
           g   == proc[p].given
           new == IF g = "none" THEN NoPart ELSE g
           pin == IF g = "none" THEN NoMatch ELSE [part |-> g, kind |-> IF k = <<>> THEN "manual" ELSE "project"]
       IN  /\ proc' = [proc EXCEPT ![p].pc = IF g = "none" THEN "resolve" ELSE "write",
                                   ![p].match = pin, ![p].changed = k # <<>>]
           /\ \/ /\ k # <<>> /\ new \in part \cup {NoPart} /\ NoFault
                 /\ rule' = Upserted(k, new) /\ Race(p, k)
              \/ /\ k # <<>> /\ (IF new \in part \cup {NoPart} THEN Fault ELSE NoFault)
                 /\ UNCHANGED <<rule, missed>>
              \/ k = <<>> /\ NoFault /\ UNCHANGED <<rule, missed>>

SetProjectMatch(p) ==
    /\ AtPc(p, "setmatch") /\ UNCHANGED <<part, board, line>> /\ AssetsUnchanged
    /\ LET q == proc[p].given
       IN  \/ /\ q \in part /\ NoFault /\ rule' = Upserted(Key(p), q) /\ Race(p, Key(p))
              /\ proc' = [proc EXCEPT ![p].pc = "boards", ![p].changed = TRUE]
           \/ /\ IF q \in part THEN Fault ELSE NoFault
              /\ UNCHANGED <<rule, missed>> /\ Finish(p)

ResolveLine(p) ==
    /\ AtPc(p, "resolve") /\ UNCHANGED <<part, board, line, rule>> /\ AssetsUnchanged
    /\ \E failed \in Failing(proc[p].content) :
           /\ Lookup(proc[p].content, failed)
           /\ \E m \in Resolve(proc[p].content, failed) :
                  proc' = [proc EXCEPT ![p].pc = "write", ![p].match = m]

\* The row of an edited line, if it is still there.
Written(p, l) ==
    IF proc[p].line # NoLine /\ line[l].state # "live" THEN line
    ELSE [line EXCEPT ![l] = [state |-> "live", board |-> IF proc[p].line = NoLine THEN proc[p].board ELSE @.board,
                              content |-> proc[p].content, match |-> proc[p].match]]

\* CreateBOMLine or UpdateBOMLine. A match kept from before is written all the same.
WriteLine(p) ==
    /\ AtPc(p, "write") /\ UNCHANGED <<part, board, rule>> /\ AssetsUnchanged
    /\ LET possible == /\ proc[p].match.part \in part \cup {NoPart}
                       /\ proc[p].line = NoLine => board[proc[p].board] = "live"
       IN  \/ /\ possible /\ NoFault
              /\ \E l \in IF proc[p].line = NoLine THEN Unused(line) ELSE {proc[p].line} :
                     /\ line' = Written(p, l) /\ Overtaken(l, Key(p))
              /\ IF proc[p].changed THEN Goto(p, "boards") ELSE Finish(p)
           \/ /\ IF possible THEN Fault ELSE NoFault
              /\ UNCHANGED line /\ GivesUp(p) /\ Finish(p)

-----------------------------------------------------------------------------
\* rematchProject: board after board, line after line, each matched as it was read.

ListBoards(p) ==
    /\ AtPc(p, "boards") /\ UNCHANGED <<part, board, line, rule>> /\ AssetsUnchanged
    /\ \/ /\ NoFault /\ UNCHANGED missed
          /\ proc' = [proc EXCEPT ![p].pc = "lines", ![p].boards = LiveBoards]
       \/ Fault /\ GivesUp(p) /\ Finish(p)

ListLines(p) ==
    /\ AtPc(p, "lines") /\ UNCHANGED <<part, board, line, rule>> /\ AssetsUnchanged
    /\ \/ proc[p].boards = {} /\ NoFault /\ UNCHANGED missed /\ Finish(p)
       \/ \E b \in proc[p].boards :
              \/ /\ NoFault /\ UNCHANGED missed
                 /\ proc' = [proc EXCEPT ![p].pc = "rematch", ![p].boards = @ \ {b},
                                         ![p].todo = [l \in LiveLines(b) |-> line[l]]]
              \/ Fault /\ GivesUp(p) /\ proc' = [proc EXCEPT ![p].boards = @ \ {b}]

\* A line whose match is what it was is left alone.
BadSame(m, seen) == m.part = seen.match.part
Same(m, seen) == m = seen.match

Rematch(p) ==
    /\ AtPc(p, "rematch") /\ UNCHANGED <<part, board, line, rule>> /\ AssetsUnchanged
    /\ \/ DOMAIN proc[p].todo = {} /\ Goto(p, "lines") /\ NoFault /\ UNCHANGED missed
       \/ \E l \in DOMAIN proc[p].todo :
              LET seen == proc[p].todo[l]
                  rest == [o \in DOMAIN proc[p].todo \ {l} |-> proc[p].todo[o]]
              IN  \E failed \in Failing(seen.content) :
                      /\ Lookup(seen.content, failed)
                      /\ \E m \in Resolve(seen.content, failed) :
                             proc' = [proc EXCEPT ![p].pc = IF Same(m, seen) THEN "rematch" ELSE "set",
                                                  ![p].line = l, ![p].match = m, ![p].todo = rest,
                                                  ![p].content = seen.content]

SetLineMatch(p) ==
    /\ AtPc(p, "set") /\ UNCHANGED <<part, board, rule>> /\ AssetsUnchanged
    /\ Goto(p, "rematch")
    /\ LET l == proc[p].line
           m == proc[p].match
       IN  \/ /\ m.part \in part \cup {NoPart} /\ NoFault /\ UNCHANGED missed
              /\ line' = IF line[l].state = "live" THEN [line EXCEPT ![l].match = m] ELSE line
           \/ /\ IF m.part \in part \cup {NoPart} THEN Fault ELSE NoFault
              /\ UNCHANGED line /\ GivesUp(p)

-----------------------------------------------------------------------------
\* Deleting. Rows that refer to what is deleted go too, or forget it.

WithoutLines(gone) == [l \in Lines |-> IF l \in gone THEN [NoRow EXCEPT !.state = "deleted"] ELSE line[l]]
WithoutAssets(gone) ==
    /\ asset' = [a \in Assets |-> IF a \in gone THEN [NoAsset0 EXCEPT !.state = "deleted"] ELSE asset[a]]
    /\ cover' = IF cover \in gone THEN NoAsset ELSE cover

DeleteBOMLine(p) ==
    /\ AtPc(p, "idle") /\ Finish(p)
    /\ \E l \in Lines : line[l].state = "live" /\ line' = WithoutLines({l})
    /\ UNCHANGED <<part, board, rule, faults, missed>> /\ AssetsUnchanged

DeleteBoard(p) ==
    /\ AtPc(p, "idle") /\ Finish(p)
    /\ \E b \in LiveBoards : /\ board' = [board EXCEPT ![b] = "deleted"]
                             /\ line' = WithoutLines(LiveLines(b))
                             /\ WithoutAssets({a \in Assets : asset[a].state = "live" /\ asset[a].board = b})
    /\ UNCHANGED <<part, rule, faults, missed, torn>>

\* The parts handler's delete: rules to the part go, lines keep the kind of their match.
BadRulesWithout(q) == rule
RulesWithout(q)    == [k \in Keys |-> IF rule[k] = q THEN NoPart ELSE rule[k]]

DeletePart(p) ==
    /\ AtPc(p, "idle") /\ Finish(p)
    /\ \E q \in part :
           /\ part' = part \ {q}
           /\ rule' = RulesWithout(q)
           /\ line' = [l \in Lines |-> IF line[l].match.part = q THEN [line[l] EXCEPT !.match.part = NoPart]
                                       ELSE line[l]]
    /\ UNCHANGED <<board, faults, missed>> /\ AssetsUnchanged

DeleteAsset(p) ==
    /\ AtPc(p, "idle") /\ Finish(p)
    /\ \E a \in Assets : asset[a].state = "live" /\ WithoutAssets({a})
    /\ UNCHANGED <<part, board, line, rule, faults, missed, torn>>

-----------------------------------------------------------------------------
\* Assets of a board and the cover of the project.

\* Requests that have still to add, or to take away, an asset of this board or the cover.
Replacing(b) ==
    {p \in Procs : /\ proc[p].pc \in {"match", "panel", "panelstore", "assets", "attach",
                                      "create", "cover", "uncover", "drop"}
                   /\ proc[p].board = b}

BeginUploadBoardAsset(p) ==
    /\ AtPc(p, "idle")
    /\ \E b \in LiveBoards : proc' = [proc EXCEPT ![p] = [NoProc EXCEPT !.pc = "clear", !.board = b]]
    /\ UNCHANGED <<part, board, line, rule, faults, missed>> /\ AssetsUnchanged

AssetsOfKind(b, kind)    == {a \in Assets : asset[a].state = "live" /\ asset[a].board = b /\ asset[a].kind = kind}

DeleteBoardAssetsOfKind(p) ==
    /\ AtPc(p, "clear") /\ UNCHANGED <<part, board, line, rule, missed>>
    /\ LET b == proc[p].board
       IN  \/ /\ NoFault /\ Goto(p, "attach")
              /\ WithoutAssets(AssetsOfKind(b, "ibom"))
              /\ torn' = torn \cup IF Replacing(b) = {} THEN {} ELSE {b}
           \/ Fault /\ Finish(p) /\ AssetsUnchanged

AttachAsset(p) ==
    /\ AtPc(p, "attach") /\ Finish(p) /\ Attach(p)
    /\ UNCHANGED <<part, board, line, rule, cover, missed, torn>>

\* UploadProjectCover and RemoveProjectCover: read the old one first, delete it last.
BeginCover(p) ==
    /\ AtPc(p, "idle")
    /\ \E pc \in {"create", "uncover"} :
           proc' = [proc EXCEPT ![p] = [NoProc EXCEPT !.pc = pc, !.old = cover]]
    /\ torn' = torn \cup IF Replacing(NoBoard) = {} THEN {} ELSE {NoBoard}
    /\ UNCHANGED <<part, board, line, rule, asset, cover, faults, missed>>

CreateCover(p) ==
    /\ AtPc(p, "create") /\ UNCHANGED <<part, board, line, rule, cover, missed, torn>>
    /\ \/ /\ NoFault
          /\ \E a \in Unused(asset) :
                 /\ asset' = [asset EXCEPT ![a] = [NoAsset0 EXCEPT !.state = "live"]]
                 /\ proc' = [proc EXCEPT ![p].pc = "cover", ![p].new = a]
       \/ Fault /\ UNCHANGED asset /\ Finish(p)

\* A cover that could not be set stays an asset of the project.
SetProjectCover(p) ==
    /\ AtPc(p, "cover") /\ UNCHANGED <<part, board, line, rule, asset, missed>>
    /\ LET possible == asset[proc[p].new].state = "live"
       IN  \/ possible /\ NoFault /\ cover' = proc[p].new /\ UNCHANGED torn /\ Goto(p, "drop")
           \/ /\ (IF possible THEN Fault ELSE NoFault) /\ UNCHANGED cover
              /\ torn' = torn \cup {NoBoard} /\ Finish(p)

ClearCover(p) ==
    /\ AtPc(p, "uncover") /\ Goto(p, "drop") /\ UNCHANGED <<part, board, line, rule, asset, missed, torn>>
    /\ (NoFault /\ cover' = NoAsset) \/ (Fault /\ UNCHANGED cover)

\* An upload that drops the old cover only when there is no new one.
BadOutdated(p) == IF proc[p].new = NoAsset THEN {proc[p].old} \ {NoAsset} ELSE {}

Outdated(p) == {proc[p].old} \ {NoAsset}

DropOldCover(p) ==
    /\ AtPc(p, "drop") /\ Finish(p) /\ UNCHANGED <<part, board, line, rule, missed>>
    /\ \/ /\ NoFault /\ UNCHANGED torn
          /\ WithoutAssets(Outdated(p))
       \/ /\ Fault /\ torn' = torn \cup {NoBoard} /\ UNCHANGED <<asset, cover>>

-----------------------------------------------------------------------------
Request(p) ==
    \/ BeginImport(p) \/ CreateBoard(p) \/ MatchLine(p) \/ ReplaceBOMLines(p) \/ ExtractAssets(p)
    \/ CreateBlankBoard(p)
    \/ BeginLine(p) \/ BeginSetProjectMatch(p) \/ ApplyMatch(p) \/ SetProjectMatch(p)
    \/ ResolveLine(p) \/ WriteLine(p)
    \/ ListBoards(p) \/ ListLines(p) \/ Rematch(p) \/ SetLineMatch(p)
    \/ DeleteBOMLine(p) \/ DeleteBoard(p) \/ DeletePart(p) \/ DeleteAsset(p)
    \/ BeginUploadBoardAsset(p) \/ DeleteBoardAssetsOfKind(p) \/ AttachAsset(p)
    \/ BeginCover(p) \/ CreateCover(p) \/ SetProjectCover(p) \/ ClearCover(p) \/ DropOldCover(p)

Next == \E p \in Procs : Request(p)

Spec == Init /\ [][Next]_vars

-----------------------------------------------------------------------------
Quiet == \A p \in Procs : proc[p].pc \in {"idle", "done"}

\* When nothing is running, a matched line of an identity with a rule has the rule's
\* part, unless its ipn names one, and no line claims a rule there is not: the rule
\* "propagates everywhere" (rematchProject), whatever ran at the same time, except for
\* the identities that missed tells: a change of the rule met a request that held an old
\* match, or gave up on the way, or the lookup of the rule failed.
RulesReachLines ==
    Quiet => \A l \in Lines :
        LET k == matchKey(line[l].content)
            m == line[l].match
        IN  /\ line[l].state = "live" /\ m.part # NoPart
            /\ k \notin missed /\ (k = <<>> => Keys \cap missed = {})
            => IF k # <<>> /\ rule[k] # NoPart
               THEN m.kind = "fbpn" \/ m = [part |-> rule[k], kind |-> "project"]
               ELSE m.kind # "project"

\* What an upload attaches replaces what was there: the interactive BOMs of a board came
\* with one request, so one upload leaves its own alone, unless two attached to the board
\* at once (UploadBoardAsset replaces in two statements). The several BOMs of one imported
\* zip stay side by side.
OneIBOM ==
    \A b \in Boards \ torn :
        \A a1, a2 \in AssetsOfKind(b, "ibom") : asset[a1].by = asset[a2].by

\* A replaced cover is gone: no image of the project is left that is not its cover,
\* unless two requests changed the cover at once or one of them failed half way.
NoOrphanedCover ==
    Quiet /\ NoBoard \notin torn =>
        \A a \in Assets : asset[a].state = "live" /\ asset[a].board = NoBoard => a = cover

\* What replaces an attachment leaves none of what it replaced.
AttachmentsReplaced == OneIBOM /\ NoOrphanedCover

\* "In priority order: FireBin PN, project match rule, MPN" (resolveMatch): a line of an
\* identity with a rule is matched by its own number or by the rule. The code does not
\* keep this: a lookup of the rule that fails is one that found none.
RuleComesFirst ==
    [][\A p \in Procs : ResolveLine(p) /\ Key(p) \in Keys /\ rule[Key(p)] # NoPart
                        => proc'[p].match.kind \in {"fbpn", "project"}]_vars

\* A line with a manual pin keeps it until the line itself is edited, or its part
\* deleted ("A line with no match key falls back to a per-line manual pin",
\* applyMatch). The code does not keep this: a rematch for another line undoes the pin.
ManualPinStays ==
    [][\A l \in Lines : /\ line[l].state = "live" /\ line[l].match.kind = "manual"
                        /\ line'[l].match # line[l].match
                        => \A p \in Procs : ~(AtPc(p, "set") /\ proc[p].line = l /\ proc'[p].pc = "rematch")]_vars
=============================================================================
