----------------------------- MODULE ToolCalls -----------------------------
\* The tools the assistant has, how a call that arrives damaged is read, and what a tool
\* answers to an id (assistant/tools.go, tags.go, datasheet_tools.go, stray.go).
\* Operators only. Arguments are the set of their keys.
EXTENDS Naturals, Sequences, FiniteSets, SequencesExt

Tool(name, props, required) == [name |-> name, props |-> props, required |-> required]

\* Parts, places and projects.
searchParts      == Tool("search_parts", {"search", "package", "parameter", "value", "limit"}, {})
getPart          == Tool("get_part", {"part_id"}, {"part_id"})
listCategories   == Tool("list_categories", {}, {})
listLocations    == Tool("list_locations", {}, {})
locationContents == Tool("location_contents", {"location_id"}, {"location_id"})
lowStock         == Tool("low_stock", {}, {})
inventoryStats   == Tool("inventory_stats", {}, {})
listProjects     == Tool("list_projects", {}, {})
getProject       == Tool("get_project", {"project_id"}, {"project_id"})
getBoard         == Tool("get_board", {"board_id"}, {"board_id"})
boardPickList    == Tool("board_pick_list", {"board_id", "quantity"}, {"board_id"})

\* Offered when there is what they need.
listTags          == Tool("list_tags", {}, {})
tagPart           == Tool("tag_part", {"part_id", "add", "remove"}, {"part_id"})
findDatasheet     == Tool("find_datasheet", {"part_id", "query"}, {})
searchDatasheet   == Tool("search_datasheet", {"datasheet_id", "query"}, {"datasheet_id", "query"})
readDatasheetPage == Tool("read_datasheet_page", {"datasheet_id", "page"}, {"datasheet_id", "page"})
lookupMPN         == Tool("lookup_mpn", {"mpn"}, {"mpn"})
addReferencePart  == Tool("add_reference_part", {"name", "description", "mpn", "package", "keywords"}, {"name"})

Defs(wired) ==
    <<searchParts, getPart, listCategories, listLocations, locationContents, lowStock,
      inventoryStats, listProjects, getProject, getBoard, boardPickList>>
    \o (IF "tags" \in wired THEN <<listTags, tagPart>> ELSE <<>>)
    \o (IF "datasheets" \in wired THEN <<findDatasheet, searchDatasheet, readDatasheetPage>> ELSE <<>>)
    \o (IF "enrich" \in wired THEN <<lookupMPN>> ELSE <<>>)
    \o (IF "reference" \in wired THEN <<addReferencePart>> ELSE <<>>)

\* What the handlers wire.
assistantToolbox == {"tags", "datasheets", "enrich", "reference"}

NamesOf(defs) == {defs[i].name : i \in DOMAIN defs}

NoTool == ""

\* An argsFit that does not ask for what is required.
BadArgsFit(keys, tool) == tool.required # {} /\ keys \subseteq tool.props

\* The arguments could be a tool's: nothing it does not declare, everything it requires.
\* A tool that requires nothing is fit by too much.
argsFit(keys, tool) == /\ tool.required # {}
                       /\ keys \subseteq tool.props /\ tool.required \subseteq keys

\* The only tool the arguments fit.
OnlyFit(keys, defs) ==
    LET fit == {i \in DOMAIN defs : argsFit(keys, defs[i])}
    IN  IF keys # {} /\ Cardinality(fit) = 1 THEN defs[CHOOSE i \in fit : TRUE].name ELSE NoTool

\* An object in place of an answer: its keys, and what it says as its name ("" when it
\* says none). Named, it is a call of that tool and of nothing else; unnamed, it is a
\* call of the only tool it fits.
NameKeys == {"name", "tool", "tool_name", "function"}

wrappedCall(obj) == obj.keys \cap NameKeys # {} /\ obj.says # ""

strayToolCall(obj, defs) ==
    IF obj.keys = {} THEN NoTool
    ELSE IF wrappedCall(obj) THEN IF obj.says \in NamesOf(defs) THEN obj.says ELSE NoTool
    ELSE OnlyFit(obj.keys, defs)

\* A call with a name that is ours, or ends in one, or with arguments that fit one tool
\* only; tail is what follows the last separator of the name.
resolveToolName(call, defs) ==
    IF call.name \in NamesOf(defs) THEN call.name
    ELSE IF call.tail \in NamesOf(defs) THEN call.tail
    ELSE OnlyFit(call.keys, defs)

Normalise(call, defs) ==
    LET name == resolveToolName(call, defs) IN IF name = NoTool THEN call ELSE [call EXCEPT !.name = name]

-----------------------------------------------------------------------------
\* What a tool answers to an id of some kind: rows, or an error that names the tools
\* to call instead.
Rows          == [error |-> FALSE, try |-> {}, isA |-> ""]
Refuse(try)   == [error |-> TRUE, try |-> try, isA |-> ""]
ThatIs(k, try) == [error |-> TRUE, try |-> try, isA |-> k]

answersProject(kind) ==
    CASE kind = "project" -> Rows
      [] kind = "board"   -> ThatIs("board", {"board_pick_list", "list_projects"})
      [] OTHER            -> Refuse({"list_projects"})

answersBoard(kind) ==
    CASE kind = "board"   -> Rows
      [] kind = "project" -> ThatIs("project", {"get_project"})
      [] OTHER            -> Refuse({"get_project"})

\* Whether the text of a datasheet can be read.
datasheetPages(kind, status) ==
    IF kind # "datasheet" THEN Refuse({"find_datasheet"})
    ELSE IF status = "ok" THEN Rows ELSE Refuse({})

\* Ids that are no id are refused; contents of a place that is none are no rows; a part
\* that does not exist is an error of the database.
answersId(name, kind, status) ==
    CASE kind = "text" -> Refuse({})
      [] name = "get_project" -> answersProject(kind)
      [] name \in {"get_board", "board_pick_list"} -> answersBoard(kind)
      [] name \in {"search_datasheet", "read_datasheet_page"} -> datasheetPages(kind, status)
      [] name \in {"get_part", "tag_part"} -> IF kind = "part" THEN Rows ELSE Refuse({})
      [] OTHER -> Rows

\* A name nobody has is answered with the names there are.
Run(call, defs, kind, status) ==
    LET c == Normalise(call, defs)
    IN  IF c.name \notin NamesOf(defs) THEN Refuse(NamesOf(defs)) ELSE answersId(c.name, kind, status)

-----------------------------------------------------------------------------
\* The part of a page around a match. A character is the number of bytes it has and of
\* those it has in lower case.
CONSTANT SnippetRunes

Bytes(page)      == FoldLeft(LAMBDA n, c : n + c.bytes, 0, page)
LowerBytes(page) == FoldLeft(LAMBDA n, c : n + c.lower, 0, page)

\* Where the characters from m on begin, in bytes of the page in lower case.
indexFold(page, m) == LowerBytes(SubSeq(page, 1, m - 1))

\* Characters of the first n bytes; the bytes of one that is cut count one each.
RunesOf(page, n) ==
    LET whole == CHOOSE k \in 0 .. Len(page) : /\ Bytes(SubSeq(page, 1, k)) <= n
                                               /\ k < Len(page) => Bytes(SubSeq(page, 1, k + 1)) > n
    IN  whole + n - Bytes(SubSeq(page, 1, whole))

\* Where a window with a match of size characters in its middle begins.
LeftOf(at, size) == LET half == (SnippetRunes - size) \div 2 IN IF at < half THEN 0 ELSE at - half

\* A window from there, moved back as far as there is when it runs over the end.
WindowFrom(page, left) ==
    IF left + SnippetRunes <= Len(page) THEN <<left + 1, left + SnippetRunes>>
    ELSE <<(IF Len(page) < SnippetRunes THEN 0 ELSE Len(page) - SnippetRunes) + 1, Len(page)>>

\* First and last character of the window, around a match of some bytes.
snippetAround(page, byteAt, needleLen) ==
    LET at == RunesOf(page, byteAt)
    IN  WindowFrom(page, LeftOf(at, RunesOf(page, byteAt + needleLen) - at))
=============================================================================
