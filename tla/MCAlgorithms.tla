----------------------------- MODULE MCAlgorithms -----------------------------
\* Every question there is about pure operators, and those about the assistant's tools.
EXTENDS MCFiles, ToolCalls, MCChat, MCLabels, MCParts

Box == Defs(assistantToolbox)

Arguments(tool) == {k \in SUBSET tool.props : tool.required \subseteq k}

AskTool == Ask("tool", UNION {{<<i, k>> : k \in Arguments(Box[i])} : i \in DOMAIN Box})

\* A call whose encoding was lost, written as an answer or under a broken name, is made
\* as the tool it was meant for or not at all: never as another tool that takes similar
\* arguments, and a search never as the one tool that writes ("running the wrong tool
\* ... would turn a legible failure into a wrong answer", resolveToolName).
NeverTheWrongTool ==
    Asked("tool") =>
        LET meant == Box[case.in[1]].name
            keys  == case.in[2]
            obj   == [keys |-> keys, says |-> IF "name" \in keys THEN "a part" ELSE ""]
        IN  /\ strayToolCall(obj, Box) \in {meant, NoTool}
            /\ resolveToolName([name |-> "functions?", tail |-> "", keys |-> keys], Box) \in {meant, NoTool}
            /\ resolveToolName([name |-> "functions." , tail |-> meant, keys |-> keys], Box) = meant
            /\ strayToolCall([keys |-> {"tool", "arguments"}, says |-> meant], Box) = meant

IdKinds == {"text", "part", "project", "board", "location", "datasheet", "nothing"}

AskId == Ask("id", NamesOf(Box) \X IdKinds)

\* An error that says what an id is says the truth and names a tool that takes it
\* (getProject, getBoard, boardPickList).
HintsLead ==
    Asked("id") =>
        LET kind == case.in[2]
            out  == Run([name |-> case.in[1], tail |-> "", keys |-> {}], Box, kind, "ok")
        IN  out.isA # "" => /\ out.isA = kind
                            /\ \E t \in out.try : ~answersId(t, kind, "ok").error
                            /\ out.try \subseteq NamesOf(Box)

Plain   == [bytes |-> 1, lower |-> 1]
Shrinks == [bytes |-> 3, lower |-> 2]    \* the ohm sign
Grows   == [bytes |-> 2, lower |-> 3]

Pages(chars) == UNION {[1 .. n -> chars] : n \in 1 .. 7}

AskPage == Ask("page", Pages({Plain, [bytes |-> 2, lower |-> 2]}) \X (1 .. 7))

Spans(window, m) == m \in window[1] .. window[2] /\ window[2] - window[1] < SnippetRunes
InWindow(page, m) == Spans(snippetAround(page, indexFold(page, m), page[m].lower), m)

\* The part of a page around a match has the match in it (snippetAround).
SnippetShowsMatch ==
    Asked("page") => (case.in[2] \in DOMAIN case.in[1] => InWindow(case.in[1], case.in[2]))

\* The same of pages that have characters whose lower case is of another length. It
\* does not hold: the offset is of the page in lower case and is used in the page.
SnippetShowsEveryMatch ==
    \A page \in Pages({Plain, Shrinks}) : \A m \in DOMAIN page : InWindow(page, m)

AskTools == AskTool \/ AskId \/ AskPage

\* What the assistant asks of its tools, and shows of what they say, is what was meant.
ToolsUnderstood == NeverTheWrongTool /\ HintsLead /\ SnippetShowsMatch

-----------------------------------------------------------------------------
Next == AskFiles \/ AskTools \/ AskChat \/ AskLabels \/ AskEnrichment \/ AskListing \/ AskChooser

\* What is known of a part is the same wherever it is written: its amounts in a search, a
\* list and a drawing, its stock in the numbers and in the lists, what distributors say
\* of it, its words, its labels and its way to KiCad and back (units, part, part_search,
\* part_parametric, stats, enrich, digikey, mouser, nexar, catalog, mapping,
\* kicad_suggest, dictionary, eigp114, lcsc and scan).
PartsUnderstood == QuantitiesExact /\ EnrichmentExact /\ ChooserExact /\ BagsExact /\ ListsAgree

Spec == Init /\ [][Next]_case
=============================================================================
