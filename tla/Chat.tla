-------------------------------- MODULE Chat --------------------------------
\* What is sent to a model and what is made of its reply, in the three dialects there
\* are: OpenAI's (which Osaurus speaks too), Anthropic's and Ollama's (internal/ai).
\* Operators only.
\*
\* A text is a sequence of pieces: words, the tags around inlined thoughts, and the
\* mark of Osaurus' statistics. Arguments are a text too; an id is a record, for a
\* dialect that has none or a runtime that gives none makes them up.
EXTENDS Naturals, Sequences, FiniteSets, SequencesExt

CONSTANT Prices    \* the models with a price |-> [in, out]

Opens  == "<think>"
Closes == "</think>"
Stats  == "stats"

Failed(says) == [error |-> says]
IsFailed(r)  == "error" \in DOMAIN r

\* What is between the tags is a thought; one that was cut off is one as well.
splitThinking(s) ==
    LET Read(r, x) == IF r.inside THEN IF x = Closes THEN [r EXCEPT !.inside = FALSE]
                                       ELSE [r EXCEPT !.thinking = Append(@, x)]
                      ELSE IF x = Opens THEN [r EXCEPT !.inside = TRUE]
                      ELSE [r EXCEPT !.text = Append(@, x)]
    IN  FoldLeft(Read, [text |-> <<>>, thinking |-> <<>>, inside |-> FALSE], s)

\* The cost of a model that has no price is unknown, that of one at home nothing.
usage(model, n) ==
    IF model \in DOMAIN Prices
    THEN [in |-> n.in, out |-> n.out, known |-> TRUE, cost |-> n.in * Prices[model].in + n.out * Prices[model].out]
    ELSE [in |-> n.in, out |-> n.out, known |-> FALSE, cost |-> 0]

localUsage(n) == [in |-> n.in, out |-> n.out, known |-> TRUE, cost |-> 0]

Spent(model, n) == IF model = "local" THEN localUsage(n) ELSE usage(model, n)

NoId    == [given |-> "", made |-> 0]
Made(i) == [given |-> "", made |-> i]
IdOf(id, i) == IF id = NoId THEN Made(i) ELSE id

-----------------------------------------------------------------------------
\* Requests. A message is [role, text, calls, results]; a wire message of OpenAI or
\* Ollama is one of them alone, of Anthropic a sequence of blocks.

Wire(role, text, calls, of) == [role |-> role, text |-> text, calls |-> calls, of |-> of]

Said(tr) == IF tr.failed THEN <<"error: ">> \o tr.content ELSE tr.content

\* The words of a message, unless it has none and calls nothing.
Words(m) == IF m.text = <<>> /\ m.calls = <<>> THEN <<>> ELSE <<Wire(m.role, m.text, m.calls, "")>>

System(req) == IF req.system = <<>> THEN <<>> ELSE <<Wire("system", req.system, <<>>, "")>>

\* OpenAI knows the call a result is of by its id.
openAIRequest(req) ==
    LET Results(m) == [i \in DOMAIN m.results |-> Wire("tool", Said(m.results[i]), <<>>, m.results[i].id)]
    IN  System(req) \o FlattenSeq([k \in DOMAIN req.messages |-> Results(req.messages[k]) \o Words(req.messages[k])])

\* Ollama by the name of its tool; it has no ids.
ollamaRequest(req) ==
    LET Results(m) == [i \in DOMAIN m.results |-> Wire("tool", Said(m.results[i]), <<>>, m.results[i].name)]
        Bare(m)    == [m EXCEPT !.calls = [i \in DOMAIN @ |-> [name |-> @[i].name, args |-> @[i].args]]]
    IN  System(req) \o FlattenSeq([k \in DOMAIN req.messages |-> Results(req.messages[k]) \o Words(Bare(req.messages[k]))])

\* Anthropic takes results only at the start of a message, and no message of nothing.
BadAnthropicBlocks(m) ==
    (IF m.text = <<>> THEN <<>> ELSE <<[kind |-> "text", is |-> m.text]>>)
    \o [i \in DOMAIN m.results |-> [kind |-> "tool_result", is |-> m.results[i]]]
    \o [i \in DOMAIN m.calls |-> [kind |-> "tool_use", is |-> m.calls[i]]]

anthropicBlocks(m) ==
    [i \in DOMAIN m.results |-> [kind |-> "tool_result", is |-> m.results[i]]]
    \o (IF m.text = <<>> THEN <<>> ELSE <<[kind |-> "text", is |-> m.text]>>)
    \o [i \in DOMAIN m.calls |-> [kind |-> "tool_use", is |-> m.calls[i]]]

anthropicRequest(req) ==
    SelectSeq([k \in DOMAIN req.messages |-> [role |-> req.messages[k].role, content |-> anthropicBlocks(req.messages[k])]],
              LAMBDA m : m.content # <<>>)

-----------------------------------------------------------------------------
\* Transport. An exchange has a status, a body (or lines) and how it ended; what a body
\* says of an error is a sentence, and one of them is worth another try.

classifyProviderError(says) == IF says = "error parsing tool call" THEN Failed("unparsed") ELSE Failed(says)

\* An error is a sentence in one of three envelopes, or the status.
providerError(body) ==
    LET said == SelectSeq(<<body.error, body.message, body.plain>>, LAMBDA s : s # "")
    IN  IF said = <<>> THEN "http" ELSE said[1]

\* A whole reply, or why there is none.
postJSON(x) ==
    IF x.end \in {"unsent", "unread"} THEN Failed(x.end)
    ELSE IF x.status # "ok" THEN classifyProviderError(providerError(x.body))
    ELSE IF x.end = "garbled" THEN Failed("decode")
    ELSE x.body

\* A reply line by line: nothing of what was decoded counts when the connection broke.
streamLines(x, decoded) ==
    IF x.end = "unsent" THEN Failed("unsent")
    ELSE IF x.status # "ok" THEN classifyProviderError(providerError(x.body))
    ELSE IF x.end = "unread" THEN Failed("unread")
    ELSE decoded

\* The log of a call: what was sent, and what came back whatever its status was. A stream
\* keeps the lines it had before it broke, and not that it did.
RoundRecord(x, streamed) ==
    [request  |-> TRUE,
     response |-> /\ x.end # "unsent"
                  /\ x.end = "unread" => streamed /\ (x.status = "ok" => x.lines # <<>>),
     err      |-> IF x.end = "unsent" \/ (x.end = "unread" /\ ~streamed) THEN x.end ELSE ""]

-----------------------------------------------------------------------------
\* Replies: [text, thinking, truncated, calls, usage].

Reply(said, finish, calls, spent) ==
    [text |-> said.text, thinking |-> said.thinking, truncated |-> finish \in {"length", "max_tokens"},
     calls |-> calls, usage |-> spent]

\* OpenAI, whole.
openAIChat(model, out) ==
    IF out.error # "" THEN Failed(out.error)
    ELSE IF out.choices = <<>> THEN Failed("no choices")
    ELSE LET ch == out.choices[1]
             Calls == [i \in DOMAIN ch.calls |->
                          [id |-> IdOf(ch.calls[i].id, i - 1), name |-> ch.calls[i].name, args |-> ch.calls[i].args]]
         IN  Reply(splitThinking(ch.content), ch.finish, Calls, Spent(model, out.usage))

Fresh == [text |-> <<>>, thinking |-> <<>>, finish |-> "", calls |-> <<>>, usage |-> [in |-> 0, out |-> 0], failed |-> ""]

\* What is said anew, or what was said before.
IfSaid(new, old) == IF new = "" THEN old ELSE new

Position(calls, index) == SelectInSeq(calls, LAMBDA c : c.index = index)

BadFragment(calls, piece) ==
    IF calls = <<>> THEN <<piece>>
    ELSE [calls EXCEPT ![Len(calls)].args = @ \o piece.args]

\* A piece of the call with that index: the first makes it, the name and the id are
\* said once, the arguments are put together.
Refined(c, piece) == [c EXCEPT !.id   = IF piece.id = NoId THEN @ ELSE piece.id,
                              !.name = IfSaid(piece.name, @),
                              !.args = @ \o piece.args]

Fragment(calls, piece) ==
    LET at == Position(calls, piece.index)
    IN  IF at = 0 THEN Append(calls, piece) ELSE [calls EXCEPT ![at] = Refined(@, piece)]

\* One line. What is not data, does not parse or has no choices is passed over.
openAILine(s, line) ==
    IF line.kind # "data" THEN s
    ELSE LET s1 == IF line.usage = <<>> THEN s ELSE [s EXCEPT !.usage = line.usage[1]]
         IN  IF line.choices = <<>> THEN s1
             ELSE LET ch == line.choices[1]
                  IN  [s1 EXCEPT !.finish = IfSaid(ch.finish, @),
                                 !.text   = @ \o ch.content,
                                 !.calls  = FoldLeft(Fragment, @, ch.calls)]

openAIStream(model, lines) ==
    LET s == FoldLeft(openAILine, Fresh, lines)
        Calls == [i \in DOMAIN s.calls |->
                     [id |-> IdOf(s.calls[i].id, s.calls[i].index), name |-> s.calls[i].name, args |-> s.calls[i].args]]
    IN  Reply(splitThinking(s.text), s.finish, Calls, Spent(model, s.usage))

\* What is seen while it streams.
openAIShown(lines) == FoldLeft(openAILine, Fresh, lines).text

\* Osaurus ends a reply in its statistics: they are cut off it, and off what is seen.
BeforeStats(s) == IF Contains(s, Stats) THEN SubSeq(s, 1, SelectInSeq(s, LAMBDA x : x = Stats) - 1) ELSE s

osaurusChat(out) == LET r == openAIChat("local", out)
                    IN  IF IsFailed(r) THEN r ELSE [r EXCEPT !.text = BeforeStats(@)]

osaurusStream(lines) == LET r == openAIStream("local", lines) IN [r EXCEPT !.text = BeforeStats(@)]
osaurusShown(lines)  == BeforeStats(openAIShown(lines))

-----------------------------------------------------------------------------
\* Anthropic: blocks, whole or announced and then filled.

anthropicChat(model, out) ==
    IF out.error # "" THEN Failed(out.error)
    ELSE LET Of(kind) == SelectSeq(out.content, LAMBDA b : b.kind = kind)
             texts == Of("text")
             uses  == Of("tool_use")
         IN  Reply([text |-> FlattenSeq([i \in DOMAIN texts |-> texts[i].text]), thinking |-> <<>>], out.finish,
                   [i \in DOMAIN uses |-> [id |-> uses[i].id, name |-> uses[i].name, args |-> uses[i].args]],
                   Spent(model, out.usage))

\* An error ends it: what follows is not read.
anthropicEvent(s, e) ==
    IF s.failed # "" THEN s
    ELSE CASE e.kind = "error" -> [s EXCEPT !.failed = e.says]
           [] e.kind = "message_start" -> [s EXCEPT !.usage = e.usage]
           [] e.kind = "block_start" ->
                  IF e.id = NoId THEN s
                  ELSE [s EXCEPT !.calls = Append(@, [index |-> e.index, id |-> e.id, name |-> e.name, args |-> <<>>])]
           [] e.kind = "text_delta" -> [s EXCEPT !.text = @ \o e.text]
           [] e.kind = "input_json_delta" ->
                  LET at == Position(s.calls, e.index)
                  IN  IF at = 0 THEN s ELSE [s EXCEPT !.calls[at].args = @ \o e.text]
           [] e.kind = "message_delta" ->
                  [s EXCEPT !.finish = IfSaid(e.finish, @),
                            !.usage.out = IF e.out > 0 THEN e.out ELSE @]
           [] OTHER -> s

anthropicStream(model, events) ==
    LET s == FoldLeft(anthropicEvent, Fresh, events)
    IN  IF s.failed # "" THEN Failed(s.failed)
        ELSE Reply(s, s.finish, [i \in DOMAIN s.calls |-> [id |-> s.calls[i].id, name |-> s.calls[i].name,
                                                           args |-> s.calls[i].args]],
                   Spent(model, s.usage))

-----------------------------------------------------------------------------
\* Ollama: whole calls without ids; thoughts in a field of their own, or inlined.

MadeCalls(calls) == [i \in DOMAIN calls |-> [id |-> Made(i - 1), name |-> calls[i].name, args |-> calls[i].args]]

Thoughts(own, said) == [said EXCEPT !.thinking = own \o @]

ollamaChat(out) ==
    IF out.error # "" THEN classifyProviderError(out.error)
    ELSE Reply(Thoughts(out.thinking, splitThinking(out.text)), out.finish, MadeCalls(out.calls), localUsage(out.usage))

ollamaLine(s, line) ==
    IF s.failed # "" THEN s
    ELSE IF line.error # "" THEN [s EXCEPT !.failed = line.error]
    ELSE [s EXCEPT !.text = @ \o line.text, !.thinking = @ \o line.thinking, !.calls = @ \o line.calls,
                   !.finish = IfSaid(line.finish, @),
                   !.usage.in = IF line.usage.in > 0 THEN line.usage.in ELSE @,
                   !.usage.out = IF line.usage.out > 0 THEN line.usage.out ELSE @]

ollamaStream(lines) ==
    LET s == FoldLeft(ollamaLine, Fresh, lines)
    IN  IF s.failed # "" THEN classifyProviderError(s.failed)
        ELSE Reply(Thoughts(s.thinking, splitThinking(s.text)), s.finish, MadeCalls(s.calls), localUsage(s.usage))

\* The trial of a provider: a model that answers but calls nothing is of no use here.
Test(r) == ~IsFailed(r) /\ r.calls # <<>>
=============================================================================
