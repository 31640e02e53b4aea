------------------------------- MODULE MCChat -------------------------------
\* Chat over bounded inputs: every way small replies can come in pieces, against the
\* reply they are pieces of.
EXTENDS Cases, Chat

SomePrices == [metered |-> [in |-> 2, out |-> 8]]

UpTo(S, n) == UNION {[1 .. k -> S] : k \in 0 .. n}
Id(x)      == [given |-> x, made |-> 0]

-----------------------------------------------------------------------------
\* Requests.

SomeCalls == {<<[id |-> Id("i"), name |-> a, args |-> <<>>]>> : a \in {"a", "b"}} \cup
             {<<[id |-> Id("i"), name |-> a, args |-> <<>>], [id |-> Id("j"), name |-> "a", args |-> <<>>]>> : a \in {"a", "b"}}
Message(role, text, calls, results) == [role |-> role, text |-> text, calls |-> calls, results |-> results]
Results(calls, bad) == [i \in DOMAIN calls |-> [id |-> calls[i].id, name |-> calls[i].name, content |-> <<"r">>, failed |-> bad]]

\* Messages as the loop puts them together: calls are followed by their results, which
\* may come with words, and a message may be empty.
Blocks == {<<Message("user", <<"q">>, <<>>, <<>>)>>, <<Message("assistant", <<>>, <<>>, <<>>)>>} \cup
          {<<Message("assistant", t, c, <<>>), Message("user", u, <<>>, Results(c, bad))>> :
               t \in {<<>>, <<"w">>}, u \in {<<>>, <<"v">>}, c \in SomeCalls, bad \in BOOLEAN}

AskRequest == Ask("request", {[system |-> s, messages |-> FlattenSeq(b)] : s \in {<<>>, <<"s">>}, b \in UpTo(Blocks, 2)})

\* What a message holds, in the order every dialect wants it.
Holds(m) == [i \in DOMAIN m.results |-> <<"result", Said(m.results[i])>>]
            \o (IF m.text = <<>> THEN <<>> ELSE <<<<m.role, m.text>>>>)
            \o [i \in DOMAIN m.calls |-> <<"call", m.calls[i].name>>]
OnWire(w) == IF w.role = "tool" THEN <<<<"result", w.text>>>>
             ELSE Holds([role |-> w.role, text |-> w.text, calls |-> w.calls, results |-> <<>>])
InBlock(role, b) == CASE b.kind = "tool_result" -> <<"result", Said(b.is)>>
                      [] b.kind = "text" -> <<role, b.is>>
                      [] b.kind = "tool_use" -> <<"call", b.is.name>>

All(s, Op(_)) == FlattenSeq([i \in DOMAIN s |-> Op(s[i])])

\* Every dialect says all of the conversation in its order, and answers a call where the
\* runtime looks for it: after the message that made it and before anything else, by
\* its id or in its place, and in Anthropic's at the start of a message.
RequestsWhole ==
    Asked("request") =>
        LET req    == case.in
            system == IF req.system = <<>> THEN <<>> ELSE <<<<"system", req.system>>>>
            said   == All(req.messages, Holds)
            open   == openAIRequest(req)
            home   == ollamaRequest(req)
            blocks == anthropicRequest(req)
            \* The call a tool message at i answers: that of the same place.
            CallAt(wire, i) ==
                LET j == CHOOSE j \in 1 .. i - 1 : wire[j].role # "tool" /\ \A k \in j + 1 .. i : wire[k].role = "tool"
                IN  wire[j].calls[i - j]
        IN  /\ All(open, OnWire) = system \o said /\ All(home, OnWire) = system \o said
            /\ \A i \in DOMAIN open : open[i].role = "tool" => open[i].of = CallAt(open, i).id
            /\ \A i \in DOMAIN home : home[i].role = "tool" => home[i].of = CallAt(home, i).name
            /\ All(blocks, LAMBDA m : [i \in DOMAIN m.content |-> InBlock(m.role, m.content[i])]) = said
            /\ \A m \in DOMAIN blocks :
                   LET c == blocks[m].content
                   IN  c # <<>> /\ \A i \in 2 .. Len(c) : c[i].kind = "tool_result" => c[i - 1].kind = "tool_result"

-----------------------------------------------------------------------------
\* Streams of OpenAI's dialect.

Line(content, calls, finish, used) ==
    [kind |-> "data", usage |-> used, choices |-> <<[content |-> content, calls |-> calls, finish |-> finish]>>]
Piece(i, id, name, args) == [index |-> i, id |-> id, name |-> name, args |-> args]

FirstPieces == {Piece(0, NoId, "a", <<"x">>), Piece(0, Id("i"), "a", <<>>), Piece(1, NoId, "b", <<>>)}
MorePieces  == {Piece(i, NoId, "", <<"y">>) : i \in {0, 1}}

ErrorLine == [kind |-> "data", usage |-> <<>>, choices |-> <<>>]

OpenLines == {Line(<<x>>, <<>>, "", <<>>) : x \in {"w", Opens, Closes, Stats}} \cup
             {Line(<<>>, <<p>>, "", <<>>) : p \in FirstPieces \cup MorePieces} \cup
             {Line(<<>>, <<>>, "length", <<[in |-> 3, out |-> 1]>>), [kind |-> "other"],
              [kind |-> "data", usage |-> <<[in |-> 3, out |-> 2]>>, choices |-> <<>>],
              ErrorLine}

Data(lines) == SelectSeq(lines, LAMBDA l : l.kind = "data" /\ l.choices # <<>>)
PiecesOf(lines) == All(Data(lines), LAMBDA l : l.choices[1].calls)

\* Calls of the stream are whole: their first piece says who they are.
WellFormed(lines) ==
    LET ps == PiecesOf(lines)
    IN  \A i \in DOMAIN ps : (ps[i] \in FirstPieces) <=> \A j \in 1 .. i - 1 : ps[j].index # ps[i].index

AskOpenAI == Ask("openai", {l \in UpTo(OpenLines, 4) : WellFormed(l)})

\* The reply that was taken to pieces: its calls are in the order of their indexes.
WholeOpenAI(lines) ==
    LET ps    == PiecesOf(lines)
        Of(i) == SelectSeq(ps, LAMBDA p : p.index = i)
        at    == SetToSortSeq({p.index : p \in ToSet(ps)}, LAMBDA a, b : a < b)
        says  == SelectSeq(lines, LAMBDA l : l.kind = "data" /\ l.usage # <<>>)
        ends  == SelectSeq(Data(lines), LAMBDA l : l.choices[1].finish # "")
    IN  [error |-> "", usage |-> IF says = <<>> THEN [in |-> 0, out |-> 0] ELSE Last(says).usage[1],
         choices |-> <<[content |-> All(Data(lines), LAMBDA l : l.choices[1].content),
                        finish  |-> IF ends = <<>> THEN "" ELSE Last(ends).choices[1].finish,
                        calls   |-> [k \in DOMAIN at |->
                            [id |-> Of(at[k])[1].id, name |-> Of(at[k])[1].name,
                             args |-> All(Of(at[k]), LAMBDA p : p.args)]]]>>]

\* The calls begin in the order of their indexes, from 0.
InOrder(lines) ==
    LET firsts == SelectSeq(PiecesOf(lines), LAMBDA p : p \in FirstPieces)
    IN  \A i \in DOMAIN firsts : firsts[i].index = i - 1

Tagged(text) == \E x \in {Opens, Closes} : Contains(text, x)

\* A reply that comes in pieces is the reply that comes whole, and what was seen of it
\* is its text, without Osaurus' statistics ("returns the same ChatResponse Chat would
\* have", StreamingChatProvider). Inlined thoughts are seen.
OpenAIAgrees ==
    Asked("openai") =>
        LET lines == case.in
            whole == WholeOpenAI(lines)
            text  == whole.choices[1].content
        IN  InOrder(lines) =>
                /\ \A m \in {"metered", "new", "local"} : openAIStream(m, lines) = openAIChat(m, whole)
                /\ osaurusStream(lines) = osaurusChat(whole)
                /\ ~Tagged(text) => /\ openAIShown(lines) = openAIChat("new", whole).text
                                    /\ osaurusShown(lines) = osaurusChat(whole).text
                /\ Test(openAIStream("new", lines)) <=> \E p \in ToSet(PiecesOf(lines)) : TRUE

\* The same without InOrder. It does not hold: calls are in the order they begin in,
\* while a test says "Order is the index order, not arrival order" (stream_test.go).
CallsInIndexOrder ==
    Asked("openai") => openAIStream("new", case.in).calls = openAIChat("new", WholeOpenAI(case.in)).calls

\* A line that says what went wrong has no choices. That it fails the turn, as a test
\* says of Anthropic's streams ("not end it quietly with a partial answer that looks
\* complete"), does not hold of OpenAI's: it is passed over.
ErrorLineFails ==
    Asked("openai") => (Contains(case.in, ErrorLine) => IsFailed(openAIStream("new", case.in)))

-----------------------------------------------------------------------------
\* Anthropic's and Ollama's.

Event(kind) == [kind |-> kind, index |-> 0, id |-> NoId, name |-> "", text |-> <<>>, finish |-> "",
                out |-> 0, usage |-> [in |-> 0, out |-> 0], says |-> ""]
Events == {[Event("message_start") EXCEPT !.usage = [in |-> 3, out |-> 1]],
           [Event("text_delta") EXCEPT !.text = <<"w">>], [Event("message_delta") EXCEPT !.finish = "max_tokens", !.out = 5],
           [Event("error") EXCEPT !.says = "overloaded"], Event("ping")} \cup
          {[Event("block_start") EXCEPT !.index = i, !.id = Id("i"), !.name = n] : i \in {0, 1}, n \in {"a", "b"}} \cup
          {[Event("input_json_delta") EXCEPT !.index = i, !.text = <<"x">>] : i \in {0, 1}}

\* Blocks are announced in their order, and filled after that.
Announced(evs) ==
    LET starts == SelectSeq(evs, LAMBDA e : e.kind = "block_start")
    IN  /\ \A i \in DOMAIN starts : starts[i].index = i - 1
        /\ \A i \in DOMAIN evs : evs[i].kind = "input_json_delta" =>
               \E j \in 1 .. i - 1 : evs[j].kind = "block_start" /\ evs[j].index = evs[i].index

AskAnthropic == Ask("anthropic", {e \in UpTo(Events, 4) : Announced(e)})

WholeAnthropic(evs) ==
    LET Of(kind) == SelectSeq(evs, LAMBDA e : e.kind = kind)
        uses == Of("block_start")
        init == Of("message_start")
        ends == Of("message_delta")
    IN  [error   |-> IF Of("error") = <<>> THEN "" ELSE Of("error")[1].says,
         content |-> [i \in DOMAIN Of("text_delta") |-> [kind |-> "text", text |-> Of("text_delta")[i].text]] \o
                     [i \in DOMAIN uses |-> [kind |-> "tool_use", id |-> uses[i].id, name |-> uses[i].name,
                          args |-> All(SelectSeq(Of("input_json_delta"), LAMBDA e : e.index = i - 1), LAMBDA e : e.text)]],
         finish  |-> IF ends = <<>> THEN "" ELSE "max_tokens",
         usage   |-> [in  |-> IF init = <<>> THEN 0 ELSE 3,
                      out |-> IF ends # <<>> /\ (init = <<>> \/ Last(SelectSeq(evs, LAMBDA e : e.kind \in {"message_start", "message_delta"})).kind = "message_delta")
                              THEN 5 ELSE IF init = <<>> THEN 0 ELSE 1]]

OllamaLines ==
    {[error |-> e, text |-> t, thinking |-> h, calls |-> c, finish |-> f, usage |-> u] :
        e \in {"", "error parsing tool call"}, t \in {<<>>, <<"w">>, <<Opens>>, <<Closes>>}, h \in {<<>>, <<"h">>},
        c \in {<<>>, <<[name |-> "a", args |-> <<"x">>]>>}, f \in {""}, u \in {[in |-> 0, out |-> 0]}} \cup
    {[error |-> "", text |-> <<>>, thinking |-> <<>>, calls |-> <<>>, finish |-> "length", usage |-> [in |-> 3, out |-> 1]]}

AskOllama == Ask("ollama", UpTo(OllamaLines, 2))

WholeOllama(lines) ==
    LET errs == SelectSeq(lines, LAMBDA l : l.error # "")
        ends == SelectSeq(lines, LAMBDA l : l.finish # "")
    IN  [error |-> IF errs = <<>> THEN "" ELSE errs[1].error, text |-> All(lines, LAMBDA l : l.text),
         thinking |-> All(lines, LAMBDA l : l.thinking), calls |-> All(lines, LAMBDA l : l.calls),
         finish |-> IF ends = <<>> THEN "" ELSE "length",
         usage |-> IF ends = <<>> THEN [in |-> 0, out |-> 0] ELSE [in |-> 3, out |-> 1]]

\* The same of the other two: and an error in the middle fails the turn, as the whole
\* reply would, and is told from a call the runtime could not read.
OthersAgree ==
    /\ Asked("anthropic") => anthropicStream("metered", case.in) = anthropicChat("metered", WholeAnthropic(case.in))
    /\ Asked("ollama") => ollamaStream(case.in) = ollamaChat(WholeOllama(case.in))

-----------------------------------------------------------------------------
\* Exchanges.

Bodies    == {[error |-> e, message |-> m, plain |-> p, text |-> <<"w">>, thinking |-> <<>>, calls |-> <<>>, finish |-> "",
               usage |-> [in |-> 0, out |-> 0]] :
                  e \in {"", "no credit"}, m \in {"", "no model"}, p \in {"", "error parsing tool call"}}
Exchanges == [status : {"ok", "bad"}, end : {"whole", "unsent", "unread", "garbled"}, body : Bodies,
              lines : UpTo({l \in OllamaLines : l.error = "" /\ l.thinking = <<>> /\ l.calls = <<>>}, 1)]

AskExchange == Ask("exchange", Exchanges)

\* A call fails as a stream when it fails whole, for the same reason when the provider
\* said one, and then the log has what it said. Of a call that is not streamed the log has
\* a reply or an error ("Err is the transport or decode failure, when the call did not
\* return a usable body", ai/record.go:38-39).
FailuresSaid ==
    Asked("exchange") =>
        LET x == case.in
            whole  == postJSON(x)
            stream == streamLines(x, ollamaStream(x.lines))
        IN  /\ x.status = "bad" \/ x.end \in {"unsent", "unread"} => IsFailed(stream) /\ IsFailed(whole)
            /\ x.status = "bad" /\ x.end \in {"whole", "garbled"} =>
                   whole = stream /\ whole # Failed("decode") /\ \A s \in BOOLEAN : RoundRecord(x, s).response
            /\ RoundRecord(x, FALSE).response \/ RoundRecord(x, FALSE).err # ""

AskChat == AskRequest \/ AskOpenAI \/ AskAnthropic \/ AskOllama \/ AskExchange

\* A model hears all of the conversation, and its reply is the same in pieces as whole.
ModelsHeard == RequestsWhole /\ OpenAIAgrees /\ OthersAgree /\ FailuresSaid
=============================================================================
