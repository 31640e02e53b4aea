----------------------------- MODULE Assistant -----------------------------
\* Questions to the assistant: the loop of provider calls and tools, the record of what
\* a turn cost, and the conversation it is stored in (assistant/loop.go, stream.go,
\* history.go, handlers/conversations.go, assistant_stream.go, repository/assistant.go).
\*
\* Turns run concurrently; AppendMessages is a READ COMMITTED transaction in steps. The
\* conversations are those of one user: every query is scoped by its owner.
EXTENDS Naturals, Sequences, FiniteSets, SequencesExt

CONSTANTS Convs, Turns, NoConv,
          Sizes,            \* sizes a tool result may have
          Budget,           \* tokens of history that are sent again
          StubSize,         \* characters of the text that stands for a result
          MaxToolRounds, MaxUnparsedRetries,
          MaxCalls,         \* calls a model makes in one reply
          MaxFaults,        \* statements that fail
          Pasts             \* transcripts conversations may have at the start

-----------------------------------------------------------------------------
\* What of a conversation is sent to a model again. A message is of a turn and of a
\* kind: the question, calls of n tools, their n results, or the answer; size is how
\* many characters it has.
Message(t, kind, n, size) == [of |-> t, kind |-> kind, n |-> n, size |-> size]

estimateTokens(m) == (m.size \div 4) + 4

total(msgs) == FoldLeft(LAMBDA n, m : n + estimateTokens(m), 0, msgs)

Stub(m) == [m EXCEPT !.size = m.n * StubSize]

StubOrWhole(m, used, budget) ==
    IF m.kind = "results" /\ used + estimateTokens(m) > budget THEN Stub(m) ELSE m

\* The tokens of the messages from each on, as they are kept.
UsedFrom(history, budget) ==
    LET used[i \in 1 .. Len(history) + 1] ==
            IF i > Len(history) THEN 0
            ELSE LET after == used[i + 1] IN after + estimateTokens(StubOrWhole(history[i], after, budget))
    IN  used

\* Stage one: results that do not fit any more, newest first, become stubs.
StubOld(history, budget) ==
    [i \in 1 .. Len(history) |-> StubOrWhole(history[i], UsedFrom(history, budget)[i + 1], budget)]

From(msgs, i) == SubSeq(msgs, i, Len(msgs))

\* A DropOld that cuts where the budget ends, between a call and its results too.
BadDropOld(msgs, budget) ==
    From(msgs, CHOOSE i \in 1 .. Len(msgs) : (i = Len(msgs) \/ total(From(msgs, i)) <= budget)
                                             /\ \A j \in 1 .. i - 1 : total(From(msgs, j)) > budget)

\* Stage two: the newest messages that fit, from one on that is not results; when
\* there is none, the last that is not.
DropOld(msgs, budget) ==
    LET fits  == {i \in DOMAIN msgs : total(From(msgs, i)) <= budget /\ msgs[i].kind # "results"}
        back  == {i \in DOMAIN msgs : i = 1 \/ msgs[i].kind # "results"}
        start == IF fits # {} THEN CHOOSE i \in fits : \A j \in fits : i <= j
                 ELSE CHOOSE i \in back : \A j \in back : j <= i
    IN  From(msgs, start)

trimHistory(history, budget) ==
    IF budget = 0 \/ history = <<>> \/ total(history) <= budget THEN history
    ELSE LET stubbed == StubOld(history, budget)
         IN  IF total(stubbed) <= budget THEN stubbed ELSE DropOld(stubbed, budget)

\* Calls are answered by the next message, and only calls are.
Paired(msgs) ==
    \A i \in DOMAIN msgs :
        /\ msgs[i].kind = "results" => /\ i > 1 /\ msgs[i - 1].kind = "calls"
                                       /\ msgs[i - 1].of = msgs[i].of /\ msgs[i - 1].n = msgs[i].n
        /\ msgs[i].kind = "calls" => i < Len(msgs) /\ msgs[i + 1].kind = "results"

-----------------------------------------------------------------------------
\* Turns.

VARIABLES open,     \* the conversations there are
          stored,   \* conversation |-> rows [seq, msg]
          runs,     \* records of cost [turn, conv, rounds]
          turn,     \* turn |-> what its handler holds
          faults

vars == <<open, stored, runs, turn, faults>>

Idle == [pc |-> "idle", conv |-> NoConv, kept |-> <<>>, added |-> <<>>, round |-> 0, rounds |-> 0,
         unparsed |-> 0, calls |-> 0, next |-> 0, stream |-> FALSE, screen |-> {}, gone |-> FALSE,
         error |-> FALSE]

Numbered(msgs) == {[seq |-> i, msg |-> msgs[i]] : i \in DOMAIN msgs}

Init == /\ stored \in [Convs -> {Numbered(p) : p \in Pasts}]
        /\ open = {c \in Convs : stored[c] # {}}
        /\ runs = {}
        /\ turn = [t \in Turns |-> Idle]
        /\ faults = 0

\* The messages of a conversation, by seq.
Transcript(c) ==
    LET RowAt(n) == CHOOSE r \in stored[c] : Cardinality({q \in stored[c] : q.seq < r.seq}) = n - 1
    IN  [n \in 1 .. Cardinality(stored[c]) |-> RowAt(n).msg]

At(t, pc) == turn[t].pc = pc

\* A statement may fail, and fails when the client has gone.
Fails(t) == \/ turn[t].gone /\ UNCHANGED faults
            \/ faults < MaxFaults /\ faults' = faults + 1
Works(t) == ~turn[t].gone /\ UNCHANGED faults

Steps(t, r) == turn' = [turn EXCEPT ![t] = r]

-----------------------------------------------------------------------------
\* A question continues a conversation there is or opens one.
resolveConversation(c) ==
    /\ c \in open \/ (stored[c] = {} /\ \A u \in Turns : turn[u].conv # c)
    /\ open' = open \cup {c}

\* The history is cut before the question is added, so that the question never is.
Ask(t, c, stream) ==
    [Idle EXCEPT !.pc = "calling", !.conv = c, !.stream = stream,
                 !.kept = trimHistory(Transcript(c), Budget),
                 !.added = <<Message(t, "question", 0, 4)>>]

\* SendMessage, or StreamMessage. A conversation that was opened stays, whatever becomes
\* of the question.
SendMessage(t, c) ==
    /\ At(t, "idle")
    /\ resolveConversation(c)
    /\ \E stream \in BOOLEAN : Steps(t, Ask(t, c, stream))
    /\ UNCHANGED <<stored, runs, faults>>

Ends(r, failed) == [r EXCEPT !.pc = "ended", !.error = failed]

\* Whether a reply has words besides what it is; of a streamed one they are seen.
Texts(t) == IF turn[t].stream THEN BOOLEAN ELSE {FALSE}

Shown(r, text) == IF r.stream THEN r.screen \cup {text} ELSE {}

\* A round the runtime could not parse is asked again and not counted, a few times;
\* what it streamed is retracted.
Retried(r) == [r EXCEPT !.unparsed = @ + 1, !.screen = {}]

Unparsed(t) ==
    /\ At(t, "calling")
    /\ \E text \in Texts(t) :
           LET r == IF text THEN [turn[t] EXCEPT !.screen = Shown(turn[t], "attempt")] ELSE turn[t]
           IN  Steps(t, IF r.unparsed < MaxUnparsedRetries THEN Retried(r) ELSE Ends(r, TRUE))
    /\ UNCHANGED <<open, stored, runs, faults>>

ProviderFails(t) ==
    /\ At(t, "calling")
    /\ Steps(t, Ends(turn[t], TRUE))
    /\ UNCHANGED <<open, stored, runs, faults>>

\* The reply ran out of tokens, or is nothing, or an object that fits no tool.
UselessReply(t) ==
    /\ At(t, "calling")
    /\ Steps(t, Ends([turn[t] EXCEPT !.rounds = @ + 1], TRUE))
    /\ UNCHANGED <<open, stored, runs, faults>>

\* A reply that calls tools, maybe with words around them.
CallsTools(t, n) ==
    /\ At(t, "calling")
    /\ \E text \in Texts(t) :
           Steps(t, [turn[t] EXCEPT !.pc = "tools", !.rounds = @ + 1, !.calls = n,
                                    !.screen = IF text THEN Shown(turn[t], "words") ELSE @,
                                    !.added = Append(@, Message(t, "calls", n, 4))])
    /\ UNCHANGED <<open, stored, runs, faults>>

\* A call the model wrote as its answer is retracted and made.
StrayCall(t) ==
    /\ At(t, "calling")
    /\ Steps(t, [turn[t] EXCEPT !.pc = "tools", !.rounds = @ + 1, !.calls = 1, !.screen = {},
                                !.added = Append(@, Message(t, "calls", 1, 4))])
    /\ UNCHANGED <<open, stored, runs, faults>>

Answers(t) ==
    /\ At(t, "calling")
    /\ Steps(t, Ends([turn[t] EXCEPT !.rounds = @ + 1, !.screen = Shown(turn[t], "answer"),
                                     !.added = Append(@, Message(t, "answer", 0, 4))], FALSE))
    /\ UNCHANGED <<open, stored, runs, faults>>

\* Every call is run and all are answered in one message; a client that has gone ends
\* the turn before the next tool.
RunTools(t) ==
    /\ At(t, "tools")
    /\ \E size \in Sizes :
           LET r == [turn[t] EXCEPT !.pc = "calling", !.round = @ + 1, !.calls = 0,
                                    !.added = Append(@, Message(t, "results", turn[t].calls, size))]
           IN  Steps(t, IF turn[t].gone THEN Ends(turn[t], TRUE)
                        ELSE IF r.round = MaxToolRounds THEN Ends(r, TRUE) ELSE r)
    /\ UNCHANGED <<open, stored, runs, faults>>

\* The client goes away.
Leave(t) ==
    /\ turn[t].pc \notin {"idle", "done", "failed", "unsaved"} /\ ~turn[t].gone
    /\ Steps(t, [turn[t] EXCEPT !.gone = TRUE])
    /\ UNCHANGED <<open, stored, runs, faults>>

-----------------------------------------------------------------------------
\* A RecordRun of successful turns only.
BadRecorded(t) == IF turn[t].error THEN {}
                  ELSE {[turn |-> t, conv |-> turn[t].conv, rounds |-> turn[t].rounds]}

\* What the turn cost is recorded first, also when it failed; an error of the record
\* is logged.
Recorded(t) == {[turn |-> t, conv |-> turn[t].conv, rounds |-> turn[t].rounds]}

RecordRun(t) ==
    /\ At(t, "ended")
    /\ \/ Works(t) /\ runs' = IF turn[t].conv \in open THEN runs \cup Recorded(t) ELSE runs
       \/ Fails(t) /\ runs' = runs
    /\ Steps(t, [turn[t] EXCEPT !.pc = IF turn[t].error THEN "failed" ELSE "append"])
    /\ UNCHANGED <<open, stored>>

Unsaved(t) == Steps(t, [turn[t] EXCEPT !.pc = "unsaved", !.next = 0]) /\ UNCHANGED <<open, stored, runs>>

\* AppendMessages continues the sequence from the highest number there is.
ReadNext(t) ==
    /\ At(t, "append")
    /\ \/ /\ Works(t)
          /\ Steps(t, [turn[t] EXCEPT !.pc = "insert",
                       !.next = 1 + Cardinality(stored[turn[t].conv])])
          /\ UNCHANGED <<open, stored, runs>>
       \/ Fails(t) /\ Unsaved(t)

\* A table without a constraint on the numbers.
BadTaken(c, n) == FALSE

\* Numbers are unique in a conversation.
Taken(c, n) == \E r \in stored[c] : r.seq = n

\* The transactions that have inserted a row with this number and not ended.
Claims(c, n) == {u \in Turns : At(u, "inserted") /\ turn[u].conv = c /\ turn[u].next = n}

\* The rows go in one after the other: only the first can meet another's. It waits for
\* a transaction that has inserted one with the same number.
InsertMessages(t) ==
    LET c == turn[t].conv
        n == turn[t].next
    IN  /\ At(t, "insert") /\ Claims(c, n) = {}
        /\ \/ /\ Works(t) /\ c \in open /\ ~Taken(c, n)
              /\ Steps(t, [turn[t] EXCEPT !.pc = "inserted"])
              /\ UNCHANGED <<open, stored, runs>>
           \/ Works(t) /\ (c \notin open \/ Taken(c, n)) /\ Unsaved(t)
           \/ Fails(t) /\ Unsaved(t)

Rows(t) == {[seq |-> turn[t].next + i - 1, msg |-> turn[t].added[i]] : i \in DOMAIN turn[t].added}

Commit(t) ==
    /\ At(t, "inserted")
    /\ \/ /\ Works(t)
          /\ stored' = [stored EXCEPT ![turn[t].conv] = @ \cup Rows(t)]
          /\ Steps(t, [turn[t] EXCEPT !.pc = "done"])
          /\ UNCHANGED <<open, runs>>
       \/ Fails(t) /\ Unsaved(t)

\* A DeleteConversation that does not wait for who inserts into the conversation.
BadDeleteConversation(c) ==
    /\ c \in open
    /\ open' = open \ {c}
    /\ stored' = [stored EXCEPT ![c] = {}]
    /\ runs' = {r \in runs : r.conv # c}
    /\ UNCHANGED <<turn, faults>>

\* A conversation goes with its messages and its runs, once nobody inserts into it.
DeleteConversation(c) ==
    /\ c \in open /\ \A t \in Turns : turn[t].conv = c => ~At(t, "inserted")
    /\ open' = open \ {c}
    /\ stored' = [stored EXCEPT ![c] = {}]
    /\ runs' = {r \in runs : r.conv # c}
    /\ UNCHANGED <<turn, faults>>

-----------------------------------------------------------------------------
Next == \/ \E t \in Turns : \/ \E c \in Convs : SendMessage(t, c)
                            \/ Unparsed(t) \/ ProviderFails(t) \/ UselessReply(t)
                            \/ \E n \in 1 .. MaxCalls : CallsTools(t, n)
                            \/ StrayCall(t) \/ Answers(t) \/ RunTools(t) \/ Leave(t)
                            \/ RecordRun(t) \/ ReadNext(t) \/ InsertMessages(t) \/ Commit(t)
        \/ \E c \in Convs : DeleteConversation(c)

Spec == Init /\ [][Next]_vars

-----------------------------------------------------------------------------
Follows(a, b) ==
    /\ a.kind \in {"question", "results"} => b.kind \in {"calls", "answer"} /\ b.of = a.of
    /\ a.kind = "calls" => b.kind = "results" /\ b.of = a.of /\ b.n = a.n
    /\ a.kind = "answer" => b.kind = "question" /\ b.of # a.of

\* A conversation is whole turns, one after the other, numbered without gaps, however
\* many questions are answered in it at once ("half a turn is worse than none",
\* AppendMessages), and a turn that was reported as done is in it.
TranscriptsWhole ==
    /\ \A c \in Convs :
           LET ms == Transcript(c)
           IN  /\ {r.seq : r \in stored[c]} = 1 .. Cardinality(stored[c])
               /\ ms # <<>> => ms[1].kind = "question" /\ ms[Len(ms)].kind = "answer"
               /\ \A i \in 1 .. Len(ms) - 1 : Follows(ms[i], ms[i + 1])
    /\ \A t \in Turns : At(t, "done") => turn[t].conv \notin open \/ Rows(t) \subseteq stored[turn[t].conv]

\* What a provider is sent ends with what the user said or the tools answered, and every
\* call in it is answered directly: of the history as trimmed, and of this turn.
RequestsPaired ==
    \A t \in Turns : At(t, "calling") =>
        /\ Paired(turn[t].kept \o turn[t].added)
        /\ turn[t].added[Len(turn[t].added)].kind \in {"question", "results"}
        /\ turn[t].added[1] = Message(t, "question", 0, 4)

Over == {"failed", "done", "unsaved"}

\* When a turn is over what it cost is on record, and what was shown while it was being
\* written is its answer and no attempt that was thrown away (RecordRun, EventRetract).
SpendAndScreen ==
    \A t \in Turns :
        /\ turn[t].pc \in Over /\ turn[t].conv \in open /\ ~turn[t].gone /\ faults = 0 =>
               \E r \in runs : r.turn = t /\ r.rounds = turn[t].rounds
        /\ At(t, "done") /\ turn[t].stream => turn[t].screen \in {{"answer"}, {"words", "answer"}}

\* "Record the cost first, and record it whether or not the turn worked": what a turn
\* cost is on record, whoever has gone. A client that leaves takes the record with it.
SpendIsAlwaysRecorded ==
    \A t \in Turns : turn[t].pc \in Over /\ turn[t].conv \in open /\ faults = 0 =>
        \E r \in runs : r.turn = t /\ r.rounds = turn[t].rounds
=============================================================================
