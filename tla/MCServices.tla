----------------------------- MODULE MCServices -----------------------------
\* The services side by side: the catalogue with what KiCad is served of it, the uploaded
\* libraries, credentials, settings, conversations, and the signals to views. They share
\* no state but the catalogue's tables, so a behaviour is one of them on its own.
EXTENDS Naturals, FiniteSets, TLC

CONSTANTS Parts, Tags, Cats, Slugs, Names, Procs, Unused, Gone, NoCat, Uncategorized,
          Libs, ItemNames, Versions, Base, NoName, NoSource, Scans, Readers,
          MaxDepth, MaxChanges, BatchMax, Users, Tokens, NoToken, Values,
          Convs, Turns, NoConv, Sizes, Budget, StubSize, MaxToolRounds,
          MaxUnparsedRetries, MaxCalls, MaxFaults, Clients, Writers, Buffer

\* No token is no token, and no saved value looks like the mask a secret is shown as or
\* like the answer that leaves it alone.
ASSUME ServicesAssumption == NoToken \notin Tokens /\ {"***", "keep"} \cap Values = {}

\* A slug, a name or a category is not the mark of a row that is not there yet or is gone,
\* and the group of the parts that are filed nowhere is no category.
ASSUME CatalogueAssumption ==
    /\ Unused # Gone /\ {Unused, Gone} \cap (Slugs \cup Names \cup Cats \cup {NoCat}) = {}
    /\ {NoCat, Uncategorized} \cap Cats = {}

\* A chain of symbols is followed a number of steps, and no source is no source.
ASSUME LibraryAssumption == MaxDepth \in Nat /\ NoSource \notin Versions

\* Turn 0 is the one of the transcripts there are; the other numbers count characters and calls.
ASSUME TurnsAssumption == 0 \notin Turns /\ Sizes \subseteq Nat /\ StubSize \in Nat /\ MaxCalls \in Nat

VARIABLES part, tag, cat, links, proc, file, owed, home, crossed, snap, build, moved,
          items, finished, reader, changes, raced, cut,
          token, account, library, caller, ended, doubled,
          store, live, saver, dropped, mixed,
          open, stored, runs, turn, faults,
          subs, chan, todo, stale, owing, unsaid,
          running       \* which of them this behaviour is of

Shelf == INSTANCE Catalogue
Shown == INSTANCE Snapshot
Books == INSTANCE Library
Doors == INSTANCE Sessions WITH proc <- caller, crossed <- doubled
Knobs == INSTANCE Settings WITH proc <- saver, faults <- dropped

\* A conversation is new, or has a turn with a call in it.
Past(kind, n, size) == [of |-> 0, kind |-> kind, n |-> n, size |-> size]
NewOrOneTurn == {<<>>, <<Past("question", 0, 4), Past("calls", 1, 4), Past("results", 1, 40), Past("answer", 0, 4)>>}

Talk  == INSTANCE Assistant WITH Pasts <- NewOrOneTurn
Feed  == INSTANCE Events WITH owed <- owing

\* What a client sees of its turns and conversations.
FateOf(t) == [of |-> turn[t].conv,
              is |-> IF turn[t].pc = "idle" THEN "unasked" ELSE IF turn[t].pc = "done" THEN "told"
                     ELSE IF turn[t].pc \in {"failed", "unsaved"} THEN "lost" ELSE "asked"]
Fates == [t \in Turns |-> FateOf(t)]
Log   == [c \in Convs |-> Talk!Transcript(c)]

Promise == INSTANCE Transcripts WITH Pasts <- NewOrOneTurn, log <- Log, fate <- Fates

shelfVars == <<part, tag, cat, links, proc, file, owed, home, crossed>>
shownVars == <<snap, build, moved>>
booksVars == <<items, finished, reader, changes, raced, cut>>
doorsVars == <<token, account, library, caller, ended, doubled>>
knobsVars == <<store, live, saver, dropped, mixed>>
talkVars  == <<open, stored, runs, turn, faults>>
feedVars  == <<subs, chan, todo, stale, owing, unsaid>>
allVars   == <<shelfVars, shownVars, booksVars, doorsVars, knobsVars, talkVars, feedVars, running>>

\* The others stay as they begin.
InitOf(service) ==
    /\ running = service
    /\ service # "shelf" => part = [q \in Parts |-> Unused] /\ cat = [c \in Cats |-> Unused]
    /\ service # "books" => items = <<>>
    /\ service # "doors" => library /\ \A u \in Users : account[u] = "active"
    /\ service # "talk" => open = {}

Init == /\ Shelf!Init /\ Shown!Init /\ Books!Init /\ Doors!Init /\ Knobs!Init /\ Talk!Init /\ Feed!Init
        /\ \E service \in {"shelf", "books", "doors", "knobs", "talk", "feed"} : InitOf(service)

Next ==
    \/ running = "shelf" /\ Shelf!Next /\ Shown!Watch /\ UNCHANGED <<booksVars, doorsVars, knobsVars, talkVars, feedVars, running>>
    \/ running = "shelf" /\ Shown!Refresh /\ UNCHANGED <<shelfVars, booksVars, doorsVars, knobsVars, talkVars, feedVars, running>>
    \/ running = "books" /\ Books!Next /\ UNCHANGED <<shelfVars, shownVars, doorsVars, knobsVars, talkVars, feedVars, running>>
    \/ running = "doors" /\ Doors!Next /\ UNCHANGED <<shelfVars, shownVars, booksVars, knobsVars, talkVars, feedVars, running>>
    \/ running = "knobs" /\ Knobs!Next /\ UNCHANGED <<shelfVars, shownVars, booksVars, doorsVars, talkVars, feedVars, running>>
    \/ running = "talk" /\ Talk!Next /\ UNCHANGED <<shelfVars, shownVars, booksVars, doorsVars, knobsVars, feedVars, running>>
    \/ running = "feed" /\ Feed!Next /\ UNCHANGED <<shelfVars, shownVars, booksVars, doorsVars, knobsVars, talkVars, running>>

Spec == Init /\ [][Next]_allVars

\* The properties of the services, for the run.
KeptAsAsked     == Shelf!KeptAsAsked
ExportRestores  == Shelf!ExportRestores
LibraryServed   == Shown!CatalogueServed /\ Books!DrawingsCurrent
SessionsEnd     == Doors!SessionsEnd
SettingsLive    == Knobs!SettingsLive

SignalsArrive   == Feed!SignalsArrive

TranscriptsWhole == Talk!TranscriptsWhole
RequestsPaired   == Talk!RequestsPaired
SpendAndScreen   == Talk!SpendAndScreen

\* Provider rounds, tools, retries and a transaction of several statements together are
\* one answer: told once, whole, at one moment and on the end of its conversation, or never.
KeepsTranscripts == Promise!Spec

-----------------------------------------------------------------------------
Chain == [v1 |-> "none", v2 |-> "none", d1 |-> "n1"]

\* Bounds. Ids are used in their order: which of them it is makes no difference.
InOrder(used) == \A i \in used : i = 1 \/ i - 1 \in used
Used    == {p \in Procs : proc[p].pc # "idle"}
Busy    == {p \in Procs : proc[p].pc \notin {"idle", "done"}}
Savers  == {p \in Procs : saver[p].pc # "idle"}
Callers == {p \in Procs : caller[p].pc # "idle"}

\* Two requests of the catalogue at a time, no third once two have met, and with a
\* snapshot in the making two one after the other.
Few == /\ InOrder(Used) /\ InOrder({t \in Tags : tag[t] # Unused})
       /\ Cardinality(Busy) <= 2
       /\ crossed # {} => Cardinality(Used) <= 2
       /\ build.pc # "idle" \/ moved # Parts => Cardinality(Busy) <= 1 /\ Cardinality(Used) <= 2

FewTokens == InOrder(Callers) /\ InOrder({t \in Tokens : token[t].kind # "none"})

\* Two saves at a time, and no third once two have met or an error was dropped.
FewSaves == /\ InOrder(Savers)
            /\ Cardinality({p \in Savers : saver[p].pc # "done"}) <= 2
            /\ mixed \/ dropped > 0 => Cardinality(Savers) <= 2

\* What one turn streams and asks again, and that its client goes, is nothing to the other.
FewTurns == /\ Cardinality({t \in Turns : turn[t].gone}) <= 1
            /\ Cardinality({t \in Turns : turn[t].stream}) <= 1
            /\ Cardinality({t \in Turns : turn[t].unparsed > 0}) <= 1

Bound == /\ running = "shelf" => Few
         /\ running = "doors" => FewTokens
         /\ running = "knobs" => FewSaves
         /\ running = "talk"  => FewTurns

Symmetry == Permutations(Turns)
=============================================================================
