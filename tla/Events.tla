------------------------------- MODULE Events -------------------------------
(***************************************************************************)
(* The signals that tell open views to load again (events/broker.go, the   *)
(* stream of handlers/events.go, and what the handlers publish).  The view *)
(* itself is outside the repository: it loads everything when its stream   *)
(* opens, and a resource when a signal names it.                           *)
(***************************************************************************)
EXTENDS Sequences, FiniteSets, SequencesExt

CONSTANTS Clients, Writers,
          Buffer      \* how many signals a stream holds

Resources == {"stock", "parts", "tags"}

-----------------------------------------------------------------------------
\* What the handlers change and what they publish after that, in order; halfway is
\* what is changed if the second of two transactions fails.

Handled(changes, halfway, says) == [changes |-> changes, halfway |-> halfway, says |-> says]

AdjustPartStock == Handled({"stock", "parts"}, {}, <<"stock", "parts">>)
BulkMoveParts   == Handled({"stock", "parts"}, {"stock", "parts"}, <<"stock">>)
BulkSetMinimumStock == Handled({"parts"}, {}, <<"parts">>)
SetPartTags     == Handled({"tags", "parts"}, {"tags"}, <<"tags", "parts">>)
\* SplitStock, MergeStock, RelocateStock and AdjustStockLot publish nothing.
LotHandler      == Handled({"stock", "parts"}, {}, <<>>)

Handlers == {AdjustPartStock, BulkMoveParts, BulkSetMinimumStock, SetPartTags, LotHandler}

-----------------------------------------------------------------------------
VARIABLES
  subs,      \* the clients whose channel the broker has
  chan,      \* what is in the channel of a client
  todo,      \* what a client has yet to load
  stale,     \* pairs of a client and a resource it shows as it was before a change
  owed,      \* what a handler has yet to publish
  unsaid     \* pairs of a client and a resource whose change nobody told it: it was
             \* not published, or dropped with no other signal of it in the channel
vars == <<subs, chan, todo, stale, owed, unsaid>>

Init ==
  /\ subs = {} /\ stale = {} /\ unsaid = {}
  /\ chan = [c \in Clients |-> <<>>]
  /\ todo = [c \in Clients |-> {}]
  /\ owed = [w \in Writers |-> <<>>]

\* The channel is made and entered before the stream answers, so before the view loads.
Subscribe(c) ==
  /\ c \notin subs
  /\ subs' = subs \cup {c}
  /\ todo' = [todo EXCEPT ![c] = Resources]
  /\ stale' = stale \cup {c} \X Resources
  /\ UNCHANGED <<chan, owed, unsaid>>

\* The client goes, or its connection: the channel is closed with what is in it.
Unsubscribe(c) ==
  /\ c \in subs
  /\ subs' = subs \ {c}
  /\ chan' = [chan EXCEPT ![c] = <<>>]
  /\ todo' = [todo EXCEPT ![c] = {}]
  /\ stale' = {x \in stale : x[1] # c}
  /\ unsaid' = {x \in unsaid : x[1] # c}
  /\ UNCHANGED owed

\* The statements of a handler, then its signals; a handler that fails halfway
\* publishes nothing, but for one that goes on whatever fails (BulkMoveParts).
Change(w, changes, says) ==
  /\ owed[w] = <<>>
  /\ owed' = [owed EXCEPT ![w] = says]
  /\ stale' = stale \cup subs \X changes
  /\ unsaid' = unsaid \cup subs \X (changes \ ToSet(says))
  /\ UNCHANGED <<subs, chan, todo>>

Handle(w, h) ==
  \/ Change(w, h.changes, h.says)
  \/ h.halfway # {} /\ Change(w, h.halfway, IF h = BulkMoveParts THEN h.says ELSE <<>>)

\* A Publish to which any signal in the channel is as good as another.
BadPublish(w) ==
  LET ev == Head(owed[w])
      full == {c \in subs : Len(chan[c]) >= Buffer}
  IN  /\ owed[w] # <<>>
      /\ chan' = [c \in Clients |-> IF c \in subs /\ chan[c] = <<>> THEN <<ev>> ELSE chan[c]]
      /\ unsaid' = unsaid \cup {<<c, ev>> : c \in {d \in full : ev \notin ToSet(chan[d])}}
      /\ owed' = [owed EXCEPT ![w] = Tail(@)]
      /\ UNCHANGED <<subs, todo, stale>>

\* A channel that is full is passed over.
Publish(w) ==
  LET ev == Head(owed[w])
      full == {c \in subs : Len(chan[c]) >= Buffer}
  IN  /\ owed[w] # <<>>
      /\ chan' = [c \in Clients |-> IF c \in subs \ full THEN Append(chan[c], ev) ELSE chan[c]]
      /\ unsaid' = unsaid \cup {<<c, ev>> : c \in {d \in full : ev \notin ToSet(chan[d])}}
      /\ owed' = [owed EXCEPT ![w] = Tail(@)]
      /\ UNCHANGED <<subs, todo, stale>>

\* A signal is written to the stream, and a write that fails ends it.
Deliver(c) ==
  /\ chan[c] # <<>>
  /\ chan' = [chan EXCEPT ![c] = Tail(@)]
  /\ todo' = [todo EXCEPT ![c] = @ \cup {Head(chan[c])}]
  /\ UNCHANGED <<subs, stale, owed, unsaid>>

\* The view loads what it was told of.
Load(c, r) ==
  /\ r \in todo[c]
  /\ todo' = [todo EXCEPT ![c] = @ \ {r}]
  /\ stale' = stale \ {<<c, r>>}
  /\ unsaid' = unsaid \ {<<c, r>>}
  /\ UNCHANGED <<subs, chan, owed>>

Next ==
  \/ \E c \in Clients : Subscribe(c) \/ Unsubscribe(c) \/ Deliver(c) \/ \E r \in Resources : Load(c, r)
  \/ \E w \in Writers : Publish(w) \/ \E h \in Handlers : Handle(w, h)

Spec == Init /\ [][Next]_vars

-----------------------------------------------------------------------------
TypeOK ==
  /\ subs \subseteq Clients
  /\ chan \in [Clients -> Seq(Resources)]
  /\ todo \in [Clients -> SUBSET Resources]
  /\ stale \subseteq Clients \X Resources
  /\ owed \in [Writers -> Seq(Resources)]
  /\ unsaid \subseteq Clients \X Resources

\* A view that shows what is no more so has a signal of it ahead, unless nobody
\* published the change or the channel was full of signals of other resources alone:
\* whatever else is dropped, joins, leaves or comes between loses nothing (Publish after
\* the statements, Subscribe before the load).
SignalsArrive ==
  \A c \in subs : \A r \in Resources :
    <<c, r>> \in stale =>
      \/ r \in todo[c] \/ r \in ToSet(chan[c])
      \/ \E w \in Writers : r \in ToSet(owed[w])
      \/ <<c, r>> \in unsaid

\* "a dropped signal is harmless" (broker.go:48), and every change is published
\* (events.go:13): a view has a signal ahead of whatever it shows too old.  Neither is
\* so: the channel may be full of signals of other resources, and operations on single
\* lots publish nothing.
DropsAreHarmless == SignalsArrive /\ unsaid \cap stale = {}
=============================================================================
