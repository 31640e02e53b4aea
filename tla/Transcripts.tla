---------------------------- MODULE Transcripts ----------------------------
(***************************************************************************)
(* What the assistant promises those who talk to it, without providers,    *)
(* tools, transactions or numbered rows: a turn is told once, as a whole   *)
(* and at one moment, on the end of what its conversation says then, or    *)
(* nothing of it ever is; what was said stays as it was said, and a        *)
(* conversation goes as a whole and does not come back.                    *)
(***************************************************************************)
EXTENDS Naturals, Sequences

CONSTANTS
  Convs, Turns, NoConv,
  Pasts      \* what conversations may say at the start

VARIABLES
  open,      \* the conversations there are
  log,       \* conversation |-> its messages, in order
  fate       \* turn |-> [of, is], its conversation and what became of it

vars == <<open, log, fate>>

Init ==
  /\ log \in [Convs -> Pasts]
  /\ open = {c \in Convs : log[c] # <<>>}
  /\ fate = [t \in Turns |-> [of |-> NoConv, is |-> "unasked"]]

\* A question, its answer, and between them calls that are answered one by one.
WholeTurn(t, said) ==
  /\ Len(said) >= 2
  /\ \A i \in DOMAIN said : said[i].of = t
  /\ said[1].kind = "question" /\ said[Len(said)].kind = "answer"
  /\ \A i \in 2..Len(said) - 1 : said[i].kind = IF i % 2 = 0 THEN "calls" ELSE "results"
  /\ \A i \in 2..Len(said) - 1 : said[i].kind = "calls" => i + 1 < Len(said) /\ said[i + 1].n = said[i].n

\* A question opens a conversation, or continues one.
Ask(t, c) ==
  /\ open' = open \cup {c}
  /\ fate[t].is = "unasked"
  /\ c \in open \/ \A u \in Turns : fate[u].of # c
  /\ fate' = [fate EXCEPT ![t] = [of |-> c, is |-> "asked"]]
  /\ UNCHANGED log

\* What comes on the end of a conversation.
Added(c) == SubSeq(log'[c], Len(log[c]) + 1, Len(log'[c]))

Tell(t) ==
  LET c == fate[t].of
  IN /\ fate[t].is = "asked"
     /\ c \in open
     /\ fate' = [fate EXCEPT ![t].is = "told"]
     /\ UNCHANGED open
     /\ log' = [log EXCEPT ![c] = @ \o Added(c)]
     /\ WholeTurn(t, Added(c))

Lose(t) ==
  /\ fate[t].is = "asked"
  /\ fate' = [fate EXCEPT ![t].is = "lost"]
  /\ UNCHANGED <<open, log>>

Delete(c) ==
  /\ c \in open
  /\ open' = open \ {c}
  /\ log' = [log EXCEPT ![c] = <<>>]
  /\ UNCHANGED fate

Next ==
  \/ \E t \in Turns : Tell(t) \/ Lose(t) \/ \E c \in Convs : Ask(t, c)
  \/ \E c \in Convs : Delete(c)

Spec == Init /\ [][Next]_vars
=============================================================================
