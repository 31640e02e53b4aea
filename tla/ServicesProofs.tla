--------------------------- MODULE ServicesProofs ---------------------------
(***************************************************************************)
(* Credentials, settings, signals and conversations keep their promises    *)
(* for every number of requests, tokens, values, views, handlers, turns,   *)
(* rounds and replies. The services share no state, so each has an         *)
(* invariant of its own over its own variables: the steps of the others    *)
(* leave it alone, and the theorems of the specification follow one by     *)
(* one. What is said of conversations comes last: what is cut from an old  *)
(* transcript is proved for sequences of messages before the steps; the    *)
(* induction goes over the turns' rows (what a turn has said is in pairs   *)
(* from its question on, and a transaction that has inserted its rows is   *)
(* the only one that has in its conversation); and each step of a turn is  *)
(* one of Transcripts, or none.                                            *)
(***************************************************************************)
EXTENDS MCServices, Sequences, FiniteSetTheorems, WellFoundedInduction, TLAPS

-----------------------------------------------------------------------------
\* Credentials.

TokenRows == {Doors!Absent} \cup
    [kind : {"refresh", "pat", "kicad"}, state : {"live", "revoked", "expired", "purged"},
     owner : Users \cup {"none"}, of : Tokens \cup {NoToken}]
CallerRows ==
    [pc : {"idle", "issue", "rotate", "load", "api", "kicad", "user", "served", "done"},
     user : Users \cup {"none"}, token : Tokens \cup {NoToken}, of : Tokens \cup {NoToken},
     route : {"none", "api", "kicad"}, dead : BOOLEAN]

DoorsTyped == token \in [Tokens -> TokenRows] /\ caller \in [Procs -> CallerRows] /\ ended \subseteq Tokens

\* A refresh token of sign-in s that works; a refresh of s under way.
Works(t, s) == token[t].kind = "refresh" /\ token[t].state = "live" /\ token[t].of = s
Under(p, s) == caller[p].pc \in {"rotate", "load", "issue"} /\ caller[p].of = s

\* A sign-in is the first of its tokens, so nothing goes back to one yet to be minted.
SignInsMinted ==
    /\ \A t \in Tokens : token[t].kind = "refresh" => token[t].of \in Tokens
    /\ \A t \in Tokens : token[t].of \in Tokens => token[token[t].of].kind # "none"
    /\ \A p \in Procs : caller[p].of \in Tokens => token[caller[p].of].kind # "none"
    /\ \A p \in Procs : caller[p].pc = "rotate" =>
           /\ caller[p].token \in Tokens /\ token[caller[p].token].kind = "refresh"
           /\ caller[p].of \in Tokens
    /\ \A s \in ended : token[s].kind # "none"

\* A token that works goes with refreshes that are still to revoke it and no other.
OneEach ==
    \A s \in Tokens \ doubled :
        /\ \A t, u \in Tokens : Works(t, s) /\ Works(u, s) => t = u
        /\ \A p, q \in Procs : Under(p, s) /\ Under(q, s) /\ caller[p].pc # "rotate" => p = q
        /\ \A p \in Procs, t \in Tokens :
               Under(p, s) /\ Works(t, s) => caller[p].pc = "rotate" /\ caller[p].token = t
        /\ s \in ended => (\A t \in Tokens : ~Works(t, s)) /\ (\A p \in Procs : ~Under(p, s))

\* What a request is let through for.
Passed ==
    \A p \in Procs : caller[p].pc \in {"api", "kicad", "user", "served"} =>
        LET t == caller[p].token
        IN  /\ t \in Tokens /\ token[t].kind # "none"
            /\ caller[p].dead => token[t].state # "live"
            /\ caller[p].pc \in {"api", "kicad"} => caller[p].route = caller[p].pc
            /\ caller[p].pc \in {"user", "served"} =>
                   /\ ~caller[p].dead
                   /\ IF caller[p].route = "kicad" THEN caller[p].pc = "served" /\ token[t].kind = "kicad"
                                                   ELSE token[t].kind = "pat"

DoorsInv == DoorsTyped /\ SignInsMinted /\ OneEach /\ Passed

LEMMA DoorsInit == Doors!Init => DoorsInv
BY ServicesAssumption DEF Doors!Init, DoorsInv, DoorsTyped, TokenRows, CallerRows, SignInsMinted, OneEach, Passed,
   Doors!Idle, Doors!Absent, Works, Under


\* A request goes to another step, or starts, and the others stay where they are.
LEMMA CallerSet ==
    ASSUME DoorsTyped, NEW p \in Procs, NEW r \in CallerRows, caller' = [caller EXCEPT ![p] = r]
    PROVE  caller' \in [Procs -> CallerRows] /\ caller'[p] = r /\ \A q \in Procs \ {p} : caller'[q] = caller[q]
BY DEF DoorsTyped

LEMMA CallerMoves ==
    ASSUME DoorsTyped, NEW p \in Procs, NEW pc, caller' = [caller EXCEPT ![p].pc = pc],
           pc \in {"issue", "rotate", "load", "api", "kicad", "user", "served", "done"}
    PROVE  /\ caller' \in [Procs -> CallerRows]
           /\ caller'[p].pc = pc
           /\ caller'[p].user = caller[p].user /\ caller'[p].token = caller[p].token
           /\ caller'[p].of = caller[p].of /\ caller'[p].route = caller[p].route /\ caller'[p].dead = caller[p].dead
           /\ \A q \in Procs \ {p} : caller'[q] = caller[q]
<1>1. caller[p] \in CallerRows
  BY DEF DoorsTyped
<1>2. [caller[p] EXCEPT !.pc = pc] \in CallerRows
  BY <1>1 DEF CallerRows
<1>3. caller' = [caller EXCEPT ![p] = [caller[p] EXCEPT !.pc = pc]]
  OBVIOUS
<1>4. /\ caller' \in [Procs -> CallerRows] /\ caller'[p] = [caller[p] EXCEPT !.pc = pc]
      /\ \A q \in Procs \ {p} : caller'[q] = caller[q]
  BY <1>2, <1>3, CallerSet
<1> QED BY <1>1, <1>4 DEF CallerRows

LEMMA StateSet ==
    ASSUME DoorsTyped, NEW t \in Tokens, token[t].kind # "none",
           NEW state \in {"revoked", "expired", "purged"}, token' = [token EXCEPT ![t].state = state]
    PROVE  /\ token' \in [Tokens -> TokenRows]
           /\ token'[t].kind = token[t].kind /\ token'[t].of = token[t].of /\ token'[t].state = state
           /\ \A u \in Tokens \ {t} : token'[u] = token[u]
<1> DEFINE row == [token[t] EXCEPT !.state = state]
<1>1. token[t] \in TokenRows \ {Doors!Absent}
  BY DEF DoorsTyped, Doors!Absent
<1>2. row \in TokenRows /\ row.kind = token[t].kind /\ row.of = token[t].of /\ row.state = state
  BY <1>1 DEF TokenRows
<1>3. token' = [token EXCEPT ![t] = row]
  OBVIOUS
<1> HIDE DEF row
<1> QED BY <1>2, <1>3 DEF DoorsTyped

\* Tokens are revoked, purged or expire, and a request may end: nothing that was dead works.
LEMMA TokensDie ==
    ASSUME DoorsInv, token' \in [Tokens -> TokenRows], caller' \in [Procs -> CallerRows],
           \A t \in Tokens : /\ token'[t].kind = token[t].kind /\ token'[t].of = token[t].of
                             /\ token'[t].state = "live" => token[t].state = "live",
           \A q \in Procs : \/ caller'[q] = caller[q]
                            \/ caller[q].pc = "idle" /\ caller'[q].pc = "done" /\ caller'[q].of = caller[q].of,
           doubled \subseteq doubled', ended \subseteq ended',
           \A s \in ended' \ ended :
               /\ s \in Tokens /\ token[s].kind # "none"
               /\ s \in doubled' \/ ((\A t \in Tokens : ~Works(t, s)') /\ \A q \in Procs : ~Under(q, s))
    PROVE  DoorsInv'
<1> USE DEF DoorsInv
<1>1. DoorsTyped'
  BY DEF DoorsTyped
<1>2. SignInsMinted'
  <2>1. \A q \in Procs : caller'[q].of = caller[q].of
    OBVIOUS
  <2>2. \A s \in ended' : token[s].kind # "none" /\ s \in Tokens
    BY DEF SignInsMinted, DoorsTyped
  <2> QED BY <2>1, <2>2 DEF SignInsMinted
<1>3. /\ \A t, s \in Tokens : Works(t, s)' => Works(t, s)
      /\ \A s \in Tokens, q \in Procs : Under(q, s)' => Under(q, s) /\ caller'[q] = caller[q]
  BY DEF Works, Under
<1>4. OneEach'
  <2> SUFFICES ASSUME NEW s \in Tokens \ doubled'
               PROVE  /\ \A t, u \in Tokens : Works(t, s)' /\ Works(u, s)' => t = u
                      /\ \A p, q \in Procs : Under(p, s)' /\ Under(q, s)' /\ caller'[p].pc # "rotate" => p = q
                      /\ \A p \in Procs, t \in Tokens :
                             Under(p, s)' /\ Works(t, s)' => caller'[p].pc = "rotate" /\ caller'[p].token = t
                      /\ s \in ended' => (\A t \in Tokens : ~Works(t, s)') /\ (\A p \in Procs : ~Under(p, s)')
    BY DEF OneEach
  <2> QED BY <1>3 DEF OneEach
<1>5. Passed'
  BY DEF Passed
<1> QED BY <1>1, <1>2, <1>4, <1>5

\* What does not touch the tokens.
DoorsElse == UNCHANGED <<token, ended, doubled>>

LEMMA LoginKeeps == ASSUME DoorsInv, NEW p \in Procs, Doors!Login(p) PROVE DoorsInv'
<1> USE DEF DoorsInv
<1>1. PICK u \in Users : caller' = [caller EXCEPT ![p] = [Doors!Idle EXCEPT !.pc = "issue", !.user = u]]
  BY DEF Doors!Login
<1>2. DoorsElse
  BY DEF Doors!Login, Doors!SessionsUnchanged, DoorsElse
<1> DEFINE r == [Doors!Idle EXCEPT !.pc = "issue", !.user = u]
<1>3. r \in CallerRows /\ r.pc = "issue" /\ r.of = NoToken
  BY DEF Doors!Idle, CallerRows
<1> HIDE DEF r
<1>4. caller' \in [Procs -> CallerRows] /\ caller'[p] = r /\ \A q \in Procs \ {p} : caller'[q] = caller[q]
  BY <1>1, <1>3, CallerSet DEF r
<1>5. SignInsMinted'
  BY <1>2, <1>3, <1>4, ServicesAssumption DEF SignInsMinted, DoorsElse
<1>6. OneEach'
  BY <1>2, <1>3, <1>4, ServicesAssumption DEF OneEach, Works, Under, DoorsElse
<1>7. Passed'
  BY <1>2, <1>3, <1>4 DEF Passed, DoorsElse
<1> QED BY <1>2, <1>4, <1>5, <1>6, <1>7 DEF DoorsTyped, DoorsElse

LEMMA BeginRefreshKeeps == ASSUME DoorsInv, NEW p \in Procs, Doors!BeginRefresh(p) PROVE DoorsInv'
<1> USE DEF DoorsInv
<1>1. PICK t \in Tokens :
          /\ token[t].kind = "refresh" /\ token[t].state = "live"
          /\ caller' = [caller EXCEPT ![p] = [Doors!Idle EXCEPT !.pc = "rotate", !.user = token[t].owner,
                                                               !.token = t, !.of = token[t].of]]
  BY DEF Doors!BeginRefresh, Doors!LookupRefreshToken, Doors!Minted, Doors!Live
<1>2. DoorsElse
  BY DEF Doors!BeginRefresh, Doors!SessionsUnchanged, DoorsElse
<1> DEFINE r == [Doors!Idle EXCEPT !.pc = "rotate", !.user = token[t].owner, !.token = t, !.of = token[t].of]
<1>3. token[t].owner \in Users \cup {"none"} /\ token[t].of \in Tokens
  BY <1>1 DEF DoorsTyped, TokenRows, Doors!Absent, SignInsMinted
<1>4. r \in CallerRows /\ r.pc = "rotate" /\ r.of = token[t].of /\ r.token = t
  BY <1>3 DEF Doors!Idle, CallerRows
<1> HIDE DEF r
<1>5. caller' \in [Procs -> CallerRows] /\ caller'[p] = r /\ \A q \in Procs \ {p} : caller'[q] = caller[q]
  BY <1>1, <1>4, CallerSet DEF r
<1>6. SignInsMinted'
  <2>1. \A q \in Procs \ {p} : caller'[q].of = caller[q].of /\ caller'[q].pc = caller[q].pc
    BY <1>5
  <2> QED BY <1>1, <1>2, <1>3, <1>4, <1>5, <2>1 DEF SignInsMinted, DoorsElse
<1>7. Works(t, token[t].of)
  BY <1>1 DEF Works
<1>8. OneEach'
  BY <1>2, <1>3, <1>4, <1>5, <1>7 DEF OneEach, Works, Under, DoorsElse
<1>9. Passed'
  BY <1>2, <1>4, <1>5 DEF Passed, DoorsElse
<1> QED BY <1>2, <1>5, <1>6, <1>8, <1>9 DEF DoorsTyped, DoorsElse

\* The token a refresh came with is revoked. If the sign-in has no other refresh under
\* way that was its only one.
LEMMA RotateKeeps == ASSUME DoorsInv, NEW p \in Procs, Doors!Rotate(p) PROVE DoorsInv'
<1> USE DEF DoorsInv
<1> DEFINE t == caller[p].token
           s == caller[p].of
<1>1. caller[p].pc = "rotate" /\ caller' = [caller EXCEPT ![p].pc = "load"] /\ ended' = ended
  BY DEF Doors!Rotate
<1>2. \/ /\ token' = IF token[t].state = "live" THEN [token EXCEPT ![t].state = "revoked"] ELSE token
         /\ doubled' = doubled \cup IF Doors!Open(s) = {p} THEN {} ELSE {s}
      \/ token' = token /\ doubled' = doubled \cup {s}
  BY DEF Doors!Rotate, Doors!RevokeRefreshToken, Doors!Live
<1>3. /\ caller' \in [Procs -> CallerRows]
      /\ caller'[p].pc = "load" /\ caller'[p].of = s /\ caller'[p].token = t
      /\ \A q \in Procs \ {p} : caller'[q] = caller[q]
  BY <1>1, CallerMoves
<1>4. t \in Tokens /\ s \in Tokens /\ token[t].kind = "refresh"
  BY <1>1 DEF SignInsMinted
<1>5. /\ token' \in [Tokens -> TokenRows]
      /\ \A u \in Tokens : /\ token'[u].kind = token[u].kind /\ token'[u].of = token[u].of
                           /\ token'[u].state = "live" => token[u].state = "live"
      /\ s \in doubled' \/ (token'[t].state # "live" /\ Doors!Open(s) = {p})
      /\ doubled \subseteq doubled' /\ doubled' \subseteq doubled \cup {s}
  <2>1. doubled \subseteq doubled' /\ doubled' \subseteq doubled \cup {s}
    BY <1>2
  <2>2. CASE token' = [token EXCEPT ![t].state = "revoked"] /\ token[t].state = "live"
    <3>1. /\ token' \in [Tokens -> TokenRows]
          /\ token'[t].kind = token[t].kind /\ token'[t].of = token[t].of /\ token'[t].state = "revoked"
          /\ \A u \in Tokens \ {t} : token'[u] = token[u]
      BY <1>4, <2>2, StateSet
    <3>2. s \in doubled' \/ Doors!Open(s) = {p}
      BY <1>2
    <3> HIDE DEF t, s
    <3> QED BY <2>1, <3>1, <3>2
  <2>3. CASE token' = token
    <3>1. s \in doubled' \/ (token[t].state # "live" /\ Doors!Open(s) = {p})
      BY <1>2, <2>3, <2>2, <1>4
    <3> QED BY <2>1, <2>3, <3>1 DEF DoorsTyped
  <2> QED BY <1>2, <2>2, <2>3
<1> HIDE DEF t, s
<1>6. SignInsMinted'
  <2>1. \A q \in Procs : caller'[q].of = caller[q].of
    BY <1>3 DEF s
  <2>2. \A q \in Procs : caller'[q].pc = "rotate" => caller'[q] = caller[q]
    BY <1>3
  <2>3. \A u \in Tokens : token'[u].of \in Tokens => token'[token'[u].of].kind # "none"
    BY <1>5 DEF SignInsMinted
  <2>4. \A q \in Procs : caller'[q].of \in Tokens => token'[caller'[q].of].kind # "none"
    BY <1>5, <2>1 DEF SignInsMinted
  <2>5. \A q \in Procs : caller'[q].pc = "rotate" => /\ caller'[q].token \in Tokens
                                                    /\ token'[caller'[q].token].kind = "refresh"
                                                    /\ caller'[q].of \in Tokens
    BY <1>5, <2>2 DEF SignInsMinted
  <2>6. \A x \in ended' : token'[x].kind # "none"
    BY <1>1, <1>5 DEF SignInsMinted, DoorsTyped
  <2>7. \A u \in Tokens : token'[u].kind = "refresh" => token'[u].of \in Tokens
    BY <1>5 DEF SignInsMinted
  <2> QED BY <2>3, <2>4, <2>5, <2>6, <2>7 DEF SignInsMinted
<1>7. OneEach'
  <2> SUFFICES ASSUME NEW x \in Tokens \ doubled'
               PROVE  /\ \A u, v \in Tokens : Works(u, x)' /\ Works(v, x)' => u = v
                      /\ \A q, r \in Procs : Under(q, x)' /\ Under(r, x)' /\ caller'[q].pc # "rotate" => q = r
                      /\ \A q \in Procs, u \in Tokens :
                             Under(q, x)' /\ Works(u, x)' => caller'[q].pc = "rotate" /\ caller'[q].token = u
                      /\ x \in ended' => (\A u \in Tokens : ~Works(u, x)') /\ (\A q \in Procs : ~Under(q, x)')
    BY DEF OneEach
  <2>1. /\ \A u \in Tokens : Works(u, x)' => Works(u, x)
        /\ \A q \in Procs : Under(q, x)' => Under(q, x)
    BY <1>1, <1>3, <1>5 DEF Works, Under, s
  <2>2. CASE x # s
    <3>1. \A q \in Procs : Under(q, x)' => caller'[q] = caller[q]
      BY <1>3, <2>2 DEF Under
    <3>2. x \in Tokens \ doubled
      BY <1>5
    <3>3. \A q \in Procs : Under(q, x)' => caller'[q] = caller[q] /\ Under(q, x)
      BY <2>1, <3>1
    <3>4. /\ \A u, v \in Tokens : Works(u, x) /\ Works(v, x) => u = v
          /\ \A q, r \in Procs : Under(q, x) /\ Under(r, x) /\ caller[q].pc # "rotate" => q = r
          /\ \A q \in Procs, u \in Tokens :
                 Under(q, x) /\ Works(u, x) => caller[q].pc = "rotate" /\ caller[q].token = u
          /\ x \in ended => (\A u \in Tokens : ~Works(u, x)) /\ (\A q \in Procs : ~Under(q, x))
      BY <3>2 DEF OneEach
    <3>5. ended' = ended
      BY <1>1
    <3> QED BY <2>1, <3>3, <3>4, <3>5
  <2>3. CASE x = s
    <3>1. Doors!Open(s) = {p} /\ token'[t].state # "live" /\ Under(p, s)
      BY <1>1, <1>5, <2>3 DEF Under, s
    <3>2. \A q \in Procs : Under(q, x)' => q = p
      BY <2>1, <2>3, <3>1 DEF Doors!Open, Under
    <3>3. \A u \in Tokens : ~Works(u, x)'
      BY <1>5, <2>1, <2>3, <3>1 DEF OneEach, Works, t
    <3>4. x \notin ended
      BY <1>5, <2>3, <3>1 DEF OneEach
    <3> QED BY <1>1, <3>2, <3>3, <3>4
  <2> QED BY <2>2, <2>3
<1>8. Passed'
  <2>1. \A q \in Procs : caller'[q].pc \in {"api", "kicad", "user", "served"} => caller'[q] = caller[q]
    BY <1>3
  <2> QED BY <1>5, <2>1 DEF Passed
<1> QED BY <1>1, <1>3, <1>5, <1>6, <1>7, <1>8 DEF DoorsTyped

LEMMA LoadUserKeeps == ASSUME DoorsInv, NEW p \in Procs, Doors!LoadUser(p) PROVE DoorsInv'
<1> USE DEF DoorsInv
<1>1. DoorsElse /\ caller[p].pc = "load"
  BY DEF Doors!LoadUser, Doors!SessionsUnchanged, DoorsElse
<1>2. PICK pc \in {"issue", "done"} : caller' = [caller EXCEPT ![p].pc = pc]
  BY DEF Doors!LoadUser
<1>3. /\ caller' \in [Procs -> CallerRows]
      /\ caller'[p].pc = pc /\ caller'[p].of = caller[p].of
      /\ \A q \in Procs \ {p} : caller'[q] = caller[q]
  BY <1>2, CallerMoves
<1>4. SignInsMinted'
  <2>1. \A q \in Procs : caller'[q].of = caller[q].of
    BY <1>3
  <2>2. \A q \in Procs : caller'[q].pc = "rotate" => caller'[q] = caller[q]
    BY <1>3
  <2> QED BY <1>1, <2>1, <2>2 DEF SignInsMinted, DoorsElse
<1>5. OneEach'
  <2>1. \A q \in Procs, x \in Tokens : Under(q, x)' => Under(q, x) /\ (caller'[q] = caller[q] \/ q = p)
    BY <1>1, <1>3 DEF Under
  <2> QED BY <1>1, <1>3, <2>1 DEF OneEach, Works, DoorsElse
<1>6. Passed'
  BY <1>1, <1>3 DEF Passed, DoorsElse
<1> QED BY <1>1, <1>3, <1>4, <1>5, <1>6 DEF DoorsTyped, DoorsElse

\* A new token, of no sign-in, of its own, or of the one whose refresh ends with it.
LEMMA MintKeeps ==
    ASSUME DoorsInv, NEW p \in Procs, NEW t \in Doors!Fresh, NEW kind \in {"refresh", "pat", "kicad"},
           NEW owner \in Users \cup {"none"}, NEW of \in Tokens \cup {NoToken}, Doors!Mint(t, kind, owner, of),
           caller[p].pc \in {"idle", "issue"}, caller' = [caller EXCEPT ![p].pc = "done"],
           UNCHANGED <<ended, doubled>>,
           IF kind = "refresh" THEN (of = t \/ (caller[p].pc = "issue" /\ caller[p].of = of)) /\ of \in Tokens
                               ELSE of = NoToken
    PROVE  DoorsInv'
<1> USE DEF DoorsInv
<1> DEFINE row == [kind |-> kind, state |-> "live", owner |-> owner, of |-> of]
<1>1. t \in Tokens /\ token[t].kind = "none" /\ token[t].state = "none" /\ token[t].of = NoToken
  BY DEF Doors!Fresh, Doors!Absent
<1>2. token' = [token EXCEPT ![t] = row]
  BY DEF Doors!Mint
<1>3. row \in TokenRows /\ row.kind = kind /\ row.state = "live" /\ row.of = of
  BY DEF TokenRows
<1> HIDE DEF row
<1>4. token' \in [Tokens -> TokenRows] /\ token'[t] = row /\ \A u \in Tokens \ {t} : token'[u] = token[u]
  BY <1>1, <1>2, <1>3 DEF DoorsTyped
<1>5. /\ caller' \in [Procs -> CallerRows]
      /\ caller'[p].pc = "done" /\ caller'[p].of = caller[p].of
      /\ \A q \in Procs \ {p} : caller'[q] = caller[q]
  BY CallerMoves
<1>6. /\ \A u \in Tokens : token[u].kind # "none" => token'[u] = token[u] /\ u # t
      /\ \A u \in Tokens : token[u].kind # "none" => token'[u].kind # "none"
      /\ token'[t].kind # "none"
  BY <1>1, <1>3, <1>4
<1>7. \A q \in Procs : caller'[q].of = caller[q].of
  BY <1>5
<1>8. SignInsMinted'
  <2>1. \A u \in Tokens : token'[u].kind = "refresh" => token'[u].of \in Tokens
    BY <1>1, <1>3, <1>4 DEF SignInsMinted
  <2>2. \A u \in Tokens : token'[u].of \in Tokens => token'[token'[u].of].kind # "none"
    BY <1>1, <1>3, <1>4, <1>6, ServicesAssumption DEF SignInsMinted
  <2>3. \A q \in Procs : caller'[q].of \in Tokens => token'[caller'[q].of].kind # "none"
    BY <1>6, <1>7 DEF SignInsMinted
  <2>4. \A q \in Procs : caller'[q].pc = "rotate" => caller'[q] = caller[q]
    BY <1>5
  <2>5. \A x \in ended' : token'[x].kind # "none"
    BY <1>6 DEF SignInsMinted, DoorsTyped
  <2> QED BY <1>6, <2>1, <2>2, <2>3, <2>4, <2>5 DEF SignInsMinted
<1>9. OneEach'
  <2> SUFFICES ASSUME NEW x \in Tokens \ doubled
               PROVE  /\ \A u, v \in Tokens : Works(u, x)' /\ Works(v, x)' => u = v
                      /\ \A q, r \in Procs : Under(q, x)' /\ Under(r, x)' /\ caller'[q].pc # "rotate" => q = r
                      /\ \A q \in Procs, u \in Tokens :
                             Under(q, x)' /\ Works(u, x)' => caller'[q].pc = "rotate" /\ caller'[q].token = u
                      /\ x \in ended => (\A u \in Tokens : ~Works(u, x)') /\ (\A q \in Procs : ~Under(q, x)')
    BY DEF OneEach
  <2>1. /\ \A u \in Tokens \ {t} : Works(u, x)' => Works(u, x)
        /\ Works(t, x)' => kind = "refresh" /\ of = x
        /\ \A q \in Procs : Under(q, x)' => Under(q, x) /\ q # p /\ caller'[q] = caller[q]
    BY <1>3, <1>4, <1>5 DEF Works, Under
  <2>2. CASE Works(t, x)' /\ x = t
    <3>1. \A u \in Tokens : ~Works(u, t)
      BY <1>1 DEF SignInsMinted, Works
    <3>2. \A q \in Procs : ~Under(q, t)
      BY <1>1 DEF SignInsMinted, Under
    <3>3. t \notin ended
      BY <1>1 DEF SignInsMinted
    <3> QED BY <2>1, <2>2, <3>1, <3>2, <3>3
  <2>3. CASE Works(t, x)' /\ x # t
    <3>1. Under(p, x) /\ caller[p].pc = "issue"
      BY <2>1, <2>3 DEF Under
    <3> QED BY <2>1, <3>1 DEF OneEach
  <2>4. CASE ~Works(t, x)'
    BY <2>1, <2>4 DEF OneEach
  <2> QED BY <2>2, <2>3, <2>4
<1>10. Passed'
  <2>1. \A q \in Procs : caller'[q].pc \in {"api", "kicad", "user", "served"} => caller'[q] = caller[q]
    BY <1>5
  <2> QED BY <1>6, <2>1 DEF Passed
<1> QED BY <1>4, <1>5, <1>8, <1>9, <1>10 DEF DoorsTyped

LEMMA IssueTokensKeeps == ASSUME DoorsInv, NEW p \in Procs, Doors!IssueTokens(p) PROVE DoorsInv'
<1> DEFINE u == caller[p].user
           s == caller[p].of
<1>1. /\ caller[p].pc = "issue" /\ caller' = [caller EXCEPT ![p].pc = "done"] /\ UNCHANGED <<ended, doubled>>
      /\ token' = token \/ \E t \in Doors!Fresh : Doors!Mint(t, "refresh", u, IF s = NoToken THEN t ELSE s)
  BY DEF Doors!IssueTokens, Doors!Finish, Doors!SessionsUnchanged
<1>2. u \in Users \cup {"none"} /\ s \in Tokens \cup {NoToken}
  BY DEF DoorsInv, DoorsTyped, CallerRows
<1>3. CASE token' = token
  <2>1. /\ caller' \in [Procs -> CallerRows]
        /\ caller'[p].pc = "done" /\ caller'[p].of = caller[p].of
        /\ \A q \in Procs \ {p} : caller'[q] = caller[q]
    BY <1>1, CallerMoves DEF DoorsInv
  <2>2. SignInsMinted'
    <3>1. \A q \in Procs : caller'[q].of = caller[q].of
      BY <2>1
    <3>2. \A q \in Procs : caller'[q].pc = "rotate" => caller'[q] = caller[q]
      BY <2>1
    <3> QED BY <1>1, <1>3, <3>1, <3>2 DEF SignInsMinted, DoorsInv
  <2>3. OneEach'
    <3>1. \A q \in Procs, x \in Tokens : Under(q, x)' => Under(q, x) /\ caller'[q] = caller[q]
      BY <2>1 DEF Under
    <3> QED BY <1>1, <1>3, <3>1 DEF OneEach, Works, DoorsInv
  <2>4. Passed'
    BY <1>3, <2>1 DEF Passed, DoorsInv
  <2> QED BY <1>1, <1>3, <2>1, <2>2, <2>3, <2>4 DEF DoorsInv, DoorsTyped
<1>4. CASE token' # token
  <2>1. PICK t \in Doors!Fresh : Doors!Mint(t, "refresh", u, IF s = NoToken THEN t ELSE s)
    BY <1>1, <1>4
  <2>2. t \in Tokens
    BY DEF Doors!Fresh
  <2>3. CASE s = NoToken
    <3>1. Doors!Mint(t, "refresh", u, t)
      BY <2>1, <2>3
    <3> HIDE DEF u, s
    <3> QED BY <1>1, <1>2, <2>2, <3>1, MintKeeps
  <2>4. CASE s # NoToken
    <3>1. Doors!Mint(t, "refresh", u, s) /\ s \in Tokens
      BY <1>2, <2>1, <2>4
    <3>2. caller[p].of = s
      OBVIOUS
    <3> HIDE DEF u, s
    <3> QED BY <1>1, <1>2, <3>1, <3>2, MintKeeps
  <2> QED BY <2>3, <2>4
<1> QED BY <1>3, <1>4

LEMMA CreateKeeps == ASSUME DoorsInv, NEW p \in Procs, Doors!Create(p) PROVE DoorsInv'
<1>1. /\ caller[p].pc = "idle" /\ caller' = [caller EXCEPT ![p].pc = "done"] /\ UNCHANGED <<ended, doubled>>
  BY DEF Doors!Create, Doors!Finish, Doors!SessionsUnchanged
<1>2. PICK t \in Doors!Fresh, u \in Users, kind \in {"pat", "kicad"} : Doors!Mint(t, kind, u, NoToken)
  BY DEF Doors!Create, Doors!CreatePAT, Doors!CreateKicad
<1> QED BY <1>1, <1>2, MintKeeps

\* A request that does what it came for at once.
LEMMA AtOnce ==
    ASSUME DoorsInv, NEW p \in Procs, caller[p].pc = "idle", Doors!Finish(p)
    PROVE  /\ caller' \in [Procs -> CallerRows]
           /\ \A q \in Procs : \/ caller'[q] = caller[q]
                               \/ caller[q].pc = "idle" /\ caller'[q].pc = "done" /\ caller'[q].of = caller[q].of
<1>1. caller' = [caller EXCEPT ![p].pc = "done"]
  BY DEF Doors!Finish
<1>2. /\ caller' \in [Procs -> CallerRows]
      /\ caller'[p].pc = "done" /\ caller'[p].of = caller[p].of
      /\ \A q \in Procs \ {p} : caller'[q] = caller[q]
  BY <1>1, CallerMoves DEF DoorsInv
<1> QED BY <1>2

\* One token is revoked, deleted or expires.
LEMMA OneDies ==
    ASSUME DoorsInv, NEW t \in Tokens, token[t].kind # "none", NEW state \in {"revoked", "expired", "purged"},
           Doors!SetState(t, state)
    PROVE  /\ token' \in [Tokens -> TokenRows]
           /\ \A u \in Tokens : /\ token'[u].kind = token[u].kind /\ token'[u].of = token[u].of
                                /\ token'[u].state = "live" => token[u].state = "live"
           /\ token'[t].state = state
<1>1. /\ token' \in [Tokens -> TokenRows]
      /\ token'[t].kind = token[t].kind /\ token'[t].of = token[t].of /\ token'[t].state = state
      /\ \A u \in Tokens \ {t} : token'[u] = token[u]
  BY StateSet DEF DoorsInv, Doors!SetState
<1> QED BY <1>1

LEMMA RevokeKeeps == ASSUME DoorsInv, NEW p \in Procs, Doors!Revoke(p) \/ Doors!Purge(p) PROVE DoorsInv'
<1>1. caller[p].pc = "idle" /\ Doors!Finish(p) /\ UNCHANGED <<ended, doubled>>
  BY DEF Doors!Revoke, Doors!Purge, Doors!SessionsUnchanged
<1>2. PICK t \in Tokens, state \in {"revoked", "purged"} : token[t].kind # "none" /\ Doors!SetState(t, state)
  BY DEF Doors!Revoke, Doors!Purge, Doors!RevokePAT, Doors!RevokeKicad, Doors!DeletePAT, Doors!DeleteKicad, Doors!Minted
<1>3. /\ caller' \in [Procs -> CallerRows]
      /\ \A q \in Procs : \/ caller'[q] = caller[q]
                          \/ caller[q].pc = "idle" /\ caller'[q].pc = "done" /\ caller'[q].of = caller[q].of
  BY <1>1, AtOnce
<1>4. /\ token' \in [Tokens -> TokenRows]
      /\ \A u \in Tokens : /\ token'[u].kind = token[u].kind /\ token'[u].of = token[u].of
                           /\ token'[u].state = "live" => token[u].state = "live"
  BY <1>2, OneDies
<1> QED BY <1>1, <1>3, <1>4, TokensDie

LEMMA ExpireKeeps == ASSUME DoorsInv, NEW t \in Tokens, Doors!Expire(t) PROVE DoorsInv'
<1>1. token[t].kind # "none" /\ Doors!SetState(t, "expired") /\ UNCHANGED <<caller, ended, doubled>>
  BY DEF Doors!Expire, Doors!Minted, Doors!SessionsUnchanged
<1>2. caller' \in [Procs -> CallerRows]
  BY <1>1 DEF DoorsInv, DoorsTyped
<1>3. /\ token' \in [Tokens -> TokenRows]
      /\ \A u \in Tokens : /\ token'[u].kind = token[u].kind /\ token'[u].of = token[u].of
                           /\ token'[u].state = "live" => token[u].state = "live"
  BY <1>1, OneDies
<1> QED BY <1>1, <1>2, <1>3, TokensDie

LEMMA DeleteUserKeeps == ASSUME DoorsInv, Doors!DeleteUser PROVE DoorsInv'
<1>1. /\ UNCHANGED <<caller, ended, doubled>>
      /\ \E u \in Users :
           token' = [t \in Tokens |-> IF token[t].kind \in {"refresh", "pat"} /\ token[t].owner = u
                                      THEN [token[t] EXCEPT !.state = "purged"] ELSE token[t]]
  BY DEF Doors!DeleteUser, Doors!SessionsUnchanged
<1>2. caller' \in [Procs -> CallerRows]
  BY <1>1 DEF DoorsInv, DoorsTyped
<1>3. \A t \in Tokens : token'[t] = token[t] \/ (token[t].kind # "none" /\ token'[t] = [token[t] EXCEPT !.state = "purged"])
  BY <1>1
<1>4. ASSUME NEW t \in Tokens
      PROVE  /\ token'[t] \in TokenRows
             /\ token'[t].kind = token[t].kind /\ token'[t].of = token[t].of
             /\ token'[t].state = "live" => token[t].state = "live"
  <2>1. token[t] \in TokenRows
    BY DEF DoorsInv, DoorsTyped
  <2>2. CASE token'[t] = token[t]
    BY <2>1, <2>2
  <2>3. CASE token[t].kind # "none" /\ token'[t] = [token[t] EXCEPT !.state = "purged"]
    BY <2>1, <2>3 DEF TokenRows, Doors!Absent
  <2> QED BY <1>3, <2>2, <2>3
<1>5. token' \in [Tokens -> TokenRows]
  BY <1>1, <1>4
<1> QED BY <1>1, <1>2, <1>4, <1>5, TokensDie

\* Who logs out ends a sign-in, and no refresh of it is under way unless the two have met.
LEMMA LogoutKeeps == ASSUME DoorsInv, NEW p \in Procs, Doors!Logout(p) PROVE DoorsInv'
<1>1. caller[p].pc = "idle" /\ Doors!Finish(p)
  BY DEF Doors!Logout
<1>2. PICK t \in Tokens :
          /\ token[t].kind = "refresh" /\ Doors!RevokeRefreshToken(t)
          /\ ended' = ended \cup IF token[t].state = "live" THEN {token[t].of} ELSE {}
          /\ doubled' = doubled \cup IF Doors!Open(token[t].of) = {} THEN {} ELSE {token[t].of}
  BY DEF Doors!Logout, Doors!Minted, Doors!Live
<1>3. /\ caller' \in [Procs -> CallerRows]
      /\ \A q \in Procs : \/ caller'[q] = caller[q]
                          \/ caller[q].pc = "idle" /\ caller'[q].pc = "done" /\ caller'[q].of = caller[q].of
  BY <1>1, AtOnce
<1>4. CASE token[t].state = "live"
  <2> PICK s : s = token[t].of
    OBVIOUS
  <2>1. Doors!SetState(t, "revoked")
    BY <1>2, <1>4 DEF Doors!RevokeRefreshToken, Doors!Live, Doors!SetState
  <2>2. /\ token' \in [Tokens -> TokenRows] /\ token'[t].state = "revoked"
        /\ \A u \in Tokens : /\ token'[u].kind = token[u].kind /\ token'[u].of = token[u].of
                             /\ token'[u].state = "live" => token[u].state = "live"
    BY <1>2, <2>1, OneDies
  <2>3. s \in Tokens /\ token[s].kind # "none" /\ Works(t, s)
    BY <1>2, <1>4 DEF DoorsInv, SignInsMinted, Works
  <2>4. ended' = ended \cup {s} /\ doubled \subseteq doubled' /\ (s \in doubled' \/ Doors!Open(s) = {})
    BY <1>2, <1>4
  <2>5. s \in doubled' \/ ((\A u \in Tokens : ~Works(u, s)') /\ \A q \in Procs : ~Under(q, s))
    <3> SUFFICES ASSUME s \notin doubled' PROVE (\A u \in Tokens : ~Works(u, s)') /\ \A q \in Procs : ~Under(q, s)
      OBVIOUS
    <3>1. \A u \in Tokens : Works(u, s)' => Works(u, s)
      BY <2>2 DEF Works
    <3>2. \A u \in Tokens : Works(u, s) => u = t
      BY <2>3, <2>4 DEF DoorsInv, OneEach
    <3>3. ~Works(t, s)'
      BY <2>2 DEF Works
    <3>4. \A q \in Procs : ~Under(q, s)
      BY <2>4 DEF Doors!Open, Under
    <3> QED BY <3>1, <3>2, <3>3, <3>4
  <2> QED BY <1>3, <2>2, <2>3, <2>4, <2>5, TokensDie
<1>5. CASE token[t].state # "live"
  <2>1. token' = token /\ ended' = ended /\ doubled \subseteq doubled'
    BY <1>2, <1>5 DEF Doors!RevokeRefreshToken, Doors!Live
  <2>2. token' \in [Tokens -> TokenRows]
    BY <2>1 DEF DoorsInv, DoorsTyped
  <2> QED BY <1>3, <2>1, <2>2, TokensDie
<1> QED BY <1>4, <1>5

\* A request with a token.
LEMMA ArriveKeeps == ASSUME DoorsInv, NEW p \in Procs, Doors!Arrive(p) PROVE DoorsInv'
<1> USE DEF DoorsInv
<1>1. PICK t \in Tokens \ Doors!Fresh, route \in {"api", "kicad"} :
          caller' = [caller EXCEPT ![p] = [Doors!Idle EXCEPT !.pc = route, !.token = t, !.route = route, !.dead = ~Doors!Live(t)]]
  BY DEF Doors!Arrive
<1>2. DoorsElse
  BY DEF Doors!Arrive, Doors!SessionsUnchanged, DoorsElse
<1> DEFINE r == [Doors!Idle EXCEPT !.pc = route, !.token = t, !.route = route, !.dead = ~Doors!Live(t)]
<1>3. r \in CallerRows /\ r.pc = route /\ r.of = NoToken /\ r.token = t /\ r.route = route /\ r.dead = (token[t].state # "live")
  BY DEF Doors!Idle, CallerRows, Doors!Live
<1> HIDE DEF r
<1>4. caller' \in [Procs -> CallerRows] /\ caller'[p] = r /\ \A q \in Procs \ {p} : caller'[q] = caller[q]
  BY <1>1, <1>3, CallerSet DEF r
<1>5. token[t].kind # "none"
  BY DEF DoorsTyped, TokenRows, Doors!Fresh
<1>6. SignInsMinted'
  <2>1. \A q \in Procs \ {p} : caller'[q].of = caller[q].of /\ caller'[q].pc = caller[q].pc
    BY <1>4
  <2> QED BY <1>2, <1>3, <1>4, <2>1, ServicesAssumption DEF SignInsMinted, DoorsElse
<1>7. OneEach'
  BY <1>2, <1>3, <1>4, ServicesAssumption DEF OneEach, Works, Under, DoorsElse
<1>8. Passed'
  BY <1>2, <1>3, <1>4, <1>5, ZenonT(40) DEF Passed, DoorsElse
<1> QED BY <1>2, <1>4, <1>6, <1>7, <1>8 DEF DoorsTyped, DoorsElse

LEMMA CheckKeeps ==
    ASSUME DoorsInv, NEW p \in Procs, Doors!Authenticate(p) \/ Doors!RequireUser(p) \/ Doors!RequireKicad(p)
    PROVE  DoorsInv'
<1> USE DEF DoorsInv
<1> DEFINE t == caller[p].token
<1>1. DoorsElse /\ caller[p].pc \in {"api", "user", "kicad"}
  BY DEF Doors!Authenticate, Doors!RequireUser, Doors!RequireKicad, Doors!SessionsUnchanged, DoorsElse
<1>2. /\ caller' \in [Procs -> CallerRows]
      /\ caller'[p].of = caller[p].of /\ caller'[p].token = t
      /\ caller'[p].route = caller[p].route /\ caller'[p].dead = caller[p].dead
      /\ caller'[p].pc \in {"user", "served", "done"}
      /\ \A q \in Procs \ {p} : caller'[q] = caller[q]
  <2>1. CASE Doors!Authenticate(p) /\ caller' # [caller EXCEPT ![p].pc = "done"]
    <3>1. /\ caller' = [caller EXCEPT ![p].pc = "user", ![p].user = token[t].owner]
          /\ token[t].kind = "pat" /\ t \in Tokens
      BY <2>1 DEF Doors!Authenticate, Doors!LookupPAT, Doors!Minted
    <3>2. token[t].owner \in Users \cup {"none"}
      BY <3>1 DEF DoorsTyped, TokenRows, Doors!Absent
    <3> DEFINE r == [[caller[p] EXCEPT !.pc = "user"] EXCEPT !.user = token[t].owner]
    <3>3. caller[p] \in CallerRows
      BY DEF DoorsTyped
    <3>4. r \in CallerRows /\ r.pc = "user" /\ r.of = caller[p].of /\ r.token = t /\ r.route = caller[p].route /\ r.dead = caller[p].dead
      BY <3>2, <3>3 DEF CallerRows
    <3>5. caller' = [caller EXCEPT ![p] = r]
      BY <3>1, <3>3 DEF DoorsTyped, CallerRows
    <3> HIDE DEF r, t
    <3> QED BY <3>4, <3>5, CallerSet
  <2>2. CASE \E pc \in {"served", "done"} : caller' = [caller EXCEPT ![p].pc = pc]
    BY <2>2, CallerMoves
  <2> QED BY <2>1, <2>2 DEF Doors!Authenticate, Doors!RequireUser, Doors!RequireKicad
<1>3. \/ caller'[p].pc = "user" /\ caller[p].pc = "api" /\ t \in Tokens /\ token[t].kind = "pat" /\ token[t].state = "live"
      \/ caller'[p].pc = "served" /\ caller[p].pc = "user"
      \/ caller'[p].pc = "served" /\ caller[p].pc = "kicad" /\ t \in Tokens /\ token[t].kind = "kicad" /\ token[t].state = "live"
      \/ caller'[p].pc = "done"
  <2>1. p \in DOMAIN caller /\ "pc" \in DOMAIN caller[p] /\ "user" \in DOMAIN caller[p]
    BY DEF DoorsTyped, CallerRows
  <2>2. \A pc : caller' = [caller EXCEPT ![p].pc = pc] => caller'[p].pc = pc
    BY <2>1
  <2>3. CASE Doors!Authenticate(p)
    BY <2>1, <2>2, <2>3 DEF Doors!Authenticate, Doors!LookupPAT, Doors!Minted, Doors!Live
  <2>4. CASE Doors!RequireUser(p)
    BY <2>2, <2>4 DEF Doors!RequireUser
  <2>5. CASE Doors!RequireKicad(p)
    BY <2>2, <2>5 DEF Doors!RequireKicad, Doors!LookupKicad, Doors!Minted, Doors!Live
  <2> QED BY <2>3, <2>4, <2>5
<1> HIDE DEF t
<1>4. SignInsMinted'
  <2>1. \A q \in Procs : caller'[q].of = caller[q].of
    BY <1>2
  <2>2. \A q \in Procs : caller'[q].pc = "rotate" => caller'[q] = caller[q]
    BY <1>2
  <2> QED BY <1>1, <2>1, <2>2 DEF SignInsMinted, DoorsElse
<1>5. OneEach'
  <2>1. \A q \in Procs, x \in Tokens : Under(q, x)' => Under(q, x) /\ caller'[q] = caller[q]
    BY <1>2 DEF Under
  <2> QED BY <1>1, <2>1 DEF OneEach, Works, DoorsElse
<1>6. Passed'
  <2>1. \A q \in Procs \ {p} : caller'[q] = caller[q] /\ token' = token
    BY <1>1, <1>2 DEF DoorsElse
  <2>2. caller'[p].pc \in {"user", "served"} =>
            /\ t \in Tokens /\ token[t].kind # "none" /\ ~caller[p].dead
            /\ IF caller[p].route = "kicad" THEN caller'[p].pc = "served" /\ token[t].kind = "kicad" ELSE token[t].kind = "pat"
    BY <1>1, <1>3 DEF Passed, t
  <2>3. caller'[p].pc \in {"user", "served"} =>
            /\ caller'[p].token \in Tokens /\ token'[caller'[p].token].kind # "none" /\ ~caller'[p].dead
            /\ IF caller'[p].route = "kicad" THEN caller'[p].pc = "served" /\ token'[caller'[p].token].kind = "kicad"
                                             ELSE token'[caller'[p].token].kind = "pat"
    BY <1>1, <1>2, <2>2 DEF DoorsElse
  <2> HIDE DEF DoorsInv
  <2>4. Passed
    BY DEF DoorsInv
  <2>5. caller'[p].pc \notin {"api", "kicad"}
    BY <1>2
  <2> QED BY <2>1, <2>3, <2>4, <2>5 DEF Passed
<1> QED BY <1>1, <1>2, <1>4, <1>5, <1>6 DEF DoorsTyped, DoorsElse

LEMMA DoorsStep == DoorsInv /\ Doors!Next => DoorsInv'
<1> SUFFICES ASSUME DoorsInv, Doors!Next PROVE DoorsInv'
  OBVIOUS
<1>1. ASSUME NEW p \in Procs, Doors!Request(p) PROVE DoorsInv'
  BY <1>1, LoginKeeps, BeginRefreshKeeps, RotateKeeps, LoadUserKeeps, IssueTokensKeeps, LogoutKeeps,
     CreateKeeps, RevokeKeeps, ArriveKeeps, CheckKeeps DEF Doors!Request
<1>2. ASSUME Doors!SetActive \/ Doors!SwitchLibrary PROVE DoorsInv'
  BY <1>2 DEF Doors!SetActive, Doors!SwitchLibrary, Doors!SessionsUnchanged,
     DoorsInv, DoorsTyped, SignInsMinted, OneEach, Works, Under, Passed
<1> QED BY <1>1, <1>2, ExpireKeeps, DeleteUserKeeps DEF Doors!Next

LEMMA DoorsStays == DoorsInv /\ UNCHANGED doorsVars => DoorsInv'
BY DEF doorsVars, DoorsInv, DoorsTyped, SignInsMinted, OneEach, Works, Under, Passed

\* At most one of a set, as a count.
LEMMA AtMostOne ==
    ASSUME NEW S, \A x, y \in S : x = y
    PROVE  Cardinality(S) = IF S = {} THEN 0 ELSE 1
<1>1. CASE S = {}
  BY <1>1, FS_EmptySet
<1>2. CASE S # {}
  <2>1. PICK x : S = {x}
    BY <1>2
  <2> QED BY <1>2, <2>1, FS_Singleton
<1> QED BY <1>1, <1>2

LEMMA DoorsCount == \A S : Doors!Cardinality(S) = Cardinality(S)
BY DEF Doors!Cardinality, Cardinality

LEMMA DoorsSafe == DoorsInv => SessionsEnd
<1> SUFFICES ASSUME DoorsInv PROVE Doors!OneTokenEach /\ Doors!DeadAreRefused
  BY DEF SessionsEnd, Doors!SessionsEnd
<1> USE DEF DoorsInv
<1>1. ASSUME NEW s \in Tokens \ doubled
      PROVE  /\ Cardinality(Doors!Working(s)) + Cardinality(Doors!Rotated(s)) <= 1
             /\ s \in ended => Doors!Working(s) = {}
  <2> DEFINE W == Doors!Working(s)
             R == Doors!Rotated(s)
  <2>1. \A t, u \in W : t = u
    BY DEF OneEach, Works, Doors!Working, Doors!Minted, Doors!Live
  <2>2. \A p, q \in R : p = q
    BY DEF OneEach, Under, Doors!Rotated, Doors!Open
  <2>3. W = {} \/ R = {}
    BY DEF OneEach, Works, Under, Doors!Working, Doors!Minted, Doors!Live, Doors!Rotated, Doors!Open
  <2>4. s \in ended => W = {}
    BY DEF OneEach, Works, Doors!Working, Doors!Minted, Doors!Live
  <2> HIDE DEF W, R
  <2>5. Cardinality(W) + Cardinality(R) <= 1
    BY <2>1, <2>2, <2>3, AtMostOne
  <2> QED BY <2>4, <2>5 DEF W, R
<1>2. Doors!DeadAreRefused
  BY DEF Passed, Doors!DeadAreRefused
<1>3. Doors!OneTokenEach
  BY <1>1, DoorsCount DEF Doors!OneTokenEach
<1> QED BY <1>2, <1>3

\* No interleaving of refreshes, logins, logouts and deletions leaves a sign-in with more
\* than one refresh token that works or may still be issued, and a request whose token was
\* revoked, purged or expired is not served, each kind of token on its own routes: a
\* refresh kills its token before it issues the next (Refresh, auth.go), and the
\* middleware looks at the row, not at the claim. Sign-ins that two refreshes doubled at
\* once are counted apart (doubled).
THEOREM SessionsAlwaysEnd == Spec => []SessionsEnd
<1>1. Init => DoorsInv
  BY DoorsInit DEF Init
<1>2. DoorsInv /\ [Next]_allVars => DoorsInv'
  BY DoorsStep, DoorsStays DEF Next, allVars
<1> QED BY <1>1, <1>2, DoorsSafe, PTL DEF Spec

-----------------------------------------------------------------------------
\* Settings.

Configs == [secret : Values \cup {Knobs!Unset}, plain : Values \cup {Knobs!Unset}]
Asks    == [secret : Values \cup {Knobs!Keep, Knobs!Mask, Knobs!Unset}, plain : Values \cup {Knobs!Keep},
            active : {Knobs!Keep, "on", "off"}, row : Values \cup {Knobs!Keep, Knobs!Unset}]
SaverRows ==
    [pc : {"idle", "load", "save", "secret", "plain", "active", "activate", "row", "answer", "import", "reload", "talk", "done"},
     ask : Asks, to : Configs, had : Configs, says : {"nothing", "ok", "failed", "talked"}, true : BOOLEAN]

KnobsTyped ==
    /\ store \in [config : Configs, active : {"on", "off"}, row : Values \cup {Knobs!Unset}]
    /\ live \in [config : Configs, active : {"on", "off"}]
    /\ saver \in [Procs -> SaverRows] /\ dropped \in Nat /\ mixed \in BOOLEAN

Still == {"idle", "talk", "done"}
Between == {"secret", "plain", "activate", "reload"}

\* What kind of request is at which step.
Asked(r) ==
    /\ r.pc \in {"load", "save", "secret", "plain", "active", "activate"} => r.ask.row = Knobs!Keep
    /\ r.pc = "activate" => r.ask.active # Knobs!Keep
    /\ r.pc \in {"row", "answer"} =>
           r.ask.secret = Knobs!Keep /\ r.ask.plain = Knobs!Keep /\ r.ask.active = Knobs!Keep /\ r.ask.row # Knobs!Keep
    /\ r.pc \in {"import", "reload"} =>
           r.ask.secret = Knobs!Keep /\ r.ask.plain = Knobs!Keep /\ r.ask.active = Knobs!Keep /\ r.ask.row = Knobs!Keep

\* A configuration has what was asked of it.
Grants(ask, config) == ask.secret \in {Knobs!Keep, Knobs!Mask, config.secret} /\ ask.plain \in {Knobs!Keep, config.plain}

\* How far a request is that nobody interferes with.
SoFar(r) ==
    /\ r.pc = "save" => Grants(r.ask, r.to) /\ Knobs!Spares(r, r.to)
    /\ r.pc \in {"secret", "plain"} => store.config = r.to /\ live.active = store.active
    /\ r.pc = "plain" => live.config.secret = r.to.secret
    /\ r.pc \in {"secret", "plain", "active", "activate"} => Grants(r.ask, store.config)
    /\ r.pc = "activate" => live.config = store.config /\ store.active = r.ask.active
    /\ r.pc = "answer" /\ dropped = 0 => r.ask.row \in {Knobs!Unset, store.row}
    /\ r.pc \notin Still => Knobs!Spares(r, store.config)

KnobsInv ==
    /\ KnobsTyped
    /\ \A p \in Procs : saver[p].true /\ Asked(saver[p])
    /\ ~mixed => /\ \A p \in Procs : SoFar(saver[p])
                 /\ \A p, q \in Procs : saver[p].pc \notin Still /\ saver[q].pc \notin Still => p = q
                 /\ (\A p \in Procs : saver[p].pc \notin Between) => live = Knobs!Loaded

LEMMA KnobsInit == Knobs!Init => KnobsInv
<1> SUFFICES ASSUME Knobs!Init PROVE KnobsInv
  OBVIOUS
<1>1. \A p \in Procs : saver[p] = Knobs!Idle
  BY DEF Knobs!Init
<1>2. Knobs!Idle \in SaverRows /\ Knobs!Idle.true /\ Knobs!Idle.pc = "idle"
  BY DEF Knobs!Idle, Knobs!NoConfig, SaverRows, Asks, Configs
<1>3. KnobsTyped
  BY <1>2 DEF Knobs!Init, KnobsTyped, Knobs!Nothing, Knobs!NoConfig, Configs
<1>4. live = Knobs!Loaded
  BY DEF Knobs!Init, Knobs!Loaded, Knobs!Nothing
<1> QED BY <1>1, <1>2, <1>3, <1>4 DEF KnobsInv, Asked, SoFar, Still

\* A request begins or goes on: what it says and where it is, and nobody else is under
\* way as long as nothing is mixed.
LEMMA SaverGoes ==
    ASSUME KnobsInv, NEW p \in Procs, NEW r \in SaverRows, saver' = [saver EXCEPT ![p] = r],
           store' \in [config : Configs, active : {"on", "off"}, row : Values \cup {Knobs!Unset}],
           live' \in [config : Configs, active : {"on", "off"}], dropped' \in Nat, mixed' \in BOOLEAN,
           r.true, Asked(r),
           ~mixed' => /\ \A q \in Procs \ {p} : saver[q].pc \in Still
                      /\ SoFar(r)'
                      /\ r.pc \notin Between => live' = Knobs!Loaded'
    PROVE  KnobsInv'
<1>1. saver' \in [Procs -> SaverRows] /\ saver'[p] = r /\ \A q \in Procs \ {p} : saver'[q] = saver[q]
  BY DEF KnobsInv, KnobsTyped
<1>2. KnobsTyped'
  BY <1>1 DEF KnobsTyped
<1>3. \A q \in Procs : saver'[q].true /\ Asked(saver'[q])
  BY <1>1 DEF KnobsInv
<1>4. ASSUME ~mixed', NEW q \in Procs \ {p}
      PROVE  saver'[q].pc \in Still /\ SoFar(saver[q])'
  BY <1>1, <1>4 DEF Still, SoFar
<1>5. ~mixed' => \A q \in Procs : SoFar(saver[q])'
  BY <1>1, <1>4 DEF SoFar
<1>6. ~mixed' => \A q, o \in Procs : saver'[q].pc \notin Still /\ saver'[o].pc \notin Still => q = o
  BY <1>4
<1>7. ~mixed' => ((\A q \in Procs : saver'[q].pc \notin Between) => live' = Knobs!Loaded')
  BY <1>1
<1> QED BY <1>2, <1>3, <1>5, <1>6, <1>7 DEF KnobsInv, Asked

\* A request goes to its next step.
MovesTo(r, was, pc) == r.pc = pc /\ r.ask = was.ask /\ r.to = was.to /\ r.had = was.had /\ r.true = was.true

LEMMA SaverMoves ==
    ASSUME KnobsTyped, NEW p \in Procs,
           NEW pc \in {"save", "secret", "plain", "active", "activate", "answer", "reload"},
           saver' = [saver EXCEPT ![p].pc = pc]
    PROVE  \E r \in SaverRows : saver' = [saver EXCEPT ![p] = r] /\ MovesTo(r, saver[p], pc)
<1> DEFINE r == [saver[p] EXCEPT !.pc = pc]
<1>1. r \in SaverRows /\ MovesTo(r, saver[p], pc)
  BY DEF KnobsTyped, SaverRows, MovesTo
<1>2. saver' = [saver EXCEPT ![p] = r]
  OBVIOUS
<1> HIDE DEF r
<1> QED BY <1>1, <1>2

LEMMA BeginKeeps ==
    ASSUME KnobsInv, NEW p \in Procs, NEW pc \in {"load", "active", "row", "import"}, NEW ask \in Asks,
           Knobs!Begin(p, pc, ask), Asked([pc |-> pc, ask |-> ask]),
           pc = "active" => Grants(ask, store.config)
    PROVE  KnobsInv'
<1>6. PICK r : r = [Knobs!Idle EXCEPT !.pc = pc, !.ask = ask, !.had = store.config]
  OBVIOUS
<1>1. /\ saver' = [saver EXCEPT ![p] = r] /\ UNCHANGED <<store, live, dropped>> /\ saver[p].pc = "idle"
      /\ mixed' = (mixed \/ \E q \in Procs \ {p} : Knobs!Running(q))
  BY <1>6 DEF Knobs!Begin, Knobs!Others
<1>2. r \in SaverRows /\ r.pc = pc /\ r.ask = ask /\ r.had = store.config /\ r.true
  BY <1>6 DEF Knobs!Idle, Knobs!NoConfig, SaverRows, Configs, KnobsInv, KnobsTyped
<1>3. Asked(r)
  BY <1>2 DEF Asked
<1>4. mixed' \in BOOLEAN
  BY <1>1
<1>5. ASSUME ~mixed'
      PROVE  /\ \A q \in Procs \ {p} : saver[q].pc \in Still
             /\ SoFar(r)'
             /\ live' = Knobs!Loaded'
  <2>1. ~mixed /\ \A q \in Procs \ {p} : saver[q].pc \in Still
    BY <1>1, <1>5 DEF Knobs!Running, Still
  <2>2. \A q \in Procs : saver[q].pc \notin Between
    BY <1>1, <2>1 DEF Still, Between
  <2>3. live = Knobs!Loaded
    BY <2>1, <2>2 DEF KnobsInv
  <2>4. SoFar(r)'
    BY <1>1, <1>2 DEF SoFar, Grants, Knobs!Spares
  <2> QED BY <1>1, <2>1, <2>3, <2>4 DEF Knobs!Loaded
<1> QED BY <1>1, <1>2, <1>3, <1>4, <1>5, SaverGoes DEF KnobsInv, KnobsTyped

LEMMA BeginsKeep ==
    ASSUME KnobsInv, NEW p \in Procs, Knobs!UpdateAISettings(p) \/ Knobs!UpdateRow(p) \/ Knobs!ImportData(p)
    PROVE  KnobsInv'
<1> USE DEF Knobs!Keep, Knobs!Mask, Knobs!Unset
<1>1. CASE Knobs!UpdateAISettings(p)
  <2>1. PICK secret \in Values \cup {Knobs!Keep, Knobs!Mask, Knobs!Unset}, plain \in Values \cup {Knobs!Keep},
             active \in {Knobs!Keep, "on", "off"} :
                 Knobs!Begin(p, IF secret = Knobs!Keep /\ plain = Knobs!Keep THEN "active" ELSE "load",
                             [secret |-> secret, plain |-> plain, active |-> active, row |-> Knobs!Keep])
    BY <1>1 DEF Knobs!UpdateAISettings
  <2> DEFINE ask == [secret |-> secret, plain |-> plain, active |-> active, row |-> Knobs!Keep]
  <2>2. ask \in Asks /\ ask.row = Knobs!Keep /\ ask.secret = secret /\ ask.plain = plain
    BY DEF Asks
  <2>3. Asked([pc |-> "active", ask |-> ask]) /\ Asked([pc |-> "load", ask |-> ask])
    BY <2>2 DEF Asked
  <2> HIDE DEF ask
  <2>4. CASE secret = Knobs!Keep /\ plain = Knobs!Keep
    <3>1. Knobs!Begin(p, "active", ask) /\ Grants(ask, store.config)
      BY <2>1, <2>2, <2>4 DEF Grants, ask
    <3> QED BY <2>2, <2>3, <3>1, BeginKeeps
  <2>5. CASE ~(secret = Knobs!Keep /\ plain = Knobs!Keep)
    <3>1. Knobs!Begin(p, "load", ask)
      BY <2>1, <2>5 DEF ask
    <3> QED BY <2>2, <2>3, <3>1, BeginKeeps
  <2> QED BY <2>4, <2>5
<1>2. CASE Knobs!UpdateRow(p)
  <2>1. PICK row \in Values \cup {Knobs!Unset} : Knobs!Begin(p, "row", [Knobs!Idle.ask EXCEPT !.row = row])
    BY <1>2 DEF Knobs!UpdateRow
  <2> DEFINE ask == [Knobs!Idle.ask EXCEPT !.row = row]
  <2>2. /\ Knobs!Idle.ask \in Asks /\ Knobs!Idle.ask.secret = Knobs!Keep
        /\ Knobs!Idle.ask.plain = Knobs!Keep /\ Knobs!Idle.ask.active = Knobs!Keep
    BY DEF Knobs!Idle, Asks
  <2>3. /\ ask \in Asks /\ ask.secret = Knobs!Keep /\ ask.plain = Knobs!Keep /\ ask.active = Knobs!Keep
        /\ ask.row # Knobs!Keep
    BY <2>2, ServicesAssumption DEF Asks
  <2>4. Asked([pc |-> "row", ask |-> ask])
    BY <2>2, <2>3 DEF Asked
  <2> HIDE DEF ask
  <2> QED BY <2>1, <2>3, <2>4, BeginKeeps DEF ask
<1>3. CASE Knobs!ImportData(p)
  <2>1. Knobs!Begin(p, "import", Knobs!Idle.ask)
    BY <1>3 DEF Knobs!ImportData
  <2>2. Knobs!Idle.ask \in Asks
    BY DEF Knobs!Idle, Asks
  <2>3. Asked([pc |-> "import", ask |-> Knobs!Idle.ask])
    BY DEF Asked, Knobs!Idle
  <2> QED BY <2>1, <2>2, <2>3, BeginKeeps
<1> QED BY <1>1, <1>2, <1>3

\* Nobody else is under way while one is, as long as nothing is mixed.
LEMMA Alone ==
    ASSUME KnobsInv, NEW p \in Procs, saver[p].pc \notin Still, ~mixed
    PROVE  \A q \in Procs \ {p} : saver[q].pc \in Still
BY DEF KnobsInv

LEMMA LoadedWhileStill ==
    ASSUME KnobsInv, NEW p \in Procs, saver[p].pc \notin Still, saver[p].pc \notin Between, ~mixed
    PROVE  live = Knobs!Loaded
<1>1. \A q \in Procs : saver[q].pc \notin Between
  BY Alone DEF Still, Between
<1> QED BY <1>1 DEF KnobsInv

\* The answer, which is true.
LEMMA AnswerRows ==
    ASSUME KnobsInv, NEW p \in Procs, NEW says \in {"ok", "failed"}, Knobs!Answer(p, says),
           says = "ok" => Knobs!Holds(saver[p].ask, store) \/ Knobs!Excused(saver[p].ask),
           mixed \/ Knobs!Spares(saver[p], store.config)
    PROVE  \E r \in SaverRows : r.pc = "done" /\ r.true /\ saver' = [saver EXCEPT ![p] = r]
<1> DEFINE true == /\ says = "ok" => (Knobs!Holds(saver[p].ask, store) \/ Knobs!Excused(saver[p].ask))
                   /\ mixed \/ Knobs!Spares(saver[p], store.config)
           r == [Knobs!Idle EXCEPT !.pc = "done", !.says = says, !.true = true]
<1>1. saver' = [saver EXCEPT ![p] = r]
  BY DEF Knobs!Answer
<1>2. true = TRUE
  OBVIOUS
<1> HIDE DEF true
<1>3. r \in SaverRows /\ r.pc = "done" /\ r.true
  BY <1>2 DEF Knobs!Idle, Knobs!NoConfig, SaverRows, Configs, Asks
<1> QED BY <1>1, <1>3

LEMMA AnswerKeeps ==
    ASSUME KnobsInv, NEW p \in Procs, NEW says \in {"ok", "failed"}, Knobs!Answer(p, says),
           says = "ok" => Knobs!Holds(saver[p].ask, store) \/ Knobs!Excused(saver[p].ask),
           saver[p].pc \notin Still, store' = store, dropped' \in Nat, mixed' \in BOOLEAN,
           live' \in [config : Configs, active : {"on", "off"}],
           ~mixed' => ~mixed /\ live' = Knobs!Loaded
    PROVE  KnobsInv'
<1>4. mixed \/ Knobs!Spares(saver[p], store.config)
  BY DEF KnobsInv, SoFar
<1>1. PICK r \in SaverRows : r.pc = "done" /\ r.true /\ saver' = [saver EXCEPT ![p] = r]
  BY <1>4, AnswerRows
<1>2. Asked(r) /\ SoFar(r)'
  BY <1>1 DEF Asked, SoFar, Still
<1>3. ~mixed' => live' = Knobs!Loaded' /\ \A q \in Procs \ {p} : saver[q].pc \in Still
  BY Alone DEF Knobs!Loaded
<1> QED BY <1>1, <1>2, <1>3, SaverGoes DEF KnobsInv, KnobsTyped

LEMMA LoadConfigKeeps == ASSUME KnobsInv, NEW p \in Procs, Knobs!LoadConfig(p) PROVE KnobsInv'
<1>1. /\ saver[p].pc = "load"
      /\ saver' = [saver EXCEPT ![p] = [saver[p] EXCEPT !.pc = "save", !.to = Knobs!Merged(saver[p].ask, store.config)]]
      /\ UNCHANGED <<store, live, dropped, mixed>>
  BY DEF Knobs!LoadConfig
<1>2. saver[p] \in SaverRows /\ saver[p].ask \in Asks /\ store.config \in Configs
  BY DEF KnobsInv, KnobsTyped, SaverRows
<1>3. PICK to : to = Knobs!Merged(saver[p].ask, store.config)
  OBVIOUS
<1>9. to \in Configs /\ Grants(saver[p].ask, to)
  BY <1>2, <1>3 DEF Knobs!Merged, Knobs!Keep, Knobs!Mask, Knobs!Unset, Configs, Asks, Grants
<1>4. PICK r \in SaverRows : /\ saver' = [saver EXCEPT ![p] = r]
                             /\ r.pc = "save" /\ r.to = to /\ r.ask = saver[p].ask /\ r.had = saver[p].had /\ r.true
  <2> DEFINE x == [saver[p] EXCEPT !.pc = "save", !.to = to]
  <2>1. x \in SaverRows /\ x.pc = "save" /\ x.to = to /\ x.ask = saver[p].ask /\ x.had = saver[p].had /\ x.true
    BY <1>2, <1>9 DEF SaverRows, KnobsInv
  <2>2. saver' = [saver EXCEPT ![p] = x]
    BY <1>1, <1>3
  <2> HIDE DEF x
  <2> QED BY <2>1, <2>2
<1>5. Asked(r)
  BY <1>1, <1>4 DEF Asked, KnobsInv
<1>7. saver[p].pc \notin Still /\ saver[p].pc \notin Between
  BY <1>1 DEF Still, Between
<1>10. ~mixed => Knobs!Spares(saver[p], store.config)
  BY <1>7 DEF KnobsInv, SoFar
<1>11. ~mixed => Knobs!Spares(saver[p], to)
  BY <1>2, <1>3, <1>10 DEF Knobs!Spares, Knobs!Merged
<1>12. ~mixed => Knobs!Spares(r, r.to) /\ Knobs!Spares(r, store.config)
  BY <1>4, <1>10, <1>11 DEF Knobs!Spares
<1>6. ~mixed' => SoFar(r)'
  BY <1>1, <1>4, <1>9, <1>12 DEF SoFar, Knobs!Spares
<1>8. ~mixed' => live' = Knobs!Loaded' /\ \A q \in Procs \ {p} : saver[q].pc \in Still
  BY <1>1, <1>7, Alone, LoadedWhileStill DEF Knobs!Loaded
<1> QED BY <1>1, <1>4, <1>5, <1>6, <1>8, SaverGoes DEF KnobsInv, KnobsTyped

\* What a request holds while it goes on.
LEMMA Going ==
    ASSUME KnobsInv, NEW p \in Procs,
           saver[p].pc \in {"save", "secret", "plain", "active", "activate", "row", "answer", "import", "reload"}
    PROVE  /\ saver[p].ask \in Asks /\ saver[p].to \in Configs /\ saver[p].true /\ Asked(saver[p])
           /\ ~mixed => SoFar(saver[p]) /\ \A q \in Procs \ {p} : saver[q].pc \in Still
           /\ ~mixed /\ saver[p].pc \notin Between => live = Knobs!Loaded
<1>1. saver[p].pc \notin Still
  BY DEF Still
<1> QED BY <1>1, Alone, LoadedWhileStill DEF KnobsInv, KnobsTyped, SaverRows

LEMMA SaveConfigKeeps ==
    ASSUME KnobsInv, NEW p \in Procs, Knobs!SaveConfig(p) \/ Knobs!ConfigureSecret(p) \/ Knobs!ConfigurePlain(p)
    PROVE  KnobsInv'
<1>0. PICK pc : pc = IF saver[p].pc = "save" THEN "secret" ELSE IF saver[p].pc = "secret" THEN "plain" ELSE "active"
  OBVIOUS
<1>1. /\ saver[p].pc \in {"save", "secret", "plain"} /\ saver' = [saver EXCEPT ![p].pc = pc]
      /\ UNCHANGED <<dropped, mixed>>
  BY <1>0 DEF Knobs!SaveConfig, Knobs!ConfigureSecret, Knobs!ConfigurePlain, Knobs!Goto
<1>2. /\ saver[p].pc = "save" => store' = [store EXCEPT !.config = saver[p].to] /\ live' = live
      /\ saver[p].pc = "secret" => store' = store /\ live' = [live EXCEPT !.config.secret = saver[p].to.secret]
      /\ saver[p].pc = "plain" => store' = store /\ live' = [live EXCEPT !.config.plain = saver[p].to.plain]
  BY DEF Knobs!SaveConfig, Knobs!ConfigureSecret, Knobs!ConfigurePlain
<1>3. /\ saver[p].ask \in Asks /\ saver[p].to \in Configs /\ saver[p].true /\ Asked(saver[p])
      /\ ~mixed => SoFar(saver[p]) /\ \A q \in Procs \ {p} : saver[q].pc \in Still
      /\ ~mixed /\ saver[p].pc \notin Between => live = Knobs!Loaded
  BY <1>1, Going
<1>4. pc \in {"secret", "plain", "active"}
  BY <1>0
<1>5. PICK r \in SaverRows : /\ saver' = [saver EXCEPT ![p] = r]
                             /\ r.pc = pc /\ r.ask = saver[p].ask /\ r.to = saver[p].to
                             /\ r.had = saver[p].had /\ r.true
  <2>1. PICK r \in SaverRows : saver' = [saver EXCEPT ![p] = r] /\ MovesTo(r, saver[p], pc)
    <3>1. pc \in {"save", "secret", "plain", "active", "activate", "answer", "reload"} /\ KnobsTyped
      BY <1>4 DEF KnobsInv
    <3>2. saver' = [saver EXCEPT ![p].pc = pc]
      BY <1>1
    <3> QED BY ONLY <3>1, <3>2, SaverMoves, p \in Procs
  <2>2. saver[p].true = TRUE
    BY <1>3 DEF KnobsInv, KnobsTyped, SaverRows
  <2> QED BY <2>1, <2>2 DEF MovesTo
<1>6. /\ store \in [config : Configs, active : {"on", "off"}, row : Values \cup {Knobs!Unset}]
      /\ live \in [config : Configs, active : {"on", "off"}] /\ dropped \in Nat /\ mixed \in BOOLEAN
  BY DEF KnobsInv, KnobsTyped
<1>7. Asked(r)
  BY <1>1, <1>3, <1>4, <1>5 DEF Asked
<1>11. ~mixed => /\ Knobs!Spares(r, store.config)
                 /\ saver[p].pc = "save" => Knobs!Spares(r, saver[p].to)
  <2>1. saver[p].pc \notin Still
    BY <1>1 DEF Still
  <2>2. ~mixed => /\ Knobs!Spares(saver[p], store.config)
                  /\ saver[p].pc = "save" => Knobs!Spares(saver[p], saver[p].to)
    BY <1>3, <2>1 DEF SoFar
  <2> QED BY <1>5, <2>2 DEF Knobs!Spares
<1>8. CASE saver[p].pc = "save"
  <2>1. /\ store' \in [config : Configs, active : {"on", "off"}, row : Values \cup {Knobs!Unset}]
        /\ store'.config = saver[p].to /\ store'.active = store.active /\ live' = live
    BY <1>2, <1>3, <1>6, <1>8
  <2>2. ~mixed => live.active = store.active
    BY <1>3, <1>8 DEF Knobs!Loaded, Between
  <2>3. ~mixed => Grants(saver[p].ask, saver[p].to)
    BY <1>3, <1>8 DEF SoFar
  <2>4. ~mixed' => SoFar(r)'
    BY <1>0, <1>1, <1>5, <1>8, <1>11, <2>1, <2>2, <2>3 DEF SoFar, Knobs!Spares
  <2>5. r.pc \in Between
    BY <1>0, <1>5, <1>8 DEF Between
  <2> QED BY <1>1, <1>3, <1>5, <1>6, <1>7, <2>1, <2>4, <2>5, SaverGoes
<1>9. CASE saver[p].pc = "secret"
  <2>1. /\ live' \in [config : Configs, active : {"on", "off"}]
        /\ live'.config.secret = saver[p].to.secret /\ live'.active = live.active /\ store' = store
    BY <1>2, <1>3, <1>6, <1>9 DEF Configs
  <2>2. ~mixed' => SoFar(r)'
    BY <1>0, <1>1, <1>3, <1>5, <1>9, <1>11, <2>1 DEF SoFar, Knobs!Spares
  <2>3. r.pc \in Between
    BY <1>0, <1>5, <1>9 DEF Between
  <2> QED BY <1>1, <1>3, <1>5, <1>6, <1>7, <2>1, <2>2, <2>3, SaverGoes
<1>10. CASE saver[p].pc = "plain"
  <2>1. /\ live' \in [config : Configs, active : {"on", "off"}]
        /\ live'.config.plain = saver[p].to.plain /\ live'.config.secret = live.config.secret
        /\ live'.active = live.active /\ store' = store
    BY <1>2, <1>3, <1>6, <1>10 DEF Configs
  <2>2. ~mixed' => SoFar(r)'
    BY <1>0, <1>1, <1>3, <1>5, <1>10, <1>11, <2>1 DEF SoFar, Knobs!Spares
  <2>3. ASSUME ~mixed' PROVE live' = Knobs!Loaded'
    <3>1. store.config = saver[p].to /\ live.config.secret = saver[p].to.secret /\ live.active = store.active
      BY <1>1, <1>3, <1>10, <2>3 DEF SoFar
    <3>2. live'.config.secret = store'.config.secret /\ live'.config.plain = store'.config.plain
      BY <2>1, <3>1
    <3>3. live'.config = store'.config
      BY <1>6, <2>1, <3>2 DEF Configs
    <3> QED BY <2>1, <3>1, <3>3 DEF Knobs!Loaded
  <2> QED BY <1>1, <1>3, <1>5, <1>6, <1>7, <2>1, <2>2, <2>3, SaverGoes
<1> QED BY <1>1, <1>8, <1>9, <1>10

LEMMA SaveActiveKeeps ==
    ASSUME KnobsInv, NEW p \in Procs, Knobs!SaveActive(p) \/ Knobs!SetActive(p) \/ Knobs!FailSave(p)
    PROVE  KnobsInv'
<1>1. mixed' = mixed /\ dropped' \in Nat /\ saver[p].pc \in {"load", "save", "active", "activate"}
  BY DEF KnobsInv, KnobsTyped, Knobs!SaveActive, Knobs!SetActive, Knobs!FailSave, Knobs!Fault
<1>2. saver[p].pc \notin Still
  BY <1>1 DEF Still
<1>3. /\ store \in [config : Configs, active : {"on", "off"}, row : Values \cup {Knobs!Unset}]
      /\ live \in [config : Configs, active : {"on", "off"}] /\ dropped \in Nat /\ mixed \in BOOLEAN
  BY DEF KnobsInv, KnobsTyped
<1>4. CASE saver[p].pc \in {"load", "save", "active"} /\ live' = live /\ store' = store
           /\ \/ Knobs!Answer(p, "failed")
              \/ Knobs!Answer(p, "ok") /\ saver[p].pc = "active" /\ saver[p].ask.active = Knobs!Keep
  <2>1. saver[p].pc \notin Between
    BY <1>4 DEF Between
  <2>2. ~mixed => live = Knobs!Loaded
    BY <1>2, <2>1, LoadedWhileStill
  <2>3. CASE Knobs!Answer(p, "failed")
    BY <1>1, <1>2, <1>3, <1>4, <2>2, <2>3, AnswerKeeps
  <2>4. CASE Knobs!Answer(p, "ok") /\ saver[p].pc = "active" /\ saver[p].ask.active = Knobs!Keep
    <3>1. Asked(saver[p]) /\ (~mixed => SoFar(saver[p]))
      BY <2>4, Going
    <3>2. saver[p].ask.row = Knobs!Keep
      BY <2>4, <3>1 DEF Asked
    <3>3. ~mixed => Grants(saver[p].ask, store.config)
      BY <2>4, <3>1 DEF SoFar
    <3>4. Knobs!Holds(saver[p].ask, store) \/ Knobs!Excused(saver[p].ask)
      BY <2>4, <3>2, <3>3 DEF Grants, Knobs!Holds, Knobs!Excused
    <3> QED BY <1>1, <1>2, <1>3, <1>4, <2>2, <2>4, <3>4, AnswerKeeps
  <2> QED BY <1>4, <2>3, <2>4
<1>5. CASE saver[p].pc = "active" /\ saver[p].ask.active # Knobs!Keep /\ live' = live /\ dropped' = dropped
           /\ store' = [store EXCEPT !.active = saver[p].ask.active] /\ Knobs!Goto(p, "activate")
  <2>1. /\ saver[p].ask \in Asks /\ saver[p].true /\ Asked(saver[p])
        /\ ~mixed => SoFar(saver[p]) /\ \A q \in Procs \ {p} : saver[q].pc \in Still
        /\ ~mixed => live = Knobs!Loaded
    BY <1>5, Going DEF Between
  <2>10. PICK r \in SaverRows : saver' = [saver EXCEPT ![p] = r] /\ MovesTo(r, saver[p], "activate")
    <3>1. saver' = [saver EXCEPT ![p].pc = "activate"] /\ KnobsTyped
      BY <1>5 DEF Knobs!Goto, KnobsInv
    <3> QED BY ONLY <3>1, SaverMoves, p \in Procs
  <2>2. /\ saver' = [saver EXCEPT ![p] = r]
        /\ r.pc = "activate" /\ r.ask = saver[p].ask
        /\ r.had = saver[p].had /\ r.true = saver[p].true
    BY <2>10 DEF MovesTo
  <2>3. saver[p].true = TRUE
    BY <2>1 DEF KnobsInv, KnobsTyped, SaverRows
  <2>4. /\ store' \in [config : Configs, active : {"on", "off"}, row : Values \cup {Knobs!Unset}]
        /\ store'.config = store.config /\ store'.active = saver[p].ask.active
    BY <1>3, <1>5, <2>1 DEF Asks
  <2>5. Asked(r)
    BY <1>5, <2>1, <2>2 DEF Asked
  <2>6. ~mixed => Grants(saver[p].ask, store.config)
    BY <1>5, <2>1 DEF SoFar
  <2>9. ~mixed => Knobs!Spares(r, store.config)
    BY <1>2, <2>1, <2>2 DEF SoFar, Knobs!Spares
  <2>7. ~mixed' => SoFar(r)'
    BY <1>1, <1>5, <2>1, <2>2, <2>4, <2>6, <2>9 DEF SoFar, Knobs!Loaded, Knobs!Spares
  <2>8. r.pc \in Between
    BY <2>2 DEF Between
  <2> QED BY <1>1, <1>3, <1>5, <2>1, <2>2, <2>3, <2>4, <2>5, <2>7, <2>8, SaverGoes
<1>6. CASE saver[p].pc = "activate" /\ live' = [live EXCEPT !.active = saver[p].ask.active]
           /\ store' = store /\ Knobs!Answer(p, "ok")
  <2>1. Asked(saver[p]) /\ (~mixed => SoFar(saver[p]))
    BY <1>6, Going
  <2>2. ~mixed => /\ live.config = store.config /\ store.active = saver[p].ask.active
                  /\ Grants(saver[p].ask, store.config)
    BY <1>6, <2>1 DEF SoFar
  <2>3. saver[p].ask.row = Knobs!Keep
    BY <1>6, <2>1 DEF Asked
  <2>4. Knobs!Holds(saver[p].ask, store) \/ Knobs!Excused(saver[p].ask)
    BY <2>2, <2>3 DEF Grants, Knobs!Holds, Knobs!Excused
  <2>5. saver[p].ask.active \in {"on", "off"}
    <3>1. saver[p].ask.active \in {Knobs!Keep, "on", "off"}
      BY <1>6, Going DEF Asks
    <3> QED BY <1>6, <2>1, <3>1 DEF Asked
  <2>6. /\ live' \in [config : Configs, active : {"on", "off"}]
        /\ live'.config = live.config /\ live'.active = saver[p].ask.active
    BY <1>3, <1>6, <2>5
  <2>7. ~mixed => live' = Knobs!Loaded
    BY <2>2, <2>6 DEF Knobs!Loaded
  <2>8. Knobs!Answer(p, "ok") /\ store' = store
    BY <1>6
  <2>9. mixed' \in BOOLEAN /\ (~mixed' => ~mixed /\ live' = Knobs!Loaded)
    BY <1>1, <1>3, <2>7
  <2> QED BY <1>1, <1>2, <2>4, <2>6, <2>8, <2>9, AnswerKeeps
<1> QED BY <1>1, <1>4, <1>5, <1>6 DEF Knobs!SaveActive, Knobs!SetActive, Knobs!FailSave

LEMMA SaveRowKeeps == ASSUME KnobsInv, NEW p \in Procs, Knobs!SaveRow(p) PROVE KnobsInv'
<1>1. /\ saver[p].pc = "row" /\ saver' = [saver EXCEPT ![p].pc = "answer"] /\ UNCHANGED <<live, mixed>>
      /\ \/ /\ store' = [store EXCEPT !.row = IF saver[p].ask.row = Knobs!Unset THEN store.row ELSE saver[p].ask.row]
            /\ dropped' = dropped
         \/ store' = store /\ dropped' = dropped + 1
  BY DEF Knobs!SaveRow, Knobs!Goto, Knobs!Fault, Knobs!Calm
<1>2. /\ store \in [config : Configs, active : {"on", "off"}, row : Values \cup {Knobs!Unset}]
      /\ live \in [config : Configs, active : {"on", "off"}] /\ dropped \in Nat /\ mixed \in BOOLEAN
  BY DEF KnobsInv, KnobsTyped
<1>3. /\ saver[p].ask \in Asks /\ saver[p].true /\ Asked(saver[p])
      /\ ~mixed => SoFar(saver[p]) /\ \A q \in Procs \ {p} : saver[q].pc \in Still
      /\ ~mixed => live = Knobs!Loaded
  BY <1>1, Going DEF Between
<1>13. PICK r \in SaverRows : saver' = [saver EXCEPT ![p] = r] /\ MovesTo(r, saver[p], "answer")
  <2>1. saver' = [saver EXCEPT ![p].pc = "answer"] /\ KnobsTyped
    BY <1>1 DEF KnobsInv
  <2> QED BY ONLY <2>1, SaverMoves, p \in Procs
<1>4. /\ saver' = [saver EXCEPT ![p] = r]
      /\ r.pc = "answer" /\ r.ask = saver[p].ask
      /\ r.had = saver[p].had /\ r.true = saver[p].true
  BY <1>13 DEF MovesTo
<1>5. saver[p].true = TRUE
  BY <1>3 DEF KnobsInv, KnobsTyped, SaverRows
<1>6. saver[p].ask.row \in Values \cup {Knobs!Unset}
  BY <1>1, <1>3 DEF Asked, Asks
<1>7. /\ store' \in [config : Configs, active : {"on", "off"}, row : Values \cup {Knobs!Unset}] /\ dropped' \in Nat
      /\ store'.config = store.config /\ store'.active = store.active
      /\ dropped' = 0 => saver[p].ask.row \in {Knobs!Unset, store'.row}
  <2>1. CASE store' = store /\ dropped' = dropped + 1
    BY <1>2, <2>1
  <2>2. CASE /\ store' = [store EXCEPT !.row = IF saver[p].ask.row = Knobs!Unset THEN store.row ELSE saver[p].ask.row]
             /\ dropped' = dropped
    BY <1>2, <1>6, <2>2
  <2> QED BY <1>1, <2>1, <2>2
<1>8. Asked(r)
  BY <1>1, <1>3, <1>4 DEF Asked
<1>12. ~mixed => Knobs!Spares(r, store.config)
  BY <1>1, <1>3, <1>4 DEF SoFar, Still, Knobs!Spares
<1>9. ~mixed' => SoFar(r)'
  BY <1>1, <1>4, <1>7, <1>12 DEF SoFar, Knobs!Spares
<1>10. ~mixed' => /\ \A q \in Procs \ {p} : saver[q].pc \in Still
                  /\ live' = Knobs!Loaded'
  BY <1>1, <1>3, <1>7 DEF Knobs!Loaded
<1>11. live' \in [config : Configs, active : {"on", "off"}] /\ mixed' \in BOOLEAN
  BY <1>1, <1>2
<1> QED BY <1>4, <1>5, <1>7, <1>8, <1>9, <1>10, <1>11, SaverGoes

LEMMA AnswerRowKeeps == ASSUME KnobsInv, NEW p \in Procs, Knobs!AnswerRow(p) PROVE KnobsInv'
<1>1. PICK says \in {"ok", "failed"} : Knobs!Answer(p, says)
  BY DEF Knobs!AnswerRow
<1>2. saver[p].pc = "answer" /\ UNCHANGED <<store, live, dropped, mixed>>
  BY DEF Knobs!AnswerRow
<1>3. /\ Asked(saver[p]) /\ (~mixed => SoFar(saver[p])) /\ (~mixed => live = Knobs!Loaded)
  BY <1>2, Going DEF Between
<1>4. saver[p].pc \notin Still /\ dropped \in Nat /\ mixed \in BOOLEAN /\ live \in [config : Configs, active : {"on", "off"}]
  BY <1>2 DEF Still, KnobsInv, KnobsTyped
<1>5. /\ saver[p].ask.secret = Knobs!Keep /\ saver[p].ask.plain = Knobs!Keep /\ saver[p].ask.active = Knobs!Keep
      /\ saver[p].ask.row # Knobs!Keep
      /\ ~mixed /\ dropped = 0 => saver[p].ask.row \in {Knobs!Unset, store.row}
  BY <1>2, <1>3 DEF Asked, SoFar
<1>6. Knobs!Holds(saver[p].ask, store) \/ Knobs!Excused(saver[p].ask)
  BY <1>4, <1>5 DEF Knobs!Holds, Knobs!Excused
<1> QED BY <1>1, <1>2, <1>3, <1>4, <1>6, AnswerKeeps

LEMMA ReplaceKeeps == ASSUME KnobsInv, NEW p \in Procs, Knobs!Replace(p) PROVE KnobsInv'
<1>1. PICK s \in Knobs!Stored :
          /\ saver[p].pc = "import" /\ UNCHANGED <<live, dropped, mixed>> /\ store' = s
          /\ saver' = [saver EXCEPT ![p] = [saver[p] EXCEPT !.pc = "reload", !.had = s.config]]
  BY DEF Knobs!Replace
<1>2. store' \in [config : Configs, active : {"on", "off"}, row : Values \cup {Knobs!Unset}]
  BY <1>1 DEF Knobs!Stored, Configs
<1>3. /\ saver[p].true /\ Asked(saver[p])
      /\ ~mixed => \A q \in Procs \ {p} : saver[q].pc \in Still
  BY <1>1, Going
<1>4. PICK r \in SaverRows : /\ saver' = [saver EXCEPT ![p] = r]
                             /\ r.pc = "reload" /\ r.ask = saver[p].ask
                             /\ r.had = store'.config /\ r.true = saver[p].true
  <2> DEFINE x == [saver[p] EXCEPT !.pc = "reload", !.had = s.config]
  <2>1. saver[p] \in SaverRows /\ s.config \in Configs
    BY <1>1 DEF KnobsInv, KnobsTyped, Knobs!Stored, Configs
  <2>2. /\ x \in SaverRows /\ x.pc = "reload" /\ x.ask = saver[p].ask
        /\ x.had = s.config /\ x.true = saver[p].true
    BY <2>1 DEF SaverRows
  <2>3. saver' = [saver EXCEPT ![p] = x]
    BY <1>1
  <2> HIDE DEF x
  <2> QED BY <1>1, <2>2, <2>3
<1>5. saver[p].true = TRUE
  BY <1>3 DEF KnobsInv, KnobsTyped, SaverRows
<1>6. Asked(r) /\ SoFar(r)' /\ r.pc \in Between
  BY <1>1, <1>3, <1>4 DEF Asked, SoFar, Between, Knobs!Spares
<1>7. live' \in [config : Configs, active : {"on", "off"}] /\ mixed' \in BOOLEAN /\ dropped' \in Nat
  BY <1>1 DEF KnobsInv, KnobsTyped
<1> QED BY <1>1, <1>2, <1>3, <1>4, <1>5, <1>6, <1>7, SaverGoes

LEMMA LoadedTyped == KnobsTyped => Knobs!Loaded \in [config : Configs, active : {"on", "off"}]
BY DEF KnobsTyped, Knobs!Loaded

LEMMA ReloadKeeps == ASSUME KnobsInv, NEW p \in Procs, Knobs!Reload(p) PROVE KnobsInv'
<1>1. saver[p].pc = "reload" /\ Knobs!Answer(p, "ok") /\ store' = store
  BY DEF Knobs!Reload
<1>2. /\ store \in [config : Configs, active : {"on", "off"}, row : Values \cup {Knobs!Unset}]
      /\ live \in [config : Configs, active : {"on", "off"}] /\ dropped \in Nat /\ mixed \in BOOLEAN
  BY DEF KnobsInv, KnobsTyped
<1>3. /\ live' \in [config : Configs, active : {"on", "off"}] /\ dropped' \in Nat /\ mixed' \in BOOLEAN
      /\ ~mixed' => ~mixed /\ live' = Knobs!Loaded
  <2>1. CASE Knobs!Load(p) /\ Knobs!Calm /\ UNCHANGED mixed
    BY <1>2, <2>1, LoadedTyped DEF KnobsInv, Knobs!Load, Knobs!Calm
  <2>2. CASE Knobs!Fault /\ (UNCHANGED live \/ live' = [live EXCEPT !.config = store.config]) /\ mixed' = TRUE
    BY <1>2, <2>2 DEF Knobs!Fault
  <2> QED BY <2>1, <2>2 DEF Knobs!Reload
<1>4. Asked(saver[p]) /\ saver[p].pc \notin Still
  BY <1>1, Going DEF Still
<1>5. Knobs!Holds(saver[p].ask, store)
  BY <1>1, <1>4 DEF Asked, Knobs!Holds
<1> QED BY <1>1, <1>3, <1>4, <1>5, AnswerKeeps

LEMMA RestartKeeps == ASSUME KnobsInv, Knobs!Restart PROVE KnobsInv'
<1>1. /\ live' = Knobs!Loaded /\ mixed' = FALSE /\ UNCHANGED <<store, dropped>>
      /\ saver' = [p \in Procs |-> IF saver[p].pc \notin Still THEN [Knobs!Idle EXCEPT !.pc = "done"] ELSE saver[p]]
  BY DEF Knobs!Restart, Knobs!Running, Still
<1> DEFINE over == [Knobs!Idle EXCEPT !.pc = "done"]
<1>2. over \in SaverRows /\ over.true /\ over.pc = "done"
  BY DEF Knobs!Idle, Knobs!NoConfig, SaverRows, Configs, Asks
<1> HIDE DEF over
<1>3. ASSUME NEW p \in Procs
      PROVE  saver'[p] \in SaverRows /\ saver'[p].true /\ saver'[p].pc \in Still
  <2>1. CASE saver[p].pc \in Still
    BY <1>1, <2>1 DEF KnobsInv, KnobsTyped
  <2>2. CASE saver[p].pc \notin Still
    BY <1>1, <1>2, <2>2 DEF Still, over
  <2> QED BY <2>1, <2>2
<1>4. saver' \in [Procs -> SaverRows]
  BY <1>1, <1>3
<1>5. KnobsTyped'
  BY <1>1, <1>4, LoadedTyped DEF KnobsInv, KnobsTyped
<1>6. \A p \in Procs : Asked(saver'[p]) /\ SoFar(saver[p])'
  BY <1>3 DEF Asked, SoFar, Still
<1>7. live' = Knobs!Loaded'
  BY <1>1 DEF Knobs!Loaded
<1> QED BY <1>3, <1>5, <1>6, <1>7 DEF KnobsInv, Asked

\* A turn of a conversation takes what is live, and nothing of it is stored or applied.
LEMMA TalkKeeps == ASSUME KnobsInv, NEW p \in Procs, Knobs!Converse(p) \/ Knobs!Talk(p) PROVE KnobsInv'
<1>1. UNCHANGED <<store, live, dropped, mixed>> /\ saver[p].pc \in {"idle", "talk"}
  BY DEF Knobs!Converse, Knobs!Talk
<1>2. PICK r \in SaverRows : saver' = [saver EXCEPT ![p] = r] /\ r.true /\ r.pc \in {"talk", "done"}
  <2>1. CASE Knobs!Converse(p)
    <3> DEFINE x == [Knobs!Idle EXCEPT !.pc = "talk", !.to.secret = live.config.secret]
    <3>1. live.config.secret \in Values \cup {Knobs!Unset}
      BY DEF KnobsInv, KnobsTyped, Configs
    <3>2. x \in SaverRows /\ x.true /\ x.pc = "talk"
      BY <3>1 DEF Knobs!Idle, Knobs!NoConfig, SaverRows, Configs, Asks
    <3>3. saver' = [saver EXCEPT ![p] = x]
      BY <2>1 DEF Knobs!Converse
    <3> HIDE DEF x
    <3> QED BY <3>2, <3>3
  <2>2. CASE Knobs!Talk(p)
    <3> DEFINE x == [Knobs!Idle EXCEPT !.pc = "done", !.says = "talked"]
    <3>1. x \in SaverRows /\ x.true /\ x.pc = "done"
      BY DEF Knobs!Idle, Knobs!NoConfig, SaverRows, Configs, Asks
    <3>2. saver' = [saver EXCEPT ![p] = x]
      BY <2>2 DEF Knobs!Talk
    <3> HIDE DEF x
    <3> QED BY <3>1, <3>2
  <2> QED BY <2>1, <2>2
<1>3. saver' \in [Procs -> SaverRows] /\ saver'[p] = r /\ \A q \in Procs \ {p} : saver'[q] = saver[q]
  BY <1>2 DEF KnobsInv, KnobsTyped
<1>4. KnobsTyped'
  BY <1>1, <1>3 DEF KnobsInv, KnobsTyped
<1>5. Asked(r) /\ SoFar(r)'
  BY <1>2 DEF Asked, SoFar, Still
<1>6. \A q \in Procs : saver'[q].true /\ Asked(saver'[q])
  BY <1>2, <1>3, <1>5 DEF KnobsInv
<1>7. \A q \in Procs : SoFar(saver[q]) => SoFar(saver[q])'
  BY <1>1, <1>3, <1>5 DEF SoFar
<1>8. \A q \in Procs : /\ saver'[q].pc \in Still <=> saver[q].pc \in Still
                       /\ saver'[q].pc \in Between <=> saver[q].pc \in Between
  BY <1>1, <1>2, <1>3 DEF Still, Between
<1>9. live' = live /\ Knobs!Loaded' = Knobs!Loaded /\ mixed' = mixed
  BY <1>1 DEF Knobs!Loaded
<1> QED BY <1>4, <1>6, <1>7, <1>8, <1>9 DEF KnobsInv, Asked

LEMMA KnobsStep == KnobsInv /\ Knobs!Next => KnobsInv'
BY BeginsKeep, LoadConfigKeeps, SaveConfigKeeps, SaveActiveKeeps, SaveRowKeeps, AnswerRowKeeps, ReplaceKeeps,
   ReloadKeeps, RestartKeeps, TalkKeeps DEF Knobs!Next

LEMMA KnobsStays == KnobsInv /\ UNCHANGED knobsVars => KnobsInv'
BY DEF knobsVars, KnobsInv, KnobsTyped, SoFar, Knobs!Loaded

LEMMA KnobsSafe == KnobsInv => SettingsLive
<1> SUFFICES ASSUME KnobsInv PROVE Knobs!SettingsLive
  BY DEF SettingsLive
<1>1. ~mixed /\ ~Knobs!Saving => live = Knobs!Loaded
  BY DEF KnobsInv, Knobs!Saving, Between
<1>2. store.config.secret # Knobs!Mask /\ live.config.secret # Knobs!Mask
  BY ServicesAssumption DEF KnobsInv, KnobsTyped, Configs, Knobs!Mask, Knobs!Unset
<1>3. \A p \in Procs : saver[p].true
  BY DEF KnobsInv
<1> QED BY <1>1, <1>2, <1>3 DEF Knobs!SettingsLive

\* Between saves the process uses what is stored, unless two saves were under way at once
\* or its rows could not be read; what is stored is never the mask a secret is shown as;
\* a request that says it saved has saved, unless the error of a row was dropped; and what
\* a request leaves alone, or sends back as its mask, is when it ends as it was when it
\* began, unless two were under way at once (Configure, Load, ImportData).
THEOREM SettingsAlwaysLive == Spec => []SettingsLive
<1>1. Init => KnobsInv
  BY KnobsInit DEF Init
<1>2. KnobsInv /\ [Next]_allVars => KnobsInv'
  BY KnobsStep, KnobsStays DEF Next, allVars
<1> QED BY <1>1, <1>2, KnobsSafe, PTL DEF Spec

-----------------------------------------------------------------------------
\* Signals: sequences as channels.

\* What is in a channel is its head or behind it.
LEMMA HeadAndTail ==
    ASSUME NEW S, NEW s \in Seq(S), s # <<>>
    PROVE  /\ Head(s) \in S /\ Tail(s) \in Seq(S)
           /\ Feed!ToSet(s) \subseteq Feed!ToSet(Tail(s)) \cup {Head(s)}
<1>1. Head(s) \in S /\ Tail(s) \in Seq(S)
  OBVIOUS
<1>2. ASSUME NEW i \in DOMAIN s, i # 1
      PROVE  s[i] \in Feed!ToSet(Tail(s))
  <2>1. i - 1 \in DOMAIN Tail(s) /\ Tail(s)[i - 1] = s[i]
    BY <1>2
  <2> QED BY <2>1 DEF Feed!ToSet
<1>3. s[1] = Head(s)
  OBVIOUS
<1> QED BY <1>1, <1>2, <1>3 DEF Feed!ToSet

\* A channel keeps what it has and gets what is put into it.
LEMMA Appended ==
    ASSUME NEW S, NEW s \in Seq(S), NEW e \in S
    PROVE  Append(s, e) \in Seq(S) /\ Feed!ToSet(s) \cup {e} \subseteq Feed!ToSet(Append(s, e))
<1>1. Append(s, e) \in Seq(S) /\ Len(Append(s, e)) = Len(s) + 1 /\ Append(s, e)[Len(s) + 1] = e
  OBVIOUS
<1>2. \A i \in DOMAIN s : i \in DOMAIN Append(s, e) /\ Append(s, e)[i] = s[i]
  OBVIOUS
<1>3. Len(s) + 1 \in DOMAIN Append(s, e)
  BY <1>1
<1> QED BY <1>1, <1>2, <1>3 DEF Feed!ToSet

LEMMA EmptySet == Feed!ToSet(<<>>) = {}
BY DEF Feed!ToSet

\* What a handler does is about the three resources.
LEMMA HandlersTyped ==
    ASSUME NEW h \in Feed!Handlers
    PROVE  /\ h.changes \subseteq Feed!Resources /\ h.halfway \subseteq Feed!Resources
           /\ h.says \in Seq(Feed!Resources)
<1> USE DEF Feed!Resources
<1>1. /\ <<"stock", "parts">> \in Seq(Feed!Resources) /\ <<"stock">> \in Seq(Feed!Resources)
      /\ <<"parts">> \in Seq(Feed!Resources) /\ <<"tags", "parts">> \in Seq(Feed!Resources)
      /\ <<>> \in Seq(Feed!Resources)
  OBVIOUS
<1>2. CASE h = Feed!AdjustPartStock
  BY <1>1, <1>2 DEF Feed!AdjustPartStock, Feed!Handled
<1>3. CASE h = Feed!BulkMoveParts
  BY <1>1, <1>3 DEF Feed!BulkMoveParts, Feed!Handled
<1>4. CASE h = Feed!BulkSetMinimumStock
  BY <1>1, <1>4 DEF Feed!BulkSetMinimumStock, Feed!Handled
<1>5. CASE h = Feed!SetPartTags
  BY <1>1, <1>5 DEF Feed!SetPartTags, Feed!Handled
<1>6. CASE h = Feed!LotHandler
  BY <1>1, <1>6 DEF Feed!LotHandler, Feed!Handled
<1> QED BY <1>2, <1>3, <1>4, <1>5, <1>6 DEF Feed!Handlers

-----------------------------------------------------------------------------
\* Signals: each step keeps the types and the property.

FeedInv == Feed!TypeOK /\ Feed!SignalsArrive

LEMMA FeedInit == Feed!Init => FeedInv
BY DEF Feed!Init, FeedInv, Feed!TypeOK, Feed!SignalsArrive, Feed!Resources

LEMMA ChangeKept ==
    ASSUME FeedInv, NEW w \in Writers, NEW touched \in SUBSET Feed!Resources, NEW says \in Seq(Feed!Resources),
           Feed!Change(w, touched, says)
    PROVE  FeedInv'
<1> USE DEF FeedInv, Feed!TypeOK, Feed!Change
<1>1. Feed!TypeOK'
  OBVIOUS
<1>2. ASSUME NEW c \in subs, NEW r \in Feed!Resources, <<c, r>> \in stale'
      PROVE  \/ r \in todo[c] \/ r \in Feed!ToSet(chan[c])
             \/ \E v \in Writers : r \in Feed!ToSet(owing'[v])
             \/ <<c, r>> \in unsaid'
  <2>1. CASE <<c, r>> \in stale
    <3>1. CASE \E v \in Writers : r \in Feed!ToSet(owing[v])
      <4>1. PICK v \in Writers : r \in Feed!ToSet(owing[v])
        BY <3>1
      <4>2. v # w
        BY <4>1, EmptySet
      <4> QED BY <4>1, <4>2
    <3> QED BY <1>2, <2>1, <3>1 DEF Feed!SignalsArrive
  <2>2. CASE r \in touched
    <3>1. CASE r \in Feed!ToSet(says)
      BY <3>1
    <3>2. CASE r \notin Feed!ToSet(says)
      BY <1>2, <2>2, <3>2
    <3> QED BY <3>1, <3>2
  <2> QED BY <1>2, <2>1, <2>2
<1> QED BY <1>1, <1>2 DEF Feed!SignalsArrive

LEMMA PublishKept ==
    ASSUME FeedInv, NEW w \in Writers, Feed!Publish(w)
    PROVE  FeedInv'
<1> USE DEF FeedInv, Feed!TypeOK
<1> DEFINE ev == Head(owing[w])
           full == {c \in subs : Len(chan[c]) >= Buffer}
<1>1. /\ owing[w] # <<>>
      /\ chan' = [c \in Clients |-> IF c \in subs \ full THEN Append(chan[c], ev) ELSE chan[c]]
      /\ unsaid' = unsaid \cup {<<c, ev>> : c \in {d \in full : ev \notin Feed!ToSet(chan[d])}}
      /\ owing' = [owing EXCEPT ![w] = Tail(@)]
      /\ UNCHANGED <<subs, todo, stale>>
  BY DEF Feed!Publish
<1>2. ev \in Feed!Resources /\ Tail(owing[w]) \in Seq(Feed!Resources) /\ Feed!ToSet(owing[w]) \subseteq Feed!ToSet(Tail(owing[w])) \cup {ev}
  BY <1>1, HeadAndTail
<1>3. full \subseteq subs
  OBVIOUS
<1> HIDE DEF ev, full
<1>4. \A c \in Clients : Append(chan[c], ev) \in Seq(Feed!Resources) /\ Feed!ToSet(chan[c]) \cup {ev} \subseteq Feed!ToSet(Append(chan[c], ev))
  BY <1>2, Appended
<1>5. Feed!TypeOK'
  <2>1. chan' \in [Clients -> Seq(Feed!Resources)]
    BY <1>1, <1>4
  <2>2. unsaid' \subseteq Clients \X Feed!Resources
    BY <1>1, <1>2, <1>3
  <2> QED BY <1>1, <1>2, <2>1, <2>2
<1>6. ASSUME NEW c \in subs, NEW r \in Feed!Resources, <<c, r>> \in stale
      PROVE  \/ r \in todo[c] \/ r \in Feed!ToSet(chan'[c])
             \/ \E v \in Writers : r \in Feed!ToSet(owing'[v])
             \/ <<c, r>> \in unsaid'
  <2>1. c \in Clients /\ Feed!ToSet(chan[c]) \subseteq Feed!ToSet(chan'[c])
    BY <1>1, <1>4, <1>6
  <2>2. r = ev => r \in Feed!ToSet(chan'[c]) \/ <<c, r>> \in unsaid'
    <3>1. CASE c \notin full
      BY <1>1, <1>4, <1>6, <2>1, <3>1
    <3>2. CASE c \in full
      BY <1>1, <2>1, <3>2
    <3> QED BY <3>1, <3>2
  <2>3. CASE \E v \in Writers : r \in Feed!ToSet(owing[v])
    <3>1. PICK v \in Writers : r \in Feed!ToSet(owing[v])
      BY <2>3
    <3>2. r = ev \/ r \in Feed!ToSet(owing'[v])
      BY <1>1, <1>2, <3>1
    <3> QED BY <2>2, <3>2
  <2> QED BY <1>1, <1>6, <2>1, <2>3 DEF Feed!SignalsArrive
<1> QED BY <1>1, <1>5, <1>6 DEF Feed!SignalsArrive

LEMMA DeliverKept ==
    ASSUME FeedInv, NEW c \in Clients, Feed!Deliver(c)
    PROVE  FeedInv'
<1> USE DEF FeedInv, Feed!TypeOK, Feed!Deliver
<1>1. Head(chan[c]) \in Feed!Resources /\ Tail(chan[c]) \in Seq(Feed!Resources)
      /\ Feed!ToSet(chan[c]) \subseteq Feed!ToSet(Tail(chan[c])) \cup {Head(chan[c])}
  BY HeadAndTail
<1>2. Feed!TypeOK'
  BY <1>1
<1>3. \A d \in subs, r \in Feed!Resources : r \in todo[d] \/ r \in Feed!ToSet(chan[d]) => r \in todo'[d] \/ r \in Feed!ToSet(chan'[d])
  BY <1>1
<1> QED BY <1>2, <1>3 DEF Feed!SignalsArrive

LEMMA SubscribeKept ==
    ASSUME FeedInv, NEW c \in Clients, Feed!Subscribe(c)
    PROVE  FeedInv'
<1> USE DEF FeedInv, Feed!TypeOK, Feed!Subscribe
<1>1. Feed!TypeOK'
  OBVIOUS
<1>2. ASSUME NEW d \in subs', NEW r \in Feed!Resources, <<d, r>> \in stale'
      PROVE  \/ r \in todo'[d] \/ r \in Feed!ToSet(chan[d])
             \/ \E v \in Writers : r \in Feed!ToSet(owing[v])
             \/ <<d, r>> \in unsaid
  <2>1. CASE d = c
    BY <2>1
  <2>2. CASE d # c
    BY <1>2, <2>2 DEF Feed!SignalsArrive
  <2> QED BY <2>1, <2>2
<1> QED BY <1>1, <1>2 DEF Feed!SignalsArrive

LEMMA UnsubscribeKept ==
    ASSUME FeedInv, NEW c \in Clients, Feed!Unsubscribe(c)
    PROVE  FeedInv'
<1> USE DEF FeedInv, Feed!TypeOK, Feed!Unsubscribe
<1>1. Feed!TypeOK'
  <2>1. <<>> \in Seq(Feed!Resources)
    OBVIOUS
  <2> QED BY <2>1
<1>2. ASSUME NEW d \in subs', NEW r \in Feed!Resources, <<d, r>> \in stale'
      PROVE  \/ r \in todo'[d] \/ r \in Feed!ToSet(chan'[d])
             \/ \E v \in Writers : r \in Feed!ToSet(owing[v])
             \/ <<d, r>> \in unsaid'
  BY <1>2 DEF Feed!SignalsArrive
<1> QED BY <1>1, <1>2 DEF Feed!SignalsArrive

LEMMA LoadKept ==
    ASSUME FeedInv, NEW c \in Clients, NEW s \in Feed!Resources, Feed!Load(c, s)
    PROVE  FeedInv'
<1> USE DEF FeedInv, Feed!TypeOK, Feed!Load
<1>1. Feed!TypeOK'
  OBVIOUS
<1>2. ASSUME NEW d \in subs, NEW r \in Feed!Resources, <<d, r>> \in stale'
      PROVE  \/ r \in todo'[d] \/ r \in Feed!ToSet(chan[d])
             \/ \E v \in Writers : r \in Feed!ToSet(owing[v])
             \/ <<d, r>> \in unsaid'
  BY <1>2 DEF Feed!SignalsArrive
<1> QED BY <1>1, <1>2 DEF Feed!SignalsArrive

LEMMA HandleKept ==
    ASSUME FeedInv, NEW w \in Writers, NEW h \in Feed!Handlers, Feed!Handle(w, h)
    PROVE  FeedInv'
<1>1. <<>> \in Seq(Feed!Resources)
  OBVIOUS
<1>2. CASE Feed!Change(w, h.changes, h.says)
  BY <1>2, HandlersTyped, ChangeKept
<1>3. CASE Feed!Change(w, h.halfway, IF h = Feed!BulkMoveParts THEN h.says ELSE <<>>)
  <2>1. (IF h = Feed!BulkMoveParts THEN h.says ELSE <<>>) \in Seq(Feed!Resources)
    BY <1>1, HandlersTyped
  <2> QED BY <1>3, <2>1, HandlersTyped, ChangeKept
<1> QED BY <1>2, <1>3 DEF Feed!Handle

LEMMA FeedStep == FeedInv /\ Feed!Next => FeedInv'
BY SubscribeKept, UnsubscribeKept, DeliverKept, LoadKept, PublishKept, HandleKept DEF Feed!Next

LEMMA FeedStays == FeedInv /\ UNCHANGED feedVars => FeedInv'
BY DEF feedVars, FeedInv, Feed!TypeOK, Feed!SignalsArrive

\* A view that is too old has a signal ahead of it, or nobody published the change, or
\* its channel was full of signals of other resources: the broker enters a channel before
\* the view loads and drops only what does not fit, and handlers publish after their
\* statements (Feed!Publish, Feed!Subscribe).
THEOREM SignalsAlwaysArrive == Spec => []SignalsArrive
<1>1. Init => FeedInv
  BY FeedInit DEF Init
<1>2. FeedInv /\ [Next]_allVars => FeedInv'
  BY FeedStep, FeedStays DEF Next, allVars
<1>3. FeedInv => SignalsArrive
  BY DEF FeedInv, SignalsArrive
<1> QED BY <1>1, <1>2, <1>3, PTL DEF Spec

-----------------------------------------------------------------------------
\* Conversations: messages, transcripts and the numbers of their rows.

\* A set of numbers has a least: what an induction over them is made of here.
LEMMA Least ==
    ASSUME NEW S \in SUBSET Nat, S # {}
    PROVE  \E x \in S : \A y \in S : x <= y
<1>1. \E x \in S : \A y \in S : ~ (<<y, x>> \in OpToRel(<, Nat))
  BY NatLessThanWellFounded, WFMin
<1>2. PICK x \in S : \A y \in S : ~ (<<y, x>> \in OpToRel(<, Nat))
  BY <1>1
<1>3. \A y \in S : ~(y < x)
  BY <1>2 DEF OpToRel
<1> QED BY <1>3

\* A bounded one has a greatest.
LEMMA Most ==
    ASSUME NEW n \in Nat, NEW S \in SUBSET 1 .. n, S # {}
    PROVE  \E x \in S : \A y \in S : y <= x
<1> DEFINE T == {n - i : i \in S}
<1>1. \E x \in T : \A y \in T : x <= y
  <2>1. T \in SUBSET Nat /\ T # {}
    <3>1. \A i \in S : n - i \in Nat
      OBVIOUS
    <3> QED BY <3>1
  <2> HIDE DEF T
  <2> QED BY <2>1, Least
<1>2. PICK i \in S : \A j \in S : n - i <= n - j
  BY <1>1
<1> QED BY <1>2

LEMMA TalkCount == \A S : Talk!Cardinality(S) = Cardinality(S)
BY DEF Talk!Cardinality, Cardinality

\* The rows of n messages, and those before the i-th.
LEMMA RowsCounted ==
    ASSUME NEW S, NEW ms \in Seq(S), NEW i \in 1 .. Len(ms) + 1
    PROVE  Talk!Cardinality({q \in Talk!Numbered(ms) : q.seq < i}) = i - 1
<1> DEFINE R == {q \in Talk!Numbered(ms) : q.seq < i}
           f == [k \in 1 .. i - 1 |-> [seq |-> k, msg |-> ms[k]]]
<1>1. f \in Bijection(1 .. i - 1, R)
  <2>1. f \in [1 .. i - 1 -> R]
    BY DEF Talk!Numbered
  <2>2. \A q \in R : \E k \in 1 .. i - 1 : f[k] = q
    BY DEF Talk!Numbered
  <2>3. \A k, l \in 1 .. i - 1 : f[k] = f[l] => k = l
    OBVIOUS
  <2> QED BY <2>1, <2>2, <2>3 DEF Bijection, Injection, Surjection, IsInjective
<1>2. ExistsBijection(1 .. i - 1, R)
  BY <1>1 DEF ExistsBijection
<1>3. i - 1 \in Nat
  OBVIOUS
<1> QED BY <1>2, <1>3, FS_CountingElements, TalkCount

\* As many rows as messages.
LEMMA AllRowsCounted ==
    ASSUME NEW S, NEW ms \in Seq(S)
    PROVE  Talk!Cardinality(Talk!Numbered(ms)) = Len(ms)
<1>1. {q \in Talk!Numbered(ms) : q.seq < Len(ms) + 1} = Talk!Numbered(ms)
  BY DEF Talk!Numbered
<1>2. Len(ms) + 1 \in 1 .. Len(ms) + 1
  OBVIOUS
<1> QED BY <1>1, <1>2, RowsCounted

\* The messages of rows, by seq.
Told(rows) ==
    LET RowAt(n) == CHOOSE r \in rows : Talk!Cardinality({q \in rows : q.seq < r.seq}) = n - 1
    IN  [n \in 1 .. Talk!Cardinality(rows) |-> RowAt(n).msg]

LEMMA TranscriptTold == \A c : /\ Talk!Transcript(c) = Told(stored[c])
                               /\ Talk!Transcript(c)' = Told(stored'[c])
BY DEF Talk!Transcript, Told

\* What the rows of a sequence tell is the sequence (GetConversation orders by seq).
LEMMA ToldIsNumbered ==
    ASSUME NEW S, NEW ms \in Seq(S)
    PROVE  Told(Talk!Numbered(ms)) = ms
<1> DEFINE RowAt(n) == CHOOSE r \in Talk!Numbered(ms) : Talk!Cardinality({q \in Talk!Numbered(ms) : q.seq < r.seq}) = n - 1
<1>1. ASSUME NEW n \in 1 .. Len(ms)
      PROVE  RowAt(n).msg = ms[n]
  <2>1. [seq |-> n, msg |-> ms[n]] \in Talk!Numbered(ms)
    BY DEF Talk!Numbered
  <2>2. \A r \in Talk!Numbered(ms) : r.seq \in 1 .. Len(ms) /\ r = [seq |-> r.seq, msg |-> ms[r.seq]]
    BY DEF Talk!Numbered
  <2>3. \A r \in Talk!Numbered(ms) : Talk!Cardinality({q \in Talk!Numbered(ms) : q.seq < r.seq}) = r.seq - 1
    <3>1. \A i \in 1 .. Len(ms) : Talk!Cardinality({q \in Talk!Numbered(ms) : q.seq < i}) = i - 1
      BY RowsCounted
    <3> QED BY <2>2, <3>1
  <2>4. \A r \in Talk!Numbered(ms) : r.seq - 1 = n - 1 <=> r = [seq |-> n, msg |-> ms[n]]
    BY <2>2
  <2>5. \E r \in Talk!Numbered(ms) : Talk!Cardinality({q \in Talk!Numbered(ms) : q.seq < r.seq}) = n - 1
    BY <2>1, <2>3, <2>4
  <2>6. RowAt(n) \in Talk!Numbered(ms) /\ Talk!Cardinality({q \in Talk!Numbered(ms) : q.seq < RowAt(n).seq}) = n - 1
    BY <2>5
  <2> HIDE DEF RowAt
  <2>7. RowAt(n) = [seq |-> n, msg |-> ms[n]]
    BY <2>3, <2>4, <2>6
  <2> QED BY <2>7
<1>2. Told(Talk!Numbered(ms)) = [n \in 1 .. Len(ms) |-> RowAt(n).msg]
  BY AllRowsCounted DEF Told
<1> HIDE DEF RowAt
<1>3. ms = [n \in 1 .. Len(ms) |-> ms[n]]
  OBVIOUS
<1> QED BY <1>1, <1>2, <1>3

LEMMA TranscriptOf ==
    ASSUME NEW S, NEW ms \in Seq(S), NEW c, stored[c] = Talk!Numbered(ms)
    PROVE  Talk!Transcript(c) = ms
BY TranscriptTold, ToldIsNumbered
-----------------------------------------------------------------------------
\* Whole turns and what is sent of them again.

Kinds == {"question", "calls", "results", "answer"}
Messages == [of : Turns \cup {0}, kind : Kinds, n : Nat, size : Nat]

Chained(ms) == \A i \in 1 .. Len(ms) - 1 : Talk!Follows(ms[i], ms[i + 1])
Whole(ms) == /\ ms # <<>> => ms[1].kind = "question" /\ ms[Len(ms)].kind = "answer"
             /\ Chained(ms)
Sendable(ms) == Talk!Paired(ms) /\ (ms # <<>> => ms[Len(ms)].kind = "answer")

\* Messages in pairs, from a sequence of whole turns.
LEMMA WholeIsSendable ==
    ASSUME NEW ms \in Seq(Messages), Whole(ms)
    PROVE  Sendable(ms)
<1>1. ASSUME NEW i \in DOMAIN ms, ms[i].kind = "results"
      PROVE  /\ i > 1 /\ ms[i - 1].kind = "calls"
             /\ ms[i - 1].of = ms[i].of /\ ms[i - 1].n = ms[i].n
  <2>1. i > 1
    BY <1>1 DEF Whole
  <2>2. Talk!Follows(ms[i - 1], ms[i]) /\ ms[i - 1].kind \in Kinds
    <3> DEFINE j == i - 1
    <3>1. j \in 1 .. Len(ms) - 1 /\ j + 1 = i /\ ms[j] \in Messages
      BY <2>1
    <3> HIDE DEF j
    <3>2. Talk!Follows(ms[j], ms[j + 1])
      BY <3>1 DEF Whole, Chained
    <3>3. Talk!Follows(ms[j], ms[i]) /\ ms[j].kind \in Kinds
      BY <3>1, <3>2 DEF Messages
    <3> QED BY <3>3 DEF j
  <2> QED BY <1>1, <2>1, <2>2 DEF Talk!Follows, Kinds
<1>2. ASSUME NEW i \in DOMAIN ms, ms[i].kind = "calls"
      PROVE  i < Len(ms) /\ ms[i + 1].kind = "results"
  <2>1. i < Len(ms)
    BY <1>2 DEF Whole
  <2>2. Talk!Follows(ms[i], ms[i + 1])
    BY <2>1 DEF Whole, Chained
  <2> QED BY <1>2, <2>1, <2>2 DEF Talk!Follows
<1> QED BY <1>1, <1>2 DEF Sendable, Talk!Paired, Whole

\* A stub is of the same turn and kind as what it stands for.
LEMMA StubbedAlike ==
    ASSUME NEW m \in Messages, NEW used, NEW budget
    PROVE  LET k == Talk!StubOrWhole(m, used, budget)
           IN  k \in Messages /\ k.kind = m.kind /\ k.of = m.of /\ k.n = m.n
<1>1. m.n * StubSize \in Nat
  BY TurnsAssumption DEF Messages
<1>2. LET k == Talk!Stub(m) IN k \in Messages /\ k.kind = m.kind /\ k.of = m.of /\ k.n = m.n
  BY <1>1 DEF Messages, Talk!Stub
<1> QED BY <1>2 DEF Talk!StubOrWhole

\* Stubs leave the pairs as they are.
LEMMA StubOldKeeps ==
    ASSUME NEW ms \in Seq(Messages), Sendable(ms), NEW budget
    PROVE  LET s == Talk!StubOld(ms, budget)
           IN  s \in Seq(Messages) /\ Sendable(s) /\ (ms # <<>> => s # <<>>)
<1> DEFINE s == Talk!StubOld(ms, budget)
           u == Talk!UsedFrom(ms, budget)
<1>1. s = [i \in 1 .. Len(ms) |-> Talk!StubOrWhole(ms[i], u[i + 1], budget)]
  BY DEF Talk!StubOld
<1> HIDE DEF s, u
<1>2. \A i \in 1 .. Len(ms) : s[i] \in Messages /\ s[i].kind = ms[i].kind /\ s[i].of = ms[i].of /\ s[i].n = ms[i].n
  <2> SUFFICES ASSUME NEW i \in 1 .. Len(ms)
               PROVE  s[i] \in Messages /\ s[i].kind = ms[i].kind /\ s[i].of = ms[i].of /\ s[i].n = ms[i].n
    OBVIOUS
  <2>1. s[i] = Talk!StubOrWhole(ms[i], u[i + 1], budget) /\ ms[i] \in Messages
    BY <1>1
  <2> QED BY <2>1, StubbedAlike
<1>3. s \in Seq(Messages) /\ Len(s) = Len(ms)
  BY <1>1, <1>2
<1>4. Sendable(s)
  BY <1>2, <1>3 DEF Sendable, Talk!Paired
<1> QED BY <1>3, <1>4 DEF s

\* From a message on that is not results, the end of a sequence is in pairs as the whole is.
LEMMA FromKeeps ==
    ASSUME NEW ms \in Seq(Messages), Sendable(ms), NEW i \in 1 .. Len(ms), i = 1 \/ ms[i].kind # "results"
    PROVE  LET f == Talk!From(ms, i) IN f \in Seq(Messages) /\ Sendable(f)
<1> DEFINE f == Talk!From(ms, i)
<1>1. f = SubSeq(ms, i, Len(ms))
  BY DEF Talk!From
<1> HIDE DEF f
<1>2. f \in Seq(Messages) /\ Len(f) = Len(ms) - i + 1 /\ \A k \in 1 .. Len(f) : f[k] = ms[i + k - 1]
  BY <1>1
<1>3. ASSUME NEW k \in DOMAIN f
      PROVE  /\ f[k].kind = "results" => /\ k > 1 /\ f[k - 1].kind = "calls"
                                         /\ f[k - 1].of = f[k].of /\ f[k - 1].n = f[k].n
             /\ f[k].kind = "calls" => k < Len(f) /\ f[k + 1].kind = "results"
  <2> DEFINE j == i + k - 1
  <2>1. j \in DOMAIN ms /\ f[k] = ms[j] /\ (k > 1 => f[k - 1] = ms[j - 1]) /\ (k < Len(f) => f[k + 1] = ms[j + 1])
    <3>1. \A l \in 1 .. Len(f) : f[l] = ms[i + l - 1]
      BY <1>2
    <3>2. k \in 1 .. Len(f) /\ k \in Int /\ i \in Int /\ Len(f) \in Nat /\ j \in DOMAIN ms
      BY <1>2
    <3>3. ASSUME k > 1 PROVE f[k - 1] = ms[j - 1]
      <4>1. k - 1 \in 1 .. Len(f)
        BY ONLY <3>2, <3>3
      <4>2. i + (k - 1) - 1 = j - 1
        BY <3>2
      <4> QED BY <3>1, <4>1, <4>2
    <3>4. ASSUME k < Len(f) PROVE f[k + 1] = ms[j + 1]
      <4>1. k + 1 \in 1 .. Len(f) /\ i + (k + 1) - 1 = j + 1
        BY <3>2, <3>4
      <4> QED BY <3>1, <4>1
    <3> QED BY <3>1, <3>2, <3>3, <3>4
  <2>2. j > i - 1 /\ (j = i <=> k = 1) /\ (j < Len(ms) <=> k < Len(f))
    BY <1>2
  <2> HIDE DEF j
  <2>3. /\ ms[j].kind = "results" => /\ j > 1 /\ ms[j - 1].kind = "calls"
                                      /\ ms[j - 1].of = ms[j].of /\ ms[j - 1].n = ms[j].n
        /\ ms[j].kind = "calls" => j < Len(ms) /\ ms[j + 1].kind = "results"
    BY <2>1 DEF Sendable, Talk!Paired
  <2>4. ms[j].kind = "results" => k > 1
    BY <1>2, <2>2, <2>3
  <2> QED BY <2>1, <2>2, <2>3, <2>4
<1>4. f # <<>> => f[Len(f)].kind = "answer"
  <2>1. ms[Len(ms)].kind = "answer"
    BY DEF Sendable
  <2>2. Len(f) \in 1 .. Len(f) /\ i + Len(f) - 1 = Len(ms)
    BY <1>2
  <2> QED BY <1>2, <2>1, <2>2
<1>5. Sendable(f)
  BY <1>3, <1>4 DEF Sendable, Talk!Paired
<1> QED BY <1>2, <1>5 DEF f

\* What stage two of trimHistory keeps is in pairs.
LEMMA DropOldKeeps ==
    ASSUME NEW ms \in Seq(Messages), ms # <<>>, Sendable(ms), NEW budget
    PROVE  LET d == Talk!DropOld(ms, budget) IN d \in Seq(Messages) /\ Sendable(d)
<1> DEFINE fits  == {i \in DOMAIN ms : Talk!total(Talk!From(ms, i)) <= budget /\ ms[i].kind # "results"}
           back  == {i \in DOMAIN ms : i = 1 \/ ms[i].kind # "results"}
           start == IF fits # {} THEN CHOOSE i \in fits : \A j \in fits : i <= j
                    ELSE CHOOSE i \in back : \A j \in back : j <= i
<1>1. start \in back
  <2>1. fits \in SUBSET Nat /\ back \in SUBSET 1 .. Len(ms) /\ back # {} /\ Len(ms) \in Nat /\ fits \subseteq back
    OBVIOUS
  <2> HIDE DEF fits, back
  <2>2. fits # {} => \E i \in fits : \A j \in fits : i <= j
    BY <2>1, Least
  <2>3. \E i \in back : \A j \in back : j <= i
    BY <2>1, Most
  <2> QED BY <2>1, <2>2, <2>3
<1>2. Talk!DropOld(ms, budget) = Talk!From(ms, start)
  BY DEF Talk!DropOld
<1> HIDE DEF start
<1>3. start \in 1 .. Len(ms) /\ (start = 1 \/ ms[start].kind # "results")
  BY <1>1
<1> QED BY <1>2, <1>3, FromKeeps

\* trimHistory keeps calls and results together, for every budget.
LEMMA TrimKeeps ==
    ASSUME NEW ms \in Seq(Messages), Sendable(ms), NEW budget
    PROVE  LET h == Talk!trimHistory(ms, budget) IN h \in Seq(Messages) /\ Sendable(h)
<1> DEFINE s == Talk!StubOld(ms, budget)
<1>1. s \in Seq(Messages) /\ Sendable(s) /\ (ms # <<>> => s # <<>>)
  BY StubOldKeeps
<1>2. ms # <<>> => Talk!DropOld(s, budget) \in Seq(Messages) /\ Sendable(Talk!DropOld(s, budget))
  BY <1>1, DropOldKeeps
<1>3. Talk!trimHistory(ms, budget) \in {ms, s, Talk!DropOld(s, budget)}
      /\ (ms = <<>> => Talk!trimHistory(ms, budget) = ms)
  BY DEF Talk!trimHistory
<1> HIDE DEF s
<1> QED BY <1>1, <1>2, <1>3
-----------------------------------------------------------------------------
\* What turns and conversations keep.

TurnRows ==
    [pc : {"idle", "calling", "tools", "ended", "append", "insert", "inserted", "done", "failed", "unsaved"},
     conv : Convs \cup {NoConv}, kept : Seq(Messages), added : Seq(Messages),
     round : Nat, rounds : Nat, unparsed : Nat, calls : Nat, next : Nat, stream : BOOLEAN,
     screen : SUBSET {"attempt", "words", "answer"}, gone : BOOLEAN, error : BOOLEAN]

TalkTyped ==
    /\ open \subseteq Convs
    /\ stored \in [Convs -> SUBSET [seq : Nat, msg : Messages]]
    /\ turn \in [Turns -> TurnRows]
    /\ faults \in Nat

Answered(r) == r.pc \in {"append", "insert", "inserted", "done"} \/ (r.pc = "ended" /\ ~r.error)

Saying(t, s) ==
    /\ s \in Seq(Messages) /\ s # <<>> /\ s[1] = Talk!Message(t, "question", 0, 4)
    /\ \A i \in DOMAIN s : s[i].of = t
    /\ Chained(s)

\* What a turn has said and been told so far: a question first, then calls and results in
\* pairs, and its answer when it has one.
Spoken(t, r) ==
    LET last == r.added[Len(r.added)]
    IN  /\ r.conv \in Convs /\ Sendable(r.kept)
        /\ Saying(t, r.added)
        /\ r.pc = "calling" => last.kind \in {"question", "results"}
        /\ r.pc = "tools" => last.kind = "calls" /\ last.n = r.calls
        /\ Answered(r) => last.kind = "answer" /\ (r.stream => r.screen \in {{"answer"}, {"words", "answer"}})
        /\ r.pc \in {"calling", "tools"} /\ r.stream => r.screen \subseteq {"words"}

AllSpoken == \A t \in Turns : turn[t].pc # "idle" => Spoken(t, turn[t])

\* Conversations are whole turns, and of turns that are done; one that is gone is empty.
Stored ==
    /\ \A c \in Convs : \E ms \in Seq(Messages) : stored[c] = Talk!Numbered(ms) /\ Whole(ms)
    /\ \A c \in Convs \ open : stored[c] = {}
    /\ \A c \in Convs : \A x \in stored[c] : x.msg.of \in Turns => turn[x.msg.of].pc = "done"
    /\ \A t \in Turns : turn[t].pc = "done" =>
           turn[t].conv \notin open \/ Talk!Rows(t) \subseteq stored[turn[t].conv]

\* A transaction reads a number all before which are taken. One that has inserted is the
\* only one in its conversation, and its number is free.
Storing ==
    /\ \A t \in Turns : turn[t].pc \in {"insert", "inserted"} /\ turn[t].conv \in open =>
           turn[t].next > 0 /\ \A k \in 1 .. turn[t].next - 1 : Talk!Taken(turn[t].conv, k)
    /\ \A t \in Turns : turn[t].pc = "inserted" =>
           /\ turn[t].conv \in open /\ ~Talk!Taken(turn[t].conv, turn[t].next)
           /\ \A u \in Turns : turn[u].pc = "inserted" /\ turn[u].conv = turn[t].conv => u = t

\* From its record on, unless a statement failed or the client left.
Spent ==
    \A t \in Turns :
        /\ turn[t].pc \in {"append", "insert", "inserted", "done", "failed", "unsaved"}
        /\ turn[t].conv \in open /\ ~turn[t].gone /\ faults = 0
        => \E x \in runs : x.turn = t /\ x.rounds = turn[t].rounds /\ x.conv = turn[t].conv

TalkInv == TalkTyped /\ AllSpoken /\ Stored /\ Storing /\ Spent

LEMMA EmptyIsWhole == <<>> \in Seq(Messages) /\ Whole(<<>>) /\ Talk!Numbered(<<>>) = {}
BY DEF Whole, Chained, Talk!Numbered

LEMMA PastsAreWhole == \A ms \in NewOrOneTurn : ms \in Seq(Messages) /\ Whole(ms) /\ \A i \in DOMAIN ms : ms[i].of = 0
<1> DEFINE one == <<Past("question", 0, 4), Past("calls", 1, 4), Past("results", 1, 40), Past("answer", 0, 4)>>
<1>1. one \in Seq(Messages) /\ \A i \in DOMAIN one : one[i].of = 0
  BY DEF Past, Messages, Kinds
<1>2. Whole(one)
  BY DEF Past, Whole, Chained, Talk!Follows
<1>3. \A i \in DOMAIN <<>> : <<>>[i].of = 0
  OBVIOUS
<1>4. NewOrOneTurn = {<<>>, one}
  BY DEF NewOrOneTurn
<1> HIDE DEF one
<1> QED BY <1>1, <1>2, <1>3, <1>4, EmptyIsWhole

LEMMA TalkInit == Talk!Init => TalkInv
<1> SUFFICES ASSUME Talk!Init PROVE TalkInv
  OBVIOUS
<1>1. \A c \in Convs : \E ms \in NewOrOneTurn : stored[c] = Talk!Numbered(ms)
  BY DEF Talk!Init
<1>2. \A t \in Turns : turn[t] = Talk!Idle
  BY DEF Talk!Init
<1>3. Talk!Idle \in TurnRows /\ Talk!Idle.pc = "idle"
  BY DEF TurnRows, Talk!Idle
<1>4. \A ms \in NewOrOneTurn : \A x \in Talk!Numbered(ms) : x \in [seq : Nat, msg : Messages] /\ x.msg.of = 0
  BY PastsAreWhole DEF Talk!Numbered
<1>5. TalkTyped
  <2>1. stored \in [Convs -> SUBSET [seq : Nat, msg : Messages]]
    BY <1>1, <1>4 DEF Talk!Init
  <2>2. turn \in [Turns -> TurnRows]
    BY <1>3 DEF Talk!Init
  <2> QED BY <2>1, <2>2 DEF Talk!Init, TalkTyped
<1>6. AllSpoken /\ Storing /\ Spent
  BY <1>2, <1>3 DEF AllSpoken, Storing, Spent
<1>7. Stored
  <2>1. \A c \in Convs : \E ms \in Seq(Messages) : stored[c] = Talk!Numbered(ms) /\ Whole(ms)
    BY <1>1, PastsAreWhole
  <2>2. \A c \in Convs : \A x \in stored[c] : x.msg.of \notin Turns
    BY <1>1, <1>4, TurnsAssumption
  <2>3. \A c \in Convs \ open : stored[c] = {}
    BY DEF Talk!Init
  <2> QED BY <1>2, <1>3, <2>1, <2>2, <2>3 DEF Stored
<1> QED BY <1>5, <1>6, <1>7 DEF TalkInv

-----------------------------------------------------------------------------
\* A turn that talks: its own row.

LEMMA TurnSet ==
    ASSUME turn \in [Turns -> TurnRows], NEW t \in Turns, NEW r \in TurnRows, Talk!Steps(t, r)
    PROVE  turn' \in [Turns -> TurnRows] /\ turn'[t] = r /\ \A u \in Turns \ {t} : turn'[u] = turn[u]
BY DEF Talk!Steps

\* While a turn talks nothing that others rely on changes.
LEMMA TalkingKeeps ==
    ASSUME TalkInv, NEW t \in Turns, NEW r \in TurnRows, Talk!Steps(t, r),
           UNCHANGED <<open, stored, runs, faults>>,
           turn[t].pc \in {"calling", "tools"}, r.pc \in {"calling", "tools", "ended"},
           Spoken(t, r)
    PROVE  TalkInv'
<1>1. turn' \in [Turns -> TurnRows] /\ turn'[t] = r /\ \A u \in Turns \ {t} : turn'[u] = turn[u]
  BY TurnSet DEF TalkInv, TalkTyped
<1>2. TalkTyped'
  BY <1>1 DEF TalkInv, TalkTyped
<1>3. AllSpoken'
  BY <1>1 DEF TalkInv, AllSpoken
<1>4. Stored'
  <2>1. \A u \in Turns : turn'[u].pc = "done" => turn[u].pc = "done" /\ turn'[u] = turn[u]
    BY <1>1
  <2>2. \A u \in Turns : turn[u].pc = "done" => turn'[u] = turn[u]
    BY <1>1
  <2>3. \A u \in Turns : turn'[u] = turn[u] => Talk!Rows(u)' = Talk!Rows(u)
    BY DEF Talk!Rows
  <2> QED BY <2>1, <2>2, <2>3 DEF TalkInv, Stored
<1>5. Storing'
  BY <1>1 DEF TalkInv, Storing, Talk!Taken
<1>6. Spent'
  BY <1>1 DEF TalkInv, Spent
<1> QED BY <1>2, <1>3, <1>4, <1>5, <1>6 DEF TalkInv
\* One more message of the turn.
LEMMA Speaks ==
    ASSUME NEW t \in Turns, NEW was, Saying(t, was), NEW m \in Messages, m.of = t,
           Talk!Follows(was[Len(was)], m)
    PROVE  LET said == Append(was, m) IN Saying(t, said) /\ said[Len(said)] = m
<1> DEFINE said == Append(was, m)
<1>1. was \in Seq(Messages) /\ was # <<>> /\ was[1] = Talk!Message(t, "question", 0, 4)
      /\ (\A i \in DOMAIN was : was[i].of = t)
      /\ \A i \in 1 .. Len(was) - 1 : Talk!Follows(was[i], was[i + 1])
  BY DEF Saying, Chained
<1>2. said \in Seq(Messages) /\ Len(said) = Len(was) + 1 /\ said[Len(was) + 1] = m
      /\ \A i \in 1 .. Len(was) : said[i] = was[i]
  BY <1>1
<1> HIDE DEF said
<1>3. Len(was) >= 1
  BY <1>1
<1>4. ASSUME NEW i \in 1 .. Len(said) - 1
      PROVE  Talk!Follows(said[i], said[i + 1])
  <2>1. CASE i = Len(was)
    BY <1>1, <1>2, <1>3, <2>1
  <2>2. CASE i # Len(was)
    <3>1. i \in 1 .. Len(was) - 1 /\ i + 1 \in 1 .. Len(was)
      BY <1>1, <1>2, <2>2
    <3> QED BY <1>1, <1>2, <3>1
  <2> QED BY <2>1, <2>2
<1>5. \A i \in DOMAIN said : said[i].of = t
  <2>1. \A i \in DOMAIN said : i = Len(was) + 1 \/ i \in 1 .. Len(was)
    BY <1>2
  <2> QED BY <1>1, <1>2, <2>1
<1>6. Saying(t, said) /\ said[Len(said)] = m
  BY <1>1, <1>2, <1>3, <1>4, <1>5 DEF Saying, Chained
<1> QED BY <1>6 DEF said

\* What a turn said last is a message of its own.
LEMMA LastSaid ==
    ASSUME NEW t, NEW s, Saying(t, s)
    PROVE  s[Len(s)] \in Messages /\ s[Len(s)].of = t
<1>1. Len(s) \in DOMAIN s
  BY DEF Saying
<1> QED BY <1>1 DEF Saying

LEMMA EndsRow ==
    ASSUME NEW r \in TurnRows, NEW failed \in BOOLEAN
    PROVE  LET e == Talk!Ends(r, failed)
           IN  /\ e \in TurnRows /\ e.pc = "ended" /\ e.error = failed /\ e.conv = r.conv /\ e.kept = r.kept
               /\ e.added = r.added /\ e.stream = r.stream /\ e.screen = r.screen
BY DEF TurnRows, Talk!Ends

\* A turn that ends with an error has what it had.
LEMMA FailsWell ==
    ASSUME NEW t \in Turns, NEW r \in TurnRows, Spoken(t, r)
    PROVE  Talk!Ends(r, TRUE) \in TurnRows /\ Spoken(t, Talk!Ends(r, TRUE)) /\ Talk!Ends(r, TRUE).pc = "ended"
<1> DEFINE e == Talk!Ends(r, TRUE)
<1>1. /\ e \in TurnRows /\ e.pc = "ended" /\ e.conv = r.conv /\ e.kept = r.kept
      /\ e.added = r.added /\ e.stream = r.stream /\ e.screen = r.screen
  BY EndsRow
<1>2. e.error = TRUE
  BY EndsRow
<1>3. ~Answered(e)
  BY <1>1, <1>2 DEF Answered
<1> HIDE DEF e
<1>4. Spoken(t, e)
  BY <1>1, <1>3 DEF Spoken
<1> QED BY <1>1, <1>4 DEF e

LEMMA UnparsedKeeps == ASSUME TalkInv, NEW t \in Turns, Talk!Unparsed(t) PROVE TalkInv'
<1>1. PICK text \in Talk!Texts(t) :
          LET r == IF text THEN [turn[t] EXCEPT !.screen = Talk!Shown(turn[t], "attempt")] ELSE turn[t]
          IN  Talk!Steps(t, IF r.unparsed < MaxUnparsedRetries THEN Talk!Retried(r) ELSE Talk!Ends(r, TRUE))
  BY DEF Talk!Unparsed
<1>2. turn[t].pc = "calling" /\ turn[t] \in TurnRows /\ Spoken(t, turn[t]) /\ UNCHANGED <<open, stored, runs, faults>>
  BY DEF Talk!Unparsed, Talk!At, TalkInv, TalkTyped, AllSpoken
<1> DEFINE seen == IF text THEN [turn[t] EXCEPT !.screen = Talk!Shown(turn[t], "attempt")] ELSE turn[t]
           again == Talk!Retried(seen)
<1>3. /\ seen \in TurnRows /\ seen.pc = "calling" /\ seen.conv = turn[t].conv /\ seen.kept = turn[t].kept
      /\ seen.added = turn[t].added /\ seen.stream = turn[t].stream
  BY <1>2 DEF TurnRows, Talk!Shown
<1>4. Talk!Steps(t, IF seen.unparsed < MaxUnparsedRetries THEN again ELSE Talk!Ends(seen, TRUE))
  BY <1>1
<1> HIDE DEF seen
<1>5. /\ again \in TurnRows /\ again.pc = "calling" /\ again.conv = turn[t].conv /\ again.kept = turn[t].kept
      /\ again.added = turn[t].added /\ again.stream = turn[t].stream /\ again.screen = {}
  <2>1. seen.unparsed + 1 \in Nat
    BY <1>3 DEF TurnRows
  <2> QED BY <1>3, <2>1 DEF TurnRows, Talk!Retried
<1> HIDE DEF again
<1>6. Spoken(t, again)
  BY <1>2, <1>5 DEF Spoken, Answered
<1> DEFINE e == Talk!Ends(seen, TRUE)
<1>7. /\ e \in TurnRows /\ e.pc = "ended" /\ e.error = TRUE /\ e.conv = turn[t].conv /\ e.kept = turn[t].kept
      /\ e.added = turn[t].added
  BY <1>3, EndsRow
<1> HIDE DEF e
<1>8. Spoken(t, e)
  <2>1. ~Answered(e)
    BY <1>7 DEF Answered
  <2> QED BY <1>2, <1>7, <2>1 DEF Spoken
<1>9. CASE Talk!Steps(t, again)
  BY <1>2, <1>5, <1>6, <1>9, TalkingKeeps
<1>10. CASE Talk!Steps(t, e)
  BY <1>2, <1>7, <1>8, <1>10, TalkingKeeps
<1> QED BY <1>4, <1>9, <1>10 DEF e

LEMMA ProviderFailsKeeps == ASSUME TalkInv, NEW t \in Turns, Talk!ProviderFails(t) PROVE TalkInv'
<1>1. turn[t].pc = "calling" /\ turn[t] \in TurnRows /\ Spoken(t, turn[t]) /\ UNCHANGED <<open, stored, runs, faults>>
      /\ Talk!Steps(t, Talk!Ends(turn[t], TRUE))
  BY DEF Talk!ProviderFails, Talk!At, TalkInv, TalkTyped, AllSpoken
<1> QED BY <1>1, FailsWell, TalkingKeeps

LEMMA UselessReplyKeeps == ASSUME TalkInv, NEW t \in Turns, Talk!UselessReply(t) PROVE TalkInv'
<1> DEFINE r == [turn[t] EXCEPT !.rounds = @ + 1]
<1>1. turn[t].pc = "calling" /\ turn[t] \in TurnRows /\ Spoken(t, turn[t]) /\ UNCHANGED <<open, stored, runs, faults>>
      /\ Talk!Steps(t, Talk!Ends(r, TRUE))
  BY DEF Talk!UselessReply, Talk!At, TalkInv, TalkTyped, AllSpoken
<1>2. /\ r \in TurnRows /\ r.pc = turn[t].pc /\ r.conv = turn[t].conv /\ r.kept = turn[t].kept
      /\ r.added = turn[t].added /\ r.stream = turn[t].stream /\ r.screen = turn[t].screen /\ r.calls = turn[t].calls
  <2>1. turn[t].rounds + 1 \in Nat
    BY <1>1 DEF TurnRows
  <2> QED BY <1>1, <2>1 DEF TurnRows
<1> HIDE DEF r
<1>3. Spoken(t, r)
  BY <1>1, <1>2 DEF Spoken, Answered
<1> QED BY <1>1, <1>2, <1>3, FailsWell, TalkingKeeps
LEMMA CallsToolsKeeps == ASSUME TalkInv, NEW t \in Turns, NEW n \in 1 .. MaxCalls, Talk!CallsTools(t, n) PROVE TalkInv'
<1> DEFINE m == Talk!Message(t, "calls", n, 4)
           said == Append(turn[t].added, m)
<1>1. turn[t].pc = "calling" /\ turn[t] \in TurnRows /\ Spoken(t, turn[t]) /\ UNCHANGED <<open, stored, runs, faults>>
  BY DEF Talk!CallsTools, Talk!At, TalkInv, TalkTyped, AllSpoken
<1>2. PICK text \in Talk!Texts(t) :
          Talk!Steps(t, [turn[t] EXCEPT !.pc = "tools", !.rounds = @ + 1, !.calls = n,
                                        !.screen = IF text THEN Talk!Shown(turn[t], "words") ELSE @,
                                        !.added = said])
  BY DEF Talk!CallsTools
<1>3. n \in Nat /\ m \in Messages /\ m.of = t /\ m.kind = "calls" /\ m.n = n /\ Talk!Follows(turn[t].added[Len(turn[t].added)], m)
  <2>1. turn[t].added[Len(turn[t].added)] \in Messages /\ turn[t].added[Len(turn[t].added)].of = t
        /\ turn[t].added[Len(turn[t].added)].kind \in {"question", "results"}
    BY <1>1, LastSaid DEF Spoken
  <2> QED BY <2>1, TurnsAssumption DEF Messages, Kinds, Talk!Message, Talk!Follows
<1> HIDE DEF m
<1> HIDE DEF said
<1>4. Saying(t, said) /\ said[Len(said)] = m
  <2>1. Saying(t, turn[t].added)
    BY <1>1 DEF Spoken
  <2> QED BY <1>3, <2>1, Speaks DEF said
<1>s. said \in Seq(Messages)
  BY <1>4 DEF Saying
<1> DEFINE screen == IF text THEN Talk!Shown(turn[t], "words") ELSE turn[t].screen
           r == [turn[t] EXCEPT !.pc = "tools", !.rounds = @ + 1, !.calls = n, !.screen = screen, !.added = said]
<1>5. screen \in SUBSET {"attempt", "words", "answer"} /\ (turn[t].stream => screen \subseteq {"words"})
  BY <1>1 DEF Talk!Shown, Spoken, TurnRows
<1>6. Talk!Steps(t, r)
  BY <1>2 DEF said, m
<1> HIDE DEF screen
<1>7. /\ r \in TurnRows /\ r.pc = "tools" /\ r.conv = turn[t].conv /\ r.kept = turn[t].kept
      /\ r.added = said /\ r.stream = turn[t].stream /\ r.screen = screen /\ r.calls = n
  <2>1. turn[t].rounds + 1 \in Nat
    BY <1>1 DEF TurnRows
  <2> QED BY <1>1, <1>3, <1>s, <1>5, <2>1 DEF TurnRows
<1> HIDE DEF r
<1>8. Spoken(t, r)
  BY <1>1, <1>3, <1>4, <1>5, <1>7 DEF Spoken, Answered
<1> QED BY <1>1, <1>6, <1>7, <1>8, TalkingKeeps

LEMMA StrayCallKeeps == ASSUME TalkInv, NEW t \in Turns, Talk!StrayCall(t) PROVE TalkInv'
<1> DEFINE m == Talk!Message(t, "calls", 1, 4)
           said == Append(turn[t].added, m)
           r == [turn[t] EXCEPT !.pc = "tools", !.rounds = @ + 1, !.calls = 1, !.screen = {}, !.added = said]
<1>1. turn[t].pc = "calling" /\ turn[t] \in TurnRows /\ Spoken(t, turn[t]) /\ UNCHANGED <<open, stored, runs, faults>>
  BY DEF Talk!StrayCall, Talk!At, TalkInv, TalkTyped, AllSpoken
<1>2. Talk!Steps(t, r)
  BY DEF Talk!StrayCall
<1>3. m \in Messages /\ m.of = t /\ m.kind = "calls" /\ m.n = 1 /\ Talk!Follows(turn[t].added[Len(turn[t].added)], m)
  <2>1. turn[t].added[Len(turn[t].added)] \in Messages /\ turn[t].added[Len(turn[t].added)].of = t
        /\ turn[t].added[Len(turn[t].added)].kind \in {"question", "results"}
    BY <1>1, LastSaid DEF Spoken
  <2> QED BY <2>1 DEF Messages, Kinds, Talk!Message, Talk!Follows
<1> HIDE DEF m
<1> HIDE DEF said
<1>4. Saying(t, said) /\ said[Len(said)] = m
  <2>1. Saying(t, turn[t].added)
    BY <1>1 DEF Spoken
  <2> QED BY <1>3, <2>1, Speaks DEF said
<1>s. said \in Seq(Messages)
  BY <1>4 DEF Saying
<1>7. /\ r \in TurnRows /\ r.pc = "tools" /\ r.conv = turn[t].conv /\ r.kept = turn[t].kept
      /\ r.added = said /\ r.stream = turn[t].stream /\ r.screen = {} /\ r.calls = 1
  <2>1. turn[t].rounds + 1 \in Nat
    BY <1>1 DEF TurnRows
  <2> QED BY <1>1, <1>s, <2>1 DEF TurnRows
<1> HIDE DEF r
<1>8. Spoken(t, r)
  BY <1>1, <1>3, <1>4, <1>7 DEF Spoken, Answered
<1> QED BY <1>1, <1>2, <1>7, <1>8, TalkingKeeps

LEMMA AnswersKeeps == ASSUME TalkInv, NEW t \in Turns, Talk!Answers(t) PROVE TalkInv'
<1> DEFINE m == Talk!Message(t, "answer", 0, 4)
           said == Append(turn[t].added, m)
           screen == Talk!Shown(turn[t], "answer")
           r == [turn[t] EXCEPT !.rounds = @ + 1, !.screen = screen, !.added = said]
           e == Talk!Ends(r, FALSE)
<1>1. turn[t].pc = "calling" /\ turn[t] \in TurnRows /\ Spoken(t, turn[t]) /\ UNCHANGED <<open, stored, runs, faults>>
  BY DEF Talk!Answers, Talk!At, TalkInv, TalkTyped, AllSpoken
<1>2. Talk!Steps(t, e)
  BY DEF Talk!Answers
<1>3. m \in Messages /\ m.of = t /\ m.kind = "answer" /\ Talk!Follows(turn[t].added[Len(turn[t].added)], m)
  <2>1. turn[t].added[Len(turn[t].added)] \in Messages /\ turn[t].added[Len(turn[t].added)].of = t
        /\ turn[t].added[Len(turn[t].added)].kind \in {"question", "results"}
    BY <1>1, LastSaid DEF Spoken
  <2> QED BY <2>1 DEF Messages, Kinds, Talk!Message, Talk!Follows
<1> HIDE DEF m
<1> HIDE DEF said
<1>4. Saying(t, said) /\ said[Len(said)] = m
  <2>1. Saying(t, turn[t].added)
    BY <1>1 DEF Spoken
  <2> QED BY <1>3, <2>1, Speaks DEF said
<1>s. said \in Seq(Messages)
  BY <1>4 DEF Saying
<1>5. screen \in SUBSET {"attempt", "words", "answer"} /\ (turn[t].stream => screen \in {{"answer"}, {"words", "answer"}})
  <2>1. turn[t].stream => turn[t].screen = {} \/ turn[t].screen = {"words"}
    BY <1>1 DEF Spoken
  <2>2. turn[t].screen \in SUBSET {"attempt", "words", "answer"}
    BY <1>1 DEF TurnRows
  <2> QED BY <2>1, <2>2 DEF Talk!Shown
<1> HIDE DEF screen
<1>6. /\ r \in TurnRows /\ r.conv = turn[t].conv /\ r.kept = turn[t].kept
      /\ r.added = said /\ r.stream = turn[t].stream /\ r.screen = screen
  <2>1. turn[t].rounds + 1 \in Nat
    BY <1>1 DEF TurnRows
  <2> QED BY <1>1, <1>s, <1>5, <2>1 DEF TurnRows
<1> HIDE DEF r
<1>7. /\ e \in TurnRows /\ e.pc = "ended" /\ e.conv = turn[t].conv /\ e.kept = turn[t].kept
      /\ e.added = said /\ e.stream = turn[t].stream /\ e.screen = screen
  BY <1>6, EndsRow
<1> HIDE DEF e
<1>8. Spoken(t, e)
  BY <1>1, <1>3, <1>4, <1>5, <1>7 DEF Spoken, Answered
<1> QED BY <1>1, <1>2, <1>7, <1>8, TalkingKeeps

LEMMA RunToolsKeeps == ASSUME TalkInv, NEW t \in Turns, Talk!RunTools(t) PROVE TalkInv'
<1>1. turn[t].pc = "tools" /\ turn[t] \in TurnRows /\ Spoken(t, turn[t]) /\ UNCHANGED <<open, stored, runs, faults>>
  BY DEF Talk!RunTools, Talk!At, TalkInv, TalkTyped, AllSpoken
<1>2. PICK size \in Sizes :
          LET r == [turn[t] EXCEPT !.pc = "calling", !.round = @ + 1, !.calls = 0,
                                   !.added = Append(@, Talk!Message(t, "results", turn[t].calls, size))]
          IN  Talk!Steps(t, IF turn[t].gone THEN Talk!Ends(turn[t], TRUE)
                            ELSE IF r.round = MaxToolRounds THEN Talk!Ends(r, TRUE) ELSE r)
  BY DEF Talk!RunTools
<1> DEFINE m == Talk!Message(t, "results", turn[t].calls, size)
           said == Append(turn[t].added, m)
           r == [turn[t] EXCEPT !.pc = "calling", !.round = @ + 1, !.calls = 0, !.added = said]
<1>3. m \in Messages /\ m.of = t /\ m.kind = "results" /\ Talk!Follows(turn[t].added[Len(turn[t].added)], m)
  <2>1. turn[t].added[Len(turn[t].added)] \in Messages /\ turn[t].added[Len(turn[t].added)].of = t
        /\ turn[t].added[Len(turn[t].added)].kind = "calls" /\ turn[t].added[Len(turn[t].added)].n = turn[t].calls
    BY <1>1, LastSaid DEF Spoken
  <2>2. size \in Nat /\ turn[t].calls \in Nat
    BY <1>1, TurnsAssumption DEF TurnRows
  <2> QED BY <2>1, <2>2 DEF Messages, Kinds, Talk!Message, Talk!Follows
<1> HIDE DEF m
<1> HIDE DEF said
<1>4. Saying(t, said) /\ said[Len(said)] = m
  <2>1. Saying(t, turn[t].added)
    BY <1>1 DEF Spoken
  <2> QED BY <1>3, <2>1, Speaks DEF said
<1>s. said \in Seq(Messages)
  BY <1>4 DEF Saying
<1>5. Talk!Steps(t, IF turn[t].gone THEN Talk!Ends(turn[t], TRUE)
                    ELSE IF r.round = MaxToolRounds THEN Talk!Ends(r, TRUE) ELSE r)
  BY <1>2 DEF m, said
<1>6. /\ r \in TurnRows /\ r.pc = "calling" /\ r.conv = turn[t].conv /\ r.kept = turn[t].kept
      /\ r.added = said /\ r.stream = turn[t].stream /\ r.screen = turn[t].screen
  <2>1. turn[t].round + 1 \in Nat
    BY <1>1 DEF TurnRows
  <2> QED BY <1>1, <1>s, <2>1 DEF TurnRows
<1> HIDE DEF r
<1>7. Spoken(t, r)
  BY <1>1, <1>3, <1>4, <1>6 DEF Spoken, Answered
<1>8. CASE Talk!Steps(t, Talk!Ends(turn[t], TRUE))
  BY <1>1, <1>8, FailsWell, TalkingKeeps
<1>9. CASE Talk!Steps(t, Talk!Ends(r, TRUE))
  BY <1>1, <1>6, <1>7, <1>9, FailsWell, TalkingKeeps
<1>10. CASE Talk!Steps(t, r)
  BY <1>1, <1>6, <1>7, <1>10, TalkingKeeps
<1> QED BY <1>5, <1>8, <1>9, <1>10
-----------------------------------------------------------------------------
\* What comes before and after: questions, leaving, records, transactions and deletions.

\* The row of one turn changes and the tables do not.
LEMMA OthersKeep ==
    ASSUME TalkInv, NEW t \in Turns, NEW r \in TurnRows, Talk!Steps(t, r), Spoken(t, r), open' = open,
           stored' = stored, turn[t].pc \notin {"idle", "done"}, r.pc # "done", faults' \in Nat
    PROVE  /\ TalkTyped' /\ AllSpoken' /\ Stored'
           /\ turn'[t] = r /\ \A u \in Turns \ {t} : turn'[u] = turn[u]
<1>1. turn' \in [Turns -> TurnRows] /\ turn'[t] = r /\ \A u \in Turns \ {t} : turn'[u] = turn[u]
  BY TurnSet DEF TalkInv, TalkTyped
<1>2. TalkTyped'
  BY <1>1 DEF TalkInv, TalkTyped
<1>3. AllSpoken'
  BY <1>1 DEF TalkInv, AllSpoken
<1>4. Stored'
  <2>1. \A u \in Turns : turn'[u].pc = "done" \/ turn[u].pc = "done" => turn'[u] = turn[u]
    BY <1>1
  <2>2. \A u \in Turns : turn'[u] = turn[u] => Talk!Rows(u)' = Talk!Rows(u)
    BY DEF Talk!Rows
  <2> QED BY <2>1, <2>2 DEF TalkInv, Stored
<1> QED BY <1>1, <1>2, <1>3, <1>4

LEMMA LeaveKeeps == ASSUME TalkInv, NEW t \in Turns, Talk!Leave(t) PROVE TalkInv'
<1> DEFINE r == [turn[t] EXCEPT !.gone = TRUE]
<1>1. /\ turn[t].pc \notin {"idle", "done", "failed", "unsaved"} /\ turn[t] \in TurnRows /\ Spoken(t, turn[t])
      /\ UNCHANGED <<open, stored, runs, faults>> /\ Talk!Steps(t, r) /\ faults \in Nat
  BY DEF Talk!Leave, TalkInv, TalkTyped, AllSpoken
<1>2. /\ r \in TurnRows /\ r.pc = turn[t].pc /\ r.conv = turn[t].conv /\ r.kept = turn[t].kept /\ r.added = turn[t].added
      /\ r.stream = turn[t].stream /\ r.screen = turn[t].screen /\ r.calls = turn[t].calls /\ r.next = turn[t].next
      /\ r.error = turn[t].error
  BY <1>1 DEF TurnRows
<1>3. r.gone = TRUE
  BY <1>1 DEF TurnRows
<1> HIDE DEF r
<1>4. Spoken(t, r)
  BY <1>1, <1>2 DEF Spoken, Answered
<1>5. /\ TalkTyped' /\ AllSpoken' /\ Stored'
      /\ turn'[t] = r /\ \A u \in Turns \ {t} : turn'[u] = turn[u]
  BY <1>1, <1>2, <1>4, OthersKeep
<1>6. Storing'
  <2>1. \A u \in Turns : turn'[u].pc = turn[u].pc /\ turn'[u].conv = turn[u].conv /\ turn'[u].next = turn[u].next
    BY <1>2, <1>5
  <2> QED BY <1>1, <2>1 DEF TalkInv, Storing, Talk!Taken
<1>7. Spent'
  BY <1>1, <1>3, <1>5 DEF TalkInv, Spent
<1> QED BY <1>5, <1>6, <1>7 DEF TalkInv

LEMMA SendMessageKeeps ==
    ASSUME TalkInv, NEW t \in Turns, NEW c \in Convs, Talk!SendMessage(t, c) PROVE TalkInv'
<1>1. PICK stream \in BOOLEAN : Talk!Steps(t, Talk!Ask(t, c, stream))
  BY DEF Talk!SendMessage
<1>2. /\ turn[t].pc = "idle" /\ turn[t] \in TurnRows /\ UNCHANGED <<stored, runs, faults>>
      /\ c \in open \/ (stored[c] = {} /\ \A u \in Turns : turn[u].conv # c)
      /\ open' = open \cup {c}
  BY DEF Talk!SendMessage, Talk!resolveConversation, Talk!At, TalkInv, TalkTyped
<1> DEFINE kept == Talk!trimHistory(Talk!Transcript(c), Budget)
           first == Talk!Message(t, "question", 0, 4)
           added == <<first>>
           r == [Talk!Idle EXCEPT !.pc = "calling", !.conv = c, !.stream = stream, !.kept = kept, !.added = added]
<1>3. Talk!Steps(t, r)
  BY <1>1 DEF Talk!Ask
<1>4. kept \in Seq(Messages) /\ Sendable(kept)
  <2>1. PICK ms \in Seq(Messages) : stored[c] = Talk!Numbered(ms) /\ Whole(ms)
    BY DEF TalkInv, Stored
  <2>2. Talk!Transcript(c) = ms
    BY <2>1, TranscriptOf
  <2> QED BY <2>1, <2>2, WholeIsSendable, TrimKeeps
<1> HIDE DEF kept
<1>5. added \in Seq(Messages) /\ Saying(t, added) /\ added[Len(added)] = first /\ first.kind = "question"
  BY DEF Saying, Chained, Messages, Kinds, Talk!Message
<1> HIDE DEF added, first
<1>6. /\ r \in TurnRows /\ r.pc = "calling" /\ r.conv = c /\ r.kept = kept /\ r.added = added /\ r.screen = {}
  BY <1>4, <1>5 DEF TurnRows, Talk!Idle
<1> HIDE DEF r
<1>7. Spoken(t, r)
  BY <1>4, <1>5, <1>6 DEF Spoken, Answered
<1>8. turn' \in [Turns -> TurnRows] /\ turn'[t] = r /\ \A u \in Turns \ {t} : turn'[u] = turn[u]
  BY <1>3, <1>6, TurnSet DEF TalkInv, TalkTyped
<1>9. TalkTyped'
  BY <1>2, <1>8 DEF TalkInv, TalkTyped
<1>10. AllSpoken'
  BY <1>7, <1>8 DEF TalkInv, AllSpoken
<1>11. \A u \in Turns \ {t} : turn[u].conv \in open' <=> turn[u].conv \in open
  BY <1>2
<1>12. Stored'
  <2>1. \A u \in Turns : turn'[u].pc = "done" \/ turn[u].pc = "done" => turn'[u] = turn[u] /\ u # t
    BY <1>2, <1>6, <1>8
  <2>2. \A u \in Turns : turn'[u] = turn[u] => Talk!Rows(u)' = Talk!Rows(u)
    BY DEF Talk!Rows
  <2>3. \A d \in Convs \ open' : stored'[d] = {}
    BY <1>2 DEF TalkInv, Stored
  <2> QED BY <1>2, <1>11, <2>1, <2>2, <2>3 DEF TalkInv, Stored
<1>13. Storing'
  <2>1. \A u \in Turns : turn'[u].pc \in {"insert", "inserted"} \/ turn[u].pc \in {"insert", "inserted"} => turn'[u] = turn[u] /\ u # t
    BY <1>2, <1>6, <1>8
  <2> QED BY <1>2, <1>11, <2>1 DEF TalkInv, Storing, Talk!Taken
<1>14. Spent'
  BY <1>2, <1>6, <1>8, <1>11 DEF TalkInv, Spent
<1> QED BY <1>9, <1>10, <1>12, <1>13, <1>14 DEF TalkInv
Staged(t, pc, n) == [turn[t] EXCEPT !.pc = pc, !.next = n]

\* Nothing but the stage of a turn changes, and what its transaction is to use next.
LEMMA StageRow ==
    ASSUME TalkInv, NEW t \in Turns, turn[t].pc # "idle",
           NEW pc \in {"append", "insert", "inserted", "done", "failed", "unsaved"}, NEW n \in Nat,
           pc \in {"failed", "unsaved"} \/ Answered(turn[t])
    PROVE  LET r == Staged(t, pc, n)
           IN  /\ r \in TurnRows /\ Spoken(t, r) /\ r.pc = pc /\ r.next = n
               /\ r.conv = turn[t].conv /\ r.added = turn[t].added /\ r.rounds = turn[t].rounds /\ r.gone = turn[t].gone
<1> DEFINE r == Staged(t, pc, n)
<1>1. turn[t] \in TurnRows /\ Spoken(t, turn[t])
  BY DEF TalkInv, TalkTyped, AllSpoken
<1>2. /\ r \in TurnRows /\ r.pc = pc /\ r.next = n
      /\ r.conv = turn[t].conv /\ r.kept = turn[t].kept /\ r.added = turn[t].added /\ r.rounds = turn[t].rounds /\ r.gone = turn[t].gone
      /\ r.stream = turn[t].stream /\ r.screen = turn[t].screen
  BY <1>1 DEF TurnRows, Staged
<1> HIDE DEF r
<1>3. Answered(r) => Answered(turn[t])
  BY <1>2 DEF Answered
<1>4. Spoken(t, r)
  BY <1>1, <1>2, <1>3 DEF Spoken
<1> QED BY <1>2, <1>4 DEF r

LEMMA SameNext ==
    ASSUME TalkInv, NEW t \in Turns, NEW pc
    PROVE  [turn[t] EXCEPT !.pc = pc] = Staged(t, pc, turn[t].next) /\ turn[t].next \in Nat
<1>1. turn[t] \in TurnRows
  BY DEF TalkInv, TalkTyped
<1> QED BY <1>1 DEF TurnRows, Staged

LEMMA FaultsCount ==
    ASSUME TalkInv, NEW t \in Turns, Talk!Works(t) \/ Talk!Fails(t)
    PROVE  /\ faults' \in Nat /\ (faults' = 0 => faults = 0)
           /\ Talk!Fails(t) => turn[t].gone \/ faults' # 0
BY DEF TalkInv, TalkTyped, Talk!Works, Talk!Fails

\* What is recorded stays, and who was recorded.
LEMMA SpentStays ==
    ASSUME TalkInv, NEW t \in Turns, turn[t].pc \in {"append", "insert", "inserted"},
           open' = open, runs \subseteq runs', faults' = 0 => faults = 0,
           turn'[t].conv = turn[t].conv, turn'[t].rounds = turn[t].rounds, turn'[t].gone = turn[t].gone,
           \A u \in Turns \ {t} : turn'[u] = turn[u]
    PROVE  Spent'
BY DEF TalkInv, Spent

LEMMA RecordRunKeeps == ASSUME TalkInv, NEW t \in Turns, Talk!RecordRun(t) PROVE TalkInv'
<1> DEFINE pc == IF turn[t].error THEN "failed" ELSE "append"
           r == Staged(t, pc, turn[t].next)
<1>1. /\ turn[t].pc = "ended" /\ UNCHANGED <<open, stored>>
      /\ \/ Talk!Works(t) /\ runs' = IF turn[t].conv \in open THEN runs \cup Talk!Recorded(t) ELSE runs
         \/ Talk!Fails(t) /\ runs' = runs
  BY DEF Talk!RecordRun, Talk!At
<1>2. Talk!Steps(t, r)
  BY SameNext DEF Talk!RecordRun
<1>3. turn[t].next \in Nat /\ pc \in {"failed", "append"} /\ (pc = "failed" \/ Answered(turn[t]))
  BY <1>1, SameNext DEF Answered
<1> HIDE DEF pc
<1>4. /\ r \in TurnRows /\ Spoken(t, r) /\ r.pc = pc /\ r.next = turn[t].next
      /\ r.conv = turn[t].conv /\ r.added = turn[t].added /\ r.rounds = turn[t].rounds /\ r.gone = turn[t].gone
  BY <1>1, <1>3, StageRow
<1> HIDE DEF r
<1>5. faults' \in Nat /\ (faults' = 0 => faults = 0) /\ (Talk!Fails(t) => turn[t].gone \/ faults' # 0)
  BY <1>1, FaultsCount
<1>6. /\ TalkTyped' /\ AllSpoken' /\ Stored' /\ turn'[t] = r /\ \A u \in Turns \ {t} : turn'[u] = turn[u]
  BY <1>1, <1>2, <1>3, <1>4, <1>5, OthersKeep
<1>7. Storing'
  BY <1>1, <1>3, <1>4, <1>6 DEF TalkInv, Storing, Talk!Taken
<1>8. Spent'
  <2>1. runs \subseteq runs'
    BY <1>1
  <2>2. ASSUME turn[t].conv \in open, ~turn[t].gone, faults' = 0
        PROVE  \E x \in runs' : x.turn = t /\ x.rounds = turn[t].rounds /\ x.conv = turn[t].conv
    <3>1. [turn |-> t, conv |-> turn[t].conv, rounds |-> turn[t].rounds] \in runs'
      BY <1>1, <1>5, <2>2 DEF Talk!Recorded
    <3> QED BY <3>1
  <2> QED BY <1>1, <1>4, <1>5, <1>6, <2>1, <2>2 DEF TalkInv, Spent
<1> QED BY <1>6, <1>7, <1>8 DEF TalkInv

LEMMA UnsavedKeeps ==
    ASSUME TalkInv, NEW t \in Turns, turn[t].pc \in {"append", "insert", "inserted"}, Talk!Unsaved(t),
           Talk!Works(t) \/ Talk!Fails(t)
    PROVE  TalkInv'
<1> DEFINE r == Staged(t, "unsaved", 0)
<1>1. Talk!Steps(t, r) /\ UNCHANGED <<open, stored, runs>>
  BY DEF Talk!Unsaved, Staged
<1>2. /\ r \in TurnRows /\ Spoken(t, r) /\ r.pc = "unsaved" /\ r.next = 0
      /\ r.conv = turn[t].conv /\ r.added = turn[t].added /\ r.rounds = turn[t].rounds /\ r.gone = turn[t].gone
  BY StageRow
<1> HIDE DEF r
<1>3. faults' \in Nat /\ (faults' = 0 => faults = 0)
  BY FaultsCount
<1>4. /\ TalkTyped' /\ AllSpoken' /\ Stored' /\ turn'[t] = r /\ \A u \in Turns \ {t} : turn'[u] = turn[u]
  BY <1>1, <1>2, <1>3, OthersKeep
<1>5. Storing'
  BY <1>1, <1>2, <1>4 DEF TalkInv, Storing, Talk!Taken
<1>6. Spent'
  BY <1>1, <1>2, <1>3, <1>4, SpentStays
<1> QED BY <1>4, <1>5, <1>6 DEF TalkInv

LEMMA ReadNextKeeps == ASSUME TalkInv, NEW t \in Turns, Talk!ReadNext(t) PROVE TalkInv'
<1> DEFINE n == 1 + Talk!Cardinality(stored[turn[t].conv])
           r == Staged(t, "insert", n)
<1>1. turn[t].pc = "append" /\ turn[t].conv \in Convs
  BY DEF Talk!ReadNext, Talk!At, TalkInv, AllSpoken, Spoken
<1>2. CASE Talk!Works(t) /\ Talk!Steps(t, r) /\ UNCHANGED <<open, stored, runs>>
  <2>1. PICK ms \in Seq(Messages) : stored[turn[t].conv] = Talk!Numbered(ms)
    BY <1>1 DEF TalkInv, Stored
  <2>2. n = Len(ms) + 1
    BY <2>1, AllRowsCounted
  <2>3. n \in Nat /\ n > 0 /\ \A k \in 1 .. n - 1 : Talk!Taken(turn[t].conv, k)
    <3>1. \A k \in 1 .. Len(ms) : [seq |-> k, msg |-> ms[k]] \in stored[turn[t].conv]
      BY <2>1 DEF Talk!Numbered
    <3>2. n \in Nat /\ n > 0 /\ n - 1 = Len(ms)
      BY <2>2
    <3>3. \A k \in 1 .. Len(ms) : Talk!Taken(turn[t].conv, k)
      BY <3>1 DEF Talk!Taken
    <3> HIDE DEF n
    <3> QED BY <3>2, <3>3
  <2> HIDE DEF n
  <2>4. /\ r \in TurnRows /\ Spoken(t, r) /\ r.pc = "insert" /\ r.next = n
        /\ r.conv = turn[t].conv /\ r.added = turn[t].added /\ r.rounds = turn[t].rounds /\ r.gone = turn[t].gone
    BY <1>1, <2>3, StageRow DEF Answered
  <2>5. faults' \in Nat /\ (faults' = 0 => faults = 0)
    BY <1>2, FaultsCount
  <2> HIDE DEF r
  <2>6. /\ TalkTyped' /\ AllSpoken' /\ Stored' /\ turn'[t] = r /\ \A u \in Turns \ {t} : turn'[u] = turn[u]
    BY <1>1, <1>2, <2>4, <2>5, OthersKeep
  <2>7. Storing'
    BY <1>2, <2>3, <2>4, <2>6 DEF TalkInv, Storing, Talk!Taken
  <2>8. Spent'
    BY <1>1, <1>2, <2>4, <2>5, <2>6, SpentStays
  <2> QED BY <2>6, <2>7, <2>8 DEF TalkInv
<1>3. CASE Talk!Fails(t) /\ Talk!Unsaved(t)
  BY <1>1, <1>3, UnsavedKeeps
<1> QED BY <1>2, <1>3 DEF Talk!ReadNext, Staged

LEMMA InsertMessagesKeeps == ASSUME TalkInv, NEW t \in Turns, Talk!InsertMessages(t) PROVE TalkInv'
<1> DEFINE c == turn[t].conv
           n == turn[t].next
           r == Staged(t, "inserted", n)
<1>1. turn[t].pc = "insert" /\ Talk!Claims(c, n) = {}
  BY DEF Talk!InsertMessages, Talk!At
<1>2. CASE Talk!Works(t) /\ c \in open /\ ~Talk!Taken(c, n) /\ Talk!Steps(t, r) /\ UNCHANGED <<open, stored, runs>>
  <2>1. n \in Nat
    BY SameNext
  <2>2. /\ r \in TurnRows /\ Spoken(t, r) /\ r.pc = "inserted" /\ r.next = n
        /\ r.conv = c /\ r.added = turn[t].added /\ r.rounds = turn[t].rounds /\ r.gone = turn[t].gone
    BY <1>1, <2>1, StageRow DEF Answered
  <2>3. faults' \in Nat /\ (faults' = 0 => faults = 0)
    BY <1>2, FaultsCount
  <2> HIDE DEF r
  <2>4. /\ TalkTyped' /\ AllSpoken' /\ Stored' /\ turn'[t] = r /\ \A u \in Turns \ {t} : turn'[u] = turn[u]
    BY <1>1, <1>2, <2>2, <2>3, OthersKeep
  <2>5. ASSUME NEW u \in Turns, turn[u].pc = "inserted", turn[u].conv = c
        PROVE  FALSE
    <3>1. turn[u].next \in Nat
      BY SameNext
    <3>2. turn[u].next > 0 /\ ~Talk!Taken(c, turn[u].next) /\ \A k \in 1 .. turn[u].next - 1 : Talk!Taken(c, k)
      BY <2>5 DEF TalkInv, Storing
    <3>3. n > 0 /\ ~Talk!Taken(c, n) /\ \A k \in 1 .. n - 1 : Talk!Taken(c, k)
      BY <1>1, <1>2 DEF TalkInv, Storing
    <3> HIDE DEF n, c
    <3>4. turn[u].next = n
      <4> DEFINE m == turn[u].next
      <4> HIDE DEF m
      <4>1. m \in Nat /\ n \in Nat /\ m > 0 /\ n > 0 /\ (\A k \in 1 .. m - 1 : k # n) /\ (\A k \in 1 .. n - 1 : k # m)
        BY <2>1, <3>1, <3>2, <3>3 DEF m
      <4>2. ~(n < m) /\ ~(m < n)
        BY <4>1
      <4>3. m = n
        BY <4>1, <4>2
      <4> QED BY <4>3 DEF m
    <3>5. u \in Talk!Claims(c, n)
      BY <2>5, <3>4 DEF Talk!Claims, Talk!At
    <3> QED BY <1>1, <3>5
  <2>6. Storing'
    <3>1. n > 0 /\ \A k \in 1 .. n - 1 : Talk!Taken(c, k)
      BY <1>1, <1>2 DEF TalkInv, Storing
    <3>2. \A d, k : Talk!Taken(d, k)' <=> Talk!Taken(d, k)
      BY <1>2 DEF Talk!Taken
    <3> QED BY <1>2, <2>2, <2>4, <2>5, <3>1 DEF TalkInv, Storing, Talk!Taken
  <2>7. Spent'
    BY <1>1, <1>2, <2>2, <2>3, <2>4, SpentStays
  <2> QED BY <2>4, <2>6, <2>7 DEF TalkInv
<1>3. CASE (Talk!Works(t) \/ Talk!Fails(t)) /\ Talk!Unsaved(t)
  BY <1>1, <1>3, UnsavedKeeps
<1>4. Talk!Steps(t, [turn[t] EXCEPT !.pc = "inserted"]) => Talk!Steps(t, r)
  BY SameNext
<1> QED BY <1>2, <1>3, <1>4 DEF Talk!InsertMessages
\* Whole turns and one more, of a turn that is not among them.
LEMMA WholeAndOne ==
    ASSUME NEW was \in Seq(Messages), Whole(was), NEW t \in Turns, NEW said, Saying(t, said),
           said[Len(said)].kind = "answer", \A i \in DOMAIN was : was[i].of # t
    PROVE  was \o said \in Seq(Messages) /\ Whole(was \o said)
<1> DEFINE ms == was \o said
<1>1. said \in Seq(Messages) /\ said # <<>> /\ said[1] = Talk!Message(t, "question", 0, 4) /\ Len(said) >= 1 /\ Chained(said)
  BY DEF Saying
<1>2. ms \in Seq(Messages) /\ Len(ms) = Len(was) + Len(said) /\ Len(was) \in Nat /\ Len(said) \in Nat
      /\ (\A i \in 1 .. Len(was) : ms[i] = was[i])
      /\ \A i \in 1 .. Len(said) : ms[Len(was) + i] = said[i]
  BY <1>1
<1> HIDE DEF ms
<1>3. said[1].kind = "question" /\ said[1].of = t
  BY <1>1 DEF Talk!Message
<1>4. ms[1].kind = "question"
  <2>1. CASE Len(was) = 0
    <3>1. 1 \in 1 .. Len(said) /\ ms[0 + 1] = said[1]
      BY <1>1, <1>2, <2>1
    <3> QED BY <1>3, <3>1
  <2>2. CASE Len(was) > 0
    <3>1. was # <<>> /\ ms[1] = was[1]
      BY <1>2, <2>2
    <3> QED BY <3>1 DEF Whole
  <2> QED BY <1>2, <2>1, <2>2
<1>5. ms[Len(ms)].kind = "answer"
  BY <1>1, <1>2
<1>6. ASSUME NEW i \in 1 .. Len(ms) - 1
      PROVE  Talk!Follows(ms[i], ms[i + 1])
  <2>1. CASE i < Len(was)
    <3>1. i \in 1 .. Len(was) - 1 /\ i + 1 \in 1 .. Len(was) /\ i \in 1 .. Len(was)
      BY <1>2, <2>1
    <3>2. ms[i] = was[i] /\ ms[i + 1] = was[i + 1]
      BY <1>2, <3>1
    <3> QED BY <3>1, <3>2 DEF Whole, Chained
  <2>2. CASE i = Len(was)
    <3>1. was # <<>> /\ i \in DOMAIN was /\ ms[i] = was[i]
      BY <1>2, <2>2
    <3>2. was[i].kind = "answer" /\ was[i].of # t
      BY <2>2, <3>1 DEF Whole
    <3>3. ms[i + 1] = said[1]
      BY <1>1, <1>2, <2>2
    <3> QED BY <1>3, <3>1, <3>2, <3>3 DEF Talk!Follows
  <2>3. CASE i > Len(was)
    <3> DEFINE j == i - Len(was)
    <3>1. j \in 1 .. Len(said) - 1 /\ j \in 1 .. Len(said) /\ j + 1 \in 1 .. Len(said) /\ i = Len(was) + j /\ i + 1 = Len(was) + (j + 1)
      BY <1>2, <2>3
    <3> HIDE DEF j
    <3>2. ms[i] = said[j] /\ ms[i + 1] = said[j + 1]
      BY <1>2, <3>1
    <3> QED BY <1>1, <3>1, <3>2 DEF Chained
  <2> QED BY <1>2, <2>1, <2>2, <2>3
<1>7. Whole(ms)
  BY <1>4, <1>5, <1>6 DEF Whole, Chained
<1> QED BY <1>2, <1>7 DEF ms

\* Rows numbered from the next number on continue the rows there are.
LEMMA NumberedJoin ==
    ASSUME NEW S, NEW was \in Seq(S), NEW said \in Seq(S)
    PROVE  Talk!Numbered(was \o said)
               = Talk!Numbered(was) \cup {[seq |-> Len(was) + 1 + i - 1, msg |-> said[i]] : i \in DOMAIN said}
<1> DEFINE ms == was \o said
           W == Talk!Numbered(was)
           M == Talk!Numbered(ms)
           R == {[seq |-> Len(was) + 1 + i - 1, msg |-> said[i]] : i \in DOMAIN said}
<1>1. ms \in Seq(S) /\ Len(ms) = Len(was) + Len(said) /\ Len(was) \in Nat /\ Len(said) \in Nat
      /\ (\A i \in 1 .. Len(was) : ms[i] = was[i])
      /\ \A i \in 1 .. Len(said) : ms[Len(was) + i] = said[i]
  OBVIOUS
<1> HIDE DEF ms
<1>2. \A x : x \in W <=> \E i \in 1 .. Len(was) : x = [seq |-> i, msg |-> was[i]]
  BY DEF Talk!Numbered
<1>3. \A x : x \in M <=> \E i \in 1 .. Len(ms) : x = [seq |-> i, msg |-> ms[i]]
  BY <1>1 DEF Talk!Numbered
<1>4. \A x : x \in R <=> \E i \in 1 .. Len(said) : x = [seq |-> Len(was) + i, msg |-> said[i]]
  <2>1. \A i \in 1 .. Len(said) : Len(was) + 1 + i - 1 = Len(was) + i
    BY <1>1
  <2>2. R = {[seq |-> Len(was) + i, msg |-> said[i]] : i \in 1 .. Len(said)}
    BY <1>1, <2>1
  <2> HIDE DEF R
  <2> QED BY <2>2
<1> HIDE DEF W, M, R
<1>5. ASSUME NEW x \in M
      PROVE  x \in W \cup R
  <2>1. PICK i \in 1 .. Len(ms) : x = [seq |-> i, msg |-> ms[i]]
    BY <1>3
  <2>2. CASE i <= Len(was)
    <3>1. i \in 1 .. Len(was) /\ ms[i] = was[i]
      BY <1>1, <2>1, <2>2
    <3> QED BY <1>2, <2>1, <3>1
  <2>3. CASE i > Len(was)
    <3> DEFINE j == i - Len(was)
    <3>1. j \in 1 .. Len(said) /\ i = Len(was) + j
      BY <1>1, <2>1, <2>3
    <3> HIDE DEF j
    <3>2. x = [seq |-> Len(was) + j, msg |-> said[j]]
      BY <1>1, <2>1, <3>1
    <3>3. x \in R
      BY <1>4, <3>1, <3>2
    <3> QED BY <3>3
  <2> QED BY <1>1, <2>1, <2>2, <2>3
<1>6. ASSUME NEW x \in W
      PROVE  x \in M
  <2>1. PICK i \in 1 .. Len(was) : x = [seq |-> i, msg |-> was[i]]
    BY <1>2
  <2>2. i \in 1 .. Len(ms) /\ x = [seq |-> i, msg |-> ms[i]]
    BY <1>1, <2>1
  <2> QED BY <1>3, <2>2
<1>7. ASSUME NEW x \in R
      PROVE  x \in M
  <2>1. PICK i \in 1 .. Len(said) : x = [seq |-> Len(was) + i, msg |-> said[i]]
    BY <1>4
  <2>2. Len(was) + i \in 1 .. Len(ms) /\ x = [seq |-> Len(was) + i, msg |-> ms[Len(was) + i]]
    BY <1>1, <2>1
  <2> QED BY <1>3, <2>2
<1>8. M = W \cup R
  BY <1>5, <1>6, <1>7
<1> QED BY <1>8 DEF M, W, R, ms

LEMMA CommitKeeps == ASSUME TalkInv, NEW t \in Turns, Talk!Commit(t) PROVE TalkInv'
<1> DEFINE c == turn[t].conv
           n == turn[t].next
           r == Staged(t, "done", n)
           said == turn[t].added
<1>1. turn[t].pc = "inserted"
  BY DEF Talk!Commit, Talk!At
<1>2. CASE /\ Talk!Works(t) /\ Talk!Steps(t, r) /\ UNCHANGED <<open, runs>>
           /\ stored' = [stored EXCEPT ![c] = @ \cup Talk!Rows(t)]
  <2>1. n \in Nat /\ c \in Convs /\ Saying(t, said) /\ said[Len(said)].kind = "answer"
    BY <1>1, SameNext DEF TalkInv, AllSpoken, Spoken, Answered
  <2>2. /\ r \in TurnRows /\ Spoken(t, r) /\ r.pc = "done" /\ r.next = n
        /\ r.conv = c /\ r.added = said /\ r.rounds = turn[t].rounds /\ r.gone = turn[t].gone
    BY <1>1, <2>1, StageRow DEF Answered
  <2>3. faults' \in Nat /\ (faults' = 0 => faults = 0)
    BY <1>2, FaultsCount
  <2>4. PICK was \in Seq(Messages) : stored[c] = Talk!Numbered(was) /\ Whole(was)
    BY <2>1 DEF TalkInv, Stored
  <2>5. n = Len(was) + 1
    <3>1. n > 0 /\ ~Talk!Taken(c, n) /\ \A k \in 1 .. n - 1 : Talk!Taken(c, k)
      BY <1>1 DEF TalkInv, Storing
    <3>2. \A k : Talk!Taken(c, k) <=> k \in 1 .. Len(was)
      <4>1. \A i \in 1 .. Len(was) : [seq |-> i, msg |-> was[i]] \in stored[c]
        BY <2>4 DEF Talk!Numbered
      <4>2. \A x \in stored[c] : x.seq \in 1 .. Len(was)
        BY <2>4 DEF Talk!Numbered
      <4> HIDE DEF c
      <4> QED BY <4>1, <4>2 DEF Talk!Taken
    <3> HIDE DEF n
    <3>3. n \notin 1 .. Len(was) /\ (n > 1 => n - 1 \in 1 .. Len(was)) /\ Len(was) \in Nat
      BY <2>1, <3>1, <3>2
    <3> QED BY <2>1, <3>1, <3>3
  <2>6. \A i \in DOMAIN was : was[i].of # t
    <3>1. \A i \in DOMAIN was : [seq |-> i, msg |-> was[i]] \in stored[c]
      BY <2>4 DEF Talk!Numbered
    <3>2. \A x \in stored[c] : x.msg.of # t
      BY <1>1, <2>1 DEF TalkInv, Stored
    <3> QED BY <3>1, <3>2
  <2>7. was \o said \in Seq(Messages) /\ Whole(was \o said)
    BY <2>1, <2>4, <2>6, WholeAndOne
  <2>8. stored[c] \cup Talk!Rows(t) = Talk!Numbered(was \o said)
    <3>1. said \in Seq(Messages)
      BY <2>1 DEF Saying
    <3>2. Talk!Rows(t) = {[seq |-> n + i - 1, msg |-> said[i]] : i \in DOMAIN said}
      BY DEF Talk!Rows
    <3> HIDE DEF n, said
    <3> QED BY <2>4, <2>5, <3>1, <3>2, NumberedJoin
  <2>9. \A x \in Talk!Rows(t) : x \in [seq : Nat, msg : Messages] /\ x.msg.of = t
    BY <2>1 DEF Talk!Rows, Saying
  <2> HIDE DEF r
  <2>10. turn' \in [Turns -> TurnRows] /\ turn'[t] = r /\ \A u \in Turns \ {t} : turn'[u] = turn[u]
    BY <1>2, <2>2, TurnSet DEF TalkInv, TalkTyped
  <2>11. /\ stored' \in [Convs -> SUBSET [seq : Nat, msg : Messages]]
         /\ stored'[c] = stored[c] \cup Talk!Rows(t) /\ \A d \in Convs \ {c} : stored'[d] = stored[d]
    BY <1>2, <2>1, <2>9 DEF TalkInv, TalkTyped
  <2>12. TalkTyped'
    BY <1>2, <2>3, <2>10, <2>11 DEF TalkInv, TalkTyped
  <2>13. AllSpoken'
    BY <2>2, <2>10 DEF TalkInv, AllSpoken
  <2>14. c \in open
    BY <1>1 DEF TalkInv, Storing
  <2>15. \A u \in Turns : Talk!Rows(u)' = Talk!Rows(u)
    BY <2>2, <2>10 DEF Talk!Rows
  <2> HIDE DEF c, n, said
  <2>16. Stored'
    <3>1. \A d \in Convs : \E ms \in Seq(Messages) : stored'[d] = Talk!Numbered(ms) /\ Whole(ms)
      <4>1. stored'[c] = Talk!Numbered(was \o said)
        BY <2>8, <2>11
      <4>2. \A d \in Convs : \E ms \in Seq(Messages) : stored[d] = Talk!Numbered(ms) /\ Whole(ms)
        BY DEF TalkInv, Stored
      <4>3. \E ms \in Seq(Messages) : stored'[c] = Talk!Numbered(ms) /\ Whole(ms)
        BY <2>7, <4>1
      <4> QED BY <2>11, <4>2, <4>3
    <3>2. \A d \in Convs \ open' : stored'[d] = {}
      BY <1>2, <2>11, <2>14 DEF TalkInv, Stored
    <3>3. \A d \in Convs : \A x \in stored'[d] : x.msg.of \in Turns => turn'[x.msg.of].pc = "done"
      BY <2>2, <2>9, <2>10, <2>11 DEF TalkInv, Stored
    <3>4. ASSUME NEW u \in Turns, turn'[u].pc = "done"
          PROVE  turn'[u].conv \notin open' \/ Talk!Rows(u)' \subseteq stored'[turn'[u].conv]
      <4>1. CASE u = t
        BY <2>2, <2>10, <2>11, <2>15, <4>1
      <4>2. CASE u # t
        <5>1. turn'[u] = turn[u] /\ turn[u].conv \in Convs
          BY <2>10, <3>4, <4>2 DEF TalkInv, AllSpoken, Spoken
        <5>2. stored[turn[u].conv] \subseteq stored'[turn[u].conv]
          BY <2>11, <5>1
        <5> QED BY <1>2, <2>15, <3>4, <5>1, <5>2 DEF TalkInv, Stored
      <4> QED BY <4>1, <4>2
    <3> QED BY <3>1, <3>2, <3>3, <3>4 DEF Stored
  <2>17. Storing'
    <3> DEFINE Now(d, k) == \E x \in stored'[d] : x.seq = k
    <3>1. \A d \in Convs : \A k : Talk!Taken(d, k) => Now(d, k)
      BY <2>11 DEF Talk!Taken
    <3>2. \A d \in Convs \ {c} : \A k : Talk!Taken(d, k) <=> Now(d, k)
      BY <2>11 DEF Talk!Taken
    <3>3. \A u \in Turns : turn'[u].pc \in {"insert", "inserted"} => turn'[u] = turn[u] /\ turn[u].conv \in Convs
      BY <2>2, <2>10 DEF TalkInv, AllSpoken, Spoken
    <3>4. \A u \in Turns : turn'[u].pc = "inserted" => turn[u].conv # c
      BY <1>1, <2>2, <2>10 DEF TalkInv, Storing, c
    <3> HIDE DEF Now
    <3>5. ASSUME NEW u \in Turns, turn'[u].pc \in {"insert", "inserted"}, turn'[u].conv \in open'
          PROVE  turn'[u].next > 0 /\ \A k \in 1 .. turn'[u].next - 1 : Now(turn'[u].conv, k)
      <4>1. turn[u].next > 0 /\ \A k \in 1 .. turn[u].next - 1 : Talk!Taken(turn[u].conv, k)
        BY <1>2, <3>3, <3>5 DEF TalkInv, Storing
      <4> QED BY <3>1, <3>3, <3>5, <4>1
    <3>6. ASSUME NEW u \in Turns, turn'[u].pc = "inserted"
          PROVE  /\ turn'[u].conv \in open' /\ ~Now(turn'[u].conv, turn'[u].next)
                 /\ \A v \in Turns : turn'[v].pc = "inserted" /\ turn'[v].conv = turn'[u].conv => v = u
      <4>1. /\ turn[u].conv \in open /\ ~Talk!Taken(turn[u].conv, turn[u].next)
            /\ \A v \in Turns : turn[v].pc = "inserted" /\ turn[v].conv = turn[u].conv => v = u
        BY <3>3, <3>6 DEF TalkInv, Storing
      <4> QED BY <1>2, <3>2, <3>3, <3>4, <3>6, <4>1
    <3> QED BY <3>5, <3>6 DEF Storing, Talk!Taken, Now
  <2>18. Spent'
    BY <1>1, <1>2, <2>2, <2>3, <2>10, SpentStays DEF c
  <2> QED BY <2>12, <2>13, <2>16, <2>17, <2>18 DEF TalkInv
<1>3. CASE Talk!Fails(t) /\ Talk!Unsaved(t)
  BY <1>1, <1>3, UnsavedKeeps
<1>4. Talk!Steps(t, [turn[t] EXCEPT !.pc = "done"]) => Talk!Steps(t, r)
  BY SameNext
<1> QED BY <1>2, <1>3, <1>4 DEF Talk!Commit

LEMMA DeleteConversationKeeps ==
    ASSUME TalkInv, NEW c \in Convs, Talk!DeleteConversation(c) PROVE TalkInv'
<1>1. /\ c \in open /\ \A t \in Turns : turn[t].conv = c => turn[t].pc # "inserted"
      /\ open' = open \ {c} /\ stored' = [stored EXCEPT ![c] = {}]
      /\ runs' = {x \in runs : x.conv # c} /\ UNCHANGED <<turn, faults>>
  BY DEF Talk!DeleteConversation, Talk!At
<1>2. /\ stored' \in [Convs -> SUBSET [seq : Nat, msg : Messages]]
      /\ stored'[c] = {} /\ \A d \in Convs \ {c} : stored'[d] = stored[d]
  BY <1>1 DEF TalkInv, TalkTyped
<1>3. TalkTyped' /\ AllSpoken'
  BY <1>1, <1>2 DEF TalkInv, TalkTyped, AllSpoken
<1>4. Stored'
  <2>1. \A t \in Turns : Talk!Rows(t)' = Talk!Rows(t)
    BY <1>1 DEF Talk!Rows
  <2>2. \A d \in Convs : \E ms \in Seq(Messages) : stored'[d] = Talk!Numbered(ms) /\ Whole(ms)
    BY <1>2, EmptyIsWhole DEF TalkInv, Stored
  <2>3. \A d \in Convs \ open' : stored'[d] = {}
    BY <1>1, <1>2 DEF TalkInv, Stored
  <2>4. \A d \in Convs : \A x \in stored'[d] : x.msg.of \in Turns => turn'[x.msg.of].pc = "done"
    BY <1>1, <1>2 DEF TalkInv, Stored
  <2>5. ASSUME NEW u \in Turns, turn'[u].pc = "done"
        PROVE  turn'[u].conv \notin open' \/ Talk!Rows(u)' \subseteq stored'[turn'[u].conv]
    <3>1. turn'[u] = turn[u] /\ turn[u].conv \in Convs
      BY <1>1, <2>5 DEF TalkInv, AllSpoken, Spoken
    <3> QED BY <1>1, <1>2, <2>1, <2>5, <3>1 DEF TalkInv, Stored
  <2> QED BY <2>2, <2>3, <2>4, <2>5 DEF Stored
<1>5. Storing'
  <2>1. \A d \in Convs \ {c} : \A k : Talk!Taken(d, k) <=> Talk!Taken(d, k)'
    BY <1>2 DEF Talk!Taken
  <2>2. \A u \in Turns : turn[u].pc \in {"insert", "inserted"} => turn[u].conv \in Convs
    BY DEF TalkInv, AllSpoken, Spoken
  <2>3. ASSUME NEW u \in Turns, turn[u].pc \in {"insert", "inserted"}, turn[u].conv \in open'
        PROVE  turn[u].next > 0 /\ \A k \in 1 .. turn[u].next - 1 : Talk!Taken(turn[u].conv, k)'
    BY <1>1, <2>1, <2>2, <2>3 DEF TalkInv, Storing
  <2>4. ASSUME NEW u \in Turns, turn[u].pc = "inserted"
        PROVE  /\ turn[u].conv \in open' /\ ~Talk!Taken(turn[u].conv, turn[u].next)'
               /\ \A v \in Turns : turn[v].pc = "inserted" /\ turn[v].conv = turn[u].conv => v = u
    BY <1>1, <2>1, <2>2, <2>4 DEF TalkInv, Storing
  <2> QED BY <1>1, <2>3, <2>4 DEF Storing
<1>6. Spent'
  BY <1>1 DEF TalkInv, Spent
<1> QED BY <1>3, <1>4, <1>5, <1>6 DEF TalkInv

LEMMA TalkStep == TalkInv /\ Talk!Next => TalkInv'
BY SendMessageKeeps, UnparsedKeeps, ProviderFailsKeeps, UselessReplyKeeps, CallsToolsKeeps, StrayCallKeeps,
   AnswersKeeps, RunToolsKeeps, LeaveKeeps, RecordRunKeeps, ReadNextKeeps, InsertMessagesKeeps, CommitKeeps,
   DeleteConversationKeeps DEF Talk!Next

LEMMA TalkStays == TalkInv /\ UNCHANGED talkVars => TalkInv'
BY DEF talkVars, TalkInv, TalkTyped, AllSpoken, Stored, Storing, Spent, Talk!Taken, Talk!Rows
-----------------------------------------------------------------------------
\* The three properties.

\* What is sent: the trimmed history, and this turn so far.
LEMMA SentIsPaired ==
    ASSUME NEW kept \in Seq(Messages), Sendable(kept), NEW t \in Turns, NEW said, Saying(t, said),
           said[Len(said)].kind # "calls"
    PROVE  Talk!Paired(kept \o said)
<1> DEFINE ms == kept \o said
<1>1. said \in Seq(Messages) /\ said # <<>> /\ said[1].kind = "question" /\ Len(said) >= 1 /\ Chained(said)
  BY DEF Saying, Talk!Message
<1>2. ms \in Seq(Messages) /\ Len(ms) = Len(kept) + Len(said) /\ Len(kept) \in Nat /\ Len(said) \in Nat
      /\ (\A i \in 1 .. Len(kept) : ms[i] = kept[i])
      /\ \A i \in 1 .. Len(said) : ms[Len(kept) + i] = said[i]
  BY <1>1
<1> HIDE DEF ms
<1>3. ASSUME NEW i \in DOMAIN ms
      PROVE  /\ ms[i].kind = "results" => /\ i > 1 /\ ms[i - 1].kind = "calls"
                                          /\ ms[i - 1].of = ms[i].of /\ ms[i - 1].n = ms[i].n
             /\ ms[i].kind = "calls" => i < Len(ms) /\ ms[i + 1].kind = "results"
  <2>1. CASE i <= Len(kept)
    <3>1. i \in 1 .. Len(kept) /\ ms[i] = kept[i]
      BY <1>2, <2>1
    <3>2. /\ kept[i].kind = "results" => /\ i > 1 /\ kept[i - 1].kind = "calls"
                                         /\ kept[i - 1].of = kept[i].of /\ kept[i - 1].n = kept[i].n
          /\ kept[i].kind = "calls" => i < Len(kept) /\ kept[i + 1].kind = "results"
      BY <3>1 DEF Sendable, Talk!Paired
    <3>3. i > 1 => i - 1 \in 1 .. Len(kept) /\ ms[i - 1] = kept[i - 1]
      BY <1>2, <3>1
    <3>4. i < Len(kept) => i + 1 \in 1 .. Len(kept) /\ ms[i + 1] = kept[i + 1] /\ i < Len(ms)
      BY <1>2, <3>1
    <3> QED BY <3>1, <3>2, <3>3, <3>4
  <2>2. CASE i > Len(kept)
    <3> DEFINE j == i - Len(kept)
    <3>1. j \in 1 .. Len(said) /\ i = Len(kept) + j /\ ms[i] = said[j] /\ said[j] \in Messages
      BY <1>1, <1>2, <2>2
    <3>2. j > 1 => j - 1 \in 1 .. Len(said) - 1 /\ j - 1 \in 1 .. Len(said) /\ i - 1 = Len(kept) + (j - 1) /\ (j - 1) + 1 = j /\ i > 1
      BY <1>2, <2>2
    <3>3. j < Len(said) => j \in 1 .. Len(said) - 1 /\ j + 1 \in 1 .. Len(said) /\ i + 1 = Len(kept) + (j + 1) /\ i < Len(ms)
      BY <1>2, <2>2
    <3> HIDE DEF j
    <3>4. ASSUME ms[i].kind = "results"
          PROVE  /\ i > 1 /\ ms[i - 1].kind = "calls"
                 /\ ms[i - 1].of = ms[i].of /\ ms[i - 1].n = ms[i].n
      <4>1. j > 1
        BY <1>1, <3>1, <3>4
      <4> DEFINE k == j - 1
      <4>2. k \in 1 .. Len(said) - 1 /\ ms[i - 1] = said[k] /\ k + 1 = j /\ said[k] \in Messages /\ i > 1
        <5>1. ms[Len(kept) + (j - 1)] = said[j - 1] /\ said[j - 1] \in Messages
          <6> DEFINE l == j - 1
          <6>1. l \in 1 .. Len(said)
            BY <3>2, <4>1
          <6> HIDE DEF l
          <6>2. ms[Len(kept) + l] = said[l] /\ said[l] \in Messages
            BY <1>1, <1>2, <6>1
          <6> QED BY <6>2 DEF l
        <5> QED BY <3>2, <4>1, <5>1
      <4> HIDE DEF k
      <4>3. Talk!Follows(said[k], said[j])
        BY <1>1, <4>2 DEF Chained
      <4>4. said[k].kind \in Kinds
        BY <4>2 DEF Messages
      <4> QED BY <3>1, <3>4, <4>2, <4>3, <4>4 DEF Talk!Follows, Kinds
    <3>5. ASSUME ms[i].kind = "calls"
          PROVE  i < Len(ms) /\ ms[i + 1].kind = "results"
      <4>1. j < Len(said)
        BY <1>1, <1>2, <3>1, <3>5
      <4>2. Talk!Follows(said[j], said[j + 1])
        BY <1>1, <3>3, <4>1 DEF Chained
      <4> QED BY <1>2, <3>1, <3>3, <3>5, <4>1, <4>2 DEF Talk!Follows
    <3> QED BY <3>4, <3>5
  <2> QED BY <1>2, <2>1, <2>2
<1> QED BY <1>3 DEF Talk!Paired, ms

LEMMA TalkPaired == TalkInv => RequestsPaired
<1> SUFFICES ASSUME TalkInv, NEW t \in Turns, turn[t].pc = "calling"
             PROVE  /\ Talk!Paired(turn[t].kept \o turn[t].added)
                    /\ turn[t].added[Len(turn[t].added)].kind \in {"question", "results"}
                    /\ turn[t].added[1] = Talk!Message(t, "question", 0, 4)
  BY DEF RequestsPaired, Talk!RequestsPaired, Talk!At
<1>1. Spoken(t, turn[t]) /\ turn[t].kept \in Seq(Messages)
  BY DEF TalkInv, TalkTyped, TurnRows, AllSpoken
<1>2. Saying(t, turn[t].added) /\ Sendable(turn[t].kept) /\ turn[t].added[Len(turn[t].added)].kind \in {"question", "results"}
  BY <1>1 DEF Spoken
<1>3. Talk!Paired(turn[t].kept \o turn[t].added)
  BY <1>1, <1>2, SentIsPaired
<1> QED BY <1>2, <1>3 DEF Saying

LEMMA TalkWhole == TalkInv => TranscriptsWhole
<1> SUFFICES ASSUME TalkInv PROVE TranscriptsWhole
  OBVIOUS
<1>1. ASSUME NEW c \in Convs
      PROVE  LET ms == Talk!Transcript(c)
             IN  /\ {r.seq : r \in stored[c]} = 1 .. Talk!Cardinality(stored[c])
                 /\ ms # <<>> => ms[1].kind = "question" /\ ms[Len(ms)].kind = "answer"
                 /\ \A i \in 1 .. Len(ms) - 1 : Talk!Follows(ms[i], ms[i + 1])
  <2>1. PICK ms \in Seq(Messages) : stored[c] = Talk!Numbered(ms) /\ Whole(ms)
    BY DEF TalkInv, Stored
  <2>2. Talk!Transcript(c) = ms /\ Talk!Cardinality(stored[c]) = Len(ms)
    BY <2>1, TranscriptOf, AllRowsCounted
  <2>3. {r.seq : r \in Talk!Numbered(ms)} = 1 .. Len(ms)
    <3>1. \A i \in 1 .. Len(ms) : [seq |-> i, msg |-> ms[i]] \in Talk!Numbered(ms) /\ [seq |-> i, msg |-> ms[i]].seq = i
      BY DEF Talk!Numbered
    <3>2. \A x \in Talk!Numbered(ms) : x.seq \in 1 .. Len(ms)
      BY DEF Talk!Numbered
    <3> QED BY <3>1, <3>2
  <2> QED BY <2>1, <2>2, <2>3 DEF Whole, Chained
<1>2. \A t \in Turns : turn[t].pc = "done" => turn[t].conv \notin open \/ Talk!Rows(t) \subseteq stored[turn[t].conv]
  BY DEF TalkInv, Stored
<1> QED BY <1>1, <1>2 DEF TranscriptsWhole, Talk!TranscriptsWhole, Talk!At

LEMMA TalkSpends == TalkInv => SpendAndScreen
<1> SUFFICES ASSUME TalkInv, NEW t \in Turns
             PROVE  /\ turn[t].pc \in Talk!Over /\ turn[t].conv \in open /\ ~turn[t].gone /\ faults = 0 =>
                           \E r \in runs : r.turn = t /\ r.rounds = turn[t].rounds
                    /\ turn[t].pc = "done" /\ turn[t].stream => turn[t].screen \in {{"answer"}, {"words", "answer"}}
  BY DEF SpendAndScreen, Talk!SpendAndScreen, Talk!At
<1>1. turn[t].pc = "done" /\ turn[t].stream => turn[t].screen \in {{"answer"}, {"words", "answer"}}
  BY DEF TalkInv, AllSpoken, Spoken, Answered
<1>2. turn[t].pc \in Talk!Over /\ turn[t].conv \in open /\ ~turn[t].gone /\ faults = 0 =>
          \E r \in runs : r.turn = t /\ r.rounds = turn[t].rounds
  BY DEF TalkInv, Spent, Talk!Over
<1> QED BY <1>1, <1>2

LEMMA TalkAlways == Spec => []TalkInv
<1>1. Init => TalkInv
  BY TalkInit DEF Init
<1>2. TalkInv /\ [Next]_allVars => TalkInv'
  BY TalkStep, TalkStays DEF Next, allVars
<1> QED BY <1>1, <1>2, PTL DEF Spec

\* A conversation is whole turns, numbered without gaps, however many questions are
\* answered in it at once and whatever statements fail, and a turn reported as done is in
\* it: the numbers of a conversation are unique, so of two transactions that read the same
\* next number one inserts nothing (AppendMessages).
THEOREM TranscriptsStayWhole == Spec => []TranscriptsWhole
BY TalkAlways, TalkWhole, PTL

\* What a provider is sent has every call answered directly and ends with what the user
\* said or the tools answered, whatever of the history trimHistory stubs and drops, for
\* every budget.
THEOREM RequestsStayPaired == Spec => []RequestsPaired
BY TalkAlways, TalkPaired, PTL

\* A turn that is over is on record with what it cost, unless a statement failed, the
\* client left or the conversation is gone; what was shown of one that is done is its
\* answer, and of no attempt that was thrown away (RecordRun, EventRetract).
THEOREM SpendIsRecorded == Spec => []SpendAndScreen
BY TalkAlways, TalkSpends, PTL
-----------------------------------------------------------------------------
\* Conversations keep the promise of Transcripts.

AskedPcs == {"calling", "tools", "ended", "append", "insert", "inserted"}

\* The log is the sequence that is numbered.
LEMMA LogOf ==
    ASSUME NEW c \in Convs, NEW ms \in Seq(Messages), stored[c] = Talk!Numbered(ms)
    PROVE  Log[c] = ms
BY TranscriptOf DEF Log

LEMMA LogStays == ASSUME stored' = stored PROVE Log' = Log
<1>1. \A c \in Convs : Talk!Transcript(c)' = Talk!Transcript(c)
  BY DEF Talk!Transcript
<1> QED BY <1>1 DEF Log

\* A step of a turn changes the fate of no other.
LEMMA FatesPut ==
    ASSUME TalkInv, NEW t \in Turns, NEW r, Talk!Steps(t, r), r.conv \in Convs,
           NEW is, is = IF r.pc = "idle" THEN "unasked" ELSE IF r.pc = "done" THEN "told"
                        ELSE IF r.pc \in {"failed", "unsaved"} THEN "lost" ELSE "asked"
    PROVE  /\ Fates' = [Fates EXCEPT ![t] = [of |-> r.conv, is |-> is]]
           /\ turn'[t] = r /\ \A u \in Turns \ {t} : turn'[u] = turn[u]
<1>1. turn'[t] = r /\ \A u \in Turns \ {t} : turn'[u] = turn[u]
  BY DEF Talk!Steps, TalkInv, TalkTyped
<1>2. FateOf(t)' = [of |-> r.conv, is |-> is]
  BY <1>1 DEF FateOf
<1>3. \A u \in Turns \ {t} : FateOf(u)' = FateOf(u)
  BY <1>1 DEF FateOf
<1> QED BY <1>1, <1>2, <1>3 DEF Fates

\* What a turn is to its client while it talks and its record is written.
LEMMA FateAsked ==
    ASSUME TalkInv, NEW t \in Turns, turn[t].pc \in AskedPcs
    PROVE  Fates[t] = [of |-> turn[t].conv, is |-> "asked"] /\ turn[t].conv \in Convs /\ turn[t] \in TurnRows
<1>1. turn[t].conv \in Convs /\ turn[t] \in TurnRows
  BY DEF TalkInv, TalkTyped, AllSpoken, Spoken, AskedPcs
<1> QED BY <1>1 DEF Fates, FateOf, AskedPcs

\* A step from one stage to another is none to the client.
LEMMA StageStutters ==
    ASSUME TalkInv, NEW t \in Turns, NEW r, Talk!Steps(t, r), UNCHANGED <<open, stored>>,
           turn[t].pc \in AskedPcs, r.pc \in AskedPcs, r.conv = turn[t].conv
    PROVE  UNCHANGED Promise!vars
<1>1. Fates[t] = [of |-> turn[t].conv, is |-> "asked"] /\ turn[t].conv \in Convs
  BY FateAsked
<1> DEFINE is == "asked"
<1>2. is = IF r.pc = "idle" THEN "unasked" ELSE IF r.pc = "done" THEN "told"
           ELSE IF r.pc \in {"failed", "unsaved"} THEN "lost" ELSE "asked"
  BY DEF AskedPcs
<1>3. Fates' = [Fates EXCEPT ![t] = [of |-> r.conv, is |-> is]]
  BY <1>1, <1>2, FatesPut
<1>4. Fates' = Fates
  BY <1>1, <1>3 DEF Fates
<1> QED BY <1>4, LogStays DEF Promise!vars

\* A turn that fails is lost, and nothing of it is told.
LEMMA FailureLoses ==
    ASSUME TalkInv, NEW t \in Turns, NEW r, Talk!Steps(t, r), UNCHANGED <<open, stored>>,
           turn[t].pc \in AskedPcs, r.pc \in {"failed", "unsaved"}, r.conv = turn[t].conv
    PROVE  Promise!Lose(t)
<1>1. Fates[t] = [of |-> turn[t].conv, is |-> "asked"] /\ turn[t].conv \in Convs
  BY FateAsked
<1> DEFINE is == "lost"
<1>2. is = IF r.pc = "idle" THEN "unasked" ELSE IF r.pc = "done" THEN "told"
           ELSE IF r.pc \in {"failed", "unsaved"} THEN "lost" ELSE "asked"
  OBVIOUS
<1>3. Fates' = [Fates EXCEPT ![t] = [of |-> r.conv, is |-> is]]
  BY <1>1, <1>2, FatesPut
<1>4. Fates' = [Fates EXCEPT ![t].is = "lost"]
  <2>1. [Fates[t] EXCEPT !.is = "lost"] = [of |-> r.conv, is |-> is]
    BY <1>1
  <2>2. [Fates EXCEPT ![t].is = "lost"] = [Fates EXCEPT ![t] = [Fates[t] EXCEPT !.is = "lost"]]
    BY DEF Fates
  <2> HIDE DEF is
  <2> QED BY <1>3, <2>1, <2>2
<1>5. Log' = Log
  BY LogStays
<1> QED BY <1>1, <1>4, <1>5 DEF Promise!Lose

\* The rounds of a turn are nothing to its client but that it waits.
LEMMA TalkingStutters ==
    ASSUME TalkInv, NEW t \in Turns,
           \/ Talk!Unparsed(t) \/ Talk!ProviderFails(t) \/ Talk!UselessReply(t)
           \/ (\E n \in 1 .. MaxCalls : Talk!CallsTools(t, n))
           \/ Talk!StrayCall(t) \/ Talk!Answers(t) \/ Talk!RunTools(t) \/ Talk!Leave(t)
    PROVE  UNCHANGED Promise!vars
<1>1. turn[t].pc # "idle" => turn[t] \in TurnRows
  BY DEF TalkInv, TalkTyped
<1>2. CASE Talk!Unparsed(t)
  <2>1. PICK text \in Talk!Texts(t) :
            LET r == IF text THEN [turn[t] EXCEPT !.screen = Talk!Shown(turn[t], "attempt")] ELSE turn[t]
            IN  Talk!Steps(t, IF r.unparsed < MaxUnparsedRetries THEN Talk!Retried(r) ELSE Talk!Ends(r, TRUE))
    BY <1>2 DEF Talk!Unparsed
  <2> DEFINE s == IF text THEN [turn[t] EXCEPT !.screen = Talk!Shown(turn[t], "attempt")] ELSE turn[t]
             r == IF s.unparsed < MaxUnparsedRetries THEN Talk!Retried(s) ELSE Talk!Ends(s, TRUE)
  <2>2. turn[t].pc = "calling" /\ UNCHANGED <<open, stored>> /\ turn[t] \in TurnRows
    BY <1>1, <1>2 DEF Talk!Unparsed, Talk!At
  <2>3. s \in TurnRows /\ s.pc = "calling" /\ s.conv = turn[t].conv
    BY <2>2 DEF TurnRows, Talk!Shown
  <2>4. Talk!Steps(t, r)
    BY <2>1
  <2> HIDE DEF s
  <2>5. r.pc \in {"calling", "ended"} /\ r.conv = turn[t].conv
    BY <2>3 DEF TurnRows, Talk!Retried, Talk!Ends
  <2> HIDE DEF r
  <2> QED BY <2>2, <2>4, <2>5, StageStutters DEF AskedPcs
<1>3. CASE Talk!ProviderFails(t)
  <2>1. turn[t].pc = "calling" /\ UNCHANGED <<open, stored>> /\ turn[t] \in TurnRows /\ Talk!Steps(t, Talk!Ends(turn[t], TRUE))
    BY <1>1, <1>3 DEF Talk!ProviderFails, Talk!At
  <2>2. Talk!Ends(turn[t], TRUE).pc = "ended" /\ Talk!Ends(turn[t], TRUE).conv = turn[t].conv
    BY <2>1, EndsRow
  <2> QED BY <2>1, <2>2, StageStutters DEF AskedPcs
<1>4. CASE Talk!UselessReply(t)
  <2> DEFINE s == [turn[t] EXCEPT !.rounds = @ + 1]
  <2>1. turn[t].pc = "calling" /\ UNCHANGED <<open, stored>> /\ turn[t] \in TurnRows /\ Talk!Steps(t, Talk!Ends(s, TRUE))
    BY <1>1, <1>4 DEF Talk!UselessReply, Talk!At
  <2>2. s \in TurnRows /\ s.conv = turn[t].conv
    <3>1. turn[t].rounds + 1 \in Nat
      BY <2>1 DEF TurnRows
    <3> QED BY <2>1, <3>1 DEF TurnRows
  <2> HIDE DEF s
  <2>3. Talk!Ends(s, TRUE).pc = "ended" /\ Talk!Ends(s, TRUE).conv = turn[t].conv
    BY <2>2, EndsRow
  <2> QED BY <2>1, <2>3, StageStutters DEF AskedPcs
<1>5. ASSUME NEW n \in 1 .. MaxCalls, Talk!CallsTools(t, n) PROVE UNCHANGED Promise!vars
  <2>1. PICK text \in Talk!Texts(t) :
            Talk!Steps(t, [turn[t] EXCEPT !.pc = "tools", !.rounds = @ + 1, !.calls = n,
                                          !.screen = IF text THEN Talk!Shown(turn[t], "words") ELSE @,
                                          !.added = Append(@, Talk!Message(t, "calls", n, 4))])
    BY <1>5 DEF Talk!CallsTools
  <2> DEFINE screen == IF text THEN Talk!Shown(turn[t], "words") ELSE turn[t].screen
             added  == Append(turn[t].added, Talk!Message(t, "calls", n, 4))
             r == [turn[t] EXCEPT !.pc = "tools", !.rounds = @ + 1, !.calls = n, !.screen = screen, !.added = added]
  <2>2. turn[t].pc = "calling" /\ UNCHANGED <<open, stored>> /\ turn[t] \in TurnRows
    BY <1>1, <1>5 DEF Talk!CallsTools, Talk!At
  <2>3. Talk!Steps(t, r)
    BY <2>1
  <2> HIDE DEF screen, added
  <2>4. r.pc = "tools" /\ r.conv = turn[t].conv
    BY <2>2 DEF TurnRows
  <2> HIDE DEF r
  <2> QED BY <2>2, <2>3, <2>4, StageStutters DEF AskedPcs
<1>6. CASE Talk!StrayCall(t)
  <2> DEFINE added == Append(turn[t].added, Talk!Message(t, "calls", 1, 4))
             r == [turn[t] EXCEPT !.pc = "tools", !.rounds = @ + 1, !.calls = 1, !.screen = {}, !.added = added]
  <2>2. turn[t].pc = "calling" /\ UNCHANGED <<open, stored>> /\ turn[t] \in TurnRows /\ Talk!Steps(t, r)
    BY <1>1, <1>6 DEF Talk!StrayCall, Talk!At
  <2> HIDE DEF added
  <2>4. r.pc = "tools" /\ r.conv = turn[t].conv
    BY <2>2 DEF TurnRows
  <2> HIDE DEF r
  <2> QED BY <2>2, <2>4, StageStutters DEF AskedPcs
<1>7. CASE Talk!Answers(t)
  <2> DEFINE screen == Talk!Shown(turn[t], "answer")
             added  == Append(turn[t].added, Talk!Message(t, "answer", 0, 4))
             s == [turn[t] EXCEPT !.rounds = @ + 1, !.screen = screen, !.added = added]
             r == Talk!Ends(s, FALSE)
  <2>2. turn[t].pc = "calling" /\ UNCHANGED <<open, stored>> /\ turn[t] \in TurnRows /\ Talk!Steps(t, r)
    BY <1>1, <1>7 DEF Talk!Answers, Talk!At
  <2> HIDE DEF screen, added
  <2>4. r.pc = "ended" /\ r.conv = turn[t].conv
    BY <2>2 DEF TurnRows, Talk!Ends
  <2> HIDE DEF r
  <2> QED BY <2>2, <2>4, StageStutters DEF AskedPcs
<1>8. CASE Talk!RunTools(t)
  <2>1. PICK size \in Sizes :
            LET r == [turn[t] EXCEPT !.pc = "calling", !.round = @ + 1, !.calls = 0,
                                     !.added = Append(@, Talk!Message(t, "results", turn[t].calls, size))]
            IN  Talk!Steps(t, IF turn[t].gone THEN Talk!Ends(turn[t], TRUE)
                              ELSE IF r.round = MaxToolRounds THEN Talk!Ends(r, TRUE) ELSE r)
    BY <1>8 DEF Talk!RunTools
  <2> DEFINE added == Append(turn[t].added, Talk!Message(t, "results", turn[t].calls, size))
             s == [turn[t] EXCEPT !.pc = "calling", !.round = @ + 1, !.calls = 0, !.added = added]
             r == IF turn[t].gone THEN Talk!Ends(turn[t], TRUE) ELSE IF s.round = MaxToolRounds THEN Talk!Ends(s, TRUE) ELSE s
  <2>2. turn[t].pc = "tools" /\ UNCHANGED <<open, stored>> /\ turn[t] \in TurnRows
    BY <1>1, <1>8 DEF Talk!RunTools, Talk!At
  <2>3. Talk!Steps(t, r)
    BY <2>1
  <2> HIDE DEF added
  <2>4. r.pc \in {"calling", "ended"} /\ r.conv = turn[t].conv
    BY <2>2 DEF TurnRows, Talk!Ends
  <2> HIDE DEF r
  <2> QED BY <2>2, <2>3, <2>4, StageStutters DEF AskedPcs
<1>9. CASE Talk!Leave(t)
  <2> DEFINE r == [turn[t] EXCEPT !.gone = TRUE]
  <2>2. turn[t].pc \notin {"idle", "done", "failed", "unsaved"} /\ UNCHANGED <<open, stored>> /\ turn[t] \in TurnRows /\ Talk!Steps(t, r)
    BY <1>1, <1>9 DEF Talk!Leave
  <2>3. turn[t].pc \in AskedPcs
    BY <2>2 DEF TurnRows, AskedPcs
  <2>4. r.pc = turn[t].pc /\ r.conv = turn[t].conv
    BY <2>2 DEF TurnRows
  <2> HIDE DEF r
  <2> QED BY <2>2, <2>3, <2>4, StageStutters
<1> QED BY <1>2, <1>3, <1>4, <1>5, <1>6, <1>7, <1>8, <1>9

\* A question opens a conversation or continues one.
LEMMA QuestionAsks ==
    ASSUME TalkInv, NEW t \in Turns, NEW c \in Convs, Talk!SendMessage(t, c)
    PROVE  Promise!Ask(t, c)
<1>1. PICK stream \in BOOLEAN : Talk!Steps(t, Talk!Ask(t, c, stream))
  BY DEF Talk!SendMessage
<1>2. /\ turn[t].pc = "idle" /\ UNCHANGED <<stored, runs, faults>>
      /\ c \in open \/ \A u \in Turns : turn[u].conv # c
      /\ open' = open \cup {c}
  BY DEF Talk!SendMessage, Talk!resolveConversation, Talk!At
<1> DEFINE r == Talk!Ask(t, c, stream)
           is == "asked"
<1>3. r.pc = "calling" /\ r.conv = c
  BY DEF Talk!Ask, Talk!Idle
<1> HIDE DEF r
<1>4. is = IF r.pc = "idle" THEN "unasked" ELSE IF r.pc = "done" THEN "told"
           ELSE IF r.pc \in {"failed", "unsaved"} THEN "lost" ELSE "asked"
  BY <1>3
<1>5. Fates' = [Fates EXCEPT ![t] = [of |-> r.conv, is |-> is]]
  BY <1>1, <1>3, <1>4, FatesPut DEF r
<1>6. Fates[t].is = "unasked" /\ (c \in open \/ \A u \in Turns : Fates[u].of # c)
  BY <1>2 DEF Fates, FateOf
<1>7. Log' = Log
  BY <1>2, LogStays
<1> QED BY <1>2, <1>3, <1>5, <1>6, <1>7 DEF Promise!Ask

\* The record of what a turn cost is nothing to its client; one that failed is lost.
LEMMA RecordLoses ==
    ASSUME TalkInv, NEW t \in Turns, Talk!RecordRun(t)
    PROVE  Promise!Lose(t) \/ UNCHANGED Promise!vars
<1> DEFINE pc == IF turn[t].error THEN "failed" ELSE "append"
           r == [turn[t] EXCEPT !.pc = pc]
<1>1. turn[t].pc = "ended" /\ UNCHANGED <<open, stored>> /\ Talk!Steps(t, r)
  BY DEF Talk!RecordRun, Talk!At
<1>2. pc \in {"failed", "append"}
  OBVIOUS
<1> HIDE DEF pc
<1>3. turn[t] \in TurnRows
  BY DEF TalkInv, TalkTyped
<1>4. r.pc = pc /\ r.conv = turn[t].conv
  BY <1>3 DEF TurnRows
<1> HIDE DEF r
<1>5. CASE pc = "failed"
  BY <1>1, <1>4, <1>5, FailureLoses DEF AskedPcs
<1>6. CASE pc = "append"
  BY <1>1, <1>4, <1>6, StageStutters DEF AskedPcs
<1> QED BY <1>2, <1>5, <1>6

LEMMA UnsavedLoses ==
    ASSUME TalkInv, NEW t \in Turns, turn[t].pc \in AskedPcs, Talk!Unsaved(t)
    PROVE  Promise!Lose(t)
<1> DEFINE r == [turn[t] EXCEPT !.pc = "unsaved", !.next = 0]
<1>1. Talk!Steps(t, r) /\ UNCHANGED <<open, stored>>
  BY DEF Talk!Unsaved
<1>2. turn[t] \in TurnRows
  BY DEF TalkInv, TalkTyped
<1>3. r.pc = "unsaved" /\ r.conv = turn[t].conv
  BY <1>2 DEF TurnRows
<1> HIDE DEF r
<1> QED BY <1>1, <1>3, FailureLoses

LEMMA ReadNextLoses ==
    ASSUME TalkInv, NEW t \in Turns, Talk!ReadNext(t)
    PROVE  Promise!Lose(t) \/ UNCHANGED Promise!vars
<1> DEFINE n == 1 + Talk!Cardinality(stored[turn[t].conv])
           r == [turn[t] EXCEPT !.pc = "insert", !.next = n]
<1>1. /\ turn[t].pc = "append"
      /\ (Talk!Steps(t, r) /\ UNCHANGED <<open, stored, runs>>) \/ Talk!Unsaved(t)
  BY DEF Talk!ReadNext, Talk!At
<1>2. turn[t] \in TurnRows
  BY DEF TalkInv, TalkTyped
<1> HIDE DEF n
<1>3. r.pc = "insert" /\ r.conv = turn[t].conv
  BY <1>2 DEF TurnRows
<1> HIDE DEF r
<1>4. CASE Talk!Steps(t, r) /\ UNCHANGED <<open, stored, runs>>
  BY <1>1, <1>3, <1>4, StageStutters DEF AskedPcs
<1>5. CASE Talk!Unsaved(t)
  BY <1>1, <1>5, UnsavedLoses DEF AskedPcs
<1> QED BY <1>1, <1>4, <1>5

LEMMA InsertLoses ==
    ASSUME TalkInv, NEW t \in Turns, Talk!InsertMessages(t)
    PROVE  Promise!Lose(t) \/ UNCHANGED Promise!vars
<1> DEFINE r == [turn[t] EXCEPT !.pc = "inserted"]
<1>1. /\ turn[t].pc = "insert"
      /\ (Talk!Steps(t, r) /\ UNCHANGED <<open, stored, runs>>) \/ Talk!Unsaved(t)
  BY DEF Talk!InsertMessages, Talk!At
<1>2. turn[t] \in TurnRows
  BY DEF TalkInv, TalkTyped
<1>3. r.pc = "inserted" /\ r.conv = turn[t].conv
  BY <1>2 DEF TurnRows
<1> HIDE DEF r
<1>4. CASE Talk!Steps(t, r) /\ UNCHANGED <<open, stored, runs>>
  BY <1>1, <1>3, <1>4, StageStutters DEF AskedPcs
<1>5. CASE Talk!Unsaved(t)
  BY <1>1, <1>5, UnsavedLoses DEF AskedPcs
<1> QED BY <1>1, <1>4, <1>5

\* In a sequence of one turn that ends with its answer only the end is an answer.
LEMMA AnswerEnds ==
    ASSUME NEW t \in Turns, NEW said, Saying(t, said), NEW i \in 1 .. Len(said) - 1
    PROVE  /\ said[i].kind \in {"question", "calls", "results"}
           /\ said[i].kind \in {"question", "results"} => said[i + 1].kind \in {"calls", "answer"}
           /\ said[i].kind = "calls" => said[i + 1].kind = "results" /\ said[i + 1].n = said[i].n
<1>1. Talk!Follows(said[i], said[i + 1])
  BY DEF Saying, Chained
<1>2. i \in DOMAIN said /\ i + 1 \in DOMAIN said
  BY DEF Saying
<1>3. said[i].of = t /\ said[i + 1].of = t /\ said[i] \in Messages
  BY <1>2 DEF Saying
<1> QED BY <1>1, <1>3 DEF Talk!Follows, Messages, Kinds

\* What a turn has said when it is answered is a whole turn: calls and results alternate.
LEMMA SaidIsWhole ==
    ASSUME NEW t \in Turns, NEW said, Saying(t, said), said[Len(said)].kind = "answer"
    PROVE  Promise!WholeTurn(t, said)
<1>1. said \in Seq(Messages) /\ said # <<>> /\ said[1].kind = "question" /\ \A i \in DOMAIN said : said[i].of = t
  BY DEF Saying, Talk!Message
<1>2. Len(said) >= 2
  BY <1>1
<1> DEFINE Kind(i) == IF i % 2 = 0 THEN "calls" ELSE "results"
           odd == {i \in 2 .. Len(said) - 1 : said[i].kind # Kind(i)}
<1>3. odd = {}
  <2> SUFFICES ASSUME odd # {} PROVE FALSE
    OBVIOUS
  <2>1. odd \in SUBSET Nat
    BY <1>1
  <2>2. PICK i \in odd : \A j \in odd : i <= j
    BY <2>1, Least
  <2>3. i \in 2 .. Len(said) - 1 /\ said[i].kind # Kind(i) /\ Len(said) \in Nat
    BY <1>1, <2>2
  <2> DEFINE j == i - 1
  <2>4. j \in 1 .. Len(said) - 1 /\ j + 1 = i /\ j \notin odd
    BY <2>1, <2>2, <2>3
  <2>5. j = 1 \/ said[j].kind = Kind(j)
    BY <2>4
  <2> HIDE DEF odd, j
  <2>6. said[i].kind \in {"question", "calls", "results"}
    BY <2>3, AnswerEnds
  <2>7. /\ said[j].kind \in {"question", "results"} => said[i].kind \in {"calls", "answer"}
        /\ said[j].kind = "calls" => said[i].kind = "results"
    BY <2>4, AnswerEnds
  <2>8. CASE j = 1
    <3>1. i % 2 = 0
      BY <2>4, <2>8
    <3> QED BY <1>1, <2>3, <2>6, <2>7, <2>8, <3>1
  <2>9. CASE j % 2 = 0 /\ said[j].kind = "calls"
    <3>1. i % 2 # 0
      BY <2>4, <2>9
    <3> QED BY <2>3, <2>7, <2>9, <3>1
  <2>10. CASE j % 2 # 0 /\ said[j].kind = "results"
    <3>1. i % 2 = 0
      BY <2>4, <2>10
    <3> QED BY <2>3, <2>6, <2>7, <2>10, <3>1
  <2> QED BY <2>5, <2>8, <2>9, <2>10
<1>4. \A i \in 2 .. Len(said) - 1 : said[i].kind = Kind(i)
  BY <1>3
<1> HIDE DEF odd, Kind
<1>5. ASSUME NEW i \in 2 .. Len(said) - 1, said[i].kind = "calls"
      PROVE  i + 1 < Len(said) /\ said[i + 1].n = said[i].n
  <2>1. i \in 1 .. Len(said) - 1 /\ Len(said) \in Nat
    BY <1>1
  <2>2. said[i + 1].kind = "results" /\ said[i + 1].n = said[i].n
    BY <1>5, <2>1, AnswerEnds
  <2>3. i + 1 # Len(said)
    BY <2>2
  <2> QED BY <2>1, <2>2, <2>3
<1> QED BY <1>1, <1>2, <1>4, <1>5 DEF Promise!WholeTurn, Kind

\* What a transaction adds to its conversation is one sequence on the end of another.
LEMMA CommitAdds ==
    ASSUME TalkInv, NEW t \in Turns, turn[t].pc = "inserted", NEW c, c = turn[t].conv,
           stored' = [stored EXCEPT ![c] = @ \cup Talk!Rows(t)]
    PROVE  /\ Saying(t, turn[t].added) /\ turn[t].added[Len(turn[t].added)].kind = "answer" /\ c \in open
           /\ Log[c] \in Seq(Messages) /\ Log' = [Log EXCEPT ![c] = Log[c] \o turn[t].added]
<1> DEFINE n == turn[t].next
           said == turn[t].added
<1>1. n \in Nat /\ c \in Convs /\ Saying(t, said) /\ said[Len(said)].kind = "answer"
  BY SameNext DEF TalkInv, AllSpoken, Spoken, Answered
<1>2. c \in open
  BY DEF TalkInv, Storing
<1>3. PICK was \in Seq(Messages) : stored[c] = Talk!Numbered(was)
  BY <1>1 DEF TalkInv, Stored
<1>4. n = Len(was) + 1
  <2>1. n > 0 /\ ~Talk!Taken(c, n) /\ \A k \in 1 .. n - 1 : Talk!Taken(c, k)
    BY DEF TalkInv, Storing
  <2>2. \A k : Talk!Taken(c, k) <=> k \in 1 .. Len(was)
    <3>1. \A i \in 1 .. Len(was) : [seq |-> i, msg |-> was[i]] \in stored[c]
      BY <1>3 DEF Talk!Numbered
    <3>2. \A x \in stored[c] : x.seq \in 1 .. Len(was)
      BY <1>3 DEF Talk!Numbered
    <3> QED BY <3>1, <3>2 DEF Talk!Taken
  <2> HIDE DEF n
  <2>3. n \notin 1 .. Len(was) /\ (n > 1 => n - 1 \in 1 .. Len(was)) /\ Len(was) \in Nat
    BY <1>1, <2>1, <2>2
  <2> QED BY <1>1, <2>1, <2>3
<1>5. said \in Seq(Messages)
  BY <1>1 DEF Saying
<1>6. stored[c] \cup Talk!Rows(t) = Talk!Numbered(was \o said)
  <2>1. Talk!Rows(t) = {[seq |-> n + i - 1, msg |-> said[i]] : i \in DOMAIN said}
    BY DEF Talk!Rows
  <2> HIDE DEF n, said
  <2> QED BY <1>3, <1>4, <1>5, <2>1, NumberedJoin
<1> HIDE DEF n, said
<1>7. stored'[c] = Talk!Numbered(was \o said) /\ \A d \in Convs \ {c} : stored'[d] = stored[d]
  BY <1>1, <1>6 DEF TalkInv, TalkTyped
<1>8. Talk!Transcript(c) = was
  BY <1>3, TranscriptOf
<1> DEFINE now == was \o said
<1>s. now \in Seq(Messages) /\ stored'[c] = Talk!Numbered(now)
  BY <1>5, <1>7
<1>9. Talk!Transcript(c)' = now
  <2> HIDE DEF now
  <2> QED BY <1>s, ToldIsNumbered, TranscriptTold
<1>10. \A d \in Convs \ {c} : Talk!Transcript(d)' = Talk!Transcript(d)
  BY <1>7, TranscriptTold
<1> HIDE DEF now
<1>11. Log[c] = was /\ Log' = [Log EXCEPT ![c] = now]
  BY <1>1, <1>8, <1>9, <1>10 DEF Log
<1> QED BY <1>1, <1>2, <1>11 DEF said, now

\* What is put behind a sequence is its end.
LEMMA EndOfBoth ==
    ASSUME NEW S, NEW was \in Seq(S), NEW said \in Seq(S)
    PROVE  SubSeq(was \o said, Len(was) + 1, Len(was \o said)) = said
<1> DEFINE both == was \o said
           end  == SubSeq(both, Len(was) + 1, Len(both))
<1>1. Len(was) \in Nat /\ Len(said) \in Nat
  OBVIOUS
<1>2. both \in Seq(S) /\ Len(both) = Len(was) + Len(said)
  OBVIOUS
<1>3. \A i \in 1 .. Len(said) : both[Len(was) + i] = said[i]
  OBVIOUS
<1> HIDE DEF both
<1>4. end \in Seq(S) /\ Len(end) = Len(said) /\ \A i \in 1 .. Len(said) : end[i] = both[Len(was) + i]
  BY <1>1, <1>2
<1> HIDE DEF end
<1>5. \A i \in 1 .. Len(said) : end[i] = said[i]
  BY <1>3, <1>4
<1>6. end = said
  BY <1>4, <1>5
<1> QED
  BY <1>6 DEF end, both

\* A transaction that commits tells the turn, on the end of what is said then.
LEMMA CommitTells ==
    ASSUME TalkInv, NEW t \in Turns, Talk!Commit(t)
    PROVE  Promise!Tell(t) \/ Promise!Lose(t)
<1> PICK c : c = turn[t].conv
  OBVIOUS
<1> DEFINE r == [turn[t] EXCEPT !.pc = "done"]
           is == "told"
<1>1. turn[t].pc = "inserted"
  BY DEF Talk!Commit, Talk!At
<1>2. turn[t] \in TurnRows /\ Fates[t] = [of |-> c, is |-> "asked"] /\ c \in Convs
  BY <1>1, FateAsked DEF AskedPcs
<1>3. CASE Talk!Unsaved(t)
  BY <1>1, <1>3, UnsavedLoses DEF AskedPcs
<1>4. CASE stored' = [stored EXCEPT ![c] = @ \cup Talk!Rows(t)] /\ Talk!Steps(t, r) /\ UNCHANGED <<open, runs>>
  <2>1. Saying(t, turn[t].added) /\ turn[t].added[Len(turn[t].added)].kind = "answer" /\ c \in open
    BY <1>1, <1>4, CommitAdds
  <2>2. Log[c] \in Seq(Messages) /\ Log' = [Log EXCEPT ![c] = Log[c] \o turn[t].added]
    BY <1>1, <1>4, CommitAdds
  <2> PICK was \in Seq(Messages) : was = Log[c]
    BY <2>2
  <2>3. r.pc = "done" /\ r.conv = c
    BY <1>2 DEF TurnRows
  <2> HIDE DEF r
  <2>4. is = IF r.pc = "idle" THEN "unasked" ELSE IF r.pc = "done" THEN "told"
             ELSE IF r.pc \in {"failed", "unsaved"} THEN "lost" ELSE "asked"
    BY <2>3
  <2>5. Fates' = [Fates EXCEPT ![t] = [of |-> r.conv, is |-> is]]
    BY <1>2, <1>4, <2>3, <2>4, FatesPut
  <2>6. Fates' = [Fates EXCEPT ![t].is = "told"]
    <3>1. [Fates[t] EXCEPT !.is = "told"] = [of |-> r.conv, is |-> is]
      BY <1>2, <2>3
    <3>2. [Fates EXCEPT ![t].is = "told"] = [Fates EXCEPT ![t] = [Fates[t] EXCEPT !.is = "told"]]
      BY DEF Fates
    <3> HIDE DEF is
    <3> QED BY <2>5, <3>1, <3>2
  <2> DEFINE said == turn[t].added
  <2>7. said \in Seq(Messages)
    BY <2>1 DEF Saying
  <2> HIDE DEF said
  <2>8. Log'[c] = was \o said /\ Log' = [Log EXCEPT ![c] = Log[c] \o said] /\ Log[c] = was
    BY <1>2, <2>2 DEF Log, said
  <2>9. SubSeq(Log'[c], Len(Log[c]) + 1, Len(Log'[c])) = said
    <3>1. SubSeq(was \o said, Len(was) + 1, Len(was \o said)) = said
      BY <2>7, EndOfBoth
    <3> QED BY <2>8, <3>1
  <2>10. Promise!Added(c) = said
    BY <2>9 DEF Promise!Added
  <2>11. Promise!WholeTurn(t, said)
    BY <2>1, SaidIsWhole DEF said
  <2> HIDE DEF is
  <2>12. Fates[t].of = c /\ Fates[t].is = "asked"
    BY <1>2
  <2> QED BY <1>4, <2>1, <2>6, <2>8, <2>10, <2>11, <2>12 DEF Promise!Tell
<1> QED BY <1>3, <1>4 DEF Talk!Commit

LEMMA DeletionDeletes ==
    ASSUME TalkInv, NEW c \in Convs, Talk!DeleteConversation(c)
    PROVE  Promise!Delete(c)
<1>1. c \in open /\ open' = open \ {c} /\ stored' = [stored EXCEPT ![c] = {}] /\ UNCHANGED turn
  BY DEF Talk!DeleteConversation
<1>2. Fates' = Fates
  BY <1>1 DEF Fates, FateOf
<1>3. stored'[c] = Talk!Numbered(<<>>) /\ \A d \in Convs \ {c} : stored'[d] = stored[d]
  BY <1>1, EmptyIsWhole DEF TalkInv, TalkTyped
<1>4. Talk!Transcript(c)' = <<>>
  BY <1>3, EmptyIsWhole, ToldIsNumbered, TranscriptTold
<1>5. \A d \in Convs \ {c} : Talk!Transcript(d)' = Talk!Transcript(d)
  BY <1>3, TranscriptTold
<1>6. Log' = [Log EXCEPT ![c] = <<>>]
  BY <1>4, <1>5 DEF Log
<1> QED BY <1>1, <1>2, <1>6 DEF Promise!Delete

LEMMA PromiseStep == TalkInv /\ Talk!Next => [Promise!Next]_(Promise!vars)
<1> SUFFICES ASSUME TalkInv, Talk!Next PROVE Promise!Next \/ UNCHANGED Promise!vars
  OBVIOUS
<1>1. ASSUME NEW t \in Turns, NEW c \in Convs, Talk!SendMessage(t, c) PROVE Promise!Next
  BY <1>1, QuestionAsks DEF Promise!Next
<1>2. ASSUME NEW t \in Turns, Talk!RecordRun(t) \/ Talk!ReadNext(t) \/ Talk!InsertMessages(t)
      PROVE  Promise!Next \/ UNCHANGED Promise!vars
  BY <1>2, RecordLoses, ReadNextLoses, InsertLoses DEF Promise!Next
<1>3. ASSUME NEW t \in Turns, Talk!Commit(t) PROVE Promise!Next
  BY <1>3, CommitTells DEF Promise!Next
<1>4. ASSUME NEW c \in Convs, Talk!DeleteConversation(c) PROVE Promise!Next
  BY <1>4, DeletionDeletes DEF Promise!Next
<1> QED BY <1>1, <1>2, <1>3, <1>4, TalkingStutters DEF Talk!Next

LEMMA PromiseStays == UNCHANGED talkVars => UNCHANGED Promise!vars
<1> SUFFICES ASSUME UNCHANGED talkVars PROVE UNCHANGED Promise!vars
  OBVIOUS
<1>1. UNCHANGED <<open, stored, turn>>
  BY DEF talkVars
<1>2. Log' = Log /\ Fates' = Fates
  BY <1>1, LogStays DEF Fates, FateOf
<1> QED BY <1>1, <1>2 DEF Promise!vars

LEMMA PromiseInit == Talk!Init => Promise!Init
<1> SUFFICES ASSUME Talk!Init PROVE Promise!Init
  OBVIOUS
<1>1. ASSUME NEW c \in Convs
      PROVE  Log[c] \in NewOrOneTurn /\ (Log[c] # <<>> <=> stored[c] # {})
  <2>1. PICK ms \in NewOrOneTurn : stored[c] = Talk!Numbered(ms)
    BY DEF Talk!Init
  <2>2. ms \in Seq(Messages)
    BY PastsAreWhole
  <2>3. Log[c] = ms
    BY <2>1, <2>2, LogOf
  <2>4. ms # <<>> => [seq |-> 1, msg |-> ms[1]] \in Talk!Numbered(ms)
    BY <2>2 DEF Talk!Numbered
  <2> QED BY <2>1, <2>3, <2>4, EmptyIsWhole
<1>2. Log \in [Convs -> NewOrOneTurn] /\ open = {c \in Convs : Log[c] # <<>>}
  BY <1>1 DEF Log, Talk!Init
<1>3. \A t \in Turns : FateOf(t) = [of |-> NoConv, is |-> "unasked"]
  BY DEF FateOf, Talk!Init, Talk!Idle
<1>4. Fates = [t \in Turns |-> [of |-> NoConv, is |-> "unasked"]]
  BY <1>3 DEF Fates
<1> QED BY <1>2, <1>4 DEF Promise!Init

\* A turn of any number of rounds, tools and retries, and its transaction in steps among
\* others', is one answer to those who talk to the assistant: it is told once and whole, on
\* the end of what its conversation says at that moment, or nothing of it ever is; what
\* was said stays, and a conversation goes as a whole (runTurn, AppendMessages).
THEOREM ImplementsTranscripts == Spec => KeepsTranscripts
<1>1. Init => Promise!Init
  BY PromiseInit DEF Init
<1>2. TalkInv /\ [Next]_allVars => [Promise!Next]_(Promise!vars)
  BY PromiseStep, PromiseStays DEF Next, allVars
<1> QED BY <1>1, <1>2, TalkAlways, PTL DEF Spec, KeepsTranscripts, Promise!Spec
=============================================================================
