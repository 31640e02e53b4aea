------------------------------ MODULE Sessions ------------------------------
\* Credentials: sign-in and rotating refresh tokens, personal access tokens and the
\* tokens of KiCad workstations, and the checks on a request (handlers/auth.go,
\* tokens.go, kicad_httplib.go, repository/token.go, kicad_library_token.go,
\* middleware/auth.go, kicad_auth.go).
\*
\* Every statement stands alone: a token that was looked up may be revoked, and its
\* user disabled, before the next one.
EXTENDS Naturals, FiniteSets

CONSTANTS Users, Tokens,    \* ids; a token is minted once
          Procs,            \* requests, each served once
          NoToken

VARIABLES token,      \* kind, state, owner and, of a refresh token, the sign-in it goes back to
          account,    \* of each user: "active", "disabled" or "gone"
          library,    \* kicad_library.enabled
          proc,
          ended,      \* sign-ins whose user has logged out
          crossed     \* sign-ins that were refreshed by two at a time, or not revoked

vars == <<token, account, library, proc, ended, crossed>>

Absent == [kind |-> "none", state |-> "none", of |-> NoToken]
Idle   == [pc |-> "idle", user |-> "none", token |-> NoToken, of |-> NoToken,
           route |-> "none", dead |-> FALSE]

Init == /\ token = [t \in Tokens |-> Absent] /\ account \in [Users -> {"active", "gone"}]
        /\ library \in BOOLEAN /\ proc = [p \in Procs |-> Idle] /\ ended = {} /\ crossed = {}

Minted(kind) == {t \in Tokens : token[t].kind = kind}
Fresh        == {t \in Tokens : token[t] = Absent}
Live(t)      == token[t].state = "live"
Finish(p)    == proc' = [proc EXCEPT ![p].pc = "done"]
SessionsUnchanged == UNCHANGED <<ended, crossed>>
WorldUnchanged    == UNCHANGED <<account, library>>

Mint(t, kind, owner, of) ==
    token' = [token EXCEPT ![t] = [kind |-> kind, state |-> "live", owner |-> owner, of |-> of]]
SetState(t, state) == token' = [token EXCEPT ![t].state = state]

-----------------------------------------------------------------------------
\* Sign-in and refresh.

Login(p) ==
    /\ proc[p].pc = "idle"
    /\ \E u \in Users : /\ account[u] = "active"
                        /\ proc' = [proc EXCEPT ![p] = [Idle EXCEPT !.pc = "issue", !.user = u]]
    /\ WorldUnchanged /\ SessionsUnchanged /\ UNCHANGED token

LookupRefreshToken(t) == t \in Minted("refresh") /\ Live(t)

BeginRefresh(p) ==
    /\ proc[p].pc = "idle"
    /\ \E t \in Tokens :
           /\ LookupRefreshToken(t)
           /\ proc' = [proc EXCEPT ![p] = [Idle EXCEPT !.pc = "rotate", !.user = token[t].owner,
                                                       !.token = t, !.of = token[t].of]]
    /\ WorldUnchanged /\ SessionsUnchanged /\ UNCHANGED token

BadRevokeRefreshToken(t) == UNCHANGED token
RevokeRefreshToken(t)    == token' = IF Live(t) THEN [token EXCEPT ![t].state = "revoked"] ELSE token

Open(s) == {o \in Procs : proc[o].pc \in {"rotate", "load", "issue"} /\ proc[o].of = s}

\* The error of the revocation is dropped.
Rotate(p) ==
    /\ proc[p].pc = "rotate"
    /\ proc' = [proc EXCEPT ![p].pc = "load"]
    /\ \/ RevokeRefreshToken(proc[p].token)
          /\ crossed' = crossed \cup IF Open(proc[p].of) = {p} THEN {} ELSE {proc[p].of}
       \/ UNCHANGED token /\ crossed' = crossed \cup {proc[p].of}
    /\ WorldUnchanged /\ UNCHANGED ended

LoadUser(p) ==
    /\ proc[p].pc = "load"
    /\ proc' = [proc EXCEPT ![p].pc = IF account[proc[p].user] = "active" THEN "issue" ELSE "done"]
    /\ WorldUnchanged /\ SessionsUnchanged /\ UNCHANGED token

\* A user who is gone has no tokens.
IssueTokens(p) ==
    /\ proc[p].pc = "issue" /\ Finish(p)
    /\ IF account[proc[p].user] = "gone" THEN UNCHANGED token
       ELSE \E t \in Fresh : Mint(t, "refresh", proc[p].user, IF proc[p].of = NoToken THEN t ELSE proc[p].of)
    /\ WorldUnchanged /\ SessionsUnchanged

\* The presented token and no other; that a refresh of it is on its way is not seen.
Logout(p) ==
    /\ proc[p].pc = "idle" /\ Finish(p)
    /\ \E t \in Minted("refresh") :
           /\ RevokeRefreshToken(t)
           /\ ended' = ended \cup IF Live(t) THEN {token[t].of} ELSE {}
           /\ crossed' = crossed \cup IF Open(token[t].of) = {} THEN {} ELSE {token[t].of}
    /\ WorldUnchanged

Expire(t) ==
    /\ t \in Minted("refresh") \cup Minted("pat") /\ Live(t) /\ SetState(t, "expired")
    /\ WorldUnchanged /\ SessionsUnchanged /\ UNCHANGED proc

-----------------------------------------------------------------------------
\* Tokens that are minted by hand. The creator of a workstation's is only a note.

CreatePAT(t, u)   == Mint(t, "pat", u, NoToken)
CreateKicad(t, u) == Mint(t, "kicad", u, NoToken)

Create(p) ==
    /\ proc[p].pc = "idle" /\ Finish(p)
    /\ \E t \in Fresh, u \in Users : /\ account[u] = "active"
                                     /\ CreatePAT(t, u) \/ CreateKicad(t, u)
    /\ WorldUnchanged /\ SessionsUnchanged

\* Its owner's, and live, or expired; of a workstation any.
RevokePAT(t)   == t \in Minted("pat") /\ token[t].state \in {"live", "expired"}
RevokeKicad(t) == t \in Minted("kicad") /\ token[t].state \in {"live", "revoked"}

Revoke(p) ==
    /\ proc[p].pc = "idle" /\ Finish(p)
    /\ \E t \in Tokens : (RevokePAT(t) \/ RevokeKicad(t)) /\ SetState(t, "revoked")
    /\ WorldUnchanged /\ SessionsUnchanged

\* A live one must be revoked before it can be deleted.
DeletePAT(t)   == t \in Minted("pat") /\ token[t].state = "revoked"
DeleteKicad(t) == t \in Minted("kicad") /\ token[t].state = "revoked"

Purge(p) ==
    /\ proc[p].pc = "idle" /\ Finish(p)
    /\ \E t \in Tokens : (DeletePAT(t) \/ DeleteKicad(t)) /\ SetState(t, "purged")
    /\ WorldUnchanged /\ SessionsUnchanged

-----------------------------------------------------------------------------
\* A request with a token: which scheme, is it live, is its user there.

LookupPAT(t)   == t \in Minted("pat") /\ Live(t)
LookupKicad(t) == t \in Minted("kicad") /\ Live(t)

\* dead: it was of no use any more when the request came.
Arrive(p) ==
    /\ proc[p].pc = "idle"
    /\ \E t \in Tokens \ Fresh, route \in {"api", "kicad"} :
           proc' = [proc EXCEPT ![p] = [Idle EXCEPT !.pc = route, !.token = t, !.route = route, !.dead = ~Live(t)]]
    /\ WorldUnchanged /\ SessionsUnchanged /\ UNCHANGED token

\* Bearer, for the API. A refresh token is no credential here, nor is a workstation's.
Authenticate(p) ==
    /\ proc[p].pc = "api"
    /\ proc' = IF LookupPAT(proc[p].token)
               THEN [proc EXCEPT ![p].pc = "user", ![p].user = token[proc[p].token].owner]
               ELSE [proc EXCEPT ![p].pc = "done"]
    /\ WorldUnchanged /\ SessionsUnchanged /\ UNCHANGED token

RequireUser(p) ==
    /\ proc[p].pc = "user"
    /\ proc' = [proc EXCEPT ![p].pc = IF account[proc[p].user] = "active" THEN "served" ELSE "done"]
    /\ WorldUnchanged /\ SessionsUnchanged /\ UNCHANGED token

\* Token, for KiCad: first whether the library is on; then the token, of nobody.
RequireKicad(p) ==
    /\ proc[p].pc = "kicad"
    /\ proc' = [proc EXCEPT ![p].pc = IF library /\ LookupKicad(proc[p].token) THEN "served" ELSE "done"]
    /\ WorldUnchanged /\ SessionsUnchanged /\ UNCHANGED token

-----------------------------------------------------------------------------
\* Meanwhile.

SetActive ==
    /\ \E u \in Users, s \in {"active", "disabled"} : /\ account[u] \notin {"gone", s}
                                                      /\ account' = [account EXCEPT ![u] = s]
    /\ SessionsUnchanged /\ UNCHANGED <<token, library, proc>>

\* With the tokens of the user, but for those of workstations.
DeleteUser ==
    /\ \E u \in Users :
           /\ account[u] # "gone" /\ account' = [account EXCEPT ![u] = "gone"]
           /\ token' = [t \in Tokens |-> IF token[t].kind \in {"refresh", "pat"} /\ token[t].owner = u
                                         THEN [token[t] EXCEPT !.state = "purged"] ELSE token[t]]
    /\ SessionsUnchanged /\ UNCHANGED <<library, proc>>

SwitchLibrary == library' = ~library /\ SessionsUnchanged /\ UNCHANGED <<token, account, proc>>

Request(p) ==
    \/ Login(p) \/ BeginRefresh(p) \/ Rotate(p) \/ LoadUser(p) \/ IssueTokens(p) \/ Logout(p)
    \/ Create(p) \/ Revoke(p) \/ Purge(p)
    \/ Arrive(p) \/ Authenticate(p) \/ RequireUser(p) \/ RequireKicad(p)

Next == \/ \E p \in Procs : Request(p)
        \/ \E t \in Tokens : Expire(t)
        \/ SetActive \/ DeleteUser \/ SwitchLibrary

Spec == Init /\ [][Next]_vars

-----------------------------------------------------------------------------
\* The tokens of a sign-in that still work.
Working(s) == {t \in Minted("refresh") : Live(t) /\ token[t].of = s}
Rotated(s) == {p \in Open(s) : proc[p].pc # "rotate"}

\* A sign-in has one refresh token, or one on its way, at a time, and none after its user has logged out
\* ("revoke the presented token so it can't be replayed", Refresh), unless two requests
\* with its token met, or the database did not take the revocation.
OneTokenEach ==
    \A s \in Tokens \ crossed : /\ Cardinality(Working(s)) + Cardinality(Rotated(s)) <= 1
                                /\ s \in ended => Working(s) = {}

\* A request that came after its token was revoked, purged or had expired is not served,
\* and each kind of token serves its own routes only.
DeadAreRefused ==
    \A p \in Procs : proc[p].pc = "served" =>
        /\ ~proc[p].dead
        /\ token[proc[p].token].kind = IF proc[p].route = "kicad" THEN "kicad" ELSE "pat"

\* No interleaving of requests gives a credential more than it is for, but those.
SessionsEnd == OneTokenEach /\ DeadAreRefused
=============================================================================
