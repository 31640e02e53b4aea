------------------------------ MODULE Accounts ------------------------------
\* User administration: registration, the administrator's changes to accounts,
\* and passwords (handlers/auth.go, handlers/users.go, repository/user.go,
\* middleware/auth.go).
\*
\* Every handler is a sequence of single statements on the users table, with no
\* transaction around them: what one statement read may no longer hold when the
\* next one runs.
EXTENDS Naturals

CONSTANTS Users,                \* ids of accounts, each used at most once
          NoUser,               \* stands for none of them
          Requests,             \* requests, each served once
          RegistrationEnabled   \* REGISTRATION_ENABLED

ASSUME UserAssumption == NoUser \notin Users
ASSUME RegistrationAssumption == RegistrationEnabled \in BOOLEAN

Roles == {"admin", "member", "viewer"}

VARIABLES role,       \* of each account; "none" before it exists, "deleted" after
          active,     \* is_active
          password,   \* which password it has: the number of times it was set
          req,        \* what each request does and how far it is
          crossed     \* requests whose reading another one's write has overtaken

vars == <<role, active, password, req, crossed>>

\* Names that begin with Bad are plausible bugs. Nothing uses them: put in the
\* place of the definition after them, they break a property.
BadExists(u) == role[u] # "none"

Exists(u)    == role[u] \in Roles
ActiveAdmins == {u \in Users : role[u] = "admin" /\ active[u]}
Accounts     == {u \in Users : Exists(u)}

Ops == {"none", "register", "create", "update", "delete", "reset", "change"}
Pcs == {"idle", "insert", "load", "guard", "write", "done"}

\* role and active are what an update asks for, seen what the handler read of
\* the target (its role, or its password for a change).
RequestRecord ==
    [op : Ops, pc : Pcs, target : Users \cup {NoUser},
     role : Roles, active : BOOLEAN,
     seenRole : Roles \cup {"none"}, seenPassword : Nat,
     reply : {"none", "ok", "refused", "last admin"}]

Request == {q \in RequestRecord :
                q.pc \in {"load", "guard", "write"} => q.target \in Users}

NewRequest == [op |-> "none", pc |-> "idle", target |-> NoUser,
               role |-> "member", active |-> FALSE,
               seenRole |-> "none", seenPassword |-> 0, reply |-> "none"]

TypeOK ==
    /\ role \in [Users -> Roles \cup {"none", "deleted"}]
    /\ active \in [Users -> BOOLEAN]
    /\ password \in [Users -> Nat]
    /\ req \in [Requests -> Request]
    /\ crossed \in SUBSET Requests

\* A fresh instance, or one with some accounts and an active administrator.
Init ==
    /\ role \in [Users -> Roles \cup {"none"}]
    /\ active \in [Users -> BOOLEAN]
    /\ \A u \in Users : role[u] = "none" => ~active[u]
    /\ Accounts # {} => ActiveAdmins # {}
    /\ password = [u \in Users |-> 0]
    /\ req = [r \in Requests |-> NewRequest]
    /\ crossed = {}

Become(r, q) == req' = [req EXCEPT ![r] = q]

Goto(r, pc) == Become(r, [req[r] EXCEPT !.pc = pc])

Answer(r, reply) == Become(r, [NewRequest EXCEPT !.pc = "done", !.reply = reply])

-----------------------------------------------------------------------------
\* Accounts are created by registration and by administrators.

IsFirst == Accounts = {}

\* The founder becomes the administrator, others are members.
Register(r) ==
    /\ req[r].pc = "idle"
    /\ IF IsFirst \/ RegistrationEnabled
       THEN Become(r, [req[r] EXCEPT !.op = "register", !.pc = "insert",
                                     !.role = IF IsFirst THEN "admin" ELSE "member"])
       ELSE Answer(r, "refused")
    /\ UNCHANGED <<role, active, password, crossed>>

\* The INSERT. The name may be taken.
Insert(r) ==
    /\ req[r].pc = "insert"
    /\ \/ \E u \in Users :
            /\ role[u] = "none"
            /\ role' = [role EXCEPT ![u] = req[r].role]
            /\ active' = [active EXCEPT ![u] = TRUE]
            /\ Answer(r, "ok")
       \/ Answer(r, "refused") /\ UNCHANGED <<role, active>>
    /\ UNCHANGED <<password, crossed>>

-----------------------------------------------------------------------------
\* The middleware loads the caller's row, then runs the handler. What it allowed
\* is not looked at again.

Admits(u, op) ==
    /\ Exists(u) /\ active[u]
    /\ op = "change" \/ role[u] = "admin"

FirstStep(op) ==
    IF op = "create" THEN "insert" ELSE IF op = "reset" THEN "write" ELSE "load"

Admit(r) ==
    /\ req[r].pc = "idle"
    /\ \E op \in Ops \ {"none", "register"}, u, t \in Users, ro \in Roles, a \in BOOLEAN :
         /\ Admits(u, op)
         /\ role[t] # "none"
         /\ op \in {"change", "create"} => t = u
         /\ op = "delete" => t # u
         /\ op \in {"create", "update"} \/ ro = "member"
         /\ op = "update" \/ ~a
         /\ Become(r, [req[r] EXCEPT !.op = op, !.pc = FirstStep(op), !.target = t,
                                     !.role = ro, !.active = a])
    /\ UNCHANGED <<role, active, password, crossed>>

\* A request that would take the administrator's role or activity away.
Removes(q) == q.op = "delete" \/ q.role # "admin" \/ ~q.active

NeedsGuard(q, seen) == seen = "admin" /\ Removes(q)

\* GetByID of the target.
Load(r) ==
    LET t == req[r].target IN
    /\ req[r].pc = "load" /\ req[r].op \in {"update", "delete"}
    /\ IF Exists(t)
       THEN Become(r, [req[r] EXCEPT !.seenRole = role[t],
                                     !.pc = IF NeedsGuard(req[r], role[t])
                                            THEN "guard" ELSE "write"])
       ELSE Answer(r, "refused")
    /\ UNCHANGED <<role, active, password, crossed>>

BadLastAdmin == ActiveAdmins = {}

\* CountAdmins is at most one.
LastAdmin == ~ \E a, b \in ActiveAdmins : a # b

\* The count. A count that fails refuses the request in the same words; the reply
\* tells the two apart here.
Guard(r) ==
    /\ req[r].pc = "guard"
    /\ \/ ~LastAdmin /\ Goto(r, "write")
       \/ LastAdmin /\ Answer(r, "last admin")
       \/ Answer(r, "refused")
    /\ UNCHANGED <<role, active, password, crossed>>

\* Requests that have read the table and not yet written it.
Reading == {r \in Requests : req[r].op \in {"update", "delete"} /\ req[r].pc \in {"guard", "write"}}

Overtake(r) == crossed' = crossed \cup (Reading \ {r})

Update(r) ==
    LET t == req[r].target IN
    /\ req[r].pc = "write" /\ req[r].op = "update"
    /\ \/ /\ Exists(t)
          /\ role' = [role EXCEPT ![t] = req[r].role]
          /\ active' = [active EXCEPT ![t] = req[r].active]
          /\ Overtake(r)
          /\ Answer(r, "ok")
       \/ /\ ~Exists(t)
          /\ Answer(r, "refused")
          /\ UNCHANGED <<role, active, crossed>>
    /\ UNCHANGED password

Delete(r) ==
    LET t == req[r].target IN
    /\ req[r].pc = "write" /\ req[r].op = "delete"
    /\ \/ /\ Exists(t)
          /\ role' = [role EXCEPT ![t] = "deleted"]
          /\ active' = [active EXCEPT ![t] = FALSE]
          /\ Overtake(r)
          /\ Answer(r, "ok")
       \/ /\ ~Exists(t)
          /\ Answer(r, "refused")
          /\ UNCHANGED <<role, active, crossed>>
    /\ UNCHANGED password

-----------------------------------------------------------------------------
\* Passwords.

\* ChangeMyPassword reads the row and compares the password the user typed,
\* which is right here: a wrong one ends the request.
Confirm(r) ==
    LET t == req[r].target IN
    /\ req[r].pc = "load" /\ req[r].op = "change"
    /\ \/ /\ Exists(t)
          /\ Become(r, [req[r] EXCEPT !.seenPassword = password[t], !.pc = "write"])
       \/ Answer(r, "refused")
    /\ UNCHANGED <<role, active, password, crossed>>

\* SetPassword of a reset and of a change.
SetPassword(r) ==
    LET t == req[r].target IN
    /\ req[r].pc = "write" /\ req[r].op \in {"reset", "change"}
    /\ \/ Exists(t) /\ password' = [password EXCEPT ![t] = @ + 1] /\ Answer(r, "ok")
       \/ ~Exists(t) /\ Answer(r, "refused") /\ UNCHANGED password
    /\ UNCHANGED <<role, active, crossed>>

Next == \E r \in Requests :
    \/ Register(r) \/ Insert(r) \/ Admit(r)
    \/ Load(r) \/ Guard(r) \/ Update(r) \/ Delete(r)
    \/ Confirm(r) \/ SetPassword(r)

Spec == Init /\ [][Next]_vars

-----------------------------------------------------------------------------
\* An instance that has accounts has an active administrator, as long as no
\* request acted on a reading that another one's write had overtaken.
LockoutTakesOverlap == crossed = {} /\ Accounts # {} => ActiveAdmins # {}

\* What repository/user.go:74-75 promises: the last active administrator is
\* never deleted, demoted or deactivated, whatever else is going on.
AdminRemains == Accounts # {} => ActiveAdmins # {}

\* A request is refused for the last administrator's sake only if it is about an
\* active administrator and there is no other.
RefusalIsAboutLastAdmin ==
    [][\A r \in Requests :
          req'[r].reply = "last admin" /\ req[r].reply # "last admin" =>
              ActiveAdmins \subseteq {req[r].target}]_vars

\* With registration disabled, nobody registers once there is an account.
RegistrationClosed ==
    [][~RegistrationEnabled =>
          \A r \in Requests :
             req[r].op = "register" /\ req'[r].reply = "ok" /\ req[r].reply # "ok"
                 => Accounts = {}]_vars

\* A user's change replaces the very password that user confirmed.
ChangeReplacesConfirmed ==
    [][\A r \in Requests :
          req[r].op = "change" /\ req'[r].reply = "ok" /\ req[r].reply # "ok"
              => password[req[r].target] = req[r].seenPassword]_vars
=============================================================================
