--------------------------- MODULE AccountsProofs ---------------------------
\* An active administrator remains, for any number of accounts and of requests
\* served at once, as long as none acts on a stale reading.
EXTENDS Accounts, TLAPS

\* Who inserts anybody but an administrator does so on a table that is not empty.
InsertsKnowFounder ==
    \A r \in Requests :
        req[r].pc = "insert" /\ req[r].role # "admin" => Accounts # {}

\* What a request read of its target is still so.
ReadingsHold ==
    \A r \in Reading : Exists(req[r].target) /\ role[req[r].target] = req[r].seenRole

\* A request about to take an administrator away leaves another one.
RemovalsLeaveAdmin ==
    \A r \in Reading :
        req[r].pc = "write" /\ NeedsGuard(req[r], req[r].seenRole)
            => \E a \in ActiveAdmins : a # req[r].target

IInv == /\ LockoutTakesOverlap
        /\ crossed = {} => InsertsKnowFounder /\ ReadingsHold /\ RemovalsLeaveAdmin

-----------------------------------------------------------------------------
\* A request that becomes a request leaves the others as they are.
LEMMA Becoming ==
    ASSUME req \in [Requests -> Request], NEW r \in Requests,
           NEW q \in Request, Become(r, q)
    PROVE  /\ req' \in [Requests -> Request]
           /\ req'[r] = q
           /\ \A s \in Requests \ {r} : req'[s] = req[s]
BY DEF Become

LEMMA NewIsRequest == NewRequest \in Request
BY DEF NewRequest, Request, RequestRecord, Roles, Ops, Pcs

LEMMA Answering ==
    ASSUME req \in [Requests -> Request], NEW r \in Requests,
           NEW reply \in {"ok", "refused", "last admin"}, Answer(r, reply)
    PROVE  /\ req' \in [Requests -> Request]
           /\ req'[r].pc = "done"
           /\ \A s \in Requests \ {r} : req'[s] = req[s]
<1> DEFINE q == [NewRequest EXCEPT !.pc = "done", !.reply = reply]
<1>1. q \in Request /\ q.pc = "done"
  BY DEF NewRequest, Request, RequestRecord, Roles, Ops, Pcs
<1>2. Become(r, q)
  BY DEF Answer
<1> HIDE DEF q
<1> QED BY <1>1, <1>2, Becoming

LEMMA Going ==
    ASSUME req \in [Requests -> Request], NEW r \in Requests,
           req[r].target \in Users, NEW pc \in Pcs, Goto(r, pc)
    PROVE  /\ req' \in [Requests -> Request]
           /\ req'[r] = [req[r] EXCEPT !.pc = pc]
           /\ \A s \in Requests \ {r} : req'[s] = req[s]
<1> DEFINE q == [req[r] EXCEPT !.pc = pc]
<1>1. q \in Request
  <2>1. req[r] \in RequestRecord
    BY DEF Request
  <2> QED BY <2>1 DEF Request, RequestRecord
<1>2. Become(r, q)
  BY DEF Goto
<1> HIDE DEF q
<1> QED BY <1>1, <1>2, Becoming DEF q

-----------------------------------------------------------------------------
\* The tables and the requests keep their types (all handlers of this module).
THEOREM TypeCorrect == Spec => []TypeOK
<1>1. Init => TypeOK
  BY NewIsRequest DEF Init, TypeOK
<1>2. TypeOK /\ [Next]_vars => TypeOK'
  <2> SUFFICES ASSUME TypeOK, [Next]_vars PROVE TypeOK'
    OBVIOUS
  <2> USE DEF TypeOK
  <2>1. ASSUME NEW r \in Requests, Register(r) PROVE TypeOK'
    <3> DEFINE q == [req[r] EXCEPT !.op = "register", !.pc = "insert",
                                   !.role = IF IsFirst THEN "admin" ELSE "member"]
    <3>1. q \in Request
      <4>1. req[r] \in RequestRecord
        BY DEF Request
      <4>2. q \in RequestRecord
        BY <4>1 DEF RequestRecord, Roles, Ops, Pcs
      <4>3. q.pc = "insert"
        BY <4>1 DEF RequestRecord
      <4> QED BY <4>2, <4>3 DEF Request
    <3>2. Become(r, q) \/ Answer(r, "refused")
      BY <2>1 DEF Register
    <3> HIDE DEF q
    <3>3. req' \in [Requests -> Request]
      BY <3>1, <3>2, Becoming, Answering
    <3> QED BY <2>1, <3>3 DEF Register
  <2>2. ASSUME NEW r \in Requests, Insert(r) PROVE TypeOK'
    <3>1. Answer(r, "ok") \/ Answer(r, "refused")
      BY <2>2 DEF Insert
    <3>2. req' \in [Requests -> Request]
      BY <3>1, Answering
    <3>3. req[r].role \in Roles
      BY DEF Request, RequestRecord
    <3> QED BY <2>2, <3>2, <3>3 DEF Insert
  <2>3. ASSUME NEW r \in Requests, Admit(r) PROVE TypeOK'
    <3>1. PICK op \in Ops \ {"none", "register"}, t \in Users, ro \in Roles, a \in BOOLEAN :
             Become(r, [req[r] EXCEPT !.op = op, !.pc = FirstStep(op), !.target = t,
                                      !.role = ro, !.active = a])
      BY <2>3 DEF Admit
    <3> DEFINE q == [req[r] EXCEPT !.op = op, !.pc = FirstStep(op), !.target = t,
                                   !.role = ro, !.active = a]
    <3>2. q \in Request
      <4>1. req[r] \in RequestRecord
        BY DEF Request
      <4>a. FirstStep(op) \in Pcs /\ op \in Ops
        BY DEF Pcs, FirstStep
      <4>2. q \in RequestRecord /\ q.target \in Users
        BY <4>1, <4>a DEF RequestRecord
      <4> QED BY <4>2 DEF Request
    <3>3. Become(r, q)
      BY <3>1
    <3> HIDE DEF q
    <3>4. req' \in [Requests -> Request]
      BY <3>2, <3>3, Becoming
    <3> QED BY <2>3, <3>4 DEF Admit
  <2>4. ASSUME NEW r \in Requests, Load(r) PROVE TypeOK'
    <3> DEFINE t == req[r].target
               q == [req[r] EXCEPT !.seenRole = role[t],
                                   !.pc = IF NeedsGuard(req[r], role[t])
                                          THEN "guard" ELSE "write"]
    <3>1. Exists(t) => q \in Request
      <4>1. req[r] \in RequestRecord /\ t \in Users
        BY <2>4 DEF Load, Request
      <4>2. Exists(t) => q \in RequestRecord /\ q.target \in Users
        BY <4>1 DEF RequestRecord, Roles, Pcs, Exists
      <4> QED BY <4>2 DEF Request
    <3>2. (Exists(t) /\ Become(r, q)) \/ Answer(r, "refused")
      BY <2>4 DEF Load
    <3> HIDE DEF q, t
    <3>3. req' \in [Requests -> Request]
      BY <3>1, <3>2, Becoming, Answering
    <3> QED BY <2>4, <3>3 DEF Load
  <2>5. ASSUME NEW r \in Requests, Guard(r) PROVE TypeOK'
    <3>1. Goto(r, "write") \/ Answer(r, "last admin") \/ Answer(r, "refused")
      BY <2>5 DEF Guard
    <3>2. req[r].target \in Users
      BY <2>5 DEF Guard, Request
    <3>3. req' \in [Requests -> Request]
      BY <3>1, <3>2, Going, Answering DEF Pcs
    <3> QED BY <2>5, <3>3 DEF Guard
  <2>6. ASSUME NEW r \in Requests, Update(r) PROVE TypeOK'
    <3>1. Answer(r, "ok") \/ Answer(r, "refused")
      BY <2>6 DEF Update
    <3>2. req' \in [Requests -> Request]
      BY <3>1, Answering
    <3>3. req[r].role \in Roles /\ req[r].active \in BOOLEAN
      BY DEF Request, RequestRecord
    <3> QED BY <2>6, <3>2, <3>3 DEF Update, Overtake, Reading
  <2>7. ASSUME NEW r \in Requests, Delete(r) PROVE TypeOK'
    <3>1. Answer(r, "ok") \/ Answer(r, "refused")
      BY <2>7 DEF Delete
    <3>2. req' \in [Requests -> Request]
      BY <3>1, Answering
    <3> QED BY <2>7, <3>2 DEF Delete, Overtake, Reading
  <2>8. ASSUME NEW r \in Requests, Confirm(r) PROVE TypeOK'
    <3> DEFINE t == req[r].target
               q == [req[r] EXCEPT !.seenPassword = password[t], !.pc = "write"]
    <3>1. Become(r, q) \/ Answer(r, "refused")
      BY <2>8 DEF Confirm
    <3>2. q \in Request
      <4>1. req[r] \in RequestRecord /\ t \in Users
        BY <2>8 DEF Confirm, Request
      <4>2. q \in RequestRecord /\ q.target \in Users
        BY <4>1 DEF RequestRecord, Pcs
      <4> QED BY <4>2 DEF Request
    <3> HIDE DEF q, t
    <3>3. req' \in [Requests -> Request]
      BY <3>1, <3>2, Becoming, Answering
    <3> QED BY <2>8, <3>3 DEF Confirm
  <2>9. ASSUME NEW r \in Requests, SetPassword(r) PROVE TypeOK'
    <3>1. Answer(r, "ok") \/ Answer(r, "refused")
      BY <2>9 DEF SetPassword
    <3>2. req' \in [Requests -> Request]
      BY <3>1, Answering
    <3> QED BY <2>9, <3>2 DEF SetPassword
  <2>10. CASE UNCHANGED vars
    BY <2>10 DEF vars
  <2> QED BY <2>1, <2>2, <2>3, <2>4, <2>5, <2>6, <2>7, <2>8, <2>9, <2>10 DEF Next
<1> QED BY <1>1, <1>2, PTL DEF Spec

-----------------------------------------------------------------------------
\* The strengthening is inductive: the readings of a request that nobody has
\* overtaken are still true when it writes.
LEMMA Inductive == TypeOK /\ TypeOK' /\ IInv /\ [Next]_vars => IInv'
<1> SUFFICES ASSUME TypeOK, TypeOK', IInv, [Next]_vars, crossed' = {}
             PROVE  /\ (Accounts # {} => ActiveAdmins # {})'
                    /\ InsertsKnowFounder'
                    /\ ReadingsHold'
                    /\ RemovalsLeaveAdmin'
  BY DEF IInv, LockoutTakesOverlap
<1>t. /\ req \in [Requests -> Request] /\ role \in [Users -> Roles \cup {"none", "deleted"}]
      /\ active \in [Users -> BOOLEAN]
  BY DEF TypeOK
\* An action that leaves the table alone, and puts its request r where the four
\* parts ask what is true of r.
<1>quiet. ASSUME NEW r \in Requests, crossed = {}, UNCHANGED <<role, active>>,
                 \A s \in Requests \ {r} : req'[s] = req[s],
                 req'[r].pc = "insert" /\ req'[r].role # "admin" => Accounts # {},
                 req'[r].pc \in {"guard", "write"} /\ req'[r].op \in {"update", "delete"}
                   => Exists(req'[r].target) /\ role[req'[r].target] = req'[r].seenRole,
                 req'[r].pc = "write" /\ req'[r].op \in {"update", "delete"}
                   /\ NeedsGuard(req'[r], req'[r].seenRole)
                   => \E a \in ActiveAdmins : a # req'[r].target
          PROVE  /\ (Accounts # {} => ActiveAdmins # {})'
                 /\ InsertsKnowFounder'
                 /\ ReadingsHold'
                 /\ RemovalsLeaveAdmin'
  <2>1. Accounts' = Accounts /\ ActiveAdmins' = ActiveAdmins
        /\ \A u : Exists(u)' <=> Exists(u)
    BY <1>quiet DEF Accounts, ActiveAdmins, Exists
  <2>2. (Accounts # {} => ActiveAdmins # {})'
    BY <2>1, <1>quiet DEF IInv, LockoutTakesOverlap
  <2>3. InsertsKnowFounder'
    BY <2>1, <1>quiet DEF IInv, InsertsKnowFounder
  <2>4. ReadingsHold'
    BY <2>1, <1>quiet DEF IInv, ReadingsHold, Reading, Exists
  <2>5. RemovalsLeaveAdmin'
    BY <2>1, <1>quiet DEF IInv, RemovalsLeaveAdmin, Reading, NeedsGuard, Removes
  <2> QED BY <2>2, <2>3, <2>4, <2>5
\* An answered request is of no interest any more.
<1>done. ASSUME NEW r \in Requests, crossed = {}, UNCHANGED <<role, active>>,
                NEW reply \in {"ok", "refused", "last admin"}, Answer(r, reply)
         PROVE  /\ (Accounts # {} => ActiveAdmins # {})'
                /\ InsertsKnowFounder'
                /\ ReadingsHold'
                /\ RemovalsLeaveAdmin'
  <2>1. req'[r].pc = "done" /\ \A s \in Requests \ {r} : req'[s] = req[s]
    BY <1>done, <1>t, Answering
  <2> QED BY <1>done, <1>quiet, <2>1
<1>1. ASSUME NEW r \in Requests, Register(r)
      PROVE  /\ (Accounts # {} => ActiveAdmins # {})'
             /\ InsertsKnowFounder'
             /\ ReadingsHold'
             /\ RemovalsLeaveAdmin'
  <2> DEFINE q == [req[r] EXCEPT !.op = "register", !.pc = "insert",
                                 !.role = IF IsFirst THEN "admin" ELSE "member"]
  <2>1. crossed = {} /\ UNCHANGED <<role, active>>
    BY <1>1 DEF Register
  <2>2. CASE Answer(r, "refused")
    BY <2>1, <2>2, <1>done
  <2>3. CASE Become(r, q)
    <3>1. req[r] \in RequestRecord
      BY <1>t DEF Request
    <3>2. q.pc = "insert" /\ (q.role # "admin" => ~IsFirst)
      BY <3>1 DEF RequestRecord
    <3>3. q \in Request
      <4>1. q \in RequestRecord
        BY <3>1 DEF RequestRecord, Roles, Ops, Pcs
      <4> QED BY <4>1, <3>2 DEF Request
    <3> HIDE DEF q
    <3>4. req'[r] = q /\ \A s \in Requests \ {r} : req'[s] = req[s]
      BY <2>3, <3>3, <1>t, Becoming
    <3> QED BY <2>1, <3>2, <3>4, <1>quiet DEF IsFirst
  <2> QED BY <1>1, <2>2, <2>3 DEF Register
<1>2. ASSUME NEW r \in Requests, Insert(r)
      PROVE  /\ (Accounts # {} => ActiveAdmins # {})'
             /\ InsertsKnowFounder'
             /\ ReadingsHold'
             /\ RemovalsLeaveAdmin'
  <2>1. crossed = {}
    BY <1>2 DEF Insert
  <2>2. CASE Answer(r, "refused") /\ UNCHANGED <<role, active>>
    BY <2>1, <2>2, <1>done
  <2>3. ASSUME NEW u \in Users,
               role[u] = "none",
               role' = [role EXCEPT ![u] = req[r].role],
               active' = [active EXCEPT ![u] = TRUE],
               Answer(r, "ok")
        PROVE  /\ (Accounts # {} => ActiveAdmins # {})'
               /\ InsertsKnowFounder'
               /\ ReadingsHold'
               /\ RemovalsLeaveAdmin'
    <3>1. req'[r].pc = "done" /\ \A s \in Requests \ {r} : req'[s] = req[s]
      BY <2>3, <1>t, Answering
    <3>2. req[r].role \in Roles
      BY <1>t DEF Request, RequestRecord
    <3>3. ActiveAdmins \subseteq ActiveAdmins' /\ Accounts' = Accounts \cup {u}
          /\ u \notin Accounts
      BY <2>3, <3>2, <1>t DEF ActiveAdmins, Accounts, Exists, Roles
    <3>4. ActiveAdmins' # {}
      <4>1. CASE req[r].role = "admin"
        BY <4>1, <2>3, <1>t DEF ActiveAdmins
      <4>2. CASE req[r].role # "admin"
        BY <4>2, <2>1, <3>3, <1>2 DEF IInv, LockoutTakesOverlap, InsertsKnowFounder, Insert
      <4> QED BY <4>1, <4>2
    <3>5. InsertsKnowFounder'
      BY <3>3 DEF InsertsKnowFounder
    <3>6. \A s \in Reading' : s \in Reading \ {r} /\ req'[s] = req[s]
      BY <3>1 DEF Reading
    <3>7. \A s \in Reading \ {r} : req[s].target # u
      BY <2>1, <2>3 DEF IInv, ReadingsHold, Exists, Roles
    <3>8. ReadingsHold'
      BY <2>1, <2>3, <3>2, <3>6, <3>7, <1>t DEF IInv, ReadingsHold, Exists
    <3>9. RemovalsLeaveAdmin'
      BY <2>1, <3>3, <3>6 DEF IInv, RemovalsLeaveAdmin, NeedsGuard, Removes
    <3> QED BY <3>4, <3>5, <3>8, <3>9
  <2> QED BY <1>2, <2>2, <2>3 DEF Insert
<1>3. ASSUME NEW r \in Requests, Admit(r)
      PROVE  /\ (Accounts # {} => ActiveAdmins # {})'
             /\ InsertsKnowFounder'
             /\ ReadingsHold'
             /\ RemovalsLeaveAdmin'
  <2>1. PICK op \in Ops \ {"none", "register"}, u \in Users, t \in Users, ro \in Roles, a \in BOOLEAN :
           /\ Admits(u, op)
           /\ Become(r, [req[r] EXCEPT !.op = op, !.pc = FirstStep(op), !.target = t,
                                       !.role = ro, !.active = a])
    BY <1>3 DEF Admit
  <2> DEFINE q == [req[r] EXCEPT !.op = op, !.pc = FirstStep(op), !.target = t,
                                 !.role = ro, !.active = a]
  <2>2. req[r] \in RequestRecord
    BY <1>t DEF Request
  <2>3. FirstStep(op) \in Pcs /\ op \in Ops
    BY DEF Pcs, FirstStep
  <2>4. q \in RequestRecord /\ q.target \in Users /\ q.op = op /\ q.pc = FirstStep(op)
    BY <2>2, <2>3 DEF RequestRecord
  <2>5. Become(r, q)
    BY <2>1
  <2>6. q \in Request
    BY <2>4 DEF Request
  <2> HIDE DEF q
  <2>7. req'[r] = q /\ \A s \in Requests \ {r} : req'[s] = req[s]
    BY <2>5, <2>6, <1>t, Becoming
  <2>8. q.op \in {"update", "delete"} => q.pc = "load"
    BY <2>4 DEF FirstStep
  <2>9. Accounts # {}
    BY <2>1 DEF Admits, Accounts
  <2>10. crossed = {} /\ UNCHANGED <<role, active>>
    BY <1>3 DEF Admit
  <2> QED BY <2>7, <2>8, <2>9, <2>10, <1>quiet
<1>4. ASSUME NEW r \in Requests, Load(r)
      PROVE  /\ (Accounts # {} => ActiveAdmins # {})'
             /\ InsertsKnowFounder'
             /\ ReadingsHold'
             /\ RemovalsLeaveAdmin'
  <2> DEFINE t == req[r].target
             q == [req[r] EXCEPT !.seenRole = role[t],
                                 !.pc = IF NeedsGuard(req[r], role[t])
                                        THEN "guard" ELSE "write"]
  <2>1. crossed = {} /\ UNCHANGED <<role, active>>
    BY <1>4 DEF Load
  <2>2. CASE Answer(r, "refused")
    BY <2>1, <2>2, <1>done
  <2>3. CASE Exists(t) /\ Become(r, q)
    <3>1. req[r] \in RequestRecord /\ t \in Users
      BY <1>4, <1>t DEF Load, Request
    <3>2. q \in RequestRecord /\ q.target = t /\ q.seenRole = role[t]
      BY <3>1, <2>3 DEF RequestRecord, Roles, Pcs, Exists
    <3>3. q.pc = (IF NeedsGuard(req[r], role[t]) THEN "guard" ELSE "write")
          /\ q.op = req[r].op /\ q.role = req[r].role /\ q.active = req[r].active
      BY <3>1 DEF RequestRecord
    <3>4. q \in Request
      BY <3>1, <3>2 DEF Request
    <3>5. q.pc = "write" => ~NeedsGuard(q, q.seenRole)
      BY <3>2, <3>3 DEF NeedsGuard, Removes
    <3>6. q.pc # "insert"
      BY <3>3
    <3> HIDE DEF q
    <3>7. req'[r] = q /\ \A s \in Requests \ {r} : req'[s] = req[s]
      BY <2>3, <3>4, <1>t, Becoming
    <3>8. Exists(q.target) /\ role[q.target] = q.seenRole
      BY <2>3, <3>2
    <3> QED BY <2>1, <3>5, <3>6, <3>7, <3>8, <1>quiet
  <2> QED BY <1>4, <2>2, <2>3 DEF Load
<1>5. ASSUME NEW r \in Requests, Guard(r)
      PROVE  /\ (Accounts # {} => ActiveAdmins # {})'
             /\ InsertsKnowFounder'
             /\ ReadingsHold'
             /\ RemovalsLeaveAdmin'
  <2>1. crossed = {} /\ UNCHANGED <<role, active>>
    BY <1>5 DEF Guard
  <2>2. CASE Answer(r, "refused") \/ Answer(r, "last admin")
    BY <2>1, <2>2, <1>done
  <2>3. CASE ~LastAdmin /\ Goto(r, "write")
    <3> DEFINE q == [req[r] EXCEPT !.pc = "write"]
    <3>1. req[r] \in RequestRecord /\ req[r].target \in Users
      BY <1>5, <1>t DEF Guard, Request
    <3>2. q.pc = "write" /\ q.op = req[r].op /\ q.target = req[r].target
          /\ q.seenRole = req[r].seenRole
      BY <3>1 DEF RequestRecord
    <3> HIDE DEF q
    <3>3. req'[r] = q /\ \A s \in Requests \ {r} : req'[s] = req[s]
      BY <2>3, <3>1, <1>t, Going DEF Pcs, q
    <3>4. \E a \in ActiveAdmins : a # req[r].target
      BY <2>3 DEF LastAdmin
    <3>5. q.op \in {"update", "delete"} =>
             Exists(q.target) /\ role[q.target] = q.seenRole
      BY <1>5, <2>1, <3>2 DEF IInv, ReadingsHold, Reading, Guard
    <3> QED BY <2>1, <3>2, <3>3, <3>4, <3>5, <1>quiet
  <2> QED BY <1>5, <2>2, <2>3 DEF Guard
\* The writes: nobody else was reading, or crossed would not be empty.
<1>write. ASSUME NEW r \in Requests, NEW t \in Users, t = req[r].target,
                 req[r].pc = "write", req[r].op \in {"update", "delete"},
                 Exists(t), Overtake(r), Answer(r, "ok"),
                 \A u \in Users \ {t} : role'[u] = role[u] /\ active'[u] = active[u],
                 t \in ActiveAdmins' \/ Removes(req[r])
          PROVE  /\ (Accounts # {} => ActiveAdmins # {})'
                 /\ InsertsKnowFounder'
                 /\ ReadingsHold'
                 /\ RemovalsLeaveAdmin'
  <2>1. crossed = {} /\ Reading \subseteq {r} /\ r \in Reading
    BY <1>write DEF Overtake, Reading
  <2>2. req'[r].pc = "done" /\ \A s \in Requests \ {r} : req'[s] = req[s]
    BY <1>write, <1>t, Answering
  <2>3. Reading' = {}
    BY <2>1, <2>2 DEF Reading
  <2>4. ActiveAdmins' # {}
    <3>1. CASE t \in ActiveAdmins'
      BY <3>1
    <3>2. CASE Removes(req[r])
      <4>1. \E a \in ActiveAdmins : a # t
        <5>1. CASE req[r].seenRole = "admin"
          BY <5>1, <3>2, <2>1, <1>write DEF IInv, RemovalsLeaveAdmin, NeedsGuard
        <5>2. CASE req[r].seenRole # "admin"
          <6>1. t \notin ActiveAdmins
            BY <5>2, <2>1, <1>write DEF IInv, ReadingsHold, ActiveAdmins
          <6>2. ActiveAdmins # {}
            BY <2>1, <1>write DEF IInv, LockoutTakesOverlap, Accounts
          <6> QED BY <6>1, <6>2
        <5> QED BY <5>1, <5>2
      <4> QED BY <4>1, <1>write DEF ActiveAdmins
    <3> QED BY <3>1, <3>2, <1>write
  <2>5. Accounts' # {}
    BY <2>4 DEF ActiveAdmins, Accounts, Exists, Roles
  <2> QED BY <2>3, <2>4, <2>5 DEF InsertsKnowFounder, ReadingsHold, RemovalsLeaveAdmin
<1>6. ASSUME NEW r \in Requests, Update(r)
      PROVE  /\ (Accounts # {} => ActiveAdmins # {})'
             /\ InsertsKnowFounder'
             /\ ReadingsHold'
             /\ RemovalsLeaveAdmin'
  <2> DEFINE t == req[r].target
  <2>1. t \in Users
    BY <1>6, <1>t DEF Update, Request
  <2>2. CASE ~Exists(t)
    BY <1>6, <2>2, <1>done DEF Update
  <2>3. CASE Exists(t)
    <3>1. /\ role' = [role EXCEPT ![t] = req[r].role]
          /\ active' = [active EXCEPT ![t] = req[r].active]
          /\ Overtake(r) /\ Answer(r, "ok")
          /\ req[r].pc = "write" /\ req[r].op = "update"
      BY <1>6, <2>3 DEF Update
    <3>2. t \in ActiveAdmins' \/ Removes(req[r])
      BY <3>1, <2>1, <1>t DEF ActiveAdmins, Removes
    <3>3. \A u \in Users \ {t} : role'[u] = role[u] /\ active'[u] = active[u]
      BY <3>1, <1>t
    <3> QED BY <3>1, <3>2, <3>3, <2>1, <2>3, <1>write
  <2> QED BY <2>2, <2>3
<1>7. ASSUME NEW r \in Requests, Delete(r)
      PROVE  /\ (Accounts # {} => ActiveAdmins # {})'
             /\ InsertsKnowFounder'
             /\ ReadingsHold'
             /\ RemovalsLeaveAdmin'
  <2> DEFINE t == req[r].target
  <2>1. t \in Users
    BY <1>7, <1>t DEF Delete, Request
  <2>2. CASE ~Exists(t)
    BY <1>7, <2>2, <1>done DEF Delete
  <2>3. CASE Exists(t)
    <3>1. /\ role' = [role EXCEPT ![t] = "deleted"]
          /\ active' = [active EXCEPT ![t] = FALSE]
          /\ Overtake(r) /\ Answer(r, "ok")
          /\ req[r].pc = "write" /\ req[r].op = "delete"
      BY <1>7, <2>3 DEF Delete
    <3>2. Removes(req[r])
      BY <3>1 DEF Removes
    <3>3. \A u \in Users \ {t} : role'[u] = role[u] /\ active'[u] = active[u]
      BY <3>1, <1>t
    <3> QED BY <3>1, <3>2, <3>3, <2>1, <2>3, <1>write
  <2> QED BY <2>2, <2>3
<1>8. ASSUME NEW r \in Requests, Confirm(r)
      PROVE  /\ (Accounts # {} => ActiveAdmins # {})'
             /\ InsertsKnowFounder'
             /\ ReadingsHold'
             /\ RemovalsLeaveAdmin'
  <2> DEFINE t == req[r].target
             q == [req[r] EXCEPT !.seenPassword = password[t], !.pc = "write"]
  <2>1. crossed = {} /\ UNCHANGED <<role, active>>
    BY <1>8 DEF Confirm
  <2>2. CASE Answer(r, "refused")
    BY <2>1, <2>2, <1>done
  <2>3. CASE Become(r, q)
    <3>1. req[r] \in RequestRecord /\ t \in Users /\ req[r].op = "change"
      BY <1>8, <1>t DEF Confirm, Request
    <3>2. q \in RequestRecord /\ q.target \in Users
      BY <3>1 DEF RequestRecord, Pcs, TypeOK
    <3>3. q.op = "change" /\ q.pc = "write"
      BY <3>1 DEF RequestRecord
    <3>4. q \in Request
      BY <3>2 DEF Request
    <3> HIDE DEF q
    <3>5. req'[r] = q /\ \A s \in Requests \ {r} : req'[s] = req[s]
      BY <2>3, <3>4, <1>t, Becoming
    <3> QED BY <2>1, <3>3, <3>5, <1>quiet
  <2> QED BY <1>8, <2>2, <2>3 DEF Confirm
<1>9. ASSUME NEW r \in Requests, SetPassword(r)
      PROVE  /\ (Accounts # {} => ActiveAdmins # {})'
             /\ InsertsKnowFounder'
             /\ ReadingsHold'
             /\ RemovalsLeaveAdmin'
  BY <1>9, <1>done DEF SetPassword
<1>10. CASE UNCHANGED vars
  <2>1. crossed = {} /\ Accounts' = Accounts /\ ActiveAdmins' = ActiveAdmins
        /\ Reading' = Reading
    BY <1>10 DEF vars, Accounts, ActiveAdmins, Exists, Reading
  <2> QED BY <1>10, <2>1 DEF vars, IInv, LockoutTakesOverlap, InsertsKnowFounder, ReadingsHold, RemovalsLeaveAdmin,
           Exists, NeedsGuard, Removes
<1> QED BY <1>1, <1>2, <1>3, <1>4, <1>5, <1>6, <1>7, <1>8, <1>9, <1>10 DEF Next

\* A lockout takes a request that acted on a reading another one's write had
\* overtaken (UpdateUser, DeleteUser, lastAdmin): served one after the other,
\* requests never leave the instance without an active administrator.
THEOREM AdminRemainsAlone == Spec => []LockoutTakesOverlap
<1>1. Init => IInv
  BY NewIsRequest DEF Init, IInv, TypeOK, LockoutTakesOverlap, InsertsKnowFounder,
     ReadingsHold, RemovalsLeaveAdmin, Reading, NewRequest
<1>2. IInv /\ TypeOK /\ TypeOK' /\ [Next]_vars => IInv'
  BY Inductive
<1>3. IInv => LockoutTakesOverlap
  BY DEF IInv
<1> QED BY <1>1, <1>2, <1>3, TypeCorrect, PTL DEF Spec
=============================================================================
