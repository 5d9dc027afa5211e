-------------------------- MODULE UserAdmin_proofs --------------------------
(***************************************************************************)
(* Proofs about UserAdmin, for any number of accounts and of requests that *)
(* are served at the same time.                                            *)
(***************************************************************************)
EXTENDS UserAdmin, TLAPS

(* What a request carries to its transaction: enabling and disabling ask   *)
(* for one status and leave the role alone.                                *)
Shape ==
  \A h \in Handlers : pc[h] = "commit" =>
    /\ request[h].op = "enable" => request[h].role = Keep /\ request[h].status = "ACTIVE"
    /\ request[h].op = "disable" => request[h].role = Keep /\ request[h].status = "DISABLED"

IInv == TypeOK /\ Shape

LEMMA NoRequestType == NoRequest \in Requests
  BY DEF NoRequest, Requests, Roles, Operations, Present, Keep, Nobody

LEMMA NoRequestFields ==
  /\ NoRequest.actor = Nobody /\ NoRequest.actorRole = "SUPPORT" /\ NoRequest.op = "update"
  /\ NoRequest.target = Nobody /\ NoRequest.seenRole = "SUPPORT"
  /\ NoRequest.role = Keep /\ NoRequest.status = Keep
  BY DEF NoRequest

LEMMA InitInvariant == Init => IInv
<1> SUFFICES ASSUME Init PROVE IInv
  OBVIOUS
<1>1. TypeOK
  BY AdminAssumption, NoRequestType DEF Init, TypeOK, Roles, Present, Absent
<1>2. Shape
  BY DEF Init, Shape
<1>3. QED
  BY <1>1, <1>2 DEF IInv

LEMMA FaultBounded ==
  ASSUME TypeOK, faults < MaxFaults, faults' = faults + 1
  PROVE  faults' \in 0..MaxFaults
  BY AdminAssumption DEF TypeOK

LEMMA RequestBounded ==
  ASSUME TypeOK, requests < MaxRequests, requests' = requests + 1
  PROVE  requests' \in 0..MaxRequests
  BY AdminAssumption DEF TypeOK

LEMMA AnsweredKeeps ==
  ASSUME IInv, NEW h \in Handlers, Answered(h)
  PROVE  /\ pc' \in [Handlers -> {"idle", "read", "commit", "revoke"}]
         /\ request' \in [Handlers -> Requests]
         /\ \A g \in Handlers : pc'[g] \in {"commit", "revoke"} => request'[g].target \in Users
         /\ Shape'
<1>1. /\ pc' = [pc EXCEPT ![h] = "idle"]
      /\ request' = [request EXCEPT ![h] = NoRequest]
  BY DEF Answered, Goto
<1>2. /\ pc \in [Handlers -> {"idle", "read", "commit", "revoke"}]
      /\ request \in [Handlers -> Requests]
      /\ \A g \in Handlers : pc[g] \in {"commit", "revoke"} => request[g].target \in Users
  BY DEF IInv, TypeOK
<1>3. /\ pc' \in [Handlers -> {"idle", "read", "commit", "revoke"}]
      /\ request' \in [Handlers -> Requests]
  BY <1>1, <1>2, NoRequestType
<1>4. \A g \in Handlers : pc'[g] \in {"commit", "revoke"} =>
        g # h /\ pc'[g] = pc[g] /\ request'[g] = request[g]
  BY <1>1, <1>2
<1>5. Shape'
  BY <1>4 DEF IInv, Shape
<1>6. QED
  BY <1>2, <1>3, <1>4, <1>5

LEMMA OutdatedType ==
  ASSUME TypeOK, NEW u \in Users, Outdated(u)
  PROVE  /\ sessions' \in [Users -> SUBSET {"before", "since"}]
         /\ login' \in [Users -> {"none", "checked", "late"}]
  BY DEF TypeOK, Outdated

LEMMA WritesType ==
  ASSUME TypeOK, NEW q \in Requests, q.target \in Users, Writes(q)
  PROVE  /\ role' \in [Users -> Roles]
         /\ status' \in [Users -> Present \cup {Absent}]
<1>1. q.role \in Roles \cup {Keep} /\ q.status \in Present \cup {Keep}
  BY DEF Requests
<1>2. role' \in [Users -> Roles]
  BY <1>1 DEF Writes, TypeOK
<1>3. status' \in [Users -> Present \cup {Absent}]
  BY <1>1 DEF Writes, TypeOK
<1>4. QED
  BY <1>2, <1>3

-----------------------------------------------------------------------------

LEMMA AuthenticateKeeps ==
  ASSUME IInv, NEW h \in Handlers, Authenticate(h)
  PROVE  IInv'
<1>1. PICK a \in Users :
        request' = [request EXCEPT ![h] = [@ EXCEPT !.actor = a, !.actorRole = role[a]]]
  BY DEF Authenticate
<1>2. request[h] \in Requests /\ role[a] \in Roles
  BY DEF IInv, TypeOK
<1>3. [request[h] EXCEPT !.actor = a, !.actorRole = role[a]] \in Requests
  BY <1>2 DEF Requests
<1>4. request' \in [Handlers -> Requests]
  BY <1>1, <1>3 DEF IInv, TypeOK
<1>5. pc' = [pc EXCEPT ![h] = "read"]
  BY DEF Authenticate, Goto
<1>6. \A g \in Handlers : pc'[g] \in {"commit", "revoke"} =>
        pc'[g] = pc[g] /\ request'[g] = request[g]
  BY <1>1, <1>5 DEF IInv, TypeOK
<1>7. requests' \in 0..MaxRequests
  BY RequestBounded DEF Authenticate, IInv
<1>8. TypeOK'
  BY <1>4, <1>5, <1>6, <1>7 DEF IInv, TypeOK, Authenticate, accounts
<1>9. Shape'
  BY <1>6 DEF IInv, Shape
<1>10. QED
  BY <1>8, <1>9 DEF IInv

LEMMA ReadKeeps ==
  ASSUME IInv, NEW h \in Handlers, Read(h)
  PROVE  IInv'
<1>1. PICK op \in Operations, t \in Users, r \in Roles \cup {Keep}, s \in Present \cup {Keep} :
        /\ Asks(op, t, r, s)
        /\ request' = [request EXCEPT ![h] = Asked(op, t, r, s)]
  BY DEF Read
<1> DEFINE q == Asked(op, t, r, s)
<1>2. role[t] \in Roles
  BY DEF IInv, TypeOK
<1>3. q \in Requests
  BY <1>2, NoRequestType DEF Requests, Asked
<1>4. q.op = op /\ q.target = t /\ q.role = r /\ q.status = s
  BY NoRequestType DEF Requests, Asked
<1> HIDE DEF q
<1>5. request' = [request EXCEPT ![h] = q]
  BY <1>1 DEF q
<1>6. pc' = [pc EXCEPT ![h] = "commit"]
  BY DEF Read, Goto
<1>7. request' \in [Handlers -> Requests] /\ request'[h] = q
  BY <1>3, <1>5 DEF IInv, TypeOK
<1>8. \A g \in Handlers : g # h => pc'[g] = pc[g] /\ request'[g] = request[g]
  BY <1>5, <1>6 DEF IInv, TypeOK
<1>9. \A g \in Handlers : pc'[g] \in {"commit", "revoke"} => request'[g].target \in Users
  BY <1>4, <1>7, <1>8 DEF IInv, TypeOK
<1>10. TypeOK'
  BY <1>6, <1>7, <1>9 DEF IInv, TypeOK, Read, accounts
<1>11. /\ op = "enable" => r = Keep /\ s = "ACTIVE"
       /\ op = "disable" => r = Keep /\ s = "DISABLED"
  BY <1>1 DEF Asks
<1>12. Shape'
  BY <1>4, <1>7, <1>8, <1>11 DEF IInv, Shape
<1>13. QED
  BY <1>10, <1>12 DEF IInv

LEMMA CommitKeeps ==
  ASSUME IInv, NEW h \in Handlers, Commit(h)
  PROVE  IInv'
<1>1. request[h] \in Requests /\ request[h].target \in Users
  BY DEF IInv, TypeOK, Commit
<1>2. /\ role' \in [Users -> Roles]
      /\ status' \in [Users -> Present \cup {Absent}]
  BY <1>1, WritesType DEF IInv, Commit
<1>3. CASE Removes(request[h])
  <2> DEFINE q == [NoRequest EXCEPT !.target = request[h].target]
  <2>1. q \in Requests /\ q.target = request[h].target
    BY <1>1, NoRequestType DEF Requests
  <2>2. request' = [request EXCEPT ![h] = q] /\ pc' = [pc EXCEPT ![h] = "revoke"]
    BY <1>3 DEF Commit, Goto
  <2> HIDE DEF q
  <2>3. request' \in [Handlers -> Requests] /\ request'[h].target \in Users
    BY <1>1, <2>1, <2>2 DEF IInv, TypeOK
  <2>4. \A g \in Handlers : g # h => pc'[g] = pc[g] /\ request'[g] = request[g]
    BY <2>2 DEF IInv, TypeOK
  <2>5. /\ sessions' \in [Users -> SUBSET {"before", "since"}]
        /\ login' \in [Users -> {"none", "checked", "late"}]
    BY <1>1, <1>3, OutdatedType DEF IInv, Commit
  <2>6. \A g \in Handlers : pc'[g] \in {"commit", "revoke"} => request'[g].target \in Users
    BY <2>3, <2>4 DEF IInv, TypeOK
  <2>7. TypeOK'
    BY <1>2, <2>2, <2>3, <2>5, <2>6 DEF IInv, TypeOK, Commit
  <2>8. pc'[h] = "revoke"
    BY <2>2 DEF IInv, TypeOK
  <2>9. Shape'
    BY <2>4, <2>8 DEF IInv, Shape
  <2>10. QED
    BY <2>7, <2>9 DEF IInv
<1>4. CASE ~Removes(request[h])
  BY <1>2, <1>4, AnsweredKeeps DEF IInv, TypeOK, Commit
<1>5. QED
  BY <1>3, <1>4

(* Every step of the specification keeps the invariant. *)
LEMMA StepInvariant == IInv /\ [Next]_vars => IInv'
<1> SUFFICES ASSUME IInv, [Next]_vars PROVE IInv'
  OBVIOUS
<1>1. ASSUME NEW u \in Users, CheckPassword(u) PROVE IInv'
  BY <1>1 DEF CheckPassword, IInv, TypeOK, Shape, accounts, handlers
<1>2. ASSUME NEW u \in Users, CreateSession(u) PROVE IInv'
  BY <1>2 DEF CreateSession, IInv, TypeOK, Shape, accounts, handlers
<1>3. ASSUME NEW u \in Users, Logout(u) \/ RevokeSessions(u) PROVE IInv'
  BY <1>3 DEF Logout, RevokeSessions, IInv, TypeOK, Shape, accounts, handlers
<1>4. ASSUME NEW u \in Users, CreateUser(u) PROVE IInv'
  <2>1. requests' \in 0..MaxRequests
    BY <1>4, RequestBounded DEF CreateUser, IInv
  <2>2. role' \in [Users -> Roles] /\ status' \in [Users -> Present \cup {Absent}]
    <3>1. \A a \in Users : MANAGEABLE_ROLES[role[a]] \subseteq Roles
      BY DEF IInv, TypeOK, MANAGEABLE_ROLES, Roles
    <3>2. "ANALYST" \in Roles /\ "PENDING" \in Present
      BY DEF Roles, Present
    <3>3. PICK r \in Roles, s \in Present :
            role' = [role EXCEPT ![u] = r] /\ status' = [status EXCEPT ![u] = s]
      BY <1>4, <3>1, <3>2 DEF CreateUser
    <3>4. QED
      BY <3>3 DEF IInv, TypeOK
  <2>3. QED
    BY <1>4, <2>1, <2>2 DEF CreateUser, IInv, TypeOK, Shape, handlers
<1>5. ASSUME NEW h \in Handlers, Refuse(h) PROVE IInv'
  BY <1>5, AnsweredKeeps DEF Refuse, IInv, TypeOK, accounts
<1>6. ASSUME NEW h \in Handlers, Revoke(h) PROVE IInv'
  BY <1>6, AnsweredKeeps DEF Revoke, IInv, TypeOK, accounts
<1>7. ASSUME NEW h \in Handlers, Die(h) PROVE IInv'
  <2>1. faults' \in 0..MaxFaults
    BY <1>7, FaultBounded DEF Die, IInv
  <2>2. excused' \in SUBSET Users
    BY <1>7 DEF Die, IInv, TypeOK
  <2>3. QED
    BY <1>7, <2>1, <2>2, AnsweredKeeps DEF Die, IInv, TypeOK, accounts
<1>8. CASE UNCHANGED vars
  BY <1>8 DEF vars, accounts, handlers, IInv, TypeOK, Shape
<1>9. QED
  BY <1>1, <1>2, <1>3, <1>4, <1>5, <1>6, <1>7, <1>8, AuthenticateKeeps, ReadKeeps, CommitKeeps
     DEF Next

THEOREM Invariant == Spec => []IInv
  BY InitInvariant, StepInvariant, PTL DEF Spec

(* Requests, accounts and sessions stay within their types.                *)
THEOREM TypeCorrect == Spec => []TypeOK
<1>1. IInv => TypeOK
  BY DEF IInv
<1>2. QED
  BY Invariant, <1>1, PTL

-----------------------------------------------------------------------------
(* What a transaction may do *)

(* A request that is let through without the last-principal check leaves   *)
(* its target at least as high and as active as it was read.               *)
LEMMA UncheckedKeepsRole ==
  ASSUME IInv, NEW h \in Handlers, Commit(h), ~Removes(request[h]),
         role[request[h].target] = request[h].seenRole,
         request[h].target \in Supers \cup Admins
  PROVE  /\ status'[request[h].target] = "ACTIVE"
         /\ role'[request[h].target] \in {role[request[h].target], "SUPER_ADMIN"}
<1> DEFINE q == request[h]
           t == request[h].target
<1>1. /\ q \in Requests /\ t \in Users /\ status[t] = "ACTIVE"
      /\ role[t] \in {"SUPER_ADMIN", "ADMIN"}
  BY DEF IInv, TypeOK, Commit, Supers, Admins, Active
<1>2. Allowed(q) /\ Writes(q)
  BY DEF Commit
<1>3. q.op \in {"update", "enable"}
  BY <1>1, <1>2 DEF Allowed, Requests, Operations, Removes, WillDeactivate
<1>4. q.status \in {Keep, "ACTIVE"}
  BY <1>3 DEF Removes, WillDeactivate, IInv, Shape, Commit
<1>5. status'[t] = "ACTIVE"
  BY <1>1, <1>2, <1>4 DEF Writes, IInv, TypeOK, Keep
<1>6. q.role = Keep \/ ROLE_RANK[q.role] >= ROLE_RANK[role[t]]
  <2>1. CASE q.op = "enable"
    BY <2>1 DEF IInv, Shape, Commit
  <2>2. CASE q.op = "update" /\ q.role # Keep
    <3>1. q.role \in Roles
      BY <1>1, <2>2 DEF Requests
    <3>2. ~(ROLE_RANK[q.role] < ROLE_RANK[q.seenRole])
      BY <2>2 DEF Removes, WillDemote
    <3>3. ROLE_RANK[q.role] \in Int /\ ROLE_RANK[role[t]] \in Int
      BY <3>1, <1>1 DEF ROLE_RANK, Roles
    <3>4. QED
      BY <3>2, <3>3
  <2>3. QED
    BY <1>3, <2>1, <2>2
<1>7. q.role \in {Keep, role[t], "SUPER_ADMIN"}
  BY <1>1, <1>6 DEF ROLE_RANK, Roles, Requests, Keep
<1>8. role'[t] \in {role[t], "SUPER_ADMIN"}
  BY <1>1, <1>2, <1>7 DEF Writes, IInv, TypeOK
<1>9. QED
  BY <1>5, <1>8

LEMMA CommitKeepsPrincipal ==
  ASSUME IInv, NEW h \in Handlers, Commit(h), role[request[h].target] = request[h].seenRole
  PROVE  PrincipalStays
<1> DEFINE q == request[h]
           t == request[h].target
<1>1. q \in Requests /\ t \in Users
  BY DEF IInv, TypeOK, Commit
<1>2. Allowed(q) /\ Writes(q)
  BY DEF Commit
<1>3. \A u \in Users : u # t => role'[u] = role[u] /\ status'[u] = status[u]
  BY <1>1, <1>2 DEF Writes, IInv, TypeOK
<1>4. /\ \A u \in Supers : u # t => u \in Supers'
      /\ \A u \in Admins : u # t => u \in Admins'
  BY <1>3 DEF Supers, Admins, Active
<1>5. CASE t \notin Supers \cup Admins
  BY <1>4, <1>5 DEF PrincipalStays
<1>6. CASE t \in Supers \cup Admins /\ ~Removes(q)
  <2>1. status'[t] = "ACTIVE" /\ role'[t] \in {role[t], "SUPER_ADMIN"}
    BY <1>6, UncheckedKeepsRole
  <2>2. /\ t \in Supers => t \in Supers'
        /\ t \in Admins => t \in Supers' \cup Admins'
    BY <1>1, <2>1 DEF Supers, Admins, Active
  <2>3. QED
    BY <1>4, <2>2 DEF PrincipalStays
<1>7. CASE t \in Supers \cup Admins /\ Removes(q)
  <2>1. PrincipalRemains(q)
    BY <1>2, <1>7 DEF Allowed
  <2>2. t \in Supers => \E u \in Supers : u # t
    BY <2>1 DEF PrincipalRemains, Supers
  <2>3. t \in Admins => Supers # {} \/ \E u \in Admins : u # t
    BY <2>1 DEF PrincipalRemains, Admins
  <2>4. t \in Admins => t \notin Supers
    BY DEF Admins, Supers
  <2>5. QED
    BY <1>4, <1>7, <2>2, <2>3, <2>4 DEF PrincipalStays
<1>8. QED
  BY <1>5, <1>6, <1>7

(* Whatever requests overlap, the last active super administrator and the  *)
(* last active principal stay, unless a commit acts on an outdated role.   *)
THEOREM PrincipalsAreKept == Spec => LastPrincipalKept
<1> DEFINE Kept == PrincipalStays \/ \E h \in Handlers : Stale(h)
<1>1. IInv /\ [Next]_vars => [Kept]_vars
  <2> SUFFICES ASSUME IInv, Next PROVE Kept
    OBVIOUS
  <2>1. CASE UNCHANGED accounts
    BY <2>1 DEF accounts, PrincipalStays, Supers, Admins, Active
  <2>2. ASSUME NEW u \in Users, CreateUser(u) PROVE PrincipalStays
    <3>1. \A v \in Users : v # u => role'[v] = role[v] /\ status'[v] = status[v]
      BY <2>2 DEF CreateUser, IInv, TypeOK
    <3>2. u \notin Supers \cup Admins
      BY <2>2 DEF CreateUser, Supers, Admins, Active, Absent
    <3>3. (\A v \in Supers : v \in Supers') /\ (\A v \in Admins : v \in Admins')
      BY <3>1, <3>2 DEF Supers, Admins, Active
    <3>4. QED
      BY <3>3 DEF PrincipalStays
  <2>3. ASSUME NEW h \in Handlers, Commit(h) PROVE Kept
    <3>1. CASE role[request[h].target] = request[h].seenRole
      BY <2>3, <3>1, CommitKeepsPrincipal
    <3>2. CASE role[request[h].target] # request[h].seenRole
      <4>1. pc[h] = "commit" /\ pc'[h] \in {"idle", "revoke"}
        BY <2>3 DEF Commit, Answered, Goto, IInv, TypeOK
      <4>2. QED
        BY <3>2, <4>1 DEF Stale
    <3>3. QED
      BY <3>1, <3>2
  <2>4. QED
    BY <2>1, <2>2, <2>3 DEF Next, CheckPassword, CreateSession, Logout, RevokeSessions, Authenticate,
                            Read, Refuse, Revoke, Die
<1>2. QED
  BY <1>1, Invariant, PTL DEF Spec, LastPrincipalKept

(* An approval cannot bring back an account that was disabled meanwhile.   *)
THEOREM ApprovalsDoNotReopen == Spec => DisabledStaysOut
<1> DEFINE Out == \A u \in Users : status[u] = "DISABLED" /\ status'[u] = "ACTIVE" =>
                    \E h \in Handlers : Reactivates(h, u)
<1>1. IInv /\ [Next]_vars => [Out]_vars
  <2> SUFFICES ASSUME IInv, Next,
                      NEW u \in Users, status[u] = "DISABLED", status'[u] = "ACTIVE"
               PROVE  \E h \in Handlers : Reactivates(h, u)
    OBVIOUS
  <2>1. ASSUME NEW v \in Users, CreateUser(v) PROVE FALSE
    BY <2>1 DEF CreateUser, IInv, TypeOK, Absent
  <2>2. ASSUME NEW h \in Handlers, Commit(h)
        PROVE  Reactivates(h, u)
    <3>1. pc[h] = "commit" /\ Allowed(request[h]) /\ Writes(request[h])
      BY <2>2 DEF Commit
    <3>2. request[h] \in Requests /\ request[h].target \in Users
      BY <3>1 DEF IInv, TypeOK
    <3>3. request[h].target = u /\ request[h].status = "ACTIVE"
      BY <3>1, <3>2 DEF Writes, IInv, TypeOK
    <3>4. request[h].op # "approve"
      BY <3>1, <3>3 DEF Allowed
    <3>5. request[h].op # "disable"
      BY <3>1, <3>3 DEF IInv, Shape
    <3>6. request[h].op \in {"enable", "update"}
      BY <3>2, <3>4, <3>5 DEF Requests, Operations
    <3>7. pc'[h] \in {"idle", "revoke"}
      BY <2>2 DEF Commit, Answered, Goto, IInv, TypeOK
    <3>8. QED
      BY <3>1, <3>3, <3>6, <3>7 DEF Reactivates
  <2>3. UNCHANGED status => FALSE
    OBVIOUS
  <2>4. QED
    BY <2>1, <2>2, <2>3 DEF Next, CheckPassword, CreateSession, Logout, RevokeSessions, Authenticate,
                            Read, Refuse, Revoke, Die, accounts
<1>2. QED
  BY <1>1, Invariant, PTL DEF Spec, DisabledStaysOut

-----------------------------------------------------------------------------
(* Sessions of accounts that were removed *)

Revoking(u) == \E h \in Handlers : pc[h] = "revoke" /\ request[h].target = u

LEMMA RevokedInductive ==
  ASSUME IInv, RemovedIsRevoked, [Next]_vars
  PROVE  RemovedIsRevoked'
<1> SUFFICES ASSUME NEW u \in Users, u \notin excused', "before" \in sessions'[u]
             PROVE  Revoking(u)'
  BY DEF RemovedIsRevoked, Revoking
<1>1. "before" \in sessions[u] /\ u \notin excused => Revoking(u)
  BY DEF RemovedIsRevoked, Revoking
<1>2. /\ pc \in [Handlers -> {"idle", "read", "commit", "revoke"}]
      /\ request \in [Handlers -> Requests]
      /\ sessions \in [Users -> SUBSET {"before", "since"}]
  BY DEF IInv, TypeOK
<1>3. ASSUME NEW g \in Handlers, pc[g] # "revoke",
             \A h \in Handlers : h # g => pc'[h] = pc[h] /\ request'[h] = request[h]
      PROVE  Revoking(u) => Revoking(u)'
  BY <1>3 DEF Revoking
<1>4. ASSUME UNCHANGED handlers PROVE Revoking(u) => Revoking(u)'
  BY <1>4 DEF Revoking, handlers
<1>5. ASSUME NEW v \in Users, CheckPassword(v) \/ CreateUser(v) PROVE Revoking(u)'
  BY <1>1, <1>4, <1>5 DEF CheckPassword, CreateUser
<1>6. ASSUME NEW v \in Users, CreateSession(v) PROVE Revoking(u)'
  <2>1. "before" \in sessions[u] \/ (u = v /\ login[v] = "late")
    BY <1>2, <1>6 DEF CreateSession
  <2>2. u \notin excused /\ ~(u = v /\ login[v] = "late")
    BY <1>6 DEF CreateSession
  <2>3. QED
    BY <1>1, <1>4, <1>6, <2>1, <2>2 DEF CreateSession
<1>7. ASSUME NEW v \in Users, Logout(v) \/ RevokeSessions(v) PROVE Revoking(u)'
  <2>1. "before" \in sessions[u]
    BY <1>2, <1>7 DEF Logout, RevokeSessions
  <2>2. QED
    BY <1>1, <1>4, <1>7, <2>1 DEF Logout, RevokeSessions
<1>8. ASSUME NEW h \in Handlers, Authenticate(h) PROVE Revoking(u)'
  <2>1. pc[h] # "revoke"
    BY <1>8 DEF Authenticate
  <2>2. \A g \in Handlers : g # h => pc'[g] = pc[g] /\ request'[g] = request[g]
    BY <1>2, <1>8 DEF Authenticate, Goto
  <2>3. QED
    BY <1>1, <1>3, <1>8, <2>1, <2>2 DEF Authenticate
<1>9. ASSUME NEW h \in Handlers, Read(h) PROVE Revoking(u)'
  <2>1. pc[h] # "revoke"
    BY <1>9 DEF Read
  <2>2. \A g \in Handlers : g # h => pc'[g] = pc[g] /\ request'[g] = request[g]
    BY <1>2, <1>9 DEF Read, Goto
  <2>3. QED
    BY <1>1, <1>3, <1>9, <2>1, <2>2 DEF Read
<1>10. ASSUME NEW h \in Handlers, Commit(h) PROVE Revoking(u)'
  <2>1. pc[h] = "commit" /\ request[h].target \in Users
    BY <1>10 DEF Commit, IInv, TypeOK
  <2>2. \A g \in Handlers : g # h => pc'[g] = pc[g] /\ request'[g] = request[g]
    BY <1>2, <1>10 DEF Commit, Answered, Goto
  <2>3. Revoking(u) => Revoking(u)'
    BY <1>3, <2>1, <2>2
  <2>4. CASE ~Removes(request[h])
    BY <1>1, <1>10, <2>3, <2>4 DEF Commit
  <2>5. CASE Removes(request[h]) /\ u # request[h].target
    <3>1. sessions'[u] = sessions[u]
      BY <1>2, <1>10, <2>5 DEF Commit, Outdated
    <3>2. QED
      BY <1>1, <1>10, <2>3, <3>1 DEF Commit
  <2>6. CASE Removes(request[h]) /\ u = request[h].target
    <3> DEFINE q == [NoRequest EXCEPT !.target = request[h].target]
    <3>1. q.target = u
      BY <2>6, NoRequestType DEF Requests
    <3>2. pc'[h] = "revoke" /\ request'[h] = q
      BY <1>2, <1>10, <2>6 DEF Commit, Goto
    <3>3. QED
      BY <3>1, <3>2 DEF Revoking
  <2>7. QED
    BY <2>4, <2>5, <2>6
<1>11. ASSUME NEW h \in Handlers, Refuse(h) PROVE Revoking(u)'
  <2>1. pc[h] # "revoke"
    BY <1>11 DEF Refuse
  <2>2. \A g \in Handlers : g # h => pc'[g] = pc[g] /\ request'[g] = request[g]
    BY <1>2, <1>11 DEF Refuse, Answered, Goto
  <2>3. QED
    BY <1>1, <1>3, <1>11, <2>1, <2>2 DEF Refuse
<1>12. ASSUME NEW h \in Handlers, Revoke(h) PROVE Revoking(u)'
  <2>1. u # request[h].target /\ "before" \in sessions[u]
    BY <1>2, <1>12 DEF Revoke, IInv, TypeOK
  <2>2. \A g \in Handlers : g # h => pc'[g] = pc[g] /\ request'[g] = request[g]
    BY <1>2, <1>12 DEF Revoke, Answered, Goto
  <2>3. PICK g \in Handlers : pc[g] = "revoke" /\ request[g].target = u
    BY <1>1, <1>12, <2>1 DEF Revoke, Revoking
  <2>4. QED
    BY <2>1, <2>2, <2>3 DEF Revoking
<1>13. ASSUME NEW h \in Handlers, Die(h) PROVE Revoking(u)'
  <2>1. \A g \in Handlers : g # h => pc'[g] = pc[g] /\ request'[g] = request[g]
    BY <1>2, <1>13 DEF Die, Answered, Goto
  <2>2. u \notin excused /\ ~(pc[h] = "revoke" /\ request[h].target = u)
    BY <1>13 DEF Die
  <2>3. PICK g \in Handlers : pc[g] = "revoke" /\ request[g].target = u
    BY <1>1, <1>13, <2>2 DEF Die, Revoking
  <2>4. QED
    BY <2>1, <2>2, <2>3 DEF Revoking
<1>14. CASE UNCHANGED vars
  BY <1>1, <1>14 DEF vars, handlers, Revoking
<1>15. QED
  BY <1>5, <1>6, <1>7, <1>8, <1>9, <1>10, <1>11, <1>12, <1>13, <1>14 DEF Next

(* A session that is older than the removal of its account is revoked, or  *)
(* a request is under way that will revoke it; the exceptions are named.   *)
THEOREM RemovalsRevoke == Spec => []RemovedIsRevoked
<1>1. Init => RemovedIsRevoked
  BY DEF Init, RemovedIsRevoked
<1>2. IInv /\ RemovedIsRevoked /\ [Next]_vars => RemovedIsRevoked'
  BY RevokedInductive
<1>3. QED
  BY <1>1, <1>2, Invariant, PTL DEF Spec

-----------------------------------------------------------------------------
(* Requests served one at a time *)

(* With one request at a time a transaction still sees the account it has  *)
(* read: signup and create_user only make accounts that did not exist.     *)
ReadsCurrent ==
  \A h \in Handlers : pc[h] = "commit" =>
    /\ status[request[h].target] # Absent
    /\ role[request[h].target] = request[h].seenRole

LEMMA CreateUserElsewhere ==
  ASSUME IInv, NEW u \in Users, CreateUser(u)
  PROVE  \A v \in Users : v # u => role'[v] = role[v] /\ status'[v] = status[v]
  BY DEF CreateUser, IInv, TypeOK

LEMMA ReadsCurrentStep ==
  ASSUME IInv, ReadsCurrent, NEW one, Handlers = {one}, [Next]_vars
  PROVE  ReadsCurrent'
<1>1. CASE UNCHANGED <<role, status, pc, request>>
  BY <1>1 DEF ReadsCurrent
<1>2. ASSUME NEW u \in Users, CreateUser(u) PROVE ReadsCurrent'
  <2>1. \A h \in Handlers : pc[h] = "commit" => request[h].target # u
    BY <1>2 DEF ReadsCurrent, CreateUser
  <2>2. \A h \in Handlers : pc[h] = "commit" => request[h].target \in Users
    BY DEF IInv, TypeOK
  <2>3. QED
    BY <1>2, <2>1, <2>2, CreateUserElsewhere DEF ReadsCurrent, CreateUser, handlers
<1>3. ASSUME NEW h \in Handlers,
             \/ Authenticate(h) \/ Commit(h) \/ Refuse(h) \/ Revoke(h) \/ Die(h)
      PROVE  ReadsCurrent'
  <2>1. pc'[h] # "commit"
    BY <1>3 DEF Authenticate, Commit, Refuse, Revoke, Die, Answered, Goto, IInv, TypeOK
  <2>2. QED
    BY <2>1 DEF ReadsCurrent
<1>4. ASSUME NEW h \in Handlers, Read(h) PROVE ReadsCurrent'
  <2>1. PICK op \in Operations, t \in Users, r \in Roles \cup {Keep}, s \in Present \cup {Keep} :
          /\ status[t] # Absent
          /\ request' = [request EXCEPT ![h] = Asked(op, t, r, s)]
    BY <1>4 DEF Read
  <2>2. Asked(op, t, r, s).target = t /\ Asked(op, t, r, s).seenRole = role[t]
    BY NoRequestType DEF Requests, Asked
  <2>3. request'[h] = Asked(op, t, r, s)
    BY <2>1 DEF IInv, TypeOK
  <2>4. UNCHANGED <<role, status>>
    BY <1>4 DEF Read, accounts
  <2>5. QED
    BY <2>1, <2>2, <2>3, <2>4 DEF ReadsCurrent
<1>5. QED
  BY <1>1, <1>2, <1>3, <1>4
     DEF Next, vars, accounts, handlers, CheckPassword, CreateSession, Logout, RevokeSessions

(* Where requests are served one at a time there is always an active super *)
(* administrator: what _ensure_principal_remains is for.  The race of two  *)
(* requests (Stale) is the only way to lose the last one.                  *)
THEOREM SerialRequestsKeepASuperAdmin ==
  ASSUME NEW one, Handlers = {one}
  PROVE  Spec => [](Supers # {})
<1> DEFINE Serial == ReadsCurrent /\ Supers # {}
<1>1. Init => Serial
  <2> SUFFICES ASSUME Init PROVE Serial
    OBVIOUS
  <2>1. PICK u \in Users : status = [v \in Users |-> IF v = u THEN "ACTIVE" ELSE Absent]
    BY DEF Init
  <2>2. u \in Supers
    BY <2>1 DEF Init, Supers, Active
  <2>3. ReadsCurrent
    BY DEF Init, ReadsCurrent
  <2>4. QED
    BY <2>2, <2>3
<1>2. IInv /\ Serial /\ [Next]_vars => Serial'
  <2> SUFFICES ASSUME IInv, Serial, [Next]_vars PROVE Serial'
    OBVIOUS
  <2>1. ReadsCurrent'
    BY ReadsCurrentStep
  <2>2. CASE UNCHANGED accounts
    BY <2>1, <2>2 DEF accounts, Supers, Active
  <2>3. ASSUME NEW u \in Users, CreateUser(u) PROVE Supers' # {}
    <3>1. PICK v \in Supers : TRUE
      OBVIOUS
    <3>2. v \in Users /\ v # u
      BY <2>3, <3>1 DEF CreateUser, Supers, Active, Absent
    <3>3. v \in Supers'
      BY <2>3, <3>1, <3>2, CreateUserElsewhere DEF Supers, Active
    <3>4. QED
      BY <3>3
  <2>4. ASSUME NEW h \in Handlers, Commit(h) PROVE Supers' # {}
    <3>1. role[request[h].target] = request[h].seenRole
      BY <2>4 DEF ReadsCurrent, Commit
    <3>2. PrincipalStays
      BY <2>4, <3>1, CommitKeepsPrincipal
    <3>3. QED
      BY <3>2 DEF PrincipalStays
  <2>5. QED
    BY <2>1, <2>2, <2>3, <2>4
       DEF Next, vars, accounts, CheckPassword, CreateSession, Logout, RevokeSessions,
           Authenticate, Read, Refuse, Revoke, Die
<1>3. QED
  BY <1>1, <1>2, Invariant, PTL DEF Spec

=============================================================================
