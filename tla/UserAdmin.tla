----------------------------- MODULE UserAdmin -----------------------------
(***************************************************************************)
(* The administration of user accounts.  A request authenticates its actor *)
(* by a session, reads the target, decides on what it has read, and writes *)
(* in a transaction of its own; then it revokes the target's sessions in a *)
(* second one.  The transaction that takes a privilege away locks all      *)
(* active principals first and refuses to remove the last of them.         *)
(* Passwords, reset codes, captchas and the audit log are left out.        *)
(***************************************************************************)
EXTENDS Integers

CONSTANTS Users,
          Handlers,      \* requests that are served at the same time
          MaxRequests,   \* bound on the administrative requests
          MaxFaults      \* bound on requests that die before they revoke

ASSUME AdminAssumption == MaxRequests \in Nat /\ MaxFaults \in Nat

Roles == {"SUPER_ADMIN", "ADMIN", "ANALYST", "SUPPORT"}
Privileged == {"SUPER_ADMIN", "ADMIN"}
Present == {"PENDING", "ACTIVE", "DISABLED"}
Absent == "absent"
Keep == "keep"     \* a field that is left as it was read
Nobody == "nobody"

ROLE_RANK == [r \in Roles |->
  CASE r = "SUPER_ADMIN" -> 3 [] r = "ADMIN" -> 2 [] OTHER -> 1]

MANAGEABLE_ROLES == [r \in Roles |->
  CASE r = "SUPER_ADMIN" -> Roles
    [] r = "ADMIN"       -> {"ANALYST", "SUPPORT"}
    [] OTHER             -> {}]

Operations == {"update", "approve", "disable", "enable"}
Requests == [actor : Users \cup {Nobody}, actorRole : Roles,
             op : Operations, target : Users \cup {Nobody}, seenRole : Roles,
             role : Roles \cup {Keep}, status : Present \cup {Keep}]

NoRequest == [actor |-> Nobody, actorRole |-> "SUPPORT", op |-> "update", target |-> Nobody,
              seenRole |-> "SUPPORT", role |-> Keep, status |-> Keep]

VARIABLES role, status,   \* dashboard_users
          sessions,       \* "since" or "before" the last removal, not revoked
          login,          \* a login between the password check and its session
          pc, request,    \* each handler and what it was asked and has read
          requests, faults

VARIABLE excused  \* history: users with a late login or a request that died

accounts == <<role, status>>
handlers == <<pc, request>>
vars == <<role, status, sessions, login, pc, request, requests, faults, excused>>

TypeOK ==
  /\ role \in [Users -> Roles]
  /\ status \in [Users -> Present \cup {Absent}]
  /\ sessions \in [Users -> SUBSET {"before", "since"}]
  /\ login \in [Users -> {"none", "checked", "late"}]
  /\ pc \in [Handlers -> {"idle", "read", "commit", "revoke"}]
  /\ request \in [Handlers -> Requests]
  /\ \A h \in Handlers : pc[h] \in {"commit", "revoke"} => request[h].target \in Users
  /\ requests \in 0..MaxRequests
  /\ faults \in 0..MaxFaults
  /\ excused \in SUBSET Users

Active(u) == status[u] = "ACTIVE"
Supers == {u \in Users : Active(u) /\ role[u] = "SUPER_ADMIN"}
Admins == {u \in Users : Active(u) /\ role[u] = "ADMIN"}

(* The script create_super_admin has made the first account. *)
Init ==
  /\ role \in [Users -> {"SUPER_ADMIN"}]
  /\ \E u \in Users : status = [v \in Users |-> IF v = u THEN "ACTIVE" ELSE Absent]
  /\ sessions = [u \in Users |-> {}]
  /\ login = [u \in Users |-> "none"]
  /\ pc = [h \in Handlers |-> "idle"]
  /\ request = [h \in Handlers |-> NoRequest]
  /\ requests = 0 /\ faults = 0
  /\ excused = {}

Goto(h, step) == pc' = [pc EXCEPT ![h] = step]

Answered(h) == Goto(h, "idle") /\ request' = [request EXCEPT ![h] = NoRequest]

-----------------------------------------------------------------------------
(* Sessions *)

(* authenticate_user, or the session of user_change_password: only an      *)
(* ACTIVE account passes.                                                  *)
CheckPassword(u) ==
  /\ Active(u) /\ login[u] = "none"
  /\ login' = [login EXCEPT ![u] = "checked"]
  /\ UNCHANGED <<accounts, sessions, handlers, requests, faults, excused>>

(* create_session does not look at the account again. *)
CreateSession(u) ==
  /\ login[u] # "none"
  /\ login' = [login EXCEPT ![u] = "none"]
  /\ sessions' = [sessions EXCEPT ![u] =
       @ \cup {IF login[u] = "late" THEN "before" ELSE "since"}]
  /\ excused' = IF login[u] = "late" THEN excused \cup {u} ELSE excused
  /\ UNCHANGED <<accounts, handlers, requests, faults>>

Logout(u) ==
  /\ Active(u)
  /\ \E s \in sessions[u] : sessions' = [sessions EXCEPT ![u] = @ \ {s}]
  /\ UNCHANGED <<accounts, login, handlers, requests, faults, excused>>

(* can_manage and can_assign_role, on the roles as they were read *)
CanManage(actor, actorRole, target, newRole) ==
  /\ actor # target
  /\ role[target] \in MANAGEABLE_ROLES[actorRole]
  /\ newRole # Keep => newRole \in MANAGEABLE_ROLES[actorRole]

(* revoke_all_user_sessions for a user who gets a new password or a reset, *)
(* or at the wish of a principal; a password change then makes a session   *)
(* for its caller as a login does.                                         *)
RevokeSessions(u) ==
  /\ sessions[u] # {} /\ sessions' = [sessions EXCEPT ![u] = {}]
  /\ \/ login[u] # "none"
     \/ \E a \in Users :
          /\ Active(a) /\ sessions[a] # {} /\ role[a] \in Privileged
          /\ a = u \/ CanManage(a, role[a], u, Keep)
  /\ UNCHANGED <<accounts, login, handlers, requests, faults, excused>>

-----------------------------------------------------------------------------
(* Administrative requests *)

(* signup makes a PENDING analyst; create_user makes any account that the  *)
(* role of an active principal may assign.                                 *)
CreateUser(u) ==
  /\ status[u] = Absent
  /\ \/ role' = [role EXCEPT ![u] = "ANALYST"] /\ status' = [status EXCEPT ![u] = "PENDING"]
     \/ \E a \in Users : \E r \in MANAGEABLE_ROLES[role[a]], s \in Present :
          /\ Active(a) /\ sessions[a] # {}
          /\ role' = [role EXCEPT ![u] = r]
          /\ status' = [status EXCEPT ![u] = s]
  /\ requests < MaxRequests /\ requests' = requests + 1
  /\ UNCHANGED <<sessions, login, handlers, faults, excused>>

(* get_current_user and require_permission("users:update") *)
Authenticate(h) ==
  /\ pc[h] = "idle" /\ Goto(h, "read")
  /\ requests < MaxRequests /\ requests' = requests + 1
  /\ \E a \in Users :
       /\ Active(a) /\ sessions[a] # {} /\ role[a] \in Privileged
       /\ request' = [request EXCEPT ![h] = [@ EXCEPT !.actor = a, !.actorRole = role[a]]]
  /\ UNCHANGED <<accounts, sessions, login, faults, excused>>

(* What each operation asks for and requires of the target it has read.  A *)
(* request that is refused changes nothing and is left out.                *)
Asks(op, target, newRole, newStatus) ==
  \/ /\ op = "update" /\ newRole # role[target] /\ newStatus # status[target]
     /\ newRole # Keep \/ newStatus # Keep
  \/ /\ op = "approve" /\ newRole \in {"ANALYST", "SUPPORT"} /\ newStatus = "ACTIVE"
     /\ status[target] = "PENDING"
  \/ op = "disable" /\ newRole = Keep /\ newStatus = "DISABLED"
  \/ op = "enable" /\ newRole = Keep /\ newStatus = "ACTIVE"

Asked(op, target, newRole, newStatus) ==
  [NoRequest EXCEPT !.op = op, !.target = target, !.seenRole = role[target],
                    !.role = newRole, !.status = newStatus]

Read(h) ==
  /\ pc[h] = "read" /\ Goto(h, "commit")
  /\ \E op \in Operations, t \in Users, r \in Roles \cup {Keep}, s \in Present \cup {Keep} :
       /\ status[t] # Absent
       /\ CanManage(request[h].actor, request[h].actorRole, t, r)
       /\ Asks(op, t, r, s)
       /\ request' = [request EXCEPT ![h] = Asked(op, t, r, s)]
  /\ UNCHANGED <<accounts, sessions, login, requests, faults, excused>>

(* will_demote and will_deactivate go by what was read. *)
WillDemote(q) ==
  q.op = "update" /\ q.role # Keep /\ ROLE_RANK[q.role] < ROLE_RANK[q.seenRole]

WillDeactivate(q) ==
  \/ q.op = "disable"
  \/ q.op = "update" /\ q.status \notin {Keep, "ACTIVE"}

Removes(q) == WillDemote(q) \/ WillDeactivate(q)

(* Mutant: an administrator is enough, whoever is removed. *)
AnyPrincipalRemains(q) == \E u \in Supers \cup Admins : u # q.target

(* _ensure_principal_remains, with every active principal locked *)
PrincipalRemains(q) ==
  /\ q.seenRole = "SUPER_ADMIN" /\ q.target \in Supers => \E u \in Supers : u # q.target
  /\ q.seenRole = "ADMIN" /\ q.target \in Admins =>
       Supers # {} \/ \E u \in Admins : u # q.target

(* Mutant: the approval trusts what it has read. *)
AllowedUnchecked(q) == Removes(q) => PrincipalRemains(q)

(* the checks inside the transaction *)
Allowed(q) ==
  /\ Removes(q) => PrincipalRemains(q)
  /\ q.op = "approve" => status[q.target] = "PENDING"

(* an update writes the fields that differed from what was read *)
Writes(q) ==
  /\ role' = IF q.role = Keep THEN role ELSE [role EXCEPT ![q.target] = q.role]
  /\ status' = IF q.status = Keep THEN status ELSE [status EXCEPT ![q.target] = q.status]

(* A removal is followed by a revocation: from here on, the sessions and   *)
(* the logins of the target date from before.                              *)
Outdated(u) ==
  /\ sessions' = [sessions EXCEPT ![u] = IF @ = {} THEN {} ELSE {"before"}]
  /\ login' = [login EXCEPT ![u] = IF @ = "none" THEN @ ELSE "late"]

(* Mutant: the sessions are revoked first, then the account is written. *)
RevokedFirst(h) ==
  /\ pc[h] = "commit" /\ Answered(h)
  /\ Allowed(request[h]) /\ Writes(request[h])
  /\ IF Removes(request[h]) THEN Outdated(request[h].target) ELSE UNCHANGED <<sessions, login>>
  /\ UNCHANGED <<requests, faults, excused>>

Commit(h) ==
  /\ pc[h] = "commit"
  /\ Allowed(request[h]) /\ Writes(request[h])
  /\ IF Removes(request[h])
       THEN /\ Goto(h, "revoke") /\ Outdated(request[h].target)
            /\ request' = [request EXCEPT ![h] = [NoRequest EXCEPT !.target = request[h].target]]
       ELSE Answered(h) /\ UNCHANGED <<sessions, login>>
  /\ UNCHANGED <<requests, faults, excused>>

Refuse(h) ==
  /\ pc[h] = "commit" /\ ~Allowed(request[h]) /\ Answered(h)
  /\ UNCHANGED <<accounts, sessions, login, requests, faults, excused>>

(* revoke_all_user_sessions, in a transaction of its own *)
Revoke(h) ==
  /\ pc[h] = "revoke" /\ Answered(h)
  /\ sessions' = [sessions EXCEPT ![request[h].target] = {}]
  /\ UNCHANGED <<accounts, login, requests, faults, excused>>

Die(h) ==
  /\ pc[h] # "idle" /\ Answered(h)
  /\ faults < MaxFaults /\ faults' = faults + 1
  /\ excused' = IF pc[h] = "revoke" THEN excused \cup {request[h].target} ELSE excused
  /\ UNCHANGED <<accounts, sessions, login, requests>>

-----------------------------------------------------------------------------

Next ==
  \/ \E u \in Users :
       CheckPassword(u) \/ CreateSession(u) \/ Logout(u) \/ RevokeSessions(u) \/ CreateUser(u)
  \/ \E h \in Handlers :
       Authenticate(h) \/ Read(h) \/ Commit(h) \/ Refuse(h) \/ Revoke(h) \/ Die(h)

Spec == Init /\ [][Next]_vars

-----------------------------------------------------------------------------

PrincipalStays ==
  /\ Supers # {} => Supers' # {}
  /\ Supers \cup Admins # {} => (Supers \cup Admins)' # {}

(* The target of a request that commits has another role than was read. *)
Stale(h) == pc[h] = "commit" /\ pc'[h] # pc[h] /\ role[request[h].target] # request[h].seenRole

(* No request takes away the last active super administrator, nor the last *)
(* active principal, in any interleaving of requests; but one whose target *)
(* was promoted between its read and its transaction can.                  *)
LastPrincipalKept == [][PrincipalStays \/ \E h \in Handlers : Stale(h)]_vars

(* A request to enable the account, or to set its status, ends here. *)
Reactivates(h, u) ==
  /\ pc[h] = "commit" /\ pc'[h] # "commit"
  /\ request[h].target = u /\ request[h].status = "ACTIVE"
  /\ request[h].op \in {"enable", "update"}

(* Only the commit of a request to activate it gives a disabled account    *)
(* its access back: an approval that lost the race with a disabling does   *)
(* not, whatever other requests are waiting to commit.                     *)
DisabledStaysOut ==
  [][\A u \in Users : status[u] = "DISABLED" /\ status'[u] = "ACTIVE" =>
       \E h \in Handlers : Reactivates(h, u)]_vars

(* A session from before an account was disabled or demoted is revoked, or *)
(* will be by a request that is under way; the exceptions are a login that *)
(* had passed the check by then, and a request that died in between.       *)
RemovedIsRevoked ==
  \A u \in Users \ excused :
    "before" \in sessions[u] => \E h \in Handlers : pc[h] = "revoke" /\ request[h].target = u

=============================================================================
