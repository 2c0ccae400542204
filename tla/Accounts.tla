------------------------------- MODULE Accounts --------------------------------
(***************************************************************************)
(* Tenants, departments and users: the tables that decide who sees what,   *)
(* and the requests that change them.  Each request of the managers runs   *)
(* in transaction.atomic; a login does not, and saves the whole user it    *)
(* read before.  The account table is the part of the state that Projects  *)
(* builds on.                                                              *)
(***************************************************************************)
EXTENDS Naturals, FiniteSets

CONSTANTS
  Tenant,         \* ids of user_tenant
  Dept,           \* ids of user_department
  User,           \* ids of user
  Null,           \* null reference
  InitialTenants, InitialDept, InitialUser, \* what the installation starts with
  MaxRequests     \* bound: requests that change an account or a project

VARIABLES
  tenants, \* rows of user_tenant
  dept,    \* rows of user_department: tenant and parent
  user,    \* rows of user: role, tenant, departments, whether it may log in
  login,   \* the object a login has read and will save, or no login
  requests \* changing requests so far

Role   == {"none", "normal", "tenant", "super"}
NoDept == [tenant |-> Null, parent |-> Null]
NoUser == [role |-> "none", tenant |-> Null, depts |-> {}, active |-> FALSE]
DeptRow == [tenant: Tenant \cup {Null}, parent: Dept \cup {Null}]
UserRow == [role: Role, tenant: Tenant \cup {Null}, depts: SUBSET Dept, active: BOOLEAN]

AccountsInit ==
  /\ tenants = InitialTenants
  /\ dept = InitialDept
  /\ user = InitialUser
  /\ login = [u \in User |-> NoUser]
  /\ requests = 0

Exists(d) == dept[d].tenant # Null
Level(role) == CASE role = "super" -> 200 [] role = "tenant" -> 100 [] OTHER -> 0

(* UserPermission: a request needs an active user.                           *)
Requester(r) == user[r].role # "none" /\ user[r].active /\ requests < MaxRequests

Counted == requests' = requests + 1

\* User.get_departments: a super administrator has none.
GetDepartments(r) ==
  CASE user[r].role = "super"  -> {}
    [] user[r].role = "tenant" -> {d \in Dept : dept[d].tenant = user[r].tenant}
    [] OTHER                   -> user[r].depts

\* User.get_users
GetUsers(r) ==
  CASE user[r].role = "super"  -> {u \in User : user[u].role # "none"}
    [] user[r].role = "tenant" -> {u \in User : user[u].role # "none" /\ user[u].tenant = user[r].tenant}
    [] OTHER                   -> {r}

HasPrivilege(r, role, t) ==
  \/ user[r].role = "super"
  \/ /\ user[r].role = "tenant" /\ user[r].tenant = t
     /\ Level(role) <= Level("tenant")

--------------------------------------------------------------------------------
(* TenantManage and DepartmentManage.                                         *)

TenantAdd(r, t) ==
  /\ Requester(r) /\ user[r].role = "super"
  /\ t \notin tenants /\ \A u \in User : login[u].tenant # t \* a new id
  /\ tenants' = tenants \cup {t} /\ Counted
  /\ UNCHANGED <<dept, user, login>>

(* Refused while departments exist; users (and projects) go with the tenant.  *)
TenantDelete(r, t) ==
  /\ Requester(r) /\ user[r].role = "super"
  /\ t \in tenants
  /\ \A d \in Dept : dept[d].tenant # t
  /\ tenants' = tenants \ {t} /\ Counted
  /\ user' = [u \in User |-> IF user[u].tenant = t THEN NoUser ELSE user[u]]
  /\ UNCHANGED <<dept, login>>

(* A super administrator names the tenant, a tenant administrator adds to its
   own; a parent must belong to that tenant.                                  *)
DeptAdd(r, d, t, parent) ==
  /\ Requester(r)
  /\ ~Exists(d) /\ t \in tenants
  /\ parent # Null => dept[parent].tenant = t
  /\ user[r].role = "tenant" => t = user[r].tenant
  /\ user[r].role # "normal"
  /\ dept' = [dept EXCEPT ![d] = [tenant |-> t, parent |-> parent]] /\ Counted
  /\ UNCHANGED <<tenants, user, login>>

(* Refused while users belong to it; children lose their parent.              *)
DeptDelete(r, d) ==
  /\ Requester(r)
  /\ Exists(d) /\ d \in GetDepartments(r)
  /\ \A u \in User : d \notin user[u].depts
  /\ dept' = [x \in Dept |-> IF x = d THEN NoDept
                             ELSE IF dept[x].parent = d THEN [dept[x] EXCEPT !.parent = Null] ELSE dept[x]]
  /\ Counted
  /\ UNCHANGED <<tenants, user, login>>

(* Any department the requester sees may become the parent, the department
   itself included.                                                           *)
DeptUpdate(r, d, parent) ==
  /\ Requester(r) /\ user[r].role # "normal"
  /\ {d, parent} \subseteq GetDepartments(r)
  /\ dept' = [dept EXCEPT ![d].parent = parent] /\ Counted
  /\ UNCHANGED <<tenants, user, login>>

--------------------------------------------------------------------------------
(* UserManage.                                                                *)

UserCreate(r, u, role, t, D) ==
  /\ Requester(r)
  /\ user[u].role = "none" /\ login[u] = NoUser /\ t \in tenants
  /\ HasPrivilege(r, role, t)
  /\ user' = [user EXCEPT ![u] = [role |-> role, tenant |-> t, depts |-> D \cap GetDepartments(r), active |-> TRUE]]
  /\ Counted
  /\ UNCHANGED <<tenants, dept, login>>

(* The role is changed in memory before the privilege is checked; an empty
   list of departments leaves them as they are.                               *)
UserUpdate(r, u, role, D) ==
  /\ Requester(r)
  /\ u \in GetUsers(r) /\ user[u].tenant # Null
  /\ HasPrivilege(r, role, user[u].tenant)
  /\ user' = [user EXCEPT ![u].role = role,
                          ![u].depts = IF D = {} THEN @ ELSE D \cap GetDepartments(r)]
  /\ Counted
  /\ UNCHANGED <<tenants, dept, login>>

UserDelete(r, u) ==
  /\ Requester(r)
  /\ u \in GetUsers(r)
  /\ user' = [user EXCEPT ![u] = NoUser] /\ Counted
  /\ UNCHANGED <<tenants, dept, login>>

UserLock(r, u) ==
  /\ Requester(r)
  /\ u \in GetUsers(r) /\ user[u].active
  /\ user' = [user EXCEPT ![u].active = FALSE] /\ Counted
  /\ UNCHANGED <<tenants, dept, login>>

UserUnlock(r, u) ==
  /\ Requester(r)
  /\ u \in GetUsers(r) /\ ~user[u].active
  /\ user' = [user EXCEPT ![u].active = TRUE] /\ Counted
  /\ UNCHANGED <<tenants, dept, login>>

--------------------------------------------------------------------------------
(* UserLogin.post: with the right password or a wrong one the active user is
   read, its counter of failures is changed and every column is saved.  The
   departments are in a table of their own.                                   *)

LoginRead(u) ==
  /\ login[u] = NoUser /\ requests < MaxRequests
  /\ user[u].role # "none" /\ user[u].active
  /\ login' = [login EXCEPT ![u] = user[u]]
  /\ UNCHANGED <<tenants, dept, user, requests>>

(* save() of a row that was deleted inserts it again, if its tenant is there. *)
LoginSave(u) ==
  /\ login[u] # NoUser
  /\ login' = [login EXCEPT ![u] = NoUser]
  /\ IF login[u].tenant \in tenants \cup {Null}
       THEN user' = [user EXCEPT ![u] = [login[u] EXCEPT !.depts = user[u].depts]]
       ELSE UNCHANGED user
  /\ UNCHANGED <<tenants, dept, requests>>

--------------------------------------------------------------------------------

AccountsTypeOK ==
  /\ tenants \in SUBSET Tenant
  /\ dept \in [Dept -> DeptRow]
  /\ user \in [User -> UserRow] /\ login \in [User -> UserRow]
  /\ requests \in 0..MaxRequests

(* Departments hang together within a tenant, users belong to departments of
   their own tenant only.                                                     *)
AccountsSeparate ==
  /\ \A d \in Dept : dept[d].parent # Null => dept[dept[d].parent].tenant = dept[d].tenant
  /\ \A u \in User : \A d \in user[u].depts : dept[d].tenant = user[u].tenant
================================================================================
