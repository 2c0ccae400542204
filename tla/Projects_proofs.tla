---------------------------- MODULE Projects_proofs ----------------------------
(* Proofs about projects and accounts in Management, for any number of tenants, *)
(* departments, users, projects and versions.                                   *)
EXTENDS Management, FiniteSetTheorems, TLAPS

--------------------------------------------------------------------------------
(* Accounts.                                                                    *)

\* A department that is gone has no parent.
DeptsKnown == \A d \in Dept : ~projects!Exists(d) => dept[d].parent = None

\* Only a super administrator has no tenant, and departments of users are there.
UsersKnown == \A u \in Account :
  /\ user[u].role = "none" => user[u] = projects!NoUser
  /\ user[u].tenant = None => user[u].role \in {"none", "super"}
  /\ \A d \in user[u].depts : projects!Exists(d)

\* A login saves nobody into another tenant.
LoginsKnown == \A u \in Account : login[u] # projects!NoUser =>
  /\ login[u].role # "none"
  /\ login[u].tenant = None => login[u].role = "super"
  /\ user[u] = projects!NoUser \/ user[u].tenant = login[u].tenant

AccountsSafe == /\ projects!AccountsTypeOK /\ projects!AccountsSeparate
                /\ DeptsKnown /\ UsersKnown /\ LoginsKnown

\* No department that is there changes its tenant.
DeptsStay == \A d \in Dept : projects!Exists(d) => dept'[d].tenant = dept[d].tenant

\* What a requester may do depends on its role.
LEMMA RequesterKnown ==
  ASSUME AccountsSafe, NEW r \in Account, projects!Requester(r)
  PROVE  /\ user[r].role \in {"normal", "tenant", "super"}
         /\ user[r].role # "super" => user[r].tenant \in Tenant
         /\ requests + 1 \in 0..MaxRequests
         /\ projects!GetDepartments(r) \subseteq Dept
         /\ \A d \in projects!GetDepartments(r) :
              projects!Exists(d) /\ dept[d].tenant = user[r].tenant
<1>1. /\ user[r] \in projects!UserRow /\ user[r].role # "none"
      /\ requests + 1 \in 0..MaxRequests
  BY ManagementAssumption DEF AccountsSafe, projects!AccountsTypeOK, projects!Requester
<1>2. /\ user[r].role \in {"normal", "tenant", "super"}
      /\ user[r].role # "super" => user[r].tenant \in Tenant
      /\ user[r].depts \subseteq Dept
  BY <1>1 DEF AccountsSafe, UsersKnown, projects!UserRow, projects!Role
<1>3. ASSUME NEW d \in projects!GetDepartments(r)
      PROVE  d \in Dept /\ projects!Exists(d) /\ dept[d].tenant = user[r].tenant
  <2>1. CASE user[r].role = "tenant"
    BY <1>2, <1>3, <2>1, ManagementAssumption DEF projects!GetDepartments, projects!Exists
  <2>2. CASE user[r].role = "normal"
    BY <1>2, <1>3, <2>2 DEF projects!GetDepartments, AccountsSafe, UsersKnown, projects!AccountsSeparate
  <2>3. CASE user[r].role = "super"
    BY <1>3, <2>3 DEF projects!GetDepartments
  <2>. QED BY <1>2, <2>1, <2>2, <2>3
<1>. QED BY <1>1, <1>2, <1>3

\* Requests for users leave departments alone; what they write for one user u.
LEMMA UserWritten ==
  ASSUME AccountsSafe, NEW u \in Account, NEW row \in projects!UserRow,
         user' = [user EXCEPT ![u] = row],
         UNCHANGED <<tenants, dept, login>>, requests' \in 0..MaxRequests,
         row.role = "none" => row = projects!NoUser,
         row.tenant = None => row.role \in {"none", "super"},
         \A d \in row.depts : projects!Exists(d) /\ dept[d].tenant = row.tenant,
         \/ login[u] = projects!NoUser \/ row = projects!NoUser
         \/ user[u] # projects!NoUser /\ row.tenant = user[u].tenant
  PROVE  AccountsSafe'
<1>1. /\ user \in [Account -> projects!UserRow] /\ user' \in [Account -> projects!UserRow]
      /\ user'[u] = row /\ \A x \in Account : x # u => user'[x] = user[x]
  BY DEF AccountsSafe, projects!AccountsTypeOK
<1>2. projects!AccountsTypeOK' /\ DeptsKnown'
  BY <1>1 DEF AccountsSafe, projects!AccountsTypeOK, DeptsKnown, projects!Exists
<1>3. projects!AccountsSeparate'
  BY <1>1 DEF AccountsSafe, projects!AccountsSeparate
<1>4. UsersKnown'
  BY <1>1 DEF AccountsSafe, UsersKnown, projects!Exists
<1>5. LoginsKnown'
  <2>1. ASSUME NEW x \in Account, login[x] # projects!NoUser
        PROVE  user'[x] = projects!NoUser \/ user'[x].tenant = login[x].tenant
    <3>1. CASE x # u
      BY <1>1, <2>1, <3>1 DEF AccountsSafe, LoginsKnown
    <3>2. CASE x = u
      <4>1. login[u] # projects!NoUser /\ (user[u] = projects!NoUser \/ user[u].tenant = login[u].tenant)
        BY <2>1, <3>2 DEF AccountsSafe, LoginsKnown
      <4>. QED BY <1>1, <2>1, <3>2, <4>1
    <3>. QED BY <3>1, <3>2
  <2>. QED BY <2>1 DEF AccountsSafe, LoginsKnown
<1>. QED BY <1>2, <1>3, <1>4, <1>5 DEF AccountsSafe

\* Who is among the users a requester sees is a user.
LEMMA SeenUser ==
  ASSUME AccountsSafe, NEW r \in Account, projects!Requester(r), NEW u \in projects!GetUsers(r)
  PROVE  user[u].role # "none" /\ user[u] # projects!NoUser
<1>1. user[u].role # "none"
  BY RequesterKnown DEF projects!GetUsers
<1>. QED BY <1>1 DEF projects!NoUser

\* UserManage: a new user.
LEMMA UserCreateSafe ==
  ASSUME AccountsSafe, NEW r \in Account, NEW u \in Account, NEW role \in projects!Role \ {"none"},
         NEW t \in Tenant, NEW D \in SUBSET Dept, projects!UserCreate(r, u, role, t, D)
  PROVE  AccountsSafe' /\ UNCHANGED <<tenants, dept>>
<1>1. PICK row : row = [role |-> role, tenant |-> t, depts |-> D \cap projects!GetDepartments(r), active |-> TRUE]
  OBVIOUS
<1>2. /\ user' = [user EXCEPT ![u] = row] /\ UNCHANGED <<tenants, dept, login>>
      /\ requests' = requests + 1 /\ login[u] = projects!NoUser
      /\ projects!Requester(r) /\ projects!HasPrivilege(r, role, t)
  BY <1>1 DEF projects!UserCreate, projects!Counted
<1>3. row \in projects!UserRow /\ row.role # "none" /\ row.tenant = t /\ t # None
  BY <1>1, ManagementAssumption DEF projects!UserRow
<1>4. \A d \in row.depts : projects!Exists(d) /\ dept[d].tenant = t
  <2>1. CASE user[r].role = "super"
    BY <1>1, <2>1 DEF projects!GetDepartments
  <2>2. CASE user[r].role = "tenant" /\ user[r].tenant = t
    BY <1>1, <1>2, <2>2, RequesterKnown
  <2>. QED BY <1>2, <2>1, <2>2 DEF projects!HasPrivilege
<1>5. requests' \in 0..MaxRequests
  BY <1>2, RequesterKnown
<1>. QED BY <1>2, <1>3, <1>4, <1>5, UserWritten

\* ... another role or other departments.
LEMMA UserUpdateSafe ==
  ASSUME AccountsSafe, NEW r \in Account, NEW u \in Account, NEW role \in projects!Role \ {"none"},
         NEW D \in SUBSET Dept, projects!UserUpdate(r, u, role, D)
  PROVE  AccountsSafe' /\ UNCHANGED <<tenants, dept>>
<1>1. PICK S : S = IF D = {} THEN user[u].depts ELSE D \cap projects!GetDepartments(r)
  OBVIOUS
<1>2. PICK row : row = [user[u] EXCEPT !.role = role, !.depts = S]
  OBVIOUS
<1>3. user \in [Account -> projects!UserRow] /\ user[u] \in projects!UserRow
  BY DEF AccountsSafe, projects!AccountsTypeOK
<1>4. /\ UNCHANGED <<tenants, dept, login>>
      /\ requests' = requests + 1 /\ projects!Requester(r) /\ u \in projects!GetUsers(r)
      /\ user[u].tenant # None /\ projects!HasPrivilege(r, role, user[u].tenant)
  BY DEF projects!UserUpdate, projects!Counted
<1>5. user' = [user EXCEPT ![u] = row]
  BY <1>1, <1>2, <1>3 DEF projects!UserUpdate
<1>6. S \subseteq Dept /\ \A d \in S : projects!Exists(d) /\ dept[d].tenant = user[u].tenant
  <2>1. CASE D = {}
    BY <1>1, <1>3, <2>1 DEF AccountsSafe, UsersKnown, projects!AccountsSeparate, projects!UserRow
  <2>2. CASE D # {} /\ user[r].role = "super"
    BY <1>1, <2>2 DEF projects!GetDepartments
  <2>3. CASE D # {} /\ user[r].role = "tenant" /\ user[r].tenant = user[u].tenant
    BY <1>1, <1>4, <2>3, RequesterKnown
  <2>. QED BY <1>4, <2>1, <2>2, <2>3 DEF projects!HasPrivilege
<1>7. row \in projects!UserRow /\ row.role # "none" /\ row.tenant = user[u].tenant /\ row.depts = S
  BY <1>2, <1>3, <1>6 DEF projects!UserRow
<1>8. requests' \in 0..MaxRequests /\ user[u] # projects!NoUser
  BY <1>4, RequesterKnown, SeenUser
<1>. QED BY <1>4, <1>5, <1>6, <1>7, <1>8, UserWritten

\* ... deletion.
LEMMA UserDeleteSafe ==
  ASSUME AccountsSafe, NEW r \in Account, NEW u \in Account, projects!UserDelete(r, u)
  PROVE  AccountsSafe' /\ UNCHANGED <<tenants, dept>>
<1>1. /\ user' = [user EXCEPT ![u] = projects!NoUser] /\ UNCHANGED <<tenants, dept, login>>
      /\ requests' = requests + 1 /\ projects!Requester(r)
  BY DEF projects!UserDelete, projects!Counted
<1>2. /\ projects!NoUser \in projects!UserRow /\ projects!NoUser.role = "none" /\ projects!NoUser.depts = {}
  BY DEF projects!NoUser, projects!UserRow, projects!Role
<1>3. requests' \in 0..MaxRequests
  BY <1>1, RequesterKnown
<1>. QED BY <1>1, <1>2, <1>3, UserWritten

\* ... and whether one may log in.
LEMMA UserLockSafe ==
  ASSUME AccountsSafe, NEW r \in Account, NEW u \in Account,
         projects!UserLock(r, u) \/ projects!UserUnlock(r, u)
  PROVE  AccountsSafe' /\ UNCHANGED <<tenants, dept>>
<1>1. user \in [Account -> projects!UserRow] /\ user[u] \in projects!UserRow
  BY DEF AccountsSafe, projects!AccountsTypeOK
<1>2. PICK b \in BOOLEAN : user' = [user EXCEPT ![u].active = b]
  BY DEF projects!UserLock, projects!UserUnlock
<1>3. /\ UNCHANGED <<tenants, dept, login>>
      /\ requests' = requests + 1 /\ projects!Requester(r) /\ u \in projects!GetUsers(r)
  BY DEF projects!UserLock, projects!UserUnlock, projects!Counted
<1>4. PICK row : row = [user[u] EXCEPT !.active = b]
  OBVIOUS
<1>5. user' = [user EXCEPT ![u] = row]
  BY <1>1, <1>2, <1>4
<1>6. /\ row \in projects!UserRow /\ row.role = user[u].role /\ row.tenant = user[u].tenant
      /\ row.depts = user[u].depts
  BY <1>1, <1>4 DEF projects!UserRow
<1>7. requests' \in 0..MaxRequests /\ user[u] # projects!NoUser /\ user[u].role # "none"
  BY <1>3, RequesterKnown, SeenUser
<1>8. /\ row.tenant = None => row.role \in {"none", "super"}
      /\ \A d \in row.depts : projects!Exists(d) /\ dept[d].tenant = row.tenant
  BY <1>6 DEF AccountsSafe, UsersKnown, projects!AccountsSeparate
<1>. QED BY <1>3, <1>5, <1>6, <1>7, <1>8, UserWritten

\* All of UserManage.
LEMMA ManageUsersSafe ==
  ASSUME AccountsSafe, NEW r \in Account, NEW u \in Account, projects!ManageUsers(r, u)
  PROVE  AccountsSafe' /\ UNCHANGED <<tenants, dept>>
<1>1. \/ \E role \in projects!Role \ {"none"}, D \in SUBSET Dept, t \in Tenant : projects!UserCreate(r, u, role, t, D)
      \/ \E role \in projects!Role \ {"none"}, D \in SUBSET Dept : projects!UserUpdate(r, u, role, D)
      \/ projects!UserLock(r, u) \/ projects!UserUnlock(r, u) \/ projects!UserDelete(r, u)
  BY DEF projects!ManageUsers
<1>. QED BY <1>1, UserCreateSafe, UserUpdateSafe, UserLockSafe, UserDeleteSafe

--------------------------------------------------------------------------------
(* Tenants and departments.                                                     *)

\* TenantManage: a new tenant.
LEMMA TenantAddSafe ==
  ASSUME AccountsSafe, NEW r \in Account, NEW t \in Tenant, projects!TenantAdd(r, t)
  PROVE  AccountsSafe' /\ UNCHANGED <<dept, user>>
<1>1. /\ tenants' = tenants \cup {t} /\ requests' = requests + 1 /\ UNCHANGED <<dept, user, login>>
      /\ projects!Requester(r)
  BY DEF projects!TenantAdd, projects!Counted
<1>2. requests' \in 0..MaxRequests
  BY <1>1, RequesterKnown
<1>. QED BY <1>1, <1>2 DEF AccountsSafe, projects!AccountsTypeOK, projects!AccountsSeparate,
                           DeptsKnown, UsersKnown, LoginsKnown, projects!Exists

\* ... one that goes with its users.
LEMMA TenantDeleteSafe ==
  ASSUME AccountsSafe, NEW r \in Account, NEW t \in Tenant, projects!TenantDelete(r, t)
  PROVE  AccountsSafe' /\ UNCHANGED dept
<1>1. /\ tenants' = tenants \ {t} /\ requests' = requests + 1 /\ UNCHANGED <<dept, login>>
      /\ projects!Requester(r)
      /\ user' = [u \in Account |-> IF user[u].tenant = t THEN projects!NoUser ELSE user[u]]
  BY DEF projects!TenantDelete, projects!Counted
<1>2. requests' \in 0..MaxRequests
  BY <1>1, RequesterKnown
<1>3. /\ projects!NoUser \in projects!UserRow /\ projects!NoUser.role = "none" /\ projects!NoUser.depts = {}
  BY DEF projects!NoUser, projects!UserRow, projects!Role
<1>4. \A u \in Account : user'[u] = projects!NoUser \/ user'[u] = user[u]
  BY <1>1
<1>5. user' \in [Account -> projects!UserRow]
  BY <1>1, <1>3 DEF AccountsSafe, projects!AccountsTypeOK
<1>6. projects!AccountsTypeOK' /\ DeptsKnown'
  BY <1>1, <1>2, <1>5 DEF AccountsSafe, projects!AccountsTypeOK, DeptsKnown, projects!Exists
<1>7. projects!AccountsSeparate'
  BY <1>1, <1>3, <1>4 DEF AccountsSafe, projects!AccountsSeparate
<1>8. UsersKnown'
  BY <1>1, <1>3, <1>4 DEF AccountsSafe, UsersKnown, projects!Exists
<1>9. LoginsKnown'
  BY <1>1, <1>4 DEF AccountsSafe, LoginsKnown
<1>. QED BY <1>1, <1>6, <1>7, <1>8, <1>9 DEF AccountsSafe

\* DepartmentManage: a new department, below one of its tenant.
LEMMA DeptAddSafe ==
  ASSUME AccountsSafe, NEW r \in Account, NEW d \in Dept, NEW t \in Tenant, NEW parent \in Dept \cup {None},
         projects!DeptAdd(r, d, t, parent)
  PROVE  AccountsSafe' /\ DeptsStay /\ UNCHANGED user
<1>1. PICK row : row = [tenant |-> t, parent |-> parent]
  OBVIOUS
<1>2. /\ dept' = [dept EXCEPT ![d] = row] /\ UNCHANGED <<tenants, user, login>>
      /\ requests' = requests + 1 /\ projects!Requester(r)
      /\ ~projects!Exists(d) /\ (parent # None => dept[parent].tenant = t)
  BY <1>1 DEF projects!DeptAdd, projects!Counted
<1>3. requests' \in 0..MaxRequests /\ t # None
  BY <1>2, RequesterKnown, ManagementAssumption
<1>4. /\ dept \in [Dept -> projects!DeptRow] /\ dept' \in [Dept -> projects!DeptRow]
      /\ dept'[d] = row /\ \A x \in Dept : x # d => dept'[x] = dept[x]
  BY <1>1, <1>2 DEF AccountsSafe, projects!AccountsTypeOK, projects!DeptRow
<1>5. DeptsStay
  BY <1>2, <1>4 DEF DeptsStay
<1>6. projects!AccountsTypeOK' /\ DeptsKnown'
  BY <1>1, <1>2, <1>3, <1>4 DEF AccountsSafe, projects!AccountsTypeOK, DeptsKnown, projects!Exists
<1>7. ASSUME NEW x \in Dept, dept'[x].parent # None
      PROVE  dept'[dept'[x].parent].tenant = dept'[x].tenant
  <2>1. CASE x = d
    BY <1>1, <1>2, <1>3, <1>4, <1>7, <2>1 DEF projects!Exists
  <2>2. CASE x # d
    <3>1. /\ dept'[x] = dept[x] /\ dept[x].parent \in Dept /\ projects!Exists(x)
          /\ dept[dept[x].parent].tenant = dept[x].tenant
      BY <1>4, <1>7, <2>2 DEF AccountsSafe, DeptsKnown, projects!AccountsSeparate, projects!DeptRow
    <3>2. dept[x].parent # d
      BY <1>2, <3>1 DEF projects!Exists
    <3>. QED BY <1>4, <3>1, <3>2
  <2>. QED BY <2>1, <2>2
<1>8. ASSUME NEW u \in Account, NEW x \in user[u].depts
      PROVE  x \in Dept /\ dept'[x].tenant = user[u].tenant /\ dept'[x].tenant # None
  <2>1. x \in Dept /\ projects!Exists(x) /\ dept[x].tenant = user[u].tenant
    BY <1>8 DEF AccountsSafe, UsersKnown, projects!AccountsSeparate, projects!AccountsTypeOK, projects!UserRow
  <2>. QED BY <1>2, <1>4, <2>1 DEF projects!Exists
<1>9. projects!AccountsSeparate' /\ UsersKnown' /\ LoginsKnown'
  BY <1>2, <1>7, <1>8 DEF AccountsSafe, projects!AccountsSeparate, UsersKnown, LoginsKnown, projects!Exists
<1>. QED BY <1>2, <1>5, <1>6, <1>9 DEF AccountsSafe

\* ... one that is deleted, which nobody belongs to.
LEMMA DeptDeleteSafe ==
  ASSUME AccountsSafe, NEW r \in Account, NEW d \in Dept, projects!DeptDelete(r, d)
  PROVE  /\ AccountsSafe' /\ UNCHANGED user
         /\ \A x \in Dept : x # d => dept'[x].tenant = dept[x].tenant
<1>1. /\ dept' = [x \in Dept |-> IF x = d THEN projects!NoDept
                                 ELSE IF dept[x].parent = d THEN [dept[x] EXCEPT !.parent = None] ELSE dept[x]]
      /\ requests' = requests + 1 /\ UNCHANGED <<tenants, user, login>>
      /\ projects!Requester(r) /\ \A u \in Account : d \notin user[u].depts
  BY DEF projects!DeptDelete, projects!Counted
<1>2. requests' \in 0..MaxRequests
  BY <1>1, RequesterKnown
<1>3. dept \in [Dept -> projects!DeptRow]
  BY DEF AccountsSafe, projects!AccountsTypeOK
<1>4. /\ projects!NoDept \in projects!DeptRow
      /\ projects!NoDept.tenant = None /\ projects!NoDept.parent = None
  BY DEF projects!NoDept, projects!DeptRow
<1>5. \A x \in Dept : dept[x].parent = d => /\ [dept[x] EXCEPT !.parent = None] \in projects!DeptRow
                                            /\ [dept[x] EXCEPT !.parent = None].tenant = dept[x].tenant
                                            /\ [dept[x] EXCEPT !.parent = None].parent = None
  BY <1>3 DEF projects!DeptRow
<1>6. /\ dept' \in [Dept -> projects!DeptRow]
      /\ dept'[d].tenant = None /\ dept'[d].parent = None
      /\ \A x \in Dept : x # d => /\ dept'[x].tenant = dept[x].tenant
                                  /\ dept'[x].parent = None \/ (dept'[x].parent = dept[x].parent /\ dept[x].parent # d)
  BY <1>1, <1>3, <1>4, <1>5
<1>7. projects!AccountsTypeOK' /\ DeptsKnown'
  BY <1>1, <1>2, <1>6 DEF AccountsSafe, projects!AccountsTypeOK, DeptsKnown, projects!Exists
<1>8. ASSUME NEW x \in Dept, dept'[x].parent # None
      PROVE  dept'[dept'[x].parent].tenant = dept'[x].tenant
  <2>1. /\ x # d /\ dept'[x].parent = dept[x].parent /\ dept[x].parent # d /\ dept[x].parent \in Dept
        /\ dept[dept[x].parent].tenant = dept[x].tenant
    BY <1>3, <1>6, <1>8 DEF AccountsSafe, projects!AccountsSeparate, projects!DeptRow
  <2>. QED BY <1>6, <2>1
<1>9. ASSUME NEW u \in Account, NEW x \in user[u].depts
      PROVE  x \in Dept /\ dept'[x].tenant = user[u].tenant /\ dept'[x].tenant # None
  <2>1. x \in Dept /\ x # d /\ projects!Exists(x) /\ dept[x].tenant = user[u].tenant
    BY <1>1, <1>9 DEF AccountsSafe, UsersKnown, projects!AccountsSeparate, projects!AccountsTypeOK, projects!UserRow
  <2>. QED BY <1>6, <2>1 DEF projects!Exists
<1>10. projects!AccountsSeparate' /\ UsersKnown' /\ LoginsKnown'
  BY <1>1, <1>8, <1>9 DEF AccountsSafe, projects!AccountsSeparate, UsersKnown, LoginsKnown, projects!Exists
<1>. QED BY <1>1, <1>6, <1>7, <1>10 DEF AccountsSafe

\* ... another parent.
LEMMA DeptUpdateSafe ==
  ASSUME AccountsSafe, NEW r \in Account, NEW d \in Dept, NEW parent \in Dept, projects!DeptUpdate(r, d, parent)
  PROVE  AccountsSafe' /\ DeptsStay /\ UNCHANGED user
<1>1. /\ dept' = [dept EXCEPT ![d].parent = parent] /\ requests' = requests + 1
      /\ UNCHANGED <<tenants, user, login>> /\ projects!Requester(r)
      /\ d \in projects!GetDepartments(r) /\ parent \in projects!GetDepartments(r)
  BY DEF projects!DeptUpdate, projects!Counted
<1>2. /\ requests' \in 0..MaxRequests
      /\ projects!Exists(d) /\ dept[d].tenant = dept[parent].tenant
  BY <1>1, RequesterKnown
<1>3. dept \in [Dept -> projects!DeptRow]
  BY DEF AccountsSafe, projects!AccountsTypeOK
<1>4. /\ dept' \in [Dept -> projects!DeptRow] /\ dept'[d].parent = parent
      /\ \A x \in Dept : /\ dept'[x].tenant = dept[x].tenant
                         /\ x # d => dept'[x].parent = dept[x].parent
  BY <1>1, <1>3 DEF projects!DeptRow
<1>5. projects!AccountsTypeOK' /\ DeptsKnown' /\ DeptsStay
  BY <1>1, <1>2, <1>4 DEF AccountsSafe, projects!AccountsTypeOK, DeptsKnown, DeptsStay, projects!Exists
<1>6. ASSUME NEW x \in Dept, dept'[x].parent # None
      PROVE  dept'[dept'[x].parent].tenant = dept'[x].tenant
  <2>1. CASE x = d
    BY <1>2, <1>4, <2>1
  <2>2. CASE x # d
    BY <1>3, <1>4, <1>6, <2>2 DEF AccountsSafe, projects!AccountsSeparate, projects!DeptRow
  <2>. QED BY <2>1, <2>2
<1>7. ASSUME NEW u \in Account, NEW x \in user[u].depts
      PROVE  x \in Dept /\ dept'[x].tenant = user[u].tenant /\ dept'[x].tenant # None
  <2>1. x \in Dept /\ projects!Exists(x) /\ dept[x].tenant = user[u].tenant
    BY <1>7 DEF AccountsSafe, UsersKnown, projects!AccountsSeparate, projects!AccountsTypeOK, projects!UserRow
  <2>. QED BY <1>4, <2>1 DEF projects!Exists
<1>8. projects!AccountsSeparate' /\ UsersKnown' /\ LoginsKnown'
  BY <1>1, <1>6, <1>7 DEF AccountsSafe, projects!AccountsSeparate, UsersKnown, LoginsKnown, projects!Exists
<1>. QED BY <1>1, <1>5, <1>8 DEF AccountsSafe

--------------------------------------------------------------------------------
(* Logins.                                                                      *)

\* The row a login reads.
LEMMA LoginReadSafe ==
  ASSUME AccountsSafe, NEW u \in Account, projects!LoginRead(u)
  PROVE  AccountsSafe' /\ UNCHANGED <<tenants, dept, user>>
<1>1. /\ login' = [login EXCEPT ![u] = user[u]] /\ user[u].role # "none"
      /\ UNCHANGED <<tenants, dept, user, requests>>
  BY DEF projects!LoginRead
<1>2. projects!AccountsTypeOK'
  BY <1>1 DEF AccountsSafe, projects!AccountsTypeOK
<1>3. LoginsKnown'
  BY <1>1 DEF AccountsSafe, projects!AccountsTypeOK, LoginsKnown, UsersKnown
<1>. QED BY <1>1, <1>2, <1>3 DEF AccountsSafe, projects!AccountsSeparate, DeptsKnown, UsersKnown, projects!Exists

\* The row it saves: that of a user who is there, or was deleted meanwhile.
LEMMA LoginSaveSafe ==
  ASSUME AccountsSafe, NEW u \in Account, projects!LoginSave(u)
  PROVE  AccountsSafe' /\ UNCHANGED <<tenants, dept>>
<1>1. /\ login[u] # projects!NoUser /\ login' = [login EXCEPT ![u] = projects!NoUser]
      /\ UNCHANGED <<tenants, dept, requests>>
      /\ user' = user \/ user' = [user EXCEPT ![u] = [login[u] EXCEPT !.depts = user[u].depts]]
  BY DEF projects!LoginSave
<1>2. PICK row : row = [login[u] EXCEPT !.depts = user[u].depts]
  OBVIOUS
<1>3. user[u] \in projects!UserRow /\ login[u] \in projects!UserRow
  BY DEF AccountsSafe, projects!AccountsTypeOK
<1>4. /\ row \in projects!UserRow /\ row.role = login[u].role /\ row.tenant = login[u].tenant
      /\ row.depts = user[u].depts
  BY <1>2, <1>3 DEF projects!UserRow
<1>5. /\ row.role # "none" /\ (row.tenant = None => row.role = "super")
      /\ user[u] = projects!NoUser \/ user[u].tenant = row.tenant
  BY <1>1, <1>4 DEF AccountsSafe, LoginsKnown
<1>6. \A d \in row.depts : projects!Exists(d) /\ dept[d].tenant = row.tenant
  <2>1. CASE user[u] = projects!NoUser
    BY <1>4, <2>1 DEF projects!NoUser
  <2>2. CASE user[u].tenant = row.tenant
    BY <1>4, <2>2 DEF AccountsSafe, UsersKnown, projects!AccountsSeparate
  <2>. QED BY <1>5, <2>1, <2>2
<1>7. /\ projects!NoUser \in projects!UserRow
  BY DEF projects!NoUser, projects!UserRow, projects!Role
<1>8. /\ login' \in [Account -> projects!UserRow] /\ user' \in [Account -> projects!UserRow]
      /\ \A x \in Account : x # u => login'[x] = login[x] /\ user'[x] = user[x]
      /\ login'[u] = projects!NoUser /\ (user'[u] = user[u] \/ user'[u] = row)
  BY <1>1, <1>2, <1>4, <1>7 DEF AccountsSafe, projects!AccountsTypeOK
<1>9. projects!AccountsTypeOK' /\ DeptsKnown'
  BY <1>1, <1>8 DEF AccountsSafe, projects!AccountsTypeOK, DeptsKnown, projects!Exists
<1>10. projects!AccountsSeparate'
  BY <1>1, <1>6, <1>8 DEF AccountsSafe, projects!AccountsSeparate
<1>11. UsersKnown'
  BY <1>1, <1>5, <1>6, <1>8 DEF AccountsSafe, UsersKnown, projects!Exists
<1>12. LoginsKnown'
  BY <1>8 DEF AccountsSafe, LoginsKnown
<1>. QED BY <1>1, <1>9, <1>10, <1>11, <1>12 DEF AccountsSafe

--------------------------------------------------------------------------------
(* Projects and versions.                                                       *)

ProjectsTyped ==
  /\ project \in [Project -> projects!ProjectRow]
  /\ version \in [Version -> [project: Project \cup {None}, name: VersionName \cup {None, Today}]]
  /\ agents \subseteq [token: Token, project: Project, version: Version, user: Account]
  /\ setting \in [Account -> [project: Project \cup {None}, row: projects!ProjectRow, version: Version \cup {None}]]

\* A project belongs to a tenant, with all of its departments.
ProjectsKnown == \A p \in Project :
  /\ ~projects!Present(p) => project[p] = projects!NoProject
  /\ projects!Present(p) => project[p].tenant # None
  /\ \A d \in project[p].depts : dept[d].tenant = project[p].tenant

\* A version goes with its project.
VersionsKnown ==
  /\ projects!VersionsOwn
  /\ \A v \in Version : version[v].project # None => projects!Present(version[v].project)

\* What was read of a project whose version is still there is its tenant.
SettingsKnown == \A u \in Account : setting[u] # projects!NoSetting =>
  /\ setting[u].project \in Project /\ setting[u].version \in Version
  /\ setting[u].row.name # None /\ setting[u].row.tenant # None
  /\ version[setting[u].version].project \in {setting[u].project, None}
  /\ version[setting[u].version].project # None =>
       project[setting[u].project].tenant = setting[u].row.tenant

TenantsSafe == AccountsSafe /\ ProjectsTyped /\ ProjectsKnown /\ VersionsKnown /\ SettingsKnown

\* Constants of the tables, and the types of their rows.
LEMMA NoRows ==
  /\ projects!NoProject \in projects!ProjectRow
  /\ projects!NoProject.name = None /\ projects!NoProject.tenant = None
  /\ projects!NoProject.depts = {} /\ projects!NoProject.current = None
  /\ projects!NoVersion.project = None
  /\ projects!NoVersion \in [project: Project \cup {None}, name: VersionName \cup {None, Today}]
  /\ projects!NoSetting \in [project: Project \cup {None}, row: projects!ProjectRow, version: Version \cup {None}]
  BY DEF projects!NoProject, projects!ProjectRow, projects!NoVersion, projects!NoSetting

\* A user sees projects that are there, of the own tenant.
LEMMA Sight ==
  ASSUME TenantsSafe, NEW u \in Account, NEW p \in projects!GetProjects(u)
  PROVE  /\ p \in Project /\ projects!Present(p)
         /\ project[p].tenant = user[u].tenant /\ user[u].tenant \in Tenant
<1>1. p \in Project /\ projects!Listed(u, p) > 0
  BY DEF projects!GetProjects
<1>2. projects!Present(p)
  BY <1>1 DEF projects!Listed
<1>3. project[p].tenant = user[u].tenant
  <2>1. CASE user[u].role = "tenant" \/ project[p].depts = {}
    BY <1>1, <1>2, <2>1 DEF projects!Listed
  <2>2. CASE user[u].role # "tenant" /\ project[p].depts # {}
    <3>1. projects!Cardinality(project[p].depts \cap projects!GetDepartments(u)) > 0
      BY <1>1, <1>2, <2>2 DEF projects!Listed
    <3>2. projects!Cardinality({}) = 0
      <4>1. projects!Cardinality({}) = Cardinality({})
        BY DEF projects!Cardinality, Cardinality, projects!IsFiniteSet, IsFiniteSet
      <4>. QED BY <4>1, FS_EmptySet
    <3>3. PICK d : d \in project[p].depts /\ d \in projects!GetDepartments(u)
      <4>1. CASE project[p].depts \cap projects!GetDepartments(u) = {}
        <5>1. projects!Cardinality(project[p].depts \cap projects!GetDepartments(u)) = 0
          BY <3>2, <4>1
        <5>. QED BY <3>1, <5>1
      <4>2. CASE project[p].depts \cap projects!GetDepartments(u) # {}
        BY <4>2
      <4>. QED BY <4>1, <4>2
    <3>4. user[u].role # "super"
      BY <3>3 DEF projects!GetDepartments
    <3>5. d \in user[u].depts
      BY <2>2, <3>3, <3>4 DEF projects!GetDepartments
    <3>6. dept[d].tenant = user[u].tenant /\ dept[d].tenant = project[p].tenant
      BY <1>1, <3>3, <3>5 DEF TenantsSafe, AccountsSafe, projects!AccountsSeparate, ProjectsKnown
    <3>. QED BY <3>6
  <2>. QED BY <2>1, <2>2
<1>4. project[p].tenant \in Tenant
  BY <1>1, <1>2 DEF TenantsSafe, ProjectsKnown, ProjectsTyped, projects!ProjectRow
<1>. QED BY <1>1, <1>2, <1>3, <1>4

\* Requests of the projects count, and leave the accounts alone.
LEMMA AccountsRest ==
  ASSUME AccountsSafe, UNCHANGED <<tenants, dept, user, login>>, requests' \in 0..MaxRequests
  PROVE  AccountsSafe'
  BY DEF AccountsSafe, projects!AccountsTypeOK, projects!AccountsSeparate, DeptsKnown, UsersKnown, LoginsKnown,
         projects!Exists

(* A project is written with its tenant, to departments of this tenant, and with
   versions that are its own or new.                                            *)
LEMMA ProjectWritten ==
  ASSUME TenantsSafe, NEW p \in Project, NEW row \in projects!ProjectRow,
         AccountsSafe', UNCHANGED dept,
         project' = [project EXCEPT ![p] = row],
         row.name # None /\ row.tenant # None,
         (projects!Present(p) /\ row.tenant = project[p].tenant) \/ p \in projects!NewProject,
         \A d \in row.depts : dept[d].tenant = row.tenant,
         version' \in [Version -> [project: Project \cup {None}, name: VersionName \cup {None, Today}]],
         \A v \in Version : \/ version'[v].project = version[v].project
                            \/ v \in projects!NewVersion /\ version'[v].project = p,
         row.current # None => version'[row.current].project = p,
         agents' \subseteq [token: Token, project: Project, version: Version, user: Account],
         \A a \in agents' : a \in agents \/ (a.project = p /\ version'[a.version].project = p),
         \A u \in Account : setting'[u] = setting[u] \/ setting'[u] = projects!NoSetting,
         setting' \in [Account -> [project: Project \cup {None}, row: projects!ProjectRow, version: Version \cup {None}]]
  PROVE  TenantsSafe'
<1>1. /\ project' \in [Project -> projects!ProjectRow] /\ project'[p] = row
      /\ \A q \in Project : q # p => project'[q] = project[q]
  BY DEF TenantsSafe, ProjectsTyped
<1>2. ProjectsTyped'
  BY <1>1 DEF ProjectsTyped
<1>3. ProjectsKnown'
  BY <1>1 DEF TenantsSafe, ProjectsKnown, projects!Present
<1>4. \A q \in Project : projects!Present(q) => project'[q].name # None
  BY <1>1 DEF projects!Present
<1>5. None \notin Project /\ None \notin Version
  BY ManagementAssumption
<1>6. ASSUME NEW v \in Version, NEW q \in Project, version[v].project = q
      PROVE  version'[v].project = q
  BY <1>5, <1>6 DEF projects!NewVersion
<1>7. ASSUME NEW q \in Project, project'[q].current # None
      PROVE  project'[q].current \in Version /\ version'[project'[q].current].project = q
  <2>1. CASE q = p
    BY <1>1, <1>7, <2>1 DEF projects!ProjectRow
  <2>2. CASE q # p
    <3>1. /\ project'[q].current = project[q].current /\ project[q].current \in Version
          /\ version[project[q].current].project = q
      BY <1>1, <1>7, <2>2 DEF TenantsSafe, VersionsKnown, projects!VersionsOwn, projects!Versions
    <3>. QED BY <1>6, <3>1
  <2>. QED BY <2>1, <2>2
<1>8. ASSUME NEW a \in agents'
      PROVE  /\ a.version \in Version /\ version'[a.version].project = a.project
             /\ a.project \in Project /\ project'[a.project].name # None
  <2>1. a.project \in Project /\ a.version \in Version
    BY <1>8
  <2>2. CASE a \in agents
    <3>1. version[a.version].project = a.project /\ projects!Present(a.project)
      BY <2>2 DEF TenantsSafe, VersionsKnown, projects!VersionsOwn, projects!Versions
    <3>. QED BY <1>4, <1>6, <2>1, <3>1
  <2>3. CASE a.project = p /\ version'[a.version].project = p
    BY <1>1, <2>1, <2>3
  <2>. QED BY <1>8, <2>2, <2>3
<1>9. ASSUME NEW v \in Version, version'[v].project # None
      PROVE  project'[version'[v].project].name # None
  <2>1. CASE version'[v].project = p
    BY <1>1, <2>1
  <2>2. CASE version'[v].project = version[v].project
    <3>1. version[v].project \in Project /\ projects!Present(version[v].project)
      BY <1>9, <2>2 DEF TenantsSafe, ProjectsTyped, VersionsKnown
    <3>. QED BY <1>4, <2>2, <3>1
  <2>. QED BY <2>1, <2>2
<1>10. VersionsKnown'
  BY <1>7, <1>8, <1>9 DEF VersionsKnown, projects!VersionsOwn, projects!Versions, projects!Present
<1>11. ASSUME NEW u \in Account, setting'[u] # projects!NoSetting
       PROVE  /\ setting'[u].project \in Project /\ setting'[u].version \in Version
              /\ setting'[u].row.name # None /\ setting'[u].row.tenant # None
              /\ version'[setting'[u].version].project \in {setting'[u].project, None}
              /\ version'[setting'[u].version].project # None =>
                   project'[setting'[u].project].tenant = setting'[u].row.tenant
  <2>1. PICK s : s = setting[u]
    OBVIOUS
  <2>2. /\ setting'[u] = s /\ setting[u] # projects!NoSetting
    BY <1>11, <2>1
  <2>3. /\ s.project \in Project /\ s.version \in Version /\ s.row.name # None /\ s.row.tenant # None
        /\ version[s.version].project \in {s.project, None}
        /\ version[s.version].project # None => project[s.project].tenant = s.row.tenant
    BY <2>1, <2>2 DEF TenantsSafe, SettingsKnown
  <2>4. version'[s.version].project = version[s.version].project
    BY <2>1, <2>3 DEF projects!NewVersion
  <2>5. version[s.version].project # None => project'[s.project].tenant = s.row.tenant
    <3>1. SUFFICES ASSUME version[s.version].project = s.project, s.project \in Project
                   PROVE  project'[s.project].tenant = s.row.tenant
      BY <2>3
    <3>2. projects!Present(s.project) /\ project[s.project].tenant = s.row.tenant
      BY <1>5, <2>3, <3>1 DEF TenantsSafe, VersionsKnown
    <3>3. CASE s.project = p
      <4>1. p \notin projects!NewProject
        BY <3>2, <3>3 DEF projects!NewProject
      <4>. QED BY <1>1, <3>2, <3>3, <4>1
    <3>4. CASE s.project # p
      BY <1>1, <3>1, <3>2, <3>4
    <3>. QED BY <3>3, <3>4
  <2>. QED BY <2>2, <2>3, <2>4, <2>5
<1>12. SettingsKnown'
  BY <1>11 DEF SettingsKnown
<1>. QED BY <1>2, <1>3, <1>10, <1>12 DEF TenantsSafe

\* A project of a user is one that is seen and not another's, or a new one.
LEMMA Target ==
  ASSUME TenantsSafe, NEW u \in Account, NEW p \in Project,
         p \in projects!GetProjects(u) \/ (p \in projects!NewProject /\ user[u].tenant # None)
  PROVE  /\ (projects!Present(p) /\ project[p].tenant = user[u].tenant) \/ p \in projects!NewProject
         /\ user[u].tenant \in Tenant /\ user[u].tenant # None
         /\ user[u].depts \subseteq Dept
         /\ \A d \in user[u].depts : dept[d].tenant = user[u].tenant
<1>1. user[u] \in projects!UserRow
  BY DEF TenantsSafe, AccountsSafe, projects!AccountsTypeOK
<1>2. \A d \in user[u].depts : dept[d].tenant = user[u].tenant
  BY DEF TenantsSafe, AccountsSafe, projects!AccountsSeparate
<1>3. CASE p \in projects!GetProjects(u)
  BY <1>1, <1>2, <1>3, Sight, ManagementAssumption DEF projects!UserRow
<1>4. CASE p \in projects!NewProject /\ user[u].tenant # None
  BY <1>1, <1>2, <1>4 DEF projects!UserRow
<1>. QED BY <1>3, <1>4

\* A version that is new is none of a project's.
LEMMA NewVersionKnown ==
  ASSUME NEW v \in projects!NewVersion
  PROVE  v \in Version /\ version[v].project = None
  BY DEF projects!NewVersion

\* An agent registers with a project and a version of it.
LEMMA RegisterSafe ==
  ASSUME TenantsSafe, NEW u \in Account, NEW token \in Token, NEW n \in Name, NEW vname \in VersionName \cup {None},
         projects!Register(u, token, n, vname)
  PROVE  TenantsSafe' /\ UNCHANGED setting
<1>1. PICK p, v :
        /\ p \in projects!RegisterProject(u, n) /\ v \in projects!RegisterVersion(p, vname)
        /\ project' = [project EXCEPT ![p] =
             [tenant |-> user[u].tenant, name |-> n, depts |-> projects!Departments(u, p),
              current |-> IF @.current = None THEN v ELSE @.current]]
        /\ version' = IF v \in projects!Versions(p) THEN version
                      ELSE [version EXCEPT ![v] = [project |-> p, name |-> IF vname = None THEN Today ELSE vname]]
        /\ agents' = agents \cup {[token |-> token, project |-> p, version |-> v, user |-> u]}
  BY DEF projects!Register
<1>2. /\ UNCHANGED <<tenants, dept, user, login, setting>> /\ requests' = requests + 1 /\ projects!Requester(u)
  BY DEF projects!Register, projects!Counted
<1>3. AccountsSafe'
  BY <1>2, RequesterKnown, AccountsRest DEF TenantsSafe
<1>4. p \in Project /\ (p \in projects!GetProjects(u) \/ (p \in projects!NewProject /\ user[u].tenant # None))
  BY <1>1 DEF projects!RegisterProject, projects!GetProjects, projects!NewProject
<1>5. v \in projects!Versions(p) \/ v \in projects!NewVersion
  <2>1. CASE projects!Present(p) /\ vname = None /\ project[p].current # None
    BY <1>1, <1>4, <2>1 DEF projects!RegisterVersion, TenantsSafe, VersionsKnown, projects!VersionsOwn
  <2>2. CASE ~(projects!Present(p) /\ vname = None /\ project[p].current # None)
    BY <1>1, <2>2 DEF projects!RegisterVersion
  <2>. QED BY <2>1, <2>2
<1>6. PICK row : row = [tenant |-> user[u].tenant, name |-> n, depts |-> projects!Departments(u, p),
                        current |-> IF project[p].current = None THEN v ELSE project[p].current]
  OBVIOUS
<1>7. /\ project \in [Project -> projects!ProjectRow] /\ project[p] \in projects!ProjectRow
      /\ version \in [Version -> [project: Project \cup {None}, name: VersionName \cup {None, Today}]]
      /\ agents \subseteq [token: Token, project: Project, version: Version, user: Account]
      /\ setting \in [Account -> [project: Project \cup {None}, row: projects!ProjectRow, version: Version \cup {None}]]
  BY <1>4 DEF TenantsSafe, ProjectsTyped
<1>8. project' = [project EXCEPT ![p] = row]
  BY <1>1, <1>6, <1>7
<1>9. v \in Version
  BY <1>5 DEF projects!Versions, projects!NewVersion
<1>10. /\ row \in projects!ProjectRow /\ row.name # None /\ row.tenant = user[u].tenant
       /\ row.depts \subseteq user[u].depts
       /\ row.current = v \/ row.current = project[p].current
  BY <1>4, <1>6, <1>7, <1>9, Target, ManagementAssumption DEF projects!Departments, projects!ProjectRow
<1>11. /\ version' \in [Version -> [project: Project \cup {None}, name: VersionName \cup {None, Today}]]
       /\ version'[v].project = p
       /\ \A w \in Version : \/ version'[w].project = version[w].project
                             \/ w \in projects!NewVersion /\ version'[w].project = p
  <2>1. CASE v \in projects!Versions(p)
    BY <1>1, <1>7, <2>1 DEF projects!Versions
  <2>2. CASE v \notin projects!Versions(p)
    <3>1. PICK r : r = [project |-> p, name |-> IF vname = None THEN Today ELSE vname]
      OBVIOUS
    <3>2. /\ r.project = p /\ r \in [project: Project \cup {None}, name: VersionName \cup {None, Today}]
      BY <1>4, <3>1
    <3>3. version' = [version EXCEPT ![v] = r]
      BY <1>1, <2>2, <3>1
    <3>. QED BY <1>5, <1>7, <1>9, <2>2, <3>2, <3>3
  <2>. QED BY <2>1, <2>2
<1>12. row.current # None => version'[row.current].project = p
  <2>1. SUFFICES ASSUME row.current # None, row.current = project[p].current
                 PROVE  version'[row.current].project = p
    BY <1>10, <1>11
  <2>2. row.current \in Version /\ version[row.current].project = p
    BY <1>4, <2>1 DEF TenantsSafe, VersionsKnown, projects!VersionsOwn, projects!Versions
  <2>3. row.current \notin projects!NewVersion
    BY <1>4, <2>2, NewVersionKnown, ManagementAssumption
  <2>. QED BY <1>11, <2>2, <2>3
<1>13. /\ agents' \subseteq [token: Token, project: Project, version: Version, user: Account]
       /\ \A a \in agents' : a \in agents \/ (a.project = p /\ version'[a.version].project = p)
  <2>1. PICK a : a = [token |-> token, project |-> p, version |-> v, user |-> u]
    OBVIOUS
  <2>2. /\ a \in [token: Token, project: Project, version: Version, user: Account]
        /\ a.project = p /\ a.version = v
    BY <1>4, <1>9, <2>1
  <2>3. agents' = agents \cup {a}
    BY <1>1, <2>1
  <2>. QED BY <1>7, <1>11, <2>2, <2>3
<1>14. \A d \in row.depts : dept[d].tenant = row.tenant
  BY <1>4, <1>10, Target
<1>15. /\ row.tenant # None
       /\ (projects!Present(p) /\ row.tenant = project[p].tenant) \/ p \in projects!NewProject
  BY <1>4, <1>10, Target
<1>. QED BY <1>2, <1>3, <1>4, <1>7, <1>8, <1>10, <1>11, <1>12, <1>13, <1>14, <1>15, ProjectWritten

\* ProjectAdd: a project with a new version.
LEMMA AddProjectSafe ==
  ASSUME TenantsSafe, NEW u \in Account, NEW pid \in Project \cup {None}, NEW n \in Name, NEW vname \in VersionName,
         projects!AddProject(u, pid, n, vname)
  PROVE  TenantsSafe' /\ UNCHANGED setting
<1>1. PICK p \in projects!AddTarget(u, pid, n), v \in projects!NewVersion :
        /\ version' = [version EXCEPT ![v] = [project |-> p, name |-> vname]]
        /\ project' = [project EXCEPT ![p] =
             [tenant |-> IF projects!Present(p) THEN project[p].tenant ELSE user[u].tenant,
              name |-> n, depts |-> user[u].depts, current |-> v]]
  BY DEF projects!AddProject
<1>2. /\ UNCHANGED <<tenants, dept, user, login, agents, setting>> /\ requests' = requests + 1
      /\ projects!Requester(u)
  BY DEF projects!AddProject, projects!Counted
<1>3. AccountsSafe'
  BY <1>2, RequesterKnown, AccountsRest DEF TenantsSafe
<1>4. p \in Project /\ (p \in projects!GetProjects(u) \/ (p \in projects!NewProject /\ user[u].tenant # None))
  BY <1>1 DEF projects!AddTarget, projects!GetProjects, projects!NewProject
<1>5. v \in Version /\ version[v].project = None
  BY NewVersionKnown
<1>6. PICK row : row = [tenant |-> IF projects!Present(p) THEN project[p].tenant ELSE user[u].tenant,
                        name |-> n, depts |-> user[u].depts, current |-> v]
  OBVIOUS
<1>7. project' = [project EXCEPT ![p] = row]
  BY <1>1, <1>6
<1>8. /\ row \in projects!ProjectRow /\ row.name # None /\ row.tenant = user[u].tenant
      /\ row.depts = user[u].depts /\ row.current = v
  BY <1>4, <1>5, <1>6, Target, ManagementAssumption DEF projects!ProjectRow, projects!NewProject
<1>9. PICK w : w = [project |-> p, name |-> vname]
  OBVIOUS
<1>10. w \in [project: Project \cup {None}, name: VersionName \cup {None, Today}] /\ w.project = p
  BY <1>4, <1>9
<1>11. /\ version' \in [Version -> [project: Project \cup {None}, name: VersionName \cup {None, Today}]]
       /\ version'[v].project = p
       /\ \A x \in Version : x # v => version'[x] = version[x]
  BY <1>1, <1>5, <1>9, <1>10 DEF TenantsSafe, ProjectsTyped
<1>12. \A x \in Version : \/ version'[x].project = version[x].project
                          \/ x \in projects!NewVersion /\ version'[x].project = p
  BY <1>11
<1>13. /\ row.tenant # None /\ \A d \in row.depts : dept[d].tenant = row.tenant
       /\ (projects!Present(p) /\ row.tenant = project[p].tenant) \/ p \in projects!NewProject
  BY <1>4, <1>8, Target
<1>14. /\ agents' \subseteq [token: Token, project: Project, version: Version, user: Account]
       /\ setting' \in [Account -> [project: Project \cup {None}, row: projects!ProjectRow, version: Version \cup {None}]]
  BY <1>2 DEF TenantsSafe, ProjectsTyped
<1>. QED BY <1>2, <1>3, <1>4, <1>7, <1>8, <1>11, <1>12, <1>13, <1>14, ProjectWritten

\* ... or with one of its versions renamed.
LEMMA AddProjectVersionSafe ==
  ASSUME TenantsSafe, NEW u \in Account, NEW pid \in Project \cup {None}, NEW n \in Name, NEW vid \in Version,
         NEW vname \in VersionName, projects!AddProjectVersion(u, pid, n, vid, vname)
  PROVE  TenantsSafe' /\ UNCHANGED setting
<1>1. PICK p \in projects!AddTarget(u, pid, n) :
        IF vid \in projects!Versions(p) /\ projects!Present(p)
          THEN /\ version' = [version EXCEPT ![vid].name = vname]
               /\ project' = [project EXCEPT ![p].name = n, ![p].depts = user[u].depts]
          ELSE /\ project' = IF projects!Present(p) THEN project
                             ELSE [project EXCEPT ![p] = [projects!NoProject EXCEPT
                               !.tenant = IF projects!Present(p) THEN project[p].tenant ELSE user[u].tenant, !.name = n]]
               /\ UNCHANGED version
  BY DEF projects!AddProjectVersion
<1>2. /\ UNCHANGED <<tenants, dept, user, login, agents, setting>> /\ requests' = requests + 1
      /\ projects!Requester(u)
  BY DEF projects!AddProjectVersion, projects!Counted
<1>3. AccountsSafe'
  BY <1>2, RequesterKnown, AccountsRest DEF TenantsSafe
<1>4. p \in Project /\ (p \in projects!GetProjects(u) \/ (p \in projects!NewProject /\ user[u].tenant # None))
  BY <1>1 DEF projects!AddTarget, projects!GetProjects, projects!NewProject
<1>5. /\ project \in [Project -> projects!ProjectRow] /\ project[p] \in projects!ProjectRow
      /\ version \in [Version -> [project: Project \cup {None}, name: VersionName \cup {None, Today}]]
  BY <1>4 DEF TenantsSafe, ProjectsTyped
<1>7. PICK row \in projects!ProjectRow :
        /\ project' = [project EXCEPT ![p] = row]
        /\ row.name # None /\ row.tenant # None
        /\ (projects!Present(p) /\ row.tenant = project[p].tenant) \/ p \in projects!NewProject
        /\ \A d \in row.depts : dept[d].tenant = row.tenant
        /\ row.current \in {None, project[p].current}
  <2>1. CASE vid \in projects!Versions(p) /\ projects!Present(p)
    <3>1. PICK row : row = [project[p] EXCEPT !.name = n, !.depts = user[u].depts]
      OBVIOUS
    <3>2. project' = [project EXCEPT ![p] = row]
      BY <1>1, <1>4, <1>5, <2>1, <3>1
    <3>3. project[p].tenant = user[u].tenant
      BY <1>4, <2>1, Target DEF projects!NewProject
    <3>4. /\ row \in projects!ProjectRow /\ row.name # None /\ row.tenant = project[p].tenant
          /\ row.depts = user[u].depts /\ row.current = project[p].current
      BY <1>4, <1>5, <3>1, Target, ManagementAssumption DEF projects!ProjectRow
    <3>. QED BY <1>4, <2>1, <3>2, <3>3, <3>4, Target
  <2>2. CASE ~(vid \in projects!Versions(p) /\ projects!Present(p)) /\ projects!Present(p)
    <3>1. project' = [project EXCEPT ![p] = project[p]]
      BY <1>1, <1>5, <2>2
    <3>2. /\ project[p].name # None /\ project[p].tenant # None
          /\ \A d \in project[p].depts : dept[d].tenant = project[p].tenant
      BY <1>4, <2>2 DEF projects!Present, TenantsSafe, ProjectsKnown
    <3>. QED BY <1>5, <2>2, <3>1, <3>2
  <2>3. CASE ~projects!Present(p)
    <3>1. PICK row : row = [projects!NoProject EXCEPT !.tenant = user[u].tenant, !.name = n]
      OBVIOUS
    <3>2. project' = [project EXCEPT ![p] = row]
      BY <1>1, <2>3, <3>1
    <3>3. /\ row \in projects!ProjectRow /\ row.name # None /\ row.tenant = user[u].tenant
          /\ row.depts = {} /\ row.current = None
      BY <1>4, <3>1, Target, ManagementAssumption DEF projects!ProjectRow, projects!NoProject
    <3>. QED BY <1>4, <2>3, <3>2, <3>3, Target
  <2>. QED BY <2>1, <2>2, <2>3
<1>8. /\ version' \in [Version -> [project: Project \cup {None}, name: VersionName \cup {None, Today}]]
      /\ \A x \in Version : version'[x].project = version[x].project
  BY <1>1, <1>5
<1>9. row.current # None => version'[row.current].project = p
  BY <1>4, <1>7, <1>8 DEF TenantsSafe, VersionsKnown, projects!VersionsOwn, projects!Versions
<1>10. /\ agents' \subseteq [token: Token, project: Project, version: Version, user: Account]
       /\ setting' \in [Account -> [project: Project \cup {None}, row: projects!ProjectRow, version: Version \cup {None}]]
  BY <1>2 DEF TenantsSafe, ProjectsTyped
<1>. QED BY <1>2, <1>3, <1>4, <1>7, <1>8, <1>9, <1>10, ProjectWritten

\* A project that is written as it is.
LEMMA VersionWritten ==
  ASSUME TenantsSafe, NEW p \in Project, projects!Present(p),
         UNCHANGED <<tenants, dept, user, login, project, agents, setting>>, requests' \in 0..MaxRequests,
         version' \in [Version -> [project: Project \cup {None}, name: VersionName \cup {None, Today}]],
         \A v \in Version : \/ version'[v].project = version[v].project
                            \/ v \in projects!NewVersion /\ version'[v].project = p
  PROVE  TenantsSafe'
<1>1. /\ project \in [Project -> projects!ProjectRow] /\ project[p] \in projects!ProjectRow
      /\ agents \subseteq [token: Token, project: Project, version: Version, user: Account]
      /\ setting \in [Account -> [project: Project \cup {None}, row: projects!ProjectRow, version: Version \cup {None}]]
  BY DEF TenantsSafe, ProjectsTyped
<1>2. project' = [project EXCEPT ![p] = project[p]]
  BY <1>1
<1>3. /\ project[p].name # None /\ project[p].tenant # None
      /\ \A d \in project[p].depts : dept[d].tenant = project[p].tenant
  BY DEF projects!Present, TenantsSafe, ProjectsKnown
<1>4. AccountsSafe'
  BY AccountsRest DEF TenantsSafe
<1>5. project[p].current # None => version'[project[p].current].project = p
  BY NewVersionKnown, ManagementAssumption DEF TenantsSafe, VersionsKnown, projects!VersionsOwn, projects!Versions
<1>. QED BY <1>1, <1>2, <1>3, <1>4, <1>5, ProjectWritten

\* Another version of a project ...
LEMMA VersionAddSafe ==
  ASSUME TenantsSafe, NEW u \in Account, NEW p \in Project, NEW vname \in VersionName, projects!VersionAdd(u, p, vname)
  PROVE  TenantsSafe' /\ UNCHANGED setting
<1>1. PICK v \in projects!NewVersion : version' = [version EXCEPT ![v] = [project |-> p, name |-> vname]]
  BY DEF projects!VersionAdd
<1>2. /\ UNCHANGED <<tenants, dept, user, login, project, agents, setting>> /\ requests' = requests + 1
      /\ projects!Requester(u) /\ p \in projects!GetProjects(u)
  BY DEF projects!VersionAdd, projects!Counted
<1>3. PICK w : w = [project |-> p, name |-> vname]
  OBVIOUS
<1>4. w \in [project: Project \cup {None}, name: VersionName \cup {None, Today}] /\ w.project = p
  BY <1>3
<1>5. /\ version' \in [Version -> [project: Project \cup {None}, name: VersionName \cup {None, Today}]]
      /\ \A x \in Version : \/ version'[x].project = version[x].project
                            \/ x \in projects!NewVersion /\ version'[x].project = p
  BY <1>1, <1>3, <1>4, NewVersionKnown DEF TenantsSafe, ProjectsTyped
<1>6. requests' \in 0..MaxRequests
  BY <1>2, RequesterKnown DEF TenantsSafe
<1>. QED BY <1>2, <1>5, <1>6, Sight, VersionWritten

\* ... or another name of one.
LEMMA VersionUpdateSafe ==
  ASSUME TenantsSafe, NEW u \in Account, NEW p \in Project, NEW v \in Version, NEW vname \in VersionName,
         projects!VersionUpdate(u, p, v, vname)
  PROVE  TenantsSafe' /\ UNCHANGED setting
<1>1. /\ UNCHANGED <<tenants, dept, user, login, project, agents, setting>> /\ requests' = requests + 1
      /\ projects!Requester(u) /\ p \in projects!GetProjects(u)
      /\ version' = [version EXCEPT ![v].name = vname]
  BY DEF projects!VersionUpdate, projects!Counted
<1>2. /\ version' \in [Version -> [project: Project \cup {None}, name: VersionName \cup {None, Today}]]
      /\ \A x \in Version : version'[x].project = version[x].project
  BY <1>1 DEF TenantsSafe, ProjectsTyped
<1>3. requests' \in 0..MaxRequests
  BY <1>1, RequesterKnown DEF TenantsSafe
<1>. QED BY <1>1, <1>2, <1>3, Sight, VersionWritten

\* A version that no agent reports to is deleted.
LEMMA VersionDeleteSafe ==
  ASSUME TenantsSafe, NEW u \in Account, NEW p \in Project, NEW v \in Version, projects!VersionDelete(u, p, v)
  PROVE  TenantsSafe' /\ UNCHANGED setting
<1>1. /\ UNCHANGED <<tenants, dept, user, login, agents, setting>> /\ requests' = requests + 1
      /\ projects!Requester(u) /\ \A a \in agents : a.version # v
      /\ version' = [version EXCEPT ![v] = projects!NoVersion]
      /\ project' = [q \in Project |-> IF project[q].current = v THEN [project[q] EXCEPT !.current = None] ELSE project[q]]
  BY DEF projects!VersionDelete, projects!Counted
<1>2. AccountsSafe'
  BY <1>1, RequesterKnown, AccountsRest DEF TenantsSafe
<1>3. /\ version' \in [Version -> [project: Project \cup {None}, name: VersionName \cup {None, Today}]]
      /\ version'[v].project = None
      /\ \A x \in Version : x # v => version'[x] = version[x]
  BY <1>1, NoRows DEF TenantsSafe, ProjectsTyped
<1>4. project \in [Project -> projects!ProjectRow]
  BY DEF TenantsSafe, ProjectsTyped
<1>5. \A q \in Project :
        /\ [project[q] EXCEPT !.current = None] \in projects!ProjectRow
        /\ [project[q] EXCEPT !.current = None].tenant = project[q].tenant
        /\ [project[q] EXCEPT !.current = None].name = project[q].name
        /\ [project[q] EXCEPT !.current = None].depts = project[q].depts
        /\ [project[q] EXCEPT !.current = None].current = None
  BY <1>4 DEF projects!ProjectRow
<1>6. /\ project' \in [Project -> projects!ProjectRow]
      /\ \A q \in Project :
           /\ project'[q].tenant = project[q].tenant /\ project'[q].name = project[q].name
           /\ project'[q].depts = project[q].depts
           /\ project'[q].current = None \/ (project'[q] = project[q] /\ project[q].current # v)
  BY <1>1, <1>4, <1>5
<1>7. ProjectsTyped'
  BY <1>1, <1>3, <1>6 DEF TenantsSafe, ProjectsTyped
<1>8. ProjectsKnown'
  <2>1. ASSUME NEW q \in Project, project'[q].name = None
        PROVE  project'[q] = projects!NoProject
    BY <1>1, <1>6, <2>1, NoRows, ManagementAssumption DEF TenantsSafe, ProjectsKnown, projects!Present
  <2>. QED BY <1>1, <1>6, <2>1 DEF TenantsSafe, ProjectsKnown, projects!Present
<1>9. VersionsKnown'
  <2>1. ASSUME NEW q \in Project, project'[q].current # None
        PROVE  project'[q].current \in Version /\ version'[project'[q].current].project = q
    BY <1>3, <1>6, <2>1 DEF TenantsSafe, VersionsKnown, projects!VersionsOwn, projects!Versions
  <2>2. ASSUME NEW a \in agents
        PROVE  /\ a.version \in Version /\ version'[a.version].project = a.project
               /\ a.project \in Project /\ project'[a.project].name # None
    BY <1>1, <1>3, <1>6 DEF TenantsSafe, ProjectsTyped, VersionsKnown, projects!VersionsOwn, projects!Versions,
                            projects!Present
  <2>3. ASSUME NEW x \in Version, version'[x].project # None
        PROVE  project'[version'[x].project].name # None
    BY <1>3, <1>6, <2>3 DEF TenantsSafe, ProjectsTyped, VersionsKnown, projects!Present
  <2>. QED BY <1>1, <2>1, <2>2, <2>3 DEF VersionsKnown, projects!VersionsOwn, projects!Versions, projects!Present
<1>10. SettingsKnown'
  BY <1>1, <1>3, <1>6 DEF TenantsSafe, SettingsKnown
<1>. QED BY <1>1, <1>2, <1>7, <1>8, <1>9, <1>10 DEF TenantsSafe

\* A request reads a project that is to have another current version ...
LEMMA VersionCurrentReadSafe ==
  ASSUME TenantsSafe, NEW u \in Account, NEW p \in Project, NEW v \in Version, projects!VersionCurrentRead(u, p, v)
  PROVE  /\ TenantsSafe'
         /\ \A x \in Account : setting'[x] = setting[x] \/ setting'[x] # projects!NoSetting
<1>1. PICK s : s = [project |-> p, row |-> project[p], version |-> v]
  OBVIOUS
<1>2. /\ UNCHANGED <<tenants, dept, user, login, project, version, agents>> /\ requests' = requests + 1
      /\ projects!Requester(u) /\ p \in projects!GetProjects(u) /\ v \in projects!Versions(p)
      /\ setting' = [setting EXCEPT ![u] = s]
  BY <1>1 DEF projects!VersionCurrentRead, projects!Counted
<1>3. AccountsSafe'
  BY <1>2, RequesterKnown, AccountsRest DEF TenantsSafe
<1>4. /\ s \in [project: Project \cup {None}, row: projects!ProjectRow, version: Version \cup {None}]
      /\ s.project = p /\ s.row = project[p] /\ s.version = v
  BY <1>1 DEF TenantsSafe, ProjectsTyped
<1>5. /\ setting' \in [Account -> [project: Project \cup {None}, row: projects!ProjectRow, version: Version \cup {None}]]
      /\ setting'[u] = s /\ \A x \in Account : x # u => setting'[x] = setting[x]
  BY <1>2, <1>4 DEF TenantsSafe, ProjectsTyped
<1>6. s # projects!NoSetting
  BY <1>4, ManagementAssumption DEF projects!NoSetting
<1>7. ProjectsTyped' /\ ProjectsKnown' /\ VersionsKnown'
  BY <1>2, <1>5 DEF TenantsSafe, ProjectsTyped, ProjectsKnown, VersionsKnown, projects!Present, projects!VersionsOwn,
                    projects!Versions
<1>8. /\ project[p].name # None /\ project[p].tenant # None /\ version[v].project = p
  BY <1>2, Sight DEF TenantsSafe, ProjectsKnown, projects!Present, projects!Versions
<1>9. SettingsKnown'
  <2>1. ASSUME NEW x \in Account, setting'[x] # projects!NoSetting
        PROVE  /\ setting'[x].project \in Project /\ setting'[x].version \in Version
               /\ setting'[x].row.name # None /\ setting'[x].row.tenant # None
               /\ version[setting'[x].version].project \in {setting'[x].project, None}
               /\ version[setting'[x].version].project # None =>
                    project[setting'[x].project].tenant = setting'[x].row.tenant
    <3>1. CASE x = u
      BY <1>4, <1>5, <1>8, <3>1
    <3>2. CASE x # u
      BY <1>5, <2>1, <3>2 DEF TenantsSafe, SettingsKnown
    <3>. QED BY <3>1, <3>2
  <2>. QED BY <1>2, <2>1 DEF SettingsKnown
<1>. QED BY <1>3, <1>5, <1>6, <1>7, <1>9 DEF TenantsSafe

(* ... and saves it, in the tenant and the departments that it has by now, unless
   it has lost the version.                                                     *)
LEMMA VersionCurrentSaveSafe ==
  ASSUME TenantsSafe, NEW u \in Account, projects!VersionCurrentSave(u)
  PROVE  /\ TenantsSafe' /\ UNCHANGED <<dept, user>>
         /\ \A q \in Project : /\ projects!Present(q)' <=> projects!Present(q)
                               /\ project'[q].tenant = project[q].tenant
                               /\ project'[q].depts = project[q].depts
<1>1. PICK s : s = setting[u]
  OBVIOUS
<1>2. /\ s # projects!NoSetting /\ setting' = [setting EXCEPT ![u] = projects!NoSetting]
      /\ UNCHANGED <<tenants, dept, user, login, requests, version, agents>>
      /\ \/ project' = project
         \/ /\ version[s.version].project # None
            /\ project' = [project EXCEPT ![s.project] =
                 [s.row EXCEPT !.current = s.version, !.depts = project[s.project].depts]]
  BY <1>1 DEF projects!VersionCurrentSave
<1>3. AccountsSafe'
  BY <1>2, AccountsRest DEF TenantsSafe, AccountsSafe, projects!AccountsTypeOK
<1>4. /\ project \in [Project -> projects!ProjectRow]
      /\ s \in [project: Project \cup {None}, row: projects!ProjectRow, version: Version \cup {None}]
      /\ setting' \in [Account -> [project: Project \cup {None}, row: projects!ProjectRow, version: Version \cup {None}]]
      /\ \A x \in Account : setting'[x] = setting[x] \/ setting'[x] = projects!NoSetting
  BY <1>1, <1>2, NoRows DEF TenantsSafe, ProjectsTyped
<1>5. /\ s.project \in Project /\ s.version \in Version /\ s.row.name # None /\ s.row.tenant # None
      /\ version[s.version].project \in {s.project, None}
      /\ version[s.version].project # None => project[s.project].tenant = s.row.tenant
  BY <1>1, <1>2 DEF TenantsSafe, SettingsKnown
<1>6. CASE project' = project
  <2>1. ProjectsTyped' /\ ProjectsKnown' /\ VersionsKnown'
    BY <1>2, <1>4, <1>6 DEF TenantsSafe, ProjectsTyped, ProjectsKnown, VersionsKnown, projects!Present,
                            projects!VersionsOwn, projects!Versions
  <2>2. SettingsKnown'
    BY <1>2, <1>4, <1>6 DEF TenantsSafe, SettingsKnown
  <2>. QED BY <1>2, <1>3, <1>6, <2>1, <2>2 DEF TenantsSafe, projects!Present
<1>7. CASE version[s.version].project = s.project /\
           project' = [project EXCEPT ![s.project] =
             [s.row EXCEPT !.current = s.version, !.depts = project[s.project].depts]]
  <2>1. PICK p \in Project : p = s.project
    BY <1>5
  <2>2. PICK row : row = [s.row EXCEPT !.current = s.version, !.depts = project[p].depts]
    OBVIOUS
  <2>3. /\ row \in projects!ProjectRow /\ row.name = s.row.name /\ row.tenant = s.row.tenant
        /\ row.current = s.version /\ row.depts = project[p].depts
    BY <1>4, <1>5, <2>2 DEF projects!ProjectRow
  <2>4. project' = [project EXCEPT ![p] = row]
    BY <1>7, <2>1, <2>2
  <2>5. projects!Present(p) /\ project[p].tenant = row.tenant
    BY <1>5, <1>7, <2>1, <2>3, ManagementAssumption DEF TenantsSafe, VersionsKnown
  <2>6. \A d \in row.depts : dept[d].tenant = row.tenant
    BY <2>3, <2>5 DEF TenantsSafe, ProjectsKnown
  <2>7. /\ version' \in [Version -> [project: Project \cup {None}, name: VersionName \cup {None, Today}]]
        /\ agents' \subseteq [token: Token, project: Project, version: Version, user: Account]
        /\ version' = version /\ agents' = agents /\ version'[row.current].project = p
    BY <1>2, <1>7, <2>1, <2>3 DEF TenantsSafe, ProjectsTyped
  <2>8. TenantsSafe'
    BY <1>2, <1>3, <1>4, <1>5, <2>3, <2>4, <2>5, <2>6, <2>7, ProjectWritten
  <2>9. /\ project'[p] = row /\ \A q \in Project : q # p => project'[q] = project[q]
    BY <1>4, <2>4
  <2>. QED BY <1>2, <1>5, <2>3, <2>5, <2>8, <2>9 DEF projects!Present
<1>. QED BY <1>2, <1>5, <1>6, <1>7

\* Projects that go, with their versions and agents.
LEMMA ProjectsGone ==
  ASSUME TenantsSafe, NEW P \in SUBSET Project, AccountsSafe',
         \A d \in Dept : projects!Exists(d) => dept'[d].tenant = dept[d].tenant,
         agents' = {a \in agents : a.project \notin P},
         version' = [v \in Version |-> IF version[v].project \in P THEN projects!NoVersion ELSE version[v]],
         project' = [p \in Project |-> IF p \in P THEN projects!NoProject ELSE project[p]],
         UNCHANGED setting
  PROVE  TenantsSafe'
<1>1. /\ project' \in [Project -> projects!ProjectRow]
      /\ \A p \in Project : p \notin P => project'[p] = project[p]
      /\ \A p \in P : project'[p] = projects!NoProject
  BY NoRows DEF TenantsSafe, ProjectsTyped
<1>2. /\ version' \in [Version -> [project: Project \cup {None}, name: VersionName \cup {None, Today}]]
      /\ \A v \in Version : IF version[v].project \in P THEN version'[v].project = None ELSE version'[v] = version[v]
  BY NoRows DEF TenantsSafe, ProjectsTyped
<1>3. ProjectsTyped'
  BY <1>1, <1>2 DEF TenantsSafe, ProjectsTyped
<1>4. ProjectsKnown'
  <2>1. ASSUME NEW p \in Project
        PROVE  /\ project'[p].name = None => project'[p] = projects!NoProject
               /\ project'[p].name # None => project'[p].tenant # None
    BY <1>1, NoRows DEF TenantsSafe, ProjectsKnown, projects!Present
  <2>2. ASSUME NEW p \in Project, NEW d \in project'[p].depts
        PROVE  dept'[d].tenant = project'[p].tenant
    <3>1. p \notin P /\ project'[p] = project[p] /\ d \in project[p].depts
      BY <1>1, <2>2, NoRows
    <3>2. projects!Present(p)
      BY <3>1, NoRows DEF TenantsSafe, ProjectsKnown
    <3>3. d \in Dept /\ dept[d].tenant = project[p].tenant /\ project[p].tenant # None
      BY <3>1, <3>2 DEF TenantsSafe, ProjectsKnown, ProjectsTyped, projects!ProjectRow
    <3>. QED BY <3>1, <3>3 DEF projects!Exists
  <2>. QED BY <2>1, <2>2 DEF ProjectsKnown, projects!Present
<1>5. VersionsKnown'
  <2>1. ASSUME NEW p \in Project, project'[p].current # None
        PROVE  project'[p].current \in Version /\ version'[project'[p].current].project = p
    BY <1>1, <1>2, <2>1, NoRows DEF TenantsSafe, VersionsKnown, projects!VersionsOwn, projects!Versions
  <2>2. ASSUME NEW a \in agents'
        PROVE  /\ a.version \in Version /\ version'[a.version].project = a.project
               /\ project'[a.project].name # None
    <3>1. a \in agents /\ a.project \notin P /\ a.project \in Project
      BY <2>2 DEF TenantsSafe, ProjectsTyped
    <3>. QED BY <1>1, <1>2, <3>1 DEF TenantsSafe, VersionsKnown, projects!VersionsOwn, projects!Versions,
                                     projects!Present
  <2>3. ASSUME NEW v \in Version, version'[v].project # None
        PROVE  project'[version'[v].project].name # None
    <3>1. version[v].project \notin P /\ version'[v] = version[v] /\ version[v].project \in Project
      BY <1>2, <2>3 DEF TenantsSafe, ProjectsTyped
    <3>. QED BY <1>1, <2>3, <3>1 DEF TenantsSafe, VersionsKnown, projects!Present
  <2>. QED BY <2>1, <2>2, <2>3 DEF VersionsKnown, projects!VersionsOwn, projects!Versions, projects!Present
<1>6. SettingsKnown'
  <2>1. ASSUME NEW u \in Account, setting[u] # projects!NoSetting
        PROVE  /\ version'[setting[u].version].project \in {setting[u].project, None}
               /\ version'[setting[u].version].project # None =>
                    project'[setting[u].project].tenant = setting[u].row.tenant
    <3>1. /\ setting[u].project \in Project /\ setting[u].version \in Version
          /\ version[setting[u].version].project \in {setting[u].project, None}
          /\ version[setting[u].version].project # None =>
               project[setting[u].project].tenant = setting[u].row.tenant
      BY <2>1 DEF TenantsSafe, SettingsKnown
    <3>2. CASE version[setting[u].version].project \in P
      BY <1>2, <3>1, <3>2
    <3>3. CASE version[setting[u].version].project \notin P
      BY <1>1, <1>2, <3>1, <3>3
    <3>. QED BY <3>2, <3>3
  <2>. QED BY <2>1 DEF TenantsSafe, SettingsKnown
<1>. QED BY <1>3, <1>4, <1>5, <1>6 DEF TenantsSafe

\* A user deletes a project ...
LEMMA DeleteProjectSafe ==
  ASSUME TenantsSafe, NEW u \in Account, NEW p \in Project, projects!DeleteProject(u, p)
  PROVE  TenantsSafe' /\ UNCHANGED setting
<1>1. /\ UNCHANGED <<tenants, dept, user, login, setting>> /\ requests' = requests + 1
      /\ projects!Requester(u)
      /\ agents' = {a \in agents : a.project # p}
      /\ version' = [v \in Version |-> IF version[v].project = p THEN projects!NoVersion ELSE version[v]]
      /\ project' = [project EXCEPT ![p] = projects!NoProject]
  BY DEF projects!DeleteProject, projects!Counted
<1>2. AccountsSafe'
  BY <1>1, RequesterKnown, AccountsRest DEF TenantsSafe
<1>3. PICK P \in SUBSET Project : P = {p}
  OBVIOUS
<1>4. project' = [q \in Project |-> IF q \in P THEN projects!NoProject ELSE project[q]]
  BY <1>1, <1>3 DEF TenantsSafe, ProjectsTyped
<1>5. /\ agents' = {a \in agents : a.project \notin P}
      /\ version' = [v \in Version |-> IF version[v].project \in P THEN projects!NoVersion ELSE version[v]]
  BY <1>1, <1>3
<1>. QED BY <1>1, <1>2, <1>4, <1>5, ProjectsGone

\* ... or all go with their tenant, which has no agents then.
LEMMA DropTenantSafe ==
  ASSUME TenantsSafe, NEW r \in Account, NEW t \in Tenant, projects!DropTenant(r, t)
  PROVE  TenantsSafe' /\ UNCHANGED setting
<1>1. /\ projects!TenantDelete(r, t) /\ UNCHANGED <<agents, setting>>
      /\ \A a \in agents : project[a.project].tenant # t
      /\ project' = [p \in Project |-> IF project[p].tenant = t THEN projects!NoProject ELSE project[p]]
      /\ version' = [v \in Version |-> IF version[v].project # None /\ project[version[v].project].tenant = t
                                         THEN projects!NoVersion ELSE version[v]]
  BY DEF projects!DropTenant
<1>2. AccountsSafe' /\ UNCHANGED dept
  BY <1>1, TenantDeleteSafe DEF TenantsSafe
<1>3. PICK P \in SUBSET Project : P = {p \in Project : project[p].tenant = t}
  OBVIOUS
<1>4. \A v \in Version : version[v].project \in Project \cup {None}
  BY DEF TenantsSafe, ProjectsTyped
<1>5. \A v \in Version : version[v].project \in P <=>
        version[v].project # None /\ project[version[v].project].tenant = t
  BY <1>3, <1>4, ManagementAssumption
<1>6. /\ project' = [p \in Project |-> IF p \in P THEN projects!NoProject ELSE project[p]]
      /\ version' = [v \in Version |-> IF version[v].project \in P THEN projects!NoVersion ELSE version[v]]
  BY <1>1, <1>3, <1>5
<1>7. agents' = {a \in agents : a.project \notin P}
  BY <1>1, <1>3
<1>. QED BY <1>1, <1>2, <1>6, <1>7, ProjectsGone

\* What the accounts do to the tenants of departments that projects have.
LEMMA ProjectsRest ==
  ASSUME TenantsSafe, AccountsSafe', UNCHANGED <<version, agents, setting>>,
         project' \in [Project -> projects!ProjectRow],
         \A p \in Project :
           /\ project'[p].tenant = project[p].tenant /\ project'[p].name = project[p].name
           /\ project'[p].current = project[p].current /\ project'[p].depts \subseteq project[p].depts
           /\ \A d \in project'[p].depts : projects!Exists(d) => dept'[d].tenant = dept[d].tenant
           /\ project[p] = projects!NoProject => project'[p] = projects!NoProject
  PROVE  TenantsSafe'
<1>1. ProjectsTyped'
  BY DEF TenantsSafe, ProjectsTyped
<1>2. ASSUME NEW p \in Project
      PROVE  /\ project'[p].name = None => project'[p] = projects!NoProject
             /\ project'[p].name # None => project'[p].tenant # None
  BY DEF TenantsSafe, ProjectsKnown, projects!Present
<1>3. ASSUME NEW p \in Project, NEW d \in project'[p].depts
      PROVE  dept'[d].tenant = project'[p].tenant
  <2>1. d \in project[p].depts /\ projects!Present(p)
    BY <1>3, NoRows DEF TenantsSafe, ProjectsKnown
  <2>2. dept[d].tenant = project[p].tenant /\ project[p].tenant # None
    BY <2>1 DEF TenantsSafe, ProjectsKnown
  <2>. QED BY <1>3, <2>1, <2>2 DEF projects!Exists
<1>4. ProjectsKnown'
  BY <1>2, <1>3 DEF ProjectsKnown, projects!Present
<1>5. VersionsKnown'
  <2>1. ASSUME NEW p \in Project, project'[p].current # None
        PROVE  project'[p].current \in Version /\ version[project'[p].current].project = p
    BY <2>1 DEF TenantsSafe, VersionsKnown, projects!VersionsOwn, projects!Versions
  <2>2. ASSUME NEW a \in agents
        PROVE  /\ a.version \in Version /\ version[a.version].project = a.project
               /\ project'[a.project].name # None
    BY DEF TenantsSafe, ProjectsTyped, VersionsKnown, projects!VersionsOwn, projects!Versions, projects!Present
  <2>3. ASSUME NEW v \in Version, version[v].project # None
        PROVE  project'[version[v].project].name # None
    BY <2>3 DEF TenantsSafe, ProjectsTyped, VersionsKnown, projects!Present
  <2>. QED BY <2>1, <2>2, <2>3 DEF VersionsKnown, projects!VersionsOwn, projects!Versions, projects!Present
<1>6. SettingsKnown'
  BY DEF TenantsSafe, SettingsKnown
<1>. QED BY <1>1, <1>4, <1>5, <1>6 DEF TenantsSafe

\* A department that goes leaves the projects.
LEMMA DropDeptSafe ==
  ASSUME TenantsSafe, NEW r \in Account, NEW d \in Dept, projects!DropDept(r, d)
  PROVE  TenantsSafe' /\ UNCHANGED setting
<1>1. /\ projects!DeptDelete(r, d) /\ UNCHANGED <<version, agents, setting>>
      /\ project' = [p \in Project |-> [project[p] EXCEPT !.depts = @ \ {d}]]
  BY DEF projects!DropDept
<1>2. AccountsSafe' /\ \A x \in Dept : x # d => dept'[x].tenant = dept[x].tenant
  BY <1>1, DeptDeleteSafe DEF TenantsSafe
<1>3. project \in [Project -> projects!ProjectRow]
  BY DEF TenantsSafe, ProjectsTyped
<1>4. ASSUME NEW p \in Project
      PROVE  /\ project'[p] \in projects!ProjectRow
             /\ project'[p].tenant = project[p].tenant /\ project'[p].name = project[p].name
             /\ project'[p].current = project[p].current /\ project'[p].depts = project[p].depts \ {d}
             /\ project[p].depts = {} => project'[p] = project[p]
  <2>1. project'[p] = [project[p] EXCEPT !.depts = project[p].depts \ {d}]
    BY <1>1
  <2>2. project[p] \in projects!ProjectRow
    BY <1>3
  <2>. QED BY <2>1, <2>2 DEF projects!ProjectRow
<1>5. project' \in [Project -> projects!ProjectRow]
  BY <1>1, <1>4
<1>6. \A p \in Project :
        /\ project'[p].depts \subseteq project[p].depts
        /\ \A x \in project'[p].depts : projects!Exists(x) => dept'[x].tenant = dept[x].tenant
        /\ project[p] = projects!NoProject => project'[p] = projects!NoProject
  BY <1>2, <1>3, <1>4, NoRows DEF projects!ProjectRow
<1>. QED BY <1>1, <1>2, <1>4, <1>5, <1>6, ProjectsRest

\* Other requests for accounts leave the projects alone.
LEMMA UnrelatedSafe ==
  ASSUME TenantsSafe, AccountsSafe', DeptsStay, projects!Unrelated
  PROVE  TenantsSafe' /\ UNCHANGED setting
<1>1. UNCHANGED <<project, version, agents, setting>>
  BY DEF projects!Unrelated, projects!projectVars
<1>2. project \in [Project -> projects!ProjectRow]
  BY DEF TenantsSafe, ProjectsTyped
<1>3. \A p \in Project : \A d \in project'[p].depts : projects!Exists(d) => dept'[d].tenant = dept[d].tenant
  BY <1>1, <1>2 DEF projects!ProjectRow, DeptsStay
<1>. QED BY <1>1, <1>2, <1>3, ProjectsRest

--------------------------------------------------------------------------------
(* What holds of all steps.                                                     *)

\* A step that keeps the projects safe and ends no request for a current version.
Quiet == TenantsSafe' /\ \A u \in Account : setting'[u] = setting[u] \/ setting'[u] # projects!NoSetting

\* The requests of somebody for tenants and departments ...
LEMMA ManageTenantsSafe ==
  ASSUME TenantsSafe, NEW r \in Account, projects!ManageTenants(r)
  PROVE  Quiet
<1>1. \/ \E t \in Tenant : (projects!TenantAdd(r, t) /\ projects!Unrelated) \/ projects!DropTenant(r, t)
      \/ \E d \in Dept :
           \/ projects!DropDept(r, d)
           \/ \E parent \in Dept : projects!DeptUpdate(r, d, parent) /\ projects!Unrelated
           \/ \E t \in Tenant, parent \in Dept \cup {None} : projects!DeptAdd(r, d, t, parent) /\ projects!Unrelated
  BY DEF projects!ManageTenants
<1>2. ASSUME NEW t \in Tenant, projects!TenantAdd(r, t), projects!Unrelated
      PROVE  Quiet
  <2>1. AccountsSafe' /\ DeptsStay
    BY <1>2, TenantAddSafe DEF TenantsSafe, DeptsStay
  <2>. QED BY <1>2, <2>1, UnrelatedSafe DEF Quiet
<1>3. ASSUME NEW t \in Tenant, projects!DropTenant(r, t)
      PROVE  Quiet
  BY <1>3, DropTenantSafe DEF Quiet
<1>4. ASSUME NEW d \in Dept, projects!DropDept(r, d)
      PROVE  Quiet
  BY <1>4, DropDeptSafe DEF Quiet
<1>5. ASSUME NEW d \in Dept, NEW parent \in Dept, projects!DeptUpdate(r, d, parent), projects!Unrelated
      PROVE  Quiet
  <2>1. AccountsSafe' /\ DeptsStay
    BY <1>5, DeptUpdateSafe DEF TenantsSafe
  <2>. QED BY <1>5, <2>1, UnrelatedSafe DEF Quiet
<1>6. ASSUME NEW d \in Dept, NEW t \in Tenant, NEW parent \in Dept \cup {None},
             projects!DeptAdd(r, d, t, parent), projects!Unrelated
      PROVE  Quiet
  <2>1. AccountsSafe' /\ DeptsStay
    BY <1>6, DeptAddSafe DEF TenantsSafe
  <2>. QED BY <1>6, <2>1, UnrelatedSafe DEF Quiet
<1>. QED BY <1>1, <1>2, <1>3, <1>4, <1>5, <1>6

\* ... with a project ...
LEMMA UseProjectSafe ==
  ASSUME TenantsSafe, NEW u \in Account, NEW p \in Project, projects!UseProject(u, p)
  PROVE  Quiet
<1>1. \/ projects!DeleteProject(u, p)
      \/ \E vname \in VersionName : projects!VersionAdd(u, p, vname)
      \/ \E v \in Version, vname \in VersionName : projects!VersionUpdate(u, p, v, vname)
      \/ \E v \in Version : projects!VersionDelete(u, p, v) \/ projects!VersionCurrentRead(u, p, v)
  BY DEF projects!UseProject
<1>2. CASE projects!DeleteProject(u, p)
  BY <1>2, DeleteProjectSafe DEF Quiet
<1>3. CASE \E vname \in VersionName : projects!VersionAdd(u, p, vname)
  BY <1>3, VersionAddSafe DEF Quiet
<1>4. CASE \E v \in Version, vname \in VersionName : projects!VersionUpdate(u, p, v, vname)
  BY <1>4, VersionUpdateSafe DEF Quiet
<1>5. CASE \E v \in Version : projects!VersionDelete(u, p, v) \/ projects!VersionCurrentRead(u, p, v)
  BY <1>5, VersionDeleteSafe, VersionCurrentReadSafe DEF Quiet
<1>. QED BY <1>1, <1>2, <1>3, <1>4, <1>5

\* ... and for a new one.
LEMMA MakeProjectSafe ==
  ASSUME TenantsSafe, NEW u \in Account, NEW n \in Name, projects!MakeProject(u, n)
  PROVE  Quiet
<1>1. \/ \E token \in Token, vname \in VersionName \cup {None} : projects!Register(u, token, n, vname)
      \/ \E pid \in Project \cup {None}, vname \in VersionName : projects!AddProject(u, pid, n, vname)
      \/ \E pid \in Project \cup {None}, vid \in Version, vname \in VersionName :
           projects!AddProjectVersion(u, pid, n, vid, vname)
  BY DEF projects!MakeProject
<1>2. CASE \E token \in Token, vname \in VersionName \cup {None} : projects!Register(u, token, n, vname)
  BY <1>2, RegisterSafe DEF Quiet
<1>3. CASE \E pid \in Project \cup {None}, vname \in VersionName : projects!AddProject(u, pid, n, vname)
  BY <1>3, AddProjectSafe DEF Quiet
<1>4. CASE \E pid \in Project \cup {None}, vid \in Version, vname \in VersionName :
             projects!AddProjectVersion(u, pid, n, vid, vname)
  BY <1>4, AddProjectVersionSafe DEF Quiet
<1>. QED BY <1>1, <1>2, <1>3, <1>4

(* Every step is quiet, or saves a current version and leaves presence, tenants
   and departments of all projects.                                             *)
LEMMA ProjectSteps ==
  ASSUME TenantsSafe, projects!Next
  PROVE  \/ Quiet
         \/ /\ TenantsSafe' /\ UNCHANGED <<dept, user>>
            /\ \A q \in Project : /\ projects!Present(q)' <=> projects!Present(q)
                                  /\ project'[q].tenant = project[q].tenant
                                  /\ project'[q].depts = project[q].depts
<1>1. \/ \E r \in Account : projects!ManageTenants(r)
      \/ \E r \in Account, u \in Account : projects!ManageUsers(r, u) /\ projects!Unrelated
      \/ \E r \in Account, p \in Project : projects!UseProject(r, p)
      \/ \E r \in Account, n \in Name : projects!MakeProject(r, n)
      \/ \E u \in Account : (projects!LoginRead(u) \/ projects!LoginSave(u)) /\ projects!Unrelated
      \/ \E u \in Account : projects!VersionCurrentSave(u)
  BY DEF projects!Next, projects!Requesters
<1>2. ASSUME NEW r \in Account, NEW u \in Account, projects!ManageUsers(r, u), projects!Unrelated
      PROVE  Quiet
  <2>1. AccountsSafe' /\ DeptsStay
    BY <1>2, ManageUsersSafe DEF TenantsSafe, DeptsStay
  <2>. QED BY <1>2, <2>1, UnrelatedSafe DEF Quiet
<1>3. ASSUME NEW u \in Account, projects!LoginRead(u) \/ projects!LoginSave(u), projects!Unrelated
      PROVE  Quiet
  <2>1. AccountsSafe' /\ DeptsStay
    BY <1>3, LoginReadSafe, LoginSaveSafe DEF TenantsSafe, DeptsStay
  <2>. QED BY <1>3, <2>1, UnrelatedSafe DEF Quiet
<1>. QED BY <1>1, <1>2, <1>3, ManageTenantsSafe, UseProjectSafe, MakeProjectSafe, VersionCurrentSaveSafe

\* Users see the same projects when these stay where they are.
LEMMA SightStays ==
  ASSUME UNCHANGED <<dept, user>>, NEW w \in Account,
         \A q \in Project : /\ projects!Present(q)' <=> projects!Present(q)
                            /\ project'[q].tenant = project[q].tenant
                            /\ project'[q].depts = project[q].depts
  PROVE  projects!GetProjects(w)' = projects!GetProjects(w)
<1>1. projects!GetDepartments(w)' = projects!GetDepartments(w)
  BY DEF projects!GetDepartments
<1>2. ASSUME NEW q \in Project
      PROVE  projects!Listed(w, q)' = projects!Listed(w, q)
  BY <1>1 DEF projects!Listed
<1>. QED BY <1>2 DEF projects!GetProjects

\* The invariant holds what is promised of each state.
LEMMA TenantsPromised ==
  TenantsSafe => projects!TypeOK /\ projects!OwnTenantOnly /\ projects!AccountsSeparate /\ projects!VersionsOwn
<1>1. TenantsSafe => projects!OwnTenantOnly
  BY Sight DEF projects!OwnTenantOnly
<1>. QED BY <1>1 DEF TenantsSafe, AccountsSafe, ProjectsTyped, VersionsKnown, projects!TypeOK

\* It holds at first.
LEMMA TenantsBegin == projects!Init => TenantsSafe
<1>. SUFFICES ASSUME projects!Init PROVE TenantsSafe
  OBVIOUS
<1>1. /\ tenants = InitialTenants /\ dept = InitialDept /\ user = InitialUser
      /\ login = [u \in Account |-> projects!NoUser] /\ requests = 0
      /\ project = [p \in Project |-> projects!NoProject]
      /\ version = [v \in Version |-> projects!NoVersion] /\ agents = {}
      /\ setting = [u \in Account |-> projects!NoSetting]
  BY DEF projects!Init, projects!AccountsInit
<1>2. projects!NoUser \in projects!UserRow
  BY DEF projects!NoUser, projects!UserRow, projects!Role
<1>3. StartsApart /\ MaxRequests \in Nat /\ None \notin Project /\ None \notin Version
  BY ManagementAssumption
<1>4. projects!AccountsTypeOK
  BY <1>1, <1>2, <1>3 DEF StartsApart, projects!AccountsTypeOK
<1>5. projects!AccountsSeparate /\ DeptsKnown /\ UsersKnown /\ LoginsKnown
  BY <1>1, <1>3 DEF StartsApart, projects!AccountsSeparate, DeptsKnown, UsersKnown, LoginsKnown, projects!Exists
<1>6. ProjectsTyped
  BY <1>1, NoRows DEF ProjectsTyped
<1>7. ProjectsKnown /\ VersionsKnown /\ SettingsKnown
  BY <1>1, NoRows DEF ProjectsKnown, VersionsKnown, SettingsKnown, projects!VersionsOwn, projects!Present
<1>. QED BY <1>4, <1>5, <1>6, <1>7 DEF TenantsSafe, AccountsSafe

\* Steps of the other components, and steps of none, leave it.
LEMMA TenantsRest == TenantsSafe /\ UNCHANGED projectVars => Quiet
<1>. SUFFICES ASSUME TenantsSafe, UNCHANGED projectVars PROVE Quiet
  OBVIOUS
<1>1. UNCHANGED <<tenants, dept, user, login, requests, project, version, agents, setting>>
  BY DEF projectVars
<1>2. AccountsSafe'
  BY <1>1, AccountsRest DEF TenantsSafe, AccountsSafe, projects!AccountsTypeOK
<1>3. DeptsStay /\ projects!Unrelated
  BY <1>1 DEF DeptsStay, projects!Unrelated, projects!projectVars
<1>. QED BY <1>2, <1>3, UnrelatedSafe DEF Quiet

(* TenantsApart: users see projects of their own tenant only, departments, users
   and versions stay in theirs, and saving the current version changes nobody's
   sight, through every interleaving of accounts, registrations, deletions and
   logins (user.py, project.py, agent registration).                            *)
THEOREM TenantsAlwaysApart == Spec => TenantsApart
<1>. DEFINE Safe == part = "projects" => TenantsSafe
            Step == Safe /\ [Next]_vars
<1>1. Init => Safe
  BY TenantsBegin DEF Init
<1>2. ASSUME Safe, [Next]_vars, part = "projects"
      PROVE  part' = part /\ TenantsSafe' /\ projects!SaveKeepsSight
  <2>1. part' = part /\ (projects!Next \/ UNCHANGED projectVars)
    BY <1>2 DEF Next, vars
  <2>2. CASE Quiet
    BY <2>1, <2>2 DEF Quiet, projects!SaveKeepsSight
  <2>3. CASE /\ TenantsSafe' /\ UNCHANGED <<dept, user>>
             /\ \A q \in Project : /\ projects!Present(q)' <=> projects!Present(q)
                                   /\ project'[q].tenant = project[q].tenant
                                   /\ project'[q].depts = project[q].depts
    BY <2>1, <2>3, SightStays DEF projects!SaveKeepsSight
  <2>. QED BY <1>2, <2>1, <2>2, <2>3, ProjectSteps, TenantsRest
<1>3. Safe /\ [Next]_vars => Safe'
  <2>1. [Next]_vars => part' = part
    BY DEF Next, vars
  <2>. QED BY <1>2, <2>1
<1>4. Safe /\ [Next]_vars => [part = "projects" => projects!ProjectsStep]_vars
  <2>1. TenantsSafe' => (projects!TypeOK /\ projects!OwnTenantOnly /\ projects!AccountsSeparate /\ projects!VersionsOwn)'
    BY TenantsPromised, PTL
  <2>. QED BY <1>2, <2>1 DEF projects!ProjectsStep
<1>. QED BY <1>1, <1>3, <1>4, PTL DEF Spec, TenantsApart
================================================================================
