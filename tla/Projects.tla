------------------------------- MODULE Projects --------------------------------
(***************************************************************************)
(* Projects and their versions, the registration of agents into them, and  *)
(* the sight users have of them through tenants and departments.           *)
(***************************************************************************)
EXTENDS Accounts

CONSTANTS
  Project,      \* ids of project
  Version,      \* ids of project_version
  Name,         \* names of projects
  VersionName,  \* names of versions
  Today,        \* the date, which names a version nobody named
  Token         \* tokens (names) of agents

VARIABLES
  project, \* rows of project
  version, \* rows of project_version
  agents,  \* rows of iast_agent, by the columns update_or_create looks them up with
  setting  \* the project object a version-current request has read, with the version

projectVars == <<project, version, agents, setting>>
vars == <<tenants, dept, user, login, requests, project, version, agents, setting>>

NoProject == [tenant |-> Null, name |-> Null, depts |-> {}, current |-> Null]
NoVersion == [project |-> Null, name |-> Null]
NoSetting == [project |-> Null, row |-> NoProject, version |-> Null]
ProjectRow == [tenant: Tenant \cup {Null}, name: Name \cup {Null}, depts: SUBSET Dept, current: Version \cup {Null}]

Init ==
  /\ AccountsInit
  /\ project = [p \in Project |-> NoProject]
  /\ version = [v \in Version |-> NoVersion]
  /\ agents = {}
  /\ setting = [u \in User |-> NoSetting]

Present(p) == project[p].name # Null
Versions(p) == {v \in Version : version[v].project = p}
Named(t, n) == {p \in Project : project[p].tenant = t /\ project[p].name = n}

(* How often User.get_projects returns a project: once for a tenant
   administrator; else once for every department the user shares with it (the
   join has no distinct), and once if it has no department.                   *)
Listed(u, p) ==
  IF ~Present(p) THEN 0
  ELSE IF user[u].role = "tenant" THEN IF project[p].tenant = user[u].tenant THEN 1 ELSE 0
  ELSE IF project[p].depts = {} THEN IF project[p].tenant = user[u].tenant THEN 1 ELSE 0
  ELSE Cardinality(project[p].depts \cap GetDepartments(u))

GetProjects(u) == {p \in Project : Listed(u, p) > 0}

\* Ids are not used again while a request still holds them.
NewProject == {p \in Project : ~Present(p) /\ \A u \in User : setting[u].project # p}
NewVersion == {v \in Version : version[v].project = Null /\ \A u \in User : setting[u].version # v}

--------------------------------------------------------------------------------
(* AgentRegisterEndPoint.post, in one transaction: any exception undoes it.   *)

(* register_project: the one visible project of that name and tenant; a name
   that somebody the user cannot see has taken violates the unique key, and a
   project that is listed twice raises MultipleObjectsReturned.               *)
RegisterProject(u, n) ==
  LET seen == {p \in GetProjects(u) : project[p].name = n /\ project[p].tenant = user[u].tenant}
  IN  IF seen # {} THEN {p \in seen : Listed(u, p) = 1}
      ELSE IF Named(user[u].tenant, n) = {} /\ user[u].tenant # Null THEN NewProject ELSE {}

(* register_project_version: the current version unless one is named.         *)
RegisterVersion(p, vname) ==
  LET wanted == IF vname = Null THEN Today ELSE vname
      found  == {v \in Versions(p) : version[v].name = wanted}
  IN  IF Present(p) /\ vname = Null /\ project[p].current # Null THEN {project[p].current}
      ELSE IF found # {} THEN found ELSE NewVersion

\* departments.clear() for a tenant administrator, else set(user.departments).
Departments(u, p) == IF user[u].role = "tenant" THEN {} ELSE user[u].depts

Register(u, token, n, vname) ==
  /\ Requester(u)
  /\ \E p \in RegisterProject(u, n) : \E v \in RegisterVersion(p, vname) :
       /\ project' = [project EXCEPT ![p] =
            [tenant |-> user[u].tenant, name |-> n, depts |-> Departments(u, p),
             current |-> IF @.current = Null THEN v ELSE @.current]]
       /\ version' = IF v \in Versions(p) THEN version
                     ELSE [version EXCEPT ![v] = [project |-> p, name |-> IF vname = Null THEN Today ELSE vname]]
       /\ agents' = agents \cup {[token |-> token, project |-> p, version |-> v, user |-> u]}
  /\ Counted
  /\ UNCHANGED <<tenants, dept, user, login, setting>>

--------------------------------------------------------------------------------
(* ProjectAdd.post.                                                           *)

(* Without pid a new project; the name must be free among the visible ones and
   is unique in the tenant.                                                   *)
AddTarget(u, pid, n) ==
  IF pid # Null THEN GetProjects(u) \cap {pid}
  ELSE IF \E p \in GetProjects(u) : project[p].name = n THEN {}
  ELSE IF Named(user[u].tenant, n) = {} /\ user[u].tenant # Null THEN NewProject ELSE {}

(* Without vid a version is created and becomes the current one; the name of
   the project may change, its departments become those of the user.          *)
AddProject(u, pid, n, vname) ==
  /\ Requester(u)
  /\ \E p \in AddTarget(u, pid, n), v \in NewVersion :
       LET t == IF Present(p) THEN project[p].tenant ELSE user[u].tenant
       IN  /\ Named(t, n) \subseteq {p}
           /\ \A w \in Versions(p) : version[w].name # vname
           /\ version' = [version EXCEPT ![v] = [project |-> p, name |-> vname]]
           /\ project' = [project EXCEPT ![p] =
                [tenant |-> t, name |-> n, depts |-> user[u].depts, current |-> v]]
  /\ Counted
  /\ UNCHANGED <<tenants, dept, user, login, agents, setting>>

(* With vid that version is renamed.  A version that is not the project's own
   gives a failure, which does not undo a creation: return is not an exception. *)
AddProjectVersion(u, pid, n, vid, vname) ==
  /\ Requester(u)
  /\ \E p \in AddTarget(u, pid, n) :
       LET t == IF Present(p) THEN project[p].tenant ELSE user[u].tenant
       IN  IF vid \in Versions(p) /\ Present(p)
             THEN /\ Named(t, n) \subseteq {p}
                  /\ \A w \in Versions(p) \ {vid} : version[w].name # vname
                  /\ version' = [version EXCEPT ![vid].name = vname]
                  /\ project' = [project EXCEPT ![p].name = n, ![p].depts = user[u].depts]
             ELSE /\ project' = IF Present(p) THEN project
                                ELSE [project EXCEPT ![p] = [NoProject EXCEPT !.tenant = t, !.name = n]]
                  /\ UNCHANGED version
  /\ Counted
  /\ UNCHANGED <<tenants, dept, user, login, agents, setting>>

(* ProjectDel.post: agents, versions and project in one transaction.          *)
DeleteProject(u, p) ==
  /\ Requester(u)
  /\ p \in GetProjects(u)
  /\ agents' = {a \in agents : a.project # p}
  /\ version' = [v \in Version |-> IF version[v].project = p THEN NoVersion ELSE version[v]]
  /\ project' = [project EXCEPT ![p] = NoProject]
  /\ Counted
  /\ UNCHANGED <<tenants, dept, user, login, setting>>

--------------------------------------------------------------------------------
(* The project_version_* requests.                                            *)

VersionAdd(u, p, vname) ==
  /\ Requester(u)
  /\ p \in GetProjects(u)
  /\ \A w \in Versions(p) : version[w].name # vname
  /\ \E v \in NewVersion : version' = [version EXCEPT ![v] = [project |-> p, name |-> vname]]
  /\ Counted
  /\ UNCHANGED <<tenants, dept, user, login, project, agents, setting>>

VersionUpdate(u, p, v, vname) ==
  /\ Requester(u)
  /\ p \in GetProjects(u) /\ v \in Versions(p)
  /\ \A w \in Versions(p) \ {v} : version[w].name # vname
  /\ version' = [version EXCEPT ![v].name = vname]
  /\ Counted
  /\ UNCHANGED <<tenants, dept, user, login, project, agents, setting>>

(* An agent's foreign key refuses the deletion; current_version is SET_NULL.  *)
VersionDelete(u, p, v) ==
  /\ Requester(u)
  /\ p \in GetProjects(u) /\ v \in Versions(p)
  /\ \A a \in agents : a.version # v
  /\ version' = [version EXCEPT ![v] = NoVersion]
  /\ project' = [q \in Project |-> IF project[q].current = v THEN [project[q] EXCEPT !.current = Null] ELSE project[q]]
  /\ Counted
  /\ UNCHANGED <<tenants, dept, user, login, agents, setting>>

(* The project and the version are read ...                                   *)
VersionCurrentRead(u, p, v) ==
  /\ Requester(u)
  /\ setting[u] = NoSetting
  /\ p \in GetProjects(u) /\ v \in Versions(p)
  /\ setting' = [setting EXCEPT ![u] = [project |-> p, row |-> project[p], version |-> v]]
  /\ Counted
  /\ UNCHANGED <<tenants, dept, user, login, project, version, agents>>

\* Mutant: without the foreign key of the version the row is inserted again.
VersionCurrentSave_NoKey(u) ==
  LET s == setting[u]
  IN  /\ s # NoSetting
      /\ setting' = [setting EXCEPT ![u] = NoSetting]
      /\ IF Named(s.row.tenant, s.row.name) \subseteq {s.project}
           THEN project' = [project EXCEPT ![s.project] =
                  [s.row EXCEPT !.current = s.version, !.depts = project[s.project].depts]]
           ELSE UNCHANGED project
      /\ UNCHANGED <<tenants, dept, user, login, requests, version, agents>>

(* ... and every column of the project is saved, unless the version is gone or
   the old name is taken by now.  The departments are in another table.       *)
VersionCurrentSave(u) ==
  LET s == setting[u]
  IN  /\ s # NoSetting
      /\ setting' = [setting EXCEPT ![u] = NoSetting]
      /\ IF version[s.version].project # Null /\ Named(s.row.tenant, s.row.name) \subseteq {s.project}
           THEN project' = [project EXCEPT ![s.project] =
                  [s.row EXCEPT !.current = s.version, !.depts = project[s.project].depts]]
           ELSE UNCHANGED project
      /\ UNCHANGED <<tenants, dept, user, login, requests, version, agents>>

--------------------------------------------------------------------------------
(* The account requests, with what they do to projects and agents.            *)

Unrelated == UNCHANGED projectVars
Requesters == {r \in User : Requester(r)}

ManageUsers(r, u) ==
  \/ \E role \in Role \ {"none"}, D \in SUBSET Dept :
       IF user[u].role = "none" THEN \E t \in Tenant : UserCreate(r, u, role, t, D)
                                ELSE UserUpdate(r, u, role, D)
  \/ UserLock(r, u) \/ UserUnlock(r, u)
  \/ (\A a \in agents : a.user # u) /\ UserDelete(r, u)

(* Projects go with their tenant; the key of an agent refuses that.           *)
DropTenant(r, t) ==
  /\ TenantDelete(r, t)
  /\ \A a \in agents : user[a.user].tenant # t /\ project[a.project].tenant # t
  /\ project' = [p \in Project |-> IF project[p].tenant = t THEN NoProject ELSE project[p]]
  /\ version' = [v \in Version |-> IF version[v].project # Null /\ project[version[v].project].tenant = t
                                     THEN NoVersion ELSE version[v]]
  /\ UNCHANGED <<agents, setting>>

(* The rows that link the department to projects go with it.                  *)
DropDept(r, d) ==
  /\ DeptDelete(r, d)
  /\ project' = [p \in Project |-> [project[p] EXCEPT !.depts = @ \ {d}]]
  /\ UNCHANGED <<version, agents, setting>>

ManageTenants(r) ==
  \/ \E t \in Tenant :
       \/ TenantAdd(r, t) /\ Unrelated
       \/ DropTenant(r, t)
  \/ \E d \in Dept :
       \/ DropDept(r, d)
       \/ \E parent \in Dept : DeptUpdate(r, d, parent) /\ Unrelated
       \/ \E t \in Tenant, parent \in Dept \cup {Null} : DeptAdd(r, d, t, parent) /\ Unrelated

UseProject(u, p) ==
  \/ DeleteProject(u, p)
  \/ \E vname \in VersionName :
       \/ VersionAdd(u, p, vname)
       \/ \E v \in Version : VersionUpdate(u, p, v, vname)
  \/ \E v \in Version : VersionDelete(u, p, v) \/ VersionCurrentRead(u, p, v)

MakeProject(u, n) ==
  \/ \E token \in Token, vname \in VersionName \cup {Null} : Register(u, token, n, vname)
  \/ \E pid \in Project \cup {Null}, vname \in VersionName :
       AddProject(u, pid, n, vname) \/ \E vid \in Version : AddProjectVersion(u, pid, n, vid, vname)

Next ==
  \/ \E r \in Requesters : \/ ManageTenants(r)
                           \/ \E u \in User : ManageUsers(r, u) /\ Unrelated
                           \/ \E p \in Project : UseProject(r, p)
                           \/ \E n \in Name : MakeProject(r, n)
  \/ \E u \in User : (LoginRead(u) \/ LoginSave(u)) /\ Unrelated
  \/ \E u \in User : VersionCurrentSave(u)

Spec == Init /\ [][Next]_vars

--------------------------------------------------------------------------------

(* The tables and what requests hold keep their types.                        *)
TypeOK ==
  /\ AccountsTypeOK
  /\ project \in [Project -> ProjectRow]
  /\ version \in [Version -> [project: Project \cup {Null}, name: VersionName \cup {Null, Today}]]
  /\ agents \subseteq [token: Token, project: Project, version: Version, user: User]
  /\ setting \in [User -> [project: Project \cup {Null}, row: ProjectRow, version: Version \cup {Null}]]

(* A user sees projects of the own tenant only: through departments, their
   deletion, the edits and registrations that give a project the departments of
   the editor, and the moves of users between departments.                    *)
OwnTenantOnly == \A u \in User : \A p \in GetProjects(u) : project[p].tenant = user[u].tenant

(* The current version of a project, and the version an agent reports to, are
   versions of that very project, although requests read the project and save
   it later and versions and projects are deleted in between.                 *)
VersionsOwn ==
  /\ \A p \in Project : project[p].current # Null => project[p].current \in Versions(p)
  /\ \A a \in agents : a.version \in Versions(a.project) /\ Present(a.project)

(* Saving the current version changes nobody's sight and brings no deleted
   project back, although it writes a project that was read before others moved
   it to other departments or deleted it.                                     *)
SaveKeepsSight ==
  \A u \in User : setting[u] # NoSetting /\ setting'[u] = NoSetting
    => \A w \in User : GetProjects(w)' = GetProjects(w)

\* What is promised of the projects in each step.
ProjectsStep == (TypeOK /\ OwnTenantOnly /\ AccountsSeparate /\ VersionsOwn)' /\ SaveKeepsSight
================================================================================
