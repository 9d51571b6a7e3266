------------------------------ MODULE Registry ------------------------------
(***************************************************************************)
(* Users, groups, repositories and tags with the rows that refer to them:  *)
(* api/users.py, api/groups.py, api/tags.py, and the parts of api/repos.py *)
(* that concern owner and group.                                           *)
(*                                                                         *)
(* Handlers are threads on SQLite, which does not enforce foreign keys     *)
(* here.  A handler that adds checks what its row will refer to, one that  *)
(* deletes has the ORM load the rows to delete along; both commit later.   *)
(* A row is deleted by its id, and the next row gets the greatest id in    *)
(* use plus one, which may be the id of a row that is gone.                *)
(***************************************************************************)
EXTENDS Integers

CONSTANTS
  Users, Groups, Tags,  \* ids of the rows of users, groups and tags
  MaxRows,              \* ids of the rows of user_groups, and of file_tags
  MaxRepos,             \* ids of the rows of repos_registry
  Threads,              \* handlers that run at the same time
  Zero,                 \* group id 0, which no group has
  None                  \* no row, no handler

Rows == 1 .. MaxRows
Repos == 1 .. MaxRepos
Memberships == Users \X Groups
FileTags == Repos \X Tags
GroupIds == Groups \cup {Zero}

\* What a running handler is about: an id or what a row says, the ids of the
\* rows of user_groups or file_tags it has loaded to delete, and those of the
\* repositories it will change.
Ops == {"addMember", "removeMember", "deleteGroup", "ungroup", "deleteUser",
        "register", "update", "unregister", "attach", "detach", "deleteTag"}
Args == Memberships \cup FileTags \cup (Users \X (GroupIds \cup {None}))
          \cup Users \cup GroupIds \cup Tags \cup {None}
Tasks == [op : Ops, arg : Args, loaded : SUBSET Rows, repos : SUBSET Repos]

\* The references a handler is to add: the user and the group of a membership,
\* the owner and the team of a repository, the tag of a file.
RefersTo(x) ==
  CASE x.op = "addMember" -> {<<"user", x.arg[1]>>, <<"group", x.arg[2]>>}
    [] x.op = "register" -> {<<"owner", x.arg[1]>>} \cup {<<"team", g>> : g \in {x.arg[2]} \ {None}}
    [] x.op = "update" -> {<<"team", x.arg>>}
    [] x.op = "attach" -> {<<"tag", x.arg[2]>>}
    [] OTHER -> {}

\* The references that are to what a handler deletes.
TakesAway(x) ==
  CASE x.op = "deleteUser" -> {<<"user", x.arg>>, <<"owner", x.arg>>}
    [] x.op \in {"deleteGroup", "ungroup"} -> {<<"group", x.arg>>, <<"team", x.arg>>}
    [] x.op = "deleteTag" -> {<<"tag", x.arg>>}
    [] OTHER -> {}

ASSUME RegistryAssumption ==
  /\ MaxRows \in Nat /\ MaxRepos \in Nat
  /\ None \notin Memberships \cup FileTags \cup Users \cup GroupIds \cup Tasks
  /\ Zero \notin Groups

VARIABLES
  users, groups, tags,  \* ids in use
  owner,    \* repos_registry.owner_user_id per id
  team,     \* repos_registry.group_id per id
  member,   \* user_groups: user and group per row id
  fileTag,  \* file_tags: repository and tag per row id, for one path
  task,     \* per thread: its handler
  raced,    \* history: references that a handler was to add beside the deletion of
            \* what they are to, or to a group it has not found
  recycled, \* history: memberships stored under a row id that a running removal holds
  regrouped \* history: repositories whose group was set while the deletion of a
            \* group held them, to set it to NULL

rows == <<users, groups, tags, owner, team, member, fileTag>>
history == <<raced, recycled, regrouped>>
vars == <<rows, task, history>>

TypeOK ==
  /\ users \subseteq Users /\ groups \subseteq Groups /\ tags \subseteq Tags
  /\ owner \in [Repos -> Users \cup {None}]
  /\ team \in [Repos -> GroupIds \cup {None}]
  /\ member \in [Rows -> Memberships \cup {None}]
  /\ fileTag \in [Rows -> FileTags \cup {None}]
  /\ task \in [Threads -> Tasks \cup {None}]
  /\ raced \subseteq {"user", "group", "owner", "team", "tag"} \X Args
  /\ recycled \subseteq Memberships /\ regrouped \subseteq Repos

Init ==
  /\ users = {} /\ groups = {} /\ tags = {}
  /\ owner = [r \in Repos |-> None]
  /\ team = [r \in Repos |-> None]
  /\ member = [i \in Rows |-> None]
  /\ fileTag = [i \in Rows |-> None]
  /\ task = [t \in Threads |-> None]
  /\ raced = {} /\ recycled = {} /\ regrouped = {}

Stored(table) == {table[i] : i \in {j \in DOMAIN table : table[j] # None}}

\* The id of the next row, none if the table is full.
NewId(table) ==
  {i \in DOMAIN table :
     /\ \A j \in DOMAIN table : j >= i => table[j] = None
     /\ i > 1 => table[i - 1] # None}

Without(table, ids) == [i \in DOMAIN table |-> IF i \in ids THEN None ELSE table[i]]

MembersOfUser(u) == {i \in Rows : member[i] # None /\ member[i][1] = u}
MembersOfGroup(g) == {i \in Rows : member[i] # None /\ member[i][2] = g}
UsesOfTag(k) == {i \in Rows : fileTag[i] # None /\ fileTag[i][2] = k}

At(t, op) == task[t] # None /\ task[t].op = op

\* The references there are, and those the running handlers are to add.
References ==
  {<<"user", m[1]>> : m \in Stored(member)} \cup {<<"group", m[2]>> : m \in Stored(member)}
    \cup {<<"owner", u>> : u \in Stored(owner)} \cup {<<"team", g>> : g \in Stored(team)}
    \cup {<<"tag", f[2]>> : f \in Stored(fileTag)}
Running == {task[t] : t \in {u \in Threads : task[u] # None}}
Left == References \cup UNION {RefersTo(x) : x \in Running}

\* What the references of each kind are to.
Existing == [user |-> users, group |-> groups, owner |-> users, team |-> groups, tag |-> tags]

\* A handler has made its queries.
Begin(t, op, arg, loaded, repos) ==
  LET x == [op |-> op, arg |-> arg, loaded |-> loaded, repos |-> repos]
      unfound == {p \in RefersTo(x) : p[1] = "team" /\ p[2] \notin groups}
  IN  /\ task[t] = None
      /\ task' = [task EXCEPT ![t] = x]
      /\ raced' = raced \cup unfound \cup
           UNION {(RefersTo(x) \cap TakesAway(y)) \cup (RefersTo(y) \cap TakesAway(x)) : y \in Running}
      /\ UNCHANGED <<rows, recycled, regrouped>>

\* A running removal will delete the row of user_groups with this id, the
\* deletion of a group will set the group of this repository to NULL.
RowHeld(i) == \E t \in Threads :
  task[t] # None /\ task[t].op \in {"removeMember", "deleteGroup", "ungroup"} /\ i \in task[t].loaded
RepoHeld(r) == \E t \in Threads : At(t, "ungroup") /\ r \in task[t].repos

\* A handler has committed or failed, having added this membership or set the
\* group of these repositories.  That an addition was not safe is forgotten with
\* the last reference to its id, a row under an id in use with the last handler
\* that holds it.
Finish(t, added, set) ==
  /\ task' = [task EXCEPT ![t] = None]
  /\ raced' = raced \cap Left'
  /\ recycled' = {m \in recycled \cup added : \E i \in Rows : member'[i] = m /\ RowHeld(i)'}
  /\ regrouped' = {r \in regrouped \cup set : RepoHeld(r)'}
End(t) == Finish(t, {}, {})

-----------------------------------------------------------------------------
(***************************************************************************)
(* Mutants, not used by the specification.                                 *)
(***************************************************************************)
\* Without the relationship that deletes memberships with their user.
DeleteUserKeepingMemberships(t) ==
  /\ At(t, "deleteUser")
  /\ task[t].arg \notin Stored(owner)
  /\ users' = users \ {task[t].arg}
  /\ UNCHANGED <<groups, tags, owner, team, member, fileTag>>
  /\ End(t)

\* The membership looked for by its user alone.
RemoveAnyOfUser(t, u, g) ==
  /\ <<u, g>> \in Stored(member)
  /\ Begin(t, "removeMember", <<u, g>>, MembersOfUser(u), {})

-----------------------------------------------------------------------------
(***************************************************************************)
(* Users, groups and tags: names are unique, and nothing else is checked   *)
(* before they are stored.                                                 *)
(***************************************************************************)
CreateUser(u) ==
  /\ u \notin users
  /\ users' = users \cup {u}
  /\ UNCHANGED <<groups, tags, owner, team, member, fileTag, task, history>>

CreateGroup(g) ==
  /\ g \notin groups
  /\ groups' = groups \cup {g}
  /\ UNCHANGED <<users, tags, owner, team, member, fileTag, task, history>>

CreateTag(k) ==
  /\ k \notin tags
  /\ tags' = tags \cup {k}
  /\ UNCHANGED <<users, groups, owner, team, member, fileTag, task, history>>

\* Memberships are deleted along, as loaded when the user's sessions have been
\* deleted and the database is locked.  Repositories are not: the ORM would set
\* their owner to NULL, which the column refuses.
DeleteUser(t, u) ==
  /\ u \in users
  /\ Begin(t, "deleteUser", u, {}, {})

DeleteUserCommit(t) ==
  /\ At(t, "deleteUser")
  /\ task[t].arg \notin Stored(owner)
  /\ users' = users \ {task[t].arg}
  /\ member' = Without(member, MembersOfUser(task[t].arg))
  /\ UNCHANGED <<groups, tags, owner, team, fileTag>>
  /\ End(t)

\* Memberships are deleted along, as loaded before.
DeleteGroup(t, g) ==
  /\ g \in groups
  /\ Begin(t, "deleteGroup", g, MembersOfGroup(g), {})

\* The flush loads the repositories, to set their group to NULL.
DeleteGroupFlush(t) ==
  /\ At(t, "deleteGroup")
  /\ task' = [task EXCEPT ![t].op = "ungroup",
                          ![t].repos = {r \in Repos : team[r] = task[t].arg}]
  /\ UNCHANGED <<rows, history>>

\* A repository that is gone cannot be updated; then the commit fails.
DeleteGroupCommit(t) ==
  /\ At(t, "ungroup")
  /\ \A r \in task[t].repos : owner[r] # None
  /\ groups' = groups \ {task[t].arg}
  /\ member' = Without(member, task[t].loaded)
  /\ team' = Without(team, task[t].repos)
  /\ UNCHANGED <<users, tags, owner, fileTag>>
  /\ End(t)

DeleteTag(t, k) ==
  /\ k \in tags
  /\ Begin(t, "deleteTag", k, UsesOfTag(k), {})

DeleteTagCommit(t) ==
  /\ At(t, "deleteTag")
  /\ tags' = tags \ {task[t].arg}
  /\ fileTag' = Without(fileTag, task[t].loaded)
  /\ UNCHANGED <<users, groups, owner, team, member>>
  /\ End(t)

(***************************************************************************)
(* Memberships                                                             *)
(***************************************************************************)
AddMember(t, u, g) ==
  /\ u \in users /\ g \in groups /\ <<u, g>> \notin Stored(member)
  /\ Begin(t, "addMember", <<u, g>>, {}, {})

\* A membership that exists by now violates the unique constraint.
AddMemberCommit(t) ==
  /\ At(t, "addMember")
  /\ task[t].arg \notin Stored(member)
  /\ \E i \in NewId(member) : member' = [member EXCEPT ![i] = task[t].arg]
  /\ UNCHANGED <<users, groups, tags, owner, team, fileTag>>
  /\ Finish(t, {task[t].arg}, {})

RemoveMember(t, u, g) ==
  /\ <<u, g>> \in Stored(member)
  /\ Begin(t, "removeMember", <<u, g>>, {i \in Rows : member[i] = <<u, g>>}, {})

RemoveMemberCommit(t) ==
  /\ At(t, "removeMember")
  /\ member' = Without(member, task[t].loaded)
  /\ UNCHANGED <<users, groups, tags, owner, team, fileTag>>
  /\ End(t)

(***************************************************************************)
(* Repositories                                                            *)
(***************************************************************************)
\* In no group, or in one that has been looked for.  Group id 0 is not looked
\* for, as it is falsy, and is stored as it is.
RegisterRepo(t, u, g) ==
  /\ u \in users /\ g \in groups \cup {Zero, None}
  /\ Begin(t, "register", <<u, g>>, {}, {})

RegisterCommit(t) ==
  /\ At(t, "register")
  /\ UNCHANGED <<users, groups, tags, member, fileTag>>
  /\ \E r \in NewId(owner) :
       /\ owner' = [owner EXCEPT ![r] = task[t].arg[1]]
       /\ team' = [team EXCEPT ![r] = task[t].arg[2]]
       /\ Finish(t, {}, {r})

\* To any group, whether it exists is not checked.  One the repository is in
\* already changes nothing.
UpdateRepo(t, r, g) ==
  /\ owner[r] # None /\ team[r] # g
  /\ Begin(t, "update", g, {}, {r})

UpdateCommit(t) ==
  /\ At(t, "update")
  /\ \A r \in task[t].repos : owner[r] # None
  /\ team' = [r \in Repos |-> IF r \in task[t].repos THEN task[t].arg ELSE team[r]]
  /\ UNCHANGED <<users, groups, tags, owner, member, fileTag>>
  /\ Finish(t, {}, task[t].repos)

UnregisterRepo(t, r) ==
  /\ owner[r] # None
  /\ Begin(t, "unregister", None, {}, {r})

\* The tags of its files stay.
UnregisterCommit(t) ==
  /\ At(t, "unregister")
  /\ owner' = Without(owner, task[t].repos)
  /\ team' = Without(team, task[t].repos)
  /\ UNCHANGED <<users, groups, tags, member, fileTag>>
  /\ End(t)

(***************************************************************************)
(* Tags of files: whether the repository exists is not checked.            *)
(***************************************************************************)
AttachTag(t, r, k) ==
  /\ k \in tags /\ <<r, k>> \notin Stored(fileTag)
  /\ Begin(t, "attach", <<r, k>>, {}, {})

AttachCommit(t) ==
  /\ At(t, "attach")
  /\ task[t].arg \notin Stored(fileTag)
  /\ \E i \in NewId(fileTag) : fileTag' = [fileTag EXCEPT ![i] = task[t].arg]
  /\ UNCHANGED <<users, groups, tags, owner, team, member>>
  /\ End(t)

DetachTag(t, r, k) ==
  /\ <<r, k>> \in Stored(fileTag)
  /\ Begin(t, "detach", <<r, k>>, {i \in Rows : fileTag[i] = <<r, k>>}, {})

DetachCommit(t) ==
  /\ At(t, "detach")
  /\ fileTag' = Without(fileTag, task[t].loaded)
  /\ UNCHANGED <<users, groups, tags, owner, team, member>>
  /\ End(t)

\* A constraint refuses the commit, or the database stays locked.
CommitFails(t) == task[t] # None /\ UNCHANGED rows /\ End(t)

Next ==
  \/ \E u \in Users : CreateUser(u)
  \/ \E g \in Groups : CreateGroup(g)
  \/ \E k \in Tags : CreateTag(k)
  \/ \E t \in Threads, u \in Users : DeleteUser(t, u)
  \/ \E t \in Threads, u \in Users, g \in GroupIds \cup {None} : RegisterRepo(t, u, g)
  \/ \E t \in Threads, r \in Repos, g \in GroupIds : UpdateRepo(t, r, g)
  \/ \E t \in Threads, g \in Groups : DeleteGroup(t, g)
  \/ \E t \in Threads, k \in Tags : DeleteTag(t, k)
  \/ \E t \in Threads, u \in Users, g \in Groups : AddMember(t, u, g) \/ RemoveMember(t, u, g)
  \/ \E t \in Threads, r \in Repos : UnregisterRepo(t, r)
  \/ \E t \in Threads, r \in Repos, k \in Tags : AttachTag(t, r, k) \/ DetachTag(t, r, k)
  \/ \E t \in Threads :
       \/ DeleteUserCommit(t) \/ DeleteTagCommit(t)
       \/ DeleteGroupFlush(t) \/ DeleteGroupCommit(t)
       \/ AddMemberCommit(t) \/ RemoveMemberCommit(t)
       \/ RegisterCommit(t) \/ UpdateCommit(t) \/ UnregisterCommit(t)
       \/ AttachCommit(t) \/ DetachCommit(t)
       \/ CommitFails(t)

Spec == Init /\ [][Next]_vars

-----------------------------------------------------------------------------
(***************************************************************************)
(* Properties                                                              *)
(***************************************************************************)
\* References are to what exists: memberships to users and groups, repositories
\* to users and groups, tags of files to tags.  Nothing breaks this for an id but
\* an addition that refers to that id and ran beside its deletion, or that names
\* a group it has not found: group id 0 at a registration, any at an update.
\* Deletions may overlap each other and other additions, and so may additions.
ReferencesExist == \A p \in References : p[2] \in Existing[p[1]] \/ p \in raced

\* A membership goes when it is removed or when its user or its group goes: a
\* deletion by a row id read earlier hits another membership only if that was
\* stored under the id while the deletion held it.  In the same way a repository
\* leaves its group for none only if that group goes, or with its own row, or if
\* its group was set while the deletion of another held it.
RemovedOnPurpose ==
  [][/\ \A m \in Stored(member) \ Stored(member)' :
          \/ m[1] \notin users' \/ m[2] \notin groups'
          \/ \E t \in Threads : At(t, "removeMember") /\ task[t].arg = m
          \/ m \in recycled
     /\ \A r \in Repos : team[r] # None /\ team'[r] = None =>
          owner'[r] = None \/ team[r] \notin groups' \/ r \in regrouped]_vars

=============================================================================
