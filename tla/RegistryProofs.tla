--------------------------- MODULE RegistryProofs ---------------------------
(***************************************************************************)
(* Proofs about Registry and RepoSync, the two sides of a registered       *)
(* repository: the rows that refer to each other, and the commits pushed   *)
(* to one id.  Neither part cites the assumption of the other's module.    *)
(*                                                                         *)
(* Registry, for any number of rows, handlers and ids: a reference is to   *)
(* what exists unless it raced, and a row goes on purpose unless its id    *)
(* was given out again.  The argument follows the running handlers: what   *)
(* one is to add exists, what one deletes it has loaded with all that      *)
(* refers to it, and it has loaded nothing else, except for references     *)
(* that raced and rows that were stored under an id in use.                *)
(***************************************************************************)
EXTENDS Registry, RepoSync, FiniteSetTheorems, TLAPS

Removes(x) == x.op \in {"removeMember", "deleteGroup", "ungroup"}

\* The kind of argument each handler has.
Fits(x) ==
  /\ x.op \in {"addMember", "removeMember"} => x.arg \in Memberships
  /\ x.op \in {"deleteGroup", "ungroup"} => x.arg \in Groups
  /\ x.op = "update" => x.arg \in GroupIds
  /\ x.op = "register" => x.arg \in Users \X (GroupIds \cup {None})
  /\ x.op \in {"attach", "detach"} => x.arg \in FileTags

\* It has loaded every row that refers to what it deletes, unless that raced.
Complete(x) ==
  /\ x.op \in {"deleteGroup", "ungroup"} => \A i \in Rows :
       member[i] # None /\ member[i][2] = x.arg => i \in x.loaded \/ <<"group", x.arg>> \in raced
  /\ x.op = "ungroup" => \A r \in Repos :
       team[r] = x.arg => r \in x.repos \/ <<"team", x.arg>> \in raced
  /\ x.op = "deleteTag" => \A i \in Rows :
       fileTag[i] # None /\ fileTag[i][2] = x.arg => i \in x.loaded \/ <<"tag", x.arg>> \in raced

\* It has loaded no other membership and no other repository, unless the row
\* was stored or its group set since.
Meant(x, m) == IF x.op = "removeMember" THEN m = x.arg ELSE m[2] = x.arg
Precise(x) ==
  /\ Removes(x) => \A i \in x.loaded :
       member[i] # None => Meant(x, member[i]) \/ member[i] \in recycled
  /\ x.op = "ungroup" => \A r \in x.repos :
       team[r] # None => team[r] = x.arg \/ r \in regrouped

Known(p) == p[2] \in Existing[p[1]] \/ p \in raced

\* Handlers fit, and a repository that is not there is in no group.
HandlersInv ==
  /\ TypeOK
  /\ \A x \in Running : Fits(x)
  /\ \A r \in Repos : owner[r] = None => team[r] = None
\* What a handler is to refer to, no other deletes, unless it raced.
ApartInv == \A x, y \in Running : RefersTo(x) \cap TakesAway(y) \subseteq raced
KnownInv == \A p \in Left : Known(p)
LoadedInv == \A x \in Running : Complete(x) /\ Precise(x)

RegistryInv == HandlersInv /\ ApartInv /\ KnownInv /\ LoadedInv

\* A handler begins, knowing what it has seen.
Begun ==
  \E t \in Threads, x \in Tasks :
    /\ Begin(t, x.op, x.arg, x.loaded, x.repos)
    /\ Fits(x) /\ Complete(x) /\ Precise(x)
    /\ \A p \in RefersTo(x) : p[1] = "team" \/ p[2] \in Existing[p[1]]

\* Histories keep what is still of use.
Keeps ==
  /\ \A p \in raced : p \in Left' => p \in raced'
  /\ \A m \in recycled, i \in Rows, x \in Running' :
       Removes(x) /\ i \in x.loaded /\ member'[i] = m => m \in recycled'
  /\ \A r \in regrouped, x \in Running' : x.op = "ungroup" /\ r \in x.repos => r \in regrouped'

\* Rows stay or go, but for those a running handler was to add.
Adds ==
  /\ \A i \in Rows : \/ member'[i] \in {None, member[i]}
                     \/ \E y \in Running : /\ <<"user", member'[i][1]>> \in RefersTo(y)
                                           /\ <<"group", member'[i][2]>> \in RefersTo(y)
  /\ \A r \in Repos : \/ owner'[r] \in {None, owner[r]}
                      \/ \E y \in Running : <<"owner", owner'[r]>> \in RefersTo(y)
  /\ \A r \in Repos : \/ team'[r] \in {None, team[r]}
                      \/ \E y \in Running : <<"team", team'[r]>> \in RefersTo(y)
  /\ \A i \in Rows : \/ fileTag'[i] \in {None, fileTag[i]}
                     \/ \E y \in Running : <<"tag", fileTag'[i][2]>> \in RefersTo(y)

\* The rows that are added are recorded where a handler holds their ids.
Records ==
  \A x \in Running' :
    /\ Removes(x) => \A i \in x.loaded : member'[i] \in {None, member[i]} \cup recycled'
    /\ x.op = "ungroup" => \A r \in x.repos : team'[r] \in {None, team[r]} \/ r \in regrouped'

\* What goes is referred to by nothing that is left, unless that raced.
Spares ==
  \A p \in Left' : p[2] \in Existing[p[1]] => p[2] \in Existing'[p[1]] \/ p \in raced

-----------------------------------------------------------------------------
(***************************************************************************)
(* Rows and references.                                                    *)
(***************************************************************************)
LEMMA InStored ==
  ASSUME TypeOK
  PROVE  /\ \A m : m \in Stored(member) <=> m # None /\ \E i \in Rows : member[i] = m
         /\ \A f : f \in Stored(fileTag) <=> f # None /\ \E i \in Rows : fileTag[i] = f
         /\ \A u : u \in Stored(owner) <=> u # None /\ \E r \in Repos : owner[r] = u
         /\ \A g : g \in Stored(team) <=> g # None /\ \E r \in Repos : team[r] = g
  <1>1. DOMAIN member = Rows /\ DOMAIN fileTag = Rows /\ DOMAIN owner = Repos /\ DOMAIN team = Repos
    BY DEF TypeOK
  <1> QED  BY <1>1 DEF Stored

LEMMA InStoredNext ==
  ASSUME TypeOK'
  PROVE  /\ \A m : m \in Stored(member)' <=> m # None /\ \E i \in Rows : member'[i] = m
         /\ \A f : f \in Stored(fileTag)' <=> f # None /\ \E i \in Rows : fileTag'[i] = f
         /\ \A u : u \in Stored(owner)' <=> u # None /\ \E r \in Repos : owner'[r] = u
         /\ \A g : g \in Stored(team)' <=> g # None /\ \E r \in Repos : team'[r] = g
  <1>1. DOMAIN member' = Rows /\ DOMAIN fileTag' = Rows /\ DOMAIN owner' = Repos /\ DOMAIN team' = Repos
    BY DEF TypeOK
  <1> QED  BY <1>1 DEF Stored

LEMMA InReferences ==
  ASSUME TypeOK, NEW p
  PROVE  p \in References <=>
           \/ \E i \in Rows : member[i] # None /\ p \in {<<"user", member[i][1]>>, <<"group", member[i][2]>>}
           \/ \E r \in Repos : owner[r] # None /\ p = <<"owner", owner[r]>>
           \/ \E r \in Repos : team[r] # None /\ p = <<"team", team[r]>>
           \/ \E i \in Rows : fileTag[i] # None /\ p = <<"tag", fileTag[i][2]>>
  BY InStored DEF References

LEMMA InReferencesNext ==
  ASSUME TypeOK', NEW p
  PROVE  p \in References' <=>
           \/ \E i \in Rows : member'[i] # None /\ p \in {<<"user", member'[i][1]>>, <<"group", member'[i][2]>>}
           \/ \E r \in Repos : owner'[r] # None /\ p = <<"owner", owner'[r]>>
           \/ \E r \in Repos : team'[r] # None /\ p = <<"team", team'[r]>>
           \/ \E i \in Rows : fileTag'[i] # None /\ p = <<"tag", fileTag'[i][2]>>
  BY InStoredNext DEF References

\* The next row is a free one.
LEMMA NewIdIsFree ==
  ASSUME TypeOK
  PROVE  /\ \A i \in NewId(member) : i \in Rows /\ member[i] = None
         /\ \A r \in NewId(owner) : r \in Repos /\ owner[r] = None
         /\ \A i \in NewId(fileTag) : i \in Rows
  <1>1. DOMAIN member = Rows /\ DOMAIN owner = Repos /\ DOMAIN fileTag = Rows
    BY DEF TypeOK
  <1>2. \A i \in Rows \cup Repos : i >= i
    BY RegistryAssumption DEF Rows, Repos, RegistryAssumption
  <1> QED  BY <1>1, <1>2 DEF NewId

\* Deleted rows are gone, and the others stay.
LEMMA WithoutKeeps ==
  ASSUME TypeOK, NEW ids
  PROVE  /\ Without(member, ids) \in [Rows -> Memberships \cup {None}]
         /\ Without(fileTag, ids) \in [Rows -> FileTags \cup {None}]
         /\ Without(owner, ids) \in [Repos -> Users \cup {None}]
         /\ Without(team, ids) \in [Repos -> GroupIds \cup {None}]
         /\ \A i \in Rows : Without(member, ids)[i] = IF i \in ids THEN None ELSE member[i]
         /\ \A i \in Rows : Without(fileTag, ids)[i] = IF i \in ids THEN None ELSE fileTag[i]
         /\ \A r \in Repos : Without(owner, ids)[r] = IF r \in ids THEN None ELSE owner[r]
         /\ \A r \in Repos : Without(team, ids)[r] = IF r \in ids THEN None ELSE team[r]
  BY DEF TypeOK, Without

\* What handlers refer to and take away, by what they are.
LEMMA RefersToByOp ==
  ASSUME NEW x
  PROVE  /\ x.op = "addMember" => RefersTo(x) = {<<"user", x.arg[1]>>, <<"group", x.arg[2]>>}
         /\ x.op = "register" => RefersTo(x) =
              {<<"owner", x.arg[1]>>} \cup {<<"team", g>> : g \in {x.arg[2]} \ {None}}
         /\ x.op = "update" => RefersTo(x) = {<<"team", x.arg>>}
         /\ x.op = "attach" => RefersTo(x) = {<<"tag", x.arg[2]>>}
         /\ x.op \notin {"addMember", "register", "update", "attach"} => RefersTo(x) = {}
  BY DEF RefersTo

LEMMA TakesAwayByOp ==
  ASSUME NEW x
  PROVE  /\ x.op = "deleteUser" => TakesAway(x) = {<<"user", x.arg>>, <<"owner", x.arg>>}
         /\ x.op \in {"deleteGroup", "ungroup"} => TakesAway(x) = {<<"group", x.arg>>, <<"team", x.arg>>}
         /\ x.op = "deleteTag" => TakesAway(x) = {<<"tag", x.arg>>}
         /\ x.op \notin {"deleteUser", "deleteGroup", "ungroup", "deleteTag"} => TakesAway(x) = {}
  BY DEF TakesAway

LEMMA ExistingByKind ==
  /\ Existing["user"] = users /\ Existing["group"] = groups /\ Existing["owner"] = users
  /\ Existing["team"] = groups /\ Existing["tag"] = tags
  BY DEF Existing

LEMMA ExistingByKindNext ==
  /\ Existing'["user"] = users' /\ Existing'["group"] = groups' /\ Existing'["owner"] = users'
  /\ Existing'["team"] = groups' /\ Existing'["tag"] = tags'
  BY DEF Existing

\* A reference has one of five kinds.
LEMMA KindOfReference ==
  ASSUME TypeOK, NEW p \in Left
  PROVE  p[1] \in {"user", "group", "owner", "team", "tag"} /\ p = <<p[1], p[2]>>
  <1>1. CASE p \in References
    BY <1>1, InReferences
  <1>2. ASSUME NEW x, p \in RefersTo(x)
        PROVE  p[1] \in {"user", "group", "owner", "team", "tag"} /\ p = <<p[1], p[2]>>
    BY <1>2, RefersToByOp
  <1> QED  BY <1>1, <1>2 DEF Left

LEMMA RunningIsTask == TypeOK => Running \subseteq Tasks
  BY DEF TypeOK, Running

LEMMA InitRegistry == Init => RegistryInv
  <1> SUFFICES ASSUME Init PROVE RegistryInv
    OBVIOUS
  <1>1. TypeOK
    BY DEF Init, TypeOK
  <1>2. Running = {}
    BY DEF Init, Running
  <1>3. \A p : p \notin References
    BY <1>1, InReferences DEF Init
  <1>4. Left = {}
    BY <1>2, <1>3 DEF Left
  <1> QED  BY <1>1, <1>2, <1>4 DEF Init, RegistryInv, HandlersInv, ApartInv, KnownInv, LoadedInv

-----------------------------------------------------------------------------
(***************************************************************************)
(* Steps that begin no handler.                                            *)
(***************************************************************************)
\* What a handler leaves when it ends.
LEMMA FinishEffect ==
  ASSUME TypeOK, NEW t \in Threads, NEW added \in SUBSET Memberships, NEW set \in SUBSET Repos,
         Finish(t, added, set)
  PROVE  /\ task' \in [Threads -> Tasks \cup {None}] /\ Running' \subseteq Running
         /\ raced' \subseteq raced /\ recycled' \subseteq Memberships /\ regrouped' \subseteq Repos
         /\ Keeps
         /\ \A m \in added, i \in Rows, x \in Running' :
              Removes(x) /\ i \in x.loaded /\ member'[i] = m => m \in recycled'
         /\ \A r \in set, x \in Running' : x.op = "ungroup" /\ r \in x.repos => r \in regrouped'
  <1>1. /\ task' = [task EXCEPT ![t] = None]
        /\ raced' = raced \cap Left'
        /\ recycled' = {m \in recycled \cup added : \E i \in Rows : member'[i] = m /\ RowHeld(i)'}
        /\ regrouped' = {r \in regrouped \cup set : RepoHeld(r)'}
    BY DEF Finish
  <1>2. task' \in [Threads -> Tasks \cup {None}] /\ Running' \subseteq Running
    BY <1>1 DEF TypeOK, Running
  <1>3. recycled' \subseteq Memberships /\ regrouped' \subseteq Repos /\ raced' \subseteq raced
    BY <1>1 DEF TypeOK
  <1>4. \A x \in Running' : \E u \in Threads : task'[u] # None /\ task'[u] = x
    BY DEF Running
  <1>5. \A i \in Rows, x \in Running' : Removes(x) /\ i \in x.loaded => RowHeld(i)'
    BY <1>4 DEF RowHeld, Removes
  <1>6. \A r, x : x \in Running' /\ x.op = "ungroup" /\ r \in x.repos => RepoHeld(r)'
    BY <1>4 DEF RepoHeld, At
  <1>7. \A m \in recycled \cup added, i \in Rows, x \in Running' :
          Removes(x) /\ i \in x.loaded /\ member'[i] = m => m \in recycled'
    BY <1>1, <1>5
  <1>8. \A r \in regrouped \cup set, x \in Running' :
          x.op = "ungroup" /\ r \in x.repos => r \in regrouped'
    BY <1>1, <1>6
  <1>9. Keeps
    BY <1>1, <1>7, <1>8 DEF Keeps
  <1> QED  BY <1>2, <1>3, <1>7, <1>8, <1>9

\* Such a step keeps the invariant if it adds only what a handler was to add,
\* records it, and spares what is left.
LEMMA LeftShrinks ==
  ASSUME RegistryInv, TypeOK', Running' \subseteq Running, Adds
  PROVE  Left' \subseteq Left
  <1>1. TypeOK
    BY DEF RegistryInv, HandlersInv
  <1>2. \A y \in Running : RefersTo(y) \subseteq Left
    BY DEF Left
  <1>3. ASSUME NEW p \in References' PROVE p \in Left
    <2>1. ASSUME NEW i \in Rows, member'[i] # None
          PROVE  <<"user", member'[i][1]>> \in Left /\ <<"group", member'[i][2]>> \in Left
      <3>1. CASE member'[i] = member[i]
        <4>1. <<"user", member[i][1]>> \in References /\ <<"group", member[i][2]>> \in References
          BY <1>1, <2>1, <3>1, InReferences
        <4> QED  BY <3>1, <4>1 DEF Left
      <3> QED  BY <1>2, <2>1, <3>1 DEF Adds
    <2>2. ASSUME NEW r \in Repos, owner'[r] # None PROVE <<"owner", owner'[r]>> \in Left
      BY <1>1, <1>2, <2>2, InReferences DEF Adds, Left
    <2>3. ASSUME NEW r \in Repos, team'[r] # None PROVE <<"team", team'[r]>> \in Left
      BY <1>1, <1>2, <2>3, InReferences DEF Adds, Left
    <2>4. ASSUME NEW i \in Rows, fileTag'[i] # None PROVE <<"tag", fileTag'[i][2]>> \in Left
      BY <1>1, <1>2, <2>4, InReferences DEF Adds, Left
    <2> QED  BY <2>1, <2>2, <2>3, <2>4, InReferencesNext
  <1> QED  BY <1>3 DEF Left

LEMMA CompleteKept ==
  ASSUME RegistryInv, TypeOK', Running' \subseteq Running, Adds, Keeps, NEW x \in Running'
  PROVE  Complete(x)'
  <1>1. /\ Complete(x) /\ x \in Running
        /\ \A y \in Running : RefersTo(y) \cap TakesAway(x) \subseteq raced
        /\ \A p \in raced : p \in Left' => p \in raced'
        /\ \A p \in References' : p \in Left'
    BY DEF RegistryInv, LoadedInv, ApartInv, Keeps, Left
  <1>2. ASSUME x.op \in {"deleteGroup", "ungroup"}, NEW i \in Rows,
               member'[i] # None, member'[i][2] = x.arg, i \notin x.loaded
        PROVE  <<"group", x.arg>> \in raced'
    <2>1. <<"group", x.arg>> \in References'
      BY <1>2, InReferencesNext
    <2>2. <<"group", x.arg>> \in TakesAway(x)
      BY <1>2, TakesAwayByOp
    <2>3. <<"group", x.arg>> \in raced
      BY <1>1, <1>2, <2>2 DEF Adds, Complete
    <2> QED  BY <1>1, <2>1, <2>3
  <1>3. ASSUME x.op = "ungroup", NEW r \in Repos, team'[r] = x.arg, r \notin x.repos
        PROVE  <<"team", x.arg>> \in raced'
    <2>1. x.arg # None
      BY <1>1, <1>3, RegistryAssumption DEF RegistryInv, HandlersInv, Fits, RegistryAssumption, GroupIds
    <2>2. <<"team", x.arg>> \in References'
      BY <1>3, <2>1, InReferencesNext
    <2>3. <<"team", x.arg>> \in TakesAway(x)
      BY <1>3, TakesAwayByOp
    <2>4. <<"team", x.arg>> \in raced
      BY <1>1, <1>3, <2>1, <2>3 DEF Adds, Complete
    <2> QED  BY <1>1, <2>2, <2>4
  <1>4. ASSUME x.op = "deleteTag", NEW i \in Rows,
               fileTag'[i] # None, fileTag'[i][2] = x.arg, i \notin x.loaded
        PROVE  <<"tag", x.arg>> \in raced'
    <2>1. <<"tag", x.arg>> \in References'
      BY <1>4, InReferencesNext
    <2>2. <<"tag", x.arg>> \in TakesAway(x)
      BY <1>4, TakesAwayByOp
    <2>3. <<"tag", x.arg>> \in raced
      BY <1>1, <1>4, <2>2 DEF Adds, Complete
    <2> QED  BY <1>1, <2>1, <2>3
  <1> QED  BY <1>2, <1>3, <1>4 DEF Complete

LEMMA PreciseKept ==
  ASSUME RegistryInv, Running' \subseteq Running, Keeps, Records, NEW x \in Running'
  PROVE  Precise(x)'
  <1>1. Precise(x) /\ x \in Running /\ TypeOK /\ RegistryAssumption
    BY RegistryAssumption DEF RegistryInv, LoadedInv, HandlersInv
  <1>2. x.loaded \subseteq Rows
    BY <1>1, RunningIsTask DEF Tasks
  <1>3. ASSUME Removes(x), NEW i \in x.loaded, member'[i] # None
        PROVE  Meant(x, member'[i]) \/ member'[i] \in recycled'
    <2>1. CASE member'[i] \in recycled'
      BY <2>1
    <2>2. CASE member'[i] = member[i]
      BY <1>1, <1>2, <1>3, <2>2 DEF Precise, Keeps
    <2> QED  BY <1>3, <2>1, <2>2 DEF Records
  <1>4. ASSUME x.op = "ungroup", NEW r \in x.repos, team'[r] # None
        PROVE  team'[r] = x.arg \/ r \in regrouped'
    BY <1>1, <1>4 DEF Records, Precise, Keeps
  <1> QED  BY <1>3, <1>4 DEF Precise, Meant, Removes

LEMMA StepKeeps ==
  ASSUME RegistryInv, TypeOK', Running' \subseteq Running,
         \A r \in Repos : owner'[r] = None => team'[r] = None,
         Adds, Keeps, Records, Spares
  PROVE  RegistryInv'
  <1>1. HandlersInv'
    BY DEF RegistryInv, HandlersInv, Fits
  <1>2. ApartInv'
    <2>1. \A x \in Running' : RefersTo(x) \subseteq Left'
      BY DEF Left
    <2> QED  BY <2>1 DEF RegistryInv, ApartInv, Keeps
  <1>3. KnownInv'
    <2>1. ASSUME NEW p \in Left' PROVE p[2] \in Existing'[p[1]] \/ p \in raced'
      BY LeftShrinks DEF RegistryInv, KnownInv, Known, Keeps, Spares
    <2> QED  BY <2>1 DEF KnownInv, Known
  <1>4. LoadedInv'
    BY CompleteKept, PreciseKept DEF LoadedInv
  <1> QED  BY <1>1, <1>2, <1>3, <1>4 DEF RegistryInv

-----------------------------------------------------------------------------
(***************************************************************************)
(* Handlers that begin.                                                    *)
(***************************************************************************)
\* Every handler's queries are such a beginning.
LEMMA Begins ==
  ASSUME NEW t \in Threads, NEW x \in Tasks, Begin(t, x.op, x.arg, x.loaded, x.repos),
         Fits(x), Complete(x), Precise(x),
         \A p \in RefersTo(x) : p[1] = "team" \/ p[2] \in Existing[p[1]]
  PROVE  Begun
  BY DEF Begun

LEMMA DeleteUserStarts ==
  ASSUME NEW t \in Threads, NEW u \in Users, DeleteUser(t, u)
  PROVE  Begun
  <1> DEFINE x == [op |-> "deleteUser", arg |-> u,
                   loaded |-> {}, repos |-> {}]
  <1>1. x \in Tasks
    BY DEF Tasks, Ops, Args, Memberships, FileTags, GroupIds, MembersOfGroup, UsesOfTag
  <1>2. Begin(t, x.op, x.arg, x.loaded, x.repos)
    BY DEF DeleteUser
  <1>3. Fits(x)
    BY DEF Fits, Memberships, FileTags
  <1>4. Complete(x) /\ Precise(x)
    BY DEF Complete, Precise, Removes, Meant, MembersOfGroup, UsesOfTag
  <1>5. \A p \in RefersTo(x) : p[1] = "team" \/ p[2] \in Existing[p[1]]
    BY RefersToByOp, ExistingByKind DEF DeleteUser
  <1> QED  BY <1>1, <1>2, <1>3, <1>4, <1>5, Begins

LEMMA RegisterRepoStarts ==
  ASSUME NEW t \in Threads, NEW u \in Users, NEW g \in GroupIds \cup {None}, RegisterRepo(t, u, g)
  PROVE  Begun
  <1> DEFINE x == [op |-> "register", arg |-> <<u, g>>,
                   loaded |-> {}, repos |-> {}]
  <1>1. x \in Tasks
    BY DEF Tasks, Ops, Args, Memberships, FileTags, GroupIds, MembersOfGroup, UsesOfTag
  <1>2. Begin(t, x.op, x.arg, x.loaded, x.repos)
    BY DEF RegisterRepo
  <1>3. Fits(x)
    BY DEF Fits, Memberships, FileTags
  <1>4. Complete(x) /\ Precise(x)
    BY DEF Complete, Precise, Removes, Meant, MembersOfGroup, UsesOfTag
  <1>5. \A p \in RefersTo(x) : p[1] = "team" \/ p[2] \in Existing[p[1]]
    BY RefersToByOp, ExistingByKind DEF RegisterRepo
  <1> QED  BY <1>1, <1>2, <1>3, <1>4, <1>5, Begins

LEMMA UpdateRepoStarts ==
  ASSUME NEW t \in Threads, NEW r \in Repos, NEW g \in GroupIds, UpdateRepo(t, r, g)
  PROVE  Begun
  <1> DEFINE x == [op |-> "update", arg |-> g,
                   loaded |-> {}, repos |-> {r}]
  <1>1. x \in Tasks
    BY DEF Tasks, Ops, Args, Memberships, FileTags, GroupIds, MembersOfGroup, UsesOfTag
  <1>2. Begin(t, x.op, x.arg, x.loaded, x.repos)
    BY DEF UpdateRepo
  <1>3. Fits(x)
    BY DEF Fits, Memberships, FileTags
  <1>4. Complete(x) /\ Precise(x)
    BY DEF Complete, Precise, Removes, Meant, MembersOfGroup, UsesOfTag
  <1>5. \A p \in RefersTo(x) : p[1] = "team" \/ p[2] \in Existing[p[1]]
    BY RefersToByOp, ExistingByKind DEF UpdateRepo
  <1> QED  BY <1>1, <1>2, <1>3, <1>4, <1>5, Begins

LEMMA DeleteGroupStarts ==
  ASSUME NEW t \in Threads, NEW g \in Groups, DeleteGroup(t, g)
  PROVE  Begun
  <1> DEFINE x == [op |-> "deleteGroup", arg |-> g,
                   loaded |-> MembersOfGroup(g), repos |-> {}]
  <1>1. x \in Tasks
    BY DEF Tasks, Ops, Args, Memberships, FileTags, GroupIds, MembersOfGroup, UsesOfTag
  <1>2. Begin(t, x.op, x.arg, x.loaded, x.repos)
    BY DEF DeleteGroup
  <1>3. Fits(x)
    BY DEF Fits, Memberships, FileTags
  <1>4. Complete(x) /\ Precise(x)
    BY DEF Complete, Precise, Removes, Meant, MembersOfGroup, UsesOfTag
  <1>5. \A p \in RefersTo(x) : p[1] = "team" \/ p[2] \in Existing[p[1]]
    BY RefersToByOp, ExistingByKind DEF DeleteGroup
  <1> QED  BY <1>1, <1>2, <1>3, <1>4, <1>5, Begins

LEMMA DeleteTagStarts ==
  ASSUME NEW t \in Threads, NEW k \in Tags, DeleteTag(t, k)
  PROVE  Begun
  <1> DEFINE x == [op |-> "deleteTag", arg |-> k,
                   loaded |-> UsesOfTag(k), repos |-> {}]
  <1>1. x \in Tasks
    BY DEF Tasks, Ops, Args, Memberships, FileTags, GroupIds, MembersOfGroup, UsesOfTag
  <1>2. Begin(t, x.op, x.arg, x.loaded, x.repos)
    BY DEF DeleteTag
  <1>3. Fits(x)
    BY DEF Fits, Memberships, FileTags
  <1>4. Complete(x) /\ Precise(x)
    BY DEF Complete, Precise, Removes, Meant, MembersOfGroup, UsesOfTag
  <1>5. \A p \in RefersTo(x) : p[1] = "team" \/ p[2] \in Existing[p[1]]
    BY RefersToByOp, ExistingByKind DEF DeleteTag
  <1> QED  BY <1>1, <1>2, <1>3, <1>4, <1>5, Begins

LEMMA AddMemberStarts ==
  ASSUME NEW t \in Threads, NEW u \in Users, NEW g \in Groups, AddMember(t, u, g)
  PROVE  Begun
  <1> DEFINE x == [op |-> "addMember", arg |-> <<u, g>>,
                   loaded |-> {}, repos |-> {}]
  <1>1. x \in Tasks
    BY DEF Tasks, Ops, Args, Memberships, FileTags, GroupIds, MembersOfGroup, UsesOfTag
  <1>2. Begin(t, x.op, x.arg, x.loaded, x.repos)
    BY DEF AddMember
  <1>3. Fits(x)
    BY DEF Fits, Memberships, FileTags
  <1>4. Complete(x) /\ Precise(x)
    BY DEF Complete, Precise, Removes, Meant, MembersOfGroup, UsesOfTag
  <1>5. \A p \in RefersTo(x) : p[1] = "team" \/ p[2] \in Existing[p[1]]
    BY RefersToByOp, ExistingByKind DEF AddMember
  <1> QED  BY <1>1, <1>2, <1>3, <1>4, <1>5, Begins

LEMMA RemoveMemberStarts ==
  ASSUME NEW t \in Threads, NEW u \in Users, NEW g \in Groups, RemoveMember(t, u, g)
  PROVE  Begun
  <1> DEFINE x == [op |-> "removeMember", arg |-> <<u, g>>,
                   loaded |-> {i \in Rows : member[i] = <<u, g>>}, repos |-> {}]
  <1>1. x \in Tasks
    BY DEF Tasks, Ops, Args, Memberships, FileTags, GroupIds, MembersOfGroup, UsesOfTag
  <1>2. Begin(t, x.op, x.arg, x.loaded, x.repos)
    BY DEF RemoveMember
  <1>3. Fits(x)
    BY DEF Fits, Memberships, FileTags
  <1>4. Complete(x) /\ Precise(x)
    BY DEF Complete, Precise, Removes, Meant, MembersOfGroup, UsesOfTag
  <1>5. \A p \in RefersTo(x) : p[1] = "team" \/ p[2] \in Existing[p[1]]
    BY RefersToByOp, ExistingByKind DEF RemoveMember
  <1> QED  BY <1>1, <1>2, <1>3, <1>4, <1>5, Begins

LEMMA UnregisterRepoStarts ==
  ASSUME NEW t \in Threads, NEW r \in Repos, UnregisterRepo(t, r)
  PROVE  Begun
  <1> DEFINE x == [op |-> "unregister", arg |-> None,
                   loaded |-> {}, repos |-> {r}]
  <1>1. x \in Tasks
    BY DEF Tasks, Ops, Args, Memberships, FileTags, GroupIds, MembersOfGroup, UsesOfTag
  <1>2. Begin(t, x.op, x.arg, x.loaded, x.repos)
    BY DEF UnregisterRepo
  <1>3. Fits(x)
    BY DEF Fits, Memberships, FileTags
  <1>4. Complete(x) /\ Precise(x)
    BY DEF Complete, Precise, Removes, Meant, MembersOfGroup, UsesOfTag
  <1>5. \A p \in RefersTo(x) : p[1] = "team" \/ p[2] \in Existing[p[1]]
    BY RefersToByOp, ExistingByKind DEF UnregisterRepo
  <1> QED  BY <1>1, <1>2, <1>3, <1>4, <1>5, Begins

LEMMA AttachTagStarts ==
  ASSUME NEW t \in Threads, NEW r \in Repos, NEW k \in Tags, AttachTag(t, r, k)
  PROVE  Begun
  <1> DEFINE x == [op |-> "attach", arg |-> <<r, k>>,
                   loaded |-> {}, repos |-> {}]
  <1>1. x \in Tasks
    BY DEF Tasks, Ops, Args, Memberships, FileTags, GroupIds, MembersOfGroup, UsesOfTag
  <1>2. Begin(t, x.op, x.arg, x.loaded, x.repos)
    BY DEF AttachTag
  <1>3. Fits(x)
    BY DEF Fits, Memberships, FileTags
  <1>4. Complete(x) /\ Precise(x)
    BY DEF Complete, Precise, Removes, Meant, MembersOfGroup, UsesOfTag
  <1>5. \A p \in RefersTo(x) : p[1] = "team" \/ p[2] \in Existing[p[1]]
    BY RefersToByOp, ExistingByKind DEF AttachTag
  <1> QED  BY <1>1, <1>2, <1>3, <1>4, <1>5, Begins

LEMMA DetachTagStarts ==
  ASSUME NEW t \in Threads, NEW r \in Repos, NEW k \in Tags, DetachTag(t, r, k)
  PROVE  Begun
  <1> DEFINE x == [op |-> "detach", arg |-> <<r, k>>,
                   loaded |-> {i \in Rows : fileTag[i] = <<r, k>>}, repos |-> {}]
  <1>1. x \in Tasks
    BY DEF Tasks, Ops, Args, Memberships, FileTags, GroupIds, MembersOfGroup, UsesOfTag
  <1>2. Begin(t, x.op, x.arg, x.loaded, x.repos)
    BY DEF DetachTag
  <1>3. Fits(x)
    BY DEF Fits, Memberships, FileTags
  <1>4. Complete(x) /\ Precise(x)
    BY DEF Complete, Precise, Removes, Meant, MembersOfGroup, UsesOfTag
  <1>5. \A p \in RefersTo(x) : p[1] = "team" \/ p[2] \in Existing[p[1]]
    BY RefersToByOp, ExistingByKind DEF DetachTag
  <1> QED  BY <1>1, <1>2, <1>3, <1>4, <1>5, Begins

\* The references of a handler that begins exist or raced, and so did those of
\* others that it takes away.
LEMMA BegunRegistry == RegistryInv /\ Begun => RegistryInv'
  <1> SUFFICES ASSUME RegistryInv,
                      NEW t \in Threads, NEW x \in Tasks,
                      Begin(t, x.op, x.arg, x.loaded, x.repos),
                      Fits(x), Complete(x), Precise(x),
                      \A p \in RefersTo(x) : p[1] = "team" \/ p[2] \in Existing[p[1]]
               PROVE  RegistryInv'
    BY DEF Begun
  <1>1. TypeOK /\ RegistryAssumption /\ Running \subseteq Tasks
    BY RegistryAssumption, RunningIsTask DEF RegistryInv, HandlersInv
  <1>2. x = [op |-> x.op, arg |-> x.arg, loaded |-> x.loaded, repos |-> x.repos]
    BY DEF Tasks
  <1>3. /\ task[t] = None /\ task' = [task EXCEPT ![t] = x]
        /\ raced' = raced \cup {p \in RefersTo(x) : p[1] = "team" /\ p[2] \notin groups} \cup
             UNION {(RefersTo(x) \cap TakesAway(y)) \cup (RefersTo(y) \cap TakesAway(x)) : y \in Running}
        /\ UNCHANGED <<users, groups, tags, owner, team, member, fileTag, recycled, regrouped>>
    BY <1>2 DEF Begin, rows
  <1>4. raced \subseteq raced'
    BY <1>3
  <1>5. Running' = Running \cup {x}
    BY <1>1, <1>3 DEF TypeOK, Running, RegistryAssumption
  <1>6. References' = References /\ Existing' = Existing
    BY <1>3 DEF References, Existing, Stored
  <1>7. TypeOK'
    <2>1. \A y \in Tasks : RefersTo(y) \cap TakesAway(x) \subseteq {"user", "group", "owner", "team", "tag"} \X Args
      BY TakesAwayByOp DEF Tasks
    <2>2. \A y \in Tasks : RefersTo(x) \cap TakesAway(y) \subseteq {"user", "group", "owner", "team", "tag"} \X Args
      BY TakesAwayByOp DEF Tasks
    <2>3. \A p \in RefersTo(x) : p[1] = "team" => p \in {"user", "group", "owner", "team", "tag"} \X Args
      BY RefersToByOp DEF Fits, Args, GroupIds
    <2>4. raced' \subseteq {"user", "group", "owner", "team", "tag"} \X Args
      BY <1>1, <1>3, <2>1, <2>2, <2>3 DEF TypeOK
    <2> QED  BY <1>1, <1>3, <2>4 DEF TypeOK
  <1>8. HandlersInv'
    BY <1>3, <1>5, <1>7 DEF RegistryInv, HandlersInv
  <1>9. ApartInv'
    <2>1. RefersTo(x) \cap TakesAway(x) = {}
      BY RefersToByOp, TakesAwayByOp
    <2>2. \A y \in Running : /\ RefersTo(x) \cap TakesAway(y) \subseteq raced'
                             /\ RefersTo(y) \cap TakesAway(x) \subseteq raced'
      BY <1>3
    <2> QED  BY <1>4, <1>5, <2>1, <2>2 DEF RegistryInv, ApartInv
  <1>10. KnownInv'
    <2>1. \A p \in Left : p[2] \in Existing'[p[1]] \/ p \in raced'
      BY <1>4, <1>6 DEF RegistryInv, KnownInv, Known
    <2>2. \A p \in RefersTo(x) : p[2] \in Existing'[p[1]] \/ p \in raced'
      BY <1>3, <1>6, ExistingByKind
    <2>3. Left' = Left \cup RefersTo(x)
      BY <1>5, <1>6 DEF Left
    <2> QED  BY <2>1, <2>2, <2>3 DEF KnownInv, Known
  <1>11. ASSUME NEW y \in Running', Complete(y), Precise(y) PROVE Complete(y)' /\ Precise(y)'
    <2>1. Complete(y)'
      BY <1>3, <1>4, <1>11 DEF Complete
    <2>2. Precise(y)'
      BY <1>3, <1>11 DEF Precise, Meant
    <2> QED  BY <2>1, <2>2
  <1>12. LoadedInv'
    BY <1>5, <1>11 DEF RegistryInv, LoadedInv
  <1> QED  BY <1>8, <1>9, <1>10, <1>12 DEF RegistryInv

-----------------------------------------------------------------------------
(***************************************************************************)
(* The steps that change rows.                                             *)
(***************************************************************************)
\* Rows that only go add nothing.
LEMMA OnlyGo ==
  ASSUME RegistryInv, Running' \subseteq Running,
         \A i \in Rows : member'[i] \in {None, member[i]} /\ fileTag'[i] \in {None, fileTag[i]},
         \A r \in Repos : owner'[r] \in {None, owner[r]} /\ team'[r] \in {None, team[r]}
  PROVE  Adds /\ Records
  <1>1. \A x \in Running' : x.loaded \subseteq Rows /\ x.repos \subseteq Repos
    BY RunningIsTask DEF RegistryInv, HandlersInv, Tasks
  <1> QED  BY <1>1 DEF Adds, Records

LEMMA SparesAll ==
  ASSUME RegistryInv, TypeOK', Running' \subseteq Running, Adds,
         users \subseteq users', groups \subseteq groups', tags \subseteq tags'
  PROVE  Spares
  <1>1. \A p \in Left' : p[1] \in {"user", "group", "owner", "team", "tag"}
    BY LeftShrinks, KindOfReference DEF RegistryInv, HandlersInv
  <1> QED  BY <1>1, ExistingByKind, ExistingByKindNext DEF Spares

\* A deletion spares what is left if no row refers to what it deletes.
LEMMA DeletionSpares ==
  ASSUME RegistryInv, TypeOK', Running' \subseteq Running, Adds, NEW x \in Running,
         \/ /\ x.op = "deleteUser"
            /\ users' = users \ {x.arg} /\ groups' = groups /\ tags' = tags
         \/ /\ x.op = "ungroup"
            /\ users' = users /\ groups' = groups \ {x.arg} /\ tags' = tags
         \/ /\ x.op = "deleteTag"
            /\ users' = users /\ groups' = groups /\ tags' = tags \ {x.arg},
         \A p \in References' : p \in TakesAway(x) => p \in raced
  PROVE  Spares
  <1> SUFFICES ASSUME NEW p \in Left', p[2] \in Existing[p[1]], p[2] \notin Existing'[p[1]]
               PROVE  p \in raced
    BY DEF Spares
  <1>1. p \in Left /\ p[1] \in {"user", "group", "owner", "team", "tag"} /\ p = <<p[1], p[2]>>
    BY LeftShrinks, KindOfReference DEF RegistryInv, HandlersInv
  <1>2. \/ x.op = "deleteUser" /\ p[1] \in {"user", "owner"} /\ p[2] = x.arg
        \/ x.op = "ungroup" /\ p[1] \in {"group", "team"} /\ p[2] = x.arg
        \/ x.op = "deleteTag" /\ p[1] = "tag" /\ p[2] = x.arg
    BY <1>1, ExistingByKind, ExistingByKindNext
  <1>3. \/ x.op = "deleteUser" /\ p \in {<<"user", x.arg>>, <<"owner", x.arg>>}
        \/ x.op = "ungroup" /\ p \in {<<"group", x.arg>>, <<"team", x.arg>>}
        \/ x.op = "deleteTag" /\ p \in {<<"tag", x.arg>>}
    BY <1>1, <1>2
  <1>4. p \in TakesAway(x)
    BY <1>3, TakesAwayByOp
  <1>5. p \in References' \/ \E y \in Running' : p \in RefersTo(y)
    BY DEF Left
  <1> QED  BY <1>4, <1>5 DEF RegistryInv, ApartInv

LEMMA CreateRegistry ==
  ASSUME RegistryInv, TypeOK',
         users \subseteq users', groups \subseteq groups', tags \subseteq tags',
         UNCHANGED <<owner, team, member, fileTag, task, raced, recycled, regrouped>>
  PROVE  RegistryInv'
  <1>1. Running' = Running /\ Keeps
    BY DEF Running, Keeps
  <1>2. Adds /\ Records
    BY <1>1, OnlyGo
  <1>3. Spares
    BY <1>1, <1>2, SparesAll
  <1> QED  BY <1>1, <1>2, <1>3, StepKeeps DEF RegistryInv, HandlersInv

\* The end of a handler that adds nothing and deletes nothing that is referred to.
LEMMA EndRegistry ==
  ASSUME RegistryInv, NEW t \in Threads, End(t), UNCHANGED <<users, groups, tags>>,
         owner' \in [Repos -> Users \cup {None}], team' \in [Repos -> GroupIds \cup {None}],
         member' \in [Rows -> Memberships \cup {None}], fileTag' \in [Rows -> FileTags \cup {None}],
         \A r \in Repos : owner'[r] = None => team'[r] = None,
         \A i \in Rows : member'[i] \in {None, member[i]} /\ fileTag'[i] \in {None, fileTag[i]},
         \A r \in Repos : owner'[r] \in {None, owner[r]} /\ team'[r] \in {None, team[r]}
  PROVE  RegistryInv'
  <1>1. TypeOK
    BY DEF RegistryInv, HandlersInv
  <1>2. Finish(t, {}, {})
    BY DEF End
  <1>3. /\ task' \in [Threads -> Tasks \cup {None}] /\ Running' \subseteq Running /\ Keeps
        /\ raced' \subseteq raced /\ recycled' \subseteq Memberships /\ regrouped' \subseteq Repos
    BY <1>1, <1>2, FinishEffect
  <1>4. TypeOK'
    BY <1>1, <1>3 DEF TypeOK
  <1>5. Adds /\ Records
    BY <1>3, OnlyGo
  <1>6. Spares
    BY <1>3, <1>4, <1>5, SparesAll
  <1> QED  BY <1>3, <1>4, <1>5, <1>6, StepKeeps

LEMMA CommitFailsRegistry ==
  ASSUME RegistryInv, NEW t \in Threads, CommitFails(t)
  PROVE  RegistryInv'
  <1>1. End(t) /\ UNCHANGED <<users, groups, tags, owner, team, member, fileTag>>
    BY DEF CommitFails, rows
  <1> QED  BY <1>1, EndRegistry DEF RegistryInv, HandlersInv, TypeOK

LEMMA RemoveMemberRegistry ==
  ASSUME RegistryInv, NEW t \in Threads, RemoveMemberCommit(t)
  PROVE  RegistryInv'
  <1>1. /\ End(t) /\ member' = Without(member, task[t].loaded) /\ TypeOK
        /\ UNCHANGED <<users, groups, tags, owner, team, fileTag>>
    BY DEF RemoveMemberCommit, RegistryInv, HandlersInv
  <1>2. \A i \in Rows : member'[i] \in {None, member[i]}
    BY <1>1, WithoutKeeps
  <1> QED  BY <1>1, <1>2, WithoutKeeps, EndRegistry DEF RegistryInv, HandlersInv, TypeOK

LEMMA DetachRegistry ==
  ASSUME RegistryInv, NEW t \in Threads, DetachCommit(t)
  PROVE  RegistryInv'
  <1>1. /\ End(t) /\ fileTag' = Without(fileTag, task[t].loaded) /\ TypeOK
        /\ UNCHANGED <<users, groups, tags, owner, team, member>>
    BY DEF DetachCommit, RegistryInv, HandlersInv
  <1>2. \A i \in Rows : fileTag'[i] \in {None, fileTag[i]}
    BY <1>1, WithoutKeeps
  <1> QED  BY <1>1, <1>2, WithoutKeeps, EndRegistry DEF RegistryInv, HandlersInv, TypeOK

LEMMA UnregisterRegistry ==
  ASSUME RegistryInv, NEW t \in Threads, UnregisterCommit(t)
  PROVE  RegistryInv'
  <1>1. /\ End(t) /\ TypeOK
        /\ owner' = Without(owner, task[t].repos) /\ team' = Without(team, task[t].repos)
        /\ UNCHANGED <<users, groups, tags, member, fileTag>>
    BY DEF UnregisterCommit, RegistryInv, HandlersInv
  <1>2. \A r \in Repos : /\ owner'[r] \in {None, owner[r]} /\ team'[r] \in {None, team[r]}
                         /\ owner'[r] = None => team'[r] = None
    BY <1>1, WithoutKeeps DEF RegistryInv, HandlersInv
  <1> QED  BY <1>1, <1>2, WithoutKeeps, EndRegistry DEF RegistryInv, HandlersInv, TypeOK

LEMMA DeleteUserRegistry ==
  ASSUME RegistryInv, NEW t \in Threads, DeleteUserCommit(t)
  PROVE  RegistryInv'
  <1> DEFINE x == task[t]
  <1>1. /\ TypeOK /\ x \in Running /\ Finish(t, {}, {}) /\ x.op = "deleteUser"
        /\ users' = users \ {x.arg} /\ x.arg \notin Stored(owner)
        /\ member' = Without(member, MembersOfUser(x.arg))
        /\ UNCHANGED <<groups, tags, owner, team, fileTag>>
    BY DEF DeleteUserCommit, At, End, Running, RegistryInv, HandlersInv
  <1>2. /\ task' \in [Threads -> Tasks \cup {None}] /\ Running' \subseteq Running /\ Keeps
        /\ raced' \subseteq raced /\ recycled' \subseteq Memberships /\ regrouped' \subseteq Repos
    BY <1>1, FinishEffect
  <1>3. TypeOK'
    BY <1>1, <1>2, WithoutKeeps DEF TypeOK
  <1>4. \A i \in Rows : member'[i] \in {None, member[i]} /\ (member'[i] # None => member'[i][1] # x.arg)
    BY <1>1, WithoutKeeps DEF MembersOfUser
  <1>5. Adds /\ Records
    BY <1>1, <1>2, <1>4, OnlyGo
  <1>6. ASSUME NEW p \in References', p \in {<<"user", x.arg>>, <<"owner", x.arg>>} PROVE FALSE
    BY <1>1, <1>3, <1>4, <1>6, InReferencesNext, InStored
  <1>7. \A p \in References' : p \in TakesAway(x) => p \in raced
    BY <1>1, <1>6, TakesAwayByOp
  <1>8. Spares
    BY <1>1, <1>2, <1>3, <1>5, <1>7, DeletionSpares
  <1> QED  BY <1>1, <1>2, <1>3, <1>5, <1>8, StepKeeps DEF RegistryInv, HandlersInv

LEMMA DeleteGroupRegistry ==
  ASSUME RegistryInv, NEW t \in Threads, DeleteGroupCommit(t)
  PROVE  RegistryInv'
  <1> DEFINE x == task[t]
  <1>1. /\ TypeOK /\ x \in Running /\ Finish(t, {}, {}) /\ x.op = "ungroup"
        /\ groups' = groups \ {x.arg}
        /\ member' = Without(member, x.loaded) /\ team' = Without(team, x.repos)
        /\ UNCHANGED <<users, tags, owner, fileTag>>
    BY DEF DeleteGroupCommit, At, End, Running, RegistryInv, HandlersInv
  <1>2. /\ task' \in [Threads -> Tasks \cup {None}] /\ Running' \subseteq Running /\ Keeps
        /\ raced' \subseteq raced /\ recycled' \subseteq Memberships /\ regrouped' \subseteq Repos
    BY <1>1, FinishEffect
  <1>3. TypeOK'
    BY <1>1, <1>2, WithoutKeeps DEF TypeOK
  <1>4. /\ \A i \in Rows : member'[i] \in {None, member[i]} /\ (member'[i] # None => i \notin x.loaded)
        /\ \A r \in Repos : team'[r] \in {None, team[r]} /\ (team'[r] # None => r \notin x.repos)
    BY <1>1, WithoutKeeps
  <1>5. Adds /\ Records
    BY <1>1, <1>2, <1>4, OnlyGo
  <1>6. Complete(x)
    BY <1>1 DEF RegistryInv, LoadedInv
  <1>7. ASSUME NEW p \in References', p = <<"group", x.arg>> PROVE p \in raced
    <2>1. \E i \in Rows : member'[i] # None /\ member'[i][2] = x.arg
      BY <1>3, <1>7, InReferencesNext
    <2> QED  BY <1>1, <1>4, <1>6, <1>7, <2>1 DEF Complete
  <1>8. ASSUME NEW p \in References', p = <<"team", x.arg>> PROVE p \in raced
    <2>1. \E r \in Repos : team'[r] # None /\ team'[r] = x.arg
      BY <1>3, <1>8, InReferencesNext
    <2> QED  BY <1>1, <1>4, <1>6, <1>8, <2>1 DEF Complete
  <1>9. \A p \in References' : p \in TakesAway(x) => p \in raced
    BY <1>1, <1>7, <1>8, TakesAwayByOp
  <1>10. Spares
    BY <1>1, <1>2, <1>3, <1>5, <1>9, DeletionSpares
  <1>11. \A r \in Repos : owner'[r] = None => team'[r] = None
    BY <1>1, <1>4 DEF RegistryInv, HandlersInv
  <1> QED  BY <1>2, <1>3, <1>5, <1>10, <1>11, StepKeeps

LEMMA DeleteTagRegistry ==
  ASSUME RegistryInv, NEW t \in Threads, DeleteTagCommit(t)
  PROVE  RegistryInv'
  <1> DEFINE x == task[t]
  <1>1. /\ TypeOK /\ x \in Running /\ Finish(t, {}, {}) /\ x.op = "deleteTag"
        /\ tags' = tags \ {x.arg} /\ fileTag' = Without(fileTag, x.loaded)
        /\ UNCHANGED <<users, groups, owner, team, member>>
    BY DEF DeleteTagCommit, At, End, Running, RegistryInv, HandlersInv
  <1>2. /\ task' \in [Threads -> Tasks \cup {None}] /\ Running' \subseteq Running /\ Keeps
        /\ raced' \subseteq raced /\ recycled' \subseteq Memberships /\ regrouped' \subseteq Repos
    BY <1>1, FinishEffect
  <1>3. TypeOK'
    BY <1>1, <1>2, WithoutKeeps DEF TypeOK
  <1>4. \A i \in Rows : fileTag'[i] \in {None, fileTag[i]} /\ (fileTag'[i] # None => i \notin x.loaded)
    BY <1>1, WithoutKeeps
  <1>5. Adds /\ Records
    BY <1>1, <1>2, <1>4, OnlyGo
  <1>6. ASSUME NEW p \in References', p = <<"tag", x.arg>> PROVE p \in raced
    <2>1. \E i \in Rows : fileTag'[i] # None /\ fileTag'[i][2] = x.arg
      BY <1>3, <1>6, InReferencesNext
    <2> QED  BY <1>1, <1>4, <1>6, <2>1 DEF Complete, RegistryInv, LoadedInv
  <1>7. \A p \in References' : p \in TakesAway(x) => p \in raced
    BY <1>1, <1>6, TakesAwayByOp
  <1>8. Spares
    BY <1>1, <1>2, <1>3, <1>5, <1>7, DeletionSpares
  <1> QED  BY <1>1, <1>2, <1>3, <1>5, <1>8, StepKeeps DEF RegistryInv, HandlersInv

\* The new membership refers to what the handler was to, and is recorded where a
\* removal holds its row id.
LEMMA AddMemberRegistry ==
  ASSUME RegistryInv, NEW t \in Threads, AddMemberCommit(t)
  PROVE  RegistryInv'
  <1> DEFINE x == task[t]
  <1>1. /\ TypeOK /\ x \in Running /\ Finish(t, {x.arg}, {}) /\ x.op = "addMember"
        /\ UNCHANGED <<users, groups, tags, owner, team, fileTag>>
    BY DEF AddMemberCommit, At, Running, RegistryInv, HandlersInv
  <1>2. PICK i \in NewId(member) : member' = [member EXCEPT ![i] = x.arg]
    BY DEF AddMemberCommit
  <1>3. x.arg \in Memberships /\ i \in Rows
    BY <1>1, <1>2, NewIdIsFree DEF RegistryInv, HandlersInv, Fits
  <1>4. /\ task' \in [Threads -> Tasks \cup {None}] /\ Running' \subseteq Running /\ Keeps
        /\ raced' \subseteq raced /\ recycled' \subseteq Memberships /\ regrouped' \subseteq Repos
        /\ \A m \in {x.arg}, j \in Rows, y \in Running' :
             Removes(y) /\ j \in y.loaded /\ member'[j] = m => m \in recycled'
    <2>1. {x.arg} \in SUBSET Memberships /\ {} \in SUBSET Repos
      BY <1>3
    <2> QED  BY <1>1, <2>1, FinishEffect
  <1>5. TypeOK'
    BY <1>1, <1>2, <1>3, <1>4 DEF TypeOK
  <1>6. \A j \in Rows : member'[j] = IF j = i THEN x.arg ELSE member[j]
    BY <1>1, <1>2 DEF TypeOK
  <1>7. <<"user", x.arg[1]>> \in RefersTo(x) /\ <<"group", x.arg[2]>> \in RefersTo(x)
    BY <1>1, RefersToByOp
  <1>8. Adds
    BY <1>1, <1>6, <1>7 DEF Adds
  <1>9. Records
    <2>1. \A y \in Running' : y.loaded \subseteq Rows
      BY <1>1, <1>4, RunningIsTask DEF Tasks
    <2> QED  BY <1>1, <1>4, <1>6, <2>1 DEF Records
  <1>10. Spares
    BY <1>1, <1>4, <1>5, <1>8, SparesAll
  <1> QED  BY <1>1, <1>4, <1>5, <1>8, <1>9, <1>10, StepKeeps DEF RegistryInv, HandlersInv

LEMMA RegisterRegistry ==
  ASSUME RegistryInv, NEW t \in Threads, RegisterCommit(t)
  PROVE  RegistryInv'
  <1> DEFINE x == task[t]
  <1>1. /\ TypeOK /\ x \in Running /\ x.op = "register" /\ None \notin Users
        /\ UNCHANGED <<users, groups, tags, member, fileTag>>
    BY RegistryAssumption
    DEF RegisterCommit, At, Running, RegistryInv, HandlersInv, RegistryAssumption
  <1>2. PICK r \in NewId(owner) : /\ owner' = [owner EXCEPT ![r] = x.arg[1]]
                                  /\ team' = [team EXCEPT ![r] = x.arg[2]]
                                  /\ Finish(t, {}, {r})
    BY DEF RegisterCommit
  <1>3. x.arg[1] \in Users /\ x.arg[2] \in GroupIds \cup {None} /\ r \in Repos
    BY <1>1, <1>2, NewIdIsFree DEF RegistryInv, HandlersInv, Fits
  <1>4. /\ task' \in [Threads -> Tasks \cup {None}] /\ Running' \subseteq Running /\ Keeps
        /\ raced' \subseteq raced /\ recycled' \subseteq Memberships /\ regrouped' \subseteq Repos
        /\ \A y \in Running' : y.op = "ungroup" /\ r \in y.repos => r \in regrouped'
    BY <1>1, <1>2, <1>3, FinishEffect
  <1>5. TypeOK'
    BY <1>1, <1>2, <1>3, <1>4 DEF TypeOK
  <1>6. \A q \in Repos : /\ owner'[q] = IF q = r THEN x.arg[1] ELSE owner[q]
                         /\ team'[q] = IF q = r THEN x.arg[2] ELSE team[q]
    BY <1>1, <1>2 DEF TypeOK
  <1>7. /\ <<"owner", x.arg[1]>> \in RefersTo(x)
        /\ x.arg[2] # None => <<"team", x.arg[2]>> \in RefersTo(x)
    BY <1>1, RefersToByOp
  <1>8. Adds
    BY <1>1, <1>6, <1>7 DEF Adds
  <1>9. Records
    <2>1. \A y \in Running' : y.loaded \subseteq Rows /\ y.repos \subseteq Repos
      BY <1>1, <1>4, RunningIsTask DEF Tasks
    <2> QED  BY <1>1, <1>4, <1>6, <2>1 DEF Records
  <1>10. Spares
    BY <1>1, <1>4, <1>5, <1>8, SparesAll
  <1>11. \A q \in Repos : owner'[q] = None => team'[q] = None
    BY <1>1, <1>3, <1>6 DEF RegistryInv, HandlersInv
  <1> QED  BY <1>4, <1>5, <1>8, <1>9, <1>10, <1>11, StepKeeps

LEMMA UpdateRegistry ==
  ASSUME RegistryInv, NEW t \in Threads, UpdateCommit(t)
  PROVE  RegistryInv'
  <1> DEFINE x == task[t]
  <1>1. /\ TypeOK /\ x \in Running /\ x.op = "update" /\ Finish(t, {}, x.repos)
        /\ \A r \in x.repos : owner[r] # None
        /\ team' = [r \in Repos |-> IF r \in x.repos THEN x.arg ELSE team[r]]
        /\ UNCHANGED <<users, groups, tags, owner, member, fileTag>>
    BY DEF UpdateCommit, At, Running, RegistryInv, HandlersInv
  <1>2. x.arg \in GroupIds /\ x.repos \subseteq Repos
    BY <1>1, RunningIsTask DEF RegistryInv, HandlersInv, Fits, Tasks
  <1>3. /\ task' \in [Threads -> Tasks \cup {None}] /\ Running' \subseteq Running /\ Keeps
        /\ raced' \subseteq raced /\ recycled' \subseteq Memberships /\ regrouped' \subseteq Repos
        /\ \A r \in x.repos, y \in Running' : y.op = "ungroup" /\ r \in y.repos => r \in regrouped'
    BY <1>1, <1>2, FinishEffect
  <1>4. TypeOK'
    BY <1>1, <1>2, <1>3 DEF TypeOK
  <1>5. <<"team", x.arg>> \in RefersTo(x)
    BY <1>1, RefersToByOp
  <1>6. Adds
    BY <1>1, <1>5 DEF Adds
  <1>7. Records
    <2>1. \A y \in Running' : y.loaded \subseteq Rows /\ y.repos \subseteq Repos
      BY <1>1, <1>3, RunningIsTask DEF Tasks
    <2> QED  BY <1>1, <1>3, <2>1 DEF Records
  <1>8. Spares
    BY <1>1, <1>3, <1>4, <1>6, SparesAll
  <1>9. \A r \in Repos : owner'[r] = None => team'[r] = None
    BY <1>1 DEF RegistryInv, HandlersInv
  <1> QED  BY <1>3, <1>4, <1>6, <1>7, <1>8, <1>9, StepKeeps

LEMMA AttachRegistry ==
  ASSUME RegistryInv, NEW t \in Threads, AttachCommit(t)
  PROVE  RegistryInv'
  <1> DEFINE x == task[t]
  <1>1. /\ TypeOK /\ x \in Running /\ Finish(t, {}, {}) /\ x.op = "attach"
        /\ UNCHANGED <<users, groups, tags, owner, team, member>>
    BY DEF AttachCommit, At, End, Running, RegistryInv, HandlersInv
  <1>2. PICK i \in NewId(fileTag) : fileTag' = [fileTag EXCEPT ![i] = x.arg]
    BY DEF AttachCommit
  <1>3. x.arg \in FileTags
    BY <1>1 DEF RegistryInv, HandlersInv, Fits
  <1>4. /\ task' \in [Threads -> Tasks \cup {None}] /\ Running' \subseteq Running /\ Keeps
        /\ raced' \subseteq raced /\ recycled' \subseteq Memberships /\ regrouped' \subseteq Repos
    BY <1>1, FinishEffect
  <1>5. TypeOK'
    BY <1>1, <1>2, <1>3, <1>4 DEF TypeOK
  <1>6. \A j \in Rows : fileTag'[j] = IF j = i THEN x.arg ELSE fileTag[j]
    BY <1>1, <1>2 DEF TypeOK
  <1>7. <<"tag", x.arg[2]>> \in RefersTo(x)
    BY <1>1, RefersToByOp
  <1>8. Adds
    BY <1>1, <1>6, <1>7 DEF Adds
  <1>9. Records
    <2>1. \A y \in Running' : y.loaded \subseteq Rows /\ y.repos \subseteq Repos
      BY <1>1, <1>4, RunningIsTask DEF Tasks
    <2> QED  BY <1>1, <2>1 DEF Records
  <1>10. Spares
    BY <1>1, <1>4, <1>5, <1>8, SparesAll
  <1> QED  BY <1>1, <1>4, <1>5, <1>8, <1>9, <1>10, StepKeeps DEF RegistryInv, HandlersInv

\* The flush turns the handler into one that has loaded its repositories.
LEMMA DeleteGroupFlushRegistry ==
  ASSUME RegistryInv, NEW t \in Threads, DeleteGroupFlush(t)
  PROVE  RegistryInv'
  <1> DEFINE x == [task[t] EXCEPT !.op = "ungroup", !.repos = {r \in Repos : team[r] = task[t].arg}]
  <1>1. /\ TypeOK /\ task[t] \in Running /\ task[t].op = "deleteGroup" /\ task[t] \in Tasks
        /\ UNCHANGED <<users, groups, tags, owner, team, member, fileTag, raced, recycled, regrouped>>
    BY RunningIsTask
    DEF DeleteGroupFlush, At, Running, RegistryInv, HandlersInv, TypeOK, rows, history
  <1>2. task' = [task EXCEPT ![t] = x]
    BY <1>1 DEF DeleteGroupFlush, TypeOK
  <1>3. /\ x \in Tasks /\ x.op = "ungroup" /\ x.arg = task[t].arg /\ x.loaded = task[t].loaded
        /\ x.repos = {r \in Repos : team[r] = x.arg}
    BY <1>1 DEF Tasks, Ops
  <1> HIDE DEF x
  <1>4. Running' \subseteq Running \cup {x}
    BY <1>1, <1>2 DEF TypeOK, Running
  <1>5. TypeOK'
    BY <1>1, <1>2, <1>3 DEF TypeOK
  <1>6. /\ Fits(task[t]) /\ Complete(task[t]) /\ Precise(task[t])
        /\ RefersTo(x) = {} /\ TakesAway(x) = TakesAway(task[t])
    <2>1. Fits(task[t]) /\ Complete(task[t]) /\ Precise(task[t])
      BY <1>1 DEF RegistryInv, HandlersInv, LoadedInv
    <2>2. RefersTo(x) = {}
      BY <1>3, RefersToByOp
    <2>3. TakesAway(x) = TakesAway(task[t])
      <3>1. TakesAway(x) = {<<"group", x.arg>>, <<"team", x.arg>>}
        BY <1>3, TakesAwayByOp
      <3>2. TakesAway(task[t]) = {<<"group", task[t].arg>>, <<"team", task[t].arg>>}
        BY <1>1, TakesAwayByOp
      <3> QED  BY <1>3, <3>1, <3>2
    <2> QED  BY <2>1, <2>2, <2>3
  <1>7. Fits(x) /\ Complete(x) /\ Precise(x)
    BY <1>1, <1>3, <1>6 DEF Fits, Complete, Precise, Removes, Meant
  <1>8. HandlersInv'
    BY <1>1, <1>4, <1>5, <1>7 DEF RegistryInv, HandlersInv
  <1>9. ApartInv'
    BY <1>1, <1>4, <1>6 DEF RegistryInv, ApartInv
  <1>10. KnownInv'
    <2>1. References' = References /\ Existing' = Existing
      BY <1>1 DEF References, Existing, Stored
    <2>2. Left' \subseteq Left
      BY <1>4, <1>6, <2>1 DEF Left
    <2> QED  BY <1>1, <2>1, <2>2 DEF RegistryInv, KnownInv, Known
  <1>11. ASSUME NEW y \in Running' PROVE Complete(y)' /\ Precise(y)'
    <2>1. Complete(y) /\ Precise(y)
      BY <1>4, <1>7 DEF RegistryInv, LoadedInv
    <2> QED  BY <1>1, <2>1 DEF Complete, Precise, Meant
  <1>12. LoadedInv'
    BY <1>11 DEF LoadedInv
  <1> QED  BY <1>8, <1>9, <1>10, <1>12 DEF RegistryInv

LEMMA NextRegistry == RegistryInv /\ [Next]_vars => RegistryInv'
  <1> SUFFICES ASSUME RegistryInv, [Next]_vars PROVE RegistryInv'
    OBVIOUS
  <1>1. TypeOK
    BY DEF RegistryInv, HandlersInv
  <1>2. ASSUME NEW u \in Users, CreateUser(u) PROVE RegistryInv'
    BY <1>1, <1>2, CreateRegistry DEF CreateUser, TypeOK, history
  <1>3. ASSUME NEW g \in Groups, CreateGroup(g) PROVE RegistryInv'
    BY <1>1, <1>3, CreateRegistry DEF CreateGroup, TypeOK, history
  <1>4. ASSUME NEW k \in Tags, CreateTag(k) PROVE RegistryInv'
    BY <1>1, <1>4, CreateRegistry DEF CreateTag, TypeOK, history
  <1>5. CASE UNCHANGED vars
    BY <1>1, <1>5, CreateRegistry DEF vars, rows, TypeOK, history
  <1>6. ASSUME NEW t \in Threads,
               \/ DeleteUserCommit(t) \/ DeleteTagCommit(t)
               \/ DeleteGroupFlush(t) \/ DeleteGroupCommit(t)
               \/ AddMemberCommit(t) \/ RemoveMemberCommit(t)
               \/ RegisterCommit(t) \/ UpdateCommit(t) \/ UnregisterCommit(t)
               \/ AttachCommit(t) \/ DetachCommit(t)
               \/ CommitFails(t)
        PROVE  RegistryInv'
    BY <1>6, DeleteUserRegistry, DeleteTagRegistry, DeleteGroupFlushRegistry, DeleteGroupRegistry,
       AddMemberRegistry, RemoveMemberRegistry, RegisterRegistry, UpdateRegistry,
       UnregisterRegistry, AttachRegistry, DetachRegistry, CommitFailsRegistry
  <1>7. CASE Begun
    BY <1>7, BegunRegistry
  <1> QED  BY <1>2, <1>3, <1>4, <1>5, <1>6, <1>7, DeleteUserStarts, RegisterRepoStarts,
              UpdateRepoStarts, DeleteGroupStarts, DeleteTagStarts, AddMemberStarts,
              RemoveMemberStarts, UnregisterRepoStarts, AttachTagStarts, DetachTagStarts
           DEF Next

LEMMA RegistryInvariant == Spec => []RegistryInv
  BY InitRegistry, NextRegistry, PTL DEF Spec

-----------------------------------------------------------------------------
(***************************************************************************)
(* Theorems.                                                               *)
(***************************************************************************)
\* References are to what exists, but for those to an id that were added beside
\* its deletion or to a group that was not found, however many deletions run
\* beside each other and beside other additions: what their queries loaded or
\* looked for is still so when they commit.
THEOREM ReferencesStay == Spec => []ReferencesExist
  <1>1. RegistryInv => ReferencesExist
    BY DEF RegistryInv, KnownInv, Known, Left, ReferencesExist
  <1> QED  BY <1>1, RegistryInvariant, PTL

\* What one row loses.
MemberGoesOnPurpose ==
  \A i \in Rows : member[i] # None /\ member'[i] # member[i] =>
    \/ member[i][1] \notin users' \/ member[i][2] \notin groups'
    \/ \E t \in Threads : At(t, "removeMember") /\ task[t].arg = member[i]
    \/ member[i] \in recycled
TeamGoesOnPurpose ==
  \A r \in Repos : team[r] # None /\ team'[r] = None =>
    owner'[r] = None \/ team[r] \notin groups' \/ r \in regrouped

LEMMA PurposePerStep ==
  ASSUME RegistryInv, [Next]_vars
  PROVE  MemberGoesOnPurpose /\ TeamGoesOnPurpose
  <1>1. TypeOK /\ HandlersInv /\ LoadedInv
    BY DEF RegistryInv, HandlersInv
  <1>2. CASE UNCHANGED <<member, team>>
    BY <1>2 DEF MemberGoesOnPurpose, TeamGoesOnPurpose
  <1>3. ASSUME NEW t \in Threads, DeleteUserCommit(t)
        PROVE  MemberGoesOnPurpose /\ UNCHANGED team
    <2>1. /\ users' = users \ {task[t].arg} /\ UNCHANGED team
          /\ member' = Without(member, MembersOfUser(task[t].arg))
      BY <1>3 DEF DeleteUserCommit
    <2> QED  BY <1>1, <2>1, WithoutKeeps DEF MemberGoesOnPurpose, MembersOfUser
  <1>4. ASSUME NEW t \in Threads, DeleteGroupCommit(t)
        PROVE  MemberGoesOnPurpose /\ TeamGoesOnPurpose
    <2>1. /\ task[t] \in Running /\ task[t].op = "ungroup" /\ groups' = groups \ {task[t].arg}
          /\ member' = Without(member, task[t].loaded) /\ team' = Without(team, task[t].repos)
      BY <1>4 DEF DeleteGroupCommit, At, Running
    <2>2. Precise(task[t])
      BY <1>1, <2>1 DEF LoadedInv
    <2>3. MemberGoesOnPurpose
      BY <1>1, <2>1, <2>2, WithoutKeeps DEF MemberGoesOnPurpose, Precise, Removes, Meant
    <2>4. TeamGoesOnPurpose
      BY <1>1, <2>1, <2>2, WithoutKeeps DEF TeamGoesOnPurpose, Precise
    <2> QED  BY <2>3, <2>4
  <1>5. ASSUME NEW t \in Threads, AddMemberCommit(t)
        PROVE  MemberGoesOnPurpose /\ UNCHANGED team
    <2>1. PICK i \in NewId(member) : member' = [member EXCEPT ![i] = task[t].arg]
      BY <1>5 DEF AddMemberCommit
    <2>2. i \in Rows /\ member[i] = None
      BY <1>1, NewIdIsFree
    <2>3. \A j \in Rows : member[j] # None => member'[j] = member[j]
      BY <1>1, <2>1, <2>2 DEF TypeOK
    <2> QED  BY <1>5, <2>3 DEF MemberGoesOnPurpose, AddMemberCommit
  <1>6. ASSUME NEW t \in Threads, RemoveMemberCommit(t)
        PROVE  MemberGoesOnPurpose /\ UNCHANGED team
    <2>1. /\ task[t] \in Running /\ At(t, "removeMember") /\ task[t].op = "removeMember"
          /\ member' = Without(member, task[t].loaded) /\ UNCHANGED team
      BY <1>6 DEF RemoveMemberCommit, At, Running
    <2>2. Precise(task[t])
      BY <1>1, <2>1 DEF LoadedInv
    <2>3. \A i \in Rows : member[i] # None /\ member'[i] # member[i] =>
            member[i] = task[t].arg \/ member[i] \in recycled
      BY <1>1, <2>1, <2>2, WithoutKeeps DEF Precise, Removes, Meant
    <2> QED  BY <2>1, <2>3 DEF MemberGoesOnPurpose
  <1>7. ASSUME NEW t \in Threads, RegisterCommit(t)
        PROVE  TeamGoesOnPurpose /\ UNCHANGED member
    <2>1. PICK r \in NewId(owner) : team' = [team EXCEPT ![r] = task[t].arg[2]]
      BY <1>7 DEF RegisterCommit
    <2>2. r \in Repos /\ owner[r] = None
      BY <1>1, NewIdIsFree
    <2>3. \A q \in Repos : team[q] # None => team'[q] = team[q]
      BY <1>1, <2>1, <2>2 DEF TypeOK, HandlersInv
    <2> QED  BY <1>7, <2>3 DEF TeamGoesOnPurpose, RegisterCommit
  <1>8. ASSUME NEW t \in Threads, UpdateCommit(t)
        PROVE  TeamGoesOnPurpose /\ UNCHANGED member
    <2>1. /\ task[t] \in Running /\ task[t].op = "update" /\ UNCHANGED member
          /\ team' = [r \in Repos |-> IF r \in task[t].repos THEN task[t].arg ELSE team[r]]
      BY <1>8 DEF UpdateCommit, At, Running
    <2>2. task[t].arg # None
      BY <1>1, <2>1, RegistryAssumption DEF HandlersInv, Fits, RegistryAssumption
    <2> QED  BY <2>1, <2>2 DEF TeamGoesOnPurpose
  <1>9. ASSUME NEW t \in Threads, UnregisterCommit(t)
        PROVE  TeamGoesOnPurpose /\ UNCHANGED member
    <2>1. /\ UNCHANGED member
          /\ owner' = Without(owner, task[t].repos) /\ team' = Without(team, task[t].repos)
      BY <1>9 DEF UnregisterCommit
    <2> QED  BY <1>1, <2>1, WithoutKeeps DEF TeamGoesOnPurpose
  <1>10. UNCHANGED member => MemberGoesOnPurpose
    BY DEF MemberGoesOnPurpose
  <1>11. UNCHANGED team => TeamGoesOnPurpose
    BY DEF TeamGoesOnPurpose
  <1>12. CASE Begun
    BY <1>2, <1>12 DEF Begun, Begin, rows
  <1>13. CASE UNCHANGED vars
    BY <1>2, <1>13 DEF vars, rows
  <1>14. ASSUME NEW t \in Threads,
                DeleteTagCommit(t) \/ DeleteGroupFlush(t) \/ AttachCommit(t) \/ DetachCommit(t)
                \/ CommitFails(t)
         PROVE  UNCHANGED <<member, team>>
    BY <1>14 DEF DeleteTagCommit, DeleteGroupFlush, AttachCommit, DetachCommit, CommitFails, rows
  <1>15. ASSUME \/ \E u \in Users : CreateUser(u)
                \/ \E g \in Groups : CreateGroup(g)
                \/ \E k \in Tags : CreateTag(k)
         PROVE  UNCHANGED <<member, team>>
    BY <1>15 DEF CreateUser, CreateGroup, CreateTag
  <1> QED  BY <1>2, <1>3, <1>4, <1>5, <1>6, <1>7, <1>8, <1>9, <1>10, <1>11, <1>12, <1>13, <1>14,
              <1>15, DeleteUserStarts, RegisterRepoStarts, UpdateRepoStarts, DeleteGroupStarts,
              DeleteTagStarts, AddMemberStarts, RemoveMemberStarts, UnregisterRepoStarts,
              AttachTagStarts, DetachTagStarts
           DEF Next

\* A membership or a repository's group goes only where a handler meant it to:
\* a row id or a repository loaded before a commit hits nothing else but what was
\* stored or set there while the handler held it.
THEOREM NothingElseRemoved == Spec => RemovedOnPurpose
  <1> DEFINE Purpose ==
        /\ \A m \in Stored(member) \ Stored(member)' :
             \/ m[1] \notin users' \/ m[2] \notin groups'
             \/ \E t \in Threads : At(t, "removeMember") /\ task[t].arg = m
             \/ m \in recycled
        /\ \A r \in Repos : team[r] # None /\ team'[r] = None =>
             owner'[r] = None \/ team[r] \notin groups' \/ r \in regrouped
  <1>1. ASSUME RegistryInv, RegistryInv', [Next]_vars PROVE Purpose
    <2>1. MemberGoesOnPurpose /\ TeamGoesOnPurpose
      BY <1>1, PurposePerStep
    <2>2. TypeOK /\ TypeOK'
      BY <1>1 DEF RegistryInv, HandlersInv
    <2>3. ASSUME NEW m \in Stored(member) \ Stored(member)'
          PROVE  \E i \in Rows : member[i] = m /\ m # None /\ member'[i] # m
      BY <2>2, InStored, InStoredNext
    <2>4. \A m \in Stored(member) \ Stored(member)' :
             \/ m[1] \notin users' \/ m[2] \notin groups'
             \/ \E t \in Threads : At(t, "removeMember") /\ task[t].arg = m
             \/ m \in recycled
      BY <2>1, <2>3 DEF MemberGoesOnPurpose
    <2> QED  BY <2>1, <2>4 DEF TeamGoesOnPurpose
  <1>2. RegistryInv /\ RegistryInv' /\ [Next]_vars => [Purpose]_vars
    BY <1>1
  <1> QED  BY <1>2, RegistryInvariant, PTL DEF Spec, RemovedOnPurpose

-----------------------------------------------------------------------------
(***************************************************************************)
(* RepoSync, for any revisions, threads and registrations: what holds      *)
(* whatever the threads do, and what holds when handlers do not overlap.   *)
(***************************************************************************)
\* The row a push writes.
LEMMA UpdatedRow ==
  ASSUME SyncTypeOK, repo # NoRow, NEW l \in Loaded
  PROVE  /\ Updated(l) \in RepoRows
         /\ Updated(l).latest \in {repo.latest, l.rev}
         /\ Updated(l).total =
              IF ~l.snapshot \/ Files[l.rev] = l.repo.total THEN repo.total
              ELSE Files[l.rev]
         /\ l.repo = repo => Updated(l).latest = Maximum(repo.latest, l.rev)
  <1>1. /\ repo \in RepoRows /\ l.rev \in Nat /\ l.repo \in RepoRows
        /\ Files[l.rev] \in Nat
    BY SyncAssumption DEF SyncTypeOK, Loaded
  <1> QED  BY <1>1 DEF Updated, RepoRows, Maximum

\* The rows after a push: as before, or its snapshot and nothing else.
LEMMA StoredTree ==
  ASSUME SyncTypeOK, NEW p \in Pushes, PushCommit(p)
  PROVE  /\ tree' \in [TreeIds -> Revs \cup {NoRow}]
         /\ ~push[p].snapshot => tree' = tree
         /\ push[p].snapshot =>
              /\ Cardinality(TreeRows') = Files[push[p].rev]
              /\ \A i \in TreeRows' : tree'[i] = push[p].rev
  <1>1. push[p].rev \in Revs /\ push[p].rev # NoRow
    BY SyncAssumption DEF PushCommit, SyncTypeOK, Loaded
  <1>2. CASE ~push[p].snapshot
    BY <1>2 DEF PushCommit, SyncTypeOK
  <1>3. CASE push[p].snapshot
    <2>1. PICK newRows \in NewRows(Files[push[p].rev]) :
            tree' = [i \in TreeIds |-> IF i \in newRows THEN push[p].rev ELSE NoRow]
      BY <1>3 DEF PushCommit
    <2> DEFINE n == Files[push[p].rev]
    <2>2. n \in Nat /\ MaxTreeId \in Nat
      BY <1>1, SyncAssumption
    <2>3. PICK base \in 0 .. MaxTreeId - n : newRows = base + 1 .. base + n
      BY <2>1 DEF NewRows
    <2> HIDE DEF n
    <2>4. newRows \subseteq TreeIds
      BY <2>2, <2>3 DEF TreeIds
    <2>5. TreeRows' = newRows
      BY <1>1, <2>1, <2>4 DEF TreeRows
    <2>6. Cardinality(newRows) = n
      <3> DEFINE a == base + 1
                 b == base + n
      <3>1. a \in Int /\ b \in Int
        BY <2>2, <2>3
      <3>2. n = IF a > b THEN 0 ELSE b - a + 1
        BY <2>2, <2>3
      <3>3. newRows = a..b
        BY <2>3
      <3> HIDE DEF a, b
      <3>4. Cardinality(a..b) = IF a > b THEN 0 ELSE b - a + 1
        BY <3>1, FS_Interval
      <3> QED  BY <3>2, <3>3, <3>4
    <2> QED  BY <1>1, <1>3, <2>1, <2>4, <2>5, <2>6 DEF n
  <1> QED  BY <1>2, <1>3

LEMMA InitSync == SyncInit => SyncTypeOK
  <1> SUFFICES ASSUME SyncInit PROVE SyncTypeOK
    OBVIOUS
  <1>1. /\ repo \in RepoRows \cup {NoRow} /\ deletion \in Deletion \cup {NoRow}
        /\ push \in [Pushes -> Loaded \cup {NoRow}]
    BY DEF SyncInit
  <1>2. log \subseteq Revs /\ tree \in [TreeIds -> Revs \cup {NoRow}] /\ overlapped \in BOOLEAN
    BY DEF SyncInit
  <1>3. registered \in 0..MaxRegistrations
    BY SyncAssumption DEF SyncInit
  <1> QED  BY <1>1, <1>2, <1>3 DEF SyncTypeOK

LEMMA NextSync == SyncTypeOK /\ [SyncNext]_syncVars => SyncTypeOK'
  <1> SUFFICES ASSUME SyncTypeOK, [SyncNext]_syncVars PROVE SyncTypeOK'
    OBVIOUS
  <1>1. ASSUME RegisterId PROVE SyncTypeOK'
    BY <1>1, SyncAssumption DEF RegisterId, Starts, SyncTypeOK, RepoRows
  <1>2. ASSUME UnregisterLoadCommits PROVE SyncTypeOK'
    BY <1>2 DEF UnregisterLoadCommits, Starts, SyncTypeOK, Deletion
  <1>3. ASSUME UnregisterLoadTree PROVE SyncTypeOK'
    BY <1>3 DEF UnregisterLoadTree, SyncTypeOK, Deletion, TreeRows
  <1>4. ASSUME UnregisterDelete \/ UnregisterFails PROVE SyncTypeOK'
    BY <1>4 DEF UnregisterDelete, UnregisterFails, SyncTypeOK
  <1>5. ASSUME NEW p \in Pushes, NEW r \in Revs, NEW s \in Snapshots,
               PushReadRepo(p, r, s)
        PROVE  SyncTypeOK'
    <2>1. [rev |-> r, snapshot |-> s, repo |-> repo, checked |-> FALSE] \in Loaded
      BY <1>5, SyncAssumption DEF PushReadRepo, SyncTypeOK, Loaded
    <2> QED  BY <1>5, <2>1 DEF PushReadRepo, Starts, SyncTypeOK
  <1>6. ASSUME NEW p \in Pushes, PushCheckDuplicate(p) PROVE SyncTypeOK'
    <2>1. push[p] \in Loaded
      BY <1>6 DEF PushCheckDuplicate, SyncTypeOK
    <2>2. [push[p] EXCEPT !.checked = TRUE] \in Loaded
      BY <2>1 DEF Loaded
    <2> QED  BY <1>6, <2>2 DEF PushCheckDuplicate, SyncTypeOK
  <1>7. ASSUME NEW p \in Pushes, PushCommit(p) PROVE SyncTypeOK'
    <2>1. push[p] \in Loaded /\ push[p].rev \in Revs
      BY <1>7 DEF PushCommit, SyncTypeOK, Loaded
    <2>2. Updated(push[p]) \in RepoRows
      BY <1>7, <2>1, UpdatedRow DEF PushCommit
    <2> QED  BY <1>7, <2>1, <2>2, StoredTree DEF PushCommit, SyncTypeOK
  <1>8. ASSUME NEW p \in Pushes, PushFails(p) PROVE SyncTypeOK'
    BY <1>8 DEF PushFails, SyncTypeOK
  <1>9. CASE UNCHANGED syncVars
    BY <1>9 DEF syncVars, SyncTypeOK
  <1> QED  BY <1>1, <1>2, <1>3, <1>4, <1>5, <1>6, <1>7, <1>8, <1>9 DEF SyncNext

-----------------------------------------------------------------------------
(***************************************************************************)
(* Every interleaving.  The commits unregister_repo has loaded are still   *)
(* there when it deletes, and a row of the tree that it will leave belongs *)
(* to a commit that it has not loaded.                                     *)
(***************************************************************************)
DeletionKnows ==
  deletion # NoRow =>
    /\ deletion.commits \subseteq log
    /\ deletion.loaded =>
         \A i \in TreeRows \ deletion.rows : tree[i] \notin deletion.commits

PushedInv == SyncTypeOK /\ LatestIsPushed /\ TreeIsPushed /\ DeletionKnows

LEMMA InitPushed == SyncInit => PushedInv
  BY InitSync DEF SyncInit, PushedInv, LatestIsPushed, TreeIsPushed, DeletionKnows, TreeRows

LEMMA NextPushed == PushedInv /\ [SyncNext]_syncVars => PushedInv'
  <1> SUFFICES ASSUME PushedInv, [SyncNext]_syncVars PROVE PushedInv'
    OBVIOUS
  <1>0. SyncTypeOK /\ SyncTypeOK' /\ LatestIsPushed /\ TreeIsPushed /\ DeletionKnows
    BY NextSync DEF PushedInv
  <1> USE DEF LatestIsPushed, TreeIsPushed, DeletionKnows
  <1>1. ASSUME RegisterId PROVE PushedInv'
    BY <1>0, <1>1 DEF RegisterId, PushedInv, TreeRows
  <1>2. ASSUME UnregisterLoadCommits PROVE PushedInv'
    BY <1>0, <1>2 DEF UnregisterLoadCommits, PushedInv, TreeRows
  <1>3. ASSUME UnregisterLoadTree PROVE PushedInv'
    BY <1>0, <1>3 DEF UnregisterLoadTree, PushedInv, SyncTypeOK, Deletion, TreeRows
  <1>4. ASSUME UnregisterDelete PROVE PushedInv'
    BY <1>0, <1>4 DEF UnregisterDelete, PushedInv, TreeRows
  <1>5. ASSUME UnregisterFails PROVE PushedInv'
    BY <1>0, <1>5 DEF UnregisterFails, PushedInv, TreeRows
  <1>6. ASSUME NEW p \in Pushes, PushCommit(p) PROVE PushedInv'
    <2>1. push[p] \in Loaded
      BY <1>0, <1>6 DEF PushCommit, SyncTypeOK
    <2>2. Updated(push[p]).latest \in {repo.latest, push[p].rev}
      BY <1>0, <1>6, <2>1, UpdatedRow DEF PushCommit
    <2>3. LatestIsPushed'
      BY <1>0, <1>6, <2>2 DEF PushCommit
    <2>4. TreeIsPushed' /\ DeletionKnows'
      <3>1. CASE ~push[p].snapshot
        BY <1>0, <1>6, <3>1, StoredTree DEF PushCommit, TreeRows
      <3>2. CASE push[p].snapshot
        BY <1>0, <1>6, <3>2, StoredTree DEF PushCommit
      <3> QED  BY <3>1, <3>2
    <2> QED  BY <1>0, <2>3, <2>4 DEF PushedInv
  <1>7. ASSUME \/ \E p \in Pushes, r \in Revs, s \in Snapshots : PushReadRepo(p, r, s)
               \/ \E p \in Pushes : PushCheckDuplicate(p) \/ PushFails(p)
               \/ UNCHANGED syncVars
        PROVE  PushedInv'
    <2>1. UNCHANGED <<repo, log, tree, deletion>>
      BY <1>7 DEF PushReadRepo, PushCheckDuplicate, PushFails, syncVars
    <2> QED  BY <1>0, <2>1 DEF PushedInv, TreeRows
  <1> QED  BY <1>1, <1>2, <1>3, <1>4, <1>5, <1>6, <1>7 DEF SyncNext

\* Rows and handlers keep their types.
THEOREM SyncTypeCorrect == SyncSpec => []SyncTypeOK
  BY InitSync, NextSync, PTL DEF SyncSpec

\* However pushes and an unregistration interleave, latest_revision was pushed
\* to this id, and the rows of the tree are of one push, with its log entry.
THEOREM OnlyPushedIsStored == SyncSpec => []OnlyPushed
  <1>1. PushedInv => OnlyPushed
    BY DEF PushedInv, OnlyPushed
  <1> QED  BY InitPushed, NextPushed, <1>1, PTL DEF SyncSpec

-----------------------------------------------------------------------------
(***************************************************************************)
(* Handlers that have never overlapped: what the running one has loaded    *)
(* is what the database holds.                                             *)
(***************************************************************************)
LoadedIsCurrent == ~overlapped =>
  /\ \A p \in Pushes : push[p] # NoRow =>
       /\ deletion = NoRow
       /\ \A q \in Pushes \ {p} : push[q] = NoRow
       /\ repo # NoRow /\ push[p].repo = repo
  /\ deletion # NoRow =>
       /\ repo # NoRow /\ deletion.commits = log
       /\ deletion.loaded => deletion.rows = TreeRows

SerialInv ==
  SyncTypeOK /\ LoadedIsCurrent /\ LatestIsMax /\ TotalMatchesTree /\ NoOrphans

LEMMA InitSerial == SyncInit => SerialInv
  BY InitSync
     DEF SyncInit, SerialInv, LoadedIsCurrent, LatestIsMax, TotalMatchesTree, NoOrphans,
         CascadeDeletes, TreeRows

LEMMA NextSerial ==
  ASSUME SerialInv, [SyncNext]_syncVars
  PROVE  SerialInv'
  <1> SUFFICES ASSUME ~overlapped' PROVE SerialInv'
    BY NextSync DEF SerialInv, LoadedIsCurrent, LatestIsMax, TotalMatchesTree,
                     NoOrphans
  <1>0. /\ SyncTypeOK /\ SyncTypeOK' /\ LoadedIsCurrent
        /\ LatestIsMax /\ TotalMatchesTree /\ NoOrphans
        /\ ~overlapped /\ ~overlapped'
    <2>1. overlapped => overlapped'
      BY DEF SyncNext, RegisterId, UnregisterLoadCommits, UnregisterLoadTree,
             UnregisterDelete, UnregisterFails, PushReadRepo, PushCheckDuplicate,
             PushCommit, PushFails, Starts, syncVars
    <2> QED  BY <2>1, NextSync DEF SerialInv
  <1> USE DEF LatestIsMax, TotalMatchesTree, NoOrphans, CascadeDeletes
  <1>1. ASSUME RegisterId PROVE SerialInv'
    BY <1>0, <1>1, FS_EmptySet
       DEF RegisterId, Starts, Busy, LoadedIsCurrent, SerialInv, TreeRows
  <1>2. ASSUME UnregisterLoadCommits PROVE SerialInv'
    BY <1>0, <1>2
       DEF UnregisterLoadCommits, Starts, Busy, LoadedIsCurrent, SerialInv, TreeRows
  <1>3. ASSUME UnregisterLoadTree PROVE SerialInv'
    BY <1>0, <1>3
       DEF UnregisterLoadTree, LoadedIsCurrent, SerialInv, SyncTypeOK, Deletion, TreeRows
  <1>4. ASSUME UnregisterDelete PROVE SerialInv'
    BY <1>0, <1>4 DEF UnregisterDelete, LoadedIsCurrent, SerialInv, TreeRows
  <1>5. ASSUME UnregisterFails PROVE SerialInv'
    BY <1>0, <1>5 DEF UnregisterFails, LoadedIsCurrent, SerialInv, TreeRows
  <1>6. ASSUME NEW p \in Pushes, NEW r \in Revs, NEW s \in Snapshots,
               PushReadRepo(p, r, s)
        PROVE  SerialInv'
    <2>1. /\ push'[p].repo = repo /\ \A q \in Pushes \ {p} : push'[q] = NoRow
          /\ deletion = NoRow /\ repo # NoRow
          /\ UNCHANGED <<repo, log, tree, deletion>>
      BY <1>0, <1>6 DEF PushReadRepo, Starts, Busy, SyncTypeOK
    <2>2. LoadedIsCurrent'
      BY <1>0, <2>1 DEF LoadedIsCurrent
    <2> QED  BY <1>0, <2>1, <2>2 DEF SerialInv, TreeRows
  <1>7. ASSUME NEW p \in Pushes, PushCheckDuplicate(p) \/ PushFails(p)
        PROVE  SerialInv'
    <2>1. /\ \A q \in Pushes \ {p} : push'[q] = push[q]
          /\ push'[p] # NoRow => push'[p].repo = push[p].repo
          /\ push[p] # NoRow
          /\ UNCHANGED <<repo, log, tree, deletion>>
      BY <1>0, <1>7 DEF PushCheckDuplicate, PushFails, SyncTypeOK, Loaded
    <2>2. LoadedIsCurrent'
      BY <1>0, <2>1 DEF LoadedIsCurrent
    <2> QED  BY <1>0, <2>1, <2>2 DEF SerialInv, TreeRows
  <1>8. ASSUME NEW p \in Pushes, PushCommit(p) PROVE SerialInv'
    <2>1. push[p] \in Loaded /\ push[p].rev \in Revs /\ push[p].rev \in Nat /\ Revs \subseteq Nat
          /\ repo # NoRow /\ repo.latest \in Nat
      BY <1>0, <1>8, SyncAssumption DEF PushCommit, SyncTypeOK, Loaded, RepoRows
    <2>2. push[p].repo = repo /\ deletion = NoRow
      BY <1>0, <1>8 DEF PushCommit, LoadedIsCurrent
    <2>3. /\ repo'.latest = Maximum(repo.latest, push[p].rev)
          /\ repo'.total = IF ~push[p].snapshot \/ Files[push[p].rev] = repo.total
                             THEN repo.total ELSE Files[push[p].rev]
          /\ repo' # NoRow
      BY <1>0, <1>8, <2>1, <2>2, UpdatedRow, SyncAssumption DEF PushCommit
    <2>4. LatestIsMax'
      <3>1. /\ log' = log \cup {push[p].rev} /\ log \subseteq Nat
            /\ repo.latest \in log \cup {0} /\ \A r \in log : r <= repo.latest
        BY <1>0, <1>8, <2>1 DEF PushCommit, SyncTypeOK
      <3>2. CASE repo.latest >= push[p].rev
        <4>1. repo'.latest = repo.latest
          BY <2>3, <3>2 DEF Maximum
        <4> QED  BY <3>1, <3>2, <4>1
      <3>3. CASE ~(repo.latest >= push[p].rev)
        <4>1. repo'.latest = push[p].rev
          BY <2>3, <3>3 DEF Maximum
        <4>2. \A r \in log : r <= push[p].rev
          <5>1. \A a, b, c \in Nat : a <= b /\ ~(b >= c) => a <= c
            OBVIOUS
          <5>2. \A r \in log : r \in Nat /\ r <= repo.latest
            BY <3>1
          <5> HIDE DEF LatestIsMax, TotalMatchesTree, NoOrphans
          <5> QED  BY <2>1, <3>3, <5>1, <5>2
        <4>3. \A r \in log' : r <= push[p].rev
          BY <2>1, <3>1, <4>2
        <4> QED  BY <3>1, <4>1, <4>3
      <3> QED  BY <3>2, <3>3
    <2>5. TotalMatchesTree'
      <3>1. CASE ~push[p].snapshot
        BY <1>0, <1>8, <2>1, <2>3, <3>1, StoredTree DEF TreeRows
      <3>2. CASE push[p].snapshot
        BY <1>0, <1>8, <2>3, <3>2, StoredTree
      <3> QED  BY <3>1, <3>2
    <2>6. \A q \in Pushes : push'[q] = NoRow
      BY <1>0, <1>8 DEF PushCommit, LoadedIsCurrent, SyncTypeOK
    <2>7. LoadedIsCurrent' /\ NoOrphans'
      BY <1>8, <2>2, <2>3, <2>6 DEF PushCommit, LoadedIsCurrent
    <2> QED  BY <1>0, <2>4, <2>5, <2>7 DEF SerialInv
  <1>9. CASE UNCHANGED syncVars
    BY <1>0, <1>9 DEF syncVars, LoadedIsCurrent, SerialInv, TreeRows
  <1> QED  BY <1>1, <1>2, <1>3, <1>4, <1>5, <1>6, <1>7, <1>8, <1>9 DEF SyncNext

LEMMA SerialAlways == SyncSpec => []SerialInv
  <1>1. SerialInv /\ [SyncNext]_syncVars => SerialInv'
    BY NextSerial
  <1> QED  BY InitSerial, <1>1, PTL DEF SyncSpec

\* Without overlapping handlers the counter is the greatest revision pushed, in
\* whatever order revisions arrive, and total_files counts the stored tree.
THEOREM SerialCountersAgree == SyncSpec => []CountersAgree
  <1>1. SerialInv => CountersAgree
    BY DEF SerialInv, CountersAgree
  <1> QED  BY SerialAlways, <1>1, PTL

\* Without overlapping handlers a deleted repository leaves no rows behind.
THEOREM SerialNoOrphans == SyncSpec => []NoOrphans
  <1>1. SerialInv => NoOrphans
    BY DEF SerialInv
  <1> QED  BY SerialAlways, <1>1, PTL

=============================================================================
