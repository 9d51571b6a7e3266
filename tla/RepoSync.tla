------------------------------ MODULE RepoSync ------------------------------
(***************************************************************************)
(* Commit pushes (api/sync.py) against the registration of a repository    *)
(* (api/repos.py), for one repository id.                                  *)
(*                                                                         *)
(* The handlers are plain functions, so each runs in a thread of its own.  *)
(* With SQLite a SELECT holds no lock and shows the latest commit; the     *)
(* first write takes the database's write lock until the commit.  A        *)
(* handler is therefore a step per SELECT whose result it uses later, and  *)
(* one step for all that it writes.  An UPDATE writes the columns whose    *)
(* value differs from the one that was loaded, and no others.              *)
(*                                                                         *)
(* A row of file_tree has an id, by which unregister_repo deletes it.      *)
(* SQLite gives new rows the ids above the greatest in the table, so those *)
(* of a replaced tree come back unless other repositories have rows above  *)
(* them.  Those rows and all directories are left out.                     *)
(***************************************************************************)
EXTENDS Integers, FiniteSets

CONSTANTS
  Revs,              \* revision numbers clients push
  Snapshots,         \* whether requests carry a file tree: a set of booleans
  Files,             \* number of files in the snapshot of each revision
  MaxTreeId,         \* bound: the ids of rows of file_tree are 1..MaxTreeId
  Pushes,            \* threads that run push_commit
  MaxRegistrations,  \* bound: how often the id is registered (SQLite reuses ids)
  NoRow              \* no row, no snapshot, no running handler

RepoRows == [latest : Nat, total : Nat]
Loaded == [rev : Revs, snapshot : BOOLEAN, repo : RepoRows, checked : BOOLEAN]
TreeIds == 1..MaxTreeId
Deletion == [commits : SUBSET Revs, rows : SUBSET TreeIds, loaded : BOOLEAN]

ASSUME SyncAssumption ==
  /\ Revs \subseteq Nat \ {0}
  /\ Snapshots \subseteq BOOLEAN
  /\ Files \in [Revs -> Nat \ {0}]
  /\ MaxTreeId \in Nat
  /\ MaxRegistrations \in Nat
  /\ NoRow \notin Revs \cup RepoRows \cup Loaded \cup Deletion

VARIABLES
  repo,        \* the repos_registry row: latest_revision and total_files
  log,         \* revisions in commit_log under the id
  tree,        \* file_tree under the id: per row, the push that stored it
  push,        \* what each push thread holds, NoRow when it has no request
  deletion,    \* what unregister_repo has loaded, NoRow when it is not running
  registered,  \* registrations so far
  overlapped   \* history: a handler has started while another was running

syncVars == <<repo, log, tree, push, deletion, registered, overlapped>>

SyncTypeOK ==
  /\ repo \in RepoRows \cup {NoRow}
  /\ log \subseteq Revs
  /\ tree \in [TreeIds -> Revs \cup {NoRow}]
  /\ push \in [Pushes -> Loaded \cup {NoRow}]
  /\ deletion \in Deletion \cup {NoRow}
  /\ registered \in 0..MaxRegistrations
  /\ overlapped \in BOOLEAN

SyncInit ==
  /\ repo = NoRow
  /\ log = {}
  /\ tree = [i \in TreeIds |-> NoRow]
  /\ push = [p \in Pushes |-> NoRow]
  /\ deletion = NoRow
  /\ registered = 0
  /\ overlapped = FALSE

TreeRows == {i \in TreeIds : tree[i] # NoRow}

Maximum(a, b) == IF a >= b THEN a ELSE b

Busy == deletion # NoRow \/ \E p \in Pushes : push[p] # NoRow

\* A handler starts.
Starts == overlapped' = (overlapped \/ Busy)

-----------------------------------------------------------------------------
(***************************************************************************)
(* Mutants, not used by the specification.                                 *)
(***************************************************************************)
\* The counters written without looking whether a snapshot came.
CountWithoutSnapshot(l) ==
  [repo EXCEPT !.latest = IF Maximum(l.repo.latest, l.rev) = l.repo.latest THEN @
                          ELSE Maximum(l.repo.latest, l.rev),
               !.total = Files[l.rev]]

\* latest_revision counted up instead of set.
CountedUp(l) == [repo EXCEPT !.latest = @ + 1]

\* Only the rows of the log go with the repository.
UnregisterKeepsTree ==
  /\ deletion # NoRow /\ deletion.loaded
  /\ repo' = NoRow
  /\ log' = log \ deletion.commits
  /\ deletion' = NoRow
  /\ UNCHANGED <<tree, push, registered, overlapped>>

-----------------------------------------------------------------------------
(***************************************************************************)
(* api/repos.py                                                            *)
(***************************************************************************)
\* POST /repos: the first row, or one that gets the deleted row's id again.
RegisterId ==
  /\ repo = NoRow /\ registered < MaxRegistrations /\ Starts
  /\ repo' = [latest |-> 0, total |-> 0]
  /\ registered' = registered + 1
  /\ UNCHANGED <<log, tree, push, deletion>>

\* DELETE /repos/{id}: db.delete loads the commits, then the file tree, ...
UnregisterLoadCommits ==
  /\ deletion = NoRow /\ repo # NoRow /\ Starts
  /\ deletion' = [commits |-> log, rows |-> {}, loaded |-> FALSE]
  /\ UNCHANGED <<repo, log, tree, push, registered>>

UnregisterLoadTree ==
  /\ deletion # NoRow /\ ~deletion.loaded
  /\ deletion' = [deletion EXCEPT !.rows = TreeRows, !.loaded = TRUE]
  /\ UNCHANGED <<repo, log, tree, push, registered, overlapped>>

\* ... and the commit deletes the rows that were loaded, by their primary
\* keys: of a tree pushed since, those that have got one of these keys again.
UnregisterDelete ==
  /\ deletion # NoRow /\ deletion.loaded
  /\ repo' = NoRow
  /\ log' = log \ deletion.commits
  /\ tree' = [i \in TreeIds |-> IF i \in deletion.rows THEN NoRow ELSE tree[i]]
  /\ deletion' = NoRow
  /\ UNCHANGED <<push, registered, overlapped>>

\* The commit fails (the database stayed locked): nothing was deleted.
UnregisterFails ==
  /\ deletion # NoRow /\ deletion.loaded
  /\ deletion' = NoRow
  /\ UNCHANGED <<repo, log, tree, push, registered, overlapped>>

-----------------------------------------------------------------------------
(***************************************************************************)
(* POST /sync/commit                                                       *)
(***************************************************************************)
\* The repository is loaded; a request for a missing one ends here.
PushReadRepo(p, r, snapshot) ==
  /\ push[p] = NoRow /\ repo # NoRow /\ Starts
  /\ push' = [push EXCEPT ![p] =
       [rev |-> r, snapshot |-> snapshot, repo |-> repo, checked |-> FALSE]]
  /\ UNCHANGED <<repo, log, tree, deletion, registered>>

\* A revision that is already in the log is answered "received".
PushCheckDuplicate(p) ==
  /\ push[p] # NoRow /\ ~push[p].checked
  /\ push' = [push EXCEPT ![p] =
       IF push[p].rev \in log THEN NoRow ELSE [push[p] EXCEPT !.checked = TRUE]]
  /\ UNCHANGED <<repo, log, tree, deletion, registered, overlapped>>

\* The row after the UPDATE of a push that had loaded l.repo.
Updated(l) ==
  [repo EXCEPT
     !.latest = IF Maximum(l.repo.latest, l.rev) = l.repo.latest THEN @
                ELSE Maximum(l.repo.latest, l.rev),
     !.total = IF ~l.snapshot \/ Files[l.rev] = l.repo.total THEN @
               ELSE Files[l.rev]]

\* The ids of n new rows, above those of the other repositories.
NewRows(n) == {base + 1 .. base + n : base \in 0 .. MaxTreeId - n}

\* Log row, whole tree and repository row in one transaction.
PushCommit(p) ==
  /\ push[p] # NoRow /\ push[p].checked
  /\ repo # NoRow /\ push[p].rev \notin log
  /\ log' = log \cup {push[p].rev}
  /\ \/ ~push[p].snapshot /\ UNCHANGED tree
     \/ /\ push[p].snapshot
        /\ \E rows \in NewRows(Files[push[p].rev]) :
             tree' = [i \in TreeIds |-> IF i \in rows THEN push[p].rev ELSE NoRow]
  /\ repo' = Updated(push[p])
  /\ push' = [push EXCEPT ![p] = NoRow]
  /\ UNCHANGED <<deletion, registered, overlapped>>

\* The repository is gone (StaleDataError), the revision came in meanwhile
\* (the unique constraint), or the database is locked: rolled back, HTTP 500.
PushFails(p) ==
  /\ push[p] # NoRow /\ push[p].checked
  /\ push' = [push EXCEPT ![p] = NoRow]
  /\ UNCHANGED <<repo, log, tree, deletion, registered, overlapped>>

SyncNext ==
  \/ RegisterId \/ UnregisterLoadCommits \/ UnregisterLoadTree
  \/ UnregisterDelete \/ UnregisterFails
  \/ \E p \in Pushes, r \in Revs, s \in Snapshots : PushReadRepo(p, r, s)
  \/ \E p \in Pushes : PushCheckDuplicate(p) \/ PushCommit(p) \/ PushFails(p)

SyncSpec == SyncInit /\ [][SyncNext]_syncVars

-----------------------------------------------------------------------------
(***************************************************************************)
(* Properties of every interleaving.                                       *)
(***************************************************************************)
\* latest_revision always is a revision of the log, or 0: lost updates may
\* set it back, but never to something that was not pushed to this id.
LatestIsPushed == repo # NoRow => repo.latest \in log \cup {0}

\* All rows of the file tree are of one push, whose log entry exists, also when
\* unregister_repo deletes what it loaded earlier.  It may delete a part of a
\* snapshot pushed since, but it never leaves rows of a push it takes from the
\* log.
TreeIsPushed ==
  \A i \in TreeRows : tree[i] \in log /\ \A j \in TreeRows : tree[j] = tree[i]

\* However pushes and an unregistration overlap, neither the counter nor the
\* tree is left with what has no entry in the log.
OnlyPushed == LatestIsPushed /\ TreeIsPushed

(***************************************************************************)
(* Properties as long as no two handlers have overlapped.                  *)
(***************************************************************************)
\* latest_revision is the greatest revision pushed, in whatever order.
LatestIsMax ==
  ~overlapped /\ repo # NoRow =>
    /\ repo.latest \in log \cup {0}
    /\ \A r \in log : r <= repo.latest

\* total_files counts the files of the stored tree.
TotalMatchesTree ==
  ~overlapped /\ repo # NoRow => repo.total = Cardinality(TreeRows)

\* What the list of repositories shows agrees with what is stored.
CountersAgree == LatestIsMax /\ TotalMatchesTree

\* models.py CommitLog and FileTree, ForeignKey(..., ondelete="CASCADE"): the
\* commits and the tree go with their repository, so a reused id starts with
\* nothing.
CascadeDeletes == repo = NoRow => log = {} /\ TreeRows = {}

\* Without overlap nothing outlives its repository.
NoOrphans == ~overlapped => CascadeDeletes

=============================================================================
