---------------------------- MODULE PreviewCache ----------------------------
(***************************************************************************)
(* The preview cache of one repository: api/proxy.py and cache_cleanup of  *)
(* scheduler/jobs.py.                                                      *)
(*                                                                         *)
(* get_preview is a coroutine and waits only for the owner, by what        *)
(* AskOwner promises of request_file; push_preview and cache_cleanup are   *)
(* threads.  All of them meet in the rows of preview_cache_meta and in the *)
(* cache directory, which no transaction covers: a file is written before  *)
(* its row is looked up and removed before its row is deleted.             *)
(***************************************************************************)
EXTENDS Naturals

CONSTANTS
  Previews,  \* calls of get_preview
  Pushers,   \* threads with push_preview
  Paths,     \* files of the repository
  FileName,  \* per path, its cache file name: the path with / replaced by _
  MaxRev,    \* bound on the revisions, of the repository and of requests
  Keys,      \* paths with a revision: bound on those whose previews are used
  None,      \* nothing: no revision, no file
  Torn       \* the content of a file being written, or mixed by two writers

Revs == 1 .. MaxRev
Files == {FileName[p] : p \in Paths} \X Revs

\* A preview; it is misnamed if it is older than the revision it is stored under,
\* and that is the client's doing: the owner's repository had no such revision
\* when it was asked for, or it was pushed as newer than it is.
Contents == [path : Paths, rev : Revs, misnamed : BOOLEAN]

\* A handler between two steps; rev is the newest revision when the owner was
\* asked, and then the revision of the preview until that is in the file.
Phases == {"hit", "ask", "open", "write", "find", "insert", "update", "respond"}
Jobs == [phase : Phases, key : Keys, rev : Revs \cup {None}, misnamed : BOOLEAN]

ASSUME PreviewAssumption ==
  /\ Previews \cap Pushers = {}
  /\ MaxRev \in Nat \ {0} /\ Keys \subseteq Paths \X Revs
  /\ None \notin Jobs \cup Contents \cup Revs
  /\ Torn \notin Contents \cup {None}

VARIABLES
  head,      \* newest revision in the owner's repository
  row,       \* preview_cache_meta per key: whether there is a row
  file,      \* the cache directory
  job,       \* per get_preview and push_preview: where it is
  told,      \* of AskOwner: devices that know of the request
  answer,    \* of AskOwner: the result of request_file
  expired,   \* the rows cache_cleanup has loaded; it runs while there are any
  toRemove,  \* those of them whose files it has not removed yet
  disturbed  \* history: 1 if two handlers have been at work on the cache at the
             \* same time, 2 if a handler and cache_cleanup, or a commit, the
             \* writing or the removal of a file failed

askVars == <<told, answer>>
cacheVars == <<row, file>>
cleanupVars == <<expired, toRemove>>
vars == <<head, cacheVars, job, askVars, cleanupVars, disturbed>>

Device == "device"
Ask == INSTANCE AskOwner WITH
         Requests <- Previews,
         Sockets <- [g \in Previews |-> {Device}],
         Says <- [g \in Previews |-> [d \in {Device} |-> "data"]],
         New <- "new", Pending <- "pending", Nothing <- "nothing",
         reply <- answer

Handlers == Previews \cup Pushers

TypeOK ==
  /\ head \in Revs
  /\ row \in [Keys -> {"none", "stored"}]
  /\ file \in [Files -> Contents \cup {None, Torn}]
  /\ job \in [Handlers -> Jobs \cup {None}]
  /\ told \in [Previews -> SUBSET {Device}]
  /\ answer \in [Previews -> {"new", "pending", "nothing", "data"}]
  /\ expired \subseteq Keys /\ toRemove \subseteq expired
  /\ disturbed \in 0 .. 2

Init ==
  /\ head = 1
  /\ row = [k \in Keys |-> "none"]
  /\ file = [f \in Files |-> None]
  /\ job = [x \in Handlers |-> None]
  /\ Ask!Init
  /\ expired = {} /\ toRemove = {}
  /\ disturbed = 0

At(x, phase) == job[x] # None /\ job[x].phase = phase
AtWork(x) == job[x] # None /\ job[x].phase # "ask"

\* A coroutine at work keeps the event loop until it has its response.
LoopFree == \A g \in Previews : AtWork(g) => At(g, "respond")

\* The cache file of a key: its path's name with its revision.
FileOf(key) == <<FileName[key[1]], key[2]>>

\* What is newer than a key's revision counts as of that revision: only what is
\* older is told apart.
UpTo(n, key) == IF n > key[2] THEN key[2] ELSE n

Goto(x, phase) == job' = [job EXCEPT ![x].phase = phase]

\* With a preview, none or an exception.  The next request of x is a new one.
End(x) ==
  /\ job' = [job EXCEPT ![x] = None]
  /\ told' = [g \in Previews |-> IF g = x THEN {} ELSE told[g]]
  /\ answer' = [g \in Previews |-> IF g = x THEN "new" ELSE answer[g]]

\* x starts on the cache; maybe somebody else is at work on it.
Start(x) ==
  \/ expired # {} /\ disturbed' = 2
  \/ /\ expired = {}
     /\ disturbed' = IF disturbed = 0 /\ \E y \in Handlers \ {x} : AtWork(y) THEN 1
                     ELSE disturbed

-----------------------------------------------------------------------------
(***************************************************************************)
(* Mutants, not used by the specification.                                 *)
(***************************************************************************)
\* latest_revision is read after the wait.
AnsweredForLatest(g) ==
  /\ At(g, "ask") /\ answer[g] = "data" /\ LoopFree
  /\ \E n \in job[g].rev .. head, latest \in 1 .. head :
       /\ <<job[g].key[1], latest>> \in Keys
       /\ job' = [job EXCEPT ![g].phase = "open", ![g].key[2] = latest, ![g].rev = n]
  /\ Start(g)
  /\ UNCHANGED <<head, cacheVars, askVars, cleanupVars>>

\* db.add without a look for the row.
FindNothing(x) ==
  /\ At(x, "find")
  /\ Goto(x, "insert")
  /\ UNCHANGED <<head, cacheVars, askVars, cleanupVars, disturbed>>

\* Without db.commit().
StoreUncommitted(x) ==
  /\ At(x, "insert") \/ At(x, "update")
  /\ IF x \in Previews THEN Goto(x, "respond") /\ UNCHANGED askVars ELSE End(x)
  /\ UNCHANGED <<head, cacheVars, cleanupVars, disturbed>>

-----------------------------------------------------------------------------
\* The owner commits a revision.  The server hears of it when push_commit says
\* so, which need not be in order (RepoSync), so the latest revision it knows
\* may be any that exists.
OwnerCommits ==
  /\ head < MaxRev
  /\ head' = head + 1
  /\ UNCHANGED <<cacheVars, job, askVars, cleanupVars, disturbed>>

-----------------------------------------------------------------------------
(***************************************************************************)
(* get_preview                                                             *)
(***************************************************************************)
\* With the revision asked for, which may be any, or the latest the server knows.
Look(g, key) ==
  /\ job[g] = None /\ LoopFree
  /\ IF row[key] # "none" /\ file[FileOf(key)] # None
     THEN /\ job' = [job EXCEPT ![g] = [phase |-> "hit", key |-> key, rev |-> None, misnamed |-> FALSE]]
          /\ Start(g)
          /\ UNCHANGED askVars
     ELSE /\ job' = [job EXCEPT ![g] = [phase |-> "ask", key |-> key, rev |-> UpTo(head, key),
                                       misnamed |-> key[2] > head]]
          /\ Ask!Ask(g)
          /\ UNCHANGED disturbed
  /\ UNCHANGED <<head, cacheVars, cleanupVars>>

\* The commit of last_accessed; a row that is gone cannot be updated.  (How long
\* ago a row was used is Cleanup's choice.)
Hit(g) ==
  /\ At(g, "hit")
  /\ IF row[job[g].key] = "none"
     THEN End(g)
     ELSE Goto(g, "respond") /\ UNCHANGED askVars
  /\ UNCHANGED <<head, cacheVars, cleanupVars, disturbed>>

\* request_file goes on.
Wait(g) ==
  /\ Ask!Tell(g) \/ Ask!Settle(g)
  /\ UNCHANGED <<head, cacheVars, job, cleanupVars, disturbed>>

\* No answer, or one without data or with what is not base64.
NoPreview(g) ==
  /\ At(g, "ask") /\ answer[g] \in {"nothing", "data"} /\ LoopFree
  /\ End(g)
  /\ UNCHANGED <<head, cacheVars, cleanupVars, disturbed>>

\* The owner's device has made the preview from its repository as it was at
\* some time since it was asked: the request names no revision.
Answered(g) ==
  /\ At(g, "ask") /\ answer[g] = "data" /\ LoopFree
  /\ \E n \in job[g].rev .. UpTo(head, job[g].key) :
       job' = [job EXCEPT ![g].phase = "open", ![g].rev = n,
                          ![g].misnamed = @ /\ n < job[g].key[2]]
  /\ Start(g)
  /\ UNCHANGED <<head, cacheVars, askVars, cleanupVars>>

\* The file is read by a thread, after the handler has returned.
Respond(g) ==
  /\ At(g, "respond")
  /\ End(g)
  /\ UNCHANGED <<head, cacheVars, cleanupVars, disturbed>>

-----------------------------------------------------------------------------
\* push_preview: the owner's client sends the preview of a path as it is in some
\* revision, under a revision that nobody checks.
PushPreview(x, key) ==
  /\ job[x] = None
  /\ \E n \in 1 .. UpTo(head, key) :
       job' = [job EXCEPT ![x] = [phase |-> "open", key |-> key, rev |-> n, misnamed |-> n < key[2]]]
  /\ Start(x)
  /\ UNCHANGED <<head, cacheVars, askVars, cleanupVars>>

(***************************************************************************)
(* _save_preview_cache                                                     *)
(***************************************************************************)
\* Opening the file for writing truncates it.
OpenFile(x) ==
  /\ At(x, "open")
  /\ file' = [file EXCEPT ![FileOf(job[x].key)] = Torn]
  /\ Goto(x, "write")
  /\ UNCHANGED <<head, row, askVars, cleanupVars, disturbed>>

\* A file that was removed meanwhile stays removed; one that somebody else has
\* written meanwhile keeps the end of what was longer.
WriteFile(x) ==
  /\ At(x, "write")
  /\ LET f == FileOf(job[x].key)
         content == [path |-> job[x].key[1], rev |-> job[x].rev, misnamed |-> job[x].misnamed]
     IN  \/ file[f] = None /\ UNCHANGED file
         \/ file[f] # None /\ file' = [file EXCEPT ![f] = content]
         \/ file[f] \in Contents /\ file' = [file EXCEPT ![f] = Torn]
  /\ job' = [job EXCEPT ![x].phase = "find", ![x].rev = None, ![x].misnamed = FALSE]
  /\ UNCHANGED <<head, row, askVars, cleanupVars, disturbed>>

\* The file cannot be opened, or the disk is full when part of it is written;
\* that part stays.
WriteFails(x) ==
  /\ \/ At(x, "open") /\ UNCHANGED file
     \/ /\ At(x, "write")
        /\ LET f == FileOf(job[x].key)
           IN  \/ UNCHANGED file
               \/ file[f] # None /\ file' = [file EXCEPT ![f] = Torn]
  /\ End(x)
  /\ disturbed' = 2
  /\ UNCHANGED <<head, row, cleanupVars>>

FindRow(x) ==
  /\ At(x, "find")
  /\ Goto(x, IF row[job[x].key] = "none" THEN "insert" ELSE "update")
  /\ UNCHANGED <<head, cacheVars, askVars, cleanupVars, disturbed>>

\* A row can be updated only if it is still there, and inserted only if it is
\* not; the file stays as it is.
Store(x) ==
  /\ At(x, "insert") \/ At(x, "update")
  /\ IF At(x, "update") <=> row[job[x].key] # "none"
     THEN /\ row' = [row EXCEPT ![job[x].key] = "stored"]
          /\ IF x \in Previews THEN Goto(x, "respond") /\ UNCHANGED askVars ELSE End(x)
     ELSE End(x) /\ UNCHANGED row
  /\ UNCHANGED <<head, file, cleanupVars, disturbed>>

\* Any commit fails when the database stays locked.
CommitFails(x) ==
  /\ At(x, "insert") \/ At(x, "update") \/ At(x, "hit")
  /\ End(x)
  /\ disturbed' = 2
  /\ UNCHANGED <<head, cacheVars, cleanupVars>>

-----------------------------------------------------------------------------
(***************************************************************************)
(* cache_cleanup                                                           *)
(***************************************************************************)
\* Any rows may have expired: preview_max_age_days can pass at any time.
Cleanup ==
  /\ expired = {}
  /\ \E old \in SUBSET {k \in Keys : row[k] # "none"} \ {{}} :
       expired' = old /\ toRemove' = old
  /\ disturbed' = IF \E x \in Handlers : AtWork(x) THEN 2 ELSE disturbed
  /\ UNCHANGED <<head, cacheVars, job, askVars>>

\* A file that cannot be removed stays, and its row goes all the same.
RemoveFile ==
  /\ \E k \in toRemove :
       /\ toRemove' = toRemove \ {k}
       /\ \/ file' = [file EXCEPT ![FileOf(k)] = None] /\ UNCHANGED disturbed
          \/ disturbed' = 2 /\ UNCHANGED file
  /\ UNCHANGED <<head, row, job, askVars, expired>>

\* Rows are deleted by their ids, whatever has become of them.
CleanupCommit ==
  /\ expired # {} /\ toRemove = {}
  /\ row' = [k \in Keys |-> IF k \in expired THEN "none" ELSE row[k]]
  /\ expired' = {}
  /\ UNCHANGED <<head, file, job, askVars, toRemove, disturbed>>

CleanupFails ==
  /\ expired # {} /\ toRemove = {}
  /\ expired' = {}
  /\ UNCHANGED <<head, cacheVars, job, askVars, toRemove, disturbed>>

Next ==
  \/ OwnerCommits
  \/ \E g \in Previews, key \in Keys : Look(g, key)
  \/ \E g \in Previews : Hit(g) \/ Wait(g) \/ NoPreview(g) \/ Answered(g) \/ Respond(g)
  \/ \E x \in Pushers, key \in Keys : PushPreview(x, key)
  \/ \E x \in Handlers :
       OpenFile(x) \/ WriteFile(x) \/ WriteFails(x) \/ FindRow(x) \/ Store(x) \/ CommitFails(x)
  \/ Cleanup \/ RemoveFile \/ CleanupCommit \/ CleanupFails

Spec == Init /\ [][Next]_vars

-----------------------------------------------------------------------------
(***************************************************************************)
(* Properties                                                              *)
(***************************************************************************)
\* Whatever get_preview finds in the file for a path and a revision is a
\* preview of that path, or of one that shares its cache file, and never older
\* than the revision, whatever is pushed, reported, asked for or removed while
\* others wait for the owner or save.  (It may be newer.)  The exception is a
\* preview that was asked for when the owner's repository had no such revision,
\* or pushed as newer than it is.
ServedAsAsked ==
  \A k \in Keys :
    LET content == file[FileOf(k)] IN
    content \notin {None, Torn} =>
      /\ FileName[content.path] = FileName[k[1]]
      /\ content.rev >= k[2] \/ content.misnamed

\* As long as no commit, no writing and no removal fails and cache_cleanup
\* overlaps no handler, every cache file has a row, by which it will be removed
\* one day, or a handler that is about to store one, however handlers overlap.
NoFileLeaks ==
  disturbed < 2 =>
    \A f \in Files : file[f] # None =>
      \/ \E k \in Keys : FileOf(k) = f /\ row[k] # "none"
      \/ \E x \in Handlers : AtWork(x) /\ FileOf(job[x].key) = f

\* As long as one at a time works on the cache and nothing fails, no
\* get_preview ends with an exception or sends an unfinished file, whatever
\* rows without files and files of other paths it meets.
NoSurprise ==
  [][disturbed' = 0 =>
       \A g \in Previews : AtWork(g) /\ job'[g] = None =>
         At(g, "respond") /\ file[FileOf(job[g].key)] \notin {None, Torn}]_vars

=============================================================================
