# Verification of VaultLine Server

TLA+ models of the VaultLine server, TLC runs that check them on small
instances, and TLAPS proofs for every instance.  Paths without a directory
prefix are those of the repository (`api/`, `ws/`, `db/`, ...).  `PROJECT.json`
lists the components, runs, mutants, hazards and theorems, and maps every
definition to the lines it models.

## 1. The system

One Python process serves HTTP and WebSocket clients (desktop apps that keep the
SVN repositories) and stores metadata in SQLite or PostgreSQL.

* `async def` handlers and the WebSocket endpoint are coroutines on **one event
  loop**; they give it up only at an `await` that really waits.  The only one
  in most handlers is `manager.send_to_user`.
* `def` handlers run in **threads**, and so does the scheduler.  They meet in
  the database.
* A database session is SQLAlchemy's with `autoflush=False`: rows keep the
  values they were loaded with, and the commit writes the columns that differ
  from them.  SQLite locks nothing on SELECT, takes its one write lock at the
  first write and keeps it until the commit; it does not enforce foreign keys
  here and gives the id of a deleted last row out again.  PostgreSQL does
  neither.
* The engine's pool has fifteen connections.  A session takes one with its first
  query, which is the one that authenticates, and gives it back at its commit or
  end.

| Component | State | Operations | Interacts with | What makes it correct |
|---|---|---|---|---|
| Approval workflow (`api/approvals.py`) | `approvals`, `approval_reviewers`, `notifications` | create, approve, reject | `send_to_user` between decision and commit | status follows from the reviewers' votes; a vote is never lost; a rejection is final |
| Connection registry (`ws/manager.py`, `ws/endpoint.py`) | `_connections` | connect, disconnect, send_to_user | called by every async handler | a message reaches every socket that stays, each once |
| SVN relay (`ws/manager.py`) | `_share_providers`, `_svn_sessions` | seven `svn_*` messages, disconnect | registry; rows of `shares` | providers are reachable and own the share; sessions go to the owner |
| File requests (`ws/manager.py`) | `_file_requests` (futures) | request_file, file_response | registry; called by `get_preview` | one answer, to the right request, kept; every request ends |
| Commit sync and repositories (`api/sync.py`, `api/repos.py`) | `repos_registry`, `commit_log`, `file_tree` | push, register, unregister, update | threads on the same rows | counters agree with log and tree; nothing outlives its repository |
| Preview cache (`api/proxy.py`, `cache_cleanup`) | `preview_cache_meta`, files | get, push, clean-up | file requests; revision of the repository | a cached preview is that of its path and not older than its revision, if clients name revisions that exist; a response is a whole file; no file is left behind |
| Authentication (`api/auth.py`, `api/deps.py`, `utils/security.py`) | `sessions`, `login_attempts` | login, refresh, logout, password change, session clean-up | presence; all handlers | a refresh token works once; a password change ends all sessions; lockout |
| Presence (`api/presence.py`, endpoint, `presence_check`) | `users.is_online`, `last_heartbeat` | heartbeat, go online/offline, login, logout, connect, disconnect, check | four writers of one flag | a user with a socket is online; one without becomes offline |
| Shares (`api/shares.py`) | `shares`, `share_recipients`, `notifications` | create, update, accept, reject, leave, undo, delete | `send_to_user` before and after commits; SVN relay | what a client is told of its share is what is stored, and every revocation is told |
| Users, groups, tags (`api/users.py`, `api/groups.py`, `api/tags.py`) | the rest of the tables | create, update, delete, membership, attach | foreign keys, which SQLite does not enforce | no dangling references; a removal removes what it names |
| Notifications, activity log, administration | `notifications`, `activity_log` | list, mark read, statistics | written by others | nothing decides on them |
| Database session (`db/database.py`) | pool, write lock | query, write, commit, close | every handler; the event loop and the threads | whatever waits for whatever, every request ends |
| Scheduler (`main.py`, `scheduler/jobs.py`) | none | four jobs in turn | presence, cache, sessions, log | as for the components |

The hard behaviours are the waits between reading and committing (approvals,
shares, previews), files and rows that no transaction holds together (previews),
synchronous database calls on the event loop, threads that read, decide and write without a lock (sync,
auth, tags), tables in memory about rows in the database (relay), several
writers of one flag (presence), and sends over a list that changes.  `PROJECT.json`
lists each hazard at its line, with the properties about it.

## 2. Modules

### Approvals

One approval request.  `status`, `reviewer` and `rowStatus` are the rows,
`notices` the stored notifications per row, `task` what a suspended handler's
session holds.  A handler whose requester is offline never gives up the loop and
is one step; with the requester online it is two, `Approve`/`Reject` and
`Commit`, because `send_to_user` may wait.  What the second step writes is what
the ORM would: an attribute only if it differs from the value loaded (`Flush`).
`CommitFails` is a database that stays locked.  `CreateApproval` is the step of
its commit, since nobody sees the rows earlier; its reviewer list is the
client's, with repetitions or empty.  The notifications `create_approval` stores
for the reviewers are left out, and so are comments and times.  `overlapped` is a
history variable: a handler has started while another was suspended.  Properties
that such overlaps break are stated for the behaviours up to the first one.

### Connections

`_connections` with `send_to_user`, the component `SvnRelay` and `FileRequests`
extend and are checked with.  `ws` says
of each socket whether it is registered and whether its client is still there.
The sockets of a user may belong to several devices or to one that has lost its
socket and is back on another before the server has noticed: neither the code nor the
model tells them apart.
`fan` holds the running `send_to_user` of each caller.  Python iterates over the list
object it found: `connect` appends to that object, so a fan-out sees a
socket that joins; `disconnect` replaces the list, so a fan-out keeps an old
one (`live = FALSE`), and later joins do not reach it.  `due` is a history
variable: the sockets a fan-out owes the message.  The order of the list is
abstracted to a choice.  Each element is a step, because each write may wait.

`ConnSafety` is what a component built on the registry may do to it; `SvnRelay` and
`FileRequests` implement it (run `svn_relay`, theorems `RelayUsesConnections` and
`RequestsUseConnections`), so what is proved about `Connections` holds in both.

### SvnRelay (extends Connections)

The relay's tables and all `svn_*` messages.  A message is handled by its
socket's coroutine, one at a time, and each handler ends in at most one
`send_to_user`, so the senders of `Connections` are the sockets.  The endpoint
disconnects only between two messages (`RelayLeave`).  Messages without the ids they
need change nothing and are left out.  `creator` is `shares.created_by`;
`CreateShare` and `DeleteShare` are the parts of the HTTP handlers (and of
`admin_delete_share`) the relay can notice.  `ReuseIds` chooses the database:
SQLite gives out the greatest id in use plus one, PostgreSQL never an old one.
The definitions that `FileRequests` and `Connections` also have begin with `Relay`
(`RelaySpec`, `RelayLeave`, ...), so that one module can prove about all three.

### FileRequests (extends Connections) and AskOwner

`request_file` with its future, its timer and the answers of the owner's
devices.  The senders of `Connections` are the requests.  Whoever the message
reached (`told`) may answer at any time, repeatedly or never, also through a
later socket.  Ids are random, so a request is its id.  The
repository supports Python 3.11 and later, and `wait_for` differs: when the timer and
the answer fall into one turn of the loop, 3.11 returns the answer and 3.12
raises the timeout.  Both outcomes are allowed.

`AskOwner` states what a caller may rely on: a request is settled once, by what
one of the owner's devices said to it or by nothing, and it ends.
`FileRequests` implements it under a refinement mapping that shows an offline
owner as no answer, as `request_file` does.

### RepoSync

One repository id, with `push_commit` in threads and `register_repo` and
`unregister_repo`.  A handler is a step per SELECT whose result it uses later
(the repository row, the duplicate check; the children `db.delete` loads) and
one for everything it writes, because the write lock covers all its writes.
`Updated` writes the columns that differ from the loaded ones.  A failed commit
(`PushFails`, `UnregisterFails`) is a stale row, the unique constraint or a
locked database.  A row of the file tree is abstracted to the revision it came
with (`tree`, per row id), and `total_files` to `Files[r]`.  `unregister_repo`
deletes the rows it has loaded by their ids; a tree that replaces another gets ids
from the range `NewRows` leaves open, among them those of the old one, so that a part of a
newer tree may go.  The rows of other repositories are left out but for the ids they
take; one unregistration runs at a time.  `registered` bounds how often the id is
used, and `overlapped` is as in `Approvals`; handlers of other repositories count,
since an unregistration of another one deletes by ids as well.
The specification is `SyncSpec`, beside that of `Registry`.

### AuthSessions

The sessions of one account.  Handlers are threads: a step per SELECT that is
acted on later and one for the writes, as in `RepoSync`.  `session` and `rowId`
are the rows of `sessions` by their token; a row is deleted by its id, and where
the database gives ids out again (`ReuseIds`) the deletion of a row that is gone
may hit a newer one.  The other users' rows are what `NewIds` leaves open.
`failures` counts the failed attempts in the lockout window, and `FailureAges`
lets the oldest leave it.  `AdminReset`, `ForceLogout`, `UpdateStatus` and
`SessionCleanup` act on nothing they have read and are one step.  A password is its number;
`issuedFor` and `parent` (of a session, the login's password and the token it was
rotated from) and `loggedOut` are history.

### Shares

The recipients of shares by their row ids (`recipient`).  The handlers are
coroutines, so that two of them meet only where one waits: `accept` and `reject`
between what they read and their commit, `delete_share` between the commit that
deletes and the one that stores the revocations.  The administrator's deletion is
a thread and may come between any two statements, which is why every handler is a
step for what it reads and one for its commit; `LoopFree` says that the event loop
is at an `await`.  Rows are updated and deleted by the ids that were loaded, and
`CreateShare` may take any free id, so that those of deleted recipients are given
out again, as SQLite does, or not, as PostgreSQL.  An answer to a recipient that has been
deleted updates no row, and its commit fails (`Answer` has no step then, `CommitFails`
has); if the id is another recipient's by now, the answer goes to that one, and
`mixedUp` (history) remembers the parties.  A DELETE of a row that is gone passes.
`lastNotice` is what the creator was last notified of about each recipient, and `joined`
(history) what each recipient's client was told; the handler reads the share again
for its response, by an id that may be another share's (`Heard`).  `create_share` is the
step of its commit, and its notifications to the recipients are left out.

### Presence

One user's `is_online` and `last_heartbeat` with all who write them.  Every
writer loads the user, then commits, and its UPDATE names the flag only if it
differs from the value loaded: `task` holds that value.  Request handlers and
`presence_check` are threads; the endpoint (`Connect`, `Register`,
`Disconnect`) and the heartbeat message share the event loop, so that they do
not come between each other's load and commit, but threads do.  A connection is
registered after its commit, and the endpoint waits for the client in between
(`saved`).  A heartbeat message whose commit fails ends its connection
(`MessageFails`).  `Age` is the passing of `heartbeat_timeout_seconds`.
`dismissed` and `overlapped` are history.

### Registry

Users, groups, repositories and tags with the rows that refer to them:
memberships, owners and groups of repositories, tags of files.  Handlers are threads on SQLite: a step for
the queries and one for the commit, with the ids of the rows the ORM has loaded
to delete along (`loaded`).  A new row gets the greatest id in use plus one
(`NewId`), so that a deletion by an id read earlier may hit a newer row.
`DeleteUserCommit` loads and deletes in one step, because the deletion of the
user's sessions has locked the database before; it has no step for a user who
owns a repository, whose commit fails on the owner that the ORM would set to
NULL.  `delete_group` loads the memberships first and the repositories only in
its flush (`DeleteGroupFlush`), to set their group (`team`) to NULL, and fails if one
of them is gone.  `register_repo` looks for the group only if its id is truthy: group id 0
(`Zero`) is stored as it is.  Three history variables say what the properties except.
`raced` has the references, by kind and id, that a handler was to add beside the deletion
of that id or to a group it had not found; one is forgotten when no row and no running
handler has the reference any more.  `recycled` has the memberships stored under a row id
that a running removal holds, `regrouped` the repositories whose group was set while the
deletion of a group held them; both end with the last such removal.
Callers and administrators are not among `Users`.  Left out are names, roles, who
created or attached a tag, and the other tables that name a user; a file tag stands
for one path.

### PreviewCache (instantiates AskOwner)

The rows of `preview_cache_meta` and the cache directory for one repository.
`row` says per path and revision whether there is a row, `file` what each cache
file holds: the preview of a path as of a revision, nothing, or `Torn`, what a
truncated file or one mixed by two writers has.  Which rows have expired when
`cache_cleanup` looks is its choice, since `preview_max_age_days` can pass at any time.
`get_preview` is a coroutine and gives up the loop only for
`request_file`, of which the module uses what `AskOwner` promises and
`FileRequests` implements; `push_preview` and `cache_cleanup` are threads.
`_save_preview_cache` is a step each for opening the file, writing it, finding
the row and committing, and a hit one for the lookup and one for its commit.
`FileResponse` reads the file after the handler has returned (`Respond`).  The
owner makes the preview from the repository as it is when the request arrives,
anywhere between `rev`, the newest revision when it was asked, and `head`.
The revision a client asks for or pushes under is any (`key`), since nobody checks it;
a preview older than it is `misnamed` if the owner had no such revision when asked, or if it
was pushed as newer than it is.  `UpTo` counts what is newer than a key as of its
revision, which is all the property tells apart.  A file that cannot be opened or
written is `WriteFails`.
`disturbed` is history: 1 when two handlers have been at work on the cache at
once, 2 when `cache_cleanup` and a handler have, or a commit, the writing or the
removal of a file failed.

Revisions below 1 stand for no more than revision 1 does and are left out.  What is
pushed under a path is assumed to be a preview of that path, and the id of a row not to be
given out again during a save.  The model has a few more behaviours than the program: `Hit`'s
commit and refresh are one step that may come at any moment after the lookup, and a
write to a removed file does not see that a third handler has made it again.

### EventLoop

What all requests share: the event loop, the worker threads, the connections
and SQLite's write lock.  A request is a sequence of segments, each on a thread
or on the loop, with the database operations in it; between two segments it
waits for a client, a thread or its turn on the loop.  The kinds of requests
(`CreateShare`, `Answer`, `HitPreview`, ...) are the handlers of the other modules, cut where they
`await`.  A database call on the loop blocks the loop, and whoever waits for a
connection or the lock too long gets an exception (`TimeOut`): after 30
seconds of the pool, 5 of SQLite.  The session is closed by a coroutine of the
event loop's, which uses a thread of its own, so that `Close` needs the loop and no
worker.  A commit that is refused by a constraint has rolled back but keeps the
connection (`CommitFails`).  `Refuse` ends a request
that has written nothing, as handlers do that only read or find something missing.
`CanGo` says when a request's next step is one it can take; TLC confirms that this
is when the step is enabled.  The
scheduler's thread waits for no client and not for the loop, and is left out.

## 3. Runs

Every passing run has, for each of its properties, a mutant: a plausible mistake in
a modelled definition (defined beside it and not used) that violates the
property under the same configuration.

| Run | Instance | Shows |
|---|---|---|
| `approvals` | lists of 0, 2 and 3 reviewers, one with a repetition; two handlers; 114,800 states | `ApprovedByEveryRow`, `VotedRowsAreNotPending` always; `StatusIsOutcome`, `RejectionIsFinal` until handlers overlap |
| `approvals_lost_unanimity` | two reviewers, two handlers | violates `UnanimityResolves` |
| `svn_relay` | a user with two sockets and one with one, two shares, one session id, one fan-out at a time; 155,871 states | `ProviderConnected`, `ProviderIsCreator`, `SessionWithCreator`, `ConnSafety`, `HandlersReturn` |
| `svn_relay_reused_ids` | one share id, used again | violates `ProviderIsCreator` |
| `file_requests` | owner with two sockets, another user with one, two requests; 148,101 states | `EntryWhileAsked`, `AnswersAreKept`, `AsksOwner`, `RequestsEnd`; of the registry `EverySocketServed`, `OncePerSocket` |
| `repo_sync` | three revisions, two registrations, two pushes and an unregistration, three row ids of the tree; 3.4 million states up to symmetry | `OnlyPushed` always; `CountersAgree`, `NoOrphans` until handlers overlap |
| `auth_sessions` | two threads, three tokens and row ids, one failure allowed, one password change; 3.0 million states | `FailuresBounded` always; `TokensUsedOnce`, `SessionsOfPassword`, `InactiveGetsNothing` until handlers overlap |
| `shares` | two users, two shares, three row ids, two handlers and an administrator; 1.4 million states up to symmetry | `RowsHaveShare` always; `AnswersAreTold`, `JoinedOrRevoked` always but for the parties to an answer that went to the row of another; `RejectionStays` until handlers overlap |
| `presence` | two request threads, the scheduler, the event loop with two sockets; 26,067 states | `StaleGoesOffline`, `HeartbeatsKeepOnline` always; `ConnectedIsOnline` until writers overlap |
| `registry` | a user, two groups, a tag, a repository id, two row ids, two handlers; 955,153 states up to symmetry | `ReferencesExist` but for references to an id one was to be added to beside its deletion, or to a group not found; `RemovedOnPurpose` but for what was stored or moved while a removal held it |
| `preview_cache` | one preview request, one push and clean-up on two paths of one file name and two revisions; 1.2 million states | `ServedAsAsked` always, but for revisions that clients misname; `NoFileLeaks` until clean-up overlaps a handler or something fails; `NoSurprise` until anything overlaps |
| `event_loop` | three requests of any kind, two connections, two threads; 92,075 states | `NothingKept`, `HaltsAreKnown`, `RequestsEnd` always |

Bounds.  Two handlers suffice for lost updates, and a third reviewer
lets two of them race while one stays pending.  `MaxNotices` ends the
rejections of one row, which may otherwise repeat for ever; two of them are a
vote and its reversal.  Two sockets of a user are what a list needs to
change while it is iterated over, also by a device that comes back, and what
lets one socket register as a provider while the other disconnects; two fan-outs show
that they do not disturb each other.  In the relay `MaxSends` allows one at a time: two
sends meet only in the list, and `file_requests` has two.  Two share ids tell an entry from its neighbour.  Three revisions
allow any out-of-order arrival, and the snapshots have 1, 2 and 1 files so that a count
can be equal by accident.  `MaxRegistrations = 2` uses the id again once.  Three tokens are a login and two
refreshes, one after the other or both of the same; one failure and two threads
are enough to exceed the lockout, one password change to outlive it.  Two
handlers of shares are an answer and a deletion, two shares of two users the one
whose row ids are given out again and the one that gets them, and three row ids leave
one recipient of it where it is.  Three rows of a file tree hold one of two files with
another id free, so that a new tree has none, some or all of the ids of the old one.  Two sockets are a last connection
and one that is not; two threads, the scheduler and the loop let four writers of
the flag overlap.  Two row ids are one to be freed and given out again and its
neighbour, two groups what a repository is moved between.  A request that waits for the owner and a push are two writers of one
file; two paths of one file name and two revisions of one of them are the keys
that can be taken for each other.  Two connections and three requests exhaust the
pool, and are two that hold what the third on the loop waits for.

`CHECK_DEADLOCK FALSE` is set where the model ends for a reason: an
approval's handlers run out of notices, a repository of registrations, and
shares end deleted.  In the other modules something can always happen.

Fairness.  `HandlersReturn` and `RequestsEnd` assume weak
fairness of a socket write, of the step after it, of the timer and of a resumed
coroutine, and nothing of clients.  The event loop runs whatever is ready; a
write to a client that does not read ends when the keepalive timeout of the
WebSocket library breaks the connection; the timer is asyncio's.
`RequestsEnd` of the event loop assumes that who runs a database call goes on or
times out, and, since the loop's queue and the queue for a thread are first in
first out, that who waits in them is taken up in the end if that is possible again and
again (strong fairness).  `StaleGoesOffline` assumes that the scheduler comes round and that its commits
do not fail for ever (strong fairness: each round commits anew);
`HeartbeatsKeepOnline` has its assumption, heartbeats that keep being committed,
in the property.

## 4. Findings

* Two reviewers who approve at the same time leave a unanimous request pending
  (`approvals_lost_unanimity`): each handler read the other row before its
  `await`.
* With SQLite, a provider registration outlives the share it was made for and
  is used for the next share of the same id (`svn_relay_reused_ids`).

Known, and with no run of its own:

* Most properties "until handlers overlap" fail after an overlap.  A push during
  an unregistration leaves rows that the next repository of the same id
  inherits, a deactivated account can get a session, an old session can survive a
  password change, a rejected share can end up accepted, and two refreshes that
  overlap exchange one refresh token for two, which `docs/server_spec.md:160` and
  `test_refresh_reuse_rejected` exclude for refreshes in turn.
* A device that is back before the server has removed its old socket gets a message that
  is being sent on both, since `connect` appends to the list `send_to_user` iterates over
  (`ws/manager.py:33-35`).
* An unregistration deletes the file tree it has loaded by row ids
  (`api/repos.py:170-172`).  With SQLite a push meanwhile may have given them to its own
  snapshot, of the same repository or of another: then a part of a tree goes, and its
  `total_files` stays.
* A revision that another push stores meanwhile is answered with an error, where one that
  was stored before is acknowledged (`api/sync.py:40`).
* An accept or reject that waits in `send_to_user` while its recipient is deleted, by
  `delete_share`, `leave_share` or an administrator, and the row id is given to a recipient of
  another share, is stored as that one's answer (`api/shares.py:321`, `371`); the
  notification goes to the old creator, and the accepting client is told it has joined.
* `update_repo` sets any group (`api/repos.py:144`), also one that does not exist, which
  `register_repo` refuses, but for group id 0, which it does not look for
  (`api/repos.py:97`) and stores; and a group that is being deleted takes a repository that is
  moved to another one out of that as well.
* An older revision pushed late replaces the file tree that `db/models.py:165`
  calls the current one.
* A preview may be newer than the revision it is cached under, since the request to the
  owner names none.  Before the first push that revision is 0.
* Nobody checks the revision a client asks for or pushes under (`api/proxy.py:57`, `119`).
  Asked for one the repository does not have yet, the owner's current preview is cached
  under it, and served as that revision when there is one.
* `a/b` and `a_b` share a cache file, and whoever asks for one may get
  the other.
* Two saves of one preview may leave a file mixed of both, which later hits send.
  A failed writing, commit or removal, and a clean-up during a save can leave a file
  without a row.
* No relationship ties `preview_cache_meta` to its repository: the rows
  survive the repository although `db/models.py:193` declares `ondelete=CASCADE`, and
  with SQLite the next repository of that id inherits them.
* `create_share` and `create_approval` keep SQLite locked while they wait for a
  client, and a handler on the event loop that writes meanwhile waits for the busy
  timeout and fails.  Requests that wait for the loop keep connections it may wait
  for; then one or more fail after 30 seconds in which the server answers nobody.
* `main.py:53` runs `cache_cleanup` and `log_archive` in one `try`: a failure of the
  first skips the second for a day.  The day is counted from the start of the
  process.

## 5. Proofs

The theorems hold for any users, sockets, shares, requests and revisions, from
the named assumptions on the constants alone (they type the constants and keep
the special values apart; TLC evaluates them on every run).

* `ApprovalsProofs`.  `ApprovedByEveryRow` is not inductive: a suspended
  handler has decided already.  The invariant adds that a handler about to write
  "approved" has seen an approval of every other row, and approvals stored are
  never removed.  `VotesAndNoticesTogether` adds that a row voted on when it was
  loaded is still voted on at the commit, because `Flush` then skips its column.
  The theorems about handlers that have not overlapped rest on `Fresh`: the
  only suspended handler holds what the database holds, so its commit has the
  effect of a handler that never waited.
* `ManagerProofs`, about the three modules of `ws/manager.py`.
  Of the registry, `FanOutInv` says of every running fan-out that the sockets
  it owes are healthy, that each of them has the message or is on the list, and
  that, while it has the dictionary's list, whoever has the message is
  registered.  The last part is what makes an appended socket one that has not got the
  message, and is half of `OncePerSocket`; whose socket it is the registry cannot tell.
  Of the file requests, `AskInv` relates the four places a request shows in:
  its future, its fan-out, the devices told and its reply.  `RequestsAskOwner`
  maps each step to one of `AskOwner` or to a stutter.
  Of the relay, every step is a step of the registry or leaves
  it alone (`RelayUsesConnections`).  `ProviderConnected` is inductive with
  it.  For `ProviderIsCreator` and `SessionWithCreator`, `UniqueIds` is assumed
  and `KnownIds` added: nothing is remembered of an id not given out yet.
* `RegistryProofs`, about `Registry` and `RepoSync`, the two sides of a repository.
  Of the commits, `OnlyPushed` holds in every
  interleaving because what a push or an unregistration has loaded is a part of
  the log it was loaded from, and an unregistration that takes a revision from the log has
  loaded all rows of the tree that came with it (the log is loaded first); deleting
  further rows by their ids leaves the rest of one push.  The theorems about handlers
  that have not overlapped rest on `LoadedIsCurrent`, as in the approvals.
  Of the references, `ReferencesExist` needs what the running handlers have seen.
  `KnownInv` says that the references a handler is to add exist or are in `raced`, `ApartInv`
  that what one handler adds and another takes away is in `raced`, and `LoadedInv` that the
  rows a deletion has loaded are all that refer to what it deletes (`Complete`, but for
  `raced`) and are of nobody else (`Precise`, but for `recycled` and `regrouped`).  All three are stated
  over the running handlers and not the threads, and forgetting is sound because an
  entry of `raced` goes only when nobody refers to its id any more.
  `NothingElseRemoved` follows from `Precise`.
* `PresenceProofs`.  `ConnectedIsOnline` adds that until writers overlap whoever
  works does so alone and on the flag that is stored, since its UPDATE leaves
  the flag out if it loaded the same value; that a socket in its handler's hands
  belongs to what the event loop is doing; and that the flag is cleared only after
  the last socket.
* `EventLoopProofs`.  `LoopInv` says what each request does next (`Due`): who holds
  the lock is about to commit, and nobody else is; who is about to write or to commit
  holds a connection.  That needs to be known of every point at which a request of any kind
  may be (`Rests`, `OpLists`, `Fits`), among them that `Suspended`, what is left of
  `create_share` or `create_approval` at its `await`, is the only one between two segments
  that begins with a commit.  `HaltsAreTheKnown` follows: a request that runs and cannot
  go on waits for a connection or the lock; if for the lock, its holder is
  not running, so it is at that `await`, and it is not taken up only because the loop is busy, with
  a request that waits for the lock.  If nobody runs, the loop and a thread are free.
* `AuthSessionsProofs`.  `FailuresWithinBound` counts with `LockoutInv` the
  handlers that may still record a failure: with the failures recorded they stay
  below the limit plus the number of threads, since at the last count there was
  room for one.  The theorems about handlers that have not overlapped rest on `OneTask`,
  what the only handler has read still holds, and on `UsedAreGone`, a token
  refreshed or logged out has no row.
* `PreviewCacheProofs`.  `CacheHoldsWhatWasAsked` adds with `Recent` that whoever
  waits or writes has a revision not older than its key's, or a preview marked as misnamed.  `FilesHaveOwners` adds
  `Tidy`, which holds while `disturbed` is below 2: clean-up and handlers keep
  apart, so a row a handler has seen is still there, and a file clean-up has not
  removed still has its row.  `NoSurprises` adds `Alone`, which holds while it is 0:
  only the file being written is torn, and what the handler at work has read holds.
* `SharesProofs`.  `HeldInv` says what a suspended handler holds: it has loaded every row of
  its share and user that exists (`HoldsAll`), a user has at most one row of a share
  (`OneRow`), at most one handler is between two statements without giving up the loop
  (`OneRuns`), and the rows under that one's ids are those it has loaded, or gone
  (`HoldsOwn`): only the administrator's thread runs beside it, and that creates nothing.
  A handler suspended at its await has no such guarantee, so an answer may go to another's
  row; `mixedUp` records it.  `StoredInv` adds that every other stored answer is the last
  notice sent.  `JoinedInv` adds `DeletingKnows` for `NobodyLeftBehind`: the recipients
  `delete_share` remembers as accepted are still all who are, unless an administrator came
  first.  `SerialInv` adds that handlers which never overlapped see the rows as stored.

A proof cites the assumption of the module it is about and no other, also where a
module of proofs extends two.

The type invariants are proved where the theorems need them, and left out of the runs but
for that of `EventLoop`, which says more than the shape of the values: no more connections
are taken than the pool has.

Only model-checked: liveness (`HandlersReturn`, both `RequestsEnd`,
`StaleGoesOffline`, `HeartbeatsKeepOnline`), which needs reasoning about fairness
that the prover does not do.  Every other property of a passing run is a theorem.
Only proved, and checked by no
run here: `LastNoticeIsVerdict` of the approvals.  No module uses recursion or needs induction over data.

## 6. Plan

`Shares` with `SvnRelay`: the relay under the full life cycle of shares.  The two
already share what matters, ids that are given out again; composed, they would show
which sessions survive a revocation.

## 7. Not modelled

Hashing, JWT encoding and decoding, JSON and base64; the listing and statistics
handlers, which change nothing; `broadcast`, which nobody calls; the activity
log; `update_share`, and `GET /shares/public`, which only reads (its expiry compares
a stored time without time zone with one that has it); start-up, configuration, migration and seed scripts; TLS, CORS and the
transport.  Times are only ordered where a timer matters.
