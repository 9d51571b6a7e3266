---------------------------- MODULE AuthSessions ----------------------------
(***************************************************************************)
(* Sessions of one account: login with its lockout, refresh with rotation, *)
(* logout and password change (api/auth.py), the administrator's password  *)
(* reset and status change (api/users.py), and the clean-up job.           *)
(*                                                                         *)
(* The handlers are plain functions and run in threads.  A SELECT shows    *)
(* the latest commit and locks nothing; the writes of a transaction are    *)
(* one step, because they hold the write lock.  What a handler has read    *)
(* and will act on is its task.  A row is deleted by its primary key; if   *)
(* it is gone, SQLAlchemy warns and goes on, but SQLite may have given its *)
(* id to a new row, which then goes.                                       *)
(***************************************************************************)
EXTENDS Integers, FiniteSets

CONSTANTS
  Threads,      \* handlers that run at the same time
  Tokens,       \* bound: refresh tokens the server can draw
  MaxFailures,  \* settings.auth.login_max_attempts
  MaxChanges,   \* bound: password changes and resets
  MaxId,        \* bound: sessions.id
  ReuseIds,     \* does the database give ids of deleted rows out again?
  None          \* no task, no token

Passwords == 0..MaxChanges
Ids == 1..MaxId
Stages == {"counted", "refused", "verified", "found", "checked", "leaving", "changing"}
Tasks == [at : Stages, token : Tokens \cup {None}, password : Passwords]

ASSUME AuthAssumption ==
  /\ IsFiniteSet(Threads) /\ Threads # {}
  /\ MaxFailures \in Nat \ {0}
  /\ MaxChanges \in Nat
  /\ MaxId \in Nat \ {0}
  /\ None \notin Tokens \cup Tasks

VARIABLES
  password,   \* the password behind users.password_hash, by its number
  active,     \* users.status = "active"
  session,    \* per token: not drawn, a row (live or past expires_at), or gone
  rowId,      \* per token: the id its row has or had
  issuedFor,  \* per token: the password its first login gave
  parent,     \* history, per token: the token it was rotated from
  loggedOut,  \* history: tokens whose logout found their session
  failures,   \* failed login_attempts in the lockout window
  task,       \* what each thread's handler holds
  overlapped  \* history: a handler has started while another was running

vars == <<password, active, session, rowId, issuedFor, parent, loggedOut, failures, task,
          overlapped>>

TypeOK ==
  /\ password \in Passwords
  /\ active \in BOOLEAN
  /\ session \in [Tokens -> {"unissued", "live", "expired", "gone"}]
  /\ rowId \in [Tokens -> Ids]
  /\ issuedFor \in [Tokens -> Passwords]
  /\ parent \in [Tokens -> Tokens \cup {None}]
  /\ loggedOut \subseteq Tokens
  /\ failures \in Nat
  /\ task \in [Threads -> Tasks \cup {None}]
  /\ overlapped \in BOOLEAN

Init ==
  /\ password = 0
  /\ active = TRUE
  /\ session = [k \in Tokens |-> "unissued"]
  /\ rowId = [k \in Tokens |-> 1]
  /\ issuedFor = [k \in Tokens |-> 0]
  /\ parent = [k \in Tokens |-> None]
  /\ loggedOut = {}
  /\ failures = 0
  /\ task = [t \in Threads |-> None]
  /\ overlapped = FALSE

\* The sessions table has a row for the token.
HasRow(k) == session[k] \in {"live", "expired"}

\* A handler or job starts.
Starts == overlapped' = (overlapped \/ \E t \in Threads : task[t] # None)

At(t, stage) == task[t] # None /\ task[t].at = stage

\* The thread's handler goes on to a stage, or ends.
Proceed(t, stage, k, p) ==
  task' = [task EXCEPT ![t] = [at |-> stage, token |-> k, password |-> p]]
End(t) == task' = [task EXCEPT ![t] = None]

\* The id of the next row, when the rows are those of s: sessions of other
\* users may have taken some.
NewIds(s) ==
  {i \in Ids : \A k \in Tokens :
     (IF ReuseIds THEN s[k] \in {"live", "expired"} ELSE s[k] # "unissued") => rowId[k] < i}

\* DELETE of the session row a handler has loaded.
Deleted(k) ==
  [j \in Tokens |-> IF HasRow(j) /\ rowId[j] = rowId[k] THEN "gone" ELSE session[j]]

\* DELETE of every session row of the user.
AllDeleted == [k \in Tokens |-> IF HasRow(k) THEN "gone" ELSE session[k]]

-----------------------------------------------------------------------------
(***************************************************************************)
(* Mutants, not used by the specification.                                 *)
(***************************************************************************)
\* An off-by-one in the lockout.
CountOneMore(t) ==
  /\ task[t] = None /\ failures <= MaxFailures
  /\ Starts /\ Proceed(t, "counted", None, 0)
  /\ UNCHANGED <<password, active, session, rowId, issuedFor, parent, loggedOut, failures>>

\* The old session outlives the rotation.
RotateKeepingOld(t) ==
  /\ At(t, "checked")
  /\ \E n \in Tokens :
       /\ session[n] = "unissued"
       /\ session' = [session EXCEPT ![n] = "live"]
       /\ \E i \in NewIds(session) : rowId' = [rowId EXCEPT ![n] = i]
       /\ issuedFor' = [issuedFor EXCEPT ![n] = issuedFor[task[t].token]]
       /\ parent' = [parent EXCEPT ![n] = task[t].token]
  /\ End(t)
  /\ UNCHANGED <<password, active, loggedOut, failures, overlapped>>

\* A login that looks at the password only.
VerifyPasswordOnly(t, p) ==
  /\ At(t, "counted")
  /\ Proceed(t, IF p = password THEN "verified" ELSE "refused", None, p)
  /\ UNCHANGED <<password, active, session, rowId, issuedFor, parent, loggedOut, failures, overlapped>>

\* A reset that leaves the sessions alone.
ResetPasswordOnly ==
  /\ password < MaxChanges
  /\ password' = password + 1
  /\ Starts
  /\ UNCHANGED <<active, session, rowId, issuedFor, parent, loggedOut, failures, task>>

-----------------------------------------------------------------------------
(***************************************************************************)
(* POST /auth/login                                                        *)
(***************************************************************************)
\* Too few failures for the answer 429.
LoginCount(t) ==
  /\ task[t] = None /\ failures < MaxFailures
  /\ Starts /\ Proceed(t, "counted", None, 0)
  /\ UNCHANGED <<password, active, session, rowId, issuedFor, parent, loggedOut, failures>>

\* The user row is read and password p verified; an inactive user gets a 403.
LoginVerify(t, p) ==
  /\ At(t, "counted")
  /\ \/ p # password /\ Proceed(t, "refused", None, p)
     \/ p = password /\ active /\ Proceed(t, "verified", None, p)
     \/ p = password /\ ~active /\ End(t)
  /\ UNCHANGED <<password, active, session, rowId, issuedFor, parent, loggedOut, failures, overlapped>>

\* The failed attempt is recorded: 401.
LoginFail(t) ==
  /\ At(t, "refused")
  /\ failures' = failures + 1
  /\ End(t)
  /\ UNCHANGED <<password, active, session, rowId, issuedFor, parent, loggedOut, overlapped>>

\* A fresh token, its session row inserted.
LoginSucceed(t) ==
  /\ At(t, "verified")
  /\ \E n \in Tokens :
       /\ session[n] = "unissued"
       /\ session' = [session EXCEPT ![n] = "live"]
       /\ \E i \in NewIds(session) : rowId' = [rowId EXCEPT ![n] = i]
       /\ issuedFor' = [issuedFor EXCEPT ![n] = task[t].password]
  /\ End(t)
  /\ UNCHANGED <<password, active, parent, loggedOut, failures, overlapped>>

(***************************************************************************)
(* POST /auth/refresh                                                      *)
(***************************************************************************)
\* The session row is found; an expired one is deleted: 401.
RefreshFind(t, k) ==
  /\ task[t] = None /\ HasRow(k)
  /\ Starts
  /\ \/ session[k] = "live" /\ Proceed(t, "found", k, 0) /\ UNCHANGED session
     \/ session[k] = "expired" /\ UNCHANGED task
        /\ session' = Deleted(k)
  /\ UNCHANGED <<password, active, rowId, issuedFor, parent, loggedOut, failures>>

\* The user is loaded; without an active one the session is deleted: 401.
RefreshCheckUser(t) ==
  /\ At(t, "found")
  /\ \/ active /\ Proceed(t, "checked", task[t].token, 0) /\ UNCHANGED session
     \/ ~active /\ End(t)
        /\ session' = Deleted(task[t].token)
  /\ UNCHANGED <<password, active, rowId, issuedFor, parent, loggedOut, failures, overlapped>>

\* The rotation: old row deleted, new row inserted, one commit.
RefreshCommit(t) ==
  /\ At(t, "checked")
  /\ \E n \in Tokens :
       /\ session[n] = "unissued"
       /\ session' = [Deleted(task[t].token) EXCEPT ![n] = "live"]
       /\ \E i \in NewIds(Deleted(task[t].token)) : rowId' = [rowId EXCEPT ![n] = i]
       /\ issuedFor' = [issuedFor EXCEPT ![n] = issuedFor[task[t].token]]
       /\ parent' = [parent EXCEPT ![n] = task[t].token]
  /\ End(t)
  /\ UNCHANGED <<password, active, loggedOut, failures, overlapped>>

(***************************************************************************)
(* POST /auth/logout                                                       *)
(***************************************************************************)
LogoutFind(t, k) ==
  /\ task[t] = None /\ HasRow(k)
  /\ Starts /\ Proceed(t, "leaving", k, 0)
  /\ UNCHANGED <<password, active, session, rowId, issuedFor, parent, loggedOut, failures>>

LogoutCommit(t) ==
  /\ At(t, "leaving")
  /\ session' = Deleted(task[t].token)
  /\ loggedOut' = loggedOut \cup {task[t].token}
  /\ End(t)
  /\ UNCHANGED <<password, active, rowId, issuedFor, parent, failures, overlapped>>

(***************************************************************************)
(* Password and status                                                     *)
(***************************************************************************)
\* POST /auth/password-change by somebody who has been logged in: the access
\* token outlives the session, and the current password is right.
ChangeVerify(t) ==
  /\ task[t] = None /\ active
  /\ \E k \in Tokens : session[k] # "unissued"
  /\ Starts /\ Proceed(t, "changing", None, password)
  /\ UNCHANGED <<password, active, session, rowId, issuedFor, parent, loggedOut, failures>>

\* The new hash and the deletion of all sessions are one commit.
ChangeCommit(t) ==
  /\ At(t, "changing") /\ password < MaxChanges
  /\ password' = password + 1
  /\ session' = AllDeleted
  /\ End(t)
  /\ UNCHANGED <<active, rowId, issuedFor, parent, loggedOut, failures, overlapped>>

\* POST /users/{id}/password-reset
AdminReset ==
  /\ password < MaxChanges
  /\ password' = password + 1
  /\ session' = AllDeleted
  /\ Starts
  /\ UNCHANGED <<active, rowId, issuedFor, parent, loggedOut, failures, task>>

\* POST /admin/users/{id}/force-logout.
ForceLogout ==
  /\ session' = AllDeleted
  /\ Starts
  /\ UNCHANGED <<password, active, rowId, issuedFor, parent, loggedOut, failures, task>>

\* PUT /users/{id} with a status, by an administrator.
UpdateStatus ==
  /\ active' = ~active
  /\ Starts
  /\ UNCHANGED <<password, session, rowId, issuedFor, parent, loggedOut, failures, task>>

\* A commit that raises (the database stayed locked): nothing is stored.
CommitFails(t) ==
  /\ task[t] # None
  /\ task[t].at \in {"refused", "verified", "checked", "leaving", "changing"}
  /\ End(t)
  /\ UNCHANGED <<password, active, session, rowId, issuedFor, parent, loggedOut, failures, overlapped>>

(***************************************************************************)
(* Time and the scheduler                                                  *)
(***************************************************************************)
Expire(k) ==
  /\ session[k] = "live"
  /\ session' = [session EXCEPT ![k] = "expired"]
  /\ UNCHANGED <<password, active, rowId, issuedFor, parent, loggedOut, failures, task, overlapped>>

\* The oldest failure leaves the window of login_lockout_minutes.
FailureAges ==
  /\ failures > 0
  /\ failures' = failures - 1
  /\ UNCHANGED <<password, active, session, rowId, issuedFor, parent, loggedOut, task, overlapped>>

\* session_cleanup deletes what has expired.
SessionCleanup ==
  /\ \E k \in Tokens : session[k] = "expired"
  /\ session' = [k \in Tokens |-> IF session[k] = "expired" THEN "gone" ELSE session[k]]
  /\ Starts
  /\ UNCHANGED <<password, active, rowId, issuedFor, parent, loggedOut, failures, task>>

Login(t) == LoginCount(t) \/ (\E p \in Passwords : LoginVerify(t, p))
            \/ LoginFail(t) \/ LoginSucceed(t)
Refresh(t) == (\E k \in Tokens : RefreshFind(t, k)) \/ RefreshCheckUser(t) \/ RefreshCommit(t)
Logout(t) == (\E k \in Tokens : LogoutFind(t, k)) \/ LogoutCommit(t)
ChangePassword(t) == ChangeVerify(t) \/ ChangeCommit(t)

Next ==
  \/ \E t \in Threads :
       Login(t) \/ Refresh(t) \/ Logout(t) \/ ChangePassword(t) \/ CommitFails(t)
  \/ AdminReset \/ ForceLogout \/ UpdateStatus
  \/ \E k \in Tokens : Expire(k)
  \/ FailureAges \/ SessionCleanup

Spec == Init /\ [][Next]_vars

-----------------------------------------------------------------------------
(***************************************************************************)
(* Properties.  Some hold as long as no two handlers have overlapped.      *)
(***************************************************************************)
\* The lockout counts before it verifies, so attempts that overlap may exceed
\* the limit, but by no more than the other handlers running.
FailuresBounded ==
  failures <= MaxFailures + (IF overlapped THEN Cardinality(Threads) - 1 ELSE 0)

\* test_auth.py, test_refresh_reuse_rejected: a refresh token is exchanged for
\* one other token.
RotationOnce ==
  \A m, n \in Tokens : m # n /\ parent[m] # None => parent[m] # parent[n]

\* Without overlap a token is used once, by a refresh or by a logout.
TokensUsedOnce ==
  ~overlapped => RotationOnce /\ \A n \in Tokens : parent[n] \notin loggedOut

\* Without overlap every session goes back to a login with the current
\* password: a change or reset ends all sessions and all chains of refreshes.
SessionsOfPassword ==
  ~overlapped => \A k \in Tokens : HasRow(k) => issuedFor[k] = password

\* Without overlap an inactive account gets no session, by a login or by a
\* refresh: the status read is the one the commit acts under.
InactiveGetsNothing ==
  [][~overlapped' /\ ~active =>
       \A k \in Tokens : session'[k] = "live" => session[k] = "live"]_vars

=============================================================================
