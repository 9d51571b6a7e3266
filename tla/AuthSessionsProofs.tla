------------------------- MODULE AuthSessionsProofs -------------------------
(***************************************************************************)
(* Proofs about AuthSessions, for any number of threads, tokens, password  *)
(* changes and failures: types, the bound on recorded failures under every *)
(* overlap, and what holds as long as no two handlers have overlapped.     *)
(***************************************************************************)
EXTENDS AuthSessions, FiniteSetTheorems, TLAPS

\* A task that a handler stores is well typed.
LEMMA ProceedTyped ==
  ASSUME TypeOK, NEW t \in Threads, NEW s \in Stages,
         NEW k \in Tokens \cup {None}, NEW p \in Passwords, Proceed(t, s, k, p)
  PROVE  task' \in [Threads -> Tasks \cup {None}]
  <1>1. [at |-> s, token |-> k, password |-> p] \in Tasks
    BY DEF Tasks
  <1> QED  BY <1>1 DEF TypeOK, Proceed

LEMMA EndTyped ==
  ASSUME TypeOK, NEW t \in Threads, End(t)
  PROVE  task' \in [Threads -> Tasks \cup {None}]
  BY DEF TypeOK, End

LEMMA TaskFields ==
  ASSUME TypeOK, NEW t \in Threads, task[t] # None
  PROVE  task[t].at \in Stages /\ task[t].token \in Tokens \cup {None}
         /\ task[t].password \in Passwords
  <1>1. task[t] \in Tasks
    BY DEF TypeOK
  <1> QED  BY <1>1 DEF Tasks

LEMMA Zero == 0 \in Passwords
  BY AuthAssumption DEF Passwords

LEMMA NextPassword ==
  ASSUME password \in Passwords, password < MaxChanges
  PROVE  password + 1 \in Passwords
  BY AuthAssumption DEF Passwords

\* Handlers that have found a session know its token.
TokensKnown ==
  \A t \in Threads :
    At(t, "found") \/ At(t, "checked") \/ At(t, "leaving") => task[t].token \in Tokens

AuthTyped == TypeOK /\ TokensKnown

LEMMA InitTyped == Init => AuthTyped
  <1> SUFFICES ASSUME Init PROVE AuthTyped
    OBVIOUS
  <1>1. /\ password \in Passwords /\ issuedFor \in [Tokens -> Passwords]
    BY Zero DEF Init
  <1>5. rowId \in [Tokens -> Ids]
    BY AuthAssumption DEF Init, Ids
  <1>2. /\ active \in BOOLEAN /\ overlapped \in BOOLEAN
    BY DEF Init
  <1>3. /\ session \in [Tokens -> {"unissued", "live", "expired", "gone"}]
        /\ parent \in [Tokens -> Tokens \cup {None}]
        /\ loggedOut \subseteq Tokens /\ failures \in Nat
        /\ task \in [Threads -> Tasks \cup {None}]
    BY DEF Init
  <1>4. TokensKnown
    BY DEF Init, TokensKnown, At
  <1> QED  BY <1>1, <1>2, <1>3, <1>4, <1>5 DEF AuthTyped, TypeOK

\* A deleted session is gone, and no session comes with a deletion.
LEMMA DeletedSessions ==
  ASSUME TypeOK, NEW k \in Tokens
  PROVE  /\ Deleted(k) \in [Tokens -> {"unissued", "live", "expired", "gone"}]
         /\ \A j \in Tokens : Deleted(k)[j] = session[j]
                              \/ (HasRow(j) /\ Deleted(k)[j] = "gone")
         /\ HasRow(k) => Deleted(k)[k] = "gone"
  BY DEF TypeOK, Deleted

\* A step of one thread leaves the tasks of the others alone.
LEMMA EndTask ==
  ASSUME TypeOK, NEW t \in Threads, End(t)
  PROVE  task'[t] = None /\ \A s \in Threads \ {t} : task'[s] = task[s]
  BY DEF TypeOK, End

LEMMA ProceedTask ==
  ASSUME TypeOK, NEW t \in Threads, NEW a, NEW k, NEW p, Proceed(t, a, k, p)
  PROVE  /\ task'[t] = [at |-> a, token |-> k, password |-> p]
         /\ \A s \in Threads \ {t} : task'[s] = task[s]
  BY DEF TypeOK, Proceed

LEMMA EndKnown ==
  ASSUME AuthTyped, NEW t \in Threads, End(t)
  PROVE  TokensKnown'
  BY EndTask DEF AuthTyped, TokensKnown, At

LEMMA ProceedKnown ==
  ASSUME AuthTyped, NEW t \in Threads, NEW a, NEW k, NEW p, Proceed(t, a, k, p),
         a \in {"found", "checked", "leaving"} => k \in Tokens
  PROVE  TokensKnown'
  <1>1. /\ task'[t] = [at |-> a, token |-> k, password |-> p]
        /\ \A s \in Threads \ {t} : task'[s] = task[s]
    BY ProceedTask DEF AuthTyped
  <1>2. task'[t].at = a /\ task'[t].token = k
    BY <1>1
  <1> SUFFICES ASSUME NEW s \in Threads,
                      At(s, "found")' \/ At(s, "checked")' \/ At(s, "leaving")'
               PROVE  task'[s].token \in Tokens
    BY DEF TokensKnown
  <1>3. CASE s = t
    BY <1>2, <1>3 DEF At
  <1>4. CASE s # t
    BY <1>1, <1>4 DEF AuthTyped, TokensKnown, At
  <1> QED  BY <1>3, <1>4

LEMMA NextTyped == AuthTyped /\ [Next]_vars => AuthTyped'
  <1> SUFFICES ASSUME AuthTyped, [Next]_vars PROVE AuthTyped'
    OBVIOUS
  <1>0. TypeOK /\ TokensKnown
    BY DEF AuthTyped
  <1>1. Starts => overlapped' \in BOOLEAN
    BY DEF Starts
  <1>2. ASSUME NEW t \in Threads, LoginCount(t) PROVE AuthTyped'
    <2>1. Proceed(t, "counted", None, 0) /\ Starts
          /\ UNCHANGED <<password, active, session, rowId, issuedFor, parent, loggedOut, failures>>
      BY <1>2 DEF LoginCount
    <2>2. task' \in [Threads -> Tasks \cup {None}]
      BY <1>0, <2>1, Zero, ProceedTyped DEF Stages
    <2>3. TokensKnown'
      BY <2>1, ProceedKnown
    <2> QED  BY <1>0, <1>1, <2>1, <2>2, <2>3 DEF AuthTyped, TypeOK
  <1>3. ASSUME NEW t \in Threads, NEW p \in Passwords, LoginVerify(t, p)
        PROVE  AuthTyped'
    <2>1. UNCHANGED <<password, active, session, rowId, issuedFor, parent, loggedOut, failures, overlapped>>
      BY <1>3 DEF LoginVerify
    <2>2. \/ \E a \in {"refused", "verified"} : Proceed(t, a, None, p)
          \/ End(t)
      BY <1>3 DEF LoginVerify
    <2>3. CASE End(t)
      BY <1>0, <2>1, <2>3, EndTyped, EndKnown DEF AuthTyped, TypeOK
    <2>4. CASE \E a \in {"refused", "verified"} : Proceed(t, a, None, p)
      <3>1. PICK a \in {"refused", "verified"} : Proceed(t, a, None, p)
        BY <2>4
      <3>2. task' \in [Threads -> Tasks \cup {None}]
        BY <1>0, <3>1, ProceedTyped DEF Stages
      <3>3. TokensKnown'
        BY <3>1, ProceedKnown
      <3> QED  BY <1>0, <2>1, <3>2, <3>3 DEF AuthTyped, TypeOK
    <2> QED  BY <2>2, <2>3, <2>4
  <1>4. ASSUME NEW t \in Threads, LoginFail(t) PROVE AuthTyped'
    BY <1>0, <1>4, EndTyped, EndKnown DEF LoginFail, AuthTyped, TypeOK
  <1>5. ASSUME NEW t \in Threads, LoginSucceed(t) PROVE AuthTyped'
    <2>1. task[t].password \in Passwords
      BY <1>0, <1>5, TaskFields DEF LoginSucceed, At
    <2>2. rowId' \in [Tokens -> Ids]
      BY <1>0, <1>5 DEF LoginSucceed, NewIds, TypeOK
    <2> QED  BY <1>0, <1>5, <2>1, <2>2, EndTyped, EndKnown DEF LoginSucceed, AuthTyped, TypeOK
  <1>6. ASSUME NEW t \in Threads, NEW k \in Tokens, RefreshFind(t, k) PROVE AuthTyped'
    <2>1. CASE Proceed(t, "found", k, 0) /\ UNCHANGED session
      <3>1. task' \in [Threads -> Tasks \cup {None}]
        BY <1>0, <2>1, Zero, ProceedTyped DEF Stages
      <3>2. TokensKnown'
        BY <2>1, ProceedKnown
      <3> QED  BY <1>0, <1>1, <1>6, <2>1, <3>1, <3>2 DEF RefreshFind, AuthTyped, TypeOK
    <2>2. CASE UNCHANGED task /\ session' = Deleted(k)
      BY <1>0, <1>1, <1>6, <2>2, DeletedSessions
         DEF RefreshFind, AuthTyped, TypeOK, TokensKnown, At
    <2> QED  BY <1>6, <2>1, <2>2 DEF RefreshFind
  <1>7. ASSUME NEW t \in Threads, RefreshCheckUser(t) PROVE AuthTyped'
    <2>0. task[t].token \in Tokens
      BY <1>0, <1>7 DEF RefreshCheckUser, TokensKnown
    <2>1. CASE Proceed(t, "checked", task[t].token, 0) /\ UNCHANGED session
      <3>1. task' \in [Threads -> Tasks \cup {None}]
        BY <1>0, <2>0, <2>1, Zero, ProceedTyped DEF Stages
      <3>2. TokensKnown'
        BY <2>0, <2>1, ProceedKnown
      <3> QED  BY <1>0, <1>7, <2>1, <3>1, <3>2 DEF RefreshCheckUser, AuthTyped, TypeOK
    <2>2. CASE End(t) /\ session' = Deleted(task[t].token)
      BY <1>0, <1>7, <2>0, <2>2, DeletedSessions, EndTyped, EndKnown DEF RefreshCheckUser, AuthTyped, TypeOK
    <2> QED  BY <1>7, <2>1, <2>2 DEF RefreshCheckUser
  <1>8. ASSUME NEW t \in Threads, RefreshCommit(t) PROVE AuthTyped'
    <2>1. task[t].token \in Tokens
      BY <1>0, <1>8 DEF RefreshCommit, TokensKnown
    <2>2. session' \in [Tokens -> {"unissued", "live", "expired", "gone"}]
      BY <1>0, <1>8, <2>1, DeletedSessions DEF RefreshCommit
    <2>3. rowId' \in [Tokens -> Ids]
      BY <1>0, <1>8 DEF RefreshCommit, NewIds, TypeOK
    <2> QED  BY <1>0, <1>8, <2>1, <2>2, <2>3, EndTyped, EndKnown DEF RefreshCommit, AuthTyped, TypeOK
  <1>9. ASSUME NEW t \in Threads, NEW k \in Tokens, LogoutFind(t, k) PROVE AuthTyped'
    <2>1. Proceed(t, "leaving", k, 0) /\ Starts
      BY <1>9 DEF LogoutFind
    <2>2. task' \in [Threads -> Tasks \cup {None}]
      BY <1>0, <2>1, Zero, ProceedTyped DEF Stages
    <2>3. TokensKnown'
      BY <2>1, ProceedKnown
    <2> QED  BY <1>0, <1>1, <1>9, <2>1, <2>2, <2>3 DEF LogoutFind, AuthTyped, TypeOK
  <1>10. ASSUME NEW t \in Threads, LogoutCommit(t) PROVE AuthTyped'
    <2>1. task[t].token \in Tokens
      BY <1>0, <1>10 DEF LogoutCommit, TokensKnown
    <2> QED  BY <1>0, <1>10, <2>1, DeletedSessions, EndTyped, EndKnown DEF LogoutCommit, AuthTyped, TypeOK
  <1>11. ASSUME NEW t \in Threads, ChangeVerify(t) PROVE AuthTyped'
    <2>1. Proceed(t, "changing", None, password) /\ Starts
      BY <1>11 DEF ChangeVerify
    <2>2. task' \in [Threads -> Tasks \cup {None}]
      BY <1>0, <2>1, ProceedTyped DEF Stages, TypeOK
    <2>3. TokensKnown'
      BY <2>1, ProceedKnown
    <2> QED  BY <1>0, <1>1, <1>11, <2>1, <2>2, <2>3 DEF ChangeVerify, AuthTyped, TypeOK
  <1>12. AllDeleted \in [Tokens -> {"unissued", "live", "expired", "gone"}]
    BY <1>0 DEF AllDeleted, TypeOK
  <1>13. ASSUME NEW t \in Threads, ChangeCommit(t) PROVE AuthTyped'
    <2>1. password' \in Passwords
      BY <1>0, <1>13, NextPassword DEF ChangeCommit, TypeOK
    <2> QED  BY <1>0, <1>12, <1>13, <2>1, EndTyped, EndKnown
             DEF ChangeCommit, AuthTyped, TypeOK
  <1>14. ASSUME NEW t \in Threads, CommitFails(t) PROVE AuthTyped'
    BY <1>0, <1>14, EndTyped, EndKnown DEF CommitFails, AuthTyped, TypeOK
  <1>15. ASSUME AdminReset PROVE AuthTyped'
    <2>1. password' \in Passwords
      BY <1>0, <1>15, NextPassword DEF AdminReset, TypeOK
    <2> QED  BY <1>0, <1>1, <1>12, <1>15, <2>1
             DEF AdminReset, AuthTyped, TypeOK, TokensKnown, At
  <1>15a. ASSUME ForceLogout PROVE AuthTyped'
    BY <1>0, <1>1, <1>12, <1>15a DEF ForceLogout, AuthTyped, TypeOK, TokensKnown, At
  <1>16. ASSUME UpdateStatus PROVE AuthTyped'
    BY <1>0, <1>1, <1>16 DEF UpdateStatus, AuthTyped, TypeOK, TokensKnown, At
  <1>17. ASSUME (\E k \in Tokens : Expire(k)) \/ SessionCleanup PROVE AuthTyped'
    <2>1. /\ UNCHANGED <<password, active, rowId, issuedFor, parent, loggedOut, failures, task>>
          /\ overlapped' \in BOOLEAN
      BY <1>0, <1>1, <1>17 DEF Expire, SessionCleanup, TypeOK
    <2>2. session' \in [Tokens -> {"unissued", "live", "expired", "gone"}]
      BY <1>0, <1>17 DEF Expire, SessionCleanup, TypeOK
    <2> QED  BY <1>0, <2>1, <2>2 DEF AuthTyped, TypeOK, TokensKnown, At
  <1>18. ASSUME FailureAges PROVE AuthTyped'
    BY <1>0, <1>18 DEF FailureAges, AuthTyped, TypeOK, TokensKnown, At
  <1>19. CASE UNCHANGED vars
    BY <1>0, <1>19 DEF vars, AuthTyped, TypeOK, TokensKnown, At
  <1> QED  BY <1>2, <1>3, <1>4, <1>5, <1>6, <1>7, <1>8, <1>9, <1>10, <1>11, <1>13,
              <1>14, <1>15, <1>15a, <1>16, <1>17, <1>18, <1>19
           DEF Next, Login, Refresh, Logout, ChangePassword

\* The account, its sessions and the running handlers keep their types.
THEOREM AuthTypeCorrect == Spec => []TypeOK
  <1>1. AuthTyped => TypeOK
    BY DEF AuthTyped
  <1> QED  BY InitTyped, NextTyped, <1>1, PTL DEF Spec

-----------------------------------------------------------------------------
(***************************************************************************)
(* Recorded failures under every overlap.  A handler that has counted the  *)
(* failures may still record one: together they stay below the limit plus  *)
(* the number of threads, since at the last count they were below it.      *)
(***************************************************************************)
Counting == {t \in Threads : At(t, "counted") \/ At(t, "refused")}

LockoutInv ==
  AuthTyped /\ failures + Cardinality(Counting) <= MaxFailures - 1 + Cardinality(Threads)

LEMMA CountingFinite ==
  /\ IsFiniteSet(Counting) /\ Cardinality(Counting) \in Nat
  /\ Cardinality(Counting) <= Cardinality(Threads)
  /\ Cardinality(Threads) \in Nat \ {0}
  <1>1. Counting \subseteq Threads
    BY DEF Counting
  <1>2. Cardinality(Threads) \in Nat \ {0}
    BY AuthAssumption, FS_CardinalityType, FS_EmptySet
  <1> QED  BY <1>1, <1>2, AuthAssumption, FS_Subset, FS_CardinalityType

LEMMA CountingFiniteNext ==
  /\ IsFiniteSet(Counting') /\ Cardinality(Counting') \in Nat
  /\ Cardinality(Counting') <= Cardinality(Threads)
  <1>1. Counting' \subseteq Threads
    BY DEF Counting
  <1> QED  BY <1>1, AuthAssumption, FS_Subset, FS_CardinalityType

\* Only the count adds a handler, and only the record of a failure adds one.
LEMMA CountingSteps ==
  ASSUME AuthTyped, [Next]_vars
  PROVE  \/ failures < MaxFailures /\ failures' = failures
         \/ \E t \in Counting : Counting' = Counting \ {t} /\ failures' = failures + 1
         \/ Counting' \subseteq Counting /\ failures' \in Nat /\ failures' <= failures
  <1>0. TypeOK /\ TypeOK'
    BY NextTyped DEF AuthTyped
  <1>1. ASSUME NEW t \in Threads, LoginCount(t)
        PROVE  failures < MaxFailures /\ failures' = failures
    BY <1>1 DEF LoginCount
  <1>2. ASSUME NEW t \in Threads, LoginFail(t)
        PROVE  \E u \in Counting : Counting' = Counting \ {u} /\ failures' = failures + 1
    <2>1. t \in Counting /\ End(t) /\ failures' = failures + 1
      BY <1>2 DEF LoginFail, Counting
    <2>2. Counting' = Counting \ {t}
      BY <1>0, <2>1, EndTask DEF Counting, At
    <2> QED  BY <2>1, <2>2
  <1>3. ASSUME NEW t \in Threads, End(t), failures' = failures
        PROVE  Counting' \subseteq Counting
    BY <1>0, <1>3, EndTask DEF Counting, At
  <1>4. ASSUME NEW t \in Threads, NEW a, NEW k, NEW p, Proceed(t, a, k, p),
               a \notin {"counted", "refused"} \/ t \in Counting
        PROVE  Counting' \subseteq Counting
    <2>1. task'[t] = [at |-> a, token |-> k, password |-> p]
          /\ \A s \in Threads \ {t} : task'[s] = task[s]
      BY <1>0, <1>4, ProceedTask
    <2>2. task'[t].at = a
      BY <2>1
    <2> SUFFICES ASSUME NEW s \in Counting' PROVE s \in Counting
      OBVIOUS
    <2>3. CASE s = t
      BY <1>4, <2>2, <2>3 DEF Counting, At
    <2>4. CASE s # t
      BY <2>1, <2>4 DEF Counting, At
    <2> QED  BY <2>3, <2>4
  <1>5. ASSUME NEW t \in Threads, NEW p \in Passwords, LoginVerify(t, p)
        PROVE  Counting' \subseteq Counting /\ failures' = failures
    <2>1. t \in Counting /\ failures' = failures
      BY <1>5 DEF LoginVerify, Counting
    <2>2. \/ \E a : Proceed(t, a, None, p)
          \/ End(t)
      BY <1>5 DEF LoginVerify
    <2> QED  BY <1>3, <1>4, <2>1, <2>2
  <1>6. ASSUME NEW t \in Threads,
               LoginSucceed(t) \/ RefreshCommit(t) \/ LogoutCommit(t)
                 \/ ChangeCommit(t) \/ CommitFails(t)
        PROVE  Counting' \subseteq Counting /\ failures' = failures
    <2>1. End(t) /\ failures' = failures
      BY <1>6 DEF LoginSucceed, RefreshCommit, LogoutCommit, ChangeCommit, CommitFails
    <2> QED  BY <1>3, <2>1
  <1>7. ASSUME NEW t \in Threads, NEW k \in Tokens, RefreshFind(t, k)
        PROVE  Counting' \subseteq Counting /\ failures' = failures
    <2>1. CASE UNCHANGED task
      BY <1>7, <2>1 DEF RefreshFind, Counting, At
    <2>2. CASE Proceed(t, "found", k, 0)
      BY <1>4, <1>7, <2>2 DEF RefreshFind
    <2> QED  BY <1>7, <2>1, <2>2 DEF RefreshFind
  <1>8. ASSUME NEW t \in Threads, RefreshCheckUser(t)
        PROVE  Counting' \subseteq Counting /\ failures' = failures
    <2>1. failures' = failures /\ (End(t) \/ Proceed(t, "checked", task[t].token, 0))
      BY <1>8 DEF RefreshCheckUser
    <2> QED  BY <1>3, <1>4, <2>1
  <1>9. ASSUME NEW t \in Threads, (\E k \in Tokens : LogoutFind(t, k)) \/ ChangeVerify(t)
        PROVE  Counting' \subseteq Counting /\ failures' = failures
    <2>1. failures' = failures
          /\ \E a \in {"leaving", "changing"} : \E k, p : Proceed(t, a, k, p)
      BY <1>9 DEF LogoutFind, ChangeVerify
    <2> QED  BY <1>4, <2>1
  <1>10. ASSUME \/ AdminReset \/ ForceLogout \/ UpdateStatus \/ SessionCleanup \/ FailureAges
                \/ (\E k \in Tokens : Expire(k)) \/ UNCHANGED vars
         PROVE  Counting' \subseteq Counting /\ failures' \in Nat /\ failures' <= failures
    <2>1. task' = task /\ (failures' = failures \/ failures' = failures - 1)
      BY <1>10 DEF AdminReset, ForceLogout, UpdateStatus, SessionCleanup, FailureAges, Expire, vars
    <2> QED  BY <1>0, <2>1 DEF Counting, At, TypeOK
  <1>11. failures \in Nat
    BY <1>0 DEF TypeOK
  <1> QED  BY <1>1, <1>2, <1>5, <1>6, <1>7, <1>8, <1>9, <1>10, <1>11
           DEF Next, Login, Refresh, Logout, ChangePassword

LEMMA InitLockout == Init => LockoutInv
  <1> SUFFICES ASSUME Init PROVE LockoutInv
    OBVIOUS
  <1>1. Counting = {}
    BY DEF Init, Counting, At
  <1> QED  BY <1>1, InitTyped, CountingFinite, FS_EmptySet, AuthAssumption
           DEF Init, LockoutInv

LEMMA NextLockout == LockoutInv /\ [Next]_vars => LockoutInv'
  <1> SUFFICES ASSUME LockoutInv, [Next]_vars PROVE LockoutInv'
    OBVIOUS
  <1>0. AuthTyped /\ AuthTyped' /\ failures \in Nat /\ MaxFailures \in Nat
    BY NextTyped, AuthAssumption DEF LockoutInv, AuthTyped, TypeOK
  <1>1. CASE failures < MaxFailures /\ failures' = failures
    BY <1>0, <1>1, CountingFinite, CountingFiniteNext DEF LockoutInv
  <1>2. ASSUME NEW t \in Counting, Counting' = Counting \ {t}, failures' = failures + 1
        PROVE  LockoutInv'
    <2>1. Cardinality(Counting') = Cardinality(Counting) - 1
      BY <1>2, CountingFinite, FS_RemoveElement
    <2> QED  BY <1>0, <1>2, <2>1, CountingFinite DEF LockoutInv
  <1>3. CASE Counting' \subseteq Counting /\ failures' \in Nat /\ failures' <= failures
    <2>1. Cardinality(Counting') <= Cardinality(Counting)
      BY <1>3, CountingFinite, FS_Subset
    <2> QED  BY <1>0, <1>3, <2>1, CountingFinite, CountingFiniteNext DEF LockoutInv
  <1> QED  BY <1>0, <1>1, <1>2, <1>3, CountingSteps

-----------------------------------------------------------------------------
(***************************************************************************)
(* Handlers that have never overlapped: at most one is running, and what   *)
(* it has read still holds.  Nothing refreshed or logged out has a row.    *)
(***************************************************************************)
StillHolds(t) ==
  /\ At(t, "counted") \/ At(t, "refused") => failures < MaxFailures
  /\ At(t, "verified") => active /\ task[t].password = password
  /\ At(t, "found") \/ At(t, "leaving") => HasRow(task[t].token)
  /\ At(t, "checked") => active /\ HasRow(task[t].token)

OneTask ==
  \A t \in Threads : task[t] # None =>
    StillHolds(t) /\ \A u \in Threads \ {t} : task[u] = None

UsedAreGone ==
  /\ \A n \in Tokens : parent[n] # None => session[parent[n]] = "gone"
  /\ \A k \in loggedOut : session[k] = "gone"

SerialFacts ==
  /\ OneTask
  /\ UsedAreGone
  /\ failures <= MaxFailures
  /\ RotationOnce /\ \A n \in Tokens : parent[n] \notin loggedOut
  /\ \A k \in Tokens : HasRow(k) => issuedFor[k] = password

SerialInv == AuthTyped /\ (~overlapped => SerialFacts)

NoSessionUnlessActive ==
  ~active => \A k \in Tokens : session'[k] = "live" => session[k] = "live"

LEMMA InitSerial == Init => SerialInv
  <1> SUFFICES ASSUME Init PROVE SerialInv
    OBVIOUS
  <1>1. OneTask /\ UsedAreGone /\ RotationOnce
    BY DEF Init, OneTask, UsedAreGone, RotationOnce
  <1>2. failures <= MaxFailures
    BY AuthAssumption DEF Init
  <1>3. \A k \in Tokens : ~HasRow(k) /\ parent[k] \notin loggedOut
    BY DEF Init, HasRow
  <1> QED  BY <1>1, <1>2, <1>3, InitTyped DEF SerialInv, SerialFacts

\* Nobody is running when a handler starts without an overlap.
LEMMA StartsAlone ==
  ASSUME Starts, ~overlapped'
  PROVE  ~overlapped /\ \A t \in Threads : task[t] = None
  BY DEF Starts

LEMMA NextSerial ==
  ASSUME SerialInv, [Next]_vars
  PROVE  SerialInv' /\ (~overlapped' => NoSessionUnlessActive)
  <1> SUFFICES ASSUME ~overlapped' PROVE SerialFacts' /\ NoSessionUnlessActive
    BY NextTyped DEF SerialInv
  <1>0. TypeOK /\ TypeOK' /\ AuthTyped /\ TokensKnown
    BY NextTyped DEF SerialInv, AuthTyped
  <1>1. SerialFacts /\ ~overlapped
    <2>1. overlapped => overlapped'
      BY DEF Next, Login, LoginCount, LoginVerify, LoginFail, LoginSucceed, Refresh,
             RefreshFind, RefreshCheckUser, RefreshCommit, Logout, LogoutFind,
             LogoutCommit, ChangePassword, ChangeVerify, ChangeCommit, CommitFails,
             AdminReset, ForceLogout, UpdateStatus, Expire, FailureAges, SessionCleanup, Starts, vars
    <2> QED  BY <2>1 DEF SerialInv
  \* The running handler, if any, ends or goes on: nobody else runs.
  <1>2. ASSUME NEW t \in Threads, End(t),
               task[t] # None \/ \A u \in Threads : task[u] = None
        PROVE  OneTask'
    BY <1>0, <1>1, <1>2, EndTask DEF SerialFacts, OneTask
  <1>3. ASSUME NEW t \in Threads, NEW a, NEW k, NEW p, Proceed(t, a, k, p),
               task[t] # None \/ \A u \in Threads : task[u] = None,
               StillHolds(t)'
        PROVE  OneTask'
    BY <1>0, <1>1, <1>3, ProceedTask DEF SerialFacts, OneTask
  <1>4. ASSUME NEW t \in Threads, NEW a \in Stages, NEW k \in Tokens \cup {None},
               NEW p \in Passwords, Proceed(t, a, k, p)
        PROVE  /\ task'[t].at = a /\ task'[t].token = k /\ task'[t].password = p
               /\ task'[t] # None
    <2>1. task'[t] = [at |-> a, token |-> k, password |-> p]
      BY <1>0, <1>4, ProceedTask
    <2>2. [at |-> a, token |-> k, password |-> p] \in Tasks
      BY DEF Tasks
    <2> QED  BY <2>1, <2>2, AuthAssumption
  \* A task that is left alone still holds what it did.
  <1>5. ASSUME task' = task, failures' <= failures, failures' \in Nat,
               UNCHANGED <<active, password>>, \A k \in Tokens : HasRow(k) => HasRow(k)'
        PROVE  OneTask'
    <2> SUFFICES ASSUME NEW t \in Threads, task[t] # None PROVE StillHolds(t)'
      BY <1>1, <1>5 DEF SerialFacts, OneTask
    <2>1. StillHolds(t)
      BY <1>1 DEF SerialFacts, OneTask
    <2>2. At(t, "found") \/ At(t, "checked") \/ At(t, "leaving") => task[t].token \in Tokens
      BY <1>0 DEF TokensKnown
    <2>3. failures < MaxFailures => failures' < MaxFailures
      BY <1>0, <1>5, AuthAssumption DEF TypeOK
    <2> QED  BY <1>5, <2>1, <2>2, <2>3 DEF StillHolds, At
  \* Sessions that only expire or go.
  <1>6. ASSUME UNCHANGED <<password, issuedFor, parent, loggedOut>>,
               \A k \in Tokens : \/ session'[k] = session[k]
                                 \/ HasRow(k) /\ session'[k] \in {"expired", "gone"},
               failures' <= MaxFailures, OneTask'
        PROVE  SerialFacts' /\ NoSessionUnlessActive
    <2>1. NoSessionUnlessActive
      BY <1>6 DEF NoSessionUnlessActive
    <2>2. UsedAreGone'
      <3>1. \A k \in Tokens : session[k] = "gone" => session'[k] = "gone"
        BY <1>6 DEF HasRow
      <3> QED  BY <1>0, <1>1, <1>6, <3>1 DEF SerialFacts, UsedAreGone, TypeOK
    <2>3. RotationOnce' /\ \A n \in Tokens : parent'[n] \notin loggedOut'
      BY <1>1, <1>6 DEF SerialFacts, RotationOnce
    <2>4. \A k \in Tokens : HasRow(k)' => issuedFor'[k] = password'
      BY <1>1, <1>6 DEF SerialFacts, HasRow
    <2> QED  BY <1>6, <2>1, <2>2, <2>3, <2>4 DEF SerialFacts
  <1>7. failures \in Nat /\ failures <= MaxFailures /\ MaxFailures \in Nat
    BY <1>0, <1>1, AuthAssumption DEF SerialFacts, TypeOK
  <1>8. ASSUME NEW t \in Threads, LoginCount(t) PROVE SerialFacts' /\ NoSessionUnlessActive
    <2>1. /\ Proceed(t, "counted", None, 0) /\ failures < MaxFailures
          /\ UNCHANGED <<password, active, session, rowId, issuedFor, parent, loggedOut, failures>>
          /\ \A u \in Threads : task[u] = None
      BY <1>8, StartsAlone DEF LoginCount
    <2>2. StillHolds(t)'
      BY <1>4, <2>1, Zero DEF StillHolds, At, Stages
    <2>3. OneTask'
      BY <1>3, <2>1, <2>2
    <2> QED  BY <1>6, <1>7, <2>1, <2>3
  <1>9. ASSUME NEW t \in Threads, NEW p \in Passwords, LoginVerify(t, p)
        PROVE  SerialFacts' /\ NoSessionUnlessActive
    <2>1. /\ task[t] # None /\ At(t, "counted")
          /\ UNCHANGED <<password, active, session, rowId, issuedFor, parent, loggedOut, failures>>
      BY <1>9 DEF LoginVerify, At
    <2>2. failures < MaxFailures
      BY <1>1, <2>1 DEF SerialFacts, OneTask, StillHolds
    <2>3. OneTask'
      <3>1. CASE Proceed(t, "refused", None, p)
        <4>1. StillHolds(t)'
          BY <1>4, <2>1, <2>2, <3>1 DEF StillHolds, At, Stages
        <4> QED  BY <1>3, <2>1, <3>1, <4>1
      <3>2. CASE p = password /\ active /\ Proceed(t, "verified", None, p)
        <4>1. StillHolds(t)'
          BY <1>4, <2>1, <3>2 DEF StillHolds, At, Stages
        <4> QED  BY <1>3, <2>1, <3>2, <4>1
      <3>3. CASE End(t)
        BY <1>2, <2>1, <3>3
      <3> QED  BY <1>9, <3>1, <3>2, <3>3 DEF LoginVerify
    <2> QED  BY <1>6, <1>7, <2>1, <2>3
  <1>10. ASSUME NEW t \in Threads, LoginFail(t) PROVE SerialFacts' /\ NoSessionUnlessActive
    <2>1. /\ task[t] # None /\ At(t, "refused") /\ End(t) /\ failures' = failures + 1
          /\ UNCHANGED <<password, session, rowId, issuedFor, parent, loggedOut>>
      BY <1>10 DEF LoginFail, At
    <2>2. failures < MaxFailures
      BY <1>1, <2>1 DEF SerialFacts, OneTask, StillHolds
    <2>3. OneTask'
      BY <1>2, <2>1
    <2>4. failures' <= MaxFailures
      BY <1>7, <2>1, <2>2
    <2> QED  BY <1>6, <2>1, <2>3, <2>4
  <1>11. ASSUME NEW t \in Threads, LoginSucceed(t)
         PROVE  SerialFacts' /\ NoSessionUnlessActive
    <2>1. /\ task[t] # None /\ At(t, "verified") /\ End(t)
          /\ UNCHANGED <<password, active, parent, loggedOut, failures>>
      BY <1>11 DEF LoginSucceed, At
    <2>2. active /\ task[t].password = password
      BY <1>1, <2>1 DEF SerialFacts, OneTask, StillHolds
    <2>3. PICK n \in Tokens :
            /\ session[n] = "unissued"
            /\ session' = [session EXCEPT ![n] = "live"]
            /\ issuedFor' = [issuedFor EXCEPT ![n] = task[t].password]
      BY <1>11 DEF LoginSucceed
    <2>4. OneTask'
      BY <1>2, <2>1
    <2>5. UsedAreGone'
      BY <1>0, <1>1, <2>1, <2>3 DEF SerialFacts, UsedAreGone, TypeOK
    <2>6. RotationOnce' /\ \A m \in Tokens : parent'[m] \notin loggedOut'
      BY <1>1, <2>1 DEF SerialFacts, RotationOnce
    <2>7. \A k \in Tokens : HasRow(k)' => issuedFor'[k] = password'
      BY <1>0, <1>1, <2>1, <2>2, <2>3 DEF SerialFacts, HasRow, TypeOK
    <2> QED  BY <1>7, <2>1, <2>2, <2>4, <2>5, <2>6, <2>7 DEF SerialFacts, NoSessionUnlessActive
  <1>12. ASSUME NEW t \in Threads, NEW k \in Tokens, RefreshFind(t, k)
         PROVE  SerialFacts' /\ NoSessionUnlessActive
    <2>1. /\ \A u \in Threads : task[u] = None
          /\ HasRow(k)
          /\ UNCHANGED <<password, active, rowId, issuedFor, parent, loggedOut, failures>>
      BY <1>12, StartsAlone DEF RefreshFind
    <2>2. CASE Proceed(t, "found", k, 0) /\ UNCHANGED session
      <3>1. StillHolds(t)'
        BY <1>4, <2>1, <2>2, Zero DEF StillHolds, At, Stages, HasRow
      <3>2. OneTask'
        BY <1>3, <2>1, <2>2, <3>1
      <3> QED  BY <1>6, <1>7, <2>1, <2>2, <3>2
    <2>3. CASE UNCHANGED task /\ session' = Deleted(k)
      <3>1. OneTask'
        BY <2>1, <2>3 DEF OneTask
      <3>2. \A m \in Tokens : session'[m] = session[m] \/ (HasRow(m) /\ session'[m] = "gone")
        BY <1>0, <2>3, DeletedSessions
      <3> QED  BY <1>6, <1>7, <2>1, <3>1, <3>2
    <2> QED  BY <1>12, <2>2, <2>3 DEF RefreshFind
  <1>13. ASSUME NEW t \in Threads, RefreshCheckUser(t)
         PROVE  SerialFacts' /\ NoSessionUnlessActive
    <2>1. /\ task[t] # None /\ At(t, "found")
          /\ UNCHANGED <<password, active, rowId, issuedFor, parent, loggedOut, failures>>
      BY <1>13 DEF RefreshCheckUser, At
    <2>2. task[t].token \in Tokens /\ HasRow(task[t].token)
      BY <1>0, <1>1, <2>1 DEF SerialFacts, OneTask, StillHolds, TokensKnown
    <2>3. CASE active /\ Proceed(t, "checked", task[t].token, 0) /\ UNCHANGED session
      <3>1. StillHolds(t)'
        BY <1>4, <2>1, <2>2, <2>3, Zero DEF StillHolds, At, Stages, HasRow
      <3>2. OneTask'
        BY <1>3, <2>1, <2>3, <3>1
      <3> QED  BY <1>6, <1>7, <2>1, <2>3, <3>2
    <2>4. CASE End(t) /\ session' = Deleted(task[t].token)
      <3>1. OneTask'
        BY <1>2, <2>1, <2>4
      <3>2. \A m \in Tokens : session'[m] = session[m] \/ (HasRow(m) /\ session'[m] = "gone")
        BY <1>0, <2>2, <2>4, DeletedSessions
      <3> QED  BY <1>6, <1>7, <2>1, <3>1, <3>2
    <2> QED  BY <1>13, <2>3, <2>4 DEF RefreshCheckUser
  \* The rotated token had its row, so it had not been rotated or logged out.
  <1>14. ASSUME NEW t \in Threads, RefreshCommit(t)
         PROVE  SerialFacts' /\ NoSessionUnlessActive
    <2> DEFINE k == task[t].token
    <2>1. /\ task[t] # None /\ At(t, "checked") /\ End(t)
          /\ UNCHANGED <<password, active, loggedOut, failures>>
      BY <1>14 DEF RefreshCommit, At
    <2>2. k \in Tokens /\ HasRow(k) /\ active /\ k # None
      BY <1>0, <1>1, <2>1, AuthAssumption DEF SerialFacts, OneTask, StillHolds, TokensKnown
    <2>3. PICK n \in Tokens :
            /\ session[n] = "unissued"
            /\ session' = [Deleted(k) EXCEPT ![n] = "live"]
            /\ issuedFor' = [issuedFor EXCEPT ![n] = issuedFor[k]]
            /\ parent' = [parent EXCEPT ![n] = k]
      BY <1>14 DEF RefreshCommit
    <2>4. n # k
      BY <2>2, <2>3 DEF HasRow
    <2>5. /\ session'[k] = "gone" /\ session'[n] = "live"
          /\ \A m \in Tokens \ {n} : session'[m] = session[m]
                                   \/ (HasRow(m) /\ session'[m] = "gone")
          /\ issuedFor'[n] = issuedFor[k]
          /\ \A m \in Tokens \ {n} : issuedFor'[m] = issuedFor[m] /\ parent'[m] = parent[m]
          /\ parent'[n] = k
      BY <1>0, <2>2, <2>3, <2>4, DeletedSessions DEF TypeOK
    <2>6. k \notin loggedOut /\ \A m \in Tokens : parent[m] # k
      BY <1>1, <2>2 DEF SerialFacts, UsedAreGone, HasRow
    <2>7. \A m \in Tokens : session[m] = "gone" => session'[m] = "gone"
      BY <2>3, <2>5 DEF HasRow
    <2>8. OneTask'
      BY <1>2, <2>1
    <2>9. UsedAreGone'
      <3>1. ASSUME NEW m \in Tokens, parent'[m] # None PROVE session'[parent'[m]] = "gone"
        BY <1>0, <1>1, <2>5, <2>7, <3>1 DEF SerialFacts, UsedAreGone, TypeOK
      <3>2. ASSUME NEW m \in loggedOut PROVE session'[m] = "gone"
        BY <1>0, <1>1, <2>7 DEF SerialFacts, UsedAreGone, TypeOK
      <3> QED  BY <2>1, <3>1, <3>2 DEF UsedAreGone
    <2>10. RotationOnce' /\ \A m \in Tokens : parent'[m] \notin loggedOut'
      BY <1>1, <2>1, <2>5, <2>6 DEF SerialFacts, RotationOnce
    <2>11. \A m \in Tokens : HasRow(m)' => issuedFor'[m] = password'
      BY <1>1, <2>1, <2>2, <2>5 DEF SerialFacts, HasRow
    <2> QED  BY <1>7, <2>1, <2>2, <2>8, <2>9, <2>10, <2>11
             DEF SerialFacts, NoSessionUnlessActive
  <1>15. ASSUME NEW t \in Threads, NEW k \in Tokens, LogoutFind(t, k)
         PROVE  SerialFacts' /\ NoSessionUnlessActive
    <2>1. /\ Proceed(t, "leaving", k, 0) /\ HasRow(k)
          /\ UNCHANGED <<password, active, session, rowId, issuedFor, parent, loggedOut, failures>>
          /\ \A u \in Threads : task[u] = None
      BY <1>15, StartsAlone DEF LogoutFind
    <2>2. StillHolds(t)'
      BY <1>4, <2>1, Zero DEF StillHolds, At, Stages, HasRow
    <2>3. OneTask'
      BY <1>3, <2>1, <2>2
    <2> QED  BY <1>6, <1>7, <2>1, <2>3
  <1>16. ASSUME NEW t \in Threads, LogoutCommit(t)
         PROVE  SerialFacts' /\ NoSessionUnlessActive
    <2> DEFINE k == task[t].token
    <2>1. /\ task[t] # None /\ At(t, "leaving") /\ End(t)
          /\ session' = Deleted(k)
          /\ loggedOut' = loggedOut \cup {k}
          /\ UNCHANGED <<password, active, rowId, issuedFor, parent, failures>>
      BY <1>16 DEF LogoutCommit, At
    <2>2. k \in Tokens /\ HasRow(k)
      BY <1>0, <1>1, <2>1 DEF SerialFacts, OneTask, StillHolds, TokensKnown
    <2>3. /\ session'[k] = "gone"
          /\ \A m \in Tokens : session'[m] = session[m]
                             \/ (HasRow(m) /\ session'[m] = "gone")
      BY <1>0, <2>1, <2>2, DeletedSessions
    <2>4. \A m \in Tokens : parent[m] # k
      BY <1>1, <2>2, AuthAssumption DEF SerialFacts, UsedAreGone, HasRow
    <2>5. OneTask'
      BY <1>2, <2>1
    <2>6. UsedAreGone'
      <3>1. \A m \in Tokens : session[m] = "gone" => session'[m] = "gone"
        BY <2>3 DEF HasRow
      <3> QED  BY <1>0, <1>1, <2>1, <2>2, <2>3, <3>1 DEF SerialFacts, UsedAreGone, TypeOK
    <2>7. RotationOnce' /\ \A m \in Tokens : parent'[m] \notin loggedOut'
      BY <1>1, <2>1, <2>4 DEF SerialFacts, RotationOnce
    <2>8. \A m \in Tokens : HasRow(m)' => issuedFor'[m] = password'
      BY <1>1, <2>1, <2>3 DEF SerialFacts, HasRow
    <2>9. NoSessionUnlessActive
      BY <2>3 DEF NoSessionUnlessActive
    <2> QED  BY <1>7, <2>1, <2>5, <2>6, <2>7, <2>8, <2>9 DEF SerialFacts
  <1>17. ASSUME NEW t \in Threads, ChangeVerify(t)
         PROVE  SerialFacts' /\ NoSessionUnlessActive
    <2>1. /\ Proceed(t, "changing", None, password)
          /\ UNCHANGED <<password, active, session, rowId, issuedFor, parent, loggedOut, failures>>
          /\ \A u \in Threads : task[u] = None
      BY <1>17, StartsAlone DEF ChangeVerify
    <2>2. StillHolds(t)'
      BY <1>0, <1>4, <2>1 DEF StillHolds, At, Stages, TypeOK
    <2>3. OneTask'
      BY <1>3, <2>1, <2>2
    <2> QED  BY <1>6, <1>7, <2>1, <2>3
  \* A new password comes with no session left.
  <1>18. ASSUME session' = AllDeleted, UNCHANGED <<active, rowId, issuedFor, parent, loggedOut, failures>>,
                OneTask'
         PROVE  SerialFacts' /\ NoSessionUnlessActive
    <2>1. \A k \in Tokens : /\ session'[k] \notin {"live", "expired"}
                            /\ session[k] = "gone" => session'[k] = "gone"
      BY <1>18 DEF AllDeleted, HasRow
    <2>2. UsedAreGone'
      BY <1>0, <1>1, <1>18, <2>1 DEF SerialFacts, UsedAreGone, TypeOK
    <2>3. RotationOnce' /\ \A n \in Tokens : parent'[n] \notin loggedOut'
      BY <1>1, <1>18 DEF SerialFacts, RotationOnce
    <2>4. \A k \in Tokens : HasRow(k)' => issuedFor'[k] = password'
      BY <2>1 DEF HasRow
    <2>5. NoSessionUnlessActive
      BY <2>1 DEF NoSessionUnlessActive
    <2> QED  BY <1>7, <1>18, <2>2, <2>3, <2>4, <2>5 DEF SerialFacts
  <1>19. ASSUME (\E t \in Threads : ChangeCommit(t)) \/ AdminReset \/ ForceLogout
         PROVE  SerialFacts' /\ NoSessionUnlessActive
    <2>1. session' = AllDeleted /\ UNCHANGED <<active, rowId, issuedFor, parent, loggedOut, failures>>
      BY <1>19 DEF ChangeCommit, AdminReset, ForceLogout
    <2>2. OneTask'
      <3>1. CASE AdminReset \/ ForceLogout
        BY <3>1, StartsAlone DEF AdminReset, ForceLogout, OneTask
      <3>2. ASSUME NEW t \in Threads, ChangeCommit(t) PROVE OneTask'
        BY <1>2, <3>2 DEF ChangeCommit, At
      <3> QED  BY <1>19, <3>1, <3>2
    <2> QED  BY <1>18, <2>1, <2>2
  <1>20. ASSUME UpdateStatus PROVE SerialFacts' /\ NoSessionUnlessActive
    <2>1. /\ UNCHANGED <<password, session, rowId, issuedFor, parent, loggedOut, failures, task>>
          /\ \A u \in Threads : task[u] = None
      BY <1>20, StartsAlone DEF UpdateStatus
    <2>2. OneTask'
      BY <2>1 DEF OneTask
    <2> QED  BY <1>6, <1>7, <2>1, <2>2
  <1>21. ASSUME NEW t \in Threads, CommitFails(t)
         PROVE  SerialFacts' /\ NoSessionUnlessActive
    <2>1. /\ task[t] # None /\ End(t)
          /\ UNCHANGED <<password, active, session, rowId, issuedFor, parent, loggedOut, failures>>
      BY <1>21 DEF CommitFails
    <2>2. OneTask'
      BY <1>2, <2>1
    <2> QED  BY <1>6, <1>7, <2>1, <2>2
  <1>22. ASSUME NEW k \in Tokens, Expire(k) PROVE SerialFacts' /\ NoSessionUnlessActive
    <2>1. /\ session[k] = "live" /\ session' = [session EXCEPT ![k] = "expired"]
          /\ UNCHANGED <<password, active, rowId, issuedFor, parent, loggedOut, failures, task>>
      BY <1>22 DEF Expire
    <2>2. \A m \in Tokens : session'[m] = session[m]
                            \/ (HasRow(m) /\ session'[m] = "expired")
      BY <1>0, <2>1 DEF TypeOK, HasRow
    <2>3. \A m \in Tokens : HasRow(m) => HasRow(m)'
      BY <2>2 DEF HasRow
    <2>4. OneTask'
      BY <1>5, <1>7, <2>1, <2>3
    <2> QED  BY <1>6, <1>7, <2>1, <2>2, <2>4
  <1>23. ASSUME FailureAges PROVE SerialFacts' /\ NoSessionUnlessActive
    <2>1. /\ failures > 0 /\ failures' = failures - 1
          /\ UNCHANGED <<password, active, session, rowId, issuedFor, parent, loggedOut, task>>
      BY <1>23 DEF FailureAges
    <2>2. failures' \in Nat /\ failures' <= failures /\ failures' <= MaxFailures
      BY <1>7, <2>1
    <2>3. OneTask'
      BY <1>5, <2>1, <2>2 DEF HasRow
    <2> QED  BY <1>6, <2>1, <2>2, <2>3
  <1>24. ASSUME SessionCleanup PROVE SerialFacts' /\ NoSessionUnlessActive
    <2>1. /\ UNCHANGED <<password, active, rowId, issuedFor, parent, loggedOut, failures, task>>
          /\ \A u \in Threads : task[u] = None
          /\ session' = [k \in Tokens |->
                           IF session[k] = "expired" THEN "gone" ELSE session[k]]
      BY <1>24, StartsAlone DEF SessionCleanup
    <2>2. \A m \in Tokens : session'[m] = session[m] \/ (HasRow(m) /\ session'[m] = "gone")
      BY <2>1 DEF HasRow
    <2>3. OneTask'
      BY <2>1 DEF OneTask
    <2> QED  BY <1>6, <1>7, <2>1, <2>2, <2>3
  <1>25. ASSUME UNCHANGED vars PROVE SerialFacts' /\ NoSessionUnlessActive
    <2>1. UNCHANGED <<password, active, session, rowId, issuedFor, parent, loggedOut, failures, task>>
      BY <1>25 DEF vars
    <2>2. OneTask'
      BY <1>5, <1>7, <2>1 DEF HasRow
    <2> QED  BY <1>6, <1>7, <2>1, <2>2
  <1> QED  BY <1>8, <1>9, <1>10, <1>11, <1>12, <1>13, <1>14, <1>15, <1>16, <1>17, <1>19,
              <1>20, <1>21, <1>22, <1>23, <1>24, <1>25
           DEF Next, Login, Refresh, Logout, ChangePassword

\* Recorded failures stay within the limit, or exceed it by no more than the
\* other handlers running.
THEOREM FailuresWithinBound == Spec => []FailuresBounded
  <1>1. LockoutInv /\ SerialInv => FailuresBounded
    <2> SUFFICES ASSUME LockoutInv, SerialInv PROVE FailuresBounded
      OBVIOUS
    <2>1. failures \in Nat /\ MaxFailures \in Nat
      BY AuthAssumption DEF LockoutInv, AuthTyped, TypeOK
    <2>2. CASE overlapped
      <3>1. failures <= MaxFailures + (Cardinality(Threads) - 1)
        BY <2>1, CountingFinite DEF LockoutInv
      <3> QED  BY <2>2, <3>1 DEF FailuresBounded
    <2>3. CASE ~overlapped
      <3>1. failures <= MaxFailures + 0
        BY <2>1, <2>3 DEF SerialInv, SerialFacts
      <3> QED  BY <2>3, <3>1 DEF FailuresBounded
    <2> QED  BY <2>2, <2>3
  <1> QED  BY InitLockout, NextLockout, InitSerial, NextSerial, <1>1, PTL DEF Spec

\* Without overlap a refresh token is used at most once.
THEOREM SerialTokensUsedOnce == Spec => []TokensUsedOnce
  <1>1. SerialInv => TokensUsedOnce
    BY DEF SerialInv, SerialFacts, TokensUsedOnce
  <1> QED  BY InitSerial, NextSerial, <1>1, PTL DEF Spec

\* Without overlap every session goes back to the current password.
THEOREM SerialSessionsOfPassword == Spec => []SessionsOfPassword
  <1>1. SerialInv => SessionsOfPassword
    BY DEF SerialInv, SerialFacts, SessionsOfPassword
  <1> QED  BY InitSerial, NextSerial, <1>1, PTL DEF Spec

\* Without overlap an inactive account gets no session.
THEOREM SerialInactiveGetsNothing == Spec => InactiveGetsNothing
  <1>1. SerialInv /\ [Next]_vars =>
          [~overlapped' /\ ~active =>
             \A k \in Tokens : session'[k] = "live" => session[k] = "live"]_vars
    BY NextSerial DEF NoSessionUnlessActive
  <1>2. SerialInv /\ [Next]_vars => SerialInv'
    BY NextSerial
  <1> QED  BY InitSerial, <1>1, <1>2, PTL DEF Spec, InactiveGetsNothing

=============================================================================
