----------------------------- MODULE EventLoop -----------------------------
(***************************************************************************)
(* The event loop, the worker threads, the connection pool and SQLite's    *)
(* write lock, which the requests of all components share.                 *)
(*                                                                         *)
(* A request is a sequence of segments.  A segment on the loop keeps it to *)
(* its end, also while a database call, which is synchronous, blocks it.   *)
(* Between segments a request waits for its turn on the loop, and for a    *)
(* client or a thread.  A session holds a connection from its first query  *)
(* to its commit or close, and the write lock from its first write on.     *)
(* Whoever waits for either too long gets an exception.                    *)
(***************************************************************************)
EXTENDS Naturals, Sequences, FiniteSets

CONSTANTS
  Requests,  \* requests the server handles at the same time
  PoolSize,  \* connections of the SQLAlchemy engine, overflow included
  Workers,   \* threads for dependencies and def handlers
  None       \* nobody

ASSUME EventLoopAssumption ==
  /\ PoolSize \in Nat \ {0} /\ Workers \in Nat \ {0}
  /\ None \notin Requests

Places == {"thread", "loop"}
Ops == {"query", "write", "commit"}
Segments == [at : Places, ops : Seq(Ops)]

OnThread(ops) == [at |-> "thread", ops |-> ops]
OnLoop(ops) == [at |-> "loop", ops |-> ops]

-----------------------------------------------------------------------------
(***************************************************************************)
(* What requests do with the database, cut where they wait.                *)
(***************************************************************************)
\* The dependency that authenticates leaves the session with a connection.
CurrentUser == OnThread(<<"query">>)

\* A def handler that flushes, commits and refreshes, as register_repo.
DefHandler == <<CurrentUser, OnThread(<<"query", "write", "commit", "query">>)>>

\* Flushed before the first send to a recipient.
CreateShare == <<CurrentUser, OnLoop(<<"write">>), OnLoop(<<"commit", "query">>)>>

\* The same of create_approval.
CreateApproval == CreateShare

\* No wait in between.
UndoAccept == <<CurrentUser, OnLoop(<<"query", "write", "commit">>)>>

\* Nor in a hit of get_preview, which reads its row again for the response.
HitPreview == <<CurrentUser, OnLoop(<<"query", "write", "commit", "query">>)>>

\* approve and reject, accept_share and reject_share write after the send.
Answer == <<CurrentUser, OnLoop(<<"query">>), OnLoop(<<"write", "commit", "query">>)>>

\* A miss waits for the owner and then stores the preview.
GetPreview == <<CurrentUser, OnLoop(<<"query">>), OnLoop(<<"query", "write", "commit">>)>>

\* The refresh of the expired share takes a connection again.
LeaveShare == <<CurrentUser, OnLoop(<<"query", "write", "commit", "query">>), OnLoop(<<>>)>>

\* Mutant of DeleteShare, not used by the specification: the revocations are
\* sent, and awaited, before the deletion is committed.
NotifyThenDelete == <<CurrentUser, OnLoop(<<"query", "write">>),
                      OnLoop(<<"commit", "query", "write", "commit">>)>>

\* Notifications are stored in a transaction of their own.
DeleteShare == <<CurrentUser, OnLoop(<<"query", "write", "commit">>),
                 OnLoop(<<"query", "write", "commit">>)>>

\* The endpoint before and after a connection, and its heartbeats.
Socket == <<OnLoop(<<"query", "write", "commit">>)>>

Kinds == {DefHandler, CreateShare, CreateApproval, UndoAccept, HitPreview, Answer,
          GetPreview, LeaveShare, DeleteShare, Socket}

-----------------------------------------------------------------------------
VARIABLES
  state,  \* per request: idle, between two segments, on a thread or the loop
  rest,   \* per request: the segments and operations left
  conns,  \* requests whose session holds a connection
  lock    \* the request whose session holds the write lock

vars == <<state, rest, conns, lock>>

TypeOK ==
  /\ state \in [Requests -> {"idle", "between"} \cup Places]
  /\ rest \in [Requests -> Seq(Segments)]
  /\ conns \subseteq Requests /\ Cardinality(conns) <= PoolSize
  /\ lock \in Requests \cup {None}

Init ==
  /\ state = [r \in Requests |-> "idle"]
  /\ rest = [r \in Requests |-> <<>>]
  /\ conns = {}
  /\ lock = None

Running(r) == state[r] \in Places
LoopFree == \A r \in Requests : state[r] # "loop"
WorkerFree == Cardinality({r \in Requests : state[r] = "thread"}) < Workers

\* The next operation of a request that runs.
Op(r) == Head(Head(rest[r]).ops)
At(r, op) == Running(r) /\ Op(r) = op

HasConnection(r) == r \in conns \/ Cardinality(conns) < PoolSize

\* When the next step of a request is one it can take.
CanEnter(r) ==
  /\ state[r] = "between" /\ rest[r] # <<>> /\ LoopFree
  /\ Head(rest[r]).ops # <<>> /\ Head(rest[r]).at = "thread" => WorkerFree
CanQuery(r) == At(r, "query") /\ HasConnection(r)
CanWrite(r) == At(r, "write") /\ lock \in {None, r}
CanCommit(r) == At(r, "commit")
CanClose(r) == state[r] = "between" /\ rest[r] = <<>> /\ LoopFree

\* The operation is done; the segment ends with its last one.
Advance(r) ==
  LET ops == Tail(Head(rest[r]).ops) IN
  IF ops = <<>>
  THEN /\ rest' = [rest EXCEPT ![r] = Tail(@)]
       /\ state' = [state EXCEPT ![r] = "between"]
  ELSE /\ rest' = [rest EXCEPT ![r][1].ops = ops]
       /\ UNCHANGED state

\* Nothing is left to do but to close the session.
GiveUp(r) ==
  /\ rest' = [rest EXCEPT ![r] = <<>>]
  /\ state' = [state EXCEPT ![r] = "between"]

-----------------------------------------------------------------------------
(***************************************************************************)
(* Mutants, not used by the specification.                                 *)
(***************************************************************************)
\* Overflow connections without a limit.
QueryOverflowing(r) ==
  /\ At(r, "query")
  /\ conns' = conns \cup {r}
  /\ Advance(r)
  /\ UNCHANGED lock

\* No rollback.
FailKeepingLock(r) ==
  /\ At(r, "commit")
  /\ GiveUp(r)
  /\ UNCHANGED <<conns, lock>>

\* No pool_timeout.
BlockedByLock(r) == At(r, "write") /\ lock \notin {None, r}

-----------------------------------------------------------------------------
(***************************************************************************)
(* Steps                                                                   *)
(***************************************************************************)
Arrive(r, kind) ==
  /\ state[r] = "idle"
  /\ state' = [state EXCEPT ![r] = "between"]
  /\ rest' = [rest EXCEPT ![r] = kind]
  /\ UNCHANGED <<conns, lock>>

\* The loop takes a request up, to run it or to hand it to a thread.
Enter(r) ==
  /\ CanEnter(r)
  /\ IF Head(rest[r]).ops = <<>>
     THEN /\ rest' = [rest EXCEPT ![r] = Tail(@)]
          /\ UNCHANGED state
     ELSE /\ state' = [state EXCEPT ![r] = Head(rest[r]).at]
          /\ UNCHANGED rest
  /\ UNCHANGED <<conns, lock>>

Query(r) ==
  /\ CanQuery(r)
  /\ conns' = conns \cup {r}
  /\ Advance(r)
  /\ UNCHANGED lock

Write(r) ==
  /\ CanWrite(r)
  /\ lock' = r
  /\ Advance(r)
  /\ UNCHANGED conns

\* The connection goes back to the pool.
Commit(r) ==
  /\ CanCommit(r)
  /\ lock' = None
  /\ conns' = conns \ {r}
  /\ Advance(r)

\* A constraint refuses what is written; rolled back, the session keeps its
\* connection.
CommitFails(r) ==
  /\ At(r, "commit")
  /\ lock' = None
  /\ GiveUp(r)
  /\ UNCHANGED conns

\* A request that has written nothing yet may be refused.
Refuse(r) ==
  /\ Running(r) /\ lock # r
  /\ GiveUp(r)
  /\ UNCHANGED <<conns, lock>>

Blocked(r) ==
  \/ At(r, "query") /\ ~HasConnection(r)
  \/ At(r, "write") /\ lock \notin {None, r}

\* pool_timeout has passed, or SQLite's busy timeout: an exception.
TimeOut(r) ==
  /\ Blocked(r)
  /\ GiveUp(r)
  /\ UNCHANGED <<conns, lock>>

\* The session is closed; whatever it wrote has been committed or rolled back.
Close(r) ==
  /\ CanClose(r)
  /\ conns' = conns \ {r}
  /\ state' = [state EXCEPT ![r] = "idle"]
  /\ UNCHANGED <<rest, lock>>

\* What a request does by itself, if nobody is in its way.
Go(r) == Enter(r) \/ Query(r) \/ Write(r) \/ Commit(r) \/ Close(r)
CanGo(r) == CanEnter(r) \/ CanQuery(r) \/ CanWrite(r) \/ CanCommit(r) \/ CanClose(r)

Next ==
  \E r \in Requests :
    \/ \E kind \in Kinds : Arrive(r, kind)
    \/ Go(r) \/ CommitFails(r) \/ Refuse(r) \/ TimeOut(r)

\* A running request runs on or times out.  The loop's queue of what is ready
\* and the queue for a thread are first in, first out, and what requests wait
\* for between segments ends: sends do, and so do file requests.
Fairness ==
  \A r \in Requests :
    /\ WF_vars(Query(r) \/ Write(r) \/ Commit(r) \/ CommitFails(r) \/ TimeOut(r))
    /\ SF_vars(Enter(r) \/ Close(r))

Spec == Init /\ [][Next]_vars /\ Fairness

-----------------------------------------------------------------------------
(***************************************************************************)
(* Properties                                                              *)
(***************************************************************************)
\* Nobody is left with what another needs: who holds the write lock holds the
\* connection it is held on, and who has ended holds neither.
NothingKept ==
  /\ lock # None => lock \in conns
  /\ \A r \in conns : state[r] # "idle"

\* When nobody can go on without a timeout, either a request waits for a
\* connection and all of them are held by requests that wait as well, or the
\* loop waits for a lock that create_share or create_approval holds across
\* its await.
Halted == /\ \E r \in Requests : state[r] # "idle"
          /\ \A r \in Requests : ~CanGo(r)
HaltsAreKnown ==
  Halted => \/ /\ Cardinality(conns) = PoolSize
               /\ \E r \in Requests : At(r, "query") /\ r \notin conns
            \/ /\ lock # None /\ state[lock] = "between"
               /\ rest[lock] = Tail(Tail(CreateShare))
               /\ \E r \in Requests : state[r] = "loop" /\ Op(r) = "write"

\* Every request ends, although the lock, the connections and the threads it
\* waits for may be held by requests that wait for the loop it keeps.
RequestsEnd == \A r \in Requests : state[r] # "idle" ~> state[r] = "idle"

=============================================================================
