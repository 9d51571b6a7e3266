------------------------------ MODULE Presence ------------------------------
(***************************************************************************)
(* One user's presence: users.is_online and users.last_heartbeat with all  *)
(* who write them.  These are the handlers of api/presence.py and those of *)
(* api/auth.py and api/admin.py that set the flag, in threads;             *)
(* presence_check of scheduler/jobs.py; and ws/endpoint.py with the        *)
(* heartbeat message of ws/manager.py, on the event loop.                  *)
(*                                                                         *)
(* Each loads the user and then commits; the ORM writes the flag only if   *)
(* it differs from the value loaded.  On the event loop nothing comes      *)
(* between the two, but threads do.                                        *)
(***************************************************************************)
EXTENDS FiniteSets

CONSTANTS
  Threads,    \* request handlers that run at the same time
  Scheduler,  \* the scheduler's thread
  Loop,       \* the event loop
  Sockets,    \* the user's WebSocket connections
  None        \* nothing between load and commit

Actors == Threads \cup {Scheduler, Loop}

\* What is done, and the flag it was loaded with.
Ops == {"beat", "login", "off", "check", "connect", "gone"}
Tasks == [op : Ops, was : BOOLEAN]

ASSUME PresenceAssumption ==
  /\ Scheduler \notin Threads \cup {Loop}
  /\ Loop \notin Threads
  /\ None \notin Tasks

VARIABLES
  online,     \* users.is_online
  heartbeat,  \* users.last_heartbeat: NULL, fresh, or older than the timeout
  socket,     \* per connection: where its endpoint is
  task,       \* per actor: what it has loaded and not committed yet
  dismissed,  \* history: signed off or timed out, and not come back since
  overlapped  \* history: somebody has begun while another was at work

vars == <<online, heartbeat, socket, task, dismissed, overlapped>>

TypeOK ==
  /\ online \in BOOLEAN
  /\ heartbeat \in {"none", "fresh", "stale"}
  /\ socket \in [Sockets -> {"out", "connecting", "saved", "in", "beating"}]
  /\ task \in [Actors -> Tasks \cup {None}]
  /\ dismissed \in BOOLEAN
  /\ overlapped \in BOOLEAN

Init ==
  /\ online = FALSE
  /\ heartbeat = "none"
  /\ socket = [s \in Sockets |-> "out"]
  /\ task = [x \in Actors |-> None]
  /\ dismissed = FALSE
  /\ overlapped = FALSE

\* Somebody is between load and commit, or between commit and registration.
Busy == (\E x \in Actors : task[x] # None) \/ \E s \in Sockets : socket[s] = "saved"

Begin(x, op) ==
  /\ task[x] = None
  /\ task' = [task EXCEPT ![x] = [op |-> op, was |-> online]]
  /\ overlapped' = (overlapped \/ Busy)

\* manager.is_user_connected
IsUserConnected == \E s \in Sockets : socket[s] \in {"in", "beating"}

\* Mutant: a heartbeat only updates last_heartbeat.
SetsUnlessBeat(op) == op \in {"login", "connect"}

\* The value the operation gives the flag.
Sets(op) == op \in {"beat", "login", "connect"}

-----------------------------------------------------------------------------
(***************************************************************************)
(* More mutants, not used by the specification.                            *)
(***************************************************************************)
\* The flag is cleared whenever a connection ends.
DisconnectClearing(s) ==
  /\ socket[s] = "in"
  /\ socket' = [socket EXCEPT ![s] = "out"]
  /\ Begin(Loop, "gone")
  /\ UNCHANGED <<online, heartbeat, dismissed>>

\* The check looks for heartbeats that are missing.
CheckNull ==
  /\ online /\ heartbeat = "none"
  /\ Begin(Scheduler, "check")
  /\ UNCHANGED <<online, heartbeat, socket, dismissed>>

-----------------------------------------------------------------------------
(***************************************************************************)
(* What begins                                                             *)
(***************************************************************************)
\* POST /presence/heartbeat and /online (beat); _create_session, by login and
\* refresh (login); POST /presence/offline, logout, force_logout (off).
Request(t, op) ==
  /\ op \in {"beat", "login", "off"}
  /\ Begin(t, op)
  /\ UNCHANGED <<online, heartbeat, socket, dismissed>>

\* presence_check finds users who are online with an old heartbeat.
PresenceCheck ==
  /\ online /\ heartbeat = "stale"
  /\ Begin(Scheduler, "check")
  /\ UNCHANGED <<online, heartbeat, socket, dismissed>>

\* The heartbeat message of a connection.
Message(s) ==
  /\ socket[s] = "in"
  /\ Begin(Loop, "beat")
  /\ socket' = [socket EXCEPT ![s] = "beating"]
  /\ UNCHANGED <<online, heartbeat, dismissed>>

\* The endpoint has checked the token and loads the user.
Connect(s) ==
  /\ socket[s] = "out"
  /\ Begin(Loop, "connect")
  /\ socket' = [socket EXCEPT ![s] = "connecting"]
  /\ UNCHANGED <<online, heartbeat, dismissed>>

(***************************************************************************)
(* Commits                                                                 *)
(***************************************************************************)
\* Where the endpoint that commits goes on.
Committed == [connecting |-> "saved", beating |-> "in"]

Commit(x) ==
  /\ task[x] # None
  /\ LET op == task[x].op IN
       /\ online' = IF Sets(op) = task[x].was THEN online ELSE Sets(op)
       /\ heartbeat' = IF op \in {"beat", "connect"} THEN "fresh" ELSE heartbeat
       /\ dismissed' = (op \in {"off", "check"} \/ (dismissed /\ ~Sets(op)))
       /\ socket' = [s \in Sockets |->
                       IF x = Loop /\ socket[s] \in DOMAIN Committed
                       THEN Committed[socket[s]] ELSE socket[s]]
  /\ task' = [task EXCEPT ![x] = None]
  /\ UNCHANGED overlapped

\* The database stays locked.  An endpoint that was connecting ends.
CommitFails(x) ==
  /\ task[x] # None /\ ~(x = Loop /\ task[x].op = "beat")
  /\ socket' = [s \in Sockets |->
                  IF x = Loop /\ socket[s] = "connecting" THEN "out" ELSE socket[s]]
  /\ task' = [task EXCEPT ![x] = None]
  /\ UNCHANGED <<online, heartbeat, dismissed, overlapped>>

\* A heartbeat message that fails ends its connection, as Disconnect does.
MessageFails(s) ==
  /\ socket[s] = "beating"
  /\ socket' = [socket EXCEPT ![s] = "out"]
  /\ \/ /\ IsUserConnected'
        /\ task' = [task EXCEPT ![Loop] = None]
        /\ UNCHANGED overlapped
     \/ /\ ~IsUserConnected'
        /\ task' = [task EXCEPT ![Loop] = [op |-> "gone", was |-> online]]
        /\ overlapped' = (overlapped \/ \E x \in Actors \ {Loop} : task[x] # None)
  /\ UNCHANGED <<online, heartbeat, dismissed>>

(***************************************************************************)
(* The rest of the endpoint                                                *)
(***************************************************************************)
\* The connection is accepted, for which the endpoint waits, and registered.
Register(s) ==
  /\ task[Loop] = None /\ socket[s] = "saved"
  /\ socket' = [socket EXCEPT ![s] = "in"]
  /\ UNCHANGED <<online, heartbeat, task, dismissed, overlapped>>

\* It is gone by then: the endpoint ends before it has registered anything.
AcceptFails(s) ==
  /\ task[Loop] = None /\ socket[s] = "saved"
  /\ socket' = [socket EXCEPT ![s] = "out"]
  /\ UNCHANGED <<online, heartbeat, task, dismissed, overlapped>>

\* Only the last connection goes on to clear the flag.
Disconnect(s) ==
  /\ socket[s] = "in" /\ task[Loop] = None
  /\ socket' = [socket EXCEPT ![s] = "out"]
  /\ IF IsUserConnected' THEN UNCHANGED <<task, overlapped>> ELSE Begin(Loop, "gone")
  /\ UNCHANGED <<online, heartbeat, dismissed>>

\* heartbeat_timeout_seconds pass.
Age ==
  /\ heartbeat = "fresh"
  /\ heartbeat' = "stale"
  /\ UNCHANGED <<online, socket, task, dismissed, overlapped>>

Next ==
  \/ \E t \in Threads, op \in Ops : Request(t, op)
  \/ PresenceCheck
  \/ \E s \in Sockets :
       Message(s) \/ Connect(s) \/ Register(s) \/ AcceptFails(s) \/ Disconnect(s) \/ MessageFails(s)
  \/ \E x \in Actors : Commit(x) \/ CommitFails(x)
  \/ Age

\* The scheduler comes round every three minutes, and its commits do not fail
\* for ever: the database is not locked all the time.
Fairness == WF_vars(PresenceCheck) /\ SF_vars(Commit(Scheduler))

Spec == Init /\ [][Next]_vars /\ Fairness

-----------------------------------------------------------------------------
(***************************************************************************)
(* Properties                                                              *)
(***************************************************************************)
\* Without overlap a user with a connection is online, unless signed off or
\* timed out since: the end of one of two connections takes nobody offline.
ConnectedIsOnline == ~overlapped /\ IsUserConnected /\ ~dismissed => online

\* A user whose last heartbeat has grown old goes offline or is heard again.
\* One whose heartbeat is NULL is no such user: the check compares with NULL,
\* which is never true, and the user may stay online for ever.
StaleGoesOffline ==
  online /\ heartbeat = "stale" ~> ~online \/ heartbeat # "stale"

\* Whoever keeps sending heartbeats is shown online again and again, whatever
\* overlaps with them.
HeartbeatsKeepOnline ==
  []<><<\E x \in Threads \cup {Loop} : task[x] # None /\ task[x].op = "beat" /\ Commit(x)>>_vars
    => []<>online

=============================================================================
