--------------------------- MODULE PresenceProofs ---------------------------
(***************************************************************************)
(* Proofs about Presence, for any number of threads and connections: until *)
(* writers of the flag overlap, a user with a connection is online.        *)
(***************************************************************************)
EXTENDS Presence, TLAPS

\* What the event loop does fits the sockets it does it for, and the flag is
\* only cleared after the last of them.
EndpointsFit ==
  /\ \A s \in Sockets :
       /\ socket[s] = "connecting" => task[Loop] # None /\ task[Loop].op = "connect"
       /\ socket[s] = "beating" => task[Loop] # None /\ task[Loop].op = "beat"
       /\ \A r \in Sockets : {socket[r], socket[s]} \subseteq {"connecting", "beating"} => r = s
  /\ \A x \in Actors :
       task[x] # None /\ task[x].op = "gone" => x = Loop /\ ~IsUserConnected

\* Who works without overlap works alone, on the flag that is stored.
WorksAlone(x) ==
  /\ \A y \in Actors : task[y] # None => y = x
  /\ \A s \in Sockets : socket[s] # "saved"
  /\ task[x].was = online

\* A connection made known is online, until it is signed off or timed out.
KnownIsOnline ==
  dismissed \/ online \/ \A s \in Sockets : socket[s] \notin {"saved", "in", "beating"}

PresenceInv ==
  /\ TypeOK
  /\ EndpointsFit
  /\ ~overlapped => /\ \A x \in Actors : task[x] # None => WorksAlone(x)
                    /\ KnownIsOnline

LEMMA PresenceInit == Init => PresenceInv
  BY DEF Init, PresenceInv, TypeOK, EndpointsFit, WorksAlone, KnownIsOnline

\* Work that begins: its task is typed and, without overlap, alone.
LEMMA PresenceBegins ==
  ASSUME PresenceInv, NEW x \in Actors, NEW op \in Ops, Begin(x, op),
         UNCHANGED <<online, heartbeat, dismissed>>,
         \A s \in Sockets : socket'[s] = "saved" => socket[s] = "saved"
  PROVE  /\ task[x] = None /\ task'[x] = [op |-> op, was |-> online]
         /\ task'[x] # None
         /\ \A y \in Actors \ {x} : task'[y] = task[y]
         /\ task' \in [Actors -> Tasks \cup {None}]
         /\ overlapped' \in BOOLEAN
         /\ ~overlapped' => ~overlapped /\ \A y \in Actors : task'[y] # None => WorksAlone(y)'
  <1>1. [op |-> op, was |-> online] \in Tasks
    BY DEF PresenceInv, TypeOK, Tasks
  <1>2. [op |-> op, was |-> online] # None
    BY <1>1, PresenceAssumption
  <1>3. /\ task[x] = None /\ task'[x] = [op |-> op, was |-> online]
        /\ \A y \in Actors \ {x} : task'[y] = task[y]
        /\ task' \in [Actors -> Tasks \cup {None}]
    BY <1>1 DEF PresenceInv, TypeOK, Begin
  <1>4. overlapped' \in BOOLEAN
    BY DEF PresenceInv, TypeOK, Begin, Busy
  <1>5. ASSUME ~overlapped'
        PROVE  ~overlapped /\ \A y \in Actors : task'[y] # None => WorksAlone(y)'
    <2>1. /\ ~overlapped /\ \A y \in Actors : task[y] = None
          /\ \A s \in Sockets : socket[s] # "saved"
      BY <1>5 DEF Begin, Busy
    <2> QED  BY <1>3, <2>1 DEF WorksAlone
  <1> QED  BY <1>2, <1>3, <1>4, <1>5

LEMMA RequestKeepsPresence ==
  ASSUME PresenceInv, NEW t \in Threads, NEW op \in Ops, Request(t, op)
  PROVE  PresenceInv'
  <1>0. t \in Actors /\ t # Loop /\ Loop \in Actors
    BY PresenceAssumption DEF Actors
  <1>1. Begin(t, op) /\ UNCHANGED <<online, heartbeat, socket, dismissed>> /\ op # "gone"
    BY DEF Request
  <1>2. /\ task'[t] = [op |-> op, was |-> online]
        /\ \A y \in Actors \ {t} : task'[y] = task[y]
        /\ task' \in [Actors -> Tasks \cup {None}]
        /\ overlapped' \in BOOLEAN
        /\ ~overlapped' => ~overlapped /\ \A y \in Actors : task'[y] # None => WorksAlone(y)'
    BY <1>0, <1>1, PresenceBegins
  <1>3. EndpointsFit'
    BY <1>0, <1>1, <1>2 DEF PresenceInv, EndpointsFit, IsUserConnected
  <1> QED  BY <1>1, <1>2, <1>3 DEF PresenceInv, TypeOK, KnownIsOnline

LEMMA CheckKeepsPresence ==
  ASSUME PresenceInv, PresenceCheck
  PROVE  PresenceInv'
  <1>0. Scheduler \in Actors /\ Scheduler # Loop /\ Loop \in Actors /\ "check" \in Ops
    BY PresenceAssumption DEF Actors, Ops
  <1>1. Begin(Scheduler, "check") /\ UNCHANGED <<online, heartbeat, socket, dismissed>>
    BY DEF PresenceCheck
  <1>2. /\ task'[Scheduler] = [op |-> "check", was |-> online]
        /\ \A y \in Actors \ {Scheduler} : task'[y] = task[y]
        /\ task' \in [Actors -> Tasks \cup {None}]
        /\ overlapped' \in BOOLEAN
        /\ ~overlapped' => ~overlapped /\ \A y \in Actors : task'[y] # None => WorksAlone(y)'
    BY <1>0, <1>1, PresenceBegins
  <1>3. EndpointsFit'
    BY <1>0, <1>1, <1>2 DEF PresenceInv, EndpointsFit, IsUserConnected
  <1> QED  BY <1>1, <1>2, <1>3 DEF PresenceInv, TypeOK, KnownIsOnline

\* A message or a connection that begins: the loop is at work on its socket.
LEMMA EndpointKeepsPresence ==
  ASSUME PresenceInv, NEW s \in Sockets, Message(s) \/ Connect(s)
  PROVE  PresenceInv'
  <1>0. Loop \in Actors /\ {"beat", "connect"} \subseteq Ops
    BY DEF Actors, Ops
  <1>1. PICK op \in {"beat", "connect"} :
          /\ Begin(Loop, op) /\ UNCHANGED <<online, heartbeat, dismissed>>
          /\ socket' = [socket EXCEPT ![s] = IF op = "beat" THEN "beating" ELSE "connecting"]
          /\ socket[s] = IF op = "beat" THEN "in" ELSE "out"
    BY DEF Message, Connect
  <1>2. /\ socket'[s] = IF op = "beat" THEN "beating" ELSE "connecting"
        /\ \A r \in Sockets \ {s} : socket'[r] = socket[r]
        /\ socket' \in [Sockets -> {"out", "connecting", "saved", "in", "beating"}]
    BY <1>1 DEF PresenceInv, TypeOK
  <1>3. \A r \in Sockets : socket'[r] = "saved" => socket[r] = "saved"
    BY <1>2
  <1>4. /\ task[Loop] = None /\ task'[Loop] = [op |-> op, was |-> online]
        /\ task'[Loop] # None
        /\ \A y \in Actors \ {Loop} : task'[y] = task[y]
        /\ task' \in [Actors -> Tasks \cup {None}]
        /\ overlapped' \in BOOLEAN
        /\ ~overlapped' => ~overlapped /\ \A y \in Actors : task'[y] # None => WorksAlone(y)'
    BY <1>0, <1>1, <1>3, PresenceBegins
  <1>5. EndpointsFit'
    BY <1>1, <1>2, <1>4 DEF PresenceInv, EndpointsFit
  <1>6. ~overlapped' => KnownIsOnline'
    BY <1>1, <1>2, <1>4 DEF PresenceInv, KnownIsOnline
  <1> QED  BY <1>1, <1>2, <1>4, <1>5, <1>6 DEF PresenceInv, TypeOK

\* An accepted connection is registered, or it is gone by then.
LEMMA AcceptKeepsPresence ==
  ASSUME PresenceInv, NEW s \in Sockets, Register(s) \/ AcceptFails(s)
  PROVE  PresenceInv'
  <1>1. /\ socket[s] = "saved" /\ task[Loop] = None
        /\ socket'[s] \in {"in", "out"}
        /\ \A r \in Sockets \ {s} : socket'[r] = socket[r]
        /\ socket' \in [Sockets -> {"out", "connecting", "saved", "in", "beating"}]
        /\ UNCHANGED <<online, heartbeat, task, dismissed, overlapped>>
    BY DEF Register, AcceptFails, PresenceInv, TypeOK
  <1>2. EndpointsFit'
    BY <1>1 DEF PresenceInv, EndpointsFit
  <1>3. ~overlapped => \A x \in Actors : task[x] # None => WorksAlone(x)'
    BY <1>1 DEF PresenceInv, WorksAlone
  <1>4. ~overlapped => KnownIsOnline'
    BY <1>1 DEF PresenceInv, KnownIsOnline
  <1> QED  BY <1>1, <1>2, <1>3, <1>4 DEF PresenceInv, TypeOK

\* A connection ends.
LEMMA DisconnectKeepsPresence ==
  ASSUME PresenceInv, NEW s \in Sockets, Disconnect(s)
  PROVE  PresenceInv'
  <1>0. Loop \in Actors /\ "gone" \in Ops
    BY DEF Actors, Ops
  <1>1. /\ task[Loop] = None /\ socket[s] = "in" /\ socket'[s] = "out"
        /\ \A r \in Sockets \ {s} : socket'[r] = socket[r]
        /\ socket' \in [Sockets -> {"out", "connecting", "saved", "in", "beating"}]
        /\ UNCHANGED <<online, heartbeat, dismissed>>
    BY DEF Disconnect, PresenceInv, TypeOK
  <1>2. KnownIsOnline => KnownIsOnline'
    BY <1>1 DEF KnownIsOnline
  <1>3. CASE IsUserConnected' /\ UNCHANGED <<task, overlapped>>
    BY <1>1, <1>2, <1>3 DEF PresenceInv, TypeOK, EndpointsFit, WorksAlone
  <1>4. CASE ~IsUserConnected' /\ Begin(Loop, "gone")
    <2>1. /\ task'[Loop] = [op |-> "gone", was |-> online]
          /\ \A y \in Actors \ {Loop} : task'[y] = task[y]
          /\ task' \in [Actors -> Tasks \cup {None}]
          /\ overlapped' \in BOOLEAN
          /\ ~overlapped' => ~overlapped /\ \A y \in Actors : task'[y] # None => WorksAlone(y)'
      <3>1. \A r \in Sockets : socket'[r] = "saved" => socket[r] = "saved"
        BY <1>1
      <3> QED  BY <1>0, <1>1, <1>4, <3>1, PresenceBegins
    <2>2. EndpointsFit'
      BY <1>1, <1>4, <2>1 DEF PresenceInv, EndpointsFit
    <2> QED  BY <1>1, <1>2, <2>1, <2>2 DEF PresenceInv, TypeOK
  <1> QED  BY <1>3, <1>4 DEF Disconnect

\* A heartbeat message fails, and with it its connection.
LEMMA MessageFailsKeepsPresence ==
  ASSUME PresenceInv, NEW s \in Sockets, MessageFails(s)
  PROVE  PresenceInv'
  <1>1. /\ task[Loop] # None /\ task[Loop].op = "beat" /\ Loop \in Actors
        /\ \A x \in Actors : task[x] # None /\ task[x].op = "gone" => x = Loop
    BY DEF MessageFails, PresenceInv, EndpointsFit, Actors
  <1>2. /\ socket[s] = "beating" /\ socket'[s] = "out"
        /\ \A r \in Sockets \ {s} : socket'[r] = socket[r]
        /\ socket' \in [Sockets -> {"out", "connecting", "saved", "in", "beating"}]
        /\ UNCHANGED <<online, heartbeat, dismissed>>
    BY DEF MessageFails, PresenceInv, TypeOK
  <1>3. KnownIsOnline => KnownIsOnline'
    BY <1>2 DEF KnownIsOnline
  <1>4. CASE task' = [task EXCEPT ![Loop] = None] /\ UNCHANGED overlapped
    <2>1. /\ task'[Loop] = None /\ task' \in [Actors -> Tasks \cup {None}]
          /\ \A y \in Actors \ {Loop} : task'[y] = task[y]
      BY <1>1, <1>4 DEF PresenceInv, TypeOK
    <2>2. EndpointsFit'
      BY <1>1, <1>2, <2>1 DEF PresenceInv, EndpointsFit
    <2>3. ~overlapped => \A x \in Actors : task'[x] # None => WorksAlone(x)'
      BY <1>1, <1>2, <1>4, <2>1 DEF PresenceInv, WorksAlone
    <2> QED  BY <1>2, <1>3, <1>4, <2>1, <2>2, <2>3 DEF PresenceInv, TypeOK
  <1>5. CASE /\ ~IsUserConnected'
             /\ task' = [task EXCEPT ![Loop] = [op |-> "gone", was |-> online]]
             /\ overlapped' = (overlapped \/ \E x \in Actors \ {Loop} : task[x] # None)
    <2>1. /\ task'[Loop] = [op |-> "gone", was |-> online]
          /\ \A y \in Actors \ {Loop} : task'[y] = task[y]
          /\ task' \in [Actors -> Tasks \cup {None}]
          /\ overlapped' \in BOOLEAN
      <3>1. [op |-> "gone", was |-> online] \in Tasks
        BY DEF PresenceInv, TypeOK, Tasks, Ops
      <3>2. overlapped' \in BOOLEAN
        BY <1>5 DEF PresenceInv, TypeOK
      <3> QED  BY <1>1, <1>5, <3>1, <3>2 DEF PresenceInv, TypeOK
    <2>2. EndpointsFit'
      BY <1>1, <1>2, <1>5, <2>1 DEF PresenceInv, EndpointsFit
    <2>3. ASSUME ~overlapped'
          PROVE  ~overlapped /\ \A x \in Actors : task'[x] # None => WorksAlone(x)'
      <3>1. ~overlapped /\ \A x \in Actors \ {Loop} : task[x] = None
        BY <1>5, <2>3
      <3>2. \A r \in Sockets : socket[r] # "saved"
        BY <1>1, <3>1 DEF PresenceInv, WorksAlone
      <3> QED  BY <1>2, <2>1, <3>1, <3>2 DEF WorksAlone
    <2> QED  BY <1>2, <1>3, <2>1, <2>2, <2>3 DEF PresenceInv, TypeOK
  <1> QED  BY <1>4, <1>5 DEF MessageFails

\* A commit without overlap stores the value its operation gives the flag.
LEMMA PresenceStored ==
  ASSUME PresenceInv, ~overlapped, NEW x \in Actors, Commit(x)
  PROVE  /\ online' = Sets(task[x].op)
         /\ \A y \in Actors : task'[y] = None
         /\ KnownIsOnline'
  <1>1. /\ task[x] # None /\ WorksAlone(x) /\ KnownIsOnline
        /\ task[x] \in Tasks
    BY DEF PresenceInv, TypeOK, Commit
  <1>2. task[x].op \in Ops /\ task[x].was = online /\ online \in BOOLEAN
    BY <1>1 DEF WorksAlone, Tasks, PresenceInv, TypeOK
  <1>3. Sets(task[x].op) \in BOOLEAN
    BY DEF Sets
  <1>4. online' = Sets(task[x].op)
    BY <1>2, <1>3 DEF Commit
  <1>5. \A y \in Actors : task'[y] = None
    BY <1>1 DEF WorksAlone, Commit, PresenceInv, TypeOK
  <1>6. KnownIsOnline'
    <2>1. CASE Sets(task[x].op)
      BY <1>4, <2>1 DEF KnownIsOnline
    <2>2. CASE task[x].op \in {"off", "check"}
      BY <2>2 DEF Commit, KnownIsOnline
    <2>3. CASE task[x].op = "gone"
      <3>1. x = Loop /\ ~IsUserConnected
        BY <1>1, <2>3 DEF PresenceInv, EndpointsFit
      <3>2. \A s \in Sockets : socket[s] \in {"out"}
        BY <1>1, <2>3, <3>1
           DEF PresenceInv, TypeOK, EndpointsFit, WorksAlone, IsUserConnected
      <3>3. \A s \in Sockets : socket'[s] = "out"
        BY <3>2 DEF Commit, Committed
      <3> QED  BY <3>3 DEF KnownIsOnline
    <2> QED  BY <1>2, <2>1, <2>2, <2>3 DEF Ops, Sets
  <1> QED  BY <1>4, <1>5, <1>6

LEMMA CommitKeepsPresence ==
  ASSUME PresenceInv, NEW x \in Actors, Commit(x)
  PROVE  PresenceInv'
  <1>1. /\ task[x] # None /\ task[x] \in Tasks /\ task[x].op \in Ops
        /\ task'[x] = None /\ \A y \in Actors \ {x} : task'[y] = task[y]
        /\ task' \in [Actors -> Tasks \cup {None}] /\ Loop \in Actors
        /\ UNCHANGED overlapped
    BY DEF PresenceInv, TypeOK, Commit, Tasks, Actors
  <1>2. \A s \in Sockets :
          socket'[s] = IF x = Loop /\ socket[s] = "connecting" THEN "saved"
                       ELSE IF x = Loop /\ socket[s] = "beating" THEN "in"
                       ELSE socket[s]
    BY DEF Commit, Committed
  <1>3. socket' \in [Sockets -> {"out", "connecting", "saved", "in", "beating"}]
    <2>1. \A s \in Sockets : socket'[s] \in {"out", "connecting", "saved", "in", "beating"}
      BY <1>2 DEF PresenceInv, TypeOK
    <2>2. socket' = [s \in Sockets |-> socket'[s]]
      BY DEF Commit
    <2> QED  BY <2>1, <2>2
  <1>4. online' \in BOOLEAN /\ dismissed' \in BOOLEAN
    <2>1. Sets(task[x].op) \in BOOLEAN /\ online \in BOOLEAN
      BY DEF Sets, PresenceInv, TypeOK
    <2> QED  BY <2>1 DEF Commit
  <1>5. heartbeat' \in {"none", "fresh", "stale"}
    BY DEF Commit, PresenceInv, TypeOK
  <1>6. EndpointsFit'
    <2>1. ASSUME NEW y \in Actors, task'[y] # None, task'[y].op = "gone"
          PROVE  y = Loop /\ ~IsUserConnected'
      <3>1. y # x /\ task[y] # None /\ task[y].op = "gone"
        BY <1>1, <2>1
      <3>2. y = Loop /\ ~IsUserConnected
        BY <3>1 DEF PresenceInv, EndpointsFit
      <3> QED  BY <1>2, <3>1, <3>2 DEF IsUserConnected
    <2> QED  BY <1>1, <1>2, <2>1 DEF PresenceInv, EndpointsFit
  <1>7. ~overlapped => /\ \A y \in Actors : task'[y] # None => WorksAlone(y)'
                       /\ KnownIsOnline'
    BY PresenceStored
  <1> QED  BY <1>1, <1>3, <1>4, <1>5, <1>6, <1>7 DEF PresenceInv, TypeOK

LEMMA CommitFailsKeepsPresence ==
  ASSUME PresenceInv, NEW x \in Actors, CommitFails(x)
  PROVE  PresenceInv'
  <1>1. /\ task[x] # None /\ ~(x = Loop /\ task[x].op = "beat")
        /\ task'[x] = None /\ \A y \in Actors \ {x} : task'[y] = task[y]
        /\ task' \in [Actors -> Tasks \cup {None}] /\ Loop \in Actors
        /\ UNCHANGED <<online, heartbeat, dismissed, overlapped>>
    BY DEF PresenceInv, TypeOK, CommitFails, Actors
  <1>2. \A s \in Sockets :
          socket'[s] = IF x = Loop /\ socket[s] = "connecting" THEN "out" ELSE socket[s]
    BY DEF CommitFails
  <1>3. socket' \in [Sockets -> {"out", "connecting", "saved", "in", "beating"}]
    <2>1. \A s \in Sockets : socket'[s] \in {"out", "connecting", "saved", "in", "beating"}
      BY <1>2 DEF PresenceInv, TypeOK
    <2>2. socket' = [s \in Sockets |-> socket'[s]]
      BY DEF CommitFails
    <2> QED  BY <2>1, <2>2
  <1>4. EndpointsFit'
    BY <1>1, <1>2 DEF PresenceInv, EndpointsFit, IsUserConnected
  <1>5. ~overlapped => \A y \in Actors : task'[y] # None => WorksAlone(y)'
    BY <1>1, <1>2 DEF PresenceInv, WorksAlone
  <1>6. ~overlapped => KnownIsOnline'
    BY <1>1, <1>2 DEF PresenceInv, KnownIsOnline
  <1> QED  BY <1>1, <1>3, <1>4, <1>5, <1>6 DEF PresenceInv, TypeOK

LEMMA PresenceNext == PresenceInv /\ [Next]_vars => PresenceInv'
  <1> SUFFICES ASSUME PresenceInv, [Next]_vars PROVE PresenceInv'
    OBVIOUS
  <1>1. ASSUME NEW t \in Threads, NEW op \in Ops, Request(t, op) PROVE PresenceInv'
    BY <1>1, RequestKeepsPresence
  <1>2. ASSUME NEW s \in Sockets,
               \/ Message(s) \/ Connect(s) \/ Register(s) \/ AcceptFails(s)
               \/ Disconnect(s) \/ MessageFails(s)
        PROVE  PresenceInv'
    BY <1>2, EndpointKeepsPresence, AcceptKeepsPresence, DisconnectKeepsPresence,
       MessageFailsKeepsPresence
  <1>3. ASSUME NEW x \in Actors, Commit(x) \/ CommitFails(x) PROVE PresenceInv'
    BY <1>3, CommitKeepsPresence, CommitFailsKeepsPresence
  <1>4. ASSUME Age \/ UNCHANGED vars PROVE PresenceInv'
    <2>1. /\ UNCHANGED <<online, socket, task, dismissed, overlapped>>
          /\ heartbeat' \in {heartbeat, "stale"}
      BY <1>4 DEF Age, vars
    <2> QED  BY <2>1 DEF PresenceInv, TypeOK, EndpointsFit, IsUserConnected,
                         WorksAlone, KnownIsOnline
  <1> QED  BY <1>1, <1>2, <1>3, <1>4, CheckKeepsPresence DEF Next

\* The types of Presence.
THEOREM PresenceTypeCorrect == Spec => []TypeOK
  <1>1. PresenceInv => TypeOK
    BY DEF PresenceInv
  <1> QED  BY PresenceInit, PresenceNext, <1>1, PTL DEF Spec

\* Until writers of the flag overlap, a user with a connection is online unless
\* signed off or timed out since, whatever number of connections begin and end.
THEOREM SerialConnectedIsOnline == Spec => []ConnectedIsOnline
  <1>1. PresenceInv => ConnectedIsOnline
    BY DEF PresenceInv, KnownIsOnline, ConnectedIsOnline, IsUserConnected
  <1> QED  BY PresenceInit, PresenceNext, <1>1, PTL DEF Spec

=============================================================================
