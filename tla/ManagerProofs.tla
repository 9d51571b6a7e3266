---------------------------- MODULE ManagerProofs ----------------------------
(***************************************************************************)
(* Proofs about what ws/manager.py does: the connection registry and its   *)
(* fan-outs (Connections), file requests (FileRequests) and the SVN relay  *)
(* (SvnRelay).  The last two use the registry only as Connections allows,  *)
(* so what is proved of it first holds of both.  A proof about one of them *)
(* cites that module's assumption, and not the other's.                    *)
(***************************************************************************)
EXTENDS FileRequests, SvnRelay, TLAPS

-----------------------------------------------------------------------------
(***************************************************************************)
(* Connections: a fan-out reaches every socket that stays, and none twice, *)
(* for any number of users, sockets and fan-outs.                          *)
(***************************************************************************)
\* What each fan-out knows.  The sockets it owes the message to are healthy;
\* each of them has it or is still on the list; while the list is the one in
\* the dictionary, whoever has the message is registered, so that a socket
\* appended to the list is not one that has it.
FanOutKnows(t) ==
  /\ fan[t].due \subseteq {c \in Conns : ws[c] = "open"}
  /\ fan[t].due \subseteq fan[t].got \cup fan[t].todo
  /\ fan[t].got \cap fan[t].todo = {}
  /\ fan[t].live => \A c \in fan[t].got : Registered(c)

FanOutInv ==
  /\ ConnTypeOK
  /\ \A t \in Sending : FanOutKnows(t)

LEMMA FanOutTyped ==
  ASSUME ConnTypeOK, NEW t \in Sending
  PROVE  /\ fan[t] \in FanOut /\ t \in Senders
         /\ fan[t].due \subseteq SocketsOf(fan[t].to)
         /\ fan[t].todo \subseteq SocketsOf(fan[t].to)
         /\ fan[t].got \subseteq SocketsOf(fan[t].to)
  BY DEF ConnTypeOK, Sending

LEMMA InitFanOut == ConnInit => FanOutInv
  BY DEF ConnInit, FanOutInv, ConnTypeOK, Sending

\* A step that changes each running fan-out into a fan-out to the same user,
\* and no idle sender, is typed if each change is.
LEMMA EachFanOut ==
  ASSUME ConnTypeOK, NEW f,
         \A t \in Sending : /\ f[t] \in FanOut
                            /\ f[t].to = fan[t].to
                            /\ f[t].due \cup f[t].todo \cup f[t].got
                                 \subseteq SocketsOf(fan[t].to),
         fan' = [t \in Senders |-> IF t \in Sending THEN f[t] ELSE fan[t]],
         ws' \in [Conns -> {"closed", "open", "lost"}]
  PROVE  /\ ConnTypeOK'
         /\ Sending' = Sending
         /\ \A t \in Sending : fan'[t] = f[t]
  <1>1. \A t \in Senders : t \notin Sending => fan[t] = None /\ fan'[t] = None
    BY DEF Sending
  <1>2. \A t \in Sending : t \in Senders /\ fan'[t] = f[t] /\ fan'[t] # None
    BY ConnectionsAssumption DEF Sending
  <1>3. Sending' = Sending
    BY <1>1, <1>2 DEF Sending
  <1>4. fan' \in [Senders -> FanOut \cup {None}]
    BY <1>1, <1>2
  <1> QED  BY <1>2, <1>3, <1>4 DEF ConnTypeOK, SocketsOf

LEMMA ConnectInv ==
  ASSUME FanOutInv, NEW c \in Conns, Connect(c)
  PROVE  FanOutInv'
  <1> DEFINE f == [t \in Sending |->
                     IF fan[t].live /\ fan[t].to = ConnUser[c]
                       THEN [fan[t] EXCEPT !.todo = @ \cup {c}] ELSE fan[t]]
  <1>1. fan' = [t \in Senders |-> IF t \in Sending THEN f[t] ELSE fan[t]]
    BY DEF Connect
  <1>2. \A t \in Sending : /\ f[t] \in FanOut
                           /\ f[t].to = fan[t].to /\ f[t].due = fan[t].due
                           /\ f[t].got = fan[t].got /\ f[t].live = fan[t].live
                           /\ f[t].todo = IF fan[t].live /\ fan[t].to = ConnUser[c]
                                            THEN fan[t].todo \cup {c} ELSE fan[t].todo
    BY FanOutTyped DEF FanOutInv, FanOut
  <1>3. \A t \in Sending : f[t].due \cup f[t].todo \cup f[t].got
                              \subseteq SocketsOf(fan[t].to)
    BY <1>2, FanOutTyped DEF FanOutInv, SocketsOf
  <1>4. ws' \in [Conns -> {"closed", "open", "lost"}]
        /\ ws'[c] = "open" /\ ws[c] = "closed"
        /\ \A d \in Conns \ {c} : ws'[d] = ws[d]
    BY DEF Connect, FanOutInv, ConnTypeOK
  <1> HIDE DEF f
  <1>5. ConnTypeOK' /\ Sending' = Sending /\ \A t \in Sending : fan'[t] = f[t]
    BY <1>1, <1>2, <1>3, <1>4, EachFanOut DEF FanOutInv
  <1>6. ASSUME NEW t \in Sending PROVE FanOutKnows(t)'
    <2>1. FanOutKnows(t) /\ fan[t].due \subseteq Conns /\ fan[t].got \subseteq Conns
      BY FanOutTyped DEF FanOutInv, SocketsOf
    <2>2. fan[t].due \subseteq {d \in Conns : ws'[d] = "open"}
      BY <1>4, <2>1 DEF FanOutKnows
    <2>3. fan[t].live => c \notin fan[t].got
      BY <1>4, <2>1 DEF FanOutKnows, Registered
    <2>4. fan[t].live => \A d \in fan[t].got : ws'[d] # "closed"
      BY <1>4, <2>1 DEF FanOutKnows, Registered
    <2>5. /\ fan'[t].due = fan[t].due /\ fan'[t].got = fan[t].got
          /\ fan'[t].live = fan[t].live
          /\ fan'[t].todo = fan[t].todo \/ (fan[t].live /\ fan'[t].todo = fan[t].todo \cup {c})
      BY <1>2, <1>5
    <2>6. fan'[t].due \subseteq fan'[t].got \cup fan'[t].todo
      BY <2>1, <2>5 DEF FanOutKnows
    <2>7. fan'[t].got \cap fan'[t].todo = {}
      BY <2>1, <2>3, <2>5 DEF FanOutKnows
    <2> QED  BY <2>2, <2>4, <2>5, <2>6, <2>7 DEF FanOutKnows, Registered
  <1> QED  BY <1>5, <1>6 DEF FanOutInv

LEMMA LoseInv ==
  ASSUME FanOutInv, NEW c \in Conns, Lose(c)
  PROVE  FanOutInv'
  <1> DEFINE f == [t \in Sending |-> [fan[t] EXCEPT !.due = @ \ {c}]]
  <1>1. fan' = [t \in Senders |-> IF t \in Sending THEN f[t] ELSE fan[t]]
    BY DEF Lose
  <1>2. \A t \in Sending : /\ f[t] \in FanOut
                           /\ f[t].to = fan[t].to /\ f[t].due = fan[t].due \ {c}
                           /\ f[t].got = fan[t].got /\ f[t].live = fan[t].live
                           /\ f[t].todo = fan[t].todo
    BY FanOutTyped DEF FanOutInv, FanOut
  <1>3. \A t \in Sending : f[t].due \cup f[t].todo \cup f[t].got
                              \subseteq SocketsOf(fan[t].to)
    BY <1>2, FanOutTyped DEF FanOutInv
  <1>4. ws' \in [Conns -> {"closed", "open", "lost"}]
        /\ ws'[c] = "lost" /\ \A d \in Conns \ {c} : ws'[d] = ws[d]
    BY DEF Lose, FanOutInv, ConnTypeOK
  <1> HIDE DEF f
  <1>5. ConnTypeOK' /\ Sending' = Sending /\ \A t \in Sending : fan'[t] = f[t]
    BY <1>1, <1>2, <1>3, <1>4, EachFanOut DEF FanOutInv
  <1>6. ASSUME NEW t \in Sending PROVE FanOutKnows(t)'
    <2>1. FanOutKnows(t) /\ fan[t].got \subseteq Conns
      BY FanOutTyped DEF FanOutInv, SocketsOf
    <2> QED  BY <1>2, <1>4, <1>5, <2>1 DEF FanOutKnows, Registered
  <1> QED  BY <1>5, <1>6 DEF FanOutInv

LEMMA DisconnectInv ==
  ASSUME FanOutInv, NEW c \in Conns, Disconnect(c)
  PROVE  FanOutInv'
  <1> DEFINE f == [t \in Sending |->
                 [fan[t] EXCEPT !.due = @ \ {c}, !.todo = @ \ {c},
                    !.live = @ /\ fan[t].to # ConnUser[c]]]
  <1>1. fan' = [t \in Senders |-> IF t \in Sending THEN f[t] ELSE fan[t]]
    BY DEF Disconnect
  <1>2. \A t \in Sending : /\ f[t] \in FanOut
                           /\ f[t].to = fan[t].to /\ f[t].due = fan[t].due \ {c}
                           /\ f[t].got = fan[t].got
                           /\ f[t].live => fan[t].live /\ fan[t].to # ConnUser[c]
                           /\ f[t].todo = fan[t].todo \ {c}
    BY FanOutTyped DEF FanOutInv, FanOut
  <1> HIDE DEF f
  <1>3. \A t \in Sending : f[t].due \cup f[t].todo \cup f[t].got
                              \subseteq SocketsOf(fan[t].to)
    BY <1>2, FanOutTyped DEF FanOutInv
  <1>4. ws' \in [Conns -> {"closed", "open", "lost"}]
        /\ ws'[c] = "closed" /\ \A d \in Conns \ {c} : ws'[d] = ws[d]
    BY DEF Disconnect, FanOutInv, ConnTypeOK
  <1>5. ConnTypeOK' /\ Sending' = Sending /\ \A t \in Sending : fan'[t] = f[t]
    BY <1>1, <1>2, <1>3, <1>4, EachFanOut DEF FanOutInv
  <1>6. ASSUME NEW t \in Sending PROVE FanOutKnows(t)'
    <2>1. FanOutKnows(t) /\ \A d \in fan[t].got : d \in Conns /\ ConnUser[d] = fan[t].to
      BY FanOutTyped DEF FanOutInv, SocketsOf
    <2>2. f[t].live => \A d \in fan[t].got : ws'[d] # "closed"
      BY <1>2, <1>4, <2>1 DEF FanOutKnows, Registered
    <2> QED  BY <1>2, <1>4, <1>5, <2>1, <2>2 DEF FanOutKnows, Registered
  <1> QED  BY <1>5, <1>6 DEF FanOutInv

\* Starting a fan-out establishes what it has to know.
LEMMA SendInv ==
  ASSUME FanOutInv, NEW t \in Senders, t \notin Sending, NEW u \in Users,
         SendToUser(t, u), UNCHANGED ws
  PROVE  FanOutInv'
  <1>1. CASE UNCHANGED fan
    BY <1>1 DEF FanOutInv, ConnTypeOK, Sending, FanOutKnows, Registered, SocketsOf
  <1> DEFINE r == [to |-> u, due |-> {c \in Connections(u) : ws[c] = "open"},
                   todo |-> Connections(u), got |-> {}, live |-> TRUE]
  <1>2. CASE fan' = [fan EXCEPT ![t] = r]
    <2>1. r \in FanOut /\ r # None /\ r.due \cup r.todo \cup r.got \subseteq SocketsOf(u)
      <3>1. r \in FanOut
        BY DEF FanOut, Connections, SocketsOf
      <3> QED  BY <3>1, ConnectionsAssumption DEF Connections, SocketsOf
    <2>2. /\ r.to = u /\ r.due = {c \in Connections(u) : ws[c] = "open"}
          /\ r.todo = Connections(u) /\ r.got = {} /\ r.live
      OBVIOUS
    <2> HIDE DEF r
    <2>3. fan'[t] = r /\ \A s \in Senders \ {t} : fan'[s] = fan[s]
      BY <1>2 DEF FanOutInv, ConnTypeOK
    <2>4. Sending' = Sending \cup {t} /\ fan' \in [Senders -> FanOut \cup {None}]
      BY <1>2, <2>1, <2>3 DEF Sending, FanOutInv, ConnTypeOK
    <2>5. ConnTypeOK'
      BY <2>1, <2>2, <2>3, <2>4 DEF FanOutInv, ConnTypeOK, Sending, SocketsOf
    <2>6. FanOutKnows(t)'
      BY <2>2, <2>3 DEF FanOutKnows, Connections, SocketsOf, Registered
    <2>7. \A s \in Sending : FanOutKnows(s)'
      BY <2>3 DEF FanOutInv, FanOutKnows, Registered, Sending
    <2> QED  BY <2>4, <2>5, <2>6, <2>7 DEF FanOutInv
  <1> QED  BY <1>1, <1>2 DEF SendToUser

LEMMA DeliverInv ==
  ASSUME FanOutInv, NEW t \in Senders, Deliver(t)
  PROVE  FanOutInv'
  <1>1. PICK d \in fan[t].todo :
          fan' = [fan EXCEPT ![t].todo = @ \ {d},
                             ![t].got  = IF ws[d] = "open" THEN @ \cup {d} ELSE @]
    BY DEF Deliver
  <1>2. t \in Sending /\ fan[t] \in FanOut /\ FanOutKnows(t) /\ d \in SocketsOf(fan[t].to)
    BY FanOutTyped DEF Deliver, FanOutInv
  <1>3. /\ fan'[t].to = fan[t].to /\ fan'[t].due = fan[t].due
        /\ fan'[t].live = fan[t].live /\ fan'[t].todo = fan[t].todo \ {d}
        /\ fan'[t].got = IF ws[d] = "open" THEN fan[t].got \cup {d} ELSE fan[t].got
        /\ fan'[t] \in FanOut
    BY <1>1, <1>2 DEF FanOutInv, ConnTypeOK, FanOut, SocketsOf
  <1>4. \A s \in Senders \ {t} : fan'[s] = fan[s]
    BY <1>1 DEF FanOutInv, ConnTypeOK
  <1>5. fan' \in [Senders -> FanOut \cup {None}] /\ UNCHANGED ws
    BY <1>1, <1>3, <1>4 DEF FanOutInv, ConnTypeOK, Deliver
  <1>6. Sending' = Sending
    BY <1>2, <1>3, <1>4, ConnectionsAssumption DEF Sending
  <1>7. ConnTypeOK'
    BY <1>2, <1>3, <1>4, <1>5, <1>6 DEF FanOutInv, ConnTypeOK, Sending, SocketsOf
  <1>8. FanOutKnows(t)'
    BY <1>2, <1>3, <1>5 DEF FanOutKnows, Registered
  <1>9. \A s \in Sending \ {t} : FanOutKnows(s)'
    BY <1>4, <1>5 DEF FanOutInv, FanOutKnows, Registered, Sending
  <1> QED  BY <1>6, <1>7, <1>8, <1>9 DEF FanOutInv

LEMMA ReturnInv ==
  ASSUME FanOutInv, NEW t \in Senders, Return(t)
  PROVE  FanOutInv'
  <1>1. fan'[t] = None /\ (\A s \in Senders \ {t} : fan'[s] = fan[s]) /\ UNCHANGED ws
    BY DEF Return, FanOutInv, ConnTypeOK
  <1>2. Sending' = Sending \ {t} /\ fan' \in [Senders -> FanOut \cup {None}]
    BY <1>1 DEF Return, FanOutInv, ConnTypeOK, Sending
  <1> QED  BY <1>1, <1>2 DEF FanOutInv, ConnTypeOK, FanOutKnows, Registered,
                             Sending, SocketsOf

LEMMA NextFanOut == FanOutInv /\ [ConnNext]_connVars => FanOutInv'
  <1> SUFFICES ASSUME FanOutInv, [ConnNext]_connVars PROVE FanOutInv'
    OBVIOUS
  <1>1. ASSUME NEW c \in Conns, Connect(c) \/ Lose(c) \/ Disconnect(c) PROVE FanOutInv'
    BY <1>1, ConnectInv, LoseInv, DisconnectInv
  <1>2. ASSUME NEW t \in Senders, NEW u \in Users, Call(t, u) PROVE FanOutInv'
    BY <1>2, SendInv DEF Call
  <1>3. ASSUME NEW t \in Senders, Deliver(t) \/ Return(t) PROVE FanOutInv'
    BY <1>3, DeliverInv, ReturnInv
  <1>4. CASE UNCHANGED connVars
    BY <1>4 DEF connVars, FanOutInv, ConnTypeOK, FanOutKnows, Registered,
                Sending, SocketsOf
  <1> QED  BY <1>1, <1>2, <1>3, <1>4 DEF ConnNext

\* The registry and the fan-outs keep their types; a fan-out's list only ever
\* holds sockets of the user it is for.
THEOREM ConnTypeCorrect == ConnSafety => []ConnTypeOK
  <1>1. FanOutInv => ConnTypeOK
    BY DEF FanOutInv
  <1> QED  BY InitFanOut, NextFanOut, <1>1, PTL DEF ConnSafety

\* A finished fan-out has reached every socket that stayed connected and
\* healthy while it ran.
THEOREM FanOutReachesEverySocket == ConnSafety => []EverySocketServed
  <1>1. FanOutInv => EverySocketServed
    BY DEF FanOutInv, FanOutKnows, EverySocketServed
  <1> QED  BY InitFanOut, NextFanOut, <1>1, PTL DEF ConnSafety

\* It has reached none twice, and its list has grown only while everybody who
\* has the message was registered.
THEOREM FanOutReachesNoneTwice == ConnSafety => []OncePerSocket
  <1>1. FanOutInv => OncePerSocket
    BY DEF FanOutInv, FanOutKnows, OncePerSocket
  <1> QED  BY InitFanOut, NextFanOut, <1>1, PTL DEF ConnSafety

-----------------------------------------------------------------------------
(***************************************************************************)
(* FileRequests, for any number of requests and sockets: who waits has an  *)
(* entry, the first answer is kept, and the owner is asked.                *)
(***************************************************************************)
\* What holds of each request.  The message goes to the owner's sockets and
\* while the request waits, so the devices that know of it are the owner's,
\* and the result of the future is what one of them answered to it.
AskInv(t) ==
  /\ future[t] # None <=> reply[t] = Pending
  /\ fan[t] # None => reply[t] = Pending /\ fan[t].to = Owner[t]
  /\ told[t] \subseteq SocketsOf(Owner[t])
  /\ Answered(t) =>
       told[t] # {} /\ \E c \in SocketsOf(Owner[t]) : future[t] = Answer(c, t)

Inv == TypeOK /\ \A t \in Requests : AskInv(t)

LEMMA InitInv == Init => Inv
  BY InitFanOut, RequestsAssumption
     DEF Init, Inv, TypeOK, AskInv, Answered, FanOutInv, ConnInit, Results, Requests

\* Sockets come and go without ending a fan-out or changing its addressee.
LEMMA SocketsKeepFanOut ==
  ASSUME ConnTypeOK, NEW c \in Conns, Connect(c) \/ Lose(c) \/ Disconnect(c),
         NEW t \in Senders
  PROVE  /\ fan'[t] # None => fan[t] # None /\ fan'[t].to = fan[t].to
         /\ fan[t] # None => fan'[t] # None
  <1>1. CASE t \in Sending
    <2> DEFINE w == fan[t]
    <2>1. w \in FanOut /\ c \in Conns
      BY <1>1, FanOutTyped
    <2>2. /\ [w EXCEPT !.todo = @ \cup {c}] \in FanOut
          /\ [w EXCEPT !.todo = @ \cup {c}].to = w.to
          /\ [w EXCEPT !.due = @ \ {c}] \in FanOut
          /\ [w EXCEPT !.due = @ \ {c}].to = w.to
          /\ [w EXCEPT !.due = @ \ {c}, !.todo = @ \ {c},
                       !.live = @ /\ w.to # ConnUser[c]] \in FanOut
          /\ [w EXCEPT !.due = @ \ {c}, !.todo = @ \ {c},
                       !.live = @ /\ w.to # ConnUser[c]].to = w.to
      BY <2>1 DEF FanOut
    <2>3. CASE Connect(c)
      BY <1>1, <2>1, <2>2, <2>3, ConnectionsAssumption DEF Connect, Sending
    <2>4. CASE Lose(c)
      BY <1>1, <2>1, <2>2, <2>4, ConnectionsAssumption DEF Lose, Sending
    <2>5. CASE Disconnect(c)
      BY <1>1, <2>1, <2>2, <2>5, ConnectionsAssumption DEF Disconnect, Sending
    <2> QED  BY <2>3, <2>4, <2>5
  <1>2. CASE t \notin Sending
    BY <1>2 DEF Connect, Lose, Disconnect, Sending
  <1> QED  BY <1>1, <1>2

\* Every step is one of the registry, or leaves it alone.
LEMMA StepOfConnections == Inv /\ [Next]_vars => [ConnNext]_connVars
  <1> SUFFICES ASSUME Inv, [Next]_vars PROVE [ConnNext]_connVars
    OBVIOUS
  <1>1. ASSUME NEW c \in Conns, Join(c) \/ Drop(c) \/ Leave(c) PROVE ConnNext
    BY <1>1 DEF Join, Drop, Leave, ConnNext
  <1>2. ASSUME NEW t \in Requests, Continue(t) PROVE ConnNext
    BY <1>2 DEF Continue, ConnNext, Requests
  <1>3. ASSUME NEW t \in Requests, RequestFile(t) PROVE [ConnNext]_connVars
    <2>1. t \in Senders \ Sending /\ Owner[t] \in Users
      BY <1>3, RequestsAssumption DEF RequestFile, Inv, AskInv, Sending, Requests
    <2>2. UNCHANGED ws /\ (UNCHANGED fan \/ SendToUser(t, Owner[t]))
      BY <1>3 DEF RequestFile
    <2> QED  BY <2>1, <2>2 DEF ConnNext, Call, connVars
  <1>4. ASSUME NEW t \in Requests, Expire(t) \/ Resume(t) PROVE UNCHANGED connVars
    BY <1>4 DEF Expire, Resume
  <1>5. ASSUME NEW c \in Conns, NEW t \in Requests, FileResponse(c, t)
        PROVE  UNCHANGED connVars
    BY <1>5 DEF FileResponse
  <1>6. CASE UNCHANGED vars
    BY <1>6 DEF vars
  <1> QED  BY <1>1, <1>2, <1>3, <1>4, <1>5, <1>6 DEF Next

\* The registry's own invariant comes along, so its type is known after a step.
RequestsInv == Inv /\ FanOutInv

\* A step of request t leaves the other requests as they are.
LEMMA OtherRequests ==
  ASSUME Inv, NEW t \in Requests,
         \A s \in Requests \ {t} : /\ fan'[s] = fan[s] /\ future'[s] = future[s]
                                   /\ told'[s] = told[s] /\ reply'[s] = reply[s],
         AskInv(t)'
  PROVE  \A s \in Requests : AskInv(s)'
  BY DEF Inv, AskInv, Answered

LEMMA RequestInv ==
  ASSUME Inv, NEW t \in Requests, RequestFile(t)
  PROVE  /\ \A s \in Requests : AskInv(s)'
         /\ ConnTypeOK' => TypeOK'
  <1>1. t \in Senders /\ fan[t] = None /\ future[t] = None /\ told[t] \subseteq SocketsOf(Owner[t])
    BY RequestsAssumption DEF Inv, AskInv, RequestFile, Requests
  <1>2. CASE ~IsUserConnected(Owner[t])
    <2>1. reply' = [reply EXCEPT ![t] = Offline] /\ UNCHANGED <<fan, future, told, expired>>
      BY <1>2 DEF RequestFile
    <2>2. AskInv(t)'
      BY <1>1, <2>1, RequestsAssumption DEF Inv, TypeOK, AskInv, Answered, RequestFile
    <2> QED  BY <2>1, <2>2, OtherRequests DEF Inv, TypeOK, Results
  <1>3. CASE IsUserConnected(Owner[t])
    <2>1. /\ reply' = [reply EXCEPT ![t] = Pending]
          /\ future' = [future EXCEPT ![t] = Pending]
          /\ UNCHANGED <<told, expired>> /\ SendToUser(t, Owner[t])
      BY <1>3 DEF RequestFile
    <2>2. /\ fan'[t].to = Owner[t]
          /\ \A s \in Senders \ {t} : fan'[s] = fan[s]
      BY <1>1, <1>3, <2>1 DEF SendToUser, Inv, TypeOK, ConnTypeOK
    <2>3. AskInv(t)'
      BY <1>1, <2>1, <2>2, RequestsAssumption DEF Inv, TypeOK, AskInv, Answered, Requests, SocketsOf
    <2> QED  BY <2>1, <2>2, <2>3, OtherRequests DEF Inv, TypeOK, Results, Requests
  <1> QED  BY <1>2, <1>3

LEMMA ContinueInv ==
  ASSUME RequestsInv, NEW t \in Requests, Continue(t), FanOutInv'
  PROVE  /\ \A s \in Requests : AskInv(s)'
         /\ ConnTypeOK' => TypeOK'
  <1>1. /\ t \in Sending /\ reply[t] = Pending /\ fan[t].to = Owner[t]
        /\ \A s \in Senders \ {t} : fan'[s] = fan[s]
        /\ UNCHANGED <<future, expired, reply>>
    BY DEF RequestsInv, Inv, TypeOK, ConnTypeOK, AskInv, Continue, Deliver, Return, Requests, Sending
  <1>2. CASE Deliver(t) /\ told' = [told EXCEPT ![t] = @ \cup fan'[t].got]
    <2>1. fan'[t].to = fan[t].to
      <3>1. fan[t] \in FanOut
        BY <1>1, FanOutTyped DEF RequestsInv, Inv, TypeOK
      <3> QED  BY <1>2, <3>1 DEF Deliver, FanOut, RequestsInv, Inv, TypeOK, ConnTypeOK, Requests
    <2>2. Sending' = Sending
      <3>1. fan[t] \in FanOut /\ fan[t].todo \subseteq Conns
        BY <1>1, FanOutTyped DEF RequestsInv, Inv, TypeOK, SocketsOf
      <3>2. PICK d \in fan[t].todo :
              fan' = [fan EXCEPT ![t].todo = @ \ {d},
                                 ![t].got  = IF ws[d] = "open" THEN @ \cup {d} ELSE @]
        BY <1>2 DEF Deliver
      <3>3. fan'[t] = [to |-> fan[t].to, due |-> fan[t].due, todo |-> fan[t].todo \ {d},
                       got |-> IF ws[d] = "open" THEN fan[t].got \cup {d} ELSE fan[t].got,
                       live |-> fan[t].live]
        BY <3>1, <3>2 DEF RequestsInv, Inv, TypeOK, ConnTypeOK, Requests, FanOut
      <3>4. fan'[t] \in FanOut
        BY <3>1, <3>3 DEF FanOut
      <3> QED  BY <1>1, <3>4, ConnectionsAssumption DEF Sending
    <2>3. fan'[t].got \subseteq SocketsOf(Owner[t])
      BY <1>1, <2>1, <2>2 DEF FanOutInv, ConnTypeOK, SocketsOf
    <2>4. AskInv(t)'
      BY <1>1, <1>2, <2>1, <2>3 DEF RequestsInv, Inv, TypeOK, AskInv, Answered, SocketsOf
    <2>5. told' \in [Requests -> SUBSET Conns]
      BY <1>2, <2>3 DEF RequestsInv, Inv, TypeOK, SocketsOf
    <2> QED  BY <1>1, <1>2, <2>4, <2>5, OtherRequests DEF RequestsInv, Inv, TypeOK, Requests
  <1>3. CASE Return(t) /\ UNCHANGED told
    <2>1. fan'[t] = None
      BY <1>3 DEF Return, RequestsInv, Inv, TypeOK, ConnTypeOK, Requests
    <2>2. AskInv(t)'
      BY <1>1, <1>3, <2>1 DEF RequestsInv, Inv, AskInv, Answered, SocketsOf
    <2> QED  BY <1>1, <1>3, <2>2, OtherRequests DEF RequestsInv, Inv, TypeOK, Requests
  <1> QED  BY <1>2, <1>3 DEF Continue

LEMMA FileResponseInv ==
  ASSUME Inv, NEW c \in Conns, NEW t \in Requests, FileResponse(c, t)
  PROVE  Inv'
  <1>1. /\ UNCHANGED <<connVars, expired, told, reply>>
        /\ told[t] # {} /\ c \in SocketsOf(Owner[t])
    BY DEF FileResponse, MayAnswer, Inv, AskInv, SocketsOf
  <1>2. CASE UNCHANGED future
    BY <1>1, <1>2 DEF Inv, TypeOK, ConnTypeOK, connVars, AskInv, Answered, SocketsOf, Sending
  <1>3. CASE future[t] = Pending /\ future' = [future EXCEPT ![t] = Answer(c, t)]
    <2>1. Answer(c, t) \in Answers /\ Answer(c, t) # None
      BY RequestsAssumption DEF Answer, Answers
    <2>2. AskInv(t)'
      BY <1>1, <1>3, <2>1, RequestsAssumption
         DEF Inv, TypeOK, AskInv, Answered, SocketsOf, connVars
    <2>3. \A s \in Requests : AskInv(s)'
      BY <1>1, <1>3, <2>2, OtherRequests DEF Inv, TypeOK, connVars
    <2> QED  BY <1>1, <1>3, <2>1, <2>3 DEF Inv, TypeOK, ConnTypeOK, connVars, Sending, SocketsOf
  <1> QED  BY <1>2, <1>3 DEF FileResponse

LEMMA ResumeInv ==
  ASSUME Inv, NEW t \in Requests, Resume(t)
  PROVE  Inv'
  <1>1. /\ UNCHANGED <<connVars, expired, told>> /\ reply[t] = Pending /\ fan[t] = None
        /\ future' = [future EXCEPT ![t] = None]
    BY DEF Resume, Waiting
  <1>2. \E r \in Answers \cup {None} : reply' = [reply EXCEPT ![t] = r]
    BY DEF Resume, Answered, Inv, TypeOK
  <1>3. AskInv(t)'
    BY <1>1, <1>2, RequestsAssumption DEF Inv, TypeOK, AskInv, Answered, SocketsOf, connVars
  <1>4. \A s \in Requests : AskInv(s)'
    BY <1>1, <1>2, <1>3, OtherRequests DEF Inv, TypeOK, connVars
  <1> QED  BY <1>1, <1>2, <1>4
           DEF Inv, TypeOK, ConnTypeOK, connVars, Sending, SocketsOf, Results

LEMMA NextInv == RequestsInv /\ [Next]_vars => RequestsInv'
  <1> SUFFICES ASSUME RequestsInv, [Next]_vars PROVE RequestsInv'
    OBVIOUS
  <1>0. Inv /\ FanOutInv' /\ ConnTypeOK'
    BY StepOfConnections, NextFanOut DEF RequestsInv, FanOutInv
  <1>1. ASSUME NEW c \in Conns, Join(c) \/ Drop(c) \/ Leave(c) PROVE Inv'
    <2>1. UNCHANGED requestVars
      BY <1>1 DEF Join, Drop, Leave
    <2>2. \A t \in Senders : fan'[t] # None => fan[t] # None /\ fan'[t].to = fan[t].to
      BY <1>0, <1>1, SocketsKeepFanOut DEF Join, Drop, Leave, Inv, TypeOK
    <2>3. \A t \in Requests : AskInv(t)'
      BY <1>0, <2>1, <2>2 DEF Inv, AskInv, Answered, requestVars, SocketsOf, Requests
    <2> QED  BY <1>0, <2>1, <2>3 DEF Inv, TypeOK, requestVars
  <1>2. ASSUME NEW t \in Requests, RequestFile(t) PROVE Inv'
    BY <1>0, <1>2, RequestInv DEF Inv
  <1>3. ASSUME NEW t \in Requests, Continue(t) PROVE Inv'
    BY <1>0, <1>3, ContinueInv DEF Inv
  <1>4. ASSUME NEW t \in Requests, Expire(t) PROVE Inv'
    BY <1>0, <1>4 DEF Expire, Inv, TypeOK, AskInv, Answered, SocketsOf, connVars
  <1>5. ASSUME NEW t \in Requests, Resume(t) PROVE Inv'
    BY <1>0, <1>5, ResumeInv
  <1>6. ASSUME NEW c \in Conns, NEW t \in Requests, FileResponse(c, t) PROVE Inv'
    BY <1>0, <1>6, FileResponseInv
  <1>7. ASSUME UNCHANGED vars PROVE Inv'
    BY <1>0, <1>7 DEF vars, connVars, requestVars, Inv, TypeOK, AskInv, Answered, SocketsOf
  <1>8. Inv'
    BY <1>1, <1>2, <1>3, <1>4, <1>5, <1>6, <1>7 DEF Next
  <1> QED  BY <1>0, <1>8 DEF RequestsInv

LEMMA InitRequests == Init => RequestsInv
  BY InitInv, InitFanOut DEF Init, RequestsInv

\* The registry under file requests is the registry of Connections.
THEOREM RequestsUseConnections == Spec => ConnSafety
  <1>1. Init => ConnInit
    BY DEF Init
  <1>2. RequestsInv => Inv
    BY DEF RequestsInv
  <1> QED  BY InitRequests, NextInv, StepOfConnections, <1>1, <1>2, PTL
           DEF Spec, ConnSafety

\* So a file_request message reaches every socket of the owner that stays
\* connected while it is sent, none twice, and no new one once one that has it
\* is gone.
THEOREM OwnersSocketsAreAsked == Spec => [](EverySocketServed /\ OncePerSocket)
  BY RequestsUseConnections, FanOutReachesEverySocket, FanOutReachesNoneTwice, PTL

\* The table of futures, the timers and the replies keep their types.
THEOREM RequestTypeCorrect == Spec => []TypeOK
  <1>1. RequestsInv => TypeOK
    BY DEF RequestsInv, Inv
  <1> QED  BY InitRequests, NextInv, <1>1, PTL DEF Spec

\* A future is in the table exactly while its request waits: from before the
\* first write until request_file returns.
THEOREM EntriesAreRequests == Spec => []EntryWhileAsked
  <1>1. RequestsInv => EntryWhileAsked
    BY DEF RequestsInv, Inv, AskInv, EntryWhileAsked
  <1> QED  BY InitRequests, NextInv, <1>1, PTL DEF Spec

-----------------------------------------------------------------------------
(***************************************************************************)
(* The first answer, and the promise to the caller.                        *)
(***************************************************************************)
LEMMA StepKeepsAnswer ==
  ASSUME RequestsInv, [Next]_vars, NEW s \in Requests, Answered(s)
  PROVE  future'[s] = future[s] \/ reply'[s] = future[s] \/ expired[s]
  <1>0. Inv
    BY DEF RequestsInv
  <1>1. ASSUME NEW t \in Requests, RequestFile(t) PROVE future'[s] = future[s]
    <2>1. future[t] = None /\ future[s] # None
      BY <1>0, <1>1, RequestsAssumption DEF RequestFile, Inv, AskInv, Answered
    <2> QED  BY <1>0, <1>1, <2>1 DEF RequestFile, Inv, TypeOK
  <1>2. ASSUME NEW t \in Requests, Resume(t)
        PROVE  future'[s] = future[s] \/ reply'[s] = future[s] \/ expired[s]
    BY <1>0, <1>2 DEF Resume, Inv, TypeOK
  <1>3. ASSUME NEW c \in Conns, NEW t \in Requests, FileResponse(c, t)
        PROVE  future'[s] = future[s]
    BY <1>0, <1>3 DEF FileResponse, Inv, TypeOK, Answered
  <1>4. ASSUME \/ \E c \in Conns : Join(c) \/ Drop(c) \/ Leave(c)
               \/ \E t \in Requests : Continue(t) \/ Expire(t)
               \/ UNCHANGED vars
        PROVE  future'[s] = future[s]
    BY <1>4 DEF Join, Drop, Leave, Continue, Expire, vars, requestVars
  <1> QED  BY <1>1, <1>2, <1>3, <1>4 DEF Next

\* An answer that is in time is what the request returns.
THEOREM FirstAnswerIsKept == Spec => AnswersAreKept
  <1>1. RequestsInv /\ [Next]_vars =>
          [\A t \in Requests :
             Answered(t) => future'[t] = future[t] \/ reply'[t] = future[t] \/ expired[t]]_vars
    BY StepKeepsAnswer
  <1> QED  BY InitRequests, NextInv, <1>1, PTL DEF Spec, AnswersAreKept

\* The reply a caller of request_file sees, the function AskOwner's reply
\* stands for.
Seen == [t \in Requests |-> IF reply[t] = Offline THEN None ELSE reply[t]]

\* A step that changes the reply of one request changes what is seen of it.
LEMMA SeenReply ==
  ASSUME Inv, NEW t \in Requests, NEW r, reply' = [reply EXCEPT ![t] = r]
  PROVE  /\ Seen' = [Seen EXCEPT ![t] = IF r = Offline THEN None ELSE r]
         /\ Seen[t] = IF reply[t] = Offline THEN None ELSE reply[t]
  BY DEF Inv, TypeOK, Seen

LEMMA StepOfAskOwner ==
  ASSUME RequestsInv, [Next]_vars
  PROVE  [Ask!Next]_(Ask!vars)
  <1> USE DEF Ask!vars
  <1>0. Inv /\ \A t \in Requests : AskInv(t)
    BY DEF RequestsInv, Inv
  <1>1. ASSUME NEW t \in Requests, RequestFile(t) PROVE Ask!Next
    <2>1. PICK r \in {Offline, Pending} : reply' = [reply EXCEPT ![t] = r]
      BY <1>1 DEF RequestFile
    <2>2. reply[t] = New /\ UNCHANGED told
      BY <1>1 DEF RequestFile
    <2>3. Seen[t] = New /\ \/ Seen' = [Seen EXCEPT ![t] = None]
                           \/ Seen' = [Seen EXCEPT ![t] = Pending]
      BY <1>0, <2>1, <2>2, SeenReply, RequestsAssumption DEF RequestFile
    <2>4. Ask!Ask(t)
      BY <2>2, <2>3 DEF Ask!Ask, Seen
    <2> QED  BY <2>4 DEF Ask!Next
  <1>2. ASSUME NEW t \in Requests, Continue(t) PROVE [Ask!Next]_(Ask!vars)
    <2>1. UNCHANGED Seen
      BY <1>2 DEF Continue, Seen
    <2>2. CASE UNCHANGED told
      BY <2>1, <2>2 DEF Seen
    <2>3. CASE Deliver(t) /\ told' = [told EXCEPT ![t] = @ \cup fan'[t].got]
      <3>1. reply[t] = Pending /\ t \in Sending /\ fan[t].to = Owner[t]
        BY <1>0, <2>3 DEF Deliver, AskInv, Sending
      <3>2. Seen[t] = Pending
        BY <3>1, RequestsAssumption DEF Seen
      <3>3. told'[t] \subseteq SocketsOf(Owner[t]) /\ fan'[t].got \subseteq told'[t]
        <4>1. Inv'
          BY NextInv DEF RequestsInv
        <4> QED  BY <1>0, <2>3, <4>1 DEF Inv, TypeOK, AskInv, SocketsOf
      <3>4. Ask!Tell(t)
        BY <2>1, <2>3, <3>2, <3>3 DEF Ask!Tell, Seen
      <3> QED  BY <3>4 DEF Ask!Next
    <2> QED  BY <1>2, <2>2, <2>3 DEF Continue
  <1>3. ASSUME NEW t \in Requests, Resume(t) PROVE Ask!Next
    <2>1. PICK r \in {Answer(c, t) : c \in SocketsOf(Owner[t])} \cup {None} :
            reply' = [reply EXCEPT ![t] = r] /\ (r # None => told[t] # {})
      BY <1>0, <1>3 DEF Resume, AskInv
    <2>2. reply[t] = Pending /\ UNCHANGED told
      BY <1>3 DEF Resume, Waiting
    <2>3. SocketsOf(Owner[t]) \subseteq Conns /\ Offline \notin Answers
      BY RequestsAssumption DEF SocketsOf
    <2>4. \A c \in SocketsOf(Owner[t]) : Answer(c, t) # Offline
      BY <2>3 DEF Answer, Answers
    <2>5. Seen[t] = Pending /\ Seen' = [Seen EXCEPT ![t] = r]
      BY <1>0, <2>1, <2>2, <2>4, SeenReply, RequestsAssumption
    <2> DEFINE says == [s \in Requests |-> [d \in Conns |-> Answer(d, s)]]
    <2>6. r = None \/ (told[t] # {} /\ \E c \in SocketsOf(Owner[t]) : r = says[t][c])
      BY <2>1, <2>3
    <2>7. Ask!Settle(t)
      BY <2>2, <2>5, <2>6 DEF Ask!Settle, Seen
    <2> QED  BY <2>7 DEF Ask!Next
  <1>4. ASSUME \/ \E c \in Conns : Join(c) \/ Drop(c) \/ Leave(c)
               \/ \E t \in Requests : Expire(t)
               \/ \E c \in Conns, t \in Requests : FileResponse(c, t)
               \/ UNCHANGED vars
        PROVE  UNCHANGED <<told, Seen>>
    BY <1>4 DEF Join, Drop, Leave, Expire, FileResponse, vars, requestVars, Seen
  <1> QED  BY <1>1, <1>2, <1>3, <1>4 DEF Next, Seen

\* request_file keeps its promise: it is settled once, by an answer of one of
\* the owner's devices to this request or by nothing.
THEOREM RequestsAskOwner == Spec => AsksOwner
  <1>1. Init => Ask!Init
    BY RequestsAssumption DEF Init, Ask!Init
  <1>2. RequestsInv /\ [Next]_vars => [Ask!Next]_(Ask!vars)
    BY StepOfAskOwner
  <1> QED  BY InitRequests, NextInv, <1>1, <1>2, PTL DEF Spec, AsksOwner, Ask!Safety

-----------------------------------------------------------------------------
(***************************************************************************)
(* SvnRelay: a provider is reachable, and, when the database never gives   *)
(* out an id again, providers and sessions belong to the creator of the    *)
(* share.                                                                  *)
(***************************************************************************)
-----------------------------------------------------------------------------
(***************************************************************************)
(* The relay as a user of the registry.                                    *)
(***************************************************************************)
\* A handler ends in a call of send_to_user.
LEMMA HandlerCalls ==
  ASSUME NEW c \in Conns, CanHandle(c), NEW u \in Users, SendToUser(c, u),
         UNCHANGED ws
  PROVE  ConnNext
  <1>1. c \in Senders /\ c \notin Sending
    BY RelayAssumption DEF CanHandle, Sending
  <1> QED  BY <1>1 DEF ConnNext, Call

\* The users a handler addresses exist.
LEMMA RouteTyped ==
  ASSUME RelayTypeOK, NEW s \in ShareIds, Route(s) # None
  PROVE  Route(s) \in Users
  BY DEF RelayTypeOK, Route

LEMMA PeerTyped ==
  ASSUME RelayTypeOK, NEW i \in Sids, NEW u, sessions[i] # None
  PROVE  /\ sessions[i] \in Sessions
         /\ Peer(i, u) \in Users /\ sessions[i].recipient \in Users
  BY DEF RelayTypeOK, Peer, Sessions

LEMMA RelayStep == RelayTypeOK /\ [RelayNext]_relayVars => [ConnNext]_connVars
  <1> SUFFICES ASSUME RelayTypeOK, [RelayNext]_relayVars PROVE [ConnNext]_connVars
    OBVIOUS
  <1>0. ConnUser \in [Conns -> Users] /\ Conns \subseteq Senders
    BY ConnectionsAssumption, RelayAssumption
  <1>1. ASSUME \/ \E u \in Users : CreateShare(u)
               \/ \E s \in ShareIds : DeleteShare(s)
               \/ \E c \in Conns, ids \in SUBSET ShareIds : RegisterProvider(c, ids)
        PROVE  UNCHANGED connVars
    BY <1>1 DEF CreateShare, DeleteShare, RegisterProvider
  <1>2. ASSUME NEW c \in Conns, RelayJoin(c) \/ RelayDrop(c) \/ RelayLeave(c) \/ RelayContinue(c)
        PROVE  ConnNext
    BY <1>0, <1>2 DEF RelayJoin, RelayDrop, RelayLeave, RelayContinue, ConnNext
  <1>3. ASSUME NEW c \in Conns, NEW i \in Sids, NEW s \in ShareIds, NewSession(c, i, s)
        PROVE  ConnNext
    <2>1. CanHandle(c) /\ UNCHANGED ws
      BY <1>3 DEF NewSession
    <2>2. PICK u \in Users : SendToUser(c, u)
      BY <1>0, <1>3, RouteTyped DEF NewSession
    <2> QED  BY <2>1, <2>2, HandlerCalls
  <1>4. ASSUME NEW c \in Conns, NEW i \in Sids,
               RelayData(c, i) \/ RelayToRecipient(c, i) \/ CloseSession(c, i)
        PROVE  ConnNext
    <2>1. CanHandle(c) /\ sessions[i] # None /\ UNCHANGED ws
      BY <1>4 DEF RelayData, RelayToRecipient, CloseSession
    <2>2. PICK u \in Users : SendToUser(c, u)
      BY <1>4, <2>1, PeerTyped DEF RelayData, RelayToRecipient, CloseSession
    <2> QED  BY <2>1, <2>2, HandlerCalls
  <1>5. CASE UNCHANGED relayVars
    BY <1>5 DEF relayVars
  <1> QED  BY <1>1, <1>2, <1>3, <1>4, <1>5 DEF RelayNext

-----------------------------------------------------------------------------
(***************************************************************************)
(* Types and reachable providers.                                          *)
(***************************************************************************)
RelayInv ==
  /\ RelayTypeOK
  /\ FanOutInv
  /\ ProviderConnected

LEMMA InitRelay == RelayInit => RelayInv
  BY InitFanOut, RelayAssumption
     DEF RelayInit, RelayInv, RelayTypeOK, FanOutInv, ProviderConnected

LEMMA RelayTyped == RelayTypeOK /\ FanOutInv /\ [RelayNext]_relayVars => RelayTypeOK' /\ FanOutInv'
  <1> SUFFICES ASSUME RelayTypeOK, FanOutInv, [RelayNext]_relayVars PROVE RelayTypeOK' /\ FanOutInv'
    OBVIOUS
  <1>0. FanOutInv' /\ ConnTypeOK'
    BY RelayStep, NextFanOut DEF FanOutInv
  <1>1. ASSUME NEW u \in Users, CreateShare(u) PROVE RelayTypeOK'
    BY <1>0, <1>1 DEF CreateShare, RelayTypeOK, ShareIds
  <1>2. ASSUME NEW s \in ShareIds, DeleteShare(s) PROVE RelayTypeOK'
    BY <1>0, <1>2 DEF DeleteShare, RelayTypeOK
  <1>3. ASSUME NEW c \in Conns, NEW ids \in SUBSET ShareIds, RegisterProvider(c, ids)
        PROVE  RelayTypeOK'
    BY <1>0, <1>3, ConnectionsAssumption DEF RegisterProvider, Register, RelayTypeOK
  <1>4. ASSUME NEW c \in Conns, RelayJoin(c) \/ RelayDrop(c) \/ RelayLeave(c) \/ RelayContinue(c)
        PROVE  RelayTypeOK'
    BY <1>0, <1>4 DEF RelayJoin, RelayDrop, RelayLeave, RelayContinue, RelayTypeOK, routeVars
  <1>5. ASSUME NEW c \in Conns, NEW i \in Sids, NEW s \in ShareIds, NewSession(c, i, s)
        PROVE  RelayTypeOK'
    <2>1. Route(s) # None =>
            [owner |-> Route(s), recipient |-> ConnUser[c], share |-> s] \in Sessions
      BY RouteTyped, ConnectionsAssumption DEF Sessions
    <2> QED  BY <1>0, <1>5, <2>1 DEF NewSession, RelayTypeOK
  <1>6. ASSUME NEW c \in Conns, NEW i \in Sids,
               RelayData(c, i) \/ RelayToRecipient(c, i) \/ CloseSession(c, i)
        PROVE  RelayTypeOK'
    BY <1>0, <1>6 DEF RelayData, RelayToRecipient, CloseSession, RelayTypeOK, routeVars
  <1>7. CASE UNCHANGED relayVars
    BY <1>0, <1>7 DEF relayVars, routeVars, RelayTypeOK
  <1> QED  BY <1>0, <1>1, <1>2, <1>3, <1>4, <1>5, <1>6, <1>7 DEF RelayNext

\* A step that closes no socket and adds no provider leaves them reachable.
LEMMA StillConnected ==
  ASSUME ProviderConnected, UNCHANGED providers,
         \A c \in Conns : Registered(c) => Registered(c)'
  PROVE  ProviderConnected'
  <1>1. \A u : IsUserConnected(u) => IsUserConnected(u)'
    BY DEF IsUserConnected, Connections, SocketsOf
  <1> QED  BY <1>1 DEF ProviderConnected

LEMMA NextRelay == RelayInv /\ [RelayNext]_relayVars => RelayInv'
  <1> SUFFICES ASSUME RelayInv, [RelayNext]_relayVars PROVE RelayInv'
    OBVIOUS
  <1>0. RelayTypeOK /\ ProviderConnected /\ RelayTypeOK' /\ FanOutInv'
    BY RelayTyped DEF RelayInv
  <1>1. ASSUME NEW c \in Conns, NEW ids \in SUBSET ShareIds, RegisterProvider(c, ids)
        PROVE  ProviderConnected'
    <2>1. c \in Connections(ConnUser[c]) /\ UNCHANGED ws
      BY <1>1 DEF RegisterProvider, CanHandle, Connections, SocketsOf, connVars
    <2>2. \A u : IsUserConnected(u)' <=> IsUserConnected(u)
      BY <2>1 DEF IsUserConnected, Connections, SocketsOf, Registered
    <2>3. \A s \in ShareIds : providers'[s] \in {ConnUser[c], providers[s], None}
      BY <1>1 DEF RegisterProvider, Register
    <2> QED  BY <1>0, <2>1, <2>2, <2>3 DEF ProviderConnected, IsUserConnected
  <1>2. ASSUME NEW c \in Conns, RelayLeave(c) PROVE ProviderConnected'
    <2>1. \A d \in Conns : ConnUser[d] # ConnUser[c] => ws'[d] = ws[d]
      BY <1>0, <1>2 DEF RelayLeave, Disconnect, RelayTypeOK, ConnTypeOK
    <2>2. \A u : u # ConnUser[c] /\ IsUserConnected(u) => IsUserConnected(u)'
      BY <2>1 DEF IsUserConnected, Connections, SocketsOf, Registered
    <2>3. \A s \in ShareIds : providers'[s] # None =>
            providers'[s] = providers[s] /\ providers[s] # ConnUser[c]
      BY <1>2 DEF RelayLeave
    <2> QED  BY <1>0, <2>2, <2>3 DEF ProviderConnected
  <1>3. ASSUME NEW c \in Conns, RelayJoin(c) \/ RelayDrop(c) \/ RelayContinue(c)
        PROVE  ProviderConnected'
    <2>1. \A d \in Conns : Registered(d) => Registered(d)'
      BY <1>0, <1>3 DEF RelayJoin, RelayDrop, RelayContinue, Connect, Lose, Deliver, Return,
                        Registered, RelayTypeOK, ConnTypeOK
    <2> QED  BY <1>0, <1>3, <2>1, StillConnected DEF RelayJoin, RelayDrop, RelayContinue, routeVars
  <1>4. ASSUME \/ \E u \in Users : CreateShare(u)
               \/ \E s \in ShareIds : DeleteShare(s)
               \/ \E c \in Conns, i \in Sids, s \in ShareIds : NewSession(c, i, s)
               \/ \E c \in Conns, i \in Sids :
                    RelayData(c, i) \/ RelayToRecipient(c, i) \/ CloseSession(c, i)
               \/ UNCHANGED relayVars
        PROVE  ProviderConnected'
    <2>1. UNCHANGED <<ws, providers>>
      BY <1>4 DEF CreateShare, DeleteShare, NewSession, RelayData, RelayToRecipient,
                  CloseSession, relayVars, connVars, routeVars
    <2> QED  BY <1>0, <2>1, StillConnected DEF Registered
  <1> QED  BY <1>0, <1>1, <1>2, <1>3, <1>4 DEF RelayNext, RelayInv

\* The registry under the relay is the registry of Connections.
THEOREM RelayUsesConnections == RelaySpec => ConnSafety
  <1>1. RelayInit => ConnInit
    BY DEF RelayInit
  <1>2. RelayInv => RelayTypeOK
    BY DEF RelayInv
  <1> QED  BY InitRelay, NextRelay, RelayStep, <1>1, <1>2, PTL
           DEF RelaySpec, ConnSafety

\* The relay's tables and the registry keep their types.
THEOREM RelayTypeCorrect == RelaySpec => []RelayTypeOK
  <1>1. RelayInv => RelayTypeOK
    BY DEF RelayInv
  <1> QED  BY InitRelay, NextRelay, <1>1, PTL DEF RelaySpec

\* Whoever is in the provider table has a socket, for any number of users
\* and devices.
THEOREM ProvidersReachable == RelaySpec => []ProviderConnected
  <1>1. RelayInv => ProviderConnected
    BY DEF RelayInv
  <1> QED  BY InitRelay, NextRelay, <1>1, PTL DEF RelaySpec

-----------------------------------------------------------------------------
(***************************************************************************)
(* Share ids that are never given out again (PostgreSQL).  Everything the  *)
(* relay remembers is about ids up to the last one given out, so a new row *)
(* is one it knows nothing of.                                             *)
(***************************************************************************)
UniqueIds == ~ReuseIds

KnownIds ==
  \A s \in ShareIds : s > lastId =>
    /\ ~Live(s)
    /\ providers[s] = None
    /\ \A i \in Sids : sessions[i] # None => sessions[i].share # s

CreatorInv ==
  /\ RelayInv
  /\ KnownIds
  /\ ProviderIsCreator
  /\ SessionWithCreator

LEMMA CreatorParts ==
  ASSUME CreatorInv
  PROVE  /\ RelayInv /\ RelayTypeOK /\ KnownIds /\ ProviderIsCreator /\ SessionWithCreator
         /\ \A i \in Sids : sessions[i] # None => sessions[i] \in Sessions
  BY DEF CreatorInv, RelayInv, RelayTypeOK

LEMMA InitCreator == RelayInit => CreatorInv
  BY InitRelay DEF RelayInit, CreatorInv, KnownIds, ProviderIsCreator, SessionWithCreator, Live

\* The three facts depend on the relay's own variables only.
LEMMA CreatorUnchanged ==
  ASSUME KnownIds, ProviderIsCreator, SessionWithCreator, UNCHANGED routeVars
  PROVE  KnownIds' /\ ProviderIsCreator' /\ SessionWithCreator'
  BY DEF KnownIds, ProviderIsCreator, SessionWithCreator, Live, routeVars

LEMMA NextCreator ==
  ASSUME UniqueIds, CreatorInv, [RelayNext]_relayVars
  PROVE  CreatorInv'
  <1>0. /\ RelayInv' /\ RelayTypeOK /\ KnownIds /\ ProviderIsCreator /\ SessionWithCreator
        /\ \A i \in Sids : sessions[i] # None => sessions[i] \in Sessions
    BY CreatorParts, NextRelay
  <1> DEFINE Goal == KnownIds' /\ ProviderIsCreator' /\ SessionWithCreator'
  <1>1. ASSUME NEW u \in Users, CreateShare(u) PROVE Goal
    <2>1. /\ lastId + 1 \in ShareIds /\ lastId' = lastId + 1 /\ lastId \in Nat
          /\ creator' = [creator EXCEPT ![lastId + 1] = u]
          /\ UNCHANGED <<providers, sessions>>
      BY <1>0, <1>1 DEF CreateShare, NewId, UniqueIds, RelayTypeOK
    <2>2. /\ creator'[lastId + 1] = u
          /\ \A s \in ShareIds \ {lastId + 1} : creator'[s] = creator[s]
      BY <1>0, <2>1 DEF RelayTypeOK
    <2>3. /\ providers[lastId + 1] = None
          /\ \A i \in Sids : sessions[i] # None => sessions[i].share # lastId + 1
      BY <1>0, <2>1 DEF KnownIds
    <2>4. KnownIds'
      BY <1>0, <2>1, <2>2 DEF KnownIds, Live, ShareIds
    <2>5. ProviderIsCreator'
      BY <1>0, <2>1, <2>2, <2>3 DEF ProviderIsCreator, Live
    <2>6. SessionWithCreator'
      BY <1>0, <2>1, <2>2, <2>3 DEF SessionWithCreator, Live, Sessions
    <2> QED  BY <2>4, <2>5, <2>6
  <1>2. ASSUME NEW s \in ShareIds, DeleteShare(s) PROVE Goal
    <2>1. \A r \in ShareIds : creator'[r] = creator[r] \/ creator'[r] = None
      BY <1>0, <1>2 DEF DeleteShare, RelayTypeOK
    <2>2. UNCHANGED <<lastId, providers, sessions>>
      BY <1>2 DEF DeleteShare
    <2> QED  BY <1>0, <2>1, <2>2
             DEF KnownIds, ProviderIsCreator, SessionWithCreator, Live, Sessions
  <1>3. ASSUME NEW c \in Conns, NEW ids \in SUBSET ShareIds, RegisterProvider(c, ids)
        PROVE  Goal
    <2>1. \A s \in ShareIds : \/ providers'[s] \in {None, providers[s]}
                              \/ providers'[s] = creator[s]
      BY <1>3 DEF RegisterProvider, Register
    <2>2. UNCHANGED <<creator, lastId, sessions>>
      BY <1>3 DEF RegisterProvider
    <2> QED  BY <1>0, <2>1, <2>2
             DEF KnownIds, ProviderIsCreator, SessionWithCreator, Live
  <1>4. ASSUME NEW c \in Conns, RelayLeave(c) PROVE Goal
    <2>1. \A s \in ShareIds : providers'[s] \in {None, providers[s]}
      BY <1>4 DEF RelayLeave
    <2>2. UNCHANGED <<creator, lastId, sessions>>
      BY <1>4 DEF RelayLeave
    <2> QED  BY <1>0, <2>1, <2>2
             DEF KnownIds, ProviderIsCreator, SessionWithCreator, Live
  <1>5. ASSUME NEW c \in Conns, NEW i \in Sids, NEW s \in ShareIds, NewSession(c, i, s)
        PROVE  Goal
    <2>1. UNCHANGED <<creator, lastId, providers>>
      BY <1>5 DEF NewSession
    <2>2. CASE UNCHANGED sessions
      BY <1>0, <2>1, <2>2, CreatorUnchanged DEF routeVars
    <2> DEFINE r == [owner |-> Route(s), recipient |-> ConnUser[c], share |-> s]
    <2>3. CASE Route(s) # None /\ sessions' = [sessions EXCEPT ![i] = r]
      <3>1. /\ sessions'[i] = r /\ r.share = s /\ r.owner = Route(s)
            /\ \A j \in Sids \ {i} : sessions'[j] = sessions[j]
        BY <1>0, <2>3 DEF RelayTypeOK
      <3>2. providers[s] # None \/ Live(s)
        BY <2>3 DEF Route, Live
      <3>3. Live(s) => Route(s) = creator[s]
        BY <1>0 DEF Route, ProviderIsCreator
      <3>4. ~(s > lastId)
        BY <1>0, <3>2 DEF KnownIds
      <3> HIDE DEF r
      <3>5. KnownIds'
        BY <1>0, <2>1, <3>1, <3>4 DEF KnownIds, Live
      <3>6. SessionWithCreator'
        BY <1>0, <2>1, <3>1, <3>3 DEF SessionWithCreator, Live
      <3> QED  BY <1>0, <2>1, <3>5, <3>6 DEF ProviderIsCreator, Live
    <2> QED  BY <1>5, <2>2, <2>3 DEF NewSession
  <1>6. ASSUME NEW c \in Conns, NEW i \in Sids, CloseSession(c, i) PROVE Goal
    <2>1. \A j \in Sids : sessions'[j] \in {None, sessions[j]}
      BY <1>0, <1>6 DEF CloseSession, RelayTypeOK
    <2>2. UNCHANGED <<creator, lastId, providers>>
      BY <1>6 DEF CloseSession
    <2> QED  BY <1>0, <2>1, <2>2
             DEF KnownIds, ProviderIsCreator, SessionWithCreator, Live
  <1>7. ASSUME \/ \E c \in Conns : RelayJoin(c) \/ RelayDrop(c) \/ RelayContinue(c)
               \/ \E c \in Conns, i \in Sids : RelayData(c, i) \/ RelayToRecipient(c, i)
               \/ UNCHANGED relayVars
        PROVE  Goal
    <2>1. UNCHANGED routeVars
      BY <1>7 DEF RelayJoin, RelayDrop, RelayContinue, RelayData, RelayToRecipient, relayVars
    <2> QED  BY <1>0, <2>1, CreatorUnchanged
  <1>8. Goal
    BY <1>1, <1>2, <1>3, <1>4, <1>5, <1>6, <1>7 DEF RelayNext
  <1> QED  BY <1>0, <1>8 DEF CreatorInv

LEMMA CreatorAlways == UniqueIds /\ RelaySpec => []CreatorInv
  <1>1. UniqueIds /\ CreatorInv /\ [RelayNext]_relayVars => CreatorInv'
    BY NextCreator
  <1>2. UniqueIds => []UniqueIds
    <2> SUFFICES ASSUME UniqueIds PROVE []UniqueIds
      OBVIOUS
    <2> QED  BY PTL
  <1> QED  BY InitCreator, <1>1, <1>2, PTL DEF RelaySpec

\* If ids are not given out again, the provider of an existing share is its
\* creator, for any number of shares, users and devices: what the comment at
\* manager.py:155 promises and SQLite's reuse of ids takes away.
THEOREM UniqueIdsProviderIsCreator == UniqueIds /\ RelaySpec => []ProviderIsCreator
  <1>1. CreatorInv => ProviderIsCreator
    BY DEF CreatorInv
  <1> QED  BY CreatorAlways, <1>1, PTL

\* And every session for an existing share goes to the share's creator.
THEOREM UniqueIdsSessionWithCreator == UniqueIds /\ RelaySpec => []SessionWithCreator
  <1>1. CreatorInv => SessionWithCreator
    BY DEF CreatorInv
  <1> QED  BY CreatorAlways, <1>1, PTL

=============================================================================
