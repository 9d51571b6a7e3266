----------------------------- MODULE Connections -----------------------------
(***************************************************************************)
(* The connection registry of ws/manager.py and its send_to_user.          *)
(*                                                                         *)
(* A user may have several sockets.  They belong to several devices, or to *)
(* one that lost its socket and came back on another before the server     *)
(* noticed: nothing here tells the two apart, and nothing in the code      *)
(* does.  send_to_user writes one message to each socket of the user's     *)
(* list and may give up the event loop at every write, so sockets come and *)
(* go during a fan-out.  The loop iterates over the list object it found:  *)
(* connect appends to that object and the fan-out sees it, disconnect puts *)
(* a new list in the dictionary and from then on the fan-out works on an   *)
(* object nobody else changes.  The order of the list is left out.         *)
(***************************************************************************)
EXTENDS FiniteSets

CONSTANTS
  Users,     \* accounts
  Conns,     \* sockets; a closed one stands for any not connected yet
  ConnUser,  \* the account each socket authenticates as
  Senders,   \* coroutines that call send_to_user
  None       \* no fan-out: a sender that is not in send_to_user

\* A running send_to_user.
\* due: sockets healthy and registered without interruption since it began;
\* todo: elements of the list it has not written to; got: sockets written to;
\* live: the dictionary still holds the list it iterates over.
FanOut == [to : Users, due : SUBSET Conns, todo : SUBSET Conns,
           got : SUBSET Conns, live : BOOLEAN]

ASSUME ConnectionsAssumption ==
  /\ ConnUser \in [Conns -> Users]
  /\ None \notin FanOut

VARIABLES
  ws,   \* per socket: "closed", "open", or "lost" (gone, still in the list)
  fan   \* per sender: its fan-out, or None

connVars == <<ws, fan>>

Registered(c) == ws[c] # "closed"
SocketsOf(u) == {c \in Conns : ConnUser[c] = u}

\* self._connections[u]
Connections(u) == {c \in SocketsOf(u) : Registered(c)}
IsUserConnected(u) == Connections(u) # {}

Sending == {t \in Senders : fan[t] # None}

ConnTypeOK ==
  /\ ws \in [Conns -> {"closed", "open", "lost"}]
  /\ fan \in [Senders -> FanOut \cup {None}]
  /\ \A t \in Sending :
       fan[t].due \cup fan[t].todo \cup fan[t].got \subseteq SocketsOf(fan[t].to)

ConnInit ==
  /\ ws = [c \in Conns |-> "closed"]
  /\ fan = [t \in Senders |-> None]

-----------------------------------------------------------------------------
(***************************************************************************)
(* Mutants: plausible mistakes, not used by the specification.             *)
(***************************************************************************)
\* list.remove() on the shared list object: the iterations in progress lose
\* their place and skip a socket when an earlier one is removed.
DisconnectInPlace(c) ==
  /\ Registered(c)
  /\ ws' = [ws EXCEPT ![c] = "closed"]
  /\ \E skip \in [Senders -> Conns] :
       fan' = [t \in Senders |->
         IF t \in Sending /\ ConnUser[c] = fan[t].to /\ c \in fan[t].got
           THEN [fan[t] EXCEPT !.due = @ \ {c}, !.todo = @ \ {skip[t]}]
         ELSE IF t \in Sending
           THEN [fan[t] EXCEPT !.due = @ \ {c}, !.todo = @ \ {c}]
         ELSE fan[t]]

\* The list is changed and not replaced, so that a fan-out sees whoever
\* connects after a socket that has the message is gone.
DisconnectKeepsList(c) ==
  /\ Registered(c)
  /\ ws' = [ws EXCEPT ![c] = "closed"]
  /\ fan' = [t \in Senders |->
               IF t \in Sending
                 THEN [fan[t] EXCEPT !.due = @ \ {c}, !.todo = @ \ {c}]
                 ELSE fan[t]]

\* A write that is retried until it succeeds.
DeliverWithRetry(t) ==
  /\ t \in Sending
  /\ \E d \in fan[t].todo :
       fan' = [fan EXCEPT ![t].got  = IF ws[d] = "open" THEN @ \cup {d} ELSE @,
                          ![t].todo = IF ws[d] = "open" THEN @ \ {d} ELSE @]
  /\ UNCHANGED ws

-----------------------------------------------------------------------------
(***************************************************************************)
(* connect: a new socket is appended to the user's list, whatever other    *)
(* sockets are in it, lost ones too.                                       *)
(***************************************************************************)
Connect(c) ==
  /\ ws[c] = "closed"
  /\ ws' = [ws EXCEPT ![c] = "open"]
  /\ fan' = [t \in Senders |->
               IF t \in Sending /\ fan[t].live /\ fan[t].to = ConnUser[c]
                 THEN [fan[t] EXCEPT !.todo = @ \cup {c}] ELSE fan[t]]

\* The client goes away; the server has not noticed.
Lose(c) ==
  /\ ws[c] = "open"
  /\ ws' = [ws EXCEPT ![c] = "lost"]
  /\ fan' = [t \in Senders |->
               IF t \in Sending THEN [fan[t] EXCEPT !.due = @ \ {c}] ELSE fan[t]]

\* disconnect: a new list without the socket replaces the old one.  A fan-out
\* that still holds the old list gets an exception when it writes to the
\* closed socket and goes on, which leaves that socket out.
Disconnect(c) ==
  /\ Registered(c)
  /\ ws' = [ws EXCEPT ![c] = "closed"]
  /\ fan' = [t \in Senders |->
               IF t \in Sending
                 THEN [fan[t] EXCEPT !.due = @ \ {c}, !.todo = @ \ {c},
                         !.live = @ /\ fan[t].to # ConnUser[c]]
                 ELSE fan[t]]

\* The part of send_to_user before its first write.
SendToUser(t, u) ==
  \/ /\ ~IsUserConnected(u)
     /\ UNCHANGED fan
  \/ /\ IsUserConnected(u)
     /\ fan' = [fan EXCEPT ![t] =
          [to |-> u, due |-> {c \in Connections(u) : ws[c] = "open"},
           todo |-> Connections(u), got |-> {}, live |-> TRUE]]

\* One write; one to a lost socket goes nowhere, or raises and is swallowed.
Deliver(t) ==
  /\ t \in Sending
  /\ \E d \in fan[t].todo :
       fan' = [fan EXCEPT ![t].todo = @ \ {d},
                          ![t].got  = IF ws[d] = "open" THEN @ \cup {d} ELSE @]
  /\ UNCHANGED ws

\* The last write has returned and the list has nothing more.
Return(t) ==
  /\ t \in Sending
  /\ fan[t].todo = {}
  /\ fan' = [fan EXCEPT ![t] = None]
  /\ UNCHANGED ws

\* The registry on its own: any coroutine calls send_to_user at any time.
Call(t, u) ==
  /\ t \notin Sending
  /\ SendToUser(t, u)
  /\ UNCHANGED ws

ConnNext ==
  \/ \E c \in Conns : Connect(c) \/ Lose(c) \/ Disconnect(c)
  \/ \E t \in Senders, u \in Users : Call(t, u)
  \/ \E t \in Senders : Deliver(t) \/ Return(t)

\* What a component built on the registry may do to it.
ConnSafety == ConnInit /\ [][ConnNext]_connVars

-----------------------------------------------------------------------------
\* Nobody who stayed connected is left out: when the loop over the list is
\* through, every socket that was registered when it began and healthy ever
\* since has the message, whoever connected or disconnected meanwhile.
EverySocketServed ==
  \A t \in Sending : fan[t].todo = {} => fan[t].due \subseteq fan[t].got

\* No socket is written to twice by one send_to_user, and the list it works on
\* grows only as long as everybody who has the message is still registered.
\* So a device that comes back after the server has removed its socket does not
\* get the message again; one that comes back earlier does, on both.
OncePerSocket ==
  \A t \in Sending :
    /\ fan[t].got \cap fan[t].todo = {}
    /\ fan[t].live => \A c \in fan[t].got : Registered(c)

=============================================================================
