------------------------------ MODULE SvnRelay ------------------------------
(***************************************************************************)
(* The SVN proxy of ws/manager.py: share owners register as providers,     *)
(* recipients open sessions, and both sides' messages are relayed.         *)
(*                                                                         *)
(* A message is handled by the coroutine of the socket it came in on, one  *)
(* at a time, and every handler ends in at most one send_to_user, so the   *)
(* senders of Connections are the sockets.  The provider table and the     *)
(* sessions are in memory; shares are rows that HTTP handlers create and   *)
(* delete without telling the relay.                                       *)
(***************************************************************************)
EXTENDS Connections, Integers

CONSTANTS
  MaxShares,  \* bound: shares get ids 1..MaxShares
  MaxSends,   \* bound: handlers that are in send_to_user at once
  Sids,       \* session ids chosen by clients
  ReuseIds    \* TRUE: SQLite, the id of a deleted last row is given out again

ShareIds == 1..MaxShares
Sessions == [owner : Users, recipient : Users, share : ShareIds]

ASSUME RelayAssumption ==
  /\ Conns \subseteq Senders
  /\ MaxShares \in Nat /\ MaxSends \in Nat
  /\ ReuseIds \in BOOLEAN
  /\ None \notin Users \cup Sessions

VARIABLES
  creator,    \* shares.created_by per id, None without a row
  lastId,     \* the greatest id given out so far
  providers,  \* self._share_providers
  sessions    \* self._svn_sessions

routeVars == <<creator, lastId, providers, sessions>>
relayVars == <<connVars, routeVars>>

Live(s) == creator[s] # None

RelayTypeOK ==
  /\ ConnTypeOK
  /\ creator \in [ShareIds -> Users \cup {None}]
  /\ lastId \in 0..MaxShares
  /\ providers \in [ShareIds -> Users \cup {None}]
  /\ sessions \in [Sids -> Sessions \cup {None}]

RelayInit ==
  /\ ConnInit
  /\ creator = [s \in ShareIds |-> None]
  /\ lastId = 0
  /\ providers = [s \in ShareIds |-> None]
  /\ sessions = [i \in Sids |-> None]

-----------------------------------------------------------------------------
(***************************************************************************)
(* Mutants, not used by the specification.                                 *)
(***************************************************************************)
\* The created_by test left out.
RegisterUnchecked(u, ids) ==
  providers' = [s \in ShareIds |->
    IF s \in ids /\ Live(s) THEN u
    ELSE IF providers[s] = u THEN None ELSE providers[s]]

\* The socket is removed and the provider table forgotten.
LeaveKeepingProviders(c) ==
  /\ fan[c] = None
  /\ Disconnect(c)
  /\ UNCHANGED routeVars

\* The provider table looked into without its key.
RouteToAnyProvider(s) ==
  IF \E r \in ShareIds : providers[r] # None
    THEN providers[CHOOSE r \in ShareIds : providers[r] # None]
    ELSE creator[s]

-----------------------------------------------------------------------------
(***************************************************************************)
(* Rows of the table shares, written by HTTP handlers.                     *)
(***************************************************************************)
NewId ==
  IF ReuseIds
    THEN CHOOSE n \in 1..MaxShares + 1 :
           /\ \A s \in ShareIds : Live(s) => s < n
           /\ n = 1 \/ (n - 1 \in ShareIds /\ Live(n - 1))
    ELSE lastId + 1

CreateShare(u) ==
  /\ NewId \in ShareIds
  /\ creator' = [creator EXCEPT ![NewId] = u]
  /\ lastId' = IF NewId > lastId THEN NewId ELSE lastId
  /\ UNCHANGED <<connVars, providers, sessions>>

DeleteShare(s) ==
  /\ Live(s)
  /\ creator' = [creator EXCEPT ![s] = None]
  /\ UNCHANGED <<connVars, lastId, providers, sessions>>

-----------------------------------------------------------------------------
(***************************************************************************)
(* Sockets.  The endpoint leaves its receive loop, and so disconnects,     *)
(* only between two messages.                                              *)
(***************************************************************************)
RelayJoin(c) == Connect(c) /\ UNCHANGED routeVars

RelayDrop(c) == Lose(c) /\ UNCHANGED routeVars

\* All the user's registrations go, whatever other socket made them.
RelayLeave(c) ==
  /\ fan[c] = None
  /\ Disconnect(c)
  /\ providers' = [s \in ShareIds |->
                     IF providers[s] = ConnUser[c] THEN None ELSE providers[s]]
  /\ UNCHANGED <<creator, lastId, sessions>>

-----------------------------------------------------------------------------
(***************************************************************************)
(* Messages.                                                               *)
(***************************************************************************)
\* Mutant of CanHandle: every message in a task of its own.
HandleAnyTime(c) == Registered(c)

CanHandle(c) ==
  /\ Registered(c) /\ fan[c] = None
  /\ Cardinality(Sending) < MaxSends

\* svn_register_provider: the list replaces what the user had registered; an
\* id counts only if the share exists and is the user's.
Register(u, ids) ==
  providers' = [s \in ShareIds |->
    IF s \in ids /\ creator[s] = u THEN u
    ELSE IF providers[s] = u THEN None ELSE providers[s]]

RegisterProvider(c, ids) ==
  /\ CanHandle(c)
  /\ Register(ConnUser[c], ids)
  /\ UNCHANGED <<connVars, creator, lastId, sessions>>

\* The registered provider, or else the creator the database names.
Route(s) == IF providers[s] # None THEN providers[s] ELSE creator[s]

\* svn_new_session: svn_error to the caller when the owner cannot be reached,
\* else the session is stored, over one of the same id, and svn_connect sent.
NewSession(c, i, s) ==
  /\ CanHandle(c)
  /\ \/ /\ Route(s) = None \/ ~IsUserConnected(Route(s))
        /\ SendToUser(c, ConnUser[c])
        /\ UNCHANGED sessions
     \/ /\ Route(s) # None /\ IsUserConnected(Route(s))
        /\ sessions' = [sessions EXCEPT ![i] =
             [owner |-> Route(s), recipient |-> ConnUser[c], share |-> s]]
        /\ SendToUser(c, Route(s))
  /\ UNCHANGED <<ws, creator, lastId, providers>>

\* The other side of a session, as seen from user u.
Peer(i, u) ==
  IF u = sessions[i].owner THEN sessions[i].recipient ELSE sessions[i].owner

\* svn_data: to the other side, whether or not it is connected.
RelayData(c, i) ==
  /\ CanHandle(c)
  /\ sessions[i] # None
  /\ SendToUser(c, Peer(i, ConnUser[c]))
  /\ UNCHANGED <<ws, routeVars>>

\* svn_owner_ready and svn_relay_error: always to the recipient.
RelayToRecipient(c, i) ==
  /\ CanHandle(c)
  /\ sessions[i] # None
  /\ SendToUser(c, sessions[i].recipient)
  /\ UNCHANGED <<ws, routeVars>>

\* svn_close: the session is gone before the other side hears of it.
CloseSession(c, i) ==
  /\ CanHandle(c)
  /\ sessions[i] # None
  /\ sessions' = [sessions EXCEPT ![i] = None]
  /\ SendToUser(c, Peer(i, ConnUser[c]))
  /\ UNCHANGED <<ws, creator, lastId, providers>>

RelayContinue(c) == (Deliver(c) \/ Return(c)) /\ UNCHANGED routeVars

RelayNext ==
  \/ \E u \in Users : CreateShare(u)
  \/ \E s \in ShareIds : DeleteShare(s)
  \/ \E c \in Conns : RelayJoin(c) \/ RelayDrop(c) \/ RelayLeave(c) \/ RelayContinue(c)
  \/ \E c \in Conns, ids \in SUBSET ShareIds : RegisterProvider(c, ids)
  \/ \E c \in Conns, i \in Sids, s \in ShareIds : NewSession(c, i, s)
  \/ \E c \in Conns, i \in Sids :
       RelayData(c, i) \/ RelayToRecipient(c, i) \/ CloseSession(c, i)

\* The event loop resumes suspended handlers, as in FileRequests.
RelaySpec == RelayInit /\ [][RelayNext]_relayVars /\ \A c \in Conns : WF_relayVars(RelayContinue(c))

-----------------------------------------------------------------------------
\* A registered provider is reachable: no entry outlives its user's last
\* socket, although one socket registers and another one disconnects.
ProviderConnected ==
  \A s \in ShareIds : providers[s] # None => IsUserConnected(providers[s])

\* manager.py:155, created_by is verified so that a share cannot be taken
\* over: the provider of an existing share is the share's creator.
ProviderIsCreator ==
  \A s \in ShareIds : Live(s) /\ providers[s] # None => providers[s] = creator[s]

\* A session for a share that exists goes to the share's creator, whether the
\* provider table or the database named the owner, and however the share,
\* the table and the session were changed since.
SessionWithCreator ==
  \A i \in Sids :
    sessions[i] # None /\ Live(sessions[i].share) =>
      sessions[i].owner = creator[sessions[i].share]

\* A socket's handler never stays in a send for ever, so the socket's next
\* message is handled and its disconnection noticed.
HandlersReturn == \A c \in Conns : fan[c] # None ~> fan[c] = None

=============================================================================
