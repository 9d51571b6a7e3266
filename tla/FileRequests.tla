---------------------------- MODULE FileRequests ----------------------------
(***************************************************************************)
(* File requests of ws/manager.py: request_file asks the owner's devices   *)
(* for a file and waits on a future; file_response messages resolve it.    *)
(*                                                                         *)
(* The senders of Connections are the requests: send_to_user runs inside   *)
(* request_file, before the wait and outside its 30 s timeout, so a device *)
(* can answer while another one has not even been asked.  A device answers *)
(* on the socket it has then, twice, late, or not at all.  Request ids are *)
(* random and never used twice, so a request is its id, and nobody knows   *)
(* it but who was told.                                                    *)
(***************************************************************************)
EXTENDS Connections

CONSTANTS
  Owner,    \* the owner of the repository each request is about
  New,      \* a request not made yet
  Pending,  \* a future without result, and the request that waits for it
  Offline   \* the result of a request whose owner is not connected

Requests == Senders
Answer(c, t) == [by |-> c, to |-> t]
Answers == [by : Conns, to : Requests]
Results == {New, Pending, None, Offline} \cup Answers

ASSUME RequestsAssumption ==
  /\ Owner \in [Requests -> Users]
  /\ {New, Pending, None, Offline} \cap Answers = {}
  /\ New \notin {Pending, None, Offline} /\ Pending \notin {None, Offline}

VARIABLES
  future,   \* self._file_requests: None without an entry, Pending, or its result
  expired,  \* the timer of wait_for has run out
  told,     \* sockets the file_request message has reached
  reply     \* New, Pending, or what request_file returned

requestVars == <<future, expired, told, reply>>
vars == <<connVars, requestVars>>

TypeOK ==
  /\ ConnTypeOK
  /\ future \in [Requests -> Answers \cup {Pending, None}]
  /\ expired \in [Requests -> BOOLEAN]
  /\ told \in [Requests -> SUBSET Conns]
  /\ reply \in [Requests -> Results]

Init ==
  /\ ConnInit
  /\ future = [t \in Requests |-> None]
  /\ expired = [t \in Requests |-> FALSE]
  /\ told = [t \in Requests |-> {}]
  /\ reply = [t \in Requests |-> New]

Answered(t) == future[t] \notin {Pending, None}
Waiting(t) == reply[t] = Pending /\ fan[t] = None

\* A device that was told of the request may be behind socket c.
MayAnswer(c, t) == Registered(c) /\ \E d \in told[t] : ConnUser[d] = ConnUser[c]

-----------------------------------------------------------------------------
(***************************************************************************)
(* Mutants, not used by the specification.                                 *)
(***************************************************************************)
\* The entry removed only when there was an answer.
ResumeKeepingEntry(t) ==
  /\ Waiting(t)
  /\ \/ /\ Answered(t)
        /\ reply' = [reply EXCEPT ![t] = future[t]]
        /\ future' = [future EXCEPT ![t] = None]
     \/ /\ expired[t]
        /\ reply' = [reply EXCEPT ![t] = None]
        /\ UNCHANGED future
  /\ UNCHANGED <<connVars, expired, told>>

\* wait_for without a timeout.
NeverExpire(t) == FALSE

\* The result set although the future has one.
OverwriteAnswer(c, t) ==
  /\ MayAnswer(c, t)
  /\ future' = [future EXCEPT ![t] = IF @ = None THEN None ELSE Answer(c, t)]
  /\ UNCHANGED <<connVars, expired, told, reply>>

\* Futures looked up by the owner of the request instead of its id.
ResolveAnyOfOwner(c, t) ==
  /\ MayAnswer(c, t)
  /\ \E r \in Requests :
       /\ Owner[r] = Owner[t] /\ future[r] = Pending
       /\ future' = [future EXCEPT ![r] = Answer(c, t)]
  /\ UNCHANGED <<connVars, expired, told, reply>>

-----------------------------------------------------------------------------
Join(c) == Connect(c) /\ UNCHANGED requestVars
Drop(c) == Lose(c) /\ UNCHANGED requestVars
Leave(c) == Disconnect(c) /\ UNCHANGED requestVars

\* request_file up to its first write.
RequestFile(t) ==
  /\ reply[t] = New
  /\ \/ /\ ~IsUserConnected(Owner[t])
        /\ reply' = [reply EXCEPT ![t] = Offline]
        /\ UNCHANGED <<fan, future>>
     \/ /\ IsUserConnected(Owner[t])
        /\ reply' = [reply EXCEPT ![t] = Pending]
        /\ future' = [future EXCEPT ![t] = Pending]
        /\ SendToUser(t, Owner[t])
  /\ UNCHANGED <<ws, expired, told>>

Continue(t) ==
  /\ \/ Deliver(t) /\ told' = [told EXCEPT ![t] = @ \cup fan'[t].got]
     \/ Return(t) /\ UNCHANGED told
  /\ UNCHANGED <<future, expired, reply>>

\* The timer of wait_for, which starts when the message has been sent.
Expire(t) ==
  /\ Waiting(t) /\ ~expired[t]
  /\ expired' = [expired EXCEPT ![t] = TRUE]
  /\ UNCHANGED <<connVars, future, told, reply>>

\* file_response: the first answer completes the future, the others find it
\* completed or gone.  After the timer, Python 3.12 has cancelled the future
\* and 3.11 has not until request_file runs.
FileResponse(c, t) ==
  /\ MayAnswer(c, t)
  /\ \/ /\ future[t] = Pending
        /\ future' = [future EXCEPT ![t] = Answer(c, t)]
     \/ /\ future[t] # Pending \/ expired[t]
        /\ UNCHANGED future
  /\ UNCHANGED <<connVars, expired, told, reply>>

\* request_file returns and removes its entry.  When the timer runs out in
\* the turn of the loop in which the answer came, Python 3.11 returns the
\* answer and 3.12 raises the timeout.
Resume(t) ==
  /\ Waiting(t)
  /\ \/ Answered(t) /\ reply' = [reply EXCEPT ![t] = future[t]]
     \/ expired[t] /\ reply' = [reply EXCEPT ![t] = None]
  /\ future' = [future EXCEPT ![t] = None]
  /\ UNCHANGED <<connVars, expired, told>>

Next ==
  \/ \E c \in Conns : Join(c) \/ Drop(c) \/ Leave(c)
  \/ \E t \in Requests : RequestFile(t) \/ Continue(t) \/ Expire(t) \/ Resume(t)
  \/ \E c \in Conns, t \in Requests : FileResponse(c, t)

\* The event loop runs what is due: timers, coroutines whose future or timer
\* is done, and those whose write has ended.  A write ends: the transport drains
\* or the keepalive timeout breaks the connection.
Spec ==
  /\ Init /\ [][Next]_vars
  /\ \A t \in Requests : WF_vars(Continue(t)) /\ WF_vars(Expire(t)) /\ WF_vars(Resume(t))

-----------------------------------------------------------------------------
\* The entry of a request exists from before its message is sent until the
\* request has returned: an answer that arrives while other devices are still
\* being written to finds it, and a late answer does not.
EntryWhileAsked ==
  \A t \in Requests : future[t] # None <=> reply[t] = Pending

\* The first answer is the result: no second answer, no disconnection of the
\* device and no other request takes it away, only the end of the 30 s does.
AnswersAreKept ==
  [][\A t \in Requests :
       Answered(t) => future'[t] = future[t] \/ reply'[t] = future[t] \/ expired[t]]_vars

\* Every file request implements AskOwner: it is settled once, by what a
\* device of the owner answered to this very request, or by nothing.
Ask == INSTANCE AskOwner WITH
         Sockets <- [t \in Requests |-> SocketsOf(Owner[t])],
         Says <- [t \in Requests |-> [c \in Conns |-> Answer(c, t)]],
         Nothing <- None,
         told <- told,
         reply <- [t \in Requests |-> IF reply[t] = Offline THEN None ELSE reply[t]]
AsksOwner == Ask!Safety

\* Every file request ends, whether or not anybody answers and however devices
\* come and go while it is sent: the 30 s cover the wait but not the send.
RequestsEnd == Ask!Ends

=============================================================================
