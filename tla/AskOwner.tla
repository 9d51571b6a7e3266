------------------------------ MODULE AskOwner ------------------------------
(***************************************************************************)
(* What ConnectionManager.request_file promises to a handler that asks a   *)
(* repository's owner for a file: the request ends, once, and then has     *)
(* what one of the owner's devices said to this very request, or nothing.  *)
(***************************************************************************)
CONSTANTS
  Requests,  \* calls of request_file
  Sockets,   \* per request, the sockets of the owner it asks
  Says,      \* Says[t][c]: what is said to request t on socket c
  New,       \* a request not made yet
  Pending,   \* a request that waits for its result
  Nothing    \* the result None

VARIABLES
  told,   \* per request, the sockets it has been sent on
  reply   \* per request: New, Pending, Nothing, or an answer

vars == <<told, reply>>

Init ==
  /\ told = [t \in Requests |-> {}]
  /\ reply = [t \in Requests |-> New]

\* The owner is offline, or is asked.
Ask(t) ==
  /\ reply[t] = New
  /\ reply' = [reply EXCEPT ![t] = Nothing] \/ reply' = [reply EXCEPT ![t] = Pending]
  /\ UNCHANGED told

Tell(t) ==
  /\ reply[t] = Pending
  /\ \E ds \in SUBSET Sockets[t] : told' = [told EXCEPT ![t] = @ \cup ds]
  /\ UNCHANGED reply

\* By nothing, or by an answer of a device that was told: on any socket of the
\* owner, since the device may have come back on another one.
Settle(t) ==
  /\ reply[t] = Pending
  /\ \/ reply' = [reply EXCEPT ![t] = Nothing]
     \/ /\ told[t] # {}
        /\ \E c \in Sockets[t] : reply' = [reply EXCEPT ![t] = Says[t][c]]
  /\ UNCHANGED told

Next == \E t \in Requests : Ask(t) \/ Tell(t) \/ Settle(t)

Safety == Init /\ [][Next]_vars

\* No request waits for ever.
Ends == \A t \in Requests : reply[t] = Pending ~> reply[t] # Pending

Spec == Safety /\ Ends

=============================================================================
