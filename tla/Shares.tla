------------------------------- MODULE Shares -------------------------------
(***************************************************************************)
(* The recipients of shares, from api/shares.py: create, accept, reject,   *)
(* undo-accept, leave and delete, and the administrator's deletion         *)
(* (api/admin.py).                                                         *)
(*                                                                         *)
(* The handlers of shares are coroutines.  accept and reject wait in       *)
(* send_to_user between what they read and their commit, delete waits      *)
(* between its two commits; the others keep the event loop.  The           *)
(* administrator's deletion is a thread, and may come between what any of  *)
(* them reads and writes.                                                  *)
(*                                                                         *)
(* A handler updates and deletes the recipients it has loaded by their     *)
(* row ids, and SQLite gives the id of a deleted row out again.  An UPDATE *)
(* that finds no row makes the commit fail, a DELETE that finds none does  *)
(* not.                                                                    *)
(***************************************************************************)
EXTENDS FiniteSets

CONSTANTS
  Users,      \* users a share can be given to
  Shares,     \* shares, each created once
  Ids,        \* row ids of share_recipients
  Handlers,   \* coroutines that run at the same time
  None        \* no task, no row, no notification

Statuses == {"pending", "accepted", "rejected"}
Parties == Shares \X Users
Recipients == [share : Shares, user : Users, status : Statuses]

Waiting == {"accepting", "rejecting", "telling"}
Stages == Waiting \cup {"undoing", "leaving", "deleting"}
Tasks == [at : Stages, share : Shares, user : Users \cup {None}, ids : SUBSET Ids,
          loaded : Statuses \cup {None}, accepted : SUBSET Users]

ASSUME ShareAssumption ==
  None \notin Users \cup Statuses \cup {"left"} \cup Recipients \cup Tasks

VARIABLES
  share,       \* per share: not created yet, stored, or deleted
  recipient,   \* per row id: the recipient stored under it
  lastNotice,  \* per share and user: the last notification stored for the creator
  task,        \* what each suspended or running handler holds
  joined,      \* history: share and user of clients last told that they are in
  mixedUp,     \* history: share and user whose row another's answer went to, and
               \* those of the answer
  byAdmin,     \* history: shares an administrator has deleted
  untold,      \* history: shares whose revocations failed to be stored
  overlapped   \* history: a handler has started while another was running

vars == <<share, recipient, lastNotice, task, joined, mixedUp, byAdmin, untold,
          overlapped>>

TypeOK ==
  /\ share \in [Shares -> {"none", "live", "gone"}]
  /\ recipient \in [Ids -> Recipients \cup {None}]
  /\ lastNotice \in [Parties -> {"accepted", "rejected", "left", None}]
  /\ task \in [Handlers -> Tasks \cup {None}]
  /\ joined \subseteq Parties
  /\ mixedUp \subseteq Parties
  /\ byAdmin \subseteq Shares
  /\ untold \subseteq Shares
  /\ overlapped \in BOOLEAN

Init ==
  /\ share = [s \in Shares |-> "none"]
  /\ recipient = [i \in Ids |-> None]
  /\ lastNotice = [p \in Parties |-> None]
  /\ task = [h \in Handlers |-> None]
  /\ joined = {} /\ mixedUp = {} /\ byAdmin = {} /\ untold = {}
  /\ overlapped = FALSE

-----------------------------------------------------------------------------
Rows == {i \in Ids : recipient[i] # None}
RowsOf(s) == {i \in Rows : recipient[i].share = s}
AcceptedOf(s) == {u \in Users : \E i \in RowsOf(s) : recipient[i].user = u
                                  /\ recipient[i].status = "accepted"}
PartyOf(i) == <<recipient[i].share, recipient[i].user>>
Party(h) == <<task[h].share, task[h].user>>

Without(I) == [i \in Ids |-> IF i \in I THEN None ELSE recipient[i]]

At(h, stage) == task[h] # None /\ task[h].at = stage

\* No handler is between two statements without an await: the loop is free.
LoopFree == \A h \in Handlers : task[h] # None => task[h].at \in Waiting

\* A handler starts, or continues after its await.
Starts(h) ==
  /\ LoopFree /\ task[h] = None
  /\ overlapped' = (overlapped \/ \E g \in Handlers : task[g] # None)
Continues(h, stage) ==
  /\ At(h, stage)
  /\ stage \in Waiting => LoopFree
  /\ UNCHANGED overlapped

\* The handler of a recipient loads its row.
LoadsRow(h, stage, i) ==
  /\ Starts(h)
  /\ task' = [task EXCEPT ![h] =
       [at |-> stage, share |-> recipient[i].share, user |-> recipient[i].user,
        ids |-> {i}, loaded |-> recipient[i].status, accepted |-> {}]]
  /\ UNCHANGED <<share, recipient, lastNotice, joined, mixedUp, byAdmin, untold>>

End(h) == task' = [task EXCEPT ![h] = None]

\* What the client of an accept hears it is in: the handler reads the share
\* again, by its id, and that of a deleted share may be another's now.
Heard(h) ==
  IF share[task[h].share] = "live" THEN {{Party(h)}}
  ELSE {{}} \cup {{<<s, task[h].user>>} : s \in {t \in Shares : share[t] = "live"}}

-----------------------------------------------------------------------------
(***************************************************************************)
(* Mutants, not used by the specification.                                 *)
(***************************************************************************)
\* accept without its look at the status.
AcceptAnyStatus(h, i) == i \in Rows /\ LoadsRow(h, "accepting", i)

\* An UPDATE that finds no row passes for a success.
AnswerNothing(h, stage, verdict) ==
  /\ Continues(h, stage)
  /\ \E i \in task[h].ids :
       recipient' = IF i \in Rows THEN [recipient EXCEPT ![i].status = verdict]
                    ELSE recipient
  /\ lastNotice' = [lastNotice EXCEPT ![Party(h)] = verdict]
  /\ joined' = IF verdict = "accepted" THEN joined \cup {Party(h)} ELSE joined \ {Party(h)}
  /\ End(h)
  /\ UNCHANGED <<share, mixedUp, byAdmin, untold>>

\* The notification in a transaction of its own.
FailAfterNotice(h) ==
  /\ task[h] # None /\ LoopFree
  /\ lastNotice' = IF At(h, "rejecting")
                   THEN [lastNotice EXCEPT ![Party(h)] = "rejected"] ELSE lastNotice
  /\ End(h)
  /\ UNCHANGED <<share, recipient, joined, mixedUp, byAdmin, untold, overlapped>>

\* Only the share is deleted, as if the database removed its recipients.
AdminDeleteShareOnly(s) ==
  /\ share[s] = "live"
  /\ share' = [share EXCEPT ![s] = "gone"]
  /\ byAdmin' = byAdmin \cup {s}
  /\ overlapped' = (overlapped \/ \E h \in Handlers : task[h] # None)
  /\ UNCHANGED <<recipient, lastNotice, task, joined, mixedUp, untold>>

-----------------------------------------------------------------------------
\* POST /shares: seen from its commit on, on any ids that are free.  A user
\* named twice breaks the unique constraint, and nothing is stored.
CreateShare(s, to) ==
  /\ LoopFree
  /\ share[s] = "none" /\ DOMAIN to \cap Rows = {}
  /\ \A i, j \in DOMAIN to : to[i] = to[j] => i = j
  /\ share' = [share EXCEPT ![s] = "live"]
  /\ recipient' = [i \in Ids |->
       IF i \in DOMAIN to THEN [share |-> s, user |-> to[i], status |-> "pending"]
       ELSE recipient[i]]
  /\ UNCHANGED <<lastNotice, task, joined, mixedUp, byAdmin, untold, overlapped>>

(***************************************************************************)
(* POST /shares/{id}/accept and /reject                                    *)
(***************************************************************************)
\* Any other status is answered with a 400.
AcceptShare(h, i) ==
  i \in Rows /\ recipient[i].status = "pending" /\ LoadsRow(h, "accepting", i)

RejectShare(h, i) ==
  i \in Rows /\ recipient[i].status # "rejected" /\ LoadsRow(h, "rejecting", i)

\* The status of the row with the loaded id, whoever it belongs to by now,
\* and the notification for the creator are one commit.
Answer(h, stage, verdict) ==
  /\ Continues(h, stage)
  /\ \E i \in task[h].ids, told \in Heard(h) :
       /\ i \in Rows
       /\ recipient' = [recipient EXCEPT ![i].status = verdict]
       /\ joined' = IF verdict = "accepted" THEN joined \cup told
                    ELSE joined \ {Party(h)}
       /\ mixedUp' = IF PartyOf(i) = Party(h) THEN mixedUp
                     ELSE mixedUp \cup {PartyOf(i), Party(h)} \cup told
  /\ lastNotice' = [lastNotice EXCEPT ![Party(h)] = verdict]
  /\ End(h)
  /\ UNCHANGED <<share, byAdmin, untold>>

AcceptCommit(h) == Answer(h, "accepting", "accepted")
RejectCommit(h) == Answer(h, "rejecting", "rejected")

(***************************************************************************)
(* POST /shares/{id}/undo-accept                                           *)
(***************************************************************************)
UndoAccept(h, i) ==
  i \in Rows /\ recipient[i].status # "rejected" /\ LoadsRow(h, "undoing", i)

\* A status loaded as pending is not written.
UndoCommit(h) ==
  /\ Continues(h, "undoing")
  /\ \/ task[h].loaded = "pending" /\ UNCHANGED recipient
     \/ /\ task[h].loaded = "accepted"
        /\ \E i \in task[h].ids :
             i \in Rows /\ recipient' = [recipient EXCEPT ![i].status = "pending"]
  /\ joined' = joined \ {Party(h)}
  /\ End(h)
  /\ UNCHANGED <<share, lastNotice, mixedUp, byAdmin, untold>>

(***************************************************************************)
(* DELETE /shares/{id}/recipient                                           *)
(***************************************************************************)
LeaveShare(h, i) == i \in Rows /\ LoadsRow(h, "leaving", i)

\* If the share has been deleted, it depends on when the handler looked for
\* it whether its creator is notified.
LeaveCommit(h) ==
  /\ Continues(h, "leaving")
  /\ recipient' = Without(task[h].ids)
  /\ \/ lastNotice' = [lastNotice EXCEPT ![Party(h)] = "left"]
     \/ share[task[h].share] = "gone" /\ UNCHANGED lastNotice
  /\ joined' = joined \ {Party(h)}
  /\ End(h)
  /\ UNCHANGED <<share, mixedUp, byAdmin, untold>>

(***************************************************************************)
(* DELETE /shares/{id}: its first commit deletes the share and the         *)
(* recipients, its second stores the revocations.                          *)
(***************************************************************************)
DeleteShare(h, s) ==
  /\ Starts(h) /\ share[s] = "live"
  /\ task' = [task EXCEPT ![h] =
       [at |-> "deleting", share |-> s, user |-> None, ids |-> RowsOf(s),
        loaded |-> None, accepted |-> AcceptedOf(s)]]
  /\ UNCHANGED <<share, recipient, lastNotice, joined, mixedUp, byAdmin, untold>>

DeleteCommit(h) ==
  /\ Continues(h, "deleting")
  /\ share' = [share EXCEPT ![task[h].share] = "gone"]
  /\ recipient' = Without(task[h].ids)
  /\ \/ task[h].accepted = {} /\ End(h)
     \/ task[h].accepted # {} /\ task' = [task EXCEPT ![h].at = "telling"]
  /\ UNCHANGED <<lastNotice, joined, mixedUp, byAdmin, untold>>

TellRevoked(h) ==
  /\ Continues(h, "telling")
  /\ joined' = joined \ ({task[h].share} \X task[h].accepted)
  /\ End(h)
  /\ UNCHANGED <<share, recipient, lastNotice, mixedUp, byAdmin, untold>>

\* A commit that raises: no row to update, or a database that stayed locked.
CommitFails(h) ==
  /\ task[h] # None
  /\ task[h].at \in Waiting => LoopFree
  /\ untold' = IF At(h, "telling") THEN untold \cup {task[h].share} ELSE untold
  /\ End(h)
  /\ UNCHANGED <<share, recipient, lastNotice, joined, mixedUp, byAdmin, overlapped>>

\* DELETE /admin/shares/{id}
AdminDeleteShare(s) ==
  /\ share[s] = "live"
  /\ share' = [share EXCEPT ![s] = "gone"]
  /\ recipient' = Without(RowsOf(s))
  /\ byAdmin' = byAdmin \cup {s}
  /\ overlapped' = (overlapped \/ \E h \in Handlers : task[h] # None)
  /\ UNCHANGED <<lastNotice, task, joined, mixedUp, untold>>

Next ==
  \/ \E s \in Shares, I \in SUBSET Ids : \E to \in [I -> Users] : CreateShare(s, to)
  \/ \E h \in Handlers, i \in Ids :
       AcceptShare(h, i) \/ RejectShare(h, i) \/ UndoAccept(h, i) \/ LeaveShare(h, i)
  \/ \E h \in Handlers :
       \/ AcceptCommit(h) \/ RejectCommit(h)
       \/ UndoCommit(h) \/ LeaveCommit(h)
       \/ \E s \in Shares : DeleteShare(h, s)
       \/ DeleteCommit(h) \/ TellRevoked(h)
       \/ CommitFails(h)
  \/ \E s \in Shares : AdminDeleteShare(s)

Spec == Init /\ [][Next]_vars

-----------------------------------------------------------------------------
(***************************************************************************)
(* Properties                                                              *)
(***************************************************************************)
\* In every interleaving, an answer and the notification of it are stored
\* together: the last thing the creator has about a recipient is the answer.
\* Only a recipient under an id given out again while another's answer
\* waited in send_to_user may show an answer nobody was told of.
AnswersAreTold ==
  \A i \in Rows :
    recipient[i].status # "pending" /\ PartyOf(i) \notin mixedUp =>
      lastNotice[PartyOf(i)] = recipient[i].status

\* Nobody is left behind: whoever was told to have joined is a recipient who
\* accepted, or will hear of the revocation when delete_share ends, unless an
\* administrator deleted the share, that commit failed, or an answer went to
\* the row of another.
JoinedOrRevoked ==
  \A p \in joined :
    \/ \E i \in Rows : PartyOf(i) = p /\ recipient[i].status = "accepted"
    \/ \E h \in Handlers :
         At(h, "telling") /\ task[h].share = p[1] /\ p[2] \in task[h].accepted
    \/ p \in mixedUp \/ p[1] \in byAdmin \cup untold

\* Recipients exist only while their share does, although the database
\* enforces nothing and handlers hold recipients they have read.
RowsHaveShare == \A i \in Rows : share[recipient[i].share] = "live"

\* Without overlap a rejection is final.
RejectionStays ==
  [][~overlapped' =>
       \A i \in Rows : recipient[i].status = "rejected" =>
         recipient'[i] \in {recipient[i], None}]_vars

=============================================================================
