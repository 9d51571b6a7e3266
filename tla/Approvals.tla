------------------------------ MODULE Approvals ------------------------------
(***************************************************************************)
(* The approval workflow of api/approvals.py: one approval request, the    *)
(* reviewer rows created with it, and the approve and reject handlers.     *)
(*                                                                         *)
(* Both handlers are coroutines on the server's one event loop.  Each      *)
(* reads the database, decides, then awaits manager.send_to_user before it *)
(* commits.  The await gives up the loop only while the requester has an   *)
(* open WebSocket, so a handler is one step when the requester is offline  *)
(* and two steps (Approve/Reject, then Commit) when it is online.  What a  *)
(* handler has read and decided but not committed is its task.             *)
(***************************************************************************)
EXTENDS Integers, Sequences

CONSTANTS
  Users,         \* people who can be named as reviewers
  ReviewerLists, \* reviewer_user_ids of the creation requests considered
  Tasks,         \* request coroutines alive at the same time
  MaxNotices,    \* bound: a row with this many notices is not rejected again
  Idle           \* a task slot without a request

Verdicts == {"approved", "rejected"}
RowStatuses == {"pending"} \cup Verdicts
Statuses == {"absent"} \cup RowStatuses

\* A session's pending UPDATEs.  loadedRow and loaded are the values the ORM
\* read, verdict and status the values the handler assigned to the attributes.
Staged == [row : Nat, verdict : Verdicts, loadedRow : RowStatuses,
           loaded : RowStatuses, status : RowStatuses]

ASSUME ApprovalsAssumption ==
  /\ ReviewerLists \subseteq Seq(Users)
  /\ MaxNotices \in Nat
  /\ Idle \notin Staged

VARIABLES
  status,          \* Approval.status, or "absent" before the row exists
  reviewer,        \* ApprovalReviewer.user_id of each row, in row order
  rowStatus,       \* ApprovalReviewer.status of each row
  notices,         \* per row, the verdicts stored as Notification rows
  task,            \* what each suspended handler holds in its DB session
  requesterOnline, \* manager._connections has the requester
  overlapped       \* history: a handler has started while another was suspended

vars == <<status, reviewer, rowStatus, notices, task, requesterOnline, overlapped>>

Rows == DOMAIN reviewer

TypeOK ==
  /\ status \in Statuses
  /\ reviewer \in Seq(Users)
  /\ rowStatus \in [Rows -> RowStatuses]
  /\ notices \in [Rows -> Seq(Verdicts)]
  /\ task \in [Tasks -> Staged \cup {Idle}]
  /\ requesterOnline \in BOOLEAN
  /\ overlapped \in BOOLEAN

Init ==
  /\ status = "absent"
  /\ reviewer = <<>>
  /\ rowStatus = <<>>
  /\ notices = <<>>
  /\ task = [t \in Tasks |-> Idle]
  /\ requesterOnline = FALSE
  /\ overlapped = FALSE

-----------------------------------------------------------------------------
(***************************************************************************)
(* Mutants: plausible mistakes in the handlers, each of which a property   *)
(* below must notice.  The specification does not use them.                *)
(***************************************************************************)
\* any() instead of all().
SomeoneElseApproved(i) == \E j \in Rows : j # i /\ rowStatus[j] = "approved"

\* "Nobody is pending any more" instead of "everybody approved".
NobodyElsePending(i) == \A j \in Rows \ {i} : rowStatus[j] # "pending"

\* The notification committed by a transaction of its own.
NoticeSurvivesRollback(t) ==
  /\ task[t] # Idle
  /\ notices' = [notices EXCEPT ![task[t].row] = Append(@, task[t].verdict)]
  /\ task' = [task EXCEPT ![t] = Idle]
  /\ UNCHANGED <<status, reviewer, rowStatus, requesterOnline, overlapped>>

-----------------------------------------------------------------------------
(***************************************************************************)
(* POST /approvals.  No other request can see the rows before the commit,  *)
(* so the whole handler is the step of its commit.                         *)
(***************************************************************************)
CreateApproval(ids) ==
  /\ status = "absent"
  /\ status' = "pending"
  /\ reviewer' = ids
  /\ rowStatus' = [i \in DOMAIN ids |-> "pending"]
  /\ notices' = [i \in DOMAIN ids |-> <<>>]
  /\ UNCHANGED <<task, requesterOnline, overlapped>>

\* The row that query(...).filter(user_id == u).first() returns.
IsFirstRow(i, u) ==
  /\ reviewer[i] = u
  /\ \A j \in Rows : reviewer[j] = u => i <= j

\* The flush of a commit: an attribute is written only when it differs from
\* the value that was loaded; the notification row is always inserted.
Flush(w) ==
  /\ rowStatus' = [rowStatus EXCEPT
                     ![w.row] = IF w.verdict = w.loadedRow THEN @ ELSE w.verdict]
  /\ status' = IF w.status = w.loaded THEN status ELSE w.status
  /\ notices' = [notices EXCEPT ![w.row] = Append(@, w.verdict)]

\* From the handler's decision to the end of its send_to_user.
SendThenCommit(t, w) ==
  /\ overlapped' = (overlapped \/ \E s \in Tasks : task[s] # Idle)
  /\ \/ /\ requesterOnline
        /\ task' = [task EXCEPT ![t] = w]
        /\ UNCHANGED <<status, rowStatus, notices>>
     \/ /\ ~requesterOnline
        /\ Flush(w)
        /\ UNCHANGED task

\* Everybody approved, as one session sees it: its own row already changed,
\* the other rows as committed when it read them.
AllApprovedBut(i) == \A j \in Rows \ {i} : rowStatus[j] = "approved"

\* POST /approvals/{id}/approve by user u.
Approve(t, u) ==
  /\ status # "absent"
  /\ task[t] = Idle
  /\ \E i \in Rows :
       /\ IsFirstRow(i, u)
       /\ rowStatus[i] = "pending"
       /\ SendThenCommit(t,
            [row |-> i, verdict |-> "approved", loadedRow |-> rowStatus[i],
             loaded |-> status,
             status |-> IF AllApprovedBut(i) THEN "approved" ELSE status])
  /\ UNCHANGED <<reviewer, requesterOnline>>

\* POST /approvals/{id}/reject by user u.
Reject(t, u) ==
  /\ status # "absent"
  /\ task[t] = Idle
  /\ \E i \in Rows :
       /\ IsFirstRow(i, u)
       /\ Len(notices[i]) < MaxNotices
       /\ SendThenCommit(t,
            [row |-> i, verdict |-> "rejected", loadedRow |-> rowStatus[i],
             loaded |-> status, status |-> "rejected"])
  /\ UNCHANGED <<reviewer, requesterOnline>>

\* The send has returned: db.commit().
Commit(t) ==
  /\ task[t] # Idle
  /\ Flush(task[t])
  /\ task' = [task EXCEPT ![t] = Idle]
  /\ UNCHANGED <<reviewer, requesterOnline, overlapped>>

\* db.commit() raises (the SQLite file stayed locked past its timeout): the
\* session is rolled back, the client gets a 500.
CommitFails(t) ==
  /\ task[t] # Idle
  /\ task' = [task EXCEPT ![t] = Idle]
  /\ UNCHANGED <<status, reviewer, rowStatus, notices, requesterOnline, overlapped>>

\* The requester's WebSocket comes and goes.
RequesterToggles ==
  /\ requesterOnline' = ~requesterOnline
  /\ UNCHANGED <<status, reviewer, rowStatus, notices, task, overlapped>>

Next ==
  \/ \E ids \in ReviewerLists : CreateApproval(ids)
  \/ \E t \in Tasks, u \in Users : Approve(t, u) \/ Reject(t, u)
  \/ \E t \in Tasks : Commit(t) \/ CommitFails(t)
  \/ RequesterToggles

Spec == Init /\ [][Next]_vars

-----------------------------------------------------------------------------
(***************************************************************************)
(* Properties of every interleaving.                                       *)
(***************************************************************************)
NoticesOf(i) == {notices[i][k] : k \in DOMAIN notices[i]}

\* An approval is "approved" only if every reviewer row has received an
\* approval, whatever the overlap of approve and reject handlers: the test in
\* approve() reads the other rows before it waits and commits after.
ApprovedByEveryRow ==
  status = "approved" => \A i \in Rows : "approved" \in NoticesOf(i)

\* A row somebody has voted on never shows as pending again, and a row nobody
\* has voted on is still pending: no committed verdict is lost altogether.
VotedRowsAreNotPending ==
  \A i \in Rows : rowStatus[i] = "pending" <=> notices[i] = <<>>

(***************************************************************************)
(* Properties as long as no two handlers have overlapped.                  *)
(***************************************************************************)
\* What the reviewer rows amount to: one rejection rejects, unanimity of at
\* least one row approves, anything else is still pending.
Outcome ==
  IF \E i \in Rows : rowStatus[i] = "rejected" THEN "rejected"
  ELSE IF Rows # {} /\ \A i \in Rows : rowStatus[i] = "approved" THEN "approved"
  ELSE "pending"

\* The status stored on the approval equals the outcome of its rows, also
\* while a handler waits in send_to_user with its verdict uncommitted.
StatusIsOutcome == ~overlapped /\ status # "absent" => status = Outcome

\* The last notification stored about a row names the verdict the row shows,
\* and a row is approved at most once (approve refuses a row already handled).
NoticesTell(i) ==
  notices[i] # <<>> =>
    /\ notices[i][Len(notices[i])] = rowStatus[i]
    /\ \A k \in DOMAIN notices[i] : notices[i][k] = "approved" => k = 1

LastNoticeIsVerdict == ~overlapped => \A i \in Rows : NoticesTell(i)

\* A rejected approval stays rejected: no later approve handler reopens it.
RejectionIsFinal ==
  [][~overlapped' /\ status = "rejected" => status' = "rejected"]_vars

(***************************************************************************)
(* A statement of the source that concurrent reviewers break.              *)
(***************************************************************************)
\* approvals.py:162, "when everyone has approved the whole request is
\* approved": once no handler is running, unanimous rows mean the status left
\* "pending".
UnanimityResolves ==
  (/\ Rows # {}
   /\ \A t \in Tasks : task[t] = Idle
   /\ \A i \in Rows : rowStatus[i] = "approved") => status # "pending"

=============================================================================
