--------------------------- MODULE ApprovalsProofs ---------------------------
(***************************************************************************)
(* Proofs about Approvals: type correctness, what "approved" guarantees    *)
(* under every interleaving of the handlers, and that the stored status is *)
(* the outcome of the reviewer rows when no handler is ever suspended.     *)
(***************************************************************************)
EXTENDS Approvals, TLAPS

-----------------------------------------------------------------------------
(***************************************************************************)
(* The two ways in which the handlers change the database.                 *)
(***************************************************************************)

\* A flush keeps the stored rows well typed, whatever row it was staged for.
LEMMA FlushTyped ==
  ASSUME TypeOK, NEW w \in Staged, Flush(w)
  PROVE  /\ status' \in Statuses
         /\ rowStatus' \in [Rows -> RowStatuses]
         /\ notices' \in [Rows -> Seq(Verdicts)]
  <1>1. w.verdict \in Verdicts /\ w.status \in RowStatuses
    BY DEF Staged
  <1>2. status' \in Statuses
    BY <1>1 DEF TypeOK, Flush, Statuses
  <1>3. rowStatus' \in [Rows -> RowStatuses]
    BY <1>1 DEF TypeOK, Flush, RowStatuses
  <1>4. notices' \in [Rows -> Seq(Verdicts)]
    <2>1. \A i \in Rows : Append(notices[i], w.verdict) \in Seq(Verdicts)
      BY <1>1 DEF TypeOK
    <2> QED  BY <2>1 DEF TypeOK, Flush
  <1> QED  BY <1>2, <1>3, <1>4

\* What approve and reject stage is a well-typed unit of work.
LEMMA StagedByApprove ==
  ASSUME TypeOK, status # "absent", NEW i \in Rows
  PROVE  [row |-> i, verdict |-> "approved", loadedRow |-> rowStatus[i],
          loaded |-> status,
          status |-> IF AllApprovedBut(i) THEN "approved" ELSE status]
           \in Staged
  <1>1. i \in Nat
    BY DEF TypeOK, Rows
  <1>2. status \in RowStatuses /\ rowStatus[i] \in RowStatuses
    BY DEF TypeOK, Statuses
  <1> QED  BY <1>1, <1>2 DEF Staged, RowStatuses, Verdicts

LEMMA StagedByReject ==
  ASSUME TypeOK, status # "absent", NEW i \in Rows
  PROVE  [row |-> i, verdict |-> "rejected", loadedRow |-> rowStatus[i],
          loaded |-> status, status |-> "rejected"] \in Staged
  <1>1. i \in Nat
    BY DEF TypeOK, Rows
  <1>2. status \in RowStatuses /\ rowStatus[i] \in RowStatuses
    BY DEF TypeOK, Statuses
  <1> QED  BY <1>1, <1>2 DEF Staged, RowStatuses, Verdicts

LEMMA SendThenCommitTyped ==
  ASSUME TypeOK, NEW t \in Tasks, NEW w \in Staged, SendThenCommit(t, w),
         UNCHANGED <<reviewer, requesterOnline>>
  PROVE  TypeOK'
  <1>0. overlapped' \in BOOLEAN
    BY DEF SendThenCommit
  <1>1. CASE requesterOnline /\ task' = [task EXCEPT ![t] = w]
              /\ UNCHANGED <<status, rowStatus, notices>>
    BY <1>0, <1>1 DEF TypeOK, Rows
  <1>2. CASE ~requesterOnline /\ Flush(w) /\ UNCHANGED task
    BY <1>0, <1>2, FlushTyped DEF TypeOK, Rows
  <1> QED  BY <1>1, <1>2 DEF SendThenCommit

-----------------------------------------------------------------------------
(***************************************************************************)
(* Type correctness.                                                       *)
(***************************************************************************)
LEMMA InitTyped == Init => TypeOK
  <1> SUFFICES ASSUME Init PROVE TypeOK
    OBVIOUS
  <1>1. Rows = {} /\ DOMAIN <<>> = {}
    BY DEF Init, Rows
  <1>2. rowStatus \in [Rows -> RowStatuses] /\ notices \in [Rows -> Seq(Verdicts)]
    BY <1>1 DEF Init
  <1>3. reviewer \in Seq(Users) /\ status \in Statuses
    BY DEF Init, Statuses
  <1>4. /\ task \in [Tasks -> Staged \cup {Idle}]
        /\ requesterOnline \in BOOLEAN
        /\ overlapped \in BOOLEAN
    BY DEF Init
  <1> QED  BY <1>2, <1>3, <1>4 DEF TypeOK

LEMMA NextTyped == TypeOK /\ [Next]_vars => TypeOK'
  <1> SUFFICES ASSUME TypeOK, [Next]_vars PROVE TypeOK'
    OBVIOUS
  <1>1. ASSUME NEW ids \in ReviewerLists, CreateApproval(ids) PROVE TypeOK'
    <2>1. ids \in Seq(Users)
      BY ApprovalsAssumption
    <2> QED  BY <1>1, <2>1 DEF CreateApproval, TypeOK, Rows, Statuses, RowStatuses
  <1>2. ASSUME NEW t \in Tasks, NEW u \in Users, Approve(t, u) PROVE TypeOK'
    <2>1. status # "absent" /\ UNCHANGED <<reviewer, requesterOnline>>
      BY <1>2 DEF Approve
    <2>2. PICK i \in Rows : SendThenCommit(t,
            [row |-> i, verdict |-> "approved", loadedRow |-> rowStatus[i],
             loaded |-> status,
             status |-> IF AllApprovedBut(i) THEN "approved" ELSE status])
      BY <1>2 DEF Approve
    <2> QED  BY <2>1, <2>2, StagedByApprove, SendThenCommitTyped
  <1>3. ASSUME NEW t \in Tasks, NEW u \in Users, Reject(t, u) PROVE TypeOK'
    <2>1. status # "absent" /\ UNCHANGED <<reviewer, requesterOnline>>
      BY <1>3 DEF Reject
    <2>2. PICK i \in Rows : SendThenCommit(t,
            [row |-> i, verdict |-> "rejected", loadedRow |-> rowStatus[i],
             loaded |-> status, status |-> "rejected"])
      BY <1>3 DEF Reject
    <2> QED  BY <2>1, <2>2, StagedByReject, SendThenCommitTyped
  <1>4. ASSUME NEW t \in Tasks, Commit(t) PROVE TypeOK'
    <2>1. task[t] \in Staged /\ Flush(task[t])
      BY <1>4 DEF Commit, TypeOK
    <2> QED  BY <1>4, <2>1, FlushTyped DEF Commit, TypeOK, Rows
  <1>5. ASSUME NEW t \in Tasks, CommitFails(t) PROVE TypeOK'
    BY <1>5 DEF CommitFails, TypeOK, Rows
  <1>6. ASSUME RequesterToggles PROVE TypeOK'
    BY <1>6 DEF RequesterToggles, TypeOK, Rows
  <1>7. CASE UNCHANGED vars
    BY <1>7 DEF vars, TypeOK, Rows
  <1> QED  BY <1>1, <1>2, <1>3, <1>4, <1>5, <1>6, <1>7 DEF Next

\* The stored rows and the suspended handlers keep their types.
THEOREM TypeCorrect == Spec => []TypeOK
  BY InitTyped, NextTyped, PTL DEF Spec

-----------------------------------------------------------------------------
(***************************************************************************)
(* What "approved" means under every interleaving.  The invariant that is  *)
(* inductive adds what the reviewer rows and the suspended handlers know:  *)
(* a handler about to store "approved" has seen every other row approved.  *)
(***************************************************************************)
ApprovedRowsNoted ==
  \A i \in Rows : rowStatus[i] = "approved" => "approved" \in NoticesOf(i)

\* A handler whose commit will turn the status into "approved".
WillApprove(w) == w.status = "approved" /\ w.loaded # "approved"

TasksJustified ==
  \A t \in Tasks : task[t] # Idle =>
    /\ task[t].row \in Rows
    /\ WillApprove(task[t]) =>
         /\ task[t].verdict = "approved"
         /\ \A j \in Rows \ {task[t].row} : "approved" \in NoticesOf(j)

NoTaskBeforeCreation == status = "absent" => \A t \in Tasks : task[t] = Idle

ApprovalInv ==
  /\ TypeOK
  /\ NoTaskBeforeCreation
  /\ ApprovedRowsNoted
  /\ TasksJustified
  /\ ApprovedByEveryRow

\* Notices are only ever appended, and the flushed row gets its verdict's.
LEMMA FlushAppends ==
  ASSUME TypeOK, NEW w \in Staged, w.row \in Rows, Flush(w), UNCHANGED reviewer
  PROVE  /\ Rows' = Rows
         /\ \A i \in Rows : NoticesOf(i) \subseteq NoticesOf(i)'
         /\ w.verdict \in NoticesOf(w.row)'
  <1>1. Rows' = Rows
    BY DEF Rows
  <1>2. ASSUME NEW i \in Rows, i # w.row PROVE NoticesOf(i) \subseteq NoticesOf(i)'
    BY <1>2 DEF Flush, TypeOK, NoticesOf
  <1>3. /\ notices[w.row] \in Seq(Verdicts)
        /\ notices'[w.row] = Append(notices[w.row], w.verdict)
    BY DEF Flush, TypeOK
  <1> DEFINE s == notices[w.row]
             r == notices'[w.row]
  <1>4. /\ DOMAIN s = 1..Len(s) /\ DOMAIN r = 1..(Len(s) + 1) /\ Len(s) \in Nat
        /\ \A k \in 1..Len(s) : r[k] = s[k]
        /\ r[Len(s) + 1] = w.verdict
    BY <1>3
  <1>5. NoticesOf(w.row) \subseteq NoticesOf(w.row)'
    BY <1>4 DEF NoticesOf
  <1>6. w.verdict \in NoticesOf(w.row)'
    BY <1>4 DEF NoticesOf
  <1> QED  BY <1>1, <1>2, <1>5, <1>6

\* A flush of a justified unit of work preserves the invariant's database part.
LEMMA FlushKeepsApprovals ==
  ASSUME ApprovalInv, NEW w \in Staged, w.row \in Rows, Flush(w),
         UNCHANGED reviewer, status # "absent",
         WillApprove(w) =>
           /\ w.verdict = "approved"
           /\ \A j \in Rows \ {w.row} : "approved" \in NoticesOf(j)
  PROVE  /\ ApprovedRowsNoted'
         /\ ApprovedByEveryRow'
         /\ status' # "absent"
         /\ Rows' = Rows
         /\ \A i \in Rows : NoticesOf(i) \subseteq NoticesOf(i)'
  <1>1. /\ Rows' = Rows
        /\ \A i \in Rows : NoticesOf(i) \subseteq NoticesOf(i)'
        /\ w.verdict \in NoticesOf(w.row)'
    BY FlushAppends DEF ApprovalInv
  <1>2. ApprovedRowsNoted'
    <2> SUFFICES ASSUME NEW i \in Rows, rowStatus'[i] = "approved"
                 PROVE  "approved" \in NoticesOf(i)'
      BY <1>1 DEF ApprovedRowsNoted
    <2>1. rowStatus'[i] = rowStatus[i] \/ (i = w.row /\ w.verdict = "approved")
      BY DEF Flush, ApprovalInv, TypeOK
    <2> QED  BY <1>1, <2>1 DEF ApprovalInv, ApprovedRowsNoted
  <1>3. ApprovedByEveryRow'
    <2> SUFFICES ASSUME status' = "approved", NEW i \in Rows
                 PROVE  "approved" \in NoticesOf(i)'
      BY <1>1 DEF ApprovedByEveryRow
    <2>1. status = "approved" \/ WillApprove(w)
      BY DEF Flush, WillApprove
    <2> QED  BY <1>1, <2>1 DEF ApprovalInv, ApprovedByEveryRow
  <1>4. status' # "absent"
    BY DEF Flush, Staged, RowStatuses, Verdicts
  <1> QED  BY <1>1, <1>2, <1>3, <1>4

\* The part of TasksJustified about one handler survives more notices.
LEMMA SendThenCommitKeepsApprovals ==
  ASSUME ApprovalInv, NEW t \in Tasks, NEW w \in Staged, w.row \in Rows,
         SendThenCommit(t, w), UNCHANGED <<reviewer, requesterOnline>>,
         status # "absent",
         WillApprove(w) =>
           /\ w.verdict = "approved"
           /\ \A j \in Rows \ {w.row} : "approved" \in NoticesOf(j)
  PROVE  ApprovalInv'
  <1>1. TypeOK'
    BY SendThenCommitTyped DEF ApprovalInv
  <1>2. CASE requesterOnline /\ task' = [task EXCEPT ![t] = w]
              /\ UNCHANGED <<status, rowStatus, notices>>
    <2>1. Rows' = Rows /\ \A i : NoticesOf(i)' = NoticesOf(i)
      BY <1>2 DEF Rows, NoticesOf
    <2>2. ApprovedRowsNoted' /\ ApprovedByEveryRow' /\ NoTaskBeforeCreation'
      BY <1>2, <2>1 DEF ApprovalInv, ApprovedRowsNoted, ApprovedByEveryRow,
                        NoTaskBeforeCreation
    <2>3. TasksJustified'
      BY <1>2, <2>1 DEF ApprovalInv, TypeOK, TasksJustified, WillApprove
    <2> QED  BY <1>1, <2>2, <2>3 DEF ApprovalInv
  <1>3. CASE ~requesterOnline /\ Flush(w) /\ UNCHANGED task
    <2>1. /\ ApprovedRowsNoted' /\ ApprovedByEveryRow' /\ status' # "absent"
          /\ Rows' = Rows
          /\ \A i \in Rows : NoticesOf(i) \subseteq NoticesOf(i)'
      BY <1>3, FlushKeepsApprovals
    <2>2. TasksJustified'
      BY <1>3, <2>1 DEF ApprovalInv, TasksJustified, WillApprove
    <2> QED  BY <1>1, <2>1, <2>2 DEF ApprovalInv, NoTaskBeforeCreation
  <1> QED  BY <1>2, <1>3 DEF SendThenCommit

LEMMA InitApproval == Init => ApprovalInv
  <1> SUFFICES ASSUME Init PROVE ApprovalInv
    OBVIOUS
  <1>1. Rows = {}
    BY DEF Init, Rows
  <1> QED  BY <1>1, InitTyped DEF Init, ApprovalInv, NoTaskBeforeCreation,
                ApprovedRowsNoted, TasksJustified, ApprovedByEveryRow

LEMMA NextApproval == ApprovalInv /\ [Next]_vars => ApprovalInv'
  <1> SUFFICES ASSUME ApprovalInv, [Next]_vars PROVE ApprovalInv'
    OBVIOUS
  <1>0. TypeOK /\ TypeOK'
    BY NextTyped DEF ApprovalInv
  <1>1. ASSUME NEW ids \in ReviewerLists, CreateApproval(ids) PROVE ApprovalInv'
    BY <1>0, <1>1 DEF CreateApproval, ApprovalInv, NoTaskBeforeCreation,
         ApprovedRowsNoted, TasksJustified, ApprovedByEveryRow, Rows, TypeOK
  <1>2. ASSUME NEW t \in Tasks, NEW u \in Users, Approve(t, u) PROVE ApprovalInv'
    <2>1. status # "absent" /\ UNCHANGED <<reviewer, requesterOnline>>
      BY <1>2 DEF Approve
    <2>2. PICK i \in Rows : SendThenCommit(t,
            [row |-> i, verdict |-> "approved", loadedRow |-> rowStatus[i],
             loaded |-> status,
             status |-> IF AllApprovedBut(i) THEN "approved" ELSE status])
      BY <1>2 DEF Approve
    <2> DEFINE w == [row |-> i, verdict |-> "approved", loadedRow |-> rowStatus[i],
                     loaded |-> status,
                     status |-> IF AllApprovedBut(i) THEN "approved" ELSE status]
    <2>3. WillApprove(w) => AllApprovedBut(i)
      BY DEF WillApprove
    <2>4. WillApprove(w) =>
            w.verdict = "approved" /\ \A j \in Rows \ {i} : "approved" \in NoticesOf(j)
      BY <2>3 DEF AllApprovedBut, ApprovalInv, ApprovedRowsNoted
    <2>5. w \in Staged /\ w.row = i
      BY <1>0, <2>1, StagedByApprove
    <2> HIDE DEF w
    <2> QED  BY <2>1, <2>2, <2>4, <2>5, SendThenCommitKeepsApprovals DEF w
  <1>3. ASSUME NEW t \in Tasks, NEW u \in Users, Reject(t, u) PROVE ApprovalInv'
    <2>1. status # "absent" /\ UNCHANGED <<reviewer, requesterOnline>>
      BY <1>3 DEF Reject
    <2>2. PICK i \in Rows : SendThenCommit(t,
            [row |-> i, verdict |-> "rejected", loadedRow |-> rowStatus[i],
             loaded |-> status, status |-> "rejected"])
      BY <1>3 DEF Reject
    <2> DEFINE w == [row |-> i, verdict |-> "rejected", loadedRow |-> rowStatus[i],
                     loaded |-> status, status |-> "rejected"]
    <2>3. ~WillApprove(w)
      BY DEF WillApprove
    <2>4. w \in Staged /\ w.row = i
      BY <1>0, <2>1, StagedByReject
    <2> QED  BY <2>1, <2>2, <2>3, <2>4, SendThenCommitKeepsApprovals
  <1>4. ASSUME NEW t \in Tasks, Commit(t) PROVE ApprovalInv'
    <2> DEFINE w == task[t]
    <2>1. w \in Staged /\ w # Idle /\ Flush(w) /\ UNCHANGED reviewer
      BY <1>0, <1>4 DEF Commit, TypeOK
    <2>2. /\ status # "absent" /\ w.row \in Rows
          /\ WillApprove(w) =>
               /\ w.verdict = "approved"
               /\ \A j \in Rows \ {w.row} : "approved" \in NoticesOf(j)
      BY <2>1 DEF ApprovalInv, NoTaskBeforeCreation, TasksJustified
    <2>3. /\ ApprovedRowsNoted' /\ ApprovedByEveryRow' /\ status' # "absent"
          /\ Rows' = Rows
          /\ \A i \in Rows : NoticesOf(i) \subseteq NoticesOf(i)'
      <3> HIDE DEF w
      <3> QED  BY <2>1, <2>2, FlushKeepsApprovals
    <2>4. \A s \in Tasks : task'[s] # Idle => task'[s] = task[s] /\ task[s] # Idle
      BY <1>0, <1>4 DEF Commit, TypeOK
    <2>5. TasksJustified'
      BY <2>3, <2>4 DEF ApprovalInv, TasksJustified, WillApprove
    <2> QED  BY <1>0, <2>3, <2>5 DEF ApprovalInv, NoTaskBeforeCreation
  <1>5. ASSUME NEW t \in Tasks, CommitFails(t) PROVE ApprovalInv'
    BY <1>0, <1>5 DEF CommitFails, TypeOK, ApprovalInv, NoTaskBeforeCreation,
         ApprovedRowsNoted, TasksJustified, ApprovedByEveryRow, Rows, NoticesOf,
         WillApprove
  <1>6. CASE RequesterToggles \/ UNCHANGED vars
    BY <1>0, <1>6 DEF RequesterToggles, vars, ApprovalInv, NoTaskBeforeCreation,
         ApprovedRowsNoted, TasksJustified, ApprovedByEveryRow, Rows, NoticesOf,
         WillApprove
  <1> QED  BY <1>1, <1>2, <1>3, <1>4, <1>5, <1>6 DEF Next

\* For any number of users, reviewers and overlapping handlers, an approval
\* that is "approved" has an approval of every one of its reviewer rows.
THEOREM ApprovedMeansEveryRow == Spec => []ApprovedByEveryRow
  <1>1. ApprovalInv => ApprovedByEveryRow
    BY DEF ApprovalInv
  <1> QED  BY InitApproval, NextApproval, <1>1, PTL DEF Spec

-----------------------------------------------------------------------------
(***************************************************************************)
(* A vote and its notification are stored together.  A handler that loaded *)
(* a row already voted on leaves its column alone when it votes the same:  *)
(* that is sound because such a row is not pending any more.               *)
(***************************************************************************)
LoadedVotesStay ==
  \A t \in Tasks : task[t] # Idle =>
    (rowStatus[task[t].row] = "pending" => task[t].loadedRow = "pending")

VotedInv == ApprovalInv /\ VotedRowsAreNotPending /\ LoadedVotesStay

LEMMA FlushVotes ==
  ASSUME TypeOK, VotedRowsAreNotPending, NEW w \in Staged, w.row \in Rows,
         rowStatus[w.row] = "pending" => w.loadedRow = "pending",
         Flush(w), UNCHANGED reviewer
  PROVE  /\ VotedRowsAreNotPending'
         /\ \A i \in Rows : rowStatus'[i] = "pending" => rowStatus[i] = "pending"
  <1>1. Rows' = Rows /\ w.verdict # "pending"
    BY DEF Rows, Staged, Verdicts
  <1>2. ASSUME NEW i \in Rows, i # w.row
        PROVE  rowStatus'[i] = rowStatus[i] /\ notices'[i] = notices[i]
    BY <1>2 DEF Flush, TypeOK
  <1>3. rowStatus'[w.row] # "pending"
    BY <1>1 DEF Flush, TypeOK
  <1>4. notices'[w.row] # <<>>
    <2>1. notices[w.row] \in Seq(Verdicts) /\ w.verdict \in Verdicts
          /\ notices'[w.row] = Append(notices[w.row], w.verdict)
      BY DEF Flush, TypeOK, Staged
    <2>2. Len(notices'[w.row]) = Len(notices[w.row]) + 1 /\ Len(notices[w.row]) \in Nat
      BY <2>1
    <2>3. Len(<<>>) = 0
      OBVIOUS
    <2> QED  BY <2>2, <2>3
  <1> QED  BY <1>1, <1>2, <1>3, <1>4 DEF VotedRowsAreNotPending

LEMMA InitVoted == Init => VotedInv
  <1> SUFFICES ASSUME Init PROVE VotedInv
    OBVIOUS
  <1>1. Rows = {}
    BY DEF Init, Rows
  <1> QED  BY <1>1, InitApproval
           DEF Init, VotedInv, VotedRowsAreNotPending, LoadedVotesStay

\* A handler that starts with the row as it is in the database.
LEMMA SendThenCommitVotes ==
  ASSUME VotedInv, ApprovalInv', NEW t \in Tasks, NEW w \in Staged, w.row \in Rows,
         w.loadedRow = rowStatus[w.row], SendThenCommit(t, w), UNCHANGED reviewer
  PROVE  VotedInv'
  <1>0. TypeOK
    BY DEF VotedInv, ApprovalInv
  <1>1. CASE requesterOnline /\ task' = [task EXCEPT ![t] = w]
              /\ UNCHANGED <<status, rowStatus, notices>>
    <2>1. task'[t] = w /\ \A s \in Tasks \ {t} : task'[s] = task[s]
      BY <1>0, <1>1 DEF TypeOK
    <2> QED  BY <1>1, <2>1 DEF VotedInv, VotedRowsAreNotPending, LoadedVotesStay, Rows
  <1>2. CASE ~requesterOnline /\ Flush(w) /\ UNCHANGED task
    <2>1. /\ VotedRowsAreNotPending'
          /\ \A i \in Rows : rowStatus'[i] = "pending" => rowStatus[i] = "pending"
      BY <1>0, <1>2, FlushVotes DEF VotedInv
    <2>2. \A s \in Tasks : task[s] # Idle => task[s].row \in Rows
      BY DEF VotedInv, ApprovalInv, TasksJustified
    <2> QED  BY <1>2, <2>1, <2>2 DEF VotedInv, LoadedVotesStay
  <1> QED  BY <1>1, <1>2 DEF SendThenCommit

LEMMA NextVoted == VotedInv /\ [Next]_vars => VotedInv'
  <1> SUFFICES ASSUME VotedInv, [Next]_vars PROVE VotedInv'
    OBVIOUS
  <1>0. TypeOK /\ ApprovalInv /\ ApprovalInv'
    BY NextApproval DEF VotedInv, ApprovalInv
  <1>1. ASSUME NEW ids \in ReviewerLists, CreateApproval(ids) PROVE VotedInv'
    <2>1. \A t \in Tasks : task'[t] = Idle
      BY <1>0, <1>1 DEF CreateApproval, ApprovalInv, NoTaskBeforeCreation
    <2>2. VotedRowsAreNotPending'
      BY <1>1 DEF CreateApproval, VotedRowsAreNotPending, Rows
    <2> QED  BY <1>0, <2>1, <2>2 DEF VotedInv, LoadedVotesStay
  <1>2. ASSUME NEW t \in Tasks, NEW u \in Users, Approve(t, u) PROVE VotedInv'
    <2>1. status # "absent" /\ UNCHANGED reviewer
      BY <1>2 DEF Approve
    <2>2. PICK i \in Rows : SendThenCommit(t,
            [row |-> i, verdict |-> "approved", loadedRow |-> rowStatus[i],
             loaded |-> status,
             status |-> IF AllApprovedBut(i) THEN "approved" ELSE status])
      BY <1>2 DEF Approve
    <2> QED  BY <1>0, <2>1, <2>2, StagedByApprove, SendThenCommitVotes
  <1>3. ASSUME NEW t \in Tasks, NEW u \in Users, Reject(t, u) PROVE VotedInv'
    <2>1. status # "absent" /\ UNCHANGED reviewer
      BY <1>3 DEF Reject
    <2>2. PICK i \in Rows : SendThenCommit(t,
            [row |-> i, verdict |-> "rejected", loadedRow |-> rowStatus[i],
             loaded |-> status, status |-> "rejected"])
      BY <1>3 DEF Reject
    <2> QED  BY <1>0, <2>1, <2>2, StagedByReject, SendThenCommitVotes
  <1>4. ASSUME NEW t \in Tasks, Commit(t) PROVE VotedInv'
    <2>1. /\ task[t] \in Staged /\ task[t] # Idle /\ Flush(task[t])
          /\ UNCHANGED reviewer
          /\ \A s \in Tasks : task'[s] # Idle => task'[s] = task[s]
      BY <1>0, <1>4 DEF Commit, TypeOK
    <2>2. \A s \in Tasks : task[s] # Idle => task[s].row \in Rows
      BY <1>0 DEF ApprovalInv, TasksJustified
    <2>3. rowStatus[task[t].row] = "pending" => task[t].loadedRow = "pending"
      BY <2>1 DEF VotedInv, LoadedVotesStay
    <2>4. /\ VotedRowsAreNotPending'
          /\ \A i \in Rows : rowStatus'[i] = "pending" => rowStatus[i] = "pending"
      BY <1>0, <2>1, <2>2, <2>3, FlushVotes DEF VotedInv
    <2> QED  BY <1>0, <2>1, <2>2, <2>4 DEF VotedInv, LoadedVotesStay
  <1>5. ASSUME NEW t \in Tasks, CommitFails(t) PROVE VotedInv'
    <2>1. /\ \A s \in Tasks : task'[s] # Idle => task'[s] = task[s]
          /\ UNCHANGED <<reviewer, rowStatus, notices>>
      BY <1>0, <1>5 DEF CommitFails, TypeOK
    <2> QED  BY <1>0, <2>1 DEF VotedInv, VotedRowsAreNotPending, LoadedVotesStay, Rows
  <1>6. CASE RequesterToggles \/ UNCHANGED vars
    BY <1>0, <1>6 DEF RequesterToggles, vars, VotedInv, VotedRowsAreNotPending,
                      LoadedVotesStay, Rows
  <1> QED  BY <1>1, <1>2, <1>3, <1>4, <1>5, <1>6 DEF Next

\* In every interleaving, a row is pending exactly while no vote is stored.
THEOREM VotesAndNoticesTogether == Spec => []VotedRowsAreNotPending
  <1>1. VotedInv => VotedRowsAreNotPending
    BY DEF VotedInv
  <1> QED  BY InitVoted, NextVoted, <1>1, PTL DEF Spec

-----------------------------------------------------------------------------
(***************************************************************************)
(* Handlers that have never overlapped.  Then a suspended handler still    *)
(* holds what the database holds (Fresh), and both the stored status and   *)
(* the notifications agree with the reviewer rows.                         *)
(***************************************************************************)
Fresh(w) ==
  /\ w.row \in Rows
  /\ w.loadedRow = rowStatus[w.row]
  /\ w.loaded = status /\ status # "absent"
  /\ \/ /\ w.verdict = "rejected" /\ w.status = "rejected"
     \/ /\ w.verdict = "approved" /\ rowStatus[w.row] = "pending"
        /\ w.status = IF AllApprovedBut(w.row) THEN "approved" ELSE status

OneFreshTask ==
  \A t \in Tasks : task[t] # Idle =>
    /\ Fresh(task[t])
    /\ \A s \in Tasks \ {t} : task[s] = Idle

SerialInv ==
  /\ TypeOK
  /\ StatusIsOutcome
  /\ ~overlapped => OneFreshTask

\* What the flush of a fresh unit of work leaves in the rows and the status.
LEMMA FreshFlush ==
  ASSUME TypeOK, status # "absent" => status = Outcome,
         NEW w \in Staged, Fresh(w), Flush(w), UNCHANGED reviewer
  PROVE  /\ status' = Outcome'
         /\ status = "rejected" => status' = "rejected"
  <1>1. /\ Rows' = Rows /\ w.row \in Rows /\ status # "absent"
        /\ status = Outcome /\ rowStatus \in [Rows -> RowStatuses]
    BY DEF Fresh, Rows, TypeOK
  <1>2. /\ rowStatus' = [rowStatus EXCEPT ![w.row] = w.verdict]
        /\ status' = w.status
    BY DEF Flush, Fresh, TypeOK
  <1>3. /\ rowStatus'[w.row] = w.verdict
        /\ \A j \in Rows \ {w.row} : rowStatus'[j] = rowStatus[j]
    BY <1>1, <1>2
  <1>4. CASE w.verdict = "rejected"
    BY <1>1, <1>2, <1>3, <1>4 DEF Fresh, Outcome
  <1>5. CASE w.verdict = "approved" /\ AllApprovedBut(w.row)
    <2>1. status' = "approved" /\ rowStatus[w.row] = "pending"
      BY <1>2, <1>5 DEF Fresh
    <2>2. \A j \in Rows : rowStatus'[j] = "approved"
      BY <1>3, <1>5 DEF AllApprovedBut
    <2>3. status # "rejected"
      BY <1>1, <1>5, <2>1 DEF AllApprovedBut, Outcome
    <2> QED  BY <1>1, <2>1, <2>2, <2>3 DEF Outcome
  <1>6. CASE w.verdict = "approved" /\ ~AllApprovedBut(w.row)
    <2>1. PICK j \in Rows \ {w.row} : rowStatus[j] # "approved"
      BY <1>6 DEF AllApprovedBut
    <2>2. rowStatus'[j] # "approved" /\ status' = status
          /\ rowStatus[w.row] = "pending"
      BY <1>2, <1>3, <1>6, <2>1 DEF Fresh
    <2>3. (\E k \in Rows : rowStatus'[k] = "rejected")
            <=> \E k \in Rows : rowStatus[k] = "rejected"
      BY <1>3, <1>6, <2>2
    <2> QED  BY <1>1, <2>1, <2>2, <2>3 DEF Outcome
  <1>7. w.verdict \in Verdicts
    BY DEF Staged
  <1> QED  BY <1>4, <1>5, <1>6, <1>7 DEF Verdicts

\* A handler that starts with a fresh unit of work.
LEMMA SerialSend ==
  ASSUME SerialInv, NEW t \in Tasks, NEW w \in Staged, Fresh(w), TypeOK',
         SendThenCommit(t, w), UNCHANGED <<reviewer, requesterOnline>>
  PROVE  /\ SerialInv'
         /\ ~overlapped' /\ status = "rejected" => status' = "rejected"
  <1> SUFFICES ASSUME ~overlapped'
               PROVE  /\ status' # "absent" => status' = Outcome'
                      /\ OneFreshTask'
                      /\ status = "rejected" => status' = "rejected"
    BY DEF SerialInv, StatusIsOutcome
  <1>1. /\ \A s \in Tasks : task[s] = Idle
        /\ status # "absent" => status = Outcome
    BY DEF SendThenCommit, SerialInv, StatusIsOutcome
  <1>2. CASE requesterOnline /\ task' = [task EXCEPT ![t] = w]
              /\ UNCHANGED <<status, rowStatus, notices>>
    <2>1. task'[t] = w /\ \A s \in Tasks \ {t} : task'[s] = Idle
      BY <1>1, <1>2 DEF SerialInv, TypeOK
    <2>2. Fresh(w)' /\ Outcome' = Outcome
      BY <1>2 DEF Fresh, AllApprovedBut, Rows, Outcome
    <2>3. OneFreshTask'
      BY <2>1, <2>2 DEF OneFreshTask, Fresh, AllApprovedBut, Rows
    <2> QED  BY <1>1, <1>2, <2>2, <2>3
  <1>3. CASE ~requesterOnline /\ Flush(w) /\ UNCHANGED task
    <2>1. status' = Outcome' /\ (status = "rejected" => status' = "rejected")
      BY <1>1, <1>3, FreshFlush DEF SerialInv
    <2> QED  BY <1>1, <1>3, <2>1 DEF OneFreshTask
  <1> QED  BY <1>2, <1>3 DEF SendThenCommit

LEMMA InitSerial == Init => SerialInv
  BY InitTyped DEF Init, SerialInv, StatusIsOutcome, OneFreshTask

LEMMA NextSerial ==
  ASSUME SerialInv, [Next]_vars
  PROVE  /\ SerialInv'
         /\ ~overlapped' /\ status = "rejected" => status' = "rejected"
  <1> DEFINE Final == ~overlapped' /\ status = "rejected" => status' = "rejected"
  <1>0. TypeOK /\ TypeOK'
    BY NextTyped DEF SerialInv
  <1>1. ASSUME NEW ids \in ReviewerLists, CreateApproval(ids)
        PROVE  SerialInv' /\ Final
    <2>1. status = "absent" /\ status' = "pending" /\ UNCHANGED <<task, overlapped>>
      BY <1>1 DEF CreateApproval
    <2>2. ~overlapped => \A t \in Tasks : task[t] = Idle
      BY <2>1 DEF SerialInv, OneFreshTask, Fresh
    <2>3. Outcome' = "pending"
      BY <1>1 DEF CreateApproval, Outcome, Rows
    <2> QED  BY <1>0, <2>1, <2>2, <2>3 DEF SerialInv, StatusIsOutcome, OneFreshTask
  <1>2. ASSUME NEW t \in Tasks, NEW u \in Users, Approve(t, u)
        PROVE  SerialInv' /\ Final
    <2>1. status # "absent" /\ UNCHANGED <<reviewer, requesterOnline>>
      BY <1>2 DEF Approve
    <2>2. PICK i \in Rows :
            /\ rowStatus[i] = "pending"
            /\ SendThenCommit(t,
                 [row |-> i, verdict |-> "approved", loadedRow |-> rowStatus[i],
                  loaded |-> status,
                  status |-> IF AllApprovedBut(i) THEN "approved" ELSE status])
      BY <1>2 DEF Approve
    <2> DEFINE w == [row |-> i, verdict |-> "approved", loadedRow |-> rowStatus[i],
                     loaded |-> status,
                     status |-> IF AllApprovedBut(i) THEN "approved" ELSE status]
    <2>3. w \in Staged
      BY <1>0, <2>1, StagedByApprove
    <2>4. Fresh(w)
      BY <2>1, <2>2 DEF Fresh
    <2> HIDE DEF w
    <2> QED  BY <1>0, <2>1, <2>2, <2>3, <2>4, SerialSend DEF w
  <1>3. ASSUME NEW t \in Tasks, NEW u \in Users, Reject(t, u)
        PROVE  SerialInv' /\ Final
    <2>1. status # "absent" /\ UNCHANGED <<reviewer, requesterOnline>>
      BY <1>3 DEF Reject
    <2>2. PICK i \in Rows : SendThenCommit(t,
            [row |-> i, verdict |-> "rejected", loadedRow |-> rowStatus[i],
             loaded |-> status, status |-> "rejected"])
      BY <1>3 DEF Reject
    <2> DEFINE w == [row |-> i, verdict |-> "rejected", loadedRow |-> rowStatus[i],
                     loaded |-> status, status |-> "rejected"]
    <2>3. w \in Staged
      BY <1>0, <2>1, StagedByReject
    <2>4. Fresh(w)
      BY <2>1 DEF Fresh
    <2> HIDE DEF w
    <2> QED  BY <1>0, <2>1, <2>2, <2>3, <2>4, SerialSend DEF w
  <1>4. ASSUME NEW t \in Tasks, Commit(t) PROVE SerialInv' /\ Final
    <2>1. task[t] \in Staged /\ task[t] # Idle /\ Flush(task[t])
          /\ UNCHANGED <<reviewer, overlapped>>
      BY <1>0, <1>4 DEF Commit, TypeOK
    <2> SUFFICES ASSUME ~overlapped PROVE SerialInv' /\ Final
      BY <1>0, <2>1 DEF SerialInv, StatusIsOutcome
    <2>2. Fresh(task[t]) /\ \A s \in Tasks : task'[s] = Idle
      BY <1>0, <1>4, <2>1 DEF Commit, SerialInv, OneFreshTask, TypeOK
    <2>3. status # "absent" => status = Outcome
      BY DEF SerialInv, StatusIsOutcome
    <2>4. status' = Outcome' /\ (status = "rejected" => status' = "rejected")
      BY <1>0, <2>1, <2>2, <2>3, FreshFlush
    <2> QED  BY <1>0, <2>2, <2>4 DEF SerialInv, StatusIsOutcome, OneFreshTask
  <1>5. ASSUME NEW t \in Tasks, CommitFails(t) PROVE SerialInv' /\ Final
    <2>1. /\ \A s \in Tasks : task'[s] # Idle => task'[s] = task[s]
          /\ \A s \in Tasks : task[s] = Idle => task'[s] = Idle
          /\ UNCHANGED <<status, reviewer, rowStatus, overlapped>>
      BY <1>0, <1>5 DEF CommitFails, TypeOK
    <2> QED  BY <1>0, <2>1 DEF SerialInv, StatusIsOutcome, OneFreshTask, Fresh,
                  AllApprovedBut, Outcome, Rows
  <1>6. CASE RequesterToggles \/ UNCHANGED vars
    <2>1. UNCHANGED <<status, reviewer, rowStatus, task, overlapped>>
      BY <1>6 DEF RequesterToggles, vars
    <2> QED  BY <1>0, <2>1 DEF SerialInv, StatusIsOutcome, OneFreshTask, Fresh,
                  AllApprovedBut, Outcome, Rows
  <1> QED  BY <1>1, <1>2, <1>3, <1>4, <1>5, <1>6 DEF Next

\* As long as no two handlers have overlapped, the status of an approval is
\* what its reviewer rows amount to, for any number of them.
THEOREM SerialStatusIsOutcome == Spec => []StatusIsOutcome
  <1>1. SerialInv => StatusIsOutcome
    BY DEF SerialInv
  <1>2. SerialInv /\ [Next]_vars => SerialInv'
    BY NextSerial
  <1> QED  BY InitSerial, <1>1, <1>2, PTL DEF Spec

\* And no later handler takes a rejection back, although approve does not
\* look at the status of the approval.
THEOREM SerialRejectionIsFinal == Spec => RejectionIsFinal
  <1>1. SerialInv /\ [Next]_vars => SerialInv'
    BY NextSerial
  <1>2. SerialInv /\ [Next]_vars
          => [~overlapped' /\ status = "rejected" => status' = "rejected"]_vars
    BY NextSerial
  <1> QED  BY InitSerial, <1>1, <1>2, PTL DEF Spec, RejectionIsFinal

\* Without overlap, the rows change by their creation or a fresh flush.
LEMMA SerialRowChanges ==
  ASSUME SerialInv, [Next]_vars, ~overlapped'
  PROVE  \/ UNCHANGED <<reviewer, rowStatus, notices>>
         \/ \E ids \in ReviewerLists : CreateApproval(ids)
         \/ UNCHANGED reviewer /\ \E w \in Staged : Fresh(w) /\ Flush(w)
  <1>0. TypeOK
    BY DEF SerialInv
  <1>1. ASSUME NEW t \in Tasks, NEW u \in Users, Approve(t, u)
        PROVE  \/ UNCHANGED <<reviewer, rowStatus, notices>>
               \/ UNCHANGED reviewer /\ \E w \in Staged : Fresh(w) /\ Flush(w)
    <2>1. status # "absent" /\ UNCHANGED reviewer
      BY <1>1 DEF Approve
    <2>2. PICK i \in Rows :
            /\ rowStatus[i] = "pending"
            /\ SendThenCommit(t,
                 [row |-> i, verdict |-> "approved", loadedRow |-> rowStatus[i],
                  loaded |-> status,
                  status |-> IF AllApprovedBut(i) THEN "approved" ELSE status])
      BY <1>1 DEF Approve
    <2> DEFINE w == [row |-> i, verdict |-> "approved", loadedRow |-> rowStatus[i],
                     loaded |-> status,
                     status |-> IF AllApprovedBut(i) THEN "approved" ELSE status]
    <2>3. w \in Staged /\ Fresh(w)
      BY <1>0, <2>1, <2>2, StagedByApprove DEF Fresh
    <2> HIDE DEF w
    <2> QED  BY <2>1, <2>2, <2>3 DEF SendThenCommit, w
  <1>2. ASSUME NEW t \in Tasks, NEW u \in Users, Reject(t, u)
        PROVE  \/ UNCHANGED <<reviewer, rowStatus, notices>>
               \/ UNCHANGED reviewer /\ \E w \in Staged : Fresh(w) /\ Flush(w)
    <2>1. status # "absent" /\ UNCHANGED reviewer
      BY <1>2 DEF Reject
    <2>2. PICK i \in Rows : SendThenCommit(t,
            [row |-> i, verdict |-> "rejected", loadedRow |-> rowStatus[i],
             loaded |-> status, status |-> "rejected"])
      BY <1>2 DEF Reject
    <2> DEFINE w == [row |-> i, verdict |-> "rejected", loadedRow |-> rowStatus[i],
                     loaded |-> status, status |-> "rejected"]
    <2>3. w \in Staged /\ Fresh(w)
      BY <1>0, <2>1, StagedByReject DEF Fresh
    <2> HIDE DEF w
    <2> QED  BY <2>1, <2>2, <2>3 DEF SendThenCommit, w
  <1>3. ASSUME NEW t \in Tasks, Commit(t)
        PROVE  UNCHANGED reviewer /\ \E w \in Staged : Fresh(w) /\ Flush(w)
    BY <1>0, <1>3 DEF Commit, SerialInv, OneFreshTask, TypeOK
  <1>4. ASSUME \/ \E t \in Tasks : CommitFails(t)
               \/ RequesterToggles \/ UNCHANGED vars
        PROVE  UNCHANGED <<reviewer, rowStatus, notices>>
    BY <1>4 DEF CommitFails, RequesterToggles, vars
  <1> QED  BY <1>1, <1>2, <1>3, <1>4 DEF Next

\* An approval is the first notice of its row, a rejection may follow others.
LEMMA FreshFlushTells ==
  ASSUME TypeOK, VotedRowsAreNotPending, NEW w \in Staged, Fresh(w), Flush(w),
         UNCHANGED reviewer, \A i \in Rows : NoticesTell(i)
  PROVE  (\A i \in Rows : NoticesTell(i))'
  <1>1. Rows' = Rows /\ w.row \in Rows
    BY DEF Rows, Fresh
  <1>2. ASSUME NEW i \in Rows, i # w.row PROVE NoticesTell(i)'
    <2>1. rowStatus'[i] = rowStatus[i] /\ notices'[i] = notices[i]
      BY <1>2 DEF Flush, TypeOK
    <2> QED  BY <2>1 DEF NoticesTell
  <1> DEFINE s == notices[w.row]
             r == notices'[w.row]
  <1>3. /\ s \in Seq(Verdicts) /\ w.verdict \in Verdicts
        /\ r = Append(s, w.verdict) /\ rowStatus'[w.row] = w.verdict
    BY <1>1 DEF Flush, TypeOK, Staged, Fresh
  <1>4. /\ DOMAIN s = 1..Len(s) /\ DOMAIN r = 1..(Len(s) + 1)
        /\ Len(r) = Len(s) + 1 /\ Len(s) \in Nat
        /\ \A k \in 1..Len(s) : r[k] = s[k]
        /\ r[Len(s) + 1] = w.verdict
    BY <1>3
  <1>5. ASSUME NEW k \in DOMAIN r, r[k] = "approved" PROVE k = 1
    <2>1. CASE w.verdict = "approved"
      <3>1. s = <<>>
        BY <1>1, <2>1 DEF Fresh, VotedRowsAreNotPending
      <3> QED  BY <1>4, <1>5, <3>1
    <2>2. CASE w.verdict = "rejected"
      <3>1. k \in 1..Len(s) /\ s[k] = "approved"
        BY <1>4, <1>5, <2>2
      <3>2. s # <<>>
        BY <1>4, <3>1
      <3> QED  BY <1>1, <1>4, <3>1, <3>2 DEF NoticesTell
    <2> QED  BY <1>3, <2>1, <2>2 DEF Verdicts
  <1>6. NoticesTell(w.row)'
    BY <1>3, <1>4, <1>5 DEF NoticesTell
  <1> QED  BY <1>1, <1>2, <1>6

ToldInv == VotedInv /\ SerialInv /\ LastNoticeIsVerdict

LEMMA InitTold == Init => ToldInv
  <1> SUFFICES ASSUME Init PROVE ToldInv
    OBVIOUS
  <1>1. Rows = {}
    BY DEF Init, Rows
  <1> QED  BY <1>1, InitVoted, InitSerial DEF ToldInv, LastNoticeIsVerdict

LEMMA NextTold == ToldInv /\ [Next]_vars => ToldInv'
  <1> SUFFICES ASSUME ToldInv, [Next]_vars, ~overlapped'
               PROVE  (\A i \in Rows : NoticesTell(i))'
    BY NextVoted, NextSerial DEF ToldInv, LastNoticeIsVerdict
  <1>1. TypeOK /\ VotedRowsAreNotPending /\ SerialInv
    BY DEF ToldInv, SerialInv, VotedInv
  <1>2. \A i \in Rows : NoticesTell(i)
    <2>1. overlapped => overlapped'
      BY DEF Next, CreateApproval, Approve, Reject, SendThenCommit, Commit,
             CommitFails, RequesterToggles, vars
    <2> QED  BY <2>1 DEF ToldInv, LastNoticeIsVerdict
  <1>3. CASE UNCHANGED <<reviewer, rowStatus, notices>>
    BY <1>2, <1>3 DEF NoticesTell, Rows
  <1>4. ASSUME NEW ids \in ReviewerLists, CreateApproval(ids)
        PROVE  (\A i \in Rows : NoticesTell(i))'
    BY <1>4 DEF CreateApproval, NoticesTell, Rows
  <1>5. ASSUME NEW w \in Staged, UNCHANGED reviewer, Fresh(w), Flush(w)
        PROVE  (\A i \in Rows : NoticesTell(i))'
    BY <1>1, <1>2, <1>5, FreshFlushTells
  <1> QED  BY <1>1, <1>3, <1>4, <1>5, SerialRowChanges

\* As long as no two handlers have overlapped, the last notification about a
\* row is the row's verdict and no row is approved twice.
THEOREM SerialNoticesTell == Spec => []LastNoticeIsVerdict
  <1>1. ToldInv => LastNoticeIsVerdict
    BY DEF ToldInv
  <1> QED  BY InitTold, NextTold, <1>1, PTL DEF Spec

=============================================================================
