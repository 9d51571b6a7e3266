---------------------------- MODULE SharesProofs ----------------------------
(***************************************************************************)
(* Proofs about Shares, for any number of users, of shares, of row ids and *)
(* of overlapping handlers.                                                *)
(***************************************************************************)
EXTENDS Shares, TLAPS

\* Every handler but that of a deletion acts for a user.
UsersKnown ==
  \A h \in Handlers :
    task[h] # None =>
      IF task[h].at \in {"deleting", "telling"} THEN task[h].user = None
      ELSE task[h].user \in Users

Typed == TypeOK /\ UsersKnown

-----------------------------------------------------------------------------
(***************************************************************************)
(* What the steps do to tasks and rows.                                    *)
(***************************************************************************)
LEMMA TaskFields ==
  ASSUME TypeOK, NEW h \in Handlers, task[h] # None
  PROVE  /\ task[h] \in Tasks
         /\ task[h].at \in Stages /\ task[h].share \in Shares
         /\ task[h].user \in Users \cup {None} /\ task[h].ids \subseteq Ids
         /\ task[h].loaded \in Statuses \cup {None} /\ task[h].accepted \subseteq Users
  <1>1. task[h] \in Tasks
    BY DEF TypeOK
  <1> QED  BY <1>1 DEF Tasks

LEMMA RowFields ==
  ASSUME TypeOK, NEW i \in Rows
  PROVE  /\ i \in Ids /\ recipient[i] \in Recipients /\ recipient[i] # None
         /\ recipient[i].share \in Shares /\ recipient[i].user \in Users
         /\ recipient[i].status \in Statuses /\ PartyOf(i) \in Parties
  <1>1. i \in Ids /\ recipient[i] # None /\ recipient[i] \in Recipients
    BY DEF TypeOK, Rows
  <1> QED  BY <1>1 DEF Recipients, PartyOf, Parties

LEMMA PutTask ==
  ASSUME TypeOK, NEW h \in Handlers, NEW r \in Tasks, task' = [task EXCEPT ![h] = r]
  PROVE  /\ task' \in [Handlers -> Tasks \cup {None}]
         /\ task'[h] = r /\ r # None
         /\ \A g \in Handlers \ {h} : task'[g] = task[g]
  BY ShareAssumption DEF TypeOK

LEMMA EndTask ==
  ASSUME TypeOK, NEW h \in Handlers, End(h)
  PROVE  /\ task' \in [Handlers -> Tasks \cup {None}]
         /\ task'[h] = None /\ \A g \in Handlers \ {h} : task'[g] = task[g]
  BY DEF TypeOK, End

\* The handlers of a recipient that only load, and what they load.
LoadsIt(h, a, i) ==
  \/ a = "accepting" /\ AcceptShare(h, i)
  \/ a = "rejecting" /\ RejectShare(h, i)
  \/ a = "undoing" /\ UndoAccept(h, i)
  \/ a = "leaving" /\ LeaveShare(h, i)

LEMMA RowLoaded ==
  ASSUME TypeOK, NEW h \in Handlers, NEW a, NEW i, LoadsIt(h, a, i)
  PROVE  /\ i \in Rows /\ a \in {"accepting", "rejecting", "undoing", "leaving"}
         /\ a # "leaving" => recipient[i].status # "rejected"
         /\ LoopFree /\ task[h] = None
         /\ overlapped' = (overlapped \/ \E g \in Handlers : task[g] # None)
         /\ UNCHANGED <<share, recipient, lastNotice, joined, mixedUp, byAdmin, untold>>
         /\ task' \in [Handlers -> Tasks \cup {None}]
         /\ task'[h] # None /\ task'[h].at = a
         /\ task'[h].share = recipient[i].share /\ task'[h].user = recipient[i].user
         /\ task'[h].ids = {i} /\ task'[h].loaded = recipient[i].status
         /\ \A g \in Handlers \ {h} : task'[g] = task[g]
  <1> DEFINE r == [at |-> a, share |-> recipient[i].share, user |-> recipient[i].user,
                   ids |-> {i}, loaded |-> recipient[i].status, accepted |-> {}]
  <1>1. /\ i \in Rows /\ a \in {"accepting", "rejecting", "undoing", "leaving"}
        /\ a # "leaving" => recipient[i].status # "rejected"
        /\ LoadsRow(h, a, i)
    BY DEF LoadsIt, AcceptShare, RejectShare, UndoAccept, LeaveShare
  <1>2. r \in Tasks
    BY <1>1, RowFields DEF Tasks, Stages, Waiting
  <1>3. task' = [task EXCEPT ![h] = r]
    BY <1>1 DEF LoadsRow
  <1>4. /\ task' \in [Handlers -> Tasks \cup {None}]
        /\ task'[h] = r /\ r # None
        /\ \A g \in Handlers \ {h} : task'[g] = task[g]
    BY <1>2, <1>3, PutTask
  <1>5. /\ LoopFree /\ task[h] = None
        /\ overlapped' = (overlapped \/ \E g \in Handlers : task[g] # None)
        /\ UNCHANGED <<share, recipient, lastNotice, joined, mixedUp, byAdmin, untold>>
    BY <1>1 DEF LoadsRow, Starts
  <1> QED  BY <1>1, <1>4, <1>5

LEMMA ShareLoaded ==
  ASSUME TypeOK, NEW h \in Handlers, NEW s \in Shares, DeleteShare(h, s)
  PROVE  /\ share[s] = "live" /\ LoopFree /\ task[h] = None
         /\ overlapped' = (overlapped \/ \E g \in Handlers : task[g] # None)
         /\ UNCHANGED <<share, recipient, lastNotice, joined, mixedUp, byAdmin, untold>>
         /\ task' \in [Handlers -> Tasks \cup {None}]
         /\ task'[h] # None /\ task'[h].at = "deleting"
         /\ task'[h].share = s /\ task'[h].user = None
         /\ task'[h].ids = RowsOf(s) /\ task'[h].accepted = AcceptedOf(s)
         /\ \A g \in Handlers \ {h} : task'[g] = task[g]
  <1> DEFINE r == [at |-> "deleting", share |-> s, user |-> None, ids |-> RowsOf(s),
                   loaded |-> None, accepted |-> AcceptedOf(s)]
  <1>1. RowsOf(s) \subseteq Ids /\ AcceptedOf(s) \subseteq Users
    BY DEF RowsOf, Rows, AcceptedOf
  <1>2. r \in Tasks
    BY <1>1 DEF Tasks, Stages, Waiting
  <1>3. task' = [task EXCEPT ![h] = r]
    BY DEF DeleteShare
  <1>4. /\ task' \in [Handlers -> Tasks \cup {None}]
        /\ task'[h] = r /\ r # None
        /\ \A g \in Handlers \ {h} : task'[g] = task[g]
    BY <1>2, <1>3, PutTask
  <1>5. /\ share[s] = "live" /\ LoopFree /\ task[h] = None
        /\ overlapped' = (overlapped \/ \E g \in Handlers : task[g] # None)
        /\ UNCHANGED <<share, recipient, lastNotice, joined, mixedUp, byAdmin, untold>>
    BY DEF DeleteShare, Starts
  <1> QED  BY <1>4, <1>5

\* The first commit of a deletion ends the handler, or leaves it with the
\* users to tell.
LEMMA DeleteTask ==
  ASSUME TypeOK, NEW h \in Handlers, DeleteCommit(h)
  PROVE  /\ At(h, "deleting") /\ task' \in [Handlers -> Tasks \cup {None}]
         /\ \A g \in Handlers \ {h} : task'[g] = task[g]
         /\ \/ task[h].accepted = {} /\ task'[h] = None
            \/ /\ task'[h] # None /\ task'[h].at = "telling"
               /\ task'[h].share = task[h].share /\ task'[h].user = task[h].user
               /\ task'[h].ids = task[h].ids /\ task'[h].accepted = task[h].accepted
  <1>1. At(h, "deleting")
    BY DEF DeleteCommit, Continues
  <1>2. CASE task[h].accepted = {} /\ End(h)
    BY <1>1, <1>2, EndTask
  <1>3. CASE task' = [task EXCEPT ![h].at = "telling"]
    <2> DEFINE r == [task[h] EXCEPT !.at = "telling"]
    <2>1. task[h] \in Tasks
      BY <1>1, TaskFields DEF At
    <2>2. /\ r \in Tasks /\ r.at = "telling" /\ r.share = task[h].share
          /\ r.user = task[h].user /\ r.ids = task[h].ids /\ r.accepted = task[h].accepted
      BY <2>1 DEF Tasks, Stages, Waiting
    <2>3. task' = [task EXCEPT ![h] = r]
      BY <1>3
    <2>4. /\ task' \in [Handlers -> Tasks \cup {None}]
          /\ task'[h] = r /\ r # None
          /\ \A g \in Handlers \ {h} : task'[g] = task[g]
      BY <2>2, <2>3, PutTask
    <2> HIDE DEF r
    <2> QED  BY <1>1, <2>2, <2>4
  <1> QED  BY <1>2, <1>3 DEF DeleteCommit

\* No recipient appears, and none becomes another's.
SameParties ==
  \A i \in Rows' : /\ i \in Rows
                   /\ recipient'[i].share = recipient[i].share
                   /\ recipient'[i].user = recipient[i].user

LEMMA StatusWritten ==
  ASSUME TypeOK, NEW i \in Rows, NEW v \in Statuses,
         recipient' = [recipient EXCEPT ![i].status = v]
  PROVE  /\ recipient' \in [Ids -> Recipients \cup {None}]
         /\ \A j \in Ids \ {i} : recipient'[j] = recipient[j]
         /\ recipient'[i].share = recipient[i].share
         /\ recipient'[i].user = recipient[i].user
         /\ recipient'[i].status = v /\ recipient'[i] # None
         /\ SameParties
  <1> DEFINE r == [recipient[i] EXCEPT !.status = v]
  <1>1. i \in Ids /\ recipient[i] \in Recipients
    BY RowFields
  <1>2. /\ r \in Recipients /\ r.status = v
        /\ r.share = recipient[i].share /\ r.user = recipient[i].user
    BY <1>1 DEF Recipients
  <1>3. recipient' = [recipient EXCEPT ![i] = r]
    OBVIOUS
  <1>4. r # None
    BY <1>2, ShareAssumption
  <1> HIDE DEF r
  <1>5. /\ recipient'[i] = r /\ recipient' \in [Ids -> Recipients \cup {None}]
        /\ \A j \in Ids \ {i} : recipient'[j] = recipient[j]
    BY <1>1, <1>2, <1>3 DEF TypeOK
  <1>6. SameParties
    BY <1>1, <1>2, <1>5 DEF SameParties, Rows
  <1> QED  BY <1>2, <1>4, <1>5, <1>6

LEMMA RowsRemoved ==
  ASSUME TypeOK, NEW I, recipient' = Without(I)
  PROVE  /\ recipient' \in [Ids -> Recipients \cup {None}]
         /\ \A j \in Rows' : j \in Rows /\ j \notin I /\ recipient'[j] = recipient[j]
         /\ \A j \in Rows : j \notin I => j \in Rows'
         /\ SameParties
  <1>1. \A j \in Ids : recipient'[j] = IF j \in I THEN None ELSE recipient[j]
    BY DEF Without
  <1>2. recipient' \in [Ids -> Recipients \cup {None}]
    BY DEF TypeOK, Without
  <1> QED  BY <1>1, <1>2 DEF Rows, SameParties

Runs(h) == task[h] # None /\ task[h].at \notin Waiting

\* The handlers that end, and the answers among them.
Answers(h) == AcceptCommit(h) \/ RejectCommit(h)
Ends(h) == Answers(h) \/ UndoCommit(h) \/ LeaveCommit(h) \/ TellRevoked(h) \/ CommitFails(h)

LEMMA PartyTyped ==
  ASSUME Typed, NEW h \in Handlers, task[h] # None,
         task[h].at \notin {"deleting", "telling"}
  PROVE  /\ task[h].user \in Users /\ task[h].share \in Shares /\ Party(h) \in Parties
         /\ task[h].user # None
  <1>1. task[h].user \in Users /\ task[h].share \in Shares
    BY TaskFields DEF Typed, UsersKnown
  <1> QED  BY <1>1, ShareAssumption DEF Party, Parties

\* An answer writes the status of a row it has loaded the id of.
LEMMA AnswerStep ==
  ASSUME Typed, NEW h \in Handlers, Answers(h)
  PROVE  \E i \in task[h].ids \cap Rows, v \in {"accepted", "rejected"}, told \in Heard(h) :
           /\ recipient' = [recipient EXCEPT ![i].status = v]
           /\ joined' = IF v = "accepted" THEN joined \cup told ELSE joined \ {Party(h)}
           /\ mixedUp' = IF PartyOf(i) = Party(h) THEN mixedUp
                         ELSE mixedUp \cup {PartyOf(i), Party(h)} \cup told
           /\ lastNotice' = [lastNotice EXCEPT ![Party(h)] = v]
           /\ v = "accepted" => At(h, "accepting")
           /\ v = "rejected" => At(h, "rejecting")
  <1>1. CASE AcceptCommit(h)
    <2>1. Answer(h, "accepting", "accepted") /\ At(h, "accepting")
      BY <1>1 DEF AcceptCommit, Answer, Continues
    <2>2. PICK i \in task[h].ids, told \in Heard(h) :
            /\ i \in Rows
            /\ recipient' = [recipient EXCEPT ![i].status = "accepted"]
            /\ joined' = IF "accepted" = "accepted" THEN joined \cup told
                         ELSE joined \ {Party(h)}
            /\ mixedUp' = IF PartyOf(i) = Party(h) THEN mixedUp
                          ELSE mixedUp \cup {PartyOf(i), Party(h)} \cup told
      BY <2>1 DEF Answer
    <2>3. lastNotice' = [lastNotice EXCEPT ![Party(h)] = "accepted"]
      BY <2>1 DEF Answer
    <2> QED  BY <2>1, <2>2, <2>3
  <1>2. CASE RejectCommit(h)
    <2>1. Answer(h, "rejecting", "rejected") /\ At(h, "rejecting")
      BY <1>2 DEF RejectCommit, Answer, Continues
    <2>2. PICK i \in task[h].ids, told \in Heard(h) :
            /\ i \in Rows
            /\ recipient' = [recipient EXCEPT ![i].status = "rejected"]
            /\ joined' = IF "rejected" = "accepted" THEN joined \cup told
                         ELSE joined \ {Party(h)}
            /\ mixedUp' = IF PartyOf(i) = Party(h) THEN mixedUp
                          ELSE mixedUp \cup {PartyOf(i), Party(h)} \cup told
      BY <2>1 DEF Answer
    <2>3. lastNotice' = [lastNotice EXCEPT ![Party(h)] = "rejected"]
      BY <2>1 DEF Answer
    <2> QED  BY <2>1, <2>2, <2>3
  <1> QED  BY <1>1, <1>2 DEF Answers

LEMMA AnswerRest ==
  ASSUME NEW h \in Handlers, Answers(h)
  PROVE  /\ task[h] # None /\ task[h].at \in {"accepting", "rejecting"}
         /\ LoopFree /\ End(h) /\ UNCHANGED <<share, byAdmin, untold, overlapped>>
  BY DEF Answers, AcceptCommit, RejectCommit, Answer, Continues, At, Waiting

LEMMA HeardTyped ==
  ASSUME Typed, NEW h \in Handlers, task[h] # None,
         task[h].at \notin {"deleting", "telling"}, NEW told \in Heard(h)
  PROVE  told \subseteq Parties
  BY PartyTyped DEF Heard, Parties

LEMMA UndoStep ==
  ASSUME Typed, NEW h \in Handlers, UndoCommit(h)
  PROVE  /\ task[h] # None /\ task[h].at = "undoing" /\ End(h)
         /\ UNCHANGED <<share, lastNotice, mixedUp, byAdmin, untold, overlapped>>
         /\ joined' = joined \ {Party(h)}
         /\ \/ recipient' = recipient
            \/ \E i \in task[h].ids \cap Rows :
                 recipient' = [recipient EXCEPT ![i].status = "pending"]
  BY DEF UndoCommit, Continues, At

LEMMA LeaveStep ==
  ASSUME Typed, NEW h \in Handlers, LeaveCommit(h)
  PROVE  /\ task[h] # None /\ task[h].at = "leaving" /\ End(h)
         /\ UNCHANGED <<share, mixedUp, byAdmin, untold, overlapped>>
         /\ joined' = joined \ {Party(h)}
         /\ recipient' = Without(task[h].ids)
         /\ \/ lastNotice' = [lastNotice EXCEPT ![Party(h)] = "left"]
            \/ lastNotice' = lastNotice
  BY DEF LeaveCommit, Continues, At

LEMMA TellStep ==
  ASSUME NEW h \in Handlers, TellRevoked(h)
  PROVE  /\ task[h] # None /\ task[h].at = "telling" /\ LoopFree /\ End(h)
         /\ UNCHANGED <<share, recipient, lastNotice, mixedUp, byAdmin, untold, overlapped>>
         /\ joined' = joined \ ({task[h].share} \X task[h].accepted)
  BY DEF TellRevoked, Continues, At, Waiting

\* What the end of a handler does to the rows.
LEMMA EndsKeepParties ==
  ASSUME Typed, NEW h \in Handlers, Ends(h)
  PROVE  /\ recipient' \in [Ids -> Recipients \cup {None}] /\ SameParties
         /\ task[h] # None /\ End(h) /\ UNCHANGED <<share, byAdmin>>
         /\ Runs(h) \/ LoopFree
  <1>0. TypeOK
    BY DEF Typed
  <1>1. ASSUME recipient' = recipient
        PROVE  recipient' \in [Ids -> Recipients \cup {None}] /\ SameParties
    BY <1>0, <1>1 DEF TypeOK, SameParties, Rows
  <1>2. CASE Answers(h)
    <2>1. PICK i \in Rows, v \in Statuses : recipient' = [recipient EXCEPT ![i].status = v]
      BY <1>2, AnswerStep DEF Statuses
    <2> QED  BY <1>0, <1>2, <2>1, AnswerRest, StatusWritten
  <1>3. CASE UndoCommit(h)
    <2>1. \/ recipient' = recipient
          \/ \E i \in Rows, v \in Statuses : recipient' = [recipient EXCEPT ![i].status = v]
      BY <1>3, UndoStep DEF Statuses
    <2>2. recipient' \in [Ids -> Recipients \cup {None}] /\ SameParties
      BY <1>0, <1>1, <2>1, StatusWritten
    <2> QED  BY <1>3, <2>2, UndoStep DEF Runs, Waiting
  <1>4. CASE LeaveCommit(h)
    BY <1>0, <1>4, LeaveStep, RowsRemoved DEF Runs, Waiting
  <1>5. CASE TellRevoked(h)
    BY <1>1, <1>5, TellStep
  <1>6. CASE CommitFails(h)
    BY <1>1, <1>6 DEF CommitFails, Runs
  <1> QED  BY <1>2, <1>3, <1>4, <1>5, <1>6 DEF Ends

LEMMA NextSteps ==
  ASSUME Next
  PROVE  \/ \E s \in Shares, I \in SUBSET Ids : \E to \in [I -> Users] : CreateShare(s, to)
         \/ \E h \in Handlers, i \in Ids, a \in Stages : LoadsIt(h, a, i)
         \/ \E h \in Handlers, s \in Shares : DeleteShare(h, s)
         \/ \E h \in Handlers : DeleteCommit(h)
         \/ \E h \in Handlers : Ends(h)
         \/ \E s \in Shares : AdminDeleteShare(s)
  <1>1. {"accepting", "rejecting", "undoing", "leaving"} \subseteq Stages
    BY DEF Stages, Waiting
  <1> QED  BY <1>1 DEF Next, LoadsIt, Ends, Answers

\* What creating a share does to the rows.
LEMMA RowsCreated ==
  ASSUME TypeOK, NEW s \in Shares, NEW I \in SUBSET Ids, NEW to \in [I -> Users],
         CreateShare(s, to)
  PROVE  /\ recipient' \in [Ids -> Recipients \cup {None}]
         /\ \A i \in Rows : i \in Rows' /\ recipient'[i] = recipient[i] /\ i \notin I
         /\ \A i \in Rows' : \/ i \in Rows
                             \/ /\ i \in I /\ recipient'[i].share = s
                                /\ recipient'[i].user = to[i]
                                /\ recipient'[i].status = "pending"
  <1> DEFINE r(i) == [share |-> s, user |-> to[i], status |-> "pending"]
  <1>1. DOMAIN to = I /\ I \cap Rows = {}
    BY DEF CreateShare
  <1>2. \A i \in I : r(i) \in Recipients
    BY DEF Recipients, Statuses
  <1>3. recipient' = [i \in Ids |-> IF i \in I THEN r(i) ELSE recipient[i]]
    BY <1>1 DEF CreateShare
  <1>4. recipient' \in [Ids -> Recipients \cup {None}]
    BY <1>2, <1>3 DEF TypeOK
  <1>5. \A i \in I : r(i).share = s /\ r(i).user = to[i] /\ r(i).status = "pending"
    OBVIOUS
  <1> HIDE DEF r
  <1>6. \A i \in Rows : i \in Rows' /\ recipient'[i] = recipient[i] /\ i \notin I
    BY <1>1, <1>3 DEF Rows
  <1>7. \A i \in Rows' : i \in Rows \/ (i \in I /\ recipient'[i] = r(i))
    BY <1>3 DEF Rows
  <1> QED  BY <1>4, <1>5, <1>6, <1>7

-----------------------------------------------------------------------------
(***************************************************************************)
(* Types.                                                                  *)
(***************************************************************************)
LEMMA InitTyped == Init => Typed
  BY DEF Init, Typed, TypeOK, UsersKnown

LEMMA NextTyped == Typed /\ [Next]_vars => Typed'
  <1> SUFFICES ASSUME Typed, [Next]_vars PROVE Typed'
    OBVIOUS
  <1>0. TypeOK /\ UsersKnown
    BY DEF Typed
  <1>1. ASSUME NEW h \in Handlers, End(h) PROVE UsersKnown'
    BY <1>0, <1>1, EndTask DEF UsersKnown
  <1>2. ASSUME NEW s \in Shares, NEW I \in SUBSET Ids, NEW to \in [I -> Users],
               CreateShare(s, to)
        PROVE  Typed'
    <2>1. recipient' \in [Ids -> Recipients \cup {None}]
      BY <1>0, <1>2, RowsCreated
    <2>2. /\ share' = [share EXCEPT ![s] = "live"]
          /\ UNCHANGED <<lastNotice, task, joined, mixedUp, byAdmin, untold, overlapped>>
      BY <1>2 DEF CreateShare
    <2> QED  BY <1>0, <2>1, <2>2 DEF Typed, TypeOK, UsersKnown
  <1>3. ASSUME NEW h \in Handlers, NEW i \in Ids, NEW a \in Stages, LoadsIt(h, a, i)
        PROVE  Typed'
    <2>1. recipient[i].user \in Users
      BY <1>0, <1>3, RowLoaded, RowFields
    <2>2. UsersKnown'
      BY <1>0, <1>3, <2>1, RowLoaded DEF UsersKnown
    <2>3. overlapped' \in BOOLEAN
      BY <1>0, <1>3, RowLoaded
    <2> QED  BY <1>0, <1>3, <2>2, <2>3, RowLoaded DEF Typed, TypeOK
  <1>4. ASSUME NEW h \in Handlers, NEW s \in Shares, DeleteShare(h, s) PROVE Typed'
    <2>1. UsersKnown'
      BY <1>0, <1>4, ShareLoaded DEF UsersKnown
    <2>2. overlapped' \in BOOLEAN
      BY <1>0, <1>4, ShareLoaded
    <2> QED  BY <1>0, <1>4, <2>1, <2>2, ShareLoaded DEF Typed, TypeOK
  <1>5. ASSUME NEW h \in Handlers, DeleteCommit(h) PROVE Typed'
    <2>0. task[h].user = None
      BY <1>0, <1>5, DeleteTask DEF UsersKnown, At
    <2>1. task' \in [Handlers -> Tasks \cup {None}] /\ UsersKnown'
      BY <1>0, <1>5, <2>0, DeleteTask DEF UsersKnown
    <2>2. /\ task[h].share \in Shares
          /\ share' = [share EXCEPT ![task[h].share] = "gone"]
          /\ recipient' = Without(task[h].ids)
          /\ UNCHANGED <<lastNotice, joined, mixedUp, byAdmin, untold, overlapped>>
      BY <1>0, <1>5, TaskFields, DeleteTask DEF DeleteCommit, At, Continues
    <2>3. recipient' \in [Ids -> Recipients \cup {None}]
      BY <1>0, <2>2, RowsRemoved
    <2> QED  BY <1>0, <2>1, <2>2, <2>3 DEF Typed, TypeOK
  <1>6. ASSUME NEW h \in Handlers, Ends(h) PROVE Typed'
    <2>1. /\ task[h] # None /\ share' = share /\ byAdmin' = byAdmin
          /\ recipient' \in [Ids -> Recipients \cup {None}]
          /\ task' \in [Handlers -> Tasks \cup {None}] /\ UsersKnown'
      BY <1>0, <1>1, <1>6, EndsKeepParties, EndTask
    <2>2. /\ lastNotice' \in [Parties -> {"accepted", "rejected", "left", None}]
          /\ joined' \subseteq Parties /\ mixedUp' \subseteq Parties
          /\ untold' \subseteq Shares /\ overlapped' \in BOOLEAN
      <3>1. CASE Answers(h)
        <4>1. /\ task[h].at \notin {"deleting", "telling"}
              /\ untold' = untold /\ overlapped' = overlapped
          BY <3>1, AnswerRest
        <4>2. PICK i \in Rows, v \in {"accepted", "rejected"}, told \in Heard(h) :
                /\ joined' = IF v = "accepted" THEN joined \cup told ELSE joined \ {Party(h)}
                /\ mixedUp' = IF PartyOf(i) = Party(h) THEN mixedUp
                              ELSE mixedUp \cup {PartyOf(i), Party(h)} \cup told
                /\ lastNotice' = [lastNotice EXCEPT ![Party(h)] = v]
          BY <3>1, AnswerStep
        <4>3. told \subseteq Parties /\ Party(h) \in Parties /\ PartyOf(i) \in Parties
          BY <1>0, <2>1, <4>1, HeardTyped, PartyTyped, RowFields
        <4>4. joined' \subseteq Parties
          BY <1>0, <4>2, <4>3 DEF TypeOK
        <4>5. mixedUp' \subseteq Parties
          BY <1>0, <4>2, <4>3 DEF TypeOK
        <4>6. lastNotice' \in [Parties -> {"accepted", "rejected", "left", None}]
          BY <1>0, <4>2 DEF TypeOK
        <4> QED  BY <1>0, <4>1, <4>4, <4>5, <4>6 DEF TypeOK
      <3>2. CASE UndoCommit(h)
        BY <1>0, <3>2, UndoStep DEF TypeOK
      <3>3. CASE LeaveCommit(h)
        BY <1>0, <3>3, LeaveStep DEF TypeOK
      <3>4. CASE TellRevoked(h)
        BY <1>0, <3>4, TellStep DEF TypeOK
      <3>5. CASE CommitFails(h)
        <4>1. task[h].share \in Shares
          BY <1>0, <2>1, TaskFields
        <4> QED  BY <1>0, <3>5, <4>1 DEF CommitFails, TypeOK
      <3> QED  BY <1>6, <3>1, <3>2, <3>3, <3>4, <3>5 DEF Ends
    <2> QED  BY <1>0, <2>1, <2>2 DEF Typed, TypeOK
  <1>7. ASSUME NEW s \in Shares, AdminDeleteShare(s) PROVE Typed'
    <2>1. overlapped' \in BOOLEAN /\ byAdmin' \subseteq Shares
      BY <1>0, <1>7 DEF AdminDeleteShare, TypeOK
    <2>2. /\ share' = [share EXCEPT ![s] = "gone"] /\ recipient' = Without(RowsOf(s))
          /\ UNCHANGED <<lastNotice, task, joined, mixedUp, untold>>
      BY <1>7 DEF AdminDeleteShare
    <2>3. recipient' \in [Ids -> Recipients \cup {None}]
      BY <1>0, <2>2, RowsRemoved
    <2> QED  BY <1>0, <2>1, <2>2, <2>3 DEF Typed, TypeOK, UsersKnown
  <1>8. CASE UNCHANGED vars
    BY <1>0, <1>8 DEF vars, Typed, TypeOK, UsersKnown
  <1> QED  BY <1>2, <1>3, <1>4, <1>5, <1>6, <1>7, <1>8, NextSteps

\* Shares, recipients and suspended handlers keep their types.
THEOREM ShareTypeCorrect == Spec => []TypeOK
  <1>1. Typed => TypeOK
    BY DEF Typed
  <1> QED  BY InitTyped, NextTyped, <1>1, PTL DEF Spec

-----------------------------------------------------------------------------
(***************************************************************************)
(* What handlers hold.  A handler has loaded every row of its share and    *)
(* user that exists.  One that keeps the loop meets only the               *)
(* administrator's thread, which creates nothing: the rows under the ids   *)
(* it holds are those it has loaded, or gone.                              *)
(***************************************************************************)
OneRow == \A i, j \in Rows : PartyOf(i) = PartyOf(j) => i = j
TasksShare == \A h \in Handlers : task[h] # None => share[task[h].share] # "none"
HoldsAll ==
  \A h \in Handlers : task[h] # None =>
    \A i \in Rows :
      recipient[i].share = task[h].share /\ task[h].user \in {None, recipient[i].user} =>
        i \in task[h].ids
OneRuns == \A g, h \in Handlers : Runs(g) /\ Runs(h) => g = h
HoldsOwn ==
  \A h \in Handlers : Runs(h) =>
    \A i \in Rows \cap task[h].ids :
      recipient[i].share = task[h].share /\ task[h].user \in {None, recipient[i].user}

HeldInv == Typed /\ RowsHaveShare /\ OneRow /\ TasksShare /\ HoldsAll /\ OneRuns /\ HoldsOwn

LEMMA InitHeld == Init => HeldInv
  <1> SUFFICES ASSUME Init
               PROVE  RowsHaveShare /\ OneRow /\ TasksShare /\ HoldsAll /\ OneRuns /\ HoldsOwn
    BY InitTyped DEF HeldInv
  <1>1. Rows = {} /\ \A h \in Handlers : task[h] = None
    BY DEF Init, Rows
  <1> QED  BY <1>1 DEF RowsHaveShare, OneRow, TasksShare, HoldsAll, OneRuns, HoldsOwn, Runs

\* A step that adds no row, takes no handler's hold and starts none.
LEMMA HeldKept ==
  ASSUME HeldInv, SameParties, RowsHaveShare', TasksShare',
         \A h \in Handlers : task'[h] # None =>
           /\ task[h] # None /\ task'[h].share = task[h].share
           /\ task'[h].user = task[h].user /\ task'[h].ids = task[h].ids
           /\ Runs(h)' => Runs(h)
  PROVE  OneRow' /\ HoldsAll' /\ OneRuns' /\ HoldsOwn'
  <1>0. OneRow /\ HoldsAll /\ OneRuns /\ HoldsOwn
    BY DEF HeldInv
  <1>1. OneRow'
    BY <1>0 DEF OneRow, SameParties, PartyOf
  <1>2. HoldsAll'
    BY <1>0 DEF HoldsAll, SameParties
  <1>3. \A h \in Handlers : Runs(h)' => Runs(h) /\ task'[h] # None
    BY DEF Runs
  <1>4. OneRuns'
    BY <1>0, <1>3 DEF OneRuns
  <1>5. HoldsOwn'
    BY <1>0, <1>3 DEF HoldsOwn, SameParties
  <1> QED  BY <1>1, <1>2, <1>4, <1>5

LEMMA NextHeld == HeldInv /\ [Next]_vars => HeldInv'
  <1> SUFFICES ASSUME HeldInv, [Next]_vars
               PROVE  /\ RowsHaveShare' /\ OneRow' /\ TasksShare'
                      /\ HoldsAll' /\ OneRuns' /\ HoldsOwn'
    BY NextTyped DEF HeldInv
  <1>0. /\ Typed /\ TypeOK /\ UsersKnown /\ RowsHaveShare /\ OneRow /\ TasksShare
        /\ HoldsAll /\ OneRuns /\ HoldsOwn
    BY DEF HeldInv, Typed
  <1> DEFINE Goal == /\ RowsHaveShare' /\ OneRow' /\ TasksShare'
                     /\ HoldsAll' /\ OneRuns' /\ HoldsOwn'
  <1>1. ASSUME NEW s \in Shares, NEW I \in SUBSET Ids, NEW to \in [I -> Users],
               CreateShare(s, to)
        PROVE  Goal
    <2>1. /\ share[s] = "none" /\ share' = [share EXCEPT ![s] = "live"] /\ task' = task
          /\ LoopFree /\ \A i, j \in I : to[i] = to[j] => i = j
      BY <1>1 DEF CreateShare
    <2>2. /\ share'[s] = "live" /\ \A t \in Shares \ {s} : share'[t] = share[t]
      BY <1>0, <2>1 DEF TypeOK
    <2>3. \A i \in Rows : recipient[i].share \in Shares /\ recipient[i].share # s
      BY <1>0, <2>1, RowFields DEF RowsHaveShare
    <2>4. /\ \A i \in Rows : i \in Rows' /\ recipient'[i] = recipient[i]
          /\ \A i \in Rows' : \/ i \in Rows
                              \/ /\ i \in I /\ recipient'[i].share = s
                                 /\ recipient'[i].user = to[i]
      BY <1>0, <1>1, RowsCreated
    <2>5. RowsHaveShare'
      BY <1>0, <2>2, <2>3, <2>4 DEF RowsHaveShare
    <2>6. OneRow'
      <3> SUFFICES ASSUME NEW i \in Rows', NEW j \in Rows', PartyOf(i)' = PartyOf(j)'
                   PROVE  i = j
        BY DEF OneRow
      <3>1. recipient'[i].share = recipient'[j].share /\ recipient'[i].user = recipient'[j].user
        BY DEF PartyOf
      <3>2. CASE i \in Rows /\ j \in Rows
        BY <1>0, <2>4, <3>1, <3>2 DEF OneRow, PartyOf
      <3>3. CASE i \notin Rows /\ j \notin Rows
        BY <2>1, <2>4, <3>1, <3>3
      <3> QED  BY <2>3, <2>4, <3>1, <3>2, <3>3
    <2>7. \A h \in Handlers : task[h] # None => task[h].share \in Shares /\ task[h].share # s
      BY <1>0, <2>1, TaskFields DEF TasksShare
    <2>8. TasksShare'
      BY <1>0, <2>1, <2>2, <2>7 DEF TasksShare
    <2>9. HoldsAll'
      BY <1>0, <2>1, <2>4, <2>7 DEF HoldsAll
    <2>10. \A h \in Handlers : ~Runs(h)'
      BY <2>1 DEF Runs, LoopFree
    <2> QED  BY <2>5, <2>6, <2>8, <2>9, <2>10 DEF OneRuns, HoldsOwn
  <1>2. ASSUME NEW h \in Handlers, LoopFree, task[h] = None, share' = share,
               recipient' = recipient, share[task'[h].share] # "none",
               \A g \in Handlers \ {h} : task'[g] = task[g],
               \A i \in Rows :
                 recipient[i].share = task'[h].share /\ task'[h].user \in {None, recipient[i].user} <=>
                   i \in task'[h].ids
        PROVE  Goal
    <2>1. \A g \in Handlers : ~Runs(g)
      BY <1>2 DEF Runs, LoopFree
    <2>2. \A g \in Handlers : Runs(g)' => g = h
      BY <1>2, <2>1 DEF Runs
    <2>3. Rows' = Rows
      BY <1>2 DEF Rows
    <2>4. RowsHaveShare' /\ OneRow'
      BY <1>0, <1>2, <2>3 DEF RowsHaveShare, OneRow, PartyOf
    <2>5. TasksShare'
      BY <1>0, <1>2 DEF TasksShare
    <2>6. HoldsAll'
      BY <1>0, <1>2, <2>3 DEF HoldsAll
    <2>7. OneRuns' /\ HoldsOwn'
      BY <1>2, <2>2, <2>3 DEF OneRuns, HoldsOwn
    <2> QED  BY <2>4, <2>5, <2>6, <2>7
  <1>3. ASSUME NEW h \in Handlers, NEW i \in Ids, NEW a \in Stages, LoadsIt(h, a, i)
        PROVE  Goal
    <2>1. /\ i \in Rows /\ task'[h].ids = {i}
          /\ task'[h].share = recipient[i].share /\ task'[h].user = recipient[i].user
          /\ LoopFree /\ task[h] = None /\ share' = share /\ recipient' = recipient
          /\ \A g \in Handlers \ {h} : task'[g] = task[g]
      BY <1>0, <1>3, RowLoaded
    <2>2. recipient[i].user # None
      BY <1>0, <2>1, RowFields, ShareAssumption
    <2>3. \A j \in Rows : recipient[j].share = recipient[i].share
                          /\ recipient[j].user = recipient[i].user => j = i
      BY <1>0, <2>1 DEF OneRow, PartyOf
    <2>4. share[task'[h].share] # "none"
      BY <1>0, <2>1 DEF RowsHaveShare
    <2> QED  BY <1>2, <2>1, <2>2, <2>3, <2>4
  <1>4. ASSUME NEW h \in Handlers, NEW s \in Shares, DeleteShare(h, s) PROVE Goal
    <2>1. /\ share[s] = "live" /\ LoopFree /\ task[h] = None
          /\ share' = share /\ recipient' = recipient
          /\ task'[h].share = s /\ task'[h].user = None /\ task'[h].ids = RowsOf(s)
          /\ \A g \in Handlers \ {h} : task'[g] = task[g]
      BY <1>0, <1>4, ShareLoaded
    <2>2. \A i \in Rows : recipient[i].share = s <=> i \in RowsOf(s)
      BY DEF RowsOf
    <2> QED  BY <1>2, <2>1, <2>2
  <1>5. ASSUME NEW h \in Handlers, DeleteCommit(h) PROVE Goal
    <2>1. /\ task[h] # None /\ task[h].at = "deleting" /\ Runs(h)
          /\ share' = [share EXCEPT ![task[h].share] = "gone"]
          /\ recipient' = Without(task[h].ids)
      BY <1>5, DeleteTask DEF DeleteCommit, Continues, At, Runs, Waiting
    <2>2. task[h].share \in Shares /\ task[h].user \in Users \cup {None}
      BY <1>0, <2>1, TaskFields
    <2>3. /\ SameParties
          /\ \A i \in Rows' : i \in Rows /\ i \notin task[h].ids /\ recipient'[i] = recipient[i]
      BY <1>0, <2>1, RowsRemoved
    <2>4. task[h].user = None
      BY <1>0, <2>1 DEF UsersKnown
    <2>5. \A i \in Rows' : recipient[i].share # task[h].share
      BY <1>0, <2>1, <2>3, <2>4 DEF HoldsAll
    <2>6. /\ share'[task[h].share] = "gone"
          /\ \A t \in Shares \ {task[h].share} : share'[t] = share[t]
      BY <1>0, <2>1, <2>2 DEF TypeOK
    <2>7. RowsHaveShare'
      BY <1>0, <2>3, <2>5, <2>6, RowFields DEF RowsHaveShare
    <2>8. \A g \in Handlers : task'[g] # None =>
            /\ task[g] # None /\ task'[g].share = task[g].share
            /\ task'[g].user = task[g].user /\ task'[g].ids = task[g].ids
            /\ Runs(g)' => Runs(g)
      BY <1>0, <1>5, <2>1, DeleteTask DEF Runs
    <2>9. TasksShare'
      BY <1>0, <2>6, <2>8, TaskFields DEF TasksShare
    <2> QED  BY <2>3, <2>7, <2>8, <2>9, HeldKept
  <1>6. ASSUME NEW h \in Handlers, Ends(h) PROVE Goal
    <2>1. task[h] # None /\ End(h) /\ share' = share /\ SameParties
      BY <1>0, <1>6, EndsKeepParties
    <2>2. task'[h] = None /\ \A g \in Handlers \ {h} : task'[g] = task[g]
      BY <1>0, <2>1, EndTask
    <2>3. \A g \in Handlers : task'[g] # None =>
            /\ task[g] # None /\ task'[g].share = task[g].share
            /\ task'[g].user = task[g].user /\ task'[g].ids = task[g].ids
            /\ Runs(g)' => Runs(g)
      BY <2>2 DEF Runs
    <2>4. RowsHaveShare'
      BY <1>0, <2>1 DEF RowsHaveShare, SameParties
    <2>5. TasksShare'
      BY <1>0, <2>1, <2>3 DEF TasksShare
    <2> QED  BY <2>1, <2>3, <2>4, <2>5, HeldKept
  <1>7. ASSUME NEW s \in Shares, AdminDeleteShare(s) PROVE Goal
    <2>1. /\ share' = [share EXCEPT ![s] = "gone"] /\ recipient' = Without(RowsOf(s))
          /\ task' = task
      BY <1>7 DEF AdminDeleteShare
    <2>2. /\ SameParties
          /\ \A i \in Rows' : i \in Rows /\ i \notin RowsOf(s) /\ recipient'[i] = recipient[i]
      BY <1>0, <2>1, RowsRemoved
    <2>3. share'[s] = "gone" /\ \A t \in Shares \ {s} : share'[t] = share[t]
      BY <1>0, <2>1 DEF TypeOK
    <2>4. RowsHaveShare'
      BY <1>0, <2>2, <2>3, RowFields DEF RowsHaveShare, RowsOf
    <2>5. TasksShare'
      BY <1>0, <2>1, <2>3, TaskFields DEF TasksShare
    <2>6. \A g \in Handlers : Runs(g)' => Runs(g)
      BY <2>1 DEF Runs
    <2> QED  BY <2>1, <2>2, <2>4, <2>5, <2>6, HeldKept
  <1>8. CASE UNCHANGED vars
    <2>1. share' = share /\ recipient' = recipient /\ task' = task
      BY <1>8 DEF vars
    <2>2. SameParties /\ RowsHaveShare' /\ TasksShare'
      BY <1>0, <2>1 DEF SameParties, Rows, RowsHaveShare, TasksShare
    <2>3. \A g \in Handlers : Runs(g)' => Runs(g)
      BY <2>1 DEF Runs
    <2> QED  BY <2>1, <2>2, <2>3, HeldKept
  <1> QED  BY <1>1, <1>3, <1>4, <1>5, <1>6, <1>7, <1>8, NextSteps

\* No recipient outlives its share.
THEOREM RecipientsHaveShare == Spec => []RowsHaveShare
  <1>1. HeldInv => RowsHaveShare
    BY DEF HeldInv
  <1> QED  BY InitHeld, NextHeld, <1>1, PTL DEF Spec

-----------------------------------------------------------------------------
(***************************************************************************)
(* What is stored, in every interleaving.                                  *)
(***************************************************************************)
StoredInv == HeldInv /\ AnswersAreTold

LEMMA InitStored == Init => StoredInv
  <1> SUFFICES ASSUME Init PROVE AnswersAreTold
    BY InitHeld DEF StoredInv
  <1>1. Rows = {}
    BY DEF Init, Rows
  <1> QED  BY <1>1 DEF AnswersAreTold

LEMMA NextStored == StoredInv /\ [Next]_vars => StoredInv'
  <1> SUFFICES ASSUME StoredInv, [Next]_vars PROVE AnswersAreTold'
    BY NextHeld DEF StoredInv
  <1>0. /\ Typed /\ TypeOK /\ RowsHaveShare /\ OneRow /\ HoldsAll /\ AnswersAreTold
    BY DEF StoredInv, HeldInv, Typed
  \* Rows that are as they were, or pending, with their notifications.
  <1>1. ASSUME mixedUp \subseteq mixedUp',
               \A i \in Rows' :
                 \/ i \in Rows /\ recipient'[i] = recipient[i]
                    /\ lastNotice'[PartyOf(i)] = lastNotice[PartyOf(i)]
                 \/ recipient'[i].status = "pending"
        PROVE  AnswersAreTold'
    BY <1>0, <1>1 DEF AnswersAreTold, PartyOf
  <1>2. ASSUME UNCHANGED <<recipient, lastNotice, mixedUp>> PROVE AnswersAreTold'
    BY <1>0, <1>2 DEF AnswersAreTold, PartyOf, Rows
  <1>3. ASSUME NEW s \in Shares, NEW I \in SUBSET Ids, NEW to \in [I -> Users],
               CreateShare(s, to)
        PROVE  AnswersAreTold'
    <2>1. lastNotice' = lastNotice /\ mixedUp' = mixedUp
      BY <1>3 DEF CreateShare
    <2> QED  BY <1>0, <1>1, <1>3, <2>1, RowsCreated
  <1>4. ASSUME NEW h \in Handlers,
               \/ \E i \in Ids, a \in Stages : LoadsIt(h, a, i)
               \/ \E s \in Shares : DeleteShare(h, s)
               \/ TellRevoked(h) \/ CommitFails(h)
        PROVE  AnswersAreTold'
    BY <1>0, <1>2, <1>4, RowLoaded, ShareLoaded, TellStep DEF CommitFails
  <1>5. ASSUME NEW h \in Handlers, Answers(h) PROVE AnswersAreTold'
    <2>1. PICK i \in task[h].ids \cap Rows, v \in {"accepted", "rejected"}, told \in Heard(h) :
            /\ recipient' = [recipient EXCEPT ![i].status = v]
            /\ mixedUp' = IF PartyOf(i) = Party(h) THEN mixedUp
                          ELSE mixedUp \cup {PartyOf(i), Party(h)} \cup told
            /\ lastNotice' = [lastNotice EXCEPT ![Party(h)] = v]
      BY <1>0, <1>5, AnswerStep
    <2>2. task[h] # None /\ task[h].user \in Users /\ Party(h) \in Parties
      BY <1>0, <1>5, AnswerRest, PartyTyped
    <2>3. /\ \A j \in Ids \ {i} : recipient'[j] = recipient[j]
          /\ recipient'[i].share = recipient[i].share /\ recipient'[i].user = recipient[i].user
          /\ recipient'[i].status = v /\ SameParties
      BY <1>0, <2>1, StatusWritten DEF Statuses
    <2>4. \A j \in Rows' : j \in Rows /\ PartyOf(j)' = PartyOf(j)
      BY <2>3 DEF SameParties, PartyOf
    <2>5. ASSUME NEW j \in Rows', recipient'[j].status # "pending", PartyOf(j) \notin mixedUp'
          PROVE  lastNotice'[PartyOf(j)] = recipient'[j].status
      <3>1. j \in Rows /\ PartyOf(j) \in Parties /\ j \in Ids
        BY <1>0, <2>4, RowFields
      <3>2. CASE j = i
        <4>1. PartyOf(j) = Party(h)
          BY <2>1, <2>5, <3>2
        <4> QED  BY <1>0, <2>1, <2>2, <2>3, <3>2, <4>1 DEF TypeOK
      <3>3. CASE j # i
        <4>1. PartyOf(j) # Party(h)
          <5>1. CASE PartyOf(i) = Party(h)
            BY <1>0, <2>1, <3>1, <3>3, <5>1 DEF OneRow
          <5>2. CASE PartyOf(i) # Party(h)
            BY <2>1, <2>5, <5>2
          <5> QED  BY <5>1, <5>2
        <4>2. lastNotice'[PartyOf(j)] = lastNotice[PartyOf(j)]
          BY <1>0, <2>1, <3>1, <4>1 DEF TypeOK
        <4>3. recipient'[j] = recipient[j] /\ PartyOf(j) \notin mixedUp
          BY <2>1, <2>3, <2>5, <3>1, <3>3
        <4> QED  BY <1>0, <2>5, <3>1, <4>2, <4>3 DEF AnswersAreTold
      <3> QED  BY <3>2, <3>3
    <2> QED  BY <2>4, <2>5 DEF AnswersAreTold
  <1>6. ASSUME NEW h \in Handlers, UndoCommit(h) PROVE AnswersAreTold'
    <2>1. /\ lastNotice' = lastNotice /\ mixedUp' = mixedUp
          /\ \/ recipient' = recipient
             \/ \E i \in Rows : recipient' = [recipient EXCEPT ![i].status = "pending"]
      BY <1>0, <1>6, UndoStep
    <2>2. CASE recipient' = recipient
      BY <1>2, <2>1, <2>2
    <2>3. ASSUME NEW i \in Rows, recipient' = [recipient EXCEPT ![i].status = "pending"]
          PROVE  AnswersAreTold'
      <3>1. /\ \A j \in Ids \ {i} : recipient'[j] = recipient[j]
            /\ recipient'[i].status = "pending" /\ SameParties
        BY <1>0, <2>3, StatusWritten DEF Statuses
      <3>2. \A j \in Rows' : j \in Rows /\ j \in Ids
        BY <3>1 DEF SameParties, Rows
      <3> QED  BY <1>1, <2>1, <3>1, <3>2
    <2> QED  BY <2>1, <2>2, <2>3
  <1>7. ASSUME NEW h \in Handlers, LeaveCommit(h) PROVE AnswersAreTold'
    <2>1. /\ task[h] # None /\ mixedUp' = mixedUp /\ recipient' = Without(task[h].ids)
          /\ \/ lastNotice' = [lastNotice EXCEPT ![Party(h)] = "left"]
             \/ lastNotice' = lastNotice
      BY <1>0, <1>7, LeaveStep
    <2>2. \A j \in Rows' : j \in Rows /\ j \notin task[h].ids /\ recipient'[j] = recipient[j]
      BY <1>0, <2>1, RowsRemoved
    <2>3. \A j \in Rows' : PartyOf(j) # Party(h)
      BY <1>0, <2>1, <2>2 DEF HoldsAll, PartyOf, Party
    <2>4. \A j \in Rows' : lastNotice'[PartyOf(j)] = lastNotice[PartyOf(j)]
      <3> SUFFICES ASSUME NEW j \in Rows'
                   PROVE  lastNotice'[PartyOf(j)] = lastNotice[PartyOf(j)]
        OBVIOUS
      <3>1. PartyOf(j) \in Parties
        BY <1>0, <2>2, RowFields
      <3> QED  BY <1>0, <2>1, <2>3, <3>1 DEF TypeOK
    <2> QED  BY <1>1, <2>1, <2>2, <2>4
  <1>8. ASSUME (\E h \in Handlers : DeleteCommit(h)) \/ \E s \in Shares : AdminDeleteShare(s)
        PROVE  AnswersAreTold'
    <2>1. /\ lastNotice' = lastNotice /\ mixedUp' = mixedUp
          /\ \E I : recipient' = Without(I)
      BY <1>8 DEF DeleteCommit, AdminDeleteShare
    <2> QED  BY <1>0, <1>1, <2>1, RowsRemoved
  <1>9. CASE UNCHANGED vars
    BY <1>2, <1>9 DEF vars
  <1> QED  BY <1>3, <1>4, <1>5, <1>6, <1>7, <1>8, <1>9, NextSteps DEF Ends

\* An answer and its notification are stored together, unless it went to
\* the row of another.
THEOREM StoredAnswersAreTold == Spec => []AnswersAreTold
  <1>1. StoredInv => AnswersAreTold
    BY DEF StoredInv
  <1> QED  BY InitStored, NextStored, <1>1, PTL DEF Spec

-----------------------------------------------------------------------------
(***************************************************************************)
(* Nobody is left behind.  A deletion about to commit knows exactly who    *)
(* has accepted, since it keeps the loop, unless the administrator's       *)
(* thread was there first.                                                 *)
(***************************************************************************)
DeletingKnows ==
  \A h \in Handlers : At(h, "deleting") =>
    task[h].accepted = AcceptedOf(task[h].share) \/ task[h].share \in byAdmin

JoinedInv == HeldInv /\ DeletingKnows /\ JoinedOrRevoked

LEMMA InitJoined == Init => JoinedInv
  <1> SUFFICES ASSUME Init PROVE DeletingKnows /\ JoinedOrRevoked
    BY InitHeld DEF JoinedInv
  <1> QED  BY DEF Init, DeletingKnows, At, JoinedOrRevoked

\* Whoever joins or stays joined is a recipient, is told, or was so before.
LEMMA JoinedKept ==
  ASSUME JoinedOrRevoked,
         \A p \in joined' :
           \/ p \in mixedUp'
           \/ \E i \in Rows' : PartyOf(i)' = p /\ recipient'[i].status = "accepted"
           \/ /\ p \in joined
              /\ \A i \in Rows : PartyOf(i) = p /\ recipient[i].status = "accepted" =>
                   i \in Rows' /\ recipient'[i] = recipient[i],
         \A h \in Handlers : At(h, "telling") =>
           \/ At(h, "telling")' /\ task'[h].share = task[h].share
              /\ task'[h].accepted = task[h].accepted
           \/ task[h].share \in untold'
           \/ \A p \in joined' : ~(task[h].share = p[1] /\ p[2] \in task[h].accepted),
         mixedUp \subseteq mixedUp', byAdmin \subseteq byAdmin', untold \subseteq untold'
  PROVE  JoinedOrRevoked'
  <1> SUFFICES ASSUME NEW p \in joined'
               PROVE  \/ \E i \in Rows' : PartyOf(i)' = p /\ recipient'[i].status = "accepted"
                      \/ \E h \in Handlers :
                           At(h, "telling")' /\ task'[h].share = p[1]
                           /\ p[2] \in task'[h].accepted
                      \/ p \in mixedUp' \/ p[1] \in byAdmin' \cup untold'
    BY DEF JoinedOrRevoked
  <1>1. CASE p \in joined /\ \A i \in Rows :
               PartyOf(i) = p /\ recipient[i].status = "accepted" =>
                 i \in Rows' /\ recipient'[i] = recipient[i]
    <2>1. CASE \E i \in Rows : PartyOf(i) = p /\ recipient[i].status = "accepted"
      BY <1>1, <2>1 DEF PartyOf
    <2>2. CASE \E h \in Handlers :
                 At(h, "telling") /\ task[h].share = p[1] /\ p[2] \in task[h].accepted
      BY <2>2
    <2> QED  BY <1>1, <2>1, <2>2 DEF JoinedOrRevoked
  <1> QED  BY <1>1

LEMMA NextJoined == JoinedInv /\ [Next]_vars => JoinedInv'
  <1> SUFFICES ASSUME JoinedInv, [Next]_vars PROVE DeletingKnows' /\ JoinedOrRevoked'
    BY NextHeld DEF JoinedInv
  <1>0. /\ Typed /\ TypeOK /\ UsersKnown /\ RowsHaveShare /\ OneRow /\ HoldsAll
        /\ OneRuns /\ HoldsOwn /\ DeletingKnows /\ JoinedOrRevoked
    BY DEF JoinedInv, HeldInv, Typed
  \* Handlers that tell keep telling.
  <1>1. ASSUME NEW h \in Handlers, \A g \in Handlers \ {h} : task'[g] = task[g],
               ~At(h, "telling")
        PROVE  \A g \in Handlers : At(g, "telling") =>
                 At(g, "telling")' /\ task'[g].share = task[g].share
                 /\ task'[g].accepted = task[g].accepted
    BY <1>1 DEF At
  \* A deletion about to commit, when a handler ends.
  <1>2. ASSUME NEW h \in Handlers, Ends(h) PROVE DeletingKnows'
    <2>1. /\ task[h] # None /\ End(h) /\ byAdmin' = byAdmin
          /\ Runs(h) \/ LoopFree
      BY <1>0, <1>2, EndsKeepParties
    <2>2. task'[h] = None /\ \A g \in Handlers \ {h} : task'[g] = task[g]
      BY <1>0, <2>1, EndTask
    <2>3. ASSUME NEW g \in Handlers, At(g, "deleting")'
          PROVE  FALSE
      <3>1. g # h /\ task'[g] = task[g] /\ Runs(g)
        BY <2>2, <2>3 DEF At, Runs, Waiting
      <3>2. ~LoopFree
        BY <3>1 DEF LoopFree, Runs
      <3> QED  BY <1>0, <2>1, <3>1, <3>2 DEF OneRuns
    <2> QED  BY <2>3 DEF DeletingKnows
  <1>3. ASSUME NEW s \in Shares, NEW I \in SUBSET Ids, NEW to \in [I -> Users],
               CreateShare(s, to)
        PROVE  DeletingKnows' /\ JoinedOrRevoked'
    <2>1. /\ LoopFree /\ task' = task
          /\ UNCHANGED <<joined, mixedUp, byAdmin, untold>>
      BY <1>3 DEF CreateShare
    <2>2. DeletingKnows'
      BY <2>1 DEF DeletingKnows, LoopFree, At, Waiting
    <2>3. \A i \in Rows : i \in Rows' /\ recipient'[i] = recipient[i]
      BY <1>0, <1>3, RowsCreated
    <2>4. \A h \in Handlers : At(h, "telling") => At(h, "telling")'
      BY <2>1 DEF At
    <2> QED  BY <1>0, <2>1, <2>2, <2>3, <2>4, JoinedKept
  \* A handler that loads.
  <1>4. ASSUME NEW h \in Handlers, LoopFree, task[h] = None,
               \A g \in Handlers \ {h} : task'[g] = task[g],
               UNCHANGED <<recipient, joined, mixedUp, byAdmin, untold>>,
               At(h, "deleting")' => task'[h].accepted = AcceptedOf(task'[h].share)
        PROVE  DeletingKnows' /\ JoinedOrRevoked'
    <2>1. Rows' = Rows
      BY <1>4 DEF Rows
    <2>2. \A s : AcceptedOf(s)' = AcceptedOf(s)
      BY <1>4, <2>1 DEF AcceptedOf, RowsOf
    <2>3. DeletingKnows'
      BY <1>4, <2>2 DEF DeletingKnows, LoopFree, At, Waiting
    <2>4. ~At(h, "telling")
      BY <1>4 DEF At
    <2> QED  BY <1>0, <1>1, <1>4, <2>1, <2>3, <2>4, JoinedKept
  <1>5. ASSUME NEW h \in Handlers, NEW i \in Ids, NEW a \in Stages, LoadsIt(h, a, i)
        PROVE  DeletingKnows' /\ JoinedOrRevoked'
    BY <1>0, <1>4, <1>5, RowLoaded DEF At
  <1>6. ASSUME NEW h \in Handlers, NEW s \in Shares, DeleteShare(h, s)
        PROVE  DeletingKnows' /\ JoinedOrRevoked'
    BY <1>0, <1>4, <1>6, ShareLoaded
  <1>7. ASSUME NEW h \in Handlers, Answers(h) PROVE JoinedOrRevoked'
    <2>1. PICK i \in task[h].ids \cap Rows, v \in {"accepted", "rejected"}, told \in Heard(h) :
            /\ recipient' = [recipient EXCEPT ![i].status = v]
            /\ joined' = IF v = "accepted" THEN joined \cup told ELSE joined \ {Party(h)}
            /\ mixedUp' = IF PartyOf(i) = Party(h) THEN mixedUp
                          ELSE mixedUp \cup {PartyOf(i), Party(h)} \cup told
      BY <1>0, <1>7, AnswerStep
    <2>2. /\ task[h] # None /\ ~At(h, "telling") /\ End(h)
          /\ UNCHANGED <<share, byAdmin, untold>>
      BY <1>7, AnswerRest DEF At
    <2>3. \A g \in Handlers \ {h} : task'[g] = task[g]
      BY <1>0, <2>2, EndTask
    <2>4. /\ \A j \in Ids \ {i} : recipient'[j] = recipient[j]
          /\ recipient'[i].share = recipient[i].share /\ recipient'[i].user = recipient[i].user
          /\ recipient'[i].status = v /\ recipient'[i] # None
      BY <1>0, <2>1, StatusWritten DEF Statuses
    <2>5. i \in Rows' /\ PartyOf(i)' = PartyOf(i)
      BY <2>4 DEF Rows, PartyOf
    <2>6. ASSUME NEW j \in Rows, j # i PROVE j \in Rows' /\ recipient'[j] = recipient[j]
      BY <2>4, <2>6 DEF Rows
    <2>7. ASSUME NEW p \in joined'
          PROVE  \/ p \in mixedUp'
                 \/ \E j \in Rows' : PartyOf(j)' = p /\ recipient'[j].status = "accepted"
                 \/ /\ p \in joined
                    /\ \A j \in Rows : PartyOf(j) = p /\ recipient[j].status = "accepted" =>
                         j \in Rows' /\ recipient'[j] = recipient[j]
      <3>1. CASE PartyOf(i) # Party(h)
        <4>1. mixedUp' = mixedUp \cup {PartyOf(i), Party(h)} \cup told
          BY <2>1, <3>1
        <4>2. CASE p \notin joined \/ PartyOf(i) = p
          BY <2>1, <4>1, <4>2
        <4>3. CASE p \in joined /\ PartyOf(i) # p
          BY <2>6, <4>3
        <4> QED  BY <4>2, <4>3
      <3>2. CASE PartyOf(i) = Party(h) /\ p = Party(h)
        <4>1. CASE v = "accepted"
          BY <2>4, <2>5, <3>2, <4>1
        <4>2. CASE v = "rejected"
          BY <2>1, <3>2, <4>2
        <4> QED  BY <4>1, <4>2
      <3>3. CASE PartyOf(i) = Party(h) /\ p # Party(h)
        <4>1. recipient[i].share = task[h].share
          BY <3>3 DEF PartyOf, Party
        <4>2. told = {Party(h)}
          BY <1>0, <2>1, <4>1 DEF RowsHaveShare, Heard
        <4>3. p \in joined
          BY <2>1, <3>3, <4>2
        <4> QED  BY <2>6, <3>3, <4>3
      <3> QED  BY <3>1, <3>2, <3>3
    <2>8. mixedUp \subseteq mixedUp'
      BY <2>1
    <2> QED  BY <1>0, <1>1, <2>2, <2>3, <2>7, <2>8, JoinedKept
  <1>8. ASSUME NEW h \in Handlers, UndoCommit(h) \/ LeaveCommit(h) PROVE JoinedOrRevoked'
    <2>1. /\ task[h] # None /\ task[h].at \in {"undoing", "leaving"} /\ End(h)
          /\ joined' = joined \ {Party(h)}
          /\ UNCHANGED <<mixedUp, byAdmin, untold>>
          /\ \/ recipient' = recipient \/ recipient' = Without(task[h].ids)
             \/ \E i \in task[h].ids \cap Rows :
                  recipient' = [recipient EXCEPT ![i].status = "pending"]
      BY <1>0, <1>8, UndoStep, LeaveStep
    <2>2. /\ ~At(h, "telling") /\ Runs(h) /\ task[h].user # None
          /\ \A g \in Handlers \ {h} : task'[g] = task[g]
      BY <1>0, <2>1, EndTask, PartyTyped DEF At, Runs, Waiting
    <2>3. \A i \in Rows : i \in task[h].ids => PartyOf(i) = Party(h)
      BY <1>0, <2>2 DEF HoldsOwn, PartyOf, Party
    <2>4. \A i \in Rows : i \notin task[h].ids => i \in Rows' /\ recipient'[i] = recipient[i]
      <3>1. CASE recipient' = recipient
        BY <3>1 DEF Rows
      <3>2. CASE recipient' = Without(task[h].ids)
        BY <3>2 DEF Rows, Without
      <3>3. ASSUME NEW i \in task[h].ids \cap Rows,
                   recipient' = [recipient EXCEPT ![i].status = "pending"],
                   NEW j \in Rows, j \notin task[h].ids
            PROVE  j \in Rows' /\ recipient'[j] = recipient[j]
        <4>1. \A k \in Ids \ {i} : recipient'[k] = recipient[k]
          BY <1>0, <3>3, StatusWritten DEF Statuses
        <4> QED  BY <3>3, <4>1 DEF Rows
      <3> QED  BY <2>1, <3>1, <3>2, <3>3
    <2>5. \A p \in joined' : p \in joined /\ p # Party(h)
      BY <2>1
    <2> QED  BY <1>0, <1>1, <2>1, <2>2, <2>3, <2>4, <2>5, JoinedKept
  <1>9. ASSUME NEW h \in Handlers, TellRevoked(h) PROVE JoinedOrRevoked'
    <2>1. /\ End(h) /\ joined' = joined \ ({task[h].share} \X task[h].accepted)
          /\ UNCHANGED <<recipient, mixedUp, byAdmin, untold>>
      BY <1>9, TellStep
    <2>2. \A g \in Handlers \ {h} : task'[g] = task[g]
      BY <1>0, <2>1, EndTask
    <2>3. Rows' = Rows
      BY <2>1 DEF Rows
    <2>4. \A p \in joined' : ~(task[h].share = p[1] /\ p[2] \in task[h].accepted)
      <3> SUFFICES ASSUME NEW p \in joined', task[h].share = p[1], p[2] \in task[h].accepted
                   PROVE  FALSE
        OBVIOUS
      <3>1. p \in Parties
        BY <1>0, <2>1 DEF TypeOK
      <3>2. p = <<p[1], p[2]>>
        BY <3>1 DEF Parties
      <3> QED  BY <2>1, <3>2
    <2>5. \A g \in Handlers \ {h} : At(g, "telling") =>
            At(g, "telling")' /\ task'[g].share = task[g].share
            /\ task'[g].accepted = task[g].accepted
      BY <2>2 DEF At
    <2> QED  BY <1>0, <2>1, <2>3, <2>4, <2>5, JoinedKept
  <1>10. ASSUME NEW h \in Handlers, CommitFails(h) PROVE JoinedOrRevoked'
    <2>1. /\ task[h] # None /\ End(h)
          /\ UNCHANGED <<recipient, joined, mixedUp, byAdmin>>
          /\ untold' = IF At(h, "telling") THEN untold \cup {task[h].share} ELSE untold
      BY <1>10 DEF CommitFails
    <2>2. \A g \in Handlers \ {h} : task'[g] = task[g]
      BY <1>0, <2>1, EndTask
    <2>3. Rows' = Rows /\ untold \subseteq untold'
      BY <2>1 DEF Rows
    <2>4. \A g \in Handlers : At(g, "telling") =>
            \/ At(g, "telling")' /\ task'[g].share = task[g].share
               /\ task'[g].accepted = task[g].accepted
            \/ task[g].share \in untold'
      BY <2>1, <2>2 DEF At
    <2> QED  BY <1>0, <2>1, <2>3, <2>4, JoinedKept
  <1>11. ASSUME NEW h \in Handlers, DeleteCommit(h)
         PROVE  DeletingKnows' /\ JoinedOrRevoked'
    <2>1. /\ At(h, "deleting") /\ Runs(h) /\ task[h].user = None
          /\ recipient' = Without(task[h].ids)
          /\ UNCHANGED <<joined, mixedUp, byAdmin, untold>>
      BY <1>0, <1>11, DeleteTask DEF DeleteCommit, At, Runs, Waiting, UsersKnown
    <2>2. /\ \A g \in Handlers \ {h} : task'[g] = task[g]
          /\ ~At(h, "deleting")'
          /\ task[h].accepted # {} =>
               At(h, "telling")' /\ task'[h].share = task[h].share
               /\ task'[h].accepted = task[h].accepted
      BY <1>0, <1>11, DeleteTask DEF At
    <2>3. \A g \in Handlers : ~At(g, "deleting")'
      BY <1>0, <2>1, <2>2 DEF OneRuns, Runs, At, Waiting
    <2>4. DeletingKnows'
      BY <2>3 DEF DeletingKnows
    <2>5. ~At(h, "telling")
      BY <2>1 DEF At
    <2>6. \A i \in Rows : i \notin task[h].ids => i \in Rows' /\ recipient'[i] = recipient[i]
      BY <1>0, <2>1, RowsRemoved
    <2>7. \A i \in Rows : i \in task[h].ids => recipient[i].share = task[h].share
      BY <1>0, <2>1 DEF HoldsOwn
    <2>8. ASSUME NEW p \in joined'
          PROVE  \/ \E i \in Rows' : PartyOf(i)' = p /\ recipient'[i].status = "accepted"
                 \/ \E g \in Handlers :
                      At(g, "telling")' /\ task'[g].share = p[1]
                      /\ p[2] \in task'[g].accepted
                 \/ p \in mixedUp' \/ p[1] \in byAdmin' \cup untold'
      <3>1. CASE \E i \in Rows : PartyOf(i) = p /\ recipient[i].status = "accepted"
        <4>1. PICK i \in Rows : PartyOf(i) = p /\ recipient[i].status = "accepted"
          BY <3>1
        <4>2. p[1] = recipient[i].share /\ p[2] = recipient[i].user
          BY <4>1 DEF PartyOf
        <4>3. CASE i \notin task[h].ids
          BY <2>6, <4>1, <4>3 DEF PartyOf
        <4>4. CASE i \in task[h].ids
          <5>1. p[1] = task[h].share
            BY <2>7, <4>2, <4>4
          <5>2. p[2] \in AcceptedOf(task[h].share)
            BY <1>0, <4>1, <4>2, <5>1, RowFields DEF AcceptedOf, RowsOf
          <5>3. task[h].accepted = AcceptedOf(task[h].share) \/ task[h].share \in byAdmin
            BY <1>0, <2>1 DEF DeletingKnows
          <5> QED  BY <2>1, <2>2, <5>1, <5>2, <5>3
        <4> QED  BY <4>3, <4>4
      <3>2. CASE \E g \in Handlers :
                   At(g, "telling") /\ task[g].share = p[1] /\ p[2] \in task[g].accepted
        BY <1>1, <2>2, <2>5, <3>2
      <3> QED  BY <1>0, <2>1, <3>1, <3>2 DEF JoinedOrRevoked
    <2>9. JoinedOrRevoked'
      BY <2>8 DEF JoinedOrRevoked
    <2> QED  BY <2>4, <2>9
  <1>12. ASSUME NEW s \in Shares, AdminDeleteShare(s) PROVE DeletingKnows' /\ JoinedOrRevoked'
    <2>1. /\ recipient' = Without(RowsOf(s)) /\ byAdmin' = byAdmin \cup {s}
          /\ UNCHANGED <<task, joined, mixedUp, untold>>
      BY <1>12 DEF AdminDeleteShare
    <2>2. \A i \in Rows : i \notin RowsOf(s) => i \in Rows' /\ recipient'[i] = recipient[i]
      BY <1>0, <2>1, RowsRemoved
    <2>3. \A i \in Rows' : i \in Rows /\ i \notin RowsOf(s) /\ recipient'[i] = recipient[i]
      BY <1>0, <2>1, RowsRemoved
    <2>4. ASSUME NEW t, t # s PROVE AcceptedOf(t)' = AcceptedOf(t)
      BY <2>2, <2>3, <2>4 DEF AcceptedOf, RowsOf
    <2>5. DeletingKnows'
      BY <1>0, <2>1, <2>4 DEF DeletingKnows, At
    <2>6. ASSUME NEW p \in joined'
          PROVE  \/ \E i \in Rows' : PartyOf(i)' = p /\ recipient'[i].status = "accepted"
                 \/ \E g \in Handlers :
                      At(g, "telling")' /\ task'[g].share = p[1]
                      /\ p[2] \in task'[g].accepted
                 \/ p \in mixedUp' \/ p[1] \in byAdmin' \cup untold'
      <3>1. CASE \E i \in Rows : PartyOf(i) = p /\ recipient[i].status = "accepted"
        <4>1. PICK i \in Rows : PartyOf(i) = p /\ recipient[i].status = "accepted"
          BY <3>1
        <4>2. CASE i \notin RowsOf(s)
          BY <2>2, <4>1, <4>2 DEF PartyOf
        <4>3. CASE i \in RowsOf(s)
          BY <2>1, <4>1, <4>3 DEF RowsOf, PartyOf
        <4> QED  BY <4>2, <4>3
      <3>2. CASE \E g \in Handlers :
                   At(g, "telling") /\ task[g].share = p[1] /\ p[2] \in task[g].accepted
        BY <2>1, <3>2 DEF At
      <3> QED  BY <1>0, <2>1, <3>1, <3>2 DEF JoinedOrRevoked
    <2>7. JoinedOrRevoked'
      BY <2>6 DEF JoinedOrRevoked
    <2> QED  BY <2>5, <2>7
  <1>13. CASE UNCHANGED vars
    <2>1. UNCHANGED <<recipient, task, joined, mixedUp, byAdmin, untold>>
      BY <1>13 DEF vars
    <2>2. Rows' = Rows
      BY <2>1 DEF Rows
    <2> QED  BY <1>0, <2>1, <2>2
             DEF DeletingKnows, JoinedOrRevoked, At, AcceptedOf, RowsOf, PartyOf
  <1> QED  BY <1>2, <1>3, <1>5, <1>6, <1>7, <1>8, <1>9, <1>10, <1>11, <1>12, <1>13,
              NextSteps DEF Ends

\* Whoever was told to have joined has joined, or hears of the revocation,
\* unless an answer went to the row of another.
THEOREM NobodyLeftBehind == Spec => []JoinedOrRevoked
  <1>1. JoinedInv => JoinedOrRevoked
    BY DEF JoinedInv
  <1> QED  BY InitJoined, NextJoined, <1>1, PTL DEF Spec

-----------------------------------------------------------------------------
(***************************************************************************)
(* Handlers that have never overlapped: at most one is running, and the    *)
(* row is as it has read it.                                               *)
(***************************************************************************)
Fresh ==
  \A h \in Handlers : task[h] # None =>
    /\ \A g \in Handlers \ {h} : task[g] = None
    /\ task[h].at \in {"accepting", "rejecting", "undoing"} =>
         /\ task[h].loaded # "rejected"
         /\ \A i \in task[h].ids : i \in Rows /\ recipient[i].status = task[h].loaded

SerialInv == HeldInv /\ (~overlapped => Fresh)

RejectedStayRejected ==
  \A i \in Rows : recipient[i].status = "rejected" => recipient'[i] \in {recipient[i], None}

LEMMA InitSerial == Init => SerialInv
  <1> SUFFICES ASSUME Init PROVE Fresh
    BY InitHeld DEF SerialInv
  <1> QED  BY DEF Init, Fresh

LEMMA NextSerial ==
  ASSUME SerialInv, [Next]_vars
  PROVE  SerialInv' /\ (~overlapped' => RejectedStayRejected)
  <1> SUFFICES ASSUME ~overlapped' PROVE Fresh' /\ RejectedStayRejected
    BY NextHeld DEF SerialInv
  <1>0. Typed /\ TypeOK
    BY DEF SerialInv, HeldInv, Typed
  <1>1. Fresh
    <2>1. overlapped => overlapped'
      BY DEF Next, AcceptCommit, RejectCommit, CreateShare, AcceptShare, RejectShare,
             UndoAccept, LeaveShare, LoadsRow, Starts, Answer, UndoCommit, LeaveCommit,
             DeleteShare, DeleteCommit, TellRevoked, Continues, CommitFails,
             AdminDeleteShare, vars
    <2> QED  BY <2>1 DEF SerialInv
  <1>2. ASSUME recipient' = recipient PROVE RejectedStayRejected
    BY <1>2 DEF RejectedStayRejected
  <1>3. ASSUME NEW I, recipient' = Without(I) PROVE RejectedStayRejected
    BY <1>3 DEF RejectedStayRejected, Without, Rows
  <1>4. ASSUME NEW s \in Shares, NEW I \in SUBSET Ids, NEW to \in [I -> Users],
               CreateShare(s, to)
        PROVE  Fresh' /\ RejectedStayRejected
    <2>1. /\ task' = task /\ \A i \in Rows : i \in Rows' /\ recipient'[i] = recipient[i]
      BY <1>0, <1>4, RowsCreated DEF CreateShare
    <2> QED  BY <1>1, <2>1 DEF Fresh, RejectedStayRejected
  <1>5. ASSUME NEW h \in Handlers, NEW i \in Ids, NEW a \in Stages, LoadsIt(h, a, i)
        PROVE  Fresh' /\ RejectedStayRejected
    <2>1. /\ i \in Rows /\ a # "leaving" => recipient[i].status # "rejected"
          /\ recipient' = recipient /\ \A g \in Handlers : task[g] = None
          /\ task'[h].at = a /\ task'[h].ids = {i} /\ task'[h].loaded = recipient[i].status
          /\ \A g \in Handlers \ {h} : task'[g] = task[g]
      BY <1>0, <1>5, RowLoaded
    <2>2. Rows' = Rows /\ i \in Rows
      BY <1>0, <1>5, <2>1, RowLoaded DEF Rows
    <2> QED  BY <1>2, <2>1, <2>2 DEF Fresh
  <1>6. ASSUME NEW h \in Handlers, NEW s \in Shares, DeleteShare(h, s)
        PROVE  Fresh' /\ RejectedStayRejected
    <2>1. /\ recipient' = recipient /\ \A g \in Handlers : task[g] = None
          /\ task'[h].at = "deleting" /\ \A g \in Handlers \ {h} : task'[g] = task[g]
      BY <1>0, <1>6, ShareLoaded
    <2> QED  BY <1>2, <2>1 DEF Fresh
  <1>7. ASSUME NEW h \in Handlers, DeleteCommit(h) PROVE Fresh' /\ RejectedStayRejected
    <2>1. /\ task[h] # None /\ \A g \in Handlers \ {h} : task'[g] = task[g]
          /\ task'[h] # None => task'[h].at = "telling"
      BY <1>0, <1>7, DeleteTask DEF At
    <2>2. Fresh'
      BY <1>1, <2>1 DEF Fresh
    <2> QED  BY <1>3, <1>7, <2>2 DEF DeleteCommit
  <1>8. ASSUME NEW h \in Handlers, Ends(h) PROVE Fresh' /\ RejectedStayRejected
    <2>1. task[h] # None /\ End(h)
      BY <1>0, <1>8, EndsKeepParties
    <2>2. \A g \in Handlers : task'[g] = None
      BY <1>0, <1>1, <2>1, EndTask DEF Fresh
    <2>3. Fresh'
      BY <2>2 DEF Fresh
    <2>4. ASSUME NEW i \in task[h].ids \cap Rows, NEW v \in Statuses,
                 task[h].at \in {"accepting", "rejecting", "undoing"},
                 recipient' = [recipient EXCEPT ![i].status = v]
          PROVE  RejectedStayRejected
      <3>1. recipient[i].status # "rejected"
        BY <1>1, <2>1, <2>4 DEF Fresh
      <3>2. \A j \in Ids \ {i} : recipient'[j] = recipient[j]
        BY <1>0, <2>4, StatusWritten
      <3> QED  BY <3>1, <3>2 DEF RejectedStayRejected, Rows
    <2>5. CASE Answers(h)
      <3>1. \E i \in task[h].ids \cap Rows, v \in Statuses :
              recipient' = [recipient EXCEPT ![i].status = v]
        BY <1>0, <2>5, AnswerStep DEF Statuses
      <3>2. task[h].at \in {"accepting", "rejecting", "undoing"}
        BY <2>5, AnswerRest
      <3> QED  BY <2>3, <2>4, <3>1, <3>2
    <2>6. CASE UndoCommit(h)
      <3>1. \/ recipient' = recipient
            \/ \E i \in task[h].ids \cap Rows, v \in Statuses :
                 recipient' = [recipient EXCEPT ![i].status = v]
        BY <1>0, <2>6, UndoStep DEF Statuses
      <3>2. task[h].at \in {"accepting", "rejecting", "undoing"}
        BY <1>0, <2>6, UndoStep
      <3> QED  BY <1>2, <2>3, <2>4, <3>1, <3>2
    <2>7. CASE LeaveCommit(h)
      BY <1>0, <1>3, <2>3, <2>7, LeaveStep
    <2>8. CASE TellRevoked(h) \/ CommitFails(h)
      BY <1>2, <2>3, <2>8, TellStep DEF CommitFails
    <2> QED  BY <1>8, <2>5, <2>6, <2>7, <2>8 DEF Ends
  <1>9. ASSUME NEW s \in Shares, AdminDeleteShare(s) PROVE Fresh' /\ RejectedStayRejected
    <2>1. /\ \A h \in Handlers : task[h] = None
          /\ task' = task /\ recipient' = Without(RowsOf(s))
      BY <1>9 DEF AdminDeleteShare
    <2> QED  BY <1>3, <2>1 DEF Fresh
  <1>10. CASE UNCHANGED vars
    <2>1. recipient' = recipient /\ task' = task
      BY <1>10 DEF vars
    <2>2. Rows' = Rows
      BY <2>1 DEF Rows
    <2> QED  BY <1>1, <1>2, <2>1, <2>2 DEF Fresh
  <1> QED  BY <1>4, <1>5, <1>6, <1>7, <1>8, <1>9, <1>10, NextSteps

\* Without overlap a rejection is final.
THEOREM SerialRejectionStays == Spec => RejectionStays
  <1>1. SerialInv /\ [Next]_vars =>
          [~overlapped' =>
             \A i \in Rows : recipient[i].status = "rejected" =>
               recipient'[i] \in {recipient[i], None}]_vars
    BY NextSerial DEF RejectedStayRejected
  <1>2. SerialInv /\ [Next]_vars => SerialInv'
    BY NextSerial
  <1> QED  BY InitSerial, <1>1, <1>2, PTL DEF Spec, RejectionStays

=============================================================================
