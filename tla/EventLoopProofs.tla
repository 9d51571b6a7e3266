--------------------------- MODULE EventLoopProofs ---------------------------
(***************************************************************************)
(* Proofs about EventLoop, for any number of requests, connections and     *)
(* threads: nothing is kept that another needs, and there are two ways for *)
(* everybody to wait.                                                      *)
(*                                                                         *)
(* The argument is about what each request does next.  Who holds the write *)
(* lock is about to commit, and nobody else is; whoever is about to write  *)
(* or to commit holds a connection; and the only one to commit that is     *)
(* not running, but between two segments, is in the middle of create_share *)
(* or create_approval.                                                     *)
(***************************************************************************)
EXTENDS EventLoop, FiniteSetTheorems, TLAPS

\* What is left of create_share, and of create_approval, once the message is
\* being sent.
Suspended == <<OnLoop(<<"commit", "query">>)>>

\* What is left of a request that goes on with a write.
ToWrite == {<<OnLoop(<<"write">>), OnLoop(<<"commit", "query">>)>>,
            <<OnLoop(<<"write", "commit", "query">>)>>}

\* Everything that may be left of a request between two segments.
Others ==
  {<<>>, Suspended,
   <<OnThread(<<"query", "write", "commit", "query">>)>>,
   <<OnLoop(<<"query">>), OnLoop(<<"write", "commit", "query">>)>>,
   <<OnLoop(<<"query">>), OnLoop(<<"query", "write", "commit">>)>>,
   <<OnLoop(<<"query", "write", "commit", "query">>), OnLoop(<<>>)>>,
   <<OnLoop(<<>>)>>, <<OnLoop(<<"query", "write", "commit", "query">>)>>,
   <<OnLoop(<<"query", "write", "commit">>), OnLoop(<<"query", "write", "commit">>)>>}
Rests == Kinds \cup ToWrite \cup Others

\* What is left of a segment.
OpLists == {<<>>, <<"query">>, <<"write">>, <<"commit">>, <<"commit", "query">>,
            <<"write", "commit">>, <<"write", "commit", "query">>,
            <<"query", "write", "commit">>, <<"query", "write", "commit", "query">>}

\* The segments that are left, of a request in the first of them: if it ends
\* with a write, the commit is to come; if a write comes after it, it queries.
Fits(x) ==
  /\ x # <<>> /\ Head(x).ops \in OpLists /\ Tail(x) \in Rests
  /\ Head(x).ops = <<"write">> <=> Tail(x) = Suspended
  /\ Tail(x) \in ToWrite => Head(x).ops = <<"query">>

RestFits(r) ==
  IF Running(r)
  THEN Fits(rest[r]) /\ Head(rest[r]).ops # <<>> /\ Head(rest[r]).at = state[r]
  ELSE rest[r] \in Rests

\* What a request does next, now or when the loop takes it up again.
Due(r, op) ==
  \/ At(r, op)
  \/ /\ state[r] = "between" /\ rest[r] # <<>>
     /\ Head(rest[r]).ops # <<>> /\ Op(r) = op

RequestInv(r) ==
  /\ RestFits(r)
  /\ lock = r <=> Due(r, "commit")
  /\ Due(r, "write") \/ Due(r, "commit") => r \in conns
  /\ state[r] = "idle" => r \notin conns

LoopInv ==
  /\ TypeOK /\ IsFiniteSet(conns)
  /\ \A r \in Requests : RequestInv(r)

-----------------------------------------------------------------------------
(***************************************************************************)
(* Segments and operations.                                                *)
(***************************************************************************)
LEMMA SuspendedIs == Tail(Tail(CreateShare)) = Suspended
  BY DEF CreateShare, Suspended

\* What is left after an operation.
LEMMA NextOp ==
  ASSUME NEW ops \in OpLists, ops # <<>>
  PROVE  /\ Head(ops) \in Ops
         /\ Tail(ops) \in OpLists /\ Tail(ops) # <<"write">>
         /\ Tail(ops) = <<>> => (Head(ops) = "write" <=> ops = <<"write">>)
         /\ Tail(ops) # <<>> => /\ Head(Tail(ops)) = "commit" <=> Head(ops) = "write"
                                /\ Head(Tail(ops)) = "write" => Head(ops) = "query"
  <1>1. CASE ops = <<"query">>
    <2>1. Head(ops) = "query" /\ Tail(ops) = <<>>
      BY <1>1
    <2>2. Tail(ops) # <<"write">> /\ ops # <<"write">>
      BY <1>1, <2>1
    <2>3. Tail(ops) \in OpLists
      BY <2>1 DEF OpLists
    <2> QED  BY <2>1, <2>2, <2>3 DEF Ops
  <1>2. CASE ops = <<"write">>
    <2>1. Head(ops) = "write" /\ Tail(ops) = <<>>
      BY <1>2
    <2>2. Tail(ops) # <<"write">> /\ ops = <<"write">>
      BY <1>2, <2>1
    <2>3. Tail(ops) \in OpLists
      BY <2>1 DEF OpLists
    <2> QED  BY <2>1, <2>2, <2>3 DEF Ops
  <1>3. CASE ops = <<"commit">>
    <2>1. Head(ops) = "commit" /\ Tail(ops) = <<>>
      BY <1>3
    <2>2. Tail(ops) # <<"write">> /\ ops # <<"write">>
      BY <1>3, <2>1
    <2>3. Tail(ops) \in OpLists
      BY <2>1 DEF OpLists
    <2> QED  BY <2>1, <2>2, <2>3 DEF Ops
  <1>4. CASE ops = <<"commit", "query">>
    <2>1. Head(ops) = "commit" /\ Tail(ops) = <<"query">>
      BY <1>4
    <2>2. /\ <<"query">> # <<>>
          /\ Head(<<"query">>) = "query"
          /\ <<"query">> # <<"write">>
      OBVIOUS
    <2>3. Tail(ops) \in OpLists
      BY <2>1 DEF OpLists
    <2> QED  BY <2>1, <2>2, <2>3 DEF Ops
  <1>5. CASE ops = <<"write", "commit">>
    <2>1. Head(ops) = "write" /\ Tail(ops) = <<"commit">>
      BY <1>5
    <2>2. /\ <<"commit">> # <<>>
          /\ Head(<<"commit">>) = "commit"
          /\ <<"commit">> # <<"write">>
      OBVIOUS
    <2>3. Tail(ops) \in OpLists
      BY <2>1 DEF OpLists
    <2> QED  BY <2>1, <2>2, <2>3 DEF Ops
  <1>6. CASE ops = <<"write", "commit", "query">>
    <2>1. Head(ops) = "write" /\ Tail(ops) = <<"commit", "query">>
      BY <1>6
    <2>2. /\ <<"commit", "query">> # <<>>
          /\ Head(<<"commit", "query">>) = "commit"
          /\ <<"commit", "query">> # <<"write">>
      OBVIOUS
    <2>3. Tail(ops) \in OpLists
      BY <2>1 DEF OpLists
    <2> QED  BY <2>1, <2>2, <2>3 DEF Ops
  <1>7. CASE ops = <<"query", "write", "commit">>
    <2>1. Head(ops) = "query" /\ Tail(ops) = <<"write", "commit">>
      BY <1>7
    <2>2. /\ <<"write", "commit">> # <<>>
          /\ Head(<<"write", "commit">>) = "write"
          /\ <<"write", "commit">> # <<"write">>
      OBVIOUS
    <2>3. Tail(ops) \in OpLists
      BY <2>1 DEF OpLists
    <2> QED  BY <2>1, <2>2, <2>3 DEF Ops
  <1>8. CASE ops = <<"query", "write", "commit", "query">>
    <2>1. Head(ops) = "query" /\ Tail(ops) = <<"write", "commit", "query">>
      BY <1>8
    <2>2. /\ <<"write", "commit", "query">> # <<>>
          /\ Head(<<"write", "commit", "query">>) = "write"
          /\ <<"write", "commit", "query">> # <<"write">>
      OBVIOUS
    <2>3. Tail(ops) \in OpLists
      BY <2>1 DEF OpLists
    <2> QED  BY <2>1, <2>2, <2>3 DEF Ops
  <1> QED  BY <1>1, <1>2, <1>3, <1>4, <1>5, <1>6, <1>7, <1>8 DEF OpLists

\* They are operations.
LEMMA OpListsTyped == OpLists \subseteq Seq(Ops)
  BY DEF OpLists, Ops

\* A segment begins.
Begins(x) ==
  /\ x \in Seq(Segments) /\ Fits(x) /\ Head(x) \in Segments
  /\ Head(x).ops = <<>> => Tail(x) = <<>>
  /\ Head(x).ops # <<>> =>
       /\ Head(Head(x).ops) = "commit" <=> x = Suspended
       /\ Head(Head(x).ops) = "write" <=> x \in ToWrite

\* The segments that begin with a query.
QueryLists == {<<"query">>, <<"query", "write", "commit">>,
               <<"query", "write", "commit", "query">>}

LEMMA QueryListsAre ==
  ASSUME NEW ops \in QueryLists
  PROVE  ops \in OpLists /\ ops # <<>> /\ ops # <<"write">> /\ Head(ops) = "query"
  <1>1. ops \in OpLists
    BY DEF QueryLists, OpLists
  <1>2. ops # <<>> /\ ops # <<"write">> /\ Head(ops) = "query"
    BY DEF QueryLists
  <1> QED  BY <1>1, <1>2

LEMMA QueryBegins ==
  ASSUME NEW x \in Seq(Segments), x # <<>>, Head(x).ops \in QueryLists,
         Tail(x) \in Rests, Tail(x) # Suspended,
         Tail(x) \in ToWrite => Head(x).ops = <<"query">>
  PROVE  Begins(x)
  <1>1. /\ Head(Suspended) = OnLoop(<<"commit", "query">>)
        /\ \A y \in ToWrite : Head(Head(y).ops) = "write"
    BY DEF Suspended, ToWrite, OnLoop
  <1>2. x # Suspended /\ x \notin ToWrite
    BY <1>1, QueryListsAre DEF OnLoop
  <1>3. Head(x) \in Segments
    OBVIOUS
  <1> QED  BY <1>2, <1>3, QueryListsAre DEF Begins, Fits

\* So does whatever is left of a request between two segments.
LEMMA RestsBegin ==
  ASSUME NEW x \in Rests, x # <<>>
  PROVE  Begins(x)
  <1>1. CASE x = DefHandler
    <2>1. x = <<OnThread(<<"query">>), OnThread(<<"query", "write", "commit", "query">>)>>
      BY <1>1 DEF DefHandler, CurrentUser
    <2>2. x \in Seq(Segments) /\ x # <<>>
      BY <2>1 DEF Segments, Places, Ops, OnThread, OnLoop
    <2>3. /\ Tail(x) = <<OnThread(<<"query", "write", "commit", "query">>)>>
          /\ Head(x) = OnThread(<<"query">>)
      BY <2>1
    <2>4. Tail(x) \in Rests
      BY <2>3 DEF Rests, Others, Kinds, Socket
    <2>5. /\ <<OnThread(<<"query", "write", "commit", "query">>)>> # Suspended
          /\ <<OnThread(<<"query", "write", "commit", "query">>)>> \notin ToWrite
      BY DEF Suspended, ToWrite, OnThread, OnLoop
    <2>6. Head(x).ops = <<"query">> /\ Head(x).ops \in QueryLists
      BY <2>3 DEF QueryLists, OnThread, OnLoop
    <2> QED  BY <2>2, <2>3, <2>4, <2>5, <2>6, QueryBegins
  <1>2. CASE x = CreateShare \/ x = CreateApproval
    <2>1. x = <<OnThread(<<"query">>), OnLoop(<<"write">>), OnLoop(<<"commit", "query">>)>>
      BY <1>2 DEF CreateShare, CreateApproval, CurrentUser
    <2>2. x \in Seq(Segments) /\ x # <<>>
      BY <2>1 DEF Segments, Places, Ops, OnThread, OnLoop
    <2>3. /\ Tail(x) = <<OnLoop(<<"write">>), OnLoop(<<"commit", "query">>)>>
          /\ Head(x) = OnThread(<<"query">>)
      BY <2>1
    <2>4. Tail(x) \in Rests
      BY <2>3 DEF Rests, Others, Kinds, ToWrite, Socket
    <2>5. <<OnLoop(<<"write">>), OnLoop(<<"commit", "query">>)>> # Suspended
      BY DEF Suspended, ToWrite, OnThread, OnLoop
    <2>6. Head(x).ops = <<"query">> /\ Head(x).ops \in QueryLists
      BY <2>3 DEF QueryLists, OnThread, OnLoop
    <2> QED  BY <2>2, <2>3, <2>4, <2>5, <2>6, QueryBegins
  <1>3. CASE x = UndoAccept
    <2>1. x = <<OnThread(<<"query">>), OnLoop(<<"query", "write", "commit">>)>>
      BY <1>3 DEF UndoAccept, CurrentUser
    <2>2. x \in Seq(Segments) /\ x # <<>>
      BY <2>1 DEF Segments, Places, Ops, OnThread, OnLoop
    <2>3. /\ Tail(x) = <<OnLoop(<<"query", "write", "commit">>)>>
          /\ Head(x) = OnThread(<<"query">>)
      BY <2>1
    <2>4. Tail(x) \in Rests
      BY <2>3 DEF Rests, Others, Kinds, Socket
    <2>5. /\ <<OnLoop(<<"query", "write", "commit">>)>> # Suspended
          /\ <<OnLoop(<<"query", "write", "commit">>)>> \notin ToWrite
      BY DEF Suspended, ToWrite, OnThread, OnLoop
    <2>6. Head(x).ops = <<"query">> /\ Head(x).ops \in QueryLists
      BY <2>3 DEF QueryLists, OnThread, OnLoop
    <2> QED  BY <2>2, <2>3, <2>4, <2>5, <2>6, QueryBegins
  <1>21. CASE x = HitPreview
    <2>1. x = <<OnThread(<<"query">>), OnLoop(<<"query", "write", "commit", "query">>)>>
      BY <1>21 DEF HitPreview, CurrentUser
    <2>2. x \in Seq(Segments) /\ x # <<>>
      BY <2>1 DEF Segments, Places, Ops, OnThread, OnLoop
    <2>3. /\ Tail(x) = <<OnLoop(<<"query", "write", "commit", "query">>)>>
          /\ Head(x) = OnThread(<<"query">>)
      BY <2>1
    <2>4. Tail(x) \in Rests
      BY <2>3 DEF Rests, Others, Kinds, Socket
    <2>5. /\ <<OnLoop(<<"query", "write", "commit", "query">>)>> # Suspended
          /\ <<OnLoop(<<"query", "write", "commit", "query">>)>> \notin ToWrite
      BY DEF Suspended, ToWrite, OnThread, OnLoop
    <2>6. Head(x).ops = <<"query">> /\ Head(x).ops \in QueryLists
      BY <2>3 DEF QueryLists, OnThread, OnLoop
    <2> QED  BY <2>2, <2>3, <2>4, <2>5, <2>6, QueryBegins
  <1>4. CASE x = Answer
    <2>1. x = <<OnThread(<<"query">>), OnLoop(<<"query">>), OnLoop(<<"write", "commit", "query">>)>>
      BY <1>4 DEF Answer, CurrentUser
    <2>2. x \in Seq(Segments) /\ x # <<>>
      BY <2>1 DEF Segments, Places, Ops, OnThread, OnLoop
    <2>3. /\ Tail(x) = <<OnLoop(<<"query">>), OnLoop(<<"write", "commit", "query">>)>>
          /\ Head(x) = OnThread(<<"query">>)
      BY <2>1
    <2>4. Tail(x) \in Rests
      BY <2>3 DEF Rests, Others, Kinds, Socket
    <2>5. /\ <<OnLoop(<<"query">>), OnLoop(<<"write", "commit", "query">>)>> # Suspended
          /\ <<OnLoop(<<"query">>), OnLoop(<<"write", "commit", "query">>)>> \notin ToWrite
      BY DEF Suspended, ToWrite, OnThread, OnLoop
    <2>6. Head(x).ops = <<"query">> /\ Head(x).ops \in QueryLists
      BY <2>3 DEF QueryLists, OnThread, OnLoop
    <2> QED  BY <2>2, <2>3, <2>4, <2>5, <2>6, QueryBegins
  <1>5. CASE x = GetPreview
    <2>1. x = <<OnThread(<<"query">>), OnLoop(<<"query">>), OnLoop(<<"query", "write", "commit">>)>>
      BY <1>5 DEF GetPreview, CurrentUser
    <2>2. x \in Seq(Segments) /\ x # <<>>
      BY <2>1 DEF Segments, Places, Ops, OnThread, OnLoop
    <2>3. /\ Tail(x) = <<OnLoop(<<"query">>), OnLoop(<<"query", "write", "commit">>)>>
          /\ Head(x) = OnThread(<<"query">>)
      BY <2>1
    <2>4. Tail(x) \in Rests
      BY <2>3 DEF Rests, Others, Kinds, Socket
    <2>5. /\ <<OnLoop(<<"query">>), OnLoop(<<"query", "write", "commit">>)>> # Suspended
          /\ <<OnLoop(<<"query">>), OnLoop(<<"query", "write", "commit">>)>> \notin ToWrite
      BY DEF Suspended, ToWrite, OnThread, OnLoop
    <2>6. Head(x).ops = <<"query">> /\ Head(x).ops \in QueryLists
      BY <2>3 DEF QueryLists, OnThread, OnLoop
    <2> QED  BY <2>2, <2>3, <2>4, <2>5, <2>6, QueryBegins
  <1>6. CASE x = LeaveShare
    <2>1. x = <<OnThread(<<"query">>), OnLoop(<<"query", "write", "commit", "query">>), OnLoop(<<>>)>>
      BY <1>6 DEF LeaveShare, CurrentUser
    <2>2. x \in Seq(Segments) /\ x # <<>>
      BY <2>1 DEF Segments, Places, Ops, OnThread, OnLoop
    <2>3. /\ Tail(x) = <<OnLoop(<<"query", "write", "commit", "query">>), OnLoop(<<>>)>>
          /\ Head(x) = OnThread(<<"query">>)
      BY <2>1
    <2>4. Tail(x) \in Rests
      BY <2>3 DEF Rests, Others, Kinds, Socket
    <2>5. /\ <<OnLoop(<<"query", "write", "commit", "query">>), OnLoop(<<>>)>> # Suspended
          /\ <<OnLoop(<<"query", "write", "commit", "query">>), OnLoop(<<>>)>> \notin ToWrite
      BY DEF Suspended, ToWrite, OnThread, OnLoop
    <2>6. Head(x).ops = <<"query">> /\ Head(x).ops \in QueryLists
      BY <2>3 DEF QueryLists, OnThread, OnLoop
    <2> QED  BY <2>2, <2>3, <2>4, <2>5, <2>6, QueryBegins
  <1>7. CASE x = DeleteShare
    <2>1. x = <<OnThread(<<"query">>), OnLoop(<<"query", "write", "commit">>), OnLoop(<<"query", "write", "commit">>)>>
      BY <1>7 DEF DeleteShare, CurrentUser
    <2>2. x \in Seq(Segments) /\ x # <<>>
      BY <2>1 DEF Segments, Places, Ops, OnThread, OnLoop
    <2>3. /\ Tail(x) = <<OnLoop(<<"query", "write", "commit">>), OnLoop(<<"query", "write", "commit">>)>>
          /\ Head(x) = OnThread(<<"query">>)
      BY <2>1
    <2>4. Tail(x) \in Rests
      BY <2>3 DEF Rests, Others, Kinds, Socket
    <2>5. /\ <<OnLoop(<<"query", "write", "commit">>), OnLoop(<<"query", "write", "commit">>)>> # Suspended
          /\ <<OnLoop(<<"query", "write", "commit">>), OnLoop(<<"query", "write", "commit">>)>> \notin ToWrite
      BY DEF Suspended, ToWrite, OnThread, OnLoop
    <2>6. Head(x).ops = <<"query">> /\ Head(x).ops \in QueryLists
      BY <2>3 DEF QueryLists, OnThread, OnLoop
    <2> QED  BY <2>2, <2>3, <2>4, <2>5, <2>6, QueryBegins
  <1>8. CASE x = Socket
    <2>1. x = <<OnLoop(<<"query", "write", "commit">>)>>
      BY <1>8 DEF Socket
    <2>2. x \in Seq(Segments) /\ x # <<>>
      BY <2>1 DEF Segments, Places, Ops, OnThread, OnLoop
    <2>3. Tail(x) = <<>> /\ Head(x) = OnLoop(<<"query", "write", "commit">>)
      BY <2>1
    <2>4. Tail(x) \in Rests
      BY <2>3 DEF Rests, Others, Kinds, Socket
    <2>5. <<>> # Suspended /\ <<>> \notin ToWrite
      BY DEF Suspended, ToWrite, OnThread, OnLoop
    <2>6. Head(x).ops = <<"query", "write", "commit">> /\ Head(x).ops \in QueryLists
      BY <2>3 DEF QueryLists, OnThread, OnLoop
    <2> QED  BY <2>2, <2>3, <2>4, <2>5, <2>6, QueryBegins
  <1>9. CASE x = <<OnThread(<<"query", "write", "commit", "query">>)>>
    <2>1. x \in Seq(Segments) /\ x # <<>>
      BY <1>9 DEF Segments, Places, Ops, OnThread, OnLoop
    <2>2. /\ Tail(x) = <<>>
          /\ Head(x) = OnThread(<<"query", "write", "commit", "query">>)
      BY <1>9
    <2>3. Tail(x) \in Rests
      BY <2>2 DEF Rests, Others, Kinds, Socket
    <2>4. <<>> # Suspended /\ <<>> \notin ToWrite
      BY DEF Suspended, ToWrite, OnThread, OnLoop
    <2>5. /\ Head(x).ops = <<"query", "write", "commit", "query">>
          /\ Head(x).ops \in QueryLists
      BY <2>2 DEF QueryLists, OnThread, OnLoop
    <2> QED  BY <2>1, <2>2, <2>3, <2>4, <2>5, QueryBegins
  <1>22. CASE x = <<OnLoop(<<"query", "write", "commit", "query">>)>>
    <2>1. x \in Seq(Segments) /\ x # <<>>
      BY <1>22 DEF Segments, Places, Ops, OnThread, OnLoop
    <2>2. /\ Tail(x) = <<>>
          /\ Head(x) = OnLoop(<<"query", "write", "commit", "query">>)
      BY <1>22
    <2>3. Tail(x) \in Rests
      BY <2>2 DEF Rests, Others, Kinds, Socket
    <2>4. <<>> # Suspended /\ <<>> \notin ToWrite
      BY DEF Suspended, ToWrite, OnThread, OnLoop
    <2>5. /\ Head(x).ops = <<"query", "write", "commit", "query">>
          /\ Head(x).ops \in QueryLists
      BY <2>2 DEF QueryLists, OnThread, OnLoop
    <2> QED  BY <2>1, <2>2, <2>3, <2>4, <2>5, QueryBegins
  <1>10. CASE x = <<OnLoop(<<"query">>), OnLoop(<<"write", "commit", "query">>)>>
    <2>1. x \in Seq(Segments) /\ x # <<>>
      BY <1>10 DEF Segments, Places, Ops, OnThread, OnLoop
    <2>2. /\ Tail(x) = <<OnLoop(<<"write", "commit", "query">>)>>
          /\ Head(x) = OnLoop(<<"query">>)
      BY <1>10
    <2>3. Tail(x) \in Rests
      BY <2>2 DEF Rests, Others, Kinds, ToWrite, Socket
    <2>4. <<OnLoop(<<"write", "commit", "query">>)>> # Suspended
      BY DEF Suspended, ToWrite, OnThread, OnLoop
    <2>5. Head(x).ops = <<"query">> /\ Head(x).ops \in QueryLists
      BY <2>2 DEF QueryLists, OnThread, OnLoop
    <2> QED  BY <2>1, <2>2, <2>3, <2>4, <2>5, QueryBegins
  <1>11. CASE x = <<OnLoop(<<"query">>), OnLoop(<<"query", "write", "commit">>)>>
    <2>1. x \in Seq(Segments) /\ x # <<>>
      BY <1>11 DEF Segments, Places, Ops, OnThread, OnLoop
    <2>2. /\ Tail(x) = <<OnLoop(<<"query", "write", "commit">>)>>
          /\ Head(x) = OnLoop(<<"query">>)
      BY <1>11
    <2>3. Tail(x) \in Rests
      BY <2>2 DEF Rests, Others, Kinds, Socket
    <2>4. /\ <<OnLoop(<<"query", "write", "commit">>)>> # Suspended
          /\ <<OnLoop(<<"query", "write", "commit">>)>> \notin ToWrite
      BY DEF Suspended, ToWrite, OnThread, OnLoop
    <2>5. Head(x).ops = <<"query">> /\ Head(x).ops \in QueryLists
      BY <2>2 DEF QueryLists, OnThread, OnLoop
    <2> QED  BY <2>1, <2>2, <2>3, <2>4, <2>5, QueryBegins
  <1>12. CASE x = <<OnLoop(<<"query", "write", "commit", "query">>), OnLoop(<<>>)>>
    <2>1. x \in Seq(Segments) /\ x # <<>>
      BY <1>12 DEF Segments, Places, Ops, OnThread, OnLoop
    <2>2. /\ Tail(x) = <<OnLoop(<<>>)>>
          /\ Head(x) = OnLoop(<<"query", "write", "commit", "query">>)
      BY <1>12
    <2>3. Tail(x) \in Rests
      BY <2>2 DEF Rests, Others, Kinds, Socket
    <2>4. <<OnLoop(<<>>)>> # Suspended /\ <<OnLoop(<<>>)>> \notin ToWrite
      BY DEF Suspended, ToWrite, OnThread, OnLoop
    <2>5. /\ Head(x).ops = <<"query", "write", "commit", "query">>
          /\ Head(x).ops \in QueryLists
      BY <2>2 DEF QueryLists, OnThread, OnLoop
    <2> QED  BY <2>1, <2>2, <2>3, <2>4, <2>5, QueryBegins
  <1>13. CASE x = <<OnLoop(<<"query", "write", "commit">>), OnLoop(<<"query", "write", "commit">>)>>
    <2>1. x \in Seq(Segments) /\ x # <<>>
      BY <1>13 DEF Segments, Places, Ops, OnThread, OnLoop
    <2>2. /\ Tail(x) = <<OnLoop(<<"query", "write", "commit">>)>>
          /\ Head(x) = OnLoop(<<"query", "write", "commit">>)
      BY <1>13
    <2>3. Tail(x) \in Rests
      BY <2>2 DEF Rests, Others, Kinds, Socket
    <2>4. /\ <<OnLoop(<<"query", "write", "commit">>)>> # Suspended
          /\ <<OnLoop(<<"query", "write", "commit">>)>> \notin ToWrite
      BY DEF Suspended, ToWrite, OnThread, OnLoop
    <2>5. Head(x).ops = <<"query", "write", "commit">> /\ Head(x).ops \in QueryLists
      BY <2>2 DEF QueryLists, OnThread, OnLoop
    <2> QED  BY <2>1, <2>2, <2>3, <2>4, <2>5, QueryBegins
  <1>14. CASE x = <<OnLoop(<<"write">>), OnLoop(<<"commit", "query">>)>>
    <2>0. x \in Seq(Segments) /\ Head(x) = OnLoop(<<"write">>)
      BY <1>14 DEF Suspended, Segments, Places, Ops, OnLoop
    <2>1. Head(x) \in Segments /\ Head(x).ops = <<"write">>
      BY <2>0 DEF Segments, Places, Ops, OnLoop
    <2>5. Tail(x) = Suspended
      BY <1>14 DEF Suspended
    <2>2. /\ <<>> # Suspended /\ <<>> \notin ToWrite /\ Suspended \notin ToWrite
          /\ Head(<<"write">>) = "write" /\ <<"write">> # <<>>
      BY DEF Suspended, ToWrite, OnLoop
    <2>3. x \in ToWrite /\ x # Suspended
      BY <1>14, <2>2 DEF ToWrite
    <2>4. Tail(x) \in Rests /\ Head(x).ops \in OpLists
      BY <2>1, <2>5 DEF Rests, Others, OpLists
    <2> QED  BY <2>0, <2>1, <2>2, <2>3, <2>4, <2>5 DEF Begins, Fits
  <1>15. CASE x = <<OnLoop(<<"write", "commit", "query">>)>>
    <2>0. x \in Seq(Segments) /\ Head(x) = OnLoop(<<"write", "commit", "query">>)
      BY <1>15 DEF Suspended, Segments, Places, Ops, OnLoop
    <2>1. Head(x) \in Segments /\ Head(x).ops = <<"write", "commit", "query">>
      BY <2>0 DEF Segments, Places, Ops, OnLoop
    <2>5. Tail(x) = <<>>
      BY <1>15 DEF Suspended
    <2>2. /\ <<>> # Suspended /\ <<>> \notin ToWrite /\ Suspended \notin ToWrite
          /\ Head(<<"write", "commit", "query">>) = "write"
          /\ <<"write", "commit", "query">> # <<>>
          /\ <<"write", "commit", "query">> # <<"write">>
      BY DEF Suspended, ToWrite, OnLoop
    <2>3. x \in ToWrite /\ x # Suspended
      BY <1>15, <2>2 DEF ToWrite
    <2>4. Tail(x) \in Rests /\ Head(x).ops \in OpLists
      BY <2>1, <2>5 DEF Rests, Others, OpLists
    <2> QED  BY <2>0, <2>1, <2>2, <2>3, <2>4, <2>5 DEF Begins, Fits
  <1>16. CASE x = Suspended
    <2>0. x \in Seq(Segments) /\ Head(x) = OnLoop(<<"commit", "query">>)
      BY <1>16 DEF Suspended, Segments, Places, Ops, OnLoop
    <2>1. Head(x) \in Segments /\ Head(x).ops = <<"commit", "query">>
      BY <2>0 DEF Segments, Places, Ops, OnLoop
    <2>5. Tail(x) = <<>>
      BY <1>16 DEF Suspended
    <2>2. /\ <<>> # Suspended /\ <<>> \notin ToWrite /\ Suspended \notin ToWrite
          /\ Head(<<"commit", "query">>) = "commit"
          /\ <<"commit", "query">> # <<>>
          /\ <<"commit", "query">> # <<"write">>
      BY DEF Suspended, ToWrite, OnLoop
    <2>3. x = Suspended
      BY <1>16, <2>2 DEF ToWrite
    <2>4. Tail(x) \in Rests /\ Head(x).ops \in OpLists
      BY <2>1, <2>5 DEF Rests, Others, OpLists
    <2> QED  BY <2>0, <2>1, <2>2, <2>3, <2>4, <2>5 DEF Begins, Fits
  <1>17. CASE x = <<OnLoop(<<>>)>>
    <2>0. x \in Seq(Segments) /\ Head(x) = OnLoop(<<>>)
      BY <1>17 DEF Segments, Places, Ops, OnLoop
    <2>1. Head(x) \in Segments /\ Head(x).ops = <<>>
      BY <2>0 DEF Segments, Places, Ops, OnLoop
    <2>4. Tail(x) = <<>>
      BY <1>17
    <2>2. <<>> # Suspended /\ <<>> \notin ToWrite /\ <<>> # <<"write">>
      BY DEF Suspended, ToWrite
    <2>3. <<>> \in Rests /\ <<>> \in OpLists
      BY DEF Rests, Others, OpLists
    <2> QED  BY <2>0, <2>1, <2>2, <2>3, <2>4 DEF Begins, Fits
  <1>18. CASE x \in Kinds
    BY <1>1, <1>2, <1>3, <1>4, <1>5, <1>6, <1>7, <1>8, <1>18, <1>21 DEF Kinds
  <1>19. CASE x \in ToWrite
    BY <1>14, <1>15, <1>19 DEF ToWrite
  <1>20. CASE x \in Others
    BY <1>9, <1>10, <1>11, <1>12, <1>13, <1>16, <1>17, <1>20, <1>22 DEF Others
  <1> QED  BY <1>18, <1>19, <1>20 DEF Rests

LEMMA RestsTyped ==
  ASSUME NEW x \in Rests
  PROVE  x \in Seq(Segments)
  <1>1. CASE x = <<>>
    BY <1>1
  <1>2. CASE x # <<>>
    BY <1>2, RestsBegin DEF Begins
  <1> QED  BY <1>1, <1>2

\* A request begins with neither a write nor a commit.
LEMMA KindsBegin ==
  ASSUME NEW kind \in Kinds
  PROVE  /\ kind \in Rests /\ kind # <<>>
         /\ kind # Suspended /\ kind \notin ToWrite
  BY DEF Kinds, Rests, Others, Suspended, ToWrite, DefHandler, CreateShare, CreateApproval, UndoAccept,
         HitPreview, Answer, GetPreview, LeaveShare, DeleteShare, Socket, CurrentUser, OnThread, OnLoop

-----------------------------------------------------------------------------
(***************************************************************************)
(* Steps of one request.                                                   *)
(***************************************************************************)
\* The operations of the first segment replaced.
LEMMA HeadReplaced ==
  ASSUME NEW x \in Seq(Segments), x # <<>>, NEW ops \in Seq(Ops)
  PROVE  LET y == [x EXCEPT ![1].ops = ops]
         IN  /\ y \in Seq(Segments) /\ y # <<>>
             /\ Head(y).ops = ops /\ Head(y).at = Head(x).at /\ Tail(y) = Tail(x)
  <1> DEFINE y == [x EXCEPT ![1].ops = ops]
  <1>1. x[1] \in Segments /\ Len(x) \in Nat /\ Len(x) > 0 /\ Head(x) = x[1]
    OBVIOUS
  <1>2. [x[1] EXCEPT !.ops = ops] \in Segments
    BY <1>1 DEF Segments
  <1>3. y = [x EXCEPT ![1] = [x[1] EXCEPT !.ops = ops]]
    BY <1>1
  <1>4. y \in Seq(Segments) /\ Len(y) = Len(x)
    BY <1>1, <1>2, <1>3
  <1>5. y # <<>> /\ Head(y) = [x[1] EXCEPT !.ops = ops]
    BY <1>1, <1>3, <1>4
  <1>6. Tail(y) = Tail(x)
    BY <1>1, <1>3, <1>4
  <1>7. Head(y).ops = ops /\ Head(y).at = Head(x).at
    BY <1>1, <1>2, <1>5 DEF Segments
  <1> QED  BY <1>4, <1>5, <1>6, <1>7

\* A request that runs has an operation to do.
LEMMA RunningHas ==
  ASSUME TypeOK, NEW r \in Requests, RestFits(r), Running(r)
  PROVE  /\ rest[r] \in Seq(Segments) /\ rest[r] # <<>> /\ Fits(rest[r])
         /\ Head(rest[r]).ops \in OpLists /\ Head(rest[r]).ops # <<>>
         /\ Op(r) \in Ops
         /\ \A op : Due(r, op) <=> Op(r) = op
  BY NextOp DEF TypeOK, RestFits, Running, Places, Fits, Op, Due, At

\* What a rest begins with.
LEMMA RestsDue ==
  ASSUME NEW x \in Rests
  PROVE  /\ (x # <<>> /\ Head(x).ops # <<>> /\ Head(Head(x).ops) = "commit") <=> x = Suspended
         /\ (x # <<>> /\ Head(x).ops # <<>> /\ Head(Head(x).ops) = "write") <=> x \in ToWrite
  <1>1. CASE x = <<>>
    <2>1. <<>> # Suspended /\ <<>> \notin ToWrite
      BY DEF Suspended, ToWrite
    <2> QED  BY <1>1, <2>1
  <1>2. CASE x # <<>> /\ Head(x).ops = <<>>
    <2>1. Head(Suspended) = OnLoop(<<"commit", "query">>)
      BY DEF Suspended
    <2>2. \A y \in ToWrite : \/ Head(y) = OnLoop(<<"write">>)
                            \/ Head(y) = OnLoop(<<"write", "commit", "query">>)
      BY DEF ToWrite
    <2>3. \A ops : OnLoop(ops).ops = ops
      BY DEF OnLoop
    <2>4. /\ <<"commit", "query">> # <<>>
          /\ <<"write">> # <<>>
          /\ <<"write", "commit", "query">> # <<>>
      OBVIOUS
    <2> QED  BY <1>2, <2>1, <2>2, <2>3, <2>4
  <1>3. CASE x # <<>> /\ Head(x).ops # <<>>
    BY <1>3, RestsBegin DEF Begins
  <1> QED  BY <1>1, <1>2, <1>3

\* What a request between two segments does next.
LEMMA BetweenDue ==
  ASSUME NEW r \in Requests, rest[r] \in Rests, state[r] = "between"
  PROVE  /\ Due(r, "commit") <=> rest[r] = Suspended
         /\ Due(r, "write") <=> rest[r] \in ToWrite
  <1>1. ~At(r, "commit") /\ ~At(r, "write")
    BY DEF At, Running, Places
  <1> QED  BY <1>1, RestsDue DEF Due, Op

LEMMA BetweenDueNext ==
  ASSUME NEW r \in Requests, rest'[r] \in Rests, state'[r] = "between"
  PROVE  /\ Due(r, "commit")' <=> rest'[r] = Suspended
         /\ Due(r, "write")' <=> rest'[r] \in ToWrite
  <1>1. ~At(r, "commit")' /\ ~At(r, "write")'
    BY DEF At, Running, Places
  <1> QED  BY <1>1, RestsDue DEF Due, Op

\* Nothing is due of an idle request.
LEMMA IdleDue ==
  ASSUME NEW r, state[r] = "idle"
  PROVE  \A op : ~Due(r, op)
  BY DEF Due, At, Running, Places

\* After an operation.
LEMMA AdvanceDue ==
  ASSUME TypeOK, NEW r \in Requests, RestFits(r), Running(r), Advance(r)
  PROVE  /\ state' \in [Requests -> {"idle", "between"} \cup Places]
         /\ rest' \in [Requests -> Seq(Segments)]
         /\ RestFits(r)' /\ state'[r] # "idle"
         /\ Due(r, "commit")' <=> Op(r) = "write"
         /\ Due(r, "write")' => Op(r) = "query"
         /\ \A q \in Requests \ {r} : state'[q] = state[q] /\ rest'[q] = rest[q]
  <1> DEFINE ops == Head(rest[r]).ops
  <1>1. /\ rest[r] \in Seq(Segments) /\ rest[r] # <<>> /\ Fits(rest[r])
        /\ ops \in OpLists /\ ops # <<>> /\ Op(r) = Head(ops)
        /\ Tail(rest[r]) \in Rests
    BY RunningHas DEF Fits, Op
  <1>2. Tail(ops) \in OpLists /\ Tail(ops) \in Seq(Ops)
    BY <1>1, NextOp, OpListsTyped
  <1>3. CASE Tail(ops) = <<>>
    <2>1. /\ rest' = [rest EXCEPT ![r] = Tail(rest[r])]
          /\ state' = [state EXCEPT ![r] = "between"]
      BY <1>3 DEF Advance
    <2>2. /\ state' \in [Requests -> {"idle", "between"} \cup Places]
          /\ rest' \in [Requests -> Seq(Segments)]
          /\ \A q \in Requests \ {r} : state'[q] = state[q] /\ rest'[q] = rest[q]
          /\ state'[r] = "between" /\ rest'[r] = Tail(rest[r])
      BY <1>1, <2>1, RestsTyped DEF TypeOK
    <2>3. rest'[r] \in Rests /\ RestFits(r)'
      BY <1>1, <2>2 DEF RestFits, Running, Places
    <2>4. /\ Due(r, "commit")' <=> rest'[r] = Suspended
          /\ Due(r, "write")' <=> rest'[r] \in ToWrite
      BY <2>2, <2>3, BetweenDueNext
    <2>5. rest'[r] = Suspended <=> Op(r) = "write"
      BY <1>1, <1>3, <2>2, NextOp DEF Fits
    <2>6. rest'[r] \in ToWrite => Op(r) = "query"
      <3>1. rest'[r] \in ToWrite => ops = <<"query">>
        BY <1>1, <2>2 DEF Fits
      <3>2. Head(<<"query">>) = "query"
        OBVIOUS
      <3> QED  BY <1>1, <3>1, <3>2
    <2> QED  BY <2>2, <2>3, <2>4, <2>5, <2>6
  <1>4. CASE Tail(ops) # <<>>
    <2> DEFINE y == [rest[r] EXCEPT ![1].ops = Tail(ops)]
    <2>1. rest' = [rest EXCEPT ![r] = y] /\ UNCHANGED state
      BY <1>4 DEF Advance, TypeOK
    <2>2. /\ y \in Seq(Segments) /\ y # <<>>
          /\ Head(y).ops = Tail(ops) /\ Head(y).at = Head(rest[r]).at
          /\ Tail(y) = Tail(rest[r])
      BY <1>1, <1>2, HeadReplaced
    <2> HIDE DEF y
    <2>3. /\ rest' \in [Requests -> Seq(Segments)] /\ state' = state
          /\ \A q \in Requests \ {r} : rest'[q] = rest[q]
          /\ rest'[r] = y
      BY <2>1, <2>2 DEF TypeOK
    <2>4. Tail(rest[r]) # Suspended /\ Tail(rest[r]) \notin ToWrite
      <3>1. Tail(<<"write">>) = <<>> /\ Tail(<<"query">>) = <<>>
        OBVIOUS
      <3>2. ops # <<"write">> /\ ops # <<"query">>
        BY <1>4, <3>1
      <3> QED  BY <1>1, <3>2 DEF Fits
    <2>5. Fits(y)
      BY <1>1, <1>2, <2>2, <2>4, NextOp DEF Fits
    <2>6. RestFits(r)' /\ Running(r)' /\ state'[r] # "idle"
      BY <1>4, <2>2, <2>3, <2>5 DEF RestFits, Running, Places
    <2>7. \A op : Due(r, op)' <=> Head(Tail(ops)) = op
      BY <2>2, <2>3, <2>6 DEF Due, At, Op, Running, Places
    <2>8. /\ Head(Tail(ops)) = "commit" <=> Op(r) = "write"
          /\ Head(Tail(ops)) = "write" => Op(r) = "query"
      BY <1>1, <1>4, NextOp
    <2> QED  BY <2>3, <2>6, <2>7, <2>8 DEF TypeOK
  <1> QED  BY <1>3, <1>4

\* A request gives up.
LEMMA GiveUpDue ==
  ASSUME TypeOK, NEW r \in Requests, GiveUp(r)
  PROVE  /\ state' \in [Requests -> {"idle", "between"} \cup Places]
         /\ rest' \in [Requests -> Seq(Segments)]
         /\ RestFits(r)' /\ state'[r] # "idle"
         /\ \A op : ~Due(r, op)'
         /\ \A q \in Requests \ {r} : state'[q] = state[q] /\ rest'[q] = rest[q]
  <1>1. /\ state'[r] = "between" /\ rest'[r] = <<>>
        /\ \A q \in Requests \ {r} : state'[q] = state[q] /\ rest'[q] = rest[q]
        /\ state' \in [Requests -> {"idle", "between"} \cup Places]
        /\ rest' \in [Requests -> Seq(Segments)]
    BY DEF GiveUp, TypeOK
  <1> QED  BY <1>1 DEF RestFits, Due, At, Running, Places, Rests, Others

\* The requests that a step leaves alone.
LEMMA OthersKept ==
  ASSUME NEW r \in Requests, NEW q \in Requests \ {r}, RequestInv(q),
         state'[q] = state[q], rest'[q] = rest[q],
         lock' = q <=> lock = q,
         q \in conns' <=> q \in conns
  PROVE  RequestInv(q)'
  <1>1. RestFits(q)' <=> RestFits(q)
    BY DEF RestFits, Running
  <1>2. \A op : Due(q, op)' <=> Due(q, op)
    BY DEF Due, At, Running, Op
  <1> QED  BY <1>1, <1>2 DEF RequestInv

LEMMA InitLoop == Init => LoopInv
  <1> SUFFICES ASSUME Init PROVE LoopInv
    OBVIOUS
  <1>1. IsFiniteSet(conns) /\ Cardinality(conns) = 0
    BY FS_EmptySet DEF Init
  <1>2. TypeOK
    BY <1>1, EventLoopAssumption DEF Init, TypeOK, EventLoopAssumption
  <1>3. ASSUME NEW r \in Requests PROVE RequestInv(r)
    <2>1. state[r] = "idle" /\ rest[r] = <<>> /\ conns = {} /\ lock # r
      BY EventLoopAssumption DEF Init, EventLoopAssumption
    <2> QED  BY <2>1, IdleDue DEF RequestInv, RestFits, Running, Places, Rests, Others
  <1> QED  BY <1>1, <1>2, <1>3 DEF LoopInv

-----------------------------------------------------------------------------
(***************************************************************************)
(* Every step keeps the invariant.                                         *)
(***************************************************************************)
\* One request moves; what it takes is free, what it releases is its own.
LEMMA OneMoves ==
  ASSUME LoopInv, NEW r \in Requests,
         state' \in [Requests -> {"idle", "between"} \cup Places],
         rest' \in [Requests -> Seq(Segments)],
         \A q \in Requests \ {r} : state'[q] = state[q] /\ rest'[q] = rest[q],
         \/ conns' = conns
         \/ conns' = conns \ {r}
         \/ conns' = conns \cup {r} /\ HasConnection(r),
         lock' = lock \/ (lock \in {None, r} /\ lock' \in {None, r}),
         RequestInv(r)'
  PROVE  LoopInv'
  <1>1. /\ TypeOK /\ IsFiniteSet(conns) /\ Cardinality(conns) \in Nat
        /\ PoolSize \in Nat /\ None \notin Requests
    BY FS_CardinalityType, EventLoopAssumption DEF LoopInv, EventLoopAssumption
  <1>2. /\ IsFiniteSet(conns') /\ conns' \subseteq Requests
        /\ Cardinality(conns') <= PoolSize
    <2>1. CASE conns' = conns
      BY <1>1, <2>1 DEF TypeOK
    <2>2. CASE conns' = conns \ {r}
      <3>1. CASE r \in conns
        <4>1. /\ IsFiniteSet(conns \ {r})
              /\ Cardinality(conns \ {r}) = Cardinality(conns) - 1
          BY <1>1, <3>1, FS_RemoveElement
        <4>2. conns \subseteq Requests /\ Cardinality(conns) <= PoolSize
          BY <1>1 DEF TypeOK
        <4>3. Cardinality(conns) - 1 <= PoolSize
          BY <1>1, <4>2
        <4> QED  BY <2>2, <4>1, <4>2, <4>3
      <3>2. CASE r \notin conns
        <4>1. conns' = conns
          BY <2>2, <3>2
        <4> QED  BY <2>1, <4>1
      <3> QED  BY <3>1, <3>2
    <2>3. CASE conns' = conns \cup {r} /\ HasConnection(r)
      <3>1. CASE r \in conns
        <4>1. conns' = conns
          BY <2>3, <3>1
        <4> QED  BY <2>1, <4>1
      <3>2. CASE r \notin conns
        <4>1. Cardinality(conns) < PoolSize
          BY <2>3, <3>2 DEF HasConnection
        <4>2. /\ IsFiniteSet(conns \cup {r})
              /\ Cardinality(conns \cup {r}) = Cardinality(conns) + 1
          BY <1>1, <3>2, FS_AddElement
        <4> QED  BY <1>1, <2>3, <4>1, <4>2 DEF TypeOK
      <3> QED  BY <3>1, <3>2
    <2> QED  BY <2>1, <2>2, <2>3
  <1>3. TypeOK'
    BY <1>1, <1>2 DEF TypeOK
  <1>4. ASSUME NEW q \in Requests PROVE RequestInv(q)'
    <2>1. CASE q = r
      BY <2>1
    <2>2. CASE q # r
      <3>1. q \in Requests \ {r} /\ RequestInv(q)
        BY <2>2 DEF LoopInv
      <3>2. /\ lock' = q <=> lock = q
            /\ q \in conns' <=> q \in conns
        BY <1>1, <2>2
      <3> QED  BY <3>1, <3>2, OthersKept
    <2> QED  BY <2>1, <2>2
  <1> QED  BY <1>2, <1>3, <1>4 DEF LoopInv

LEMMA ArriveLoop ==
  ASSUME LoopInv, NEW r \in Requests, NEW kind \in Kinds, Arrive(r, kind)
  PROVE  LoopInv'
  <1>1. TypeOK /\ RequestInv(r) /\ state[r] = "idle"
    BY DEF LoopInv, Arrive
  <1>2. lock # r /\ r \notin conns
    BY <1>1, IdleDue DEF RequestInv
  <1>3. /\ kind \in Rests /\ kind \in Seq(Segments)
        /\ kind # Suspended /\ kind \notin ToWrite
    BY KindsBegin, RestsTyped
  <1>4. /\ state'[r] = "between" /\ rest'[r] = kind
        /\ \A q \in Requests \ {r} : state'[q] = state[q] /\ rest'[q] = rest[q]
        /\ state' \in [Requests -> {"idle", "between"} \cup Places]
        /\ rest' \in [Requests -> Seq(Segments)]
        /\ conns' = conns /\ lock' = lock
    BY <1>1, <1>3 DEF Arrive, TypeOK
  <1>5. ~Due(r, "commit")' /\ ~Due(r, "write")'
    BY <1>3, <1>4, BetweenDueNext
  <1>6. RestFits(r)'
    BY <1>3, <1>4 DEF RestFits, Running, Places
  <1>7. RequestInv(r)'
    BY <1>2, <1>4, <1>5, <1>6 DEF RequestInv
  <1> QED  BY <1>4, <1>7, OneMoves

\* An empty segment is the last one; the others begin as they were due.
LEMMA EnterLoop ==
  ASSUME LoopInv, NEW r \in Requests, Enter(r)
  PROVE  LoopInv'
  <1>1. /\ TypeOK /\ RequestInv(r) /\ state[r] = "between" /\ rest[r] # <<>>
        /\ conns' = conns /\ lock' = lock
    BY DEF LoopInv, Enter, CanEnter
  <1>2. rest[r] \in Rests /\ ~Running(r)
    BY <1>1 DEF RequestInv, RestFits, Running, Places
  <1>3. Begins(rest[r])
    BY <1>1, <1>2, RestsBegin
  <1>4. CASE Head(rest[r]).ops = <<>>
    <2>1. Tail(rest[r]) = <<>> /\ <<>> \in Rests
      BY <1>3, <1>4 DEF Begins, Rests, Others
    <2>2. /\ state' = state /\ rest'[r] = <<>>
          /\ rest' \in [Requests -> Seq(Segments)]
          /\ \A q \in Requests \ {r} : rest'[q] = rest[q]
      <3>1. state' = state /\ rest' = [rest EXCEPT ![r] = <<>>]
        BY <1>4, <2>1 DEF Enter
      <3>2. <<>> \in Seq(Segments) /\ rest \in [Requests -> Seq(Segments)]
        BY <1>1 DEF TypeOK
      <3> QED  BY <3>1, <3>2
    <2>3. ~Due(r, "commit") /\ ~Due(r, "write")
      <3>1. ~At(r, "commit") /\ ~At(r, "write")
        BY <1>2 DEF At
      <3> QED  BY <1>4, <3>1 DEF Due
    <2>4. ~Due(r, "commit")' /\ ~Due(r, "write")'
      BY <1>1, <2>2 DEF Due, At, Running, Places
    <2>5. RestFits(r)'
      BY <1>1, <2>1, <2>2 DEF RestFits, Running, Places
    <2>6. RequestInv(r)'
      BY <1>1, <2>2, <2>3, <2>4, <2>5 DEF RequestInv
    <2> QED  BY <1>1, <2>2, <2>6, OneMoves DEF TypeOK
  <1>5. CASE Head(rest[r]).ops # <<>>
    <2>1. /\ state' = [state EXCEPT ![r] = Head(rest[r]).at] /\ rest' = rest
          /\ Head(rest[r]).at \in Places /\ Fits(rest[r])
      BY <1>3, <1>5 DEF Enter, Begins, Segments
    <2>2. /\ state'[r] = Head(rest[r]).at /\ state'[r] \in Places
          /\ state' \in [Requests -> {"idle", "between"} \cup Places]
          /\ \A q \in Requests \ {r} : state'[q] = state[q]
      BY <1>1, <2>1 DEF TypeOK
    <2>3. \A op : Due(r, op)' <=> Due(r, op)
      BY <1>1, <1>2, <1>5, <2>1, <2>2 DEF Due, At, Op, Running, Places
    <2>4. RestFits(r)' /\ state'[r] # "idle"
      BY <1>5, <2>1, <2>2 DEF RestFits, Running, Places
    <2>5. RequestInv(r)'
      BY <1>1, <2>3, <2>4 DEF RequestInv
    <2> QED  BY <1>1, <2>1, <2>2, <2>5, OneMoves DEF TypeOK
  <1> QED  BY <1>4, <1>5

LEMMA QueryLoop ==
  ASSUME LoopInv, NEW r \in Requests, Query(r)
  PROVE  LoopInv'
  <1>1. /\ TypeOK /\ RequestInv(r) /\ RestFits(r) /\ Running(r) /\ Op(r) = "query"
        /\ Advance(r) /\ HasConnection(r) /\ conns' = conns \cup {r} /\ lock' = lock
    BY DEF LoopInv, RequestInv, Query, CanQuery, At
  <1>2. ~Due(r, "commit")
    BY <1>1, RunningHas
  <1>3. RequestInv(r)'
    BY <1>1, <1>2, AdvanceDue DEF RequestInv
  <1> QED  BY <1>1, <1>3, AdvanceDue, OneMoves

LEMMA WriteLoop ==
  ASSUME LoopInv, NEW r \in Requests, Write(r)
  PROVE  LoopInv'
  <1>1. /\ TypeOK /\ RequestInv(r) /\ RestFits(r) /\ Running(r) /\ Op(r) = "write"
        /\ Advance(r) /\ conns' = conns /\ lock' = r /\ lock \in {None, r}
    BY DEF LoopInv, RequestInv, Write, CanWrite, At
  <1>2. r \in conns
    BY <1>1, RunningHas DEF RequestInv
  <1>3. RequestInv(r)'
    BY <1>1, <1>2, AdvanceDue DEF RequestInv
  <1> QED  BY <1>1, <1>3, AdvanceDue, OneMoves

LEMMA CommitLoop ==
  ASSUME LoopInv, NEW r \in Requests, Commit(r)
  PROVE  LoopInv'
  <1>1. /\ TypeOK /\ RequestInv(r) /\ RestFits(r) /\ Running(r) /\ Op(r) = "commit"
        /\ Advance(r) /\ conns' = conns \ {r} /\ lock' = None
    BY DEF LoopInv, RequestInv, Commit, CanCommit, At
  <1>2. lock = r /\ None # r
    BY <1>1, RunningHas, EventLoopAssumption DEF RequestInv, EventLoopAssumption
  <1>3. RequestInv(r)'
    BY <1>1, <1>2, AdvanceDue DEF RequestInv
  <1> QED  BY <1>1, <1>2, <1>3, AdvanceDue, OneMoves

\* A request gives up: it keeps its connection, and holds no lock.
LEMMA GiveUpLoop ==
  ASSUME LoopInv, NEW r \in Requests, GiveUp(r), conns' = conns, lock' # r,
         lock' = lock \/ (lock \in {None, r} /\ lock' \in {None, r})
  PROVE  LoopInv'
  <1>1. TypeOK
    BY DEF LoopInv
  <1>2. RequestInv(r)'
    BY <1>1, GiveUpDue DEF RequestInv
  <1> QED  BY <1>1, <1>2, GiveUpDue, OneMoves

LEMMA CommitFailsLoop ==
  ASSUME LoopInv, NEW r \in Requests, CommitFails(r)
  PROVE  LoopInv'
  <1>1. /\ TypeOK /\ RequestInv(r) /\ RestFits(r) /\ Running(r) /\ Op(r) = "commit"
        /\ GiveUp(r) /\ conns' = conns /\ lock' = None
    BY DEF LoopInv, RequestInv, CommitFails, At
  <1>2. lock = r /\ None # r
    BY <1>1, RunningHas, EventLoopAssumption DEF RequestInv, EventLoopAssumption
  <1> QED  BY <1>1, <1>2, GiveUpLoop

LEMMA RefuseLoop ==
  ASSUME LoopInv, NEW r \in Requests, Refuse(r)
  PROVE  LoopInv'
  BY GiveUpLoop DEF Refuse

LEMMA TimeOutLoop ==
  ASSUME LoopInv, NEW r \in Requests, TimeOut(r)
  PROVE  LoopInv'
  <1>1. /\ TypeOK /\ RequestInv(r) /\ RestFits(r) /\ Running(r) /\ Op(r) # "commit"
        /\ GiveUp(r) /\ conns' = conns /\ lock' = lock
    BY DEF LoopInv, RequestInv, TimeOut, Blocked, At
  <1>2. lock # r
    BY <1>1, RunningHas DEF RequestInv
  <1> QED  BY <1>1, <1>2, GiveUpLoop

LEMMA CloseLoop ==
  ASSUME LoopInv, NEW r \in Requests, Close(r)
  PROVE  LoopInv'
  <1>1. /\ TypeOK /\ RequestInv(r) /\ state[r] = "between" /\ rest[r] = <<>>
        /\ conns' = conns \ {r} /\ lock' = lock /\ rest' = rest
    BY DEF LoopInv, Close, CanClose
  <1>2. <<>> \in Rests
    BY DEF Rests, Others
  <1>3. lock # r
    BY <1>1 DEF RequestInv, Due, At, Running, Places
  <1>4. /\ state' \in [Requests -> {"idle", "between"} \cup Places]
        /\ state'[r] = "idle"
        /\ \A q \in Requests \ {r} : state'[q] = state[q]
    BY <1>1 DEF Close, TypeOK
  <1>5. RestFits(r)' /\ \A op : ~Due(r, op)'
    BY <1>1, <1>2, <1>4 DEF RestFits, Due, At, Running, Places
  <1>6. RequestInv(r)'
    BY <1>1, <1>3, <1>4, <1>5 DEF RequestInv
  <1> QED  BY <1>1, <1>4, <1>6, OneMoves DEF TypeOK

LEMMA NextLoop == LoopInv /\ [Next]_vars => LoopInv'
  <1> SUFFICES ASSUME LoopInv, [Next]_vars PROVE LoopInv'
    OBVIOUS
  <1>1. ASSUME NEW r \in Requests, NEW kind \in Kinds, Arrive(r, kind) PROVE LoopInv'
    BY <1>1, ArriveLoop
  <1>2. ASSUME NEW r \in Requests, Go(r) PROVE LoopInv'
    BY <1>2, EnterLoop, QueryLoop, WriteLoop, CommitLoop, CloseLoop DEF Go
  <1>3. ASSUME NEW r \in Requests, CommitFails(r) \/ Refuse(r) \/ TimeOut(r) PROVE LoopInv'
    BY <1>3, CommitFailsLoop, RefuseLoop, TimeOutLoop
  <1>4. CASE UNCHANGED vars
    BY <1>4 DEF vars, LoopInv, TypeOK, RequestInv, RestFits, Due, At, Op, Running
  <1> QED  BY <1>1, <1>2, <1>3, <1>4 DEF Next

\* Whatever requests there are and in whatever order they run.
LEMMA LoopInvariant == Spec => []LoopInv
  BY InitLoop, NextLoop, PTL DEF Spec

-----------------------------------------------------------------------------
(***************************************************************************)
(* Properties                                                              *)
(***************************************************************************)
\* No more connections than the pool has, and what is left of a request is
\* always segments of operations.
THEOREM EventLoopTypeCorrect == Spec => []TypeOK
  <1>1. LoopInv => TypeOK
    BY DEF LoopInv
  <1> QED  BY <1>1, LoopInvariant, PTL

\* Whichever way requests end, refused, timed out or rolled back, nothing is
\* kept that another needs.
THEOREM NothingIsKept == Spec => []NothingKept
  <1>1. LoopInv => NothingKept
    <2> SUFFICES ASSUME LoopInv PROVE NothingKept
      OBVIOUS
    <2>1. ASSUME lock # None PROVE lock \in conns
      BY <2>1 DEF LoopInv, TypeOK, RequestInv
    <2>2. ASSUME NEW r \in conns PROVE state[r] # "idle"
      BY DEF LoopInv, TypeOK, RequestInv
    <2> QED  BY <2>1, <2>2 DEF NothingKept
  <1> QED  BY <1>1, LoopInvariant, PTL

\* Nobody runs: the loop is free, and so is a thread.
LEMMA NobodyRuns ==
  ASSUME LoopInv, \A q \in Requests : ~Running(q), NEW r \in Requests, state[r] # "idle"
  PROVE  CanGo(r)
  <1>1. LoopFree
    BY DEF LoopFree, Running, Places
  <1>2. WorkerFree
    <2>1. {q \in Requests : state[q] = "thread"} = {}
      BY DEF Running, Places
    <2> QED  BY <2>1, FS_EmptySet, EventLoopAssumption DEF WorkerFree, EventLoopAssumption
  <1>3. state[r] = "between"
    BY DEF LoopInv, TypeOK, Running
  <1> QED  BY <1>1, <1>2, <1>3 DEF CanGo, CanEnter, CanClose

\* A request that runs and cannot go on.
LEMMA StuckRunning ==
  ASSUME LoopInv, NEW r \in Requests, Running(r), ~CanGo(r)
  PROVE  \/ At(r, "query") /\ r \notin conns /\ Cardinality(conns) = PoolSize
         \/ At(r, "write") /\ lock # None /\ lock # r
  <1>1. /\ TypeOK /\ RestFits(r) /\ Cardinality(conns) \in Nat /\ PoolSize \in Nat
        /\ Cardinality(conns) <= PoolSize
    BY FS_CardinalityType, EventLoopAssumption
    DEF LoopInv, RequestInv, TypeOK, EventLoopAssumption
  <1>2. At(r, "query") \/ At(r, "write") \/ At(r, "commit")
    BY <1>1, RunningHas DEF At, Ops
  <1>3. ~CanQuery(r) /\ ~CanWrite(r) /\ ~CanCommit(r)
    BY DEF CanGo
  <1> QED  BY <1>1, <1>2, <1>3 DEF CanQuery, CanWrite, CanCommit, HasConnection

\* Whatever requests there are, when nobody goes on either connections are
\* short and all held, or the loop waits for the lock of a share or an
\* approval that is being announced.
THEOREM HaltsAreTheKnown == Spec => []HaltsAreKnown
  <1>1. LoopInv => HaltsAreKnown
    <2> SUFFICES ASSUME LoopInv, Halted,
                        ~ /\ Cardinality(conns) = PoolSize
                          /\ \E r \in Requests : At(r, "query") /\ r \notin conns
                 PROVE  /\ lock # None /\ state[lock] = "between"
                        /\ rest[lock] = Tail(Tail(CreateShare))
                        /\ \E r \in Requests : state[r] = "loop" /\ Op(r) = "write"
      BY DEF HaltsAreKnown
    <2>1. \A r \in Requests : Running(r) => At(r, "write") /\ lock # None /\ lock # r
      BY StuckRunning DEF Halted
    <2>2. PICK w \in Requests : Running(w)
      BY NobodyRuns DEF Halted
    <2>3. /\ lock \in Requests /\ lock # None /\ ~CanGo(lock)
          /\ TypeOK /\ RequestInv(lock)
      BY <2>1, <2>2 DEF Halted, LoopInv, TypeOK
    <2>4. ~Running(lock) /\ Due(lock, "commit")
      BY <2>1, <2>3 DEF RequestInv
    <2>5. /\ state[lock] = "between" /\ rest[lock] # <<>> /\ Head(rest[lock]).ops # <<>>
          /\ rest[lock] \in Rests
      BY <2>3, <2>4 DEF Due, At, RequestInv, RestFits
    <2>6. rest[lock] = Suspended
      BY <2>3, <2>4, <2>5, BetweenDue
    <2>7. Head(rest[lock]).at = "loop"
      BY <2>6 DEF Suspended, OnLoop
    <2>8. ~LoopFree
      BY <2>3, <2>5, <2>7 DEF CanGo, CanEnter
    <2>9. \E r \in Requests : state[r] = "loop" /\ Op(r) = "write"
      BY <2>1, <2>8 DEF LoopFree, At, Running, Places
    <2> QED  BY <2>3, <2>5, <2>6, <2>9, SuspendedIs
  <1> QED  BY <1>1, LoopInvariant, PTL

=============================================================================
