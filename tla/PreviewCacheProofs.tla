------------------------- MODULE PreviewCacheProofs -------------------------
(***************************************************************************)
(* Proofs about PreviewCache, for any number of handlers, paths and        *)
(* revisions.                                                              *)
(***************************************************************************)
EXTENDS PreviewCache, TLAPS

\* A handler that waits or writes has a revision not older than its key's, or
\* knows that its preview is misnamed.
Fresh(r) == r.rev \in Revs /\ (r.key[2] <= r.rev \/ r.misnamed)

Recent ==
  \A x \in Handlers :
    At(x, "ask") \/ At(x, "open") \/ At(x, "write") => Fresh(job[x])

Typed == TypeOK /\ Recent

LEMMA FileOfKey ==
  ASSUME NEW k \in Keys
  PROVE  k[1] \in Paths /\ k[2] \in Revs /\ FileOf(k) \in Files
  BY PreviewAssumption DEF FileOf, Files

\* A revision as far as a key tells it apart.
LEMMA UpToFacts ==
  ASSUME NEW k \in Keys, NEW n \in Revs
  PROVE  /\ UpTo(n, k) \in Revs /\ UpTo(n, k) <= n
         /\ k[2] <= UpTo(n, k) <=> ~(k[2] > n)
  BY FileOfKey, PreviewAssumption DEF UpTo, Revs

LEMMA JobFields ==
  ASSUME TypeOK, NEW x \in Handlers, job[x] # None
  PROVE  /\ job[x] \in Jobs
         /\ job[x].phase \in Phases /\ job[x].key \in Keys
         /\ job[x].rev \in Revs \cup {None} /\ job[x].misnamed \in BOOLEAN
  BY DEF TypeOK, Jobs

\* A handler takes up a job or goes on with it.
LEMMA JobSet ==
  ASSUME TypeOK, NEW x \in Handlers, NEW r \in Jobs, job' = [job EXCEPT ![x] = r]
  PROVE  /\ job' \in [Handlers -> Jobs \cup {None}]
         /\ job'[x] = r /\ job'[x] # None
         /\ \A y \in Handlers \ {x} : job'[y] = job[y]
  BY PreviewAssumption DEF TypeOK

LEMMA GotoJob ==
  ASSUME TypeOK, NEW x \in Handlers, NEW p \in Phases, job[x] # None, Goto(x, p)
  PROVE  /\ job' \in [Handlers -> Jobs \cup {None}]
         /\ job'[x] # None
         /\ job'[x].phase = p /\ job'[x].key = job[x].key /\ job'[x].rev = job[x].rev
         /\ job'[x].misnamed = job[x].misnamed
         /\ \A y \in Handlers \ {x} : job'[y] = job[y]
  <1> DEFINE r == [job[x] EXCEPT !.phase = p]
  <1>1. /\ r \in Jobs /\ r.phase = p /\ r.key = job[x].key /\ r.rev = job[x].rev
        /\ r.misnamed = job[x].misnamed
    BY JobFields DEF Jobs
  <1>2. job' = [job EXCEPT ![x] = r]
    BY DEF Goto
  <1> QED  BY <1>1, <1>2, JobSet

LEMMA EndJob ==
  ASSUME TypeOK, NEW x \in Handlers, End(x)
  PROVE  /\ job' \in [Handlers -> Jobs \cup {None}]
         /\ told' \in [Previews -> SUBSET {Device}]
         /\ answer' \in [Previews -> {"new", "pending", "nothing", "data"}]
         /\ job'[x] = None /\ \A y \in Handlers \ {x} : job'[y] = job[y]
  BY DEF TypeOK, End

LEMMA NewJob ==
  ASSUME TypeOK, NEW x \in Handlers, NEW p \in Phases, NEW k \in Keys,
         NEW n \in Revs \cup {None}, NEW m \in BOOLEAN,
         job' = [job EXCEPT ![x] = [phase |-> p, key |-> k, rev |-> n, misnamed |-> m]]
  PROVE  /\ job' \in [Handlers -> Jobs \cup {None}]
         /\ job'[x] # None
         /\ job'[x].phase = p /\ job'[x].key = k /\ job'[x].rev = n
         /\ job'[x].misnamed = m
         /\ \A y \in Handlers \ {x} : job'[y] = job[y]
  <1> DEFINE r == [phase |-> p, key |-> k, rev |-> n, misnamed |-> m]
  <1>1. r \in Jobs /\ r.phase = p /\ r.key = k /\ r.rev = n /\ r.misnamed = m
    BY DEF Jobs
  <1> QED  BY <1>1, JobSet

LEMMA RevisedJob ==
  ASSUME TypeOK, NEW x \in Handlers, NEW p \in Phases, NEW n \in Revs \cup {None},
         NEW m \in BOOLEAN, job[x] # None,
         job' = [job EXCEPT ![x].phase = p, ![x].rev = n, ![x].misnamed = m]
  PROVE  /\ job' \in [Handlers -> Jobs \cup {None}]
         /\ job'[x] # None
         /\ job'[x].phase = p /\ job'[x].key = job[x].key /\ job'[x].rev = n
         /\ job'[x].misnamed = m
         /\ \A y \in Handlers \ {x} : job'[y] = job[y]
  <1> DEFINE r == [job[x] EXCEPT !.phase = p, !.rev = n, !.misnamed = m]
  <1>1. r \in Jobs /\ r.phase = p /\ r.key = job[x].key /\ r.rev = n /\ r.misnamed = m
    BY JobFields DEF Jobs
  <1>2. job' = [job EXCEPT ![x] = r]
    BY DEF TypeOK
  <1> QED  BY <1>1, <1>2, JobSet

\* What a handler disturbs when it starts on the cache.
LEMMA StartFacts ==
  ASSUME TypeOK, NEW x \in Handlers, Start(x)
  PROVE  /\ disturbed' \in 0 .. 2 /\ disturbed <= disturbed'
         /\ disturbed' < 2 => expired = {}
         /\ disturbed' = 0 => \A y \in Handlers \ {x} : ~AtWork(y)
  <1>1. disturbed \in 0 .. 2
    BY DEF TypeOK
  <1>2. CASE expired # {}
    BY <1>1, <1>2 DEF Start
  <1>3. CASE expired = {} /\ disturbed = 0 /\ \E y \in Handlers \ {x} : AtWork(y)
    BY <1>1, <1>3 DEF Start
  <1>4. CASE expired = {} /\ ~(disturbed = 0 /\ \E y \in Handlers \ {x} : AtWork(y))
    BY <1>1, <1>4 DEF Start
  <1> QED  BY <1>2, <1>3, <1>4

LEMMA AskFacts ==
  ASSUME TypeOK, NEW g \in Previews, Ask!Ask(g) \/ Ask!Tell(g) \/ Ask!Settle(g)
  PROVE  /\ told' \in [Previews -> SUBSET {Device}]
         /\ answer' \in [Previews -> {"new", "pending", "nothing", "data"}]
  BY DEF TypeOK, Ask!Ask, Ask!Tell, Ask!Settle

-----------------------------------------------------------------------------
(***************************************************************************)
(* What each step of a handler does to the jobs.                           *)
(***************************************************************************)
\* Only the job of x changes, and told and answer keep their types.
OnlyJobOf(x) ==
  /\ job' \in [Handlers -> Jobs \cup {None}]
  /\ told' \in [Previews -> SUBSET {Device}]
  /\ answer' \in [Previews -> {"new", "pending", "nothing", "data"}]
  /\ \A y \in Handlers \ {x} : job'[y] = job[y]

LEMMA LookStep ==
  ASSUME TypeOK, NEW g \in Previews, NEW k \in Keys, Look(g, k)
  PROVE  /\ OnlyJobOf(g) /\ UNCHANGED <<head, cacheVars, cleanupVars>>
         /\ job[g] = None /\ job'[g] # None /\ job'[g].key = k
         /\ \/ /\ job'[g].phase = "hit" /\ Start(g)
               /\ row[k] # "none" /\ file[FileOf(k)] # None
            \/ job'[g].phase = "ask" /\ Fresh(job'[g]) /\ UNCHANGED disturbed
  <1>1. /\ {"hit", "ask"} \subseteq Phases /\ head \in Revs /\ g \in Handlers
        /\ (k[2] > head) \in BOOLEAN
    BY DEF Phases, TypeOK, Handlers
  <1>2. CASE row[k] # "none" /\ file[FileOf(k)] # None
    <2>1. /\ job' = [job EXCEPT ![g] = [phase |-> "hit", key |-> k, rev |-> None, misnamed |-> FALSE]]
          /\ Start(g) /\ UNCHANGED askVars
      BY <1>2 DEF Look
    <2> QED  BY <1>1, <1>2, <2>1, NewJob DEF Look, OnlyJobOf, TypeOK, askVars
  <1>3. CASE ~(row[k] # "none" /\ file[FileOf(k)] # None)
    <2> DEFINE n == UpTo(head, k)
               m == k[2] > head
    <2>1. /\ job' = [job EXCEPT ![g] = [phase |-> "ask", key |-> k, rev |-> n, misnamed |-> m]]
          /\ Ask!Ask(g) /\ UNCHANGED disturbed
      BY <1>3 DEF Look
    <2>2. n \in Revs /\ m \in BOOLEAN /\ (k[2] <= n \/ m)
      BY <1>1, UpToFacts
    <2> HIDE DEF n, m
    <2>3. /\ job' \in [Handlers -> Jobs \cup {None}] /\ job'[g] # None
          /\ job'[g].phase = "ask" /\ job'[g].key = k /\ job'[g].rev = n
          /\ job'[g].misnamed = m
          /\ \A y \in Handlers \ {g} : job'[y] = job[y]
      BY <1>1, <2>1, <2>2, NewJob
    <2>4. Fresh(job'[g])
      BY <2>2, <2>3 DEF Fresh
    <2>5. told' \in [Previews -> SUBSET {Device}]
          /\ answer' \in [Previews -> {"new", "pending", "nothing", "data"}]
      BY <2>1, AskFacts
    <2> QED  BY <2>1, <2>3, <2>4, <2>5 DEF Look, OnlyJobOf
  <1> QED  BY <1>2, <1>3

LEMMA HitStep ==
  ASSUME TypeOK, NEW g \in Previews, Hit(g)
  PROVE  /\ OnlyJobOf(g) /\ UNCHANGED <<head, cacheVars, cleanupVars, disturbed>>
         /\ At(g, "hit")
         /\ \/ row[job[g].key] = "none" /\ job'[g] = None
            \/ /\ row[job[g].key] # "none"
               /\ job'[g] # None /\ job'[g].phase = "respond" /\ job'[g].key = job[g].key
  <1>1. "respond" \in Phases /\ g \in Handlers /\ job[g] # None
    BY DEF Phases, Handlers, Hit, At
  <1>2. CASE row[job[g].key] = "none"
    BY <1>1, <1>2, EndJob DEF Hit, OnlyJobOf
  <1>3. CASE row[job[g].key] # "none"
    BY <1>1, <1>3, GotoJob DEF Hit, OnlyJobOf, TypeOK, askVars
  <1> QED  BY <1>2, <1>3

LEMMA AnsweredStep ==
  ASSUME TypeOK, Recent, NEW g \in Previews, Answered(g)
  PROVE  /\ OnlyJobOf(g) /\ UNCHANGED <<head, cacheVars, cleanupVars>>
         /\ At(g, "ask") /\ job'[g] # None
         /\ job'[g].phase = "open" /\ job'[g].key = job[g].key /\ Start(g)
         /\ Fresh(job'[g])
  <1>1. "open" \in Phases /\ g \in Handlers /\ job[g] # None /\ At(g, "ask")
    BY DEF Phases, Handlers, Answered, At
  <1>2. /\ job[g].key \in Keys /\ job[g].key[2] \in Revs /\ job[g].misnamed \in BOOLEAN
        /\ job[g].rev \in Revs /\ (job[g].key[2] <= job[g].rev \/ job[g].misnamed)
    BY <1>1, JobFields, FileOfKey DEF Recent, Fresh
  <1>3. PICK n \in job[g].rev .. UpTo(head, job[g].key) :
          job' = [job EXCEPT ![g].phase = "open", ![g].rev = n,
                             ![g].misnamed = @ /\ n < job[g].key[2]]
    BY DEF Answered
  <1> DEFINE m == job[g].misnamed /\ n < job[g].key[2]
  <1>4. n \in Revs /\ job[g].rev <= n
    BY <1>2, <1>3, UpToFacts, PreviewAssumption DEF Revs, TypeOK
  <1>5. m \in BOOLEAN /\ (job[g].key[2] <= n \/ m)
    BY <1>2, <1>4, PreviewAssumption DEF Revs
  <1>6. job' = [job EXCEPT ![g].phase = "open", ![g].rev = n, ![g].misnamed = m]
    BY <1>1, <1>3 DEF TypeOK
  <1> HIDE DEF m
  <1>7. /\ job' \in [Handlers -> Jobs \cup {None}] /\ job'[g] # None
        /\ job'[g].phase = "open" /\ job'[g].key = job[g].key /\ job'[g].rev = n
        /\ job'[g].misnamed = m
        /\ \A y \in Handlers \ {g} : job'[y] = job[y]
    <2> DEFINE r == [job[g] EXCEPT !.phase = "open", !.rev = n, !.misnamed = m]
    <2>1. /\ r \in Jobs /\ r.phase = "open" /\ r.key = job[g].key /\ r.rev = n
          /\ r.misnamed = m
      BY <1>1, <1>4, <1>5, JobFields DEF Jobs
    <2>2. job' = [job EXCEPT ![g] = r]
      BY <1>1, <1>6 DEF TypeOK
    <2> QED  BY <1>1, <2>1, <2>2, JobSet
  <1>8. Start(g) /\ UNCHANGED <<head, cacheVars, askVars, cleanupVars>>
    BY DEF Answered
  <1>9. OnlyJobOf(g)
    BY <1>7, <1>8 DEF OnlyJobOf, TypeOK, askVars
  <1> QED  BY <1>1, <1>4, <1>5, <1>7, <1>8, <1>9 DEF Fresh

LEMMA EndStep ==
  ASSUME TypeOK, NEW g \in Previews, NoPreview(g) \/ Respond(g)
  PROVE  /\ OnlyJobOf(g) /\ UNCHANGED <<head, cacheVars, cleanupVars, disturbed>>
         /\ At(g, "ask") \/ At(g, "respond")
         /\ job'[g] = None
  BY EndJob DEF NoPreview, Respond, OnlyJobOf, Handlers

LEMMA PushStep ==
  ASSUME TypeOK, NEW x \in Pushers, NEW k \in Keys, PushPreview(x, k)
  PROVE  /\ OnlyJobOf(x) /\ UNCHANGED <<head, cacheVars, cleanupVars>>
         /\ job[x] = None /\ job'[x] # None /\ Start(x)
         /\ job'[x].phase = "open" /\ job'[x].key = k /\ Fresh(job'[x])
  <1>1. "open" \in Phases /\ k[2] \in Revs /\ x \in Handlers /\ head \in Revs
    BY FileOfKey DEF Phases, Handlers, TypeOK
  <1>2. PICK n \in 1 .. UpTo(head, k) :
          job' = [job EXCEPT ![x] = [phase |-> "open", key |-> k, rev |-> n,
                                    misnamed |-> n < k[2]]]
    BY DEF PushPreview
  <1> DEFINE m == n < k[2]
  <1>3. n \in Revs /\ m \in BOOLEAN /\ (k[2] <= n \/ m)
    BY <1>1, <1>2, UpToFacts, PreviewAssumption DEF Revs
  <1>4. job' = [job EXCEPT ![x] = [phase |-> "open", key |-> k, rev |-> n, misnamed |-> m]]
    BY <1>2
  <1> HIDE DEF m
  <1>5. /\ job' \in [Handlers -> Jobs \cup {None}] /\ job'[x] # None
        /\ job'[x].phase = "open" /\ job'[x].key = k /\ job'[x].rev = n
        /\ job'[x].misnamed = m
        /\ \A y \in Handlers \ {x} : job'[y] = job[y]
    BY <1>1, <1>3, <1>4, NewJob
  <1>6. Fresh(job'[x])
    BY <1>3, <1>5 DEF Fresh
  <1> QED  BY <1>5, <1>6 DEF PushPreview, OnlyJobOf, TypeOK, askVars

LEMMA OpenStep ==
  ASSUME TypeOK, NEW x \in Handlers, OpenFile(x)
  PROVE  /\ OnlyJobOf(x) /\ UNCHANGED <<head, row, cleanupVars, disturbed>>
         /\ At(x, "open") /\ file' = [file EXCEPT ![FileOf(job[x].key)] = Torn]
         /\ job'[x] # None /\ job'[x].phase = "write"
         /\ job'[x].key = job[x].key /\ job'[x].rev = job[x].rev
         /\ job'[x].misnamed = job[x].misnamed
  <1>1. "write" \in Phases /\ job[x] # None
    BY DEF Phases, OpenFile, At
  <1> QED  BY <1>1, GotoJob DEF OpenFile, OnlyJobOf, TypeOK, askVars

LEMMA WriteStep ==
  ASSUME TypeOK, NEW x \in Handlers, WriteFile(x)
  PROVE  /\ OnlyJobOf(x) /\ UNCHANGED <<head, row, cleanupVars, disturbed>>
         /\ At(x, "write")
         /\ job'[x] # None /\ job'[x].phase = "find" /\ job'[x].key = job[x].key
         /\ LET f == FileOf(job[x].key)
                content == [path |-> job[x].key[1], rev |-> job[x].rev,
                            misnamed |-> job[x].misnamed]
            IN  \/ file[f] = None /\ UNCHANGED file
                \/ file[f] # None /\ file' = [file EXCEPT ![f] = content]
                \/ file[f] \in Contents /\ file' = [file EXCEPT ![f] = Torn]
  <1>1. "find" \in Phases /\ job[x] # None /\ None \in Revs \cup {None}
    BY DEF Phases, WriteFile, At
  <1> QED  BY <1>1, RevisedJob DEF WriteFile, OnlyJobOf, TypeOK, askVars

LEMMA WriteFailsStep ==
  ASSUME TypeOK, NEW x \in Handlers, WriteFails(x)
  PROVE  /\ OnlyJobOf(x) /\ UNCHANGED <<head, row, cleanupVars>>
         /\ disturbed' = 2 /\ job'[x] = None
         /\ \/ UNCHANGED file
            \/ job[x] # None /\ file' = [file EXCEPT ![FileOf(job[x].key)] = Torn]
  BY EndJob DEF WriteFails, OnlyJobOf, At

LEMMA FindStep ==
  ASSUME TypeOK, NEW x \in Handlers, FindRow(x)
  PROVE  /\ OnlyJobOf(x) /\ UNCHANGED <<head, cacheVars, cleanupVars, disturbed>>
         /\ At(x, "find") /\ job'[x] # None /\ job'[x].key = job[x].key
         /\ \/ row[job[x].key] = "none" /\ job'[x].phase = "insert"
            \/ row[job[x].key] # "none" /\ job'[x].phase = "update"
  <1>1. {"insert", "update"} \subseteq Phases /\ job[x] # None
    BY DEF Phases, FindRow, At
  <1>2. CASE row[job[x].key] = "none"
    BY <1>1, <1>2, GotoJob DEF FindRow, OnlyJobOf, TypeOK, askVars
  <1>3. CASE row[job[x].key] # "none"
    BY <1>1, <1>3, GotoJob DEF FindRow, OnlyJobOf, TypeOK, askVars
  <1> QED  BY <1>2, <1>3

LEMMA StoreStep ==
  ASSUME TypeOK, NEW x \in Handlers, Store(x)
  PROVE  /\ OnlyJobOf(x) /\ UNCHANGED <<head, file, cleanupVars, disturbed>>
         /\ At(x, "insert") \/ At(x, "update")
         /\ \/ /\ row' = [row EXCEPT ![job[x].key] = "stored"]
               /\ At(x, "update") <=> row[job[x].key] # "none"
               /\ \/ job'[x] = None /\ x \notin Previews
                  \/ /\ job'[x] # None /\ job'[x].phase = "respond"
                     /\ job'[x].key = job[x].key
            \/ /\ ~(At(x, "update") <=> row[job[x].key] # "none")
               /\ UNCHANGED row /\ job'[x] = None
  <1>1. "respond" \in Phases /\ job[x] # None
    BY DEF Phases, Store, At
  <1>2. CASE ~(At(x, "update") <=> row[job[x].key] # "none")
    BY <1>2, EndJob DEF Store, OnlyJobOf
  <1>3. CASE (At(x, "update") <=> row[job[x].key] # "none") /\ x \in Previews
    BY <1>1, <1>3, GotoJob DEF Store, OnlyJobOf, TypeOK, askVars
  <1>4. CASE (At(x, "update") <=> row[job[x].key] # "none") /\ x \notin Previews
    BY <1>4, EndJob DEF Store, OnlyJobOf
  <1> QED  BY <1>2, <1>3, <1>4

LEMMA FailStep ==
  ASSUME TypeOK, NEW x \in Handlers, CommitFails(x)
  PROVE  /\ OnlyJobOf(x) /\ UNCHANGED <<head, cacheVars, cleanupVars>>
         /\ disturbed' = 2 /\ job'[x] = None
         /\ At(x, "insert") \/ At(x, "update") \/ At(x, "hit")
  BY EndJob DEF CommitFails, OnlyJobOf

-----------------------------------------------------------------------------
(***************************************************************************)
(* Types, and what the files hold.                                         *)
(***************************************************************************)
LEMMA InitTyped == Init => Typed
  <1> SUFFICES ASSUME Init PROVE Typed
    OBVIOUS
  <1>1. 1 \in Revs
    BY PreviewAssumption DEF Revs
  <1>2. TypeOK
    BY <1>1 DEF Init, TypeOK, Ask!Init
  <1>3. Recent
    BY DEF Init, Recent, At
  <1> QED  BY <1>2, <1>3 DEF Typed

\* A step of a handler that leaves rows and files as they are.
LEMMA QuietTyped ==
  ASSUME Typed, NEW x \in Handlers, OnlyJobOf(x),
         UNCHANGED <<head, cacheVars, cleanupVars>>, disturbed' \in 0 .. 2,
         At(x, "ask")' \/ At(x, "open")' \/ At(x, "write")' => Fresh(job'[x])
  PROVE  Typed'
  <1>1. TypeOK /\ Recent
    BY DEF Typed
  <1>2. TypeOK'
    BY <1>1 DEF TypeOK, OnlyJobOf, cacheVars, cleanupVars
  <1>3. Recent'
    BY <1>1 DEF Recent, OnlyJobOf, At
  <1> QED  BY <1>2, <1>3 DEF Typed

LEMMA NextTyped == Typed /\ [Next]_vars => Typed'
  <1> SUFFICES ASSUME Typed, [Next]_vars PROVE Typed'
    OBVIOUS
  <1>0. TypeOK /\ Recent /\ disturbed \in 0 .. 2
    BY DEF Typed, TypeOK
  <1>1. CASE OwnerCommits
    <2>1. head' \in Revs
      BY <1>0, <1>1, PreviewAssumption DEF OwnerCommits, TypeOK, Revs
    <2> QED  BY <1>0, <1>1, <2>1 DEF OwnerCommits, Typed, TypeOK, Recent, At, cacheVars, askVars, cleanupVars
  <1>2. ASSUME NEW g \in Previews, NEW k \in Keys, Look(g, k) PROVE Typed'
    <2>1. g \in Handlers /\ head \in Revs
      BY <1>0 DEF Handlers, TypeOK
    <2>2. disturbed' \in 0 .. 2
      BY <1>0, <1>2, <2>1, LookStep, StartFacts
    <2> QED  BY <1>0, <1>2, <2>1, <2>2, LookStep, QuietTyped DEF At
  <1>3. ASSUME NEW g \in Previews, Hit(g) PROVE Typed'
    <2>1. g \in Handlers
      BY DEF Handlers
    <2> QED  BY <1>0, <1>3, <2>1, HitStep, QuietTyped DEF At
  <1>4. ASSUME NEW g \in Previews, Wait(g) PROVE Typed'
    BY <1>0, <1>4, AskFacts DEF Wait, Typed, TypeOK, Recent, At, cacheVars, cleanupVars
  <1>5. ASSUME NEW g \in Previews, NoPreview(g) \/ Respond(g) PROVE Typed'
    BY <1>0, <1>5, EndStep, QuietTyped DEF At, Handlers
  <1>6. ASSUME NEW g \in Previews, Answered(g) PROVE Typed'
    <2>1. g \in Handlers
      BY DEF Handlers
    <2>2. disturbed' \in 0 .. 2
      BY <1>0, <1>6, <2>1, AnsweredStep, StartFacts
    <2> QED  BY <1>0, <1>6, <2>1, <2>2, AnsweredStep, QuietTyped
  <1>7. ASSUME NEW x \in Pushers, NEW k \in Keys, PushPreview(x, k) PROVE Typed'
    <2>1. x \in Handlers
      BY DEF Handlers
    <2>2. disturbed' \in 0 .. 2
      BY <1>0, <1>7, <2>1, PushStep, StartFacts
    <2> QED  BY <1>0, <1>7, <2>1, <2>2, PushStep, QuietTyped
  <1>8. ASSUME NEW x \in Handlers, OpenFile(x) PROVE Typed'
    <2>1. Fresh(job[x]) /\ Fresh(job'[x])
      BY <1>0, <1>8, OpenStep DEF Recent, Fresh
    <2>2. file' \in [Files -> Contents \cup {None, Torn}]
      BY <1>0, <1>8, OpenStep, JobFields, FileOfKey DEF TypeOK, At
    <2>3. Recent'
      BY <1>0, <1>8, <2>1, OpenStep DEF Recent, OnlyJobOf, At
    <2> QED  BY <1>0, <1>8, <2>2, <2>3, OpenStep DEF Typed, TypeOK, OnlyJobOf, cleanupVars
  <1>9. ASSUME NEW x \in Handlers, WriteFile(x) PROVE Typed'
    <2>1. job[x].rev \in Revs /\ job[x].key \in Keys /\ job[x].misnamed \in BOOLEAN
      BY <1>0, <1>9, WriteStep, JobFields DEF Recent, Fresh, At
    <2>2. [path |-> job[x].key[1], rev |-> job[x].rev, misnamed |-> job[x].misnamed] \in Contents
      BY <2>1, FileOfKey DEF Contents
    <2>3. file' \in [Files -> Contents \cup {None, Torn}]
      BY <1>0, <1>9, <2>1, <2>2, WriteStep, FileOfKey DEF TypeOK
    <2>4. Recent'
      BY <1>0, <1>9, WriteStep DEF Recent, OnlyJobOf, At
    <2> QED  BY <1>0, <1>9, <2>3, <2>4, WriteStep DEF Typed, TypeOK, OnlyJobOf, cleanupVars
  <1>19. ASSUME NEW x \in Handlers, WriteFails(x) PROVE Typed'
    <2>1. file' \in [Files -> Contents \cup {None, Torn}]
      BY <1>0, <1>19, WriteFailsStep, JobFields, FileOfKey DEF TypeOK
    <2>2. Recent'
      BY <1>0, <1>19, WriteFailsStep DEF Recent, OnlyJobOf, At
    <2> QED  BY <1>0, <1>19, <2>1, <2>2, WriteFailsStep DEF Typed, TypeOK, OnlyJobOf, cleanupVars
  <1>10. ASSUME NEW x \in Handlers, FindRow(x) PROVE Typed'
    BY <1>0, <1>10, FindStep, QuietTyped DEF At
  <1>11. ASSUME NEW x \in Handlers, Store(x) PROVE Typed'
    <2>1. row' \in [Keys -> {"none", "stored"}]
      BY <1>0, <1>11, StoreStep, JobFields DEF TypeOK, At
    <2>2. Recent'
      BY <1>0, <1>11, StoreStep DEF Recent, OnlyJobOf, At
    <2> QED  BY <1>0, <1>11, <2>1, <2>2, StoreStep DEF Typed, TypeOK, OnlyJobOf, cleanupVars
  <1>12. ASSUME NEW x \in Handlers, CommitFails(x) PROVE Typed'
    BY <1>0, <1>12, FailStep, QuietTyped DEF At
  <1>13. CASE Cleanup
    <2>1. expired' \subseteq Keys /\ toRemove' = expired'
      BY <1>13 DEF Cleanup
    <2> QED  BY <1>0, <1>13, <2>1 DEF Cleanup, Typed, TypeOK, Recent, At, cacheVars, askVars
  <1>14. CASE RemoveFile
    BY <1>0, <1>14, FileOfKey DEF RemoveFile, Typed, TypeOK, Recent, At, askVars
  <1>15. CASE CleanupCommit
    BY <1>0, <1>15 DEF CleanupCommit, Typed, TypeOK, Recent, At, askVars
  <1>16. CASE CleanupFails
    BY <1>0, <1>16 DEF CleanupFails, Typed, TypeOK, Recent, At, cacheVars, askVars
  <1>18. CASE UNCHANGED vars
    BY <1>0, <1>18 DEF vars, Typed, TypeOK, Recent, At, cacheVars, askVars, cleanupVars
  <1> QED  BY <1>1, <1>2, <1>3, <1>4, <1>5, <1>6, <1>7, <1>8, <1>9, <1>10, <1>11,
              <1>12, <1>13, <1>14, <1>15, <1>16, <1>18, <1>19 DEF Next

\* Rows, files and the jobs keep their types (api/proxy.py, scheduler/jobs.py).
THEOREM CacheTypeCorrect == Spec => []TypeOK
  <1>1. Spec => []Typed
    BY InitTyped, NextTyped, PTL DEF Spec
  <1>2. Typed => TypeOK
    BY DEF Typed
  <1> QED  BY <1>1, <1>2, PTL

\* A file whose content is somebody's preview of the key.
LEMMA NextServed == Typed /\ ServedAsAsked /\ [Next]_vars => ServedAsAsked'
  <1> SUFFICES ASSUME Typed, ServedAsAsked, [Next]_vars PROVE ServedAsAsked'
    OBVIOUS
  <1>0. TypeOK /\ Recent
    BY DEF Typed
  <1>1. CASE UNCHANGED file
    BY <1>1 DEF ServedAsAsked
  <1>2. ASSUME NEW x \in Handlers, OpenFile(x) PROVE ServedAsAsked'
    BY <1>0, <1>2, OpenStep, FileOfKey DEF ServedAsAsked, TypeOK
  <1>3. ASSUME NEW x \in Handlers, WriteFile(x) PROVE ServedAsAsked'
    <2> DEFINE key == job[x].key
               content == [path |-> key[1], rev |-> job[x].rev, misnamed |-> job[x].misnamed]
    <2>1. key \in Keys /\ job[x].rev \in Revs /\ (key[2] <= job[x].rev \/ job[x].misnamed)
      BY <1>0, <1>3, WriteStep, JobFields DEF Recent, Fresh, At
    <2>2. \A k \in Keys : FileOf(k) = FileOf(key) => FileName[k[1]] = FileName[key[1]] /\ k[2] = key[2]
      BY DEF FileOf
    <2>3. content.path = key[1] /\ content.rev = job[x].rev /\ content.misnamed = job[x].misnamed
      OBVIOUS
    <2>4. \A k \in Keys : /\ k[2] \in Nat /\ FileOf(k) \in Files
                          /\ \/ file'[FileOf(k)] \in {file[FileOf(k)], Torn}
                             \/ FileOf(k) = FileOf(key) /\ file'[FileOf(k)] = content
      BY <1>0, <1>3, WriteStep, FileOfKey DEF TypeOK, Revs
    <2> HIDE DEF content
    <2> QED  BY <2>1, <2>2, <2>3, <2>4 DEF ServedAsAsked, Revs
  <1>4. CASE RemoveFile
    BY <1>0, <1>4, FileOfKey DEF RemoveFile, ServedAsAsked, TypeOK
  <1>6. ASSUME NEW x \in Handlers, WriteFails(x) PROVE ServedAsAsked'
    BY <1>0, <1>6, WriteFailsStep, FileOfKey DEF ServedAsAsked, TypeOK
  <1>5. ASSUME NEW g \in Previews,
               Hit(g) \/ Wait(g) \/ NoPreview(g) \/ Answered(g) \/ Respond(g)
        PROVE  UNCHANGED file
    BY <1>5 DEF Hit, Wait, NoPreview, Answered, Respond, cacheVars
  <1> QED  BY <1>1, <1>2, <1>3, <1>4, <1>5, <1>6
           DEF Next, OwnerCommits, Look, PushPreview, FindRow, Store, CommitFails,
               Cleanup, CleanupCommit, CleanupFails, vars, cacheVars

\* In every interleaving a cache file holds a preview of its path, or of one
\* that shares the file, and none older than its revision unless a client named
\* a revision that did not exist when it asked, or pushed an older preview under
\* it: the server checks neither (get_preview, push_preview, _save_preview_cache).
THEOREM CacheHoldsWhatWasAsked == Spec => []ServedAsAsked
  <1>1. Init => ServedAsAsked
    BY FileOfKey DEF Init, ServedAsAsked
  <1> QED  BY <1>1, InitTyped, NextTyped, NextServed, PTL DEF Spec

-----------------------------------------------------------------------------
(***************************************************************************)
(* No leaks: cache_cleanup keeps away from handlers, what it has removed   *)
(* stays removed, and rows that handlers have found or stored stay.        *)
(***************************************************************************)
HasOwner(f) ==
  \/ \E k \in Keys : FileOf(k) = f /\ row[k] # "none"
  \/ \E x \in Handlers : AtWork(x) /\ FileOf(job[x].key) = f

Tidy ==
  /\ \A f \in Files : file[f] # None => HasOwner(f)
  /\ expired # {} => \A x \in Handlers : ~AtWork(x)
  /\ \A k \in expired \ toRemove : file[FileOf(k)] = None
  /\ \A x \in Handlers :
       At(x, "hit") \/ At(x, "update") \/ At(x, "respond") => row[job[x].key] # "none"

LEMMA OthersStay ==
  ASSUME NEW x \in Handlers, NEW y \in Handlers \ {x}, OnlyJobOf(x)
  PROVE  /\ job'[y] = job[y] /\ AtWork(y)' = AtWork(y)
         /\ \A p \in Phases : At(y, p)' = At(y, p)
  BY DEF OnlyJobOf, AtWork, At

\* A handler goes on and no row is lost.
Careful(x) ==
  /\ OnlyJobOf(x) /\ UNCHANGED cleanupVars
  /\ \A k \in Keys : row[k] # "none" => row'[k] # "none"
  /\ \A f \in Files : file'[f] # None =>
       file[f] # None \/ (AtWork(x)' /\ FileOf(job'[x].key) = f)
  /\ AtWork(x) => \/ AtWork(x)' /\ job'[x].key = job[x].key
                  \/ row'[job[x].key] # "none"
  /\ AtWork(x)' => expired = {}
  /\ At(x, "hit")' \/ At(x, "update")' \/ At(x, "respond")' =>
       row'[job'[x].key] # "none"
  /\ \A k \in expired : file'[FileOf(k)] = file[FileOf(k)]

LEMMA HandlerTidy ==
  ASSUME Typed, Tidy, NEW x \in Handlers, Careful(x)
  PROVE  Tidy'
  <1>0. TypeOK /\ OnlyJobOf(x)
    BY DEF Typed, Careful
  <1>1. ASSUME NEW f \in Files, file'[f] # None PROVE HasOwner(f)'
    <2>1. CASE AtWork(x)' /\ FileOf(job'[x].key) = f
      BY <2>1 DEF HasOwner, FileOf
    <2>2. CASE HasOwner(f)
      <3>1. CASE \E k \in Keys : FileOf(k) = f /\ row[k] # "none"
        BY <3>1 DEF HasOwner, FileOf, Careful
      <3>2. ASSUME NEW y \in Handlers, AtWork(y), FileOf(job[y].key) = f PROVE HasOwner(f)'
        <4>1. CASE y = x
          <5>1. job[x].key \in Keys
            BY <1>0, <3>2, <4>1, JobFields DEF AtWork
          <5> QED  BY <3>2, <4>1, <5>1 DEF HasOwner, FileOf, Careful
        <4>2. CASE y # x
          BY <3>2, <4>2, <1>0, OthersStay DEF HasOwner, FileOf
        <4> QED  BY <4>1, <4>2
      <3> QED  BY <2>2, <3>1, <3>2 DEF HasOwner
    <2> QED  BY <1>1, <2>1, <2>2 DEF Tidy, Careful
  <1>2. expired' # {} => \A y \in Handlers : ~AtWork(y)'
    BY <1>0, OthersStay DEF Tidy, cleanupVars, Careful
  <1>3. \A k \in expired' \ toRemove' : file'[FileOf(k)] = None
    BY DEF Tidy, cleanupVars, Careful
  <1>4. ASSUME NEW y \in Handlers, At(y, "hit")' \/ At(y, "update")' \/ At(y, "respond")'
        PROVE  row'[job'[y].key] # "none"
    <2>1. CASE y = x
      BY <1>4, <2>1 DEF cleanupVars, Careful
    <2>2. CASE y # x
      <3>1. (At(y, "hit") \/ At(y, "update") \/ At(y, "respond")) /\ job'[y] = job[y]
        BY <1>4, <2>2, <1>0, OthersStay DEF Phases
      <3>2. job[y].key \in Keys
        BY <1>0, <3>1, JobFields DEF At
      <3> QED  BY <3>1, <3>2 DEF Tidy, Careful
    <2> QED  BY <2>1, <2>2
  <1>5. \A f \in Files : file'[f] # None => HasOwner(f)'
    BY <1>1
  <1>6. \A k \in expired' \ toRemove' : (file[FileOf(k)])' = None
    BY <1>3 DEF FileOf
  <1> QED  BY <1>2, <1>4, <1>5, <1>6 DEF Tidy, FileOf

LEMMA NextTidy ==
  Typed /\ (disturbed < 2 => Tidy) /\ [Next]_vars => (disturbed < 2 => Tidy)'
  <1> SUFFICES ASSUME Typed, disturbed < 2 => Tidy, [Next]_vars, disturbed' < 2
               PROVE  Tidy'
    OBVIOUS
  <1>0. TypeOK /\ disturbed \in 0 .. 2
    BY DEF Typed, TypeOK
  <1>1. CASE OwnerCommits \/ UNCHANGED vars
    BY <1>1 DEF OwnerCommits, vars, Tidy, HasOwner, AtWork, At, FileOf, cacheVars, cleanupVars
  <1>2. ASSUME NEW g \in Previews, NEW k \in Keys, Look(g, k) PROVE Tidy'
    <2>1. g \in Handlers
      BY DEF Handlers
    <2>2. Tidy
      BY <1>0, <1>2, <2>1, LookStep, StartFacts
    <2>3. OnlyJobOf(g) /\ UNCHANGED <<cacheVars, cleanupVars>> /\ ~AtWork(g)
      BY <1>0, <1>2, LookStep DEF AtWork
    <2>4. AtWork(g)' => expired = {} /\ job'[g].phase = "hit" /\ row[job'[g].key] # "none"
      BY <1>0, <1>2, <2>1, LookStep, StartFacts DEF AtWork
    <2>5. At(g, "hit")' \/ At(g, "update")' \/ At(g, "respond")' => AtWork(g)'
      BY DEF At, AtWork
    <2>6. Careful(g)
      BY <2>1, <2>2, <2>3, <2>4, <2>5 DEF cacheVars, cleanupVars, Careful
    <2> QED  BY <2>1, <2>2, <2>6, HandlerTidy
  <1>3. ASSUME NEW g \in Previews, Hit(g) PROVE Tidy'
    <2>1. g \in Handlers
      BY DEF Handlers
    <2>2. Tidy /\ At(g, "hit") /\ AtWork(g) /\ job[g].key \in Keys /\ row[job[g].key] # "none"
      BY <1>0, <1>3, <2>1, HitStep, JobFields DEF Tidy, At, AtWork
    <2>3. expired = {}
      BY <2>1, <2>2 DEF Tidy
    <2>4. UNCHANGED cacheVars /\ AtWork(g)' /\ job'[g].key = job[g].key
      BY <1>0, <1>3, <2>2, HitStep DEF AtWork
    <2>5. Careful(g)
      BY <1>0, <1>3, <2>1, <2>2, <2>3, <2>4, HitStep DEF cacheVars, cleanupVars, Careful
    <2> QED  BY <2>1, <2>2, <2>5, HandlerTidy
  <1>4. ASSUME NEW g \in Previews, Wait(g) PROVE Tidy'
    BY <1>4 DEF Wait, Tidy, HasOwner, AtWork, At, FileOf, cacheVars, cleanupVars
  <1>5. ASSUME NEW g \in Previews, NoPreview(g) \/ Respond(g) PROVE Tidy'
    <2>1. g \in Handlers
      BY DEF Handlers
    <2>2. Tidy /\ (At(g, "respond") \/ ~AtWork(g)) /\ ~AtWork(g)'
      BY <1>0, <1>5, EndStep DEF At, AtWork
    <2>3. AtWork(g) => row[job[g].key] # "none"
      BY <2>1, <2>2 DEF Tidy
    <2>4. ~(At(g, "hit")' \/ At(g, "update")' \/ At(g, "respond")')
      BY <1>0, <1>5, EndStep DEF At
    <2>5. Careful(g)
      BY <1>0, <1>5, <2>1, <2>2, <2>3, <2>4, EndStep DEF cacheVars, cleanupVars, Careful
    <2> QED  BY <2>1, <2>2, <2>5, HandlerTidy
  <1>6. ASSUME NEW g \in Previews, Answered(g) PROVE Tidy'
    <2>1. g \in Handlers /\ Recent
      BY DEF Handlers, Typed
    <2>2. Tidy /\ ~AtWork(g) /\ expired = {}
      BY <1>0, <1>6, <2>1, AnsweredStep, StartFacts DEF At, AtWork
    <2>3. ~(At(g, "hit")' \/ At(g, "update")' \/ At(g, "respond")')
      BY <1>0, <1>6, <2>1, AnsweredStep DEF At
    <2>4. Careful(g)
      BY <1>0, <1>6, <2>1, <2>2, <2>3, AnsweredStep DEF cacheVars, cleanupVars, Careful
    <2> QED  BY <2>1, <2>2, <2>4, HandlerTidy
  <1>7. ASSUME NEW x \in Pushers, NEW k \in Keys, PushPreview(x, k) PROVE Tidy'
    <2>1. x \in Handlers
      BY DEF Handlers
    <2>2. Tidy /\ ~AtWork(x) /\ expired = {}
      BY <1>0, <1>7, <2>1, PushStep, StartFacts DEF AtWork
    <2>3. ~(At(x, "hit")' \/ At(x, "update")' \/ At(x, "respond")')
      BY <1>0, <1>7, PushStep DEF At
    <2>4. Careful(x)
      BY <1>0, <1>7, <2>1, <2>2, <2>3, PushStep DEF cacheVars, cleanupVars, Careful
    <2> QED  BY <2>1, <2>2, <2>4, HandlerTidy
  <1>8. ASSUME NEW x \in Handlers, OpenFile(x) \/ WriteFile(x) PROVE Tidy'
    <2>1. /\ OnlyJobOf(x) /\ UNCHANGED <<row, cleanupVars, disturbed>>
          /\ AtWork(x) /\ AtWork(x)' /\ job'[x].key = job[x].key
          /\ ~(At(x, "hit")' \/ At(x, "update")' \/ At(x, "respond")')
      BY <1>0, <1>8, OpenStep, WriteStep DEF At, AtWork
    <2>2. Tidy /\ expired = {}
      BY <2>1 DEF Tidy
    <2>3. \A f \in Files : file'[f] = file[f] \/ f = FileOf(job[x].key)
      BY <1>0, <1>8, OpenStep, WriteStep DEF TypeOK
    <2>4. Careful(x)
      BY <2>1, <2>2, <2>3 DEF cleanupVars, Careful
    <2> QED  BY <2>1, <2>2, <2>4, HandlerTidy
  <1>9. ASSUME NEW x \in Handlers, FindRow(x) PROVE Tidy'
    <2>1. /\ OnlyJobOf(x) /\ UNCHANGED <<cacheVars, cleanupVars, disturbed>>
          /\ AtWork(x) /\ AtWork(x)' /\ job'[x].key = job[x].key
          /\ At(x, "hit")' \/ At(x, "update")' \/ At(x, "respond")' => row[job[x].key] # "none"
      BY <1>0, <1>9, FindStep DEF At, AtWork
    <2>2. Tidy /\ expired = {}
      BY <2>1 DEF Tidy
    <2>3. Careful(x)
      BY <2>1, <2>2 DEF cacheVars, cleanupVars, Careful
    <2> QED  BY <2>1, <2>2, <2>3, HandlerTidy
  <1>10. ASSUME NEW x \in Handlers, Store(x) PROVE Tidy'
    <2>1. /\ OnlyJobOf(x) /\ UNCHANGED <<file, cleanupVars, disturbed>>
          /\ AtWork(x) /\ job[x].key \in Keys
      BY <1>0, <1>10, StoreStep, JobFields DEF At, AtWork
    <2>2. Tidy /\ expired = {}
      BY <2>1 DEF Tidy
    <2>3. At(x, "update") => row[job[x].key] # "none"
      BY <2>2 DEF Tidy
    <2>4. /\ row'[job[x].key] # "none"
          /\ \A k \in Keys : row[k] # "none" => row'[k] # "none"
      BY <1>0, <1>10, <2>1, <2>3, StoreStep DEF TypeOK
    <2>5. job'[x] # None => job'[x].key = job[x].key
      BY <1>0, <1>10, StoreStep
    <2>6. Careful(x)
      BY <2>1, <2>2, <2>4, <2>5 DEF At, AtWork, Careful
    <2> QED  BY <2>1, <2>2, <2>6, HandlerTidy
  <1>11. ASSUME NEW x \in Handlers, CommitFails(x) \/ WriteFails(x) PROVE Tidy'
    BY <1>0, <1>11, FailStep, WriteFailsStep
  <1>12. CASE Cleanup
    <2>1. ~(\E x \in Handlers : AtWork(x)) /\ UNCHANGED <<disturbed, cacheVars, job>>
      BY <1>0, <1>12 DEF Cleanup
    <2>2. Tidy /\ expired' = toRemove'
      BY <1>12, <2>1 DEF Cleanup
    <2> QED  BY <2>1, <2>2 DEF Tidy, HasOwner, AtWork, At, FileOf, cacheVars
  <1>13. CASE RemoveFile
    <2>1. PICK k \in toRemove :
            /\ toRemove' = toRemove \ {k}
            /\ file' = [file EXCEPT ![FileOf(k)] = None] /\ UNCHANGED disturbed
      BY <1>0, <1>13 DEF RemoveFile
    <2>2. UNCHANGED <<row, job, expired>> /\ expired \subseteq Keys /\ k \in expired /\ Tidy
      BY <1>0, <1>13, <2>1 DEF RemoveFile, TypeOK
    <2>3. \A f \in Files : file'[f] \in {file[f], None} /\ (f = FileOf(k) => file'[f] = None)
      BY <1>0, <2>1 DEF TypeOK
    <2>4. \A j \in expired \ toRemove' : file'[FileOf(j)] = None
      BY <2>1, <2>2, <2>3, FileOfKey DEF Tidy
    <2>5. \A f \in Files : file'[f] # None => HasOwner(f)'
      BY <2>2, <2>3 DEF Tidy, HasOwner, AtWork, FileOf
    <2> QED  BY <2>2, <2>4, <2>5 DEF Tidy, AtWork, At, FileOf
  <1>14. CASE CleanupCommit
    <2>1. /\ expired # {} /\ toRemove = {} /\ expired' = {} /\ expired \subseteq Keys
          /\ row' = [k \in Keys |-> IF k \in expired THEN "none" ELSE row[k]]
          /\ UNCHANGED <<file, job, disturbed>> /\ Tidy
      BY <1>0, <1>14 DEF CleanupCommit, TypeOK
    <2>2. \A x \in Handlers : ~AtWork(x)
      BY <2>1 DEF Tidy
    <2>3. ASSUME NEW f \in Files, file[f] # None PROVE HasOwner(f)'
      <3>1. PICK k \in Keys : FileOf(k) = f /\ row[k] # "none"
        BY <2>1, <2>2, <2>3 DEF Tidy, HasOwner
      <3>2. k \notin expired
        BY <2>1, <2>3, <3>1 DEF Tidy
      <3> QED  BY <2>1, <3>1, <3>2 DEF HasOwner, FileOf
    <2> QED  BY <2>1, <2>2, <2>3 DEF Tidy, AtWork, At
  <1>15. CASE CleanupFails
    BY <1>0, <1>15 DEF CleanupFails, Tidy, HasOwner, AtWork, At, FileOf, cacheVars
  <1> QED  BY <1>1, <1>2, <1>3, <1>4, <1>5, <1>6, <1>7, <1>8, <1>9, <1>10, <1>11,
              <1>12, <1>13, <1>14, <1>15 DEF Next

\* Until a commit, a writing or a removal fails or cache_cleanup overlaps a handler, no
\* cache file is left without a row or a handler (api/proxy.py:124,
\* scheduler/jobs.py:42).
THEOREM FilesHaveOwners == Spec => []NoFileLeaks
  <1>1. Init => Tidy
    BY DEF Init, Tidy, At, AtWork
  <1>2. Tidy => NoFileLeaks
    BY DEF Tidy, HasOwner, NoFileLeaks
  <1>3. (disturbed < 2 => Tidy) => NoFileLeaks
    BY <1>2 DEF NoFileLeaks
  <1> QED  BY <1>1, <1>3, InitTyped, NextTyped, NextTidy, PTL DEF Spec

-----------------------------------------------------------------------------
(***************************************************************************)
(* No surprises: one handler at a time finds the file and the row it       *)
(* counts on.                                                              *)
(***************************************************************************)
Saved(x) == At(x, "hit") \/ At(x, "find") \/ At(x, "insert") \/ At(x, "update") \/ At(x, "respond")

Solo(x) == \A y \in Handlers \ {x} : ~AtWork(y)

Alone ==
  /\ \A x \in Handlers : AtWork(x) => Solo(x)
  /\ \A f \in Files : file[f] = Torn =>
       \E x \in Handlers : At(x, "write") /\ FileOf(job[x].key) = f
  /\ \A x \in Handlers : At(x, "write") => file[FileOf(job[x].key)] = Torn
  /\ \A x \in Handlers : Saved(x) => file[FileOf(job[x].key)] \in Contents
  /\ \A x \in Handlers : At(x, "insert") => row[job[x].key] = "none"

\* The only handler at work leaves what it will count on.
Sound(x) ==
  /\ OnlyJobOf(x) /\ Solo(x)
  /\ \A f \in Files : file'[f] = Torn => At(x, "write")' /\ FileOf(job'[x].key) = f
  /\ At(x, "write")' => file'[FileOf(job'[x].key)] = Torn
  /\ Saved(x)' => file'[FileOf(job'[x].key)] \in Contents
  /\ At(x, "insert")' => row'[job'[x].key] = "none"

LEMMA HandlerAlone ==
  ASSUME NEW x \in Handlers, Sound(x)
  PROVE  Alone'
  <1>1. ASSUME NEW y \in Handlers, y # x
        PROVE  ~AtWork(y)' /\ ~At(y, "write")' /\ ~Saved(y)' /\ ~At(y, "insert")'
    BY <1>1 DEF Sound, Solo, OnlyJobOf, AtWork, At, Saved
  <1>2. \A y \in Handlers : AtWork(y)' => Solo(y)'
    BY <1>1 DEF Solo
  <1>3. \A f \in Files : file'[f] = Torn =>
          \E y \in Handlers : At(y, "write")' /\ FileOf(job'[y].key) = f
    BY DEF Sound
  <1>4. \A y \in Handlers : At(y, "write")' => file'[FileOf(job'[y].key)] = Torn
    BY <1>1 DEF Sound
  <1>5. \A y \in Handlers : Saved(y)' => file'[FileOf(job'[y].key)] \in Contents
    BY <1>1 DEF Sound
  <1>6. \A y \in Handlers : At(y, "insert")' => row'[job'[y].key] = "none"
    BY <1>1 DEF Sound
  <1> QED  BY <1>2, <1>3, <1>4, <1>5, <1>6 DEF Alone, FileOf, Files, Contents

LEMMA NotWorking ==
  ASSUME NEW x \in Handlers, ~AtWork(x)
  PROVE  ~At(x, "write") /\ ~Saved(x) /\ ~At(x, "insert")
  BY DEF AtWork, At, Saved

\* Before anybody starts no file is torn; then only what x writes is.
LEMMA NoneTorn ==
  ASSUME Alone, NEW x \in Handlers, Solo(x), ~At(x, "write")
  PROVE  \A f \in Files : file[f] # Torn
  BY NotWorking DEF Alone, Solo

LEMMA NextAlone ==
  Typed /\ (disturbed < 2 => Tidy) /\ (disturbed = 0 => Alone) /\ [Next]_vars
    => (disturbed = 0 => Alone)'
  <1> SUFFICES ASSUME Typed, disturbed < 2 => Tidy, disturbed = 0 => Alone, [Next]_vars,
                      disturbed' = 0
               PROVE  Alone'
    OBVIOUS
  <1>0. TypeOK /\ disturbed \in 0 .. 2 /\ Recent
    BY DEF Typed, TypeOK
  <1>1. CASE OwnerCommits \/ UNCHANGED vars
    BY <1>1 DEF OwnerCommits, vars, Alone, Saved, Solo, AtWork, At, FileOf, cacheVars,
                Files, Contents
  <1>2. ASSUME NEW g \in Previews, NEW k \in Keys, Look(g, k) PROVE Alone'
    <2>1. g \in Handlers /\ UNCHANGED cacheVars /\ OnlyJobOf(g) /\ job[g] = None
      BY <1>0, <1>2, LookStep DEF Handlers
    <2>2. CASE job'[g].phase = "hit"
      <3>1. Solo(g) /\ Alone /\ ~At(g, "write") /\ job'[g].key = k /\ file[FileOf(k)] # None
        BY <1>0, <1>2, <2>1, <2>2, LookStep, StartFacts DEF Solo, At
      <3>2. \A f \in Files : file[f] # Torn
        BY <2>1, <3>1, NoneTorn
      <3>3. file[FileOf(k)] \in Contents
        BY <1>0, <3>1, <3>2, FileOfKey DEF TypeOK
      <3>4. Sound(g)
        BY <2>1, <2>2, <3>1, <3>2, <3>3 DEF Sound, At, cacheVars
      <3> QED  BY <2>1, <3>4, HandlerAlone
    <2>3. CASE job'[g].phase = "ask"
      <3>1. Alone /\ ~AtWork(g) /\ ~AtWork(g)'
        BY <1>0, <1>2, <2>1, <2>3, LookStep DEF AtWork
      <3>2. \A y \in Handlers : \/ y = g
                                \/ job'[y] = job[y]
        BY <2>1 DEF OnlyJobOf
      <3> QED  BY <2>1, <2>3, <3>1, <3>2 DEF Alone, Saved, Solo, AtWork, At, FileOf, cacheVars, Files, Contents
    <2> QED  BY <1>0, <1>2, <2>2, <2>3, LookStep
  <1>3. ASSUME NEW g \in Previews, Hit(g) PROVE Alone'
    <2>1. /\ g \in Handlers /\ OnlyJobOf(g) /\ UNCHANGED <<file, disturbed>>
          /\ At(g, "hit") /\ AtWork(g) /\ Saved(g) /\ ~At(g, "write")
      BY <1>0, <1>3, HitStep DEF cacheVars, Handlers, At, AtWork, Saved
    <2>2. Alone /\ Solo(g)
      BY <2>1 DEF Alone
    <2>3. \A f \in Files : file[f] # Torn
      BY <2>1, <2>2, NoneTorn
    <2>4. file[FileOf(job[g].key)] \in Contents
      BY <2>1, <2>2 DEF Alone
    <2>5. Sound(g)
      BY <1>0, <1>3, <2>1, <2>2, <2>3, <2>4, HitStep DEF Sound, At, Saved
    <2> QED  BY <2>1, <2>5, HandlerAlone
  <1>4. ASSUME NEW g \in Previews, Wait(g) PROVE Alone'
    BY <1>4 DEF Wait, Alone, Saved, Solo, AtWork, At, FileOf, cacheVars, Files, Contents
  <1>5. ASSUME NEW g \in Previews, NoPreview(g) \/ Respond(g) PROVE Alone'
    <2>1. /\ g \in Handlers /\ OnlyJobOf(g) /\ UNCHANGED <<cacheVars, disturbed>>
          /\ ~At(g, "write") /\ job'[g] = None
      BY <1>0, <1>5, EndStep DEF Handlers, At
    <2>2. Alone /\ \A y \in Handlers : y = g \/ job'[y] = job[y]
      BY <2>1 DEF OnlyJobOf
    <2> QED  BY <2>1, <2>2 DEF Alone, Saved, Solo, AtWork, At, FileOf, cacheVars, Files, Contents
  <1>6. ASSUME NEW g \in Previews, Answered(g) PROVE Alone'
    <2>1. /\ g \in Handlers /\ OnlyJobOf(g) /\ UNCHANGED cacheVars /\ ~At(g, "write")
          /\ job'[g].phase = "open"
      BY <1>0, <1>6, AnsweredStep DEF Handlers, At
    <2>2. Alone /\ Solo(g)
      BY <1>0, <1>6, <2>1, AnsweredStep, StartFacts DEF Solo
    <2>3. Sound(g)
      BY <2>1, <2>2, NoneTorn DEF Sound, At, Saved, cacheVars
    <2> QED  BY <2>1, <2>3, HandlerAlone
  <1>7. ASSUME NEW x \in Pushers, NEW k \in Keys, PushPreview(x, k) PROVE Alone'
    <2>1. /\ x \in Handlers /\ OnlyJobOf(x) /\ UNCHANGED cacheVars /\ ~At(x, "write")
          /\ job'[x].phase = "open"
      BY <1>0, <1>7, PushStep DEF Handlers, At
    <2>2. Alone /\ Solo(x)
      BY <1>0, <1>7, <2>1, PushStep, StartFacts DEF Solo
    <2>3. Sound(x)
      BY <2>1, <2>2, NoneTorn DEF Sound, At, Saved, cacheVars
    <2> QED  BY <2>1, <2>3, HandlerAlone
  <1>8. ASSUME NEW x \in Handlers, OpenFile(x) PROVE Alone'
    <2>1. /\ OnlyJobOf(x) /\ AtWork(x) /\ ~At(x, "write") /\ UNCHANGED disturbed
          /\ FileOf(job[x].key) \in Files
          /\ file' = [file EXCEPT ![FileOf(job[x].key)] = Torn]
          /\ At(x, "write")' /\ ~Saved(x)' /\ ~At(x, "insert")' /\ job'[x].key = job[x].key
      BY <1>0, <1>8, OpenStep, JobFields, FileOfKey DEF At, AtWork, Saved
    <2>2. Alone /\ Solo(x)
      BY <2>1 DEF Alone
    <2>3. \A f \in Files : file[f] # Torn
      BY <2>1, <2>2, NoneTorn
    <2>4. file'[FileOf(job[x].key)] = Torn
          /\ \A f \in Files : f # FileOf(job[x].key) => file'[f] = file[f]
      BY <1>0, <2>1 DEF TypeOK
    <2>5. Sound(x)
      BY <2>1, <2>2, <2>3, <2>4 DEF Sound
    <2> QED  BY <2>5, HandlerAlone
  <1>9. ASSUME NEW x \in Handlers, WriteFile(x) PROVE Alone'
    <2> DEFINE f == FileOf(job[x].key)
               content == [path |-> job[x].key[1], rev |-> job[x].rev,
                           misnamed |-> job[x].misnamed]
    <2>1. /\ OnlyJobOf(x) /\ AtWork(x) /\ At(x, "write") /\ UNCHANGED disturbed
          /\ job[x].key \in Keys /\ f \in Files /\ job[x].rev \in Revs
          /\ job[x].misnamed \in BOOLEAN
          /\ job'[x].key = job[x].key /\ ~At(x, "write")' /\ ~At(x, "insert")'
      BY <1>0, <1>9, WriteStep, JobFields, FileOfKey DEF At, AtWork, Recent, Fresh
    <2>2. Alone /\ Solo(x)
      BY <2>1 DEF Alone
    <2>3. file[f] = Torn /\ content \in Contents
      BY <2>1, <2>2, FileOfKey DEF Alone, Contents
    <2>4. file' = [file EXCEPT ![f] = content]
      BY <1>0, <1>9, <2>3, WriteStep, PreviewAssumption
    <2>5. \A e \in Files : file[e] = Torn => e = f
      <3>1. \A y \in Handlers : At(y, "write") => y = x
        BY <2>2, NotWorking DEF Solo
      <3> QED  BY <2>2, <3>1 DEF Alone
    <2>6. file'[f] = content /\ content # Torn /\ \A e \in Files : e # f => file'[e] = file[e]
      BY <1>0, <2>1, <2>3, <2>4, PreviewAssumption DEF TypeOK
    <2> HIDE DEF content
    <2>7. Sound(x)
      BY <2>1, <2>2, <2>3, <2>5, <2>6 DEF Sound
    <2> QED  BY <2>7, HandlerAlone
  <1>10. ASSUME NEW x \in Handlers, FindRow(x) PROVE Alone'
    <2>1. /\ OnlyJobOf(x) /\ AtWork(x) /\ Saved(x) /\ ~At(x, "write")
          /\ UNCHANGED <<cacheVars, disturbed>>
          /\ job'[x].key = job[x].key /\ ~At(x, "write")'
          /\ At(x, "insert")' => row[job[x].key] = "none"
      BY <1>0, <1>10, FindStep DEF At, AtWork, Saved
    <2>2. Alone /\ Solo(x)
      BY <2>1 DEF Alone
    <2>3. file[FileOf(job[x].key)] \in Contents /\ \A f \in Files : file[f] # Torn
      BY <2>1, <2>2, NoneTorn DEF Alone
    <2>4. Sound(x)
      BY <2>1, <2>2, <2>3 DEF Sound, cacheVars
    <2> QED  BY <2>4, HandlerAlone
  <1>11. ASSUME NEW x \in Handlers, Store(x) PROVE Alone'
    <2>1. /\ OnlyJobOf(x) /\ AtWork(x) /\ Saved(x) /\ ~At(x, "write")
          /\ UNCHANGED <<file, disturbed>>
          /\ Saved(x)' => job'[x].key = job[x].key
          /\ ~At(x, "write")' /\ ~At(x, "insert")'
      BY <1>0, <1>11, StoreStep DEF At, AtWork, Saved
    <2>2. Alone /\ Solo(x)
      BY <2>1 DEF Alone
    <2>3. file[FileOf(job[x].key)] \in Contents /\ \A f \in Files : file[f] # Torn
      BY <2>1, <2>2, NoneTorn DEF Alone
    <2>4. Sound(x)
      BY <2>1, <2>2, <2>3 DEF Sound
    <2> QED  BY <2>4, HandlerAlone
  <1>12. ASSUME NEW x \in Handlers, CommitFails(x) \/ WriteFails(x) PROVE Alone'
    BY <1>0, <1>12, FailStep, WriteFailsStep
  <1>13. CASE Cleanup
    <2>1. UNCHANGED <<disturbed, cacheVars, job>>
      BY <1>0, <1>13 DEF Cleanup
    <2> QED  BY <2>1 DEF Alone, Saved, Solo, AtWork, At, FileOf, cacheVars, Files, Contents
  <1>14. CASE RemoveFile
    <2>1. PICK k \in toRemove :
            file' = [file EXCEPT ![FileOf(k)] = None] /\ UNCHANGED disturbed
      BY <1>0, <1>14 DEF RemoveFile
    <2>2. UNCHANGED <<row, job>> /\ Alone /\ Tidy /\ expired # {}
      BY <1>0, <1>14, <2>1 DEF RemoveFile, TypeOK
    <2>3. \A x \in Handlers : ~AtWork(x)
      BY <2>2 DEF Tidy
    <2>4. \A x \in Handlers : ~At(x, "write") /\ ~Saved(x) /\ ~At(x, "insert")
      BY <2>3, NotWorking
    <2>5. \A f \in Files : file'[f] # Torn
      BY <1>0, <2>1, <2>2, <2>4, PreviewAssumption DEF Alone, TypeOK
    <2> QED  BY <2>2, <2>3, <2>4, <2>5 DEF Alone, Saved, Solo, AtWork, At, Files
  <1>15. CASE CleanupCommit
    <2>1. UNCHANGED <<file, job>> /\ Alone /\ Tidy /\ expired # {}
      BY <1>0, <1>15 DEF CleanupCommit
    <2>2. \A x \in Handlers : ~At(x, "insert")
      BY <2>1, NotWorking DEF Tidy
    <2> QED  BY <2>1, <2>2 DEF Alone, Saved, Solo, AtWork, At, FileOf, Files, Contents
  <1>16. CASE CleanupFails
    BY <1>0, <1>16 DEF CleanupFails, Alone, Saved, Solo, AtWork, At, FileOf, cacheVars, Files, Contents
  <1> QED  BY <1>1, <1>2, <1>3, <1>4, <1>5, <1>6, <1>7, <1>8, <1>9, <1>10, <1>11,
              <1>12, <1>13, <1>14, <1>15, <1>16 DEF Next

\* A step that ends a get_preview while nothing has been disturbed.
LEMMA NextExpected ==
  Typed /\ (disturbed < 2 => Tidy) /\ (disturbed = 0 => Alone) /\ [Next]_vars /\ disturbed' = 0
    => \A g \in Previews : AtWork(g) /\ job'[g] = None =>
         At(g, "respond") /\ file[FileOf(job[g].key)] \notin {None, Torn}
  <1> SUFFICES ASSUME Typed, disturbed < 2 => Tidy, disturbed = 0 => Alone, [Next]_vars,
                      disturbed' = 0,
                      NEW g \in Previews, AtWork(g), job'[g] = None
               PROVE  At(g, "respond") /\ file[FileOf(job[g].key)] \notin {None, Torn}
    OBVIOUS
  <1>0. TypeOK /\ disturbed \in 0 .. 2 /\ Recent /\ g \in Handlers /\ job[g] # None
    BY DEF Typed, TypeOK, Handlers, AtWork
  \* The step is one of g's own.
  <1>1. ASSUME NEW x \in Handlers, OnlyJobOf(x) PROVE x = g
    BY <1>0, <1>1 DEF OnlyJobOf
  <1>2. ~UNCHANGED job
    BY <1>0
  <1>3. ASSUME NEW h \in Previews, NEW k \in Keys, Look(h, k) PROVE FALSE
    BY <1>0, <1>1, <1>3, LookStep DEF Handlers
  <1>4. ASSUME NEW h \in Previews, Hit(h) PROVE FALSE
    <2>1. h = g /\ At(g, "hit") /\ row[job[g].key] = "none" /\ UNCHANGED disturbed
      BY <1>0, <1>1, <1>4, HitStep DEF Handlers
    <2> QED  BY <1>0, <2>1 DEF Tidy
  <1>5. ASSUME NEW h \in Previews, Answered(h) PROVE FALSE
    BY <1>0, <1>1, <1>5, AnsweredStep DEF Handlers
  <1>6. ASSUME NEW x \in Pushers, NEW k \in Keys, PushPreview(x, k) PROVE FALSE
    BY <1>0, <1>1, <1>6, PushStep DEF Handlers
  <1>7. ASSUME NEW x \in Handlers, OpenFile(x) \/ WriteFile(x) \/ FindRow(x) PROVE FALSE
    BY <1>0, <1>1, <1>7, OpenStep, WriteStep, FindStep
  <1>8. ASSUME NEW x \in Handlers, Store(x) PROVE FALSE
    <2>1. /\ x = g /\ UNCHANGED disturbed
          /\ At(g, "insert") \/ At(g, "update")
          /\ ~(At(g, "update") <=> row[job[g].key] # "none")
      BY <1>0, <1>1, <1>8, StoreStep
    <2>2. Tidy /\ Alone
      BY <2>1
    <2>3. CASE At(g, "update")
      BY <1>0, <2>1, <2>2, <2>3 DEF Tidy
    <2>4. CASE At(g, "insert")
      BY <1>0, <2>1, <2>2, <2>4 DEF Alone, At
    <2> QED  BY <2>1, <2>3, <2>4
  <1>9. ASSUME NEW x \in Handlers, CommitFails(x) \/ WriteFails(x) PROVE FALSE
    BY <1>0, <1>9, FailStep, WriteFailsStep
  <1>10. ASSUME NEW h \in Previews, NoPreview(h) \/ Respond(h)
         PROVE  At(g, "respond") /\ file[FileOf(job[g].key)] \notin {None, Torn}
    <2>1. h = g /\ At(g, "respond") /\ UNCHANGED disturbed
      BY <1>0, <1>1, <1>10, EndStep DEF Handlers, AtWork, At
    <2>2. file[FileOf(job[g].key)] \in Contents
      BY <1>0, <2>1 DEF Alone, Saved
    <2> QED  BY <2>1, <2>2, PreviewAssumption
  <1>11. CASE \/ OwnerCommits \/ UNCHANGED vars \/ Cleanup \/ RemoveFile \/ CleanupCommit
              \/ CleanupFails \/ \E h \in Previews : Wait(h)
    BY <1>2, <1>11 DEF OwnerCommits, vars, Cleanup, RemoveFile, CleanupCommit, CleanupFails,
                       Wait
  <1> QED  BY <1>3, <1>4, <1>5, <1>6, <1>7, <1>8, <1>9, <1>10, <1>11 DEF Next

\* Before the first overlap, and as long as no commit, no writing and no removal fails, each
\* get_preview that is at work ends with a whole file (api/proxy.py:66 and 95).
THEOREM NoSurprises == Spec => NoSurprise
  <1>1. Init => Tidy /\ Alone
    BY PreviewAssumption DEF Init, Tidy, Alone, Saved, At, AtWork
  <1>2. Typed /\ (disturbed < 2 => Tidy) /\ (disturbed = 0 => Alone) /\ [Next]_vars =>
          [disturbed' = 0 =>
             \A g \in Previews : AtWork(g) /\ job'[g] = None =>
               At(g, "respond") /\ file[FileOf(job[g].key)] \notin {None, Torn}]_vars
    BY NextExpected
  <1> QED  BY <1>1, <1>2, InitTyped, NextTyped, NextTidy, NextAlone, PTL DEF Spec, NoSurprise

=============================================================================
