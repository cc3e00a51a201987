------------------------ MODULE TaskLifecycleProofs ------------------------
(***************************************************************************)
(* Proofs about TaskLifecycle, for any task ids, queue commands, batches   *)
(* and bounds: one open entry per task, runs that own their task, bounded  *)
(* attempts, closing on an approval - with one command at a time, of the   *)
(* very commit -, an acyclic graph of open tasks, and closed entries that  *)
(* stay closed.                                                            *)
(***************************************************************************)
EXTENDS TaskLifecycle, FiniteOrders, FiniteSetTheorems, TLAPS

-----------------------------------------------------------------------------
(* The choices of the helpers exist.                                         *)

LEMMA LatestIs ==
  ASSUME NEW id, queue \in Seq(Entry), Known(id)
  PROVE  /\ LatestIndex(id) \in EntriesOf(id)
         /\ \A j \in EntriesOf(id) : j <= LatestIndex(id)
<1> DEFINE R == {p \in (1..Len(queue)) \X (1..Len(queue)) : p[2] <= p[1]}
<1>1. EntriesOf(id) \subseteq 1..Len(queue) /\ Len(queue) \in Nat
  BY DEF EntriesOf
<1>2. IsFiniteSet(EntriesOf(id))
  <2>1. IsFiniteSet(1..Len(queue))
    BY <1>1, FS_Interval
  <2>2. QED
    BY <1>1, <2>1, FS_Subset
<1>3. EntriesOf(id) # {}
  BY DEF Known
<1>4. \A a, b \in EntriesOf(id) : <<a, b>> \in R \/ <<b, a>> \in R
  BY <1>1
<1>5. \A a, b, c \in EntriesOf(id) : <<a, b>> \in R /\ <<b, c>> \in R => <<a, c>> \in R
  BY <1>1
<1> HIDE DEF R
<1>6. \E i \in EntriesOf(id) : \A j \in EntriesOf(id) : <<i, j>> \in R
  BY <1>2, <1>3, <1>4, <1>5, FiniteFirst
<1>7. \E i \in EntriesOf(id) : \A j \in EntriesOf(id) : j <= i
  BY <1>1, <1>6 DEF R
<1>8. QED
  BY <1>7 DEF LatestIndex

(* schedule() selects a task that is ready.                                 *)
LEMMA SelectedIsReady ==
  ASSUME queue \in Seq(Entry), Ready # {}
  PROVE  Selected \in Ready
<1> DEFINE R == {p \in (1..Len(queue)) \X (1..Len(queue)) : Before(p[1], p[2])}
<1>1. Ready \subseteq 1..Len(queue) /\ Len(queue) \in Nat
  BY DEF Ready
<1>2. \A i \in 1..Len(queue) : queue[i].pri \in Nat
  <2> SUFFICES ASSUME NEW i \in 1..Len(queue) PROVE queue[i].pri \in Nat
    OBVIOUS
  <2>1. queue[i] \in Entry
    OBVIOUS
  <2>2. QED
    BY <2>1 DEF Entry
<1>3. IsFiniteSet(Ready)
  <2>1. IsFiniteSet(1..Len(queue))
    BY <1>1, FS_Interval
  <2>2. QED
    BY <1>1, <2>1, FS_Subset
<1>4. \A a, b \in Ready : <<a, b>> \in R \/ <<b, a>> \in R
  BY <1>1, <1>2 DEF Before
<1>5. \A a, b, c \in Ready : <<a, b>> \in R /\ <<b, c>> \in R => <<a, c>> \in R
  BY <1>1, <1>2 DEF Before
<1> HIDE DEF R
<1>6. \E i \in Ready : \A j \in Ready : <<i, j>> \in R
  BY <1>3, <1>4, <1>5, FiniteFirst
<1>7. \E i \in Ready : \A j \in Ready : Before(i, j)
  BY <1>1, <1>6 DEF R
<1>8. QED
  BY <1>7 DEF Selected

-----------------------------------------------------------------------------
(* What _update_task and enqueue_many do to the queue file, as facts about  *)
(* the helpers that read it.                                                *)

\* The latest entry of a task changes, but not what was enqueued.
Changes(id, e) ==
  /\ Known(id)
  /\ e \in Entry
  /\ e.id = id /\ e.deps = Latest(id).deps
  /\ SetLatest(id, e)

LEMMA LatestEntry ==
  ASSUME NEW id, queue \in Seq(Entry), Known(id)
  PROVE  /\ LatestIndex(id) \in DOMAIN queue
         /\ Latest(id) \in Entry
         /\ Latest(id).id = id
<1>1. LatestIndex(id) \in EntriesOf(id)
  BY LatestIs
<1>2. QED
  BY <1>1 DEF EntriesOf, Latest

LEMMA Changed ==
  ASSUME queue \in Seq(Entry), NEW id \in Ids, NEW e, Changes(id, e)
  PROVE  /\ queue' \in Seq(Entry)
         /\ DOMAIN queue' = DOMAIN queue
         /\ Len(queue') = Len(queue)
         /\ queue'[LatestIndex(id)] = e
         /\ \A i \in DOMAIN queue \ {LatestIndex(id)} : queue'[i] = queue[i]
         /\ \A x : /\ EntriesOf(x)' = EntriesOf(x)
                   /\ Known(x)' = Known(x)
                   /\ LatestIndex(x)' = LatestIndex(x)
         /\ Latest(id)' = e
         /\ Status(id)' = e.status
         /\ \A x : x # id => Status(x)' = Status(x)
         /\ \A x : x # id /\ Known(x) => Latest(x)' = Latest(x)
<1> DEFINE l == LatestIndex(id)
<1>1. /\ l \in DOMAIN queue /\ queue[l].id = id
      /\ queue' = [queue EXCEPT ![l] = e]
      /\ e \in Entry /\ e.id = id /\ Known(id)
  BY LatestEntry DEF Changes, SetLatest, Latest
<1> HIDE DEF l
<1>2. /\ queue' \in Seq(Entry)
      /\ DOMAIN queue' = DOMAIN queue
      /\ Len(queue') = Len(queue)
      /\ queue'[l] = e
      /\ \A i \in DOMAIN queue \ {l} : queue'[i] = queue[i]
  BY <1>1
<1>3. \A i \in DOMAIN queue : queue'[i].id = queue[i].id
  BY <1>1, <1>2
<1>4. \A x : EntriesOf(x)' = EntriesOf(x)
  BY <1>2, <1>3 DEF EntriesOf
<1>5. \A x : Known(x)' = Known(x)
  BY <1>4 DEF Known
<1>6. \A x : LatestIndex(x)' = LatestIndex(x)
  BY <1>4 DEF LatestIndex
<1>7. Latest(id)' = e
  BY <1>2, <1>6 DEF Latest, l
<1>8. \A x : x # id /\ Known(x) => Latest(x)' = Latest(x)
  <2> SUFFICES ASSUME NEW x, x # id, Known(x) PROVE Latest(x)' = Latest(x)
    OBVIOUS
  <2>1. LatestIndex(x) \in DOMAIN queue /\ queue[LatestIndex(x)].id = x
    BY LatestEntry DEF Latest
  <2>2. LatestIndex(x) # l
    BY <1>1, <2>1
  <2>3. QED
    BY <1>2, <1>6, <2>1, <2>2 DEF Latest
<1>9. Status(id)' = e.status
  BY <1>1, <1>5, <1>7 DEF Status
<1>10. \A x : x # id => Status(x)' = Status(x)
  BY <1>5, <1>8 DEF Status
<1>11. QED
  BY <1>2, <1>4, <1>5, <1>6, <1>7, <1>8, <1>9, <1>10 DEF l

LEMMA Enqueued ==
  ASSUME queue \in Seq(Entry), NEW batch \in Batches, Enqueue(batch)
  PROVE  /\ queue' \in Seq(Entry)
         /\ \A k \in DOMAIN batch : batch[k].id \in Ids
         /\ \A i \in DOMAIN queue : i \in DOMAIN queue' /\ queue'[i] = queue[i]
         /\ \A i \in DOMAIN queue' \ DOMAIN queue :
              \E k \in DOMAIN batch : /\ i = LatestIndex(batch[k].id)'
                                      /\ queue'[i] = NewEntry(batch[k])
         /\ \A x : (\A k \in DOMAIN batch : batch[k].id # x) =>
              /\ EntriesOf(x)' = EntriesOf(x)
              /\ Known(x)' = Known(x)
              /\ LatestIndex(x)' = LatestIndex(x)
              /\ Status(x)' = Status(x)
              /\ Known(x) => Latest(x)' = Latest(x)
         /\ \A k \in DOMAIN batch :
              /\ Known(batch[k].id)'
              /\ Latest(batch[k].id)' = NewEntry(batch[k])
              /\ Status(batch[k].id)' = "queued"
<1> DEFINE n == Len(queue)
           b == Len(batch)
           new == [k \in DOMAIN batch |-> NewEntry(batch[k])]
<1>0. batch \in Seq([id : Ids, deps : SUBSET Ids, pri : Nat])
  BY TaskConstants DEF ConstantsOK
<1>1. /\ queue' = queue \o new
      /\ n \in Nat /\ DOMAIN queue = 1..n
      /\ \A k, m \in DOMAIN batch : batch[k].id = batch[m].id => k = m
  BY DEF Enqueue
<1>2. /\ b \in Nat /\ DOMAIN batch = 1..b
      /\ \A k \in 1..b : batch[k] \in [id : Ids, deps : SUBSET Ids, pri : Nat]
  <2> DEFINE Items == [id : Ids, deps : SUBSET Ids, pri : Nat]
  <2> HIDE DEF Items
  <2>1. batch \in Seq(Items)
    BY <1>0 DEF Items
  <2>2. b \in Nat /\ DOMAIN batch = 1..b /\ \A k \in 1..b : batch[k] \in Items
    BY <2>1
  <2>3. QED
    BY <2>2 DEF Items
<1>3. \A k \in 1..b : NewEntry(batch[k]) \in Entry /\ NewEntry(batch[k]).id = batch[k].id
  BY <1>2 DEF NewEntry, Entry, Statuses, Active
<1>4. new \in Seq(Entry) /\ Len(new) = b
  BY <1>2, <1>3
<1> HIDE DEF n, b, new
<1>5. /\ queue' \in Seq(Entry)
      /\ DOMAIN queue' = 1..(n + b) /\ Len(queue') = n + b
      /\ \A i \in 1..n : queue'[i] = queue[i]
      /\ \A k \in 1..b : queue'[n + k] = NewEntry(batch[k])
  BY <1>1, <1>2, <1>4 DEF n, b, new
<1>6. \A i \in 1..(n + b) : i \in 1..n \/ \E k \in 1..b : i = n + k
  <2> SUFFICES ASSUME NEW i \in 1..(n + b), i > n
               PROVE  i - n \in 1..b /\ i = n + (i - n)
    BY <1>1, <1>2
  <2>1. QED
    BY <1>1, <1>2
<1>7. \A k \in 1..b : LatestIndex(batch[k].id)' = n + k
  <2> SUFFICES ASSUME NEW k \in 1..b PROVE LatestIndex(batch[k].id)' = n + k
    OBVIOUS
  <2>1. n + k \in EntriesOf(batch[k].id)'
    <3>1. n + k \in 1..(n + b)
      BY <1>1, <1>2
    <3>2. queue'[n + k].id = batch[k].id
      BY <1>3, <1>5
    <3>3. QED
      BY <1>5, <3>1, <3>2 DEF EntriesOf
  <2>2. \A j \in EntriesOf(batch[k].id)' : j <= n + k
    <3> SUFFICES ASSUME NEW j \in 1..(n + b), queue'[j].id = batch[k].id
                 PROVE  j <= n + k
      BY <1>5 DEF EntriesOf
    <3>1. CASE j \in 1..n
      BY <1>1, <1>2, <3>1
    <3>2. CASE \E m \in 1..b : j = n + m
      <4>1. PICK m \in 1..b : j = n + m
        BY <3>2
      <4>2. batch[m].id = batch[k].id
        BY <1>3, <1>5, <4>1
      <4>3. m = k
        BY <1>1, <1>2, <4>2
      <4>4. j = n + k /\ n + k \in Int
        BY <1>1, <1>2, <4>1, <4>3
      <4>5. QED
        BY <4>4
    <3>3. QED
      BY <1>6, <3>1, <3>2
  <2>3. \A i, j \in EntriesOf(batch[k].id)' : i \in Nat /\ j \in Nat
    BY <1>1, <1>2, <1>5 DEF EntriesOf
  <2>4. QED
    BY <2>1, <2>2, <2>3 DEF LatestIndex
<1>8. ASSUME NEW k \in 1..b
      PROVE  /\ Known(batch[k].id)'
             /\ Latest(batch[k].id)' = NewEntry(batch[k])
             /\ Status(batch[k].id)' = "queued"
  <2>1. n + k \in EntriesOf(batch[k].id)'
    <3>1. n + k \in 1..(n + b)
      BY <1>1, <1>2
    <3>2. queue'[n + k].id = batch[k].id
      BY <1>3, <1>5
    <3>3. QED
      BY <1>5, <3>1, <3>2 DEF EntriesOf
  <2>2. Known(batch[k].id)'
    BY <2>1 DEF Known
  <2>3. Latest(batch[k].id)' = NewEntry(batch[k])
    BY <1>5, <1>7 DEF Latest
  <2>4. QED
    BY <2>2, <2>3 DEF Status, NewEntry
<1>9. ASSUME NEW x, \A k \in DOMAIN batch : batch[k].id # x
      PROVE  /\ EntriesOf(x)' = EntriesOf(x)
             /\ Known(x)' = Known(x)
             /\ LatestIndex(x)' = LatestIndex(x)
             /\ Status(x)' = Status(x)
             /\ Known(x) => Latest(x)' = Latest(x)
  <2>1. \A i \in 1..(n + b) : queue'[i].id = x => i \in 1..n
    BY <1>2, <1>3, <1>5, <1>6, <1>9
  <2>a. 1..n \subseteq 1..(n + b)
    BY <1>1, <1>2
  <2>b. EntriesOf(x)' = EntriesOf(x)
    BY <1>1, <1>5, <2>1, <2>a DEF EntriesOf
  <2>2. Known(x)' = Known(x) /\ LatestIndex(x)' = LatestIndex(x)
    BY <2>b DEF Known, LatestIndex
  <2>3. Known(x) => Latest(x)' = Latest(x)
    BY <1>1, <1>5, <2>2, LatestEntry DEF Latest
  <2>4. QED
    BY <2>b, <2>2, <2>3 DEF Status
<1>10. \A k \in DOMAIN batch : batch[k].id \in Ids
  BY <1>2
<1>11. \A i \in DOMAIN queue : i \in DOMAIN queue' /\ queue'[i] = queue[i]
  BY <1>1, <1>2, <1>5
<1>12. \A i \in DOMAIN queue' \ DOMAIN queue :
         \E k \in DOMAIN batch : /\ i = LatestIndex(batch[k].id)'
                                 /\ queue'[i] = NewEntry(batch[k])
  <2> SUFFICES ASSUME NEW i \in 1..(n + b), i \notin 1..n
               PROVE  \E k \in 1..b : /\ i = LatestIndex(batch[k].id)'
                                      /\ queue'[i] = NewEntry(batch[k])
    BY <1>1, <1>2, <1>5
  <2>1. PICK k \in 1..b : i = n + k
    BY <1>6
  <2>2. QED
    BY <1>5, <1>7, <2>1
<1>13. QED
  BY <1>2, <1>5, <1>8, <1>9, <1>10, <1>11, <1>12

-----------------------------------------------------------------------------
(* What the invariant says of a task and of a command.                      *)

IInv == TypeOK /\ QueueInvariant

LEMMA KnownStatus ==
  ASSUME NEW id, Status(id) # "missing"
  PROVE  Known(id) /\ Status(id) = Latest(id).status
BY DEF Status

LEMMA AttemptsOfLatest ==
  ASSUME IInv, NEW id, Known(id)
  PROVE  /\ Latest(id) \in Entry /\ Latest(id).id = id
         /\ Required => Latest(id).attempts <= MaxAttempts
<1>1. LatestIndex(id) \in DOMAIN queue /\ Latest(id) \in Entry /\ Latest(id).id = id
  BY LatestEntry DEF IInv, TypeOK
<1>2. QED
  BY <1>1 DEF IInv, QueueInvariant, AttemptsBounded, Latest

(* A command that works on a task, or sets its review up, knows it.         *)
LEMMA TaskOfCommand ==
  ASSUME IInv, NEW w \in Workers,
         Working(w) \/ proc[w].at \in {"close"} \cup Setup
  PROVE  /\ proc[w].id \in Ids /\ Known(proc[w].id)
         /\ proc[w].run \in Run /\ proc[w].run \in 1..runs /\ proc[w].run # None
         /\ Latest(proc[w].id) \in Entry /\ Latest(proc[w].id).id = proc[w].id
         /\ Status(proc[w].id) = Latest(proc[w].id).status
<1>1. proc[w].id \in Ids /\ Known(proc[w].id) /\ proc[w].run \in 1..runs
  BY DEF IInv, QueueInvariant, ProcessAt
<1>2. proc[w].run \in Run /\ proc[w].run # None
  <2>1. runs \in 0..MaxRuns /\ MaxRuns \in Nat /\ None \notin Nat
    BY TaskConstants DEF IInv, TypeOK, ConstantsOK
  <2>2. QED
    BY <1>1, <2>1 DEF Run
<1>3. Latest(proc[w].id) \in Entry /\ Latest(proc[w].id).id = proc[w].id
  BY <1>1, AttemptsOfLatest
<1>4. QED
  BY <1>1, <1>2, <1>3 DEF Status

LEMMA NoneIsNoRun ==
  None \notin Run
<1>1. Run \subseteq Nat
  BY TaskConstants DEF Run, ConstantsOK
<1>2. QED
  BY <1>1, TaskConstants DEF ConstantsOK

-----------------------------------------------------------------------------
(* What a step does to the commands.                                        *)

LEMMA LastCommittedIs ==
  ASSUME IInv, NEW id, NEW n \in Nat, n <= Len(history),
         CommittedRuns(id, n) # {}
  PROVE  LastCommitted(id, n) \in Run /\ Recorded(LastCommitted(id, n), id)
<1> DEFINE R == {p \in (1..n) \X (1..n) : p[2] <= p[1]}
<1>0. history \in Seq(RunRecord)
  BY DEF IInv, TypeOK
<1>1. CommittedRuns(id, n) \subseteq 1..n
  BY DEF CommittedRuns
<1>2. IsFiniteSet(CommittedRuns(id, n))
  <2>1. IsFiniteSet(1..n)
    BY FS_Interval
  <2>2. QED
    BY <1>1, <2>1, FS_Subset
<1>3. \A a, b \in CommittedRuns(id, n) : <<a, b>> \in R \/ <<b, a>> \in R
  BY <1>1
<1>4. \A a, b, c \in CommittedRuns(id, n) :
        <<a, b>> \in R /\ <<b, c>> \in R => <<a, c>> \in R
  BY <1>1
<1> HIDE DEF R
<1>5. \E i \in CommittedRuns(id, n) : \A j \in CommittedRuns(id, n) : <<i, j>> \in R
  BY <1>2, <1>3, <1>4, FiniteFirst
<1>6. \E i \in CommittedRuns(id, n) : \A j \in CommittedRuns(id, n) : j <= i
  BY <1>1, <1>5 DEF R
<1>7. \E i \in CommittedRuns(id, n) : LastCommitted(id, n) = history[i].run
  BY <1>6 DEF LastCommitted
<1>8. PICK i \in CommittedRuns(id, n) : LastCommitted(id, n) = history[i].run
  BY <1>7
<1>9. i \in DOMAIN history /\ history[i].id = id /\ history[i].result = "commit"
  BY <1>0, <1>8 DEF CommittedRuns
<1>10. history[i] \in RunRecord /\ history[i].run # None
  BY <1>0, <1>9 DEF IInv, QueueInvariant, RunsKnown
<1>11. QED
  BY <1>8, <1>9, <1>10 DEF RunRecord, Recorded

\* The step of a command changes the command, and as a record it is typed.
Alters(w) ==
  /\ proc' \in [Workers -> Proc]
  /\ \A v \in Workers \ {w} : proc'[v] = proc[v]

(* The record of a command keeps its type, and no other command's changes.  *)
LEMMA CommandTypes ==
  ASSUME IInv, NEW w \in Workers, Step(w)
  PROVE  /\ Alters(w)
         /\ runs' \in 0..MaxRuns /\ runs <= runs'
         /\ rolling' = rolling
<1>0. /\ proc \in [Workers -> Proc] /\ proc[w] \in Proc /\ runs \in 0..MaxRuns
      /\ MaxRuns \in Nat
  BY TaskConstants DEF IInv, TypeOK, ConstantsOK
<1>i. Idle \in Proc
  BY DEF Idle, Proc, Places
<1>1. ASSUME NEW p \in Proc, proc' = [proc EXCEPT ![w] = p] PROVE Alters(w)
  BY <1>0, <1>1 DEF Alters
<1>2. ASSUME Finish(w) PROVE Alters(w)
  BY <1>i, <1>1, <1>2 DEF Finish
<1>3. ASSUME NEW place \in Places, Goto(w, place) PROVE Alters(w)
  BY <1>0, <1>3 DEF Goto, Alters, Proc
<1>4. ASSUME UNCHANGED proc PROVE Alters(w)
  BY <1>0, <1>4 DEF Alters
<1>5. UNCHANGED rolling
  BY DEF Step, Begin, ListUnbundled, RepairExport, RepairAttach, Claim, NothingToClaim,
         WorkCommits, WorkReturns, WorkContended, WorkRaises, RecordFailure, RecordResult,
         CloseOperation, Export, Attach, AskCritic,
         CriticAnswers, CriticFails, AfterException, FailReviewSetup, Crash
<1>6. CASE Claim(w)
  <2>1. runs' \in 0..MaxRuns /\ runs <= runs'
    BY <1>0, <1>6 DEF Claim
  <2>2. CASE Finish(w)
    BY <1>2, <1>5, <2>1, <2>2
  <2>3. CASE /\ runs < MaxRuns
             /\ proc' = [proc EXCEPT ![w].at = "work", ![w].id = queue[Selected].id,
                                     ![w].run = runs + 1]
    <3>1. queue[Selected].id \in Ids
      <4>1. queue[Selected] \in Entry
        BY <1>6, SelectedIsReady DEF Claim, Ready, IInv, TypeOK
      <4>2. QED
        BY <4>1 DEF Entry
    <3>2. runs + 1 \in Run
      BY <1>0, <2>3 DEF Run
    <3> HIDE DEF Selected
    <3>3. Alters(w)
      BY <1>0, <2>3, <3>1, <3>2 DEF Alters, Proc, Places
    <3>4. QED
      BY <1>5, <2>1, <3>3
  <2>4. QED
    BY <1>6, <2>2, <2>3 DEF Claim
<1>7. CASE ~Claim(w)
  <2>0. UNCHANGED runs
    BY <1>7 DEF Step, Begin, ListUnbundled, RepairExport, RepairAttach, NothingToClaim,
           WorkCommits, WorkReturns, WorkContended, WorkRaises, RecordFailure, RecordResult,
           CloseOperation, Export, Attach, AskCritic,
           CriticAnswers, CriticFails, AfterException, FailReviewSetup, Crash
  <2>1. ASSUME \/ NothingToClaim(w) \/ WorkContended(w) \/ RecordFailure(w) \/ RecordResult(w)
               \/ CloseOperation(w) \/ Export(w) \/ Attach(w) \/ AskCritic(w)
             \/ (\E verdict \in Verdicts : CriticAnswers(w, verdict))
             \/ CriticFails(w) \/ AfterException(w) \/ FailReviewSetup(w) \/ Crash(w)
        PROVE  Alters(w)
    <3>1. \/ Finish(w) \/ Goto(w, "close") \/ Goto(w, "export") \/ Goto(w, "attach")
          \/ Goto(w, "failing") \/ Goto(w, "critic") \/ Goto(w, "judging") \/ Goto(w, "failSetup")
      BY <2>1 DEF NothingToClaim, WorkContended, RecordFailure, RecordResult, CloseOperation,
           Export, Attach, AskCritic, CriticAnswers, CriticFails, AfterException,
           FailReviewSetup, Crash
    <3>2. QED
      BY <1>2, <1>3, <3>1 DEF Places
  <2>2. ASSUME Begin(w) PROVE Alters(w)
    <3>1. Len(history) \in Nat
      BY DEF IInv, TypeOK
    <3>2. QED
      BY <1>0, <2>2, <3>1 DEF Begin, Alters, Proc, Places
  <2>3. ASSUME ListUnbundled(w) PROVE Alters(w)
    <3>1. CASE Finish(w)
      BY <1>2, <3>1
    <3>2. CASE ~Finish(w)
      <4> DEFINE listed == {<<id, LastCommitted(id, proc[w].seen)>> : id \in Unbundled}
      <4>1. \A id \in Unbundled : CommittedRuns(id, proc[w].seen) # {}
        BY <2>3, <3>2 DEF ListUnbundled
      <4>2. proc' = [proc EXCEPT ![w].at = IF Unbundled = {} THEN "claim" ELSE "repair",
                                 ![w].seen = 0, ![w].todo = listed]
        BY <2>3, <3>2 DEF ListUnbundled
      <4>3. proc[w].seen \in Nat /\ proc[w].seen <= Len(history)
        BY <1>0, <2>3 DEF ListUnbundled, IInv, QueueInvariant, ProcessAt, Proc
      <4>4. Unbundled \subseteq Ids
        <5> SUFFICES ASSUME NEW i \in DOMAIN queue PROVE queue[i].id \in Ids
          BY DEF Unbundled
        <5>1. queue[i] \in Entry
          BY DEF IInv, TypeOK
        <5>2. QED
          BY <5>1 DEF Entry
      <4>5. listed \subseteq Ids \X Run
        BY <4>1, <4>3, <4>4, LastCommittedIs
      <4> HIDE DEF listed
      <4>6. QED
        BY <1>0, <4>2, <4>5 DEF Alters, Proc, Places
    <3>3. QED
      BY <3>1, <3>2
  <2>4. ASSUME RepairExport(w) \/ WorkCommits(w) PROVE Alters(w)
    BY <1>4, <2>4 DEF RepairExport, WorkCommits
  <2>5. ASSUME RepairAttach(w) PROVE Alters(w)
    <3>1. PICK pair \in proc[w].todo :
            \/ Finish(w)
            \/ proc' = [proc EXCEPT ![w].todo = @ \ {pair},
                                    ![w].at = IF proc[w].todo = {pair} THEN "claim" ELSE @]
      BY <2>5 DEF RepairAttach
    <3>2. CASE Finish(w)
      BY <1>2, <3>2
    <3>3. CASE proc' = [proc EXCEPT ![w].todo = @ \ {pair},
                                    ![w].at = IF proc[w].todo = {pair} THEN "claim" ELSE @]
      BY <1>0, <3>3 DEF Alters, Proc, Places
    <3>4. QED
      BY <3>1, <3>2, <3>3
  <2>6. ASSUME WorkReturns(w) PROVE Alters(w)
    <3>1. PICK result \in Results :
            proc' = [proc EXCEPT ![w].at = "record", ![w].result = result]
      BY <2>6 DEF WorkReturns, Results
    <3>2. QED
      BY <1>0, <3>1 DEF Alters, Proc, Places
  <2>7. ASSUME WorkRaises(w) PROVE Alters(w)
    <3>1. open \subseteq Ids \X Run
      BY DEF IInv, TypeOK
    <3>2. QED
      BY <1>0, <2>7, <3>1 DEF WorkRaises, Alters, Proc, Places
  <2>8. Alters(w)
    BY <1>7, <2>1, <2>2, <2>3, <2>4, <2>5, <2>6, <2>7 DEF Step
  <2>9. QED
    BY <1>0, <1>5, <2>0, <2>8
<1>8. QED
  BY <1>6, <1>7

(* The steps that are not a command's leave the commands and the run ids    *)
(* alone.                                                                   *)
LEMMA OperatorKeeps ==
  ASSUME Operator \/ UNCHANGED vars
  PROVE  UNCHANGED <<proc, runs>>
BY DEF Operator, vars, Enqueue, Retry, Recover, ConfirmRework, ResolveEscalation, OperatorMoves,
       RollbackBegins, RollbackCompletes, RollbackReverted, ImportDecision, ImportInterrupted,
       CompleteState, FinishLedger

LEMMA AloneKept ==
  ASSUME [Next]_vars
  PROVE  UNCHANGED <<alone, orderly>>
BY DEF Next, vars

(* In short, for any step.                                                  *)
LEMMA CommandsStep ==
  ASSUME IInv, [Next]_vars
  PROVE  /\ proc' \in [Workers -> Proc]
         /\ runs \in Nat /\ runs' \in 0..MaxRuns /\ runs <= runs'
<1>0. proc \in [Workers -> Proc] /\ runs \in 0..MaxRuns /\ MaxRuns \in Nat
  BY TaskConstants DEF IInv, TypeOK, ConstantsOK
<1>1. ASSUME NEW w \in Workers, Step(w)
      PROVE  proc' \in [Workers -> Proc] /\ runs' \in 0..MaxRuns /\ runs <= runs'
  BY <1>1, CommandTypes DEF Alters
<1>2. CASE Operator \/ UNCHANGED vars
  BY <1>0, <1>2, OperatorKeeps
<1>3. QED
  BY <1>0, <1>1, <1>2 DEF Next

-----------------------------------------------------------------------------
(* What a step does to the history: it adds at most one record, of a run    *)
(* that has none, or without a run id.                                      *)

\* The run of a record is new to the history, and whoever still works on it
\* or has it open has it committed, for the task of the record.
OfNewRun(rec) ==
  /\ rec.run \in 1..runs /\ Fresh(rec.run)
  /\ \A v \in Workers : Working(v)' /\ proc'[v].run = rec.run =>
       rec.result = "commit" /\ proc'[v].id = rec.id /\ <<rec.id, rec.run>> \in open
  /\ \A pair \in open : pair[2] = rec.run => rec.result = "commit" /\ pair[1] = rec.id

Records(rec) ==
  /\ rec \in RunRecord /\ Known(rec.id)
  /\ history' = Append(history, rec)
  /\ rec.result = "commit" => rec.run # None
  /\ rec.run # None => OfNewRun(rec)

Grows == history' = history \/ \E rec : Records(rec)

LEMMA RecordFailureRecords ==
  ASSUME IInv, NEW w \in Workers, RecordFailure(w)
  PROVE  Grows
<1> DEFINE rec == [run |-> None, id |-> proc[w].id, result |-> "fail"]
<1>1. Working(w) /\ history' = Append(history, rec)
  BY DEF RecordFailure, Working
<1>2. proc[w].id \in Ids /\ Known(proc[w].id)
  BY <1>1, TaskOfCommand
<1>3. rec \in RunRecord /\ rec.run = None /\ rec.id = proc[w].id /\ rec.result = "fail"
  BY <1>2 DEF RunRecord, Results
<1> HIDE DEF rec
<1>4. Records(rec)
  BY <1>1, <1>2, <1>3 DEF Records
<1>5. QED
  BY <1>4 DEF Grows

LEMMA RecordResultRecords ==
  ASSUME IInv, NEW w \in Workers, RecordResult(w), Alters(w)
  PROVE  Grows
<1> DEFINE rec == [run |-> proc[w].run, id |-> proc[w].id, result |-> proc[w].result]
<1>1. /\ proc[w].at = "record" /\ Working(w)
      /\ history' = history \/ (Fresh(proc[w].run) /\ history' = Append(history, rec))
      /\ proc' = [proc EXCEPT ![w] = Idle] \/ proc' = [proc EXCEPT ![w].at = "close"]
  BY DEF RecordResult, Working, Takes, Finish, Goto
<1>2. /\ proc[w].id \in Ids /\ Known(proc[w].id)
      /\ proc[w].run \in Run /\ proc[w].run \in 1..runs /\ proc[w].run # None
  BY <1>1, TaskOfCommand
<1>3. proc[w].result \in Results /\ (proc[w].result = "commit" <=> HasCommitted(w))
  BY <1>1 DEF IInv, QueueInvariant, ProcessAt
<1>4. /\ rec \in RunRecord /\ rec.run = proc[w].run /\ rec.id = proc[w].id
      /\ rec.result = proc[w].result
  BY <1>2, <1>3 DEF RunRecord
<1>5. ~Working(w)'
  BY <1>1 DEF Working, Idle, IInv, TypeOK, Proc
<1>6. ASSUME NEW v \in Workers, Working(v)' PROVE proc'[v].run # proc[w].run
  <2>1. v # w
    BY <1>5, <1>6
  <2>2. proc'[v] = proc[v]
    BY <2>1 DEF Alters
  <2>3. Working(v)
    BY <1>6, <2>2 DEF Working
  <2>4. QED
    BY <1>1, <2>1, <2>2, <2>3 DEF IInv, QueueInvariant, RunsKnown
<1>7. ASSUME NEW pair \in open, pair[2] = proc[w].run
      PROVE  proc[w].result = "commit" /\ pair[1] = proc[w].id
  <2>1. Pair(w) = pair
    BY <1>1, <1>7 DEF IInv, QueueInvariant, OpenRuns
  <2>2. HasCommitted(w)
    BY <2>1 DEF HasCommitted
  <2>3. QED
    BY <1>3, <2>1, <2>2 DEF Pair
<1> HIDE DEF rec
<1>8. CASE Fresh(proc[w].run) /\ history' = Append(history, rec)
  <2>1. OfNewRun(rec)
    BY <1>2, <1>4, <1>6, <1>7, <1>8 DEF OfNewRun
  <2>2. Records(rec)
    BY <1>2, <1>4, <1>8, <2>1 DEF Records
  <2>3. QED
    BY <2>2 DEF Grows
<1>9. QED
  BY <1>1, <1>8 DEF Grows

LEMMA CompleteStateRecords ==
  ASSUME IInv, NEW pair \in open, CompleteState(pair)
  PROVE  Grows
<1> DEFINE rec == [run |-> pair[2], id |-> pair[1], result |-> "commit"]
<1>1. /\ Fresh(pair[2]) /\ proc' = proc
      /\ history' = Append(history, rec)
  BY DEF CompleteState, Takes
<1>2. /\ pair[1] \in Ids /\ pair[2] \in Run /\ Known(pair[1]) /\ pair[2] \in 1..runs
      /\ pair = <<pair[1], pair[2]>>
      /\ \A w \in Workers : Working(w) /\ proc[w].run = pair[2] => Pair(w) = pair
      /\ \A other \in open : other = pair
  BY DEF IInv, TypeOK, QueueInvariant, OpenRuns
<1>3. /\ rec \in RunRecord /\ rec.run = pair[2] /\ rec.id = pair[1]
      /\ rec.result = "commit"
  BY <1>2 DEF RunRecord, Results
<1>4. ASSUME NEW v \in Workers, Working(v)', proc'[v].run = pair[2]
      PROVE  proc'[v].id = pair[1]
  <2>1. Working(v) /\ proc[v].run = pair[2]
    BY <1>1, <1>4 DEF Working
  <2>2. QED
    BY <1>1, <1>2, <2>1 DEF Pair
<1> HIDE DEF rec
<1>5. OfNewRun(rec)
  BY <1>1, <1>2, <1>3, <1>4 DEF OfNewRun
<1>6. pair[2] # None
  BY <1>2, NoneIsNoRun
<1>7. Records(rec)
  BY <1>1, <1>2, <1>3, <1>5, <1>6 DEF Records
<1>8. QED
  BY <1>7 DEF Grows

LEMMA HistoryStep ==
  ASSUME IInv, [Next]_vars
  PROVE  Grows
<1>1. ASSUME NEW w \in Workers, Step(w) PROVE Grows
  <2>1. CASE RecordFailure(w)
    BY <2>1, RecordFailureRecords
  <2>2. CASE RecordResult(w)
    BY <1>1, <2>2, CommandTypes, RecordResultRecords
  <2>3. CASE ~RecordFailure(w) /\ ~RecordResult(w)
    <3>1. UNCHANGED history
      BY <1>1, <2>3
         DEF Step, Begin, ListUnbundled, RepairExport, RepairAttach, Claim, NothingToClaim,
             WorkCommits, WorkReturns, WorkContended, WorkRaises, CloseOperation, Export, Attach,
             AskCritic, CriticAnswers, CriticFails, AfterException, FailReviewSetup, Crash
    <3>2. QED
      BY <3>1 DEF Grows
  <2>4. QED
    BY <2>1, <2>2, <2>3
<1>2. CASE Operator
  <2>1. CASE \E pair \in open : CompleteState(pair)
    BY <2>1, CompleteStateRecords
  <2>2. CASE ~\E pair \in open : CompleteState(pair)
    <3>1. UNCHANGED history
      BY <1>2, <2>2
         DEF Operator, Enqueue, Retry, Recover, ConfirmRework, ResolveEscalation, OperatorMoves,
             RollbackBegins, RollbackCompletes, RollbackReverted, ImportDecision,
             ImportInterrupted, FinishLedger
    <3>2. QED
      BY <3>1 DEF Grows
  <2>3. QED
    BY <2>1, <2>2
<1>3. CASE UNCHANGED vars
  BY <1>3 DEF vars, Grows
<1>4. QED
  BY <1>1, <1>2, <1>3 DEF Next

(* One record more, the old ones where they were.                           *)
LEMMA RecordAppended ==
  ASSUME IInv, NEW rec, Records(rec)
  PROVE  /\ history' \in Seq(RunRecord)
         /\ Len(history') = Len(history) + 1
         /\ \A i \in DOMAIN history : i \in DOMAIN history' /\ history'[i] = history[i]
         /\ Len(history) + 1 \in DOMAIN history' /\ history'[Len(history) + 1] = rec
         /\ \A i \in DOMAIN history' : i \in DOMAIN history \/ i = Len(history) + 1
<1>1. history \in Seq(RunRecord) /\ rec \in RunRecord /\ history' = Append(history, rec)
  BY DEF IInv, TypeOK, Records
<1>2. QED
  BY <1>1

LEMMA RecordedGrows ==
  ASSUME IInv, [Next]_vars
  PROVE  /\ history \in Seq(RunRecord) /\ history' \in Seq(RunRecord)
         /\ Len(history) \in Nat /\ Len(history') \in Nat /\ Len(history) <= Len(history')
         /\ \A i \in DOMAIN history : i \in DOMAIN history' /\ history'[i] = history[i]
         /\ \A run, id : Recorded(run, id) => Recorded(run, id)'
         /\ \A pair : CommitRecorded(pair) => CommitRecorded(pair)'
         /\ \A run : ~Fresh(run) => ~Fresh(run)'
<1>0. history \in Seq(RunRecord) /\ Grows
  BY HistoryStep DEF IInv, TypeOK
<1>1. /\ history' \in Seq(RunRecord) /\ Len(history') \in Nat /\ Len(history) <= Len(history')
      /\ \A i \in DOMAIN history : i \in DOMAIN history' /\ history'[i] = history[i]
  <2>1. CASE history' = history
    BY <1>0, <2>1
  <2>2. ASSUME NEW rec, Records(rec)
        PROVE  /\ history' \in Seq(RunRecord) /\ Len(history') \in Nat
               /\ Len(history) <= Len(history')
               /\ \A i \in DOMAIN history : i \in DOMAIN history' /\ history'[i] = history[i]
    BY <1>0, <2>2, RecordAppended
  <2>3. QED
    BY <1>0, <2>1, <2>2 DEF Grows
<1>2. \A run, id : Recorded(run, id) => Recorded(run, id)'
  BY <1>1 DEF Recorded
<1>3. \A pair : CommitRecorded(pair) => CommitRecorded(pair)'
  BY <1>1 DEF CommitRecorded
<1>4. \A run : ~Fresh(run) => ~Fresh(run)'
  BY <1>1 DEF Fresh
<1>5. QED
  BY <1>0, <1>1, <1>2, <1>3, <1>4

(* A run that is no longer new has got its record.                          *)
LEMMA FreshUntilRecorded ==
  ASSUME IInv, [Next]_vars, NEW run, Fresh(run), ~Fresh(run)'
  PROVE  \E rec : Records(rec) /\ rec.run = run
<1>1. Grows
  BY HistoryStep
<1>2. history' # history
  BY DEF Fresh
<1>3. PICK rec : Records(rec)
  BY <1>1, <1>2 DEF Grows
<1>4. PICK i \in DOMAIN history' : history'[i].run = run
  BY DEF Fresh
<1>5. i \notin DOMAIN history
  BY <1>3, <1>4, RecordAppended DEF Fresh
<1>6. history'[i] = rec
  BY <1>3, <1>4, <1>5, RecordAppended
<1>7. QED
  BY <1>3, <1>4, <1>6

LEMMA CommitIsRecord ==
  ASSUME NEW pair, CommitRecorded(pair)
  PROVE  Recorded(pair[2], pair[1]) /\ ~Fresh(pair[2])
BY DEF CommitRecorded, Recorded, Fresh

-----------------------------------------------------------------------------
(* What a step does to the open operations: the commit of a command comes   *)
(* in, a recorded run goes.                                                 *)

LEMMA OpenStep ==
  ASSUME IInv, [Next]_vars
  PROVE  /\ \A pair \in open \ open' : ~Fresh(pair[2])
         /\ \A pair \in open' \ open : \E w \in Workers : WorkCommits(w) /\ pair = Pair(w)
<1>1. ASSUME NEW w \in Workers, CloseOperation(w)
      PROVE  open' \subseteq open /\ \A pair \in open \ open' : ~Fresh(pair[2])
  <2>1. proc[w].at = "close" /\ open' = open \ {Pair(w)}
    BY <1>1 DEF CloseOperation
  <2>2. CommitRecorded(Pair(w))
    BY <2>1 DEF IInv, QueueInvariant, ProcessAt
  <2>3. ~Fresh(Pair(w)[2])
    BY <2>2, CommitIsRecord
  <2>4. \A pair \in open \ open' : pair = Pair(w)
    BY <2>1
  <2>5. QED
    BY <2>1, <2>3, <2>4
<1>2. ASSUME NEW pair \in open, FinishLedger(pair)
      PROVE  open' \subseteq open /\ \A other \in open \ open' : ~Fresh(other[2])
  BY <1>2 DEF FinishLedger
<1>3. ASSUME NEW w \in Workers, WorkCommits(w)
      PROVE  open' = {Pair(w)} /\ open = {}
  BY <1>3 DEF WorkCommits
<1>4. ASSUME NEW w \in Workers, Step(w), ~WorkCommits(w), ~CloseOperation(w)
      PROVE  UNCHANGED open
  BY <1>4 DEF Step, Begin, ListUnbundled, RepairExport, RepairAttach, Claim, NothingToClaim,
             WorkReturns, WorkContended, WorkRaises, RecordFailure, RecordResult, Export, Attach,
             AskCritic, CriticAnswers, CriticFails, AfterException, FailReviewSetup, Crash
<1>5. ASSUME Operator, ~\E pair \in open : FinishLedger(pair)
      PROVE  UNCHANGED open
  BY <1>5 DEF Operator, Enqueue, Retry, Recover, ConfirmRework, ResolveEscalation, OperatorMoves,
             RollbackBegins, RollbackCompletes, RollbackReverted, ImportDecision,
             ImportInterrupted, CompleteState
<1>6. UNCHANGED vars => UNCHANGED open
  BY DEF vars
<1>7. QED
  BY <1>1, <1>2, <1>3, <1>4, <1>5, <1>6 DEF Next

(* Only WorkCommits lets an operation come in.                              *)
LEMMA WorkOnCommits ==
  ASSUME IInv, NEW w \in Workers, WorkCommits(w)
  PROVE  /\ Working(w) /\ proc[w].at = "work" /\ open = {} /\ open' = {Pair(w)}
         /\ proc' = proc /\ history' = history /\ runs' = runs /\ queue' = queue
         /\ Fresh(proc[w].run)
BY DEF WorkCommits, Working, HasCommitted

LEMMA OpenTyped ==
  ASSUME IInv, [Next]_vars
  PROVE  open' \subseteq Ids \X Run
<1>1. ASSUME NEW pair \in open' PROVE pair \in Ids \X Run
  <2>1. CASE pair \in open
    BY <2>1 DEF IInv, TypeOK
  <2>2. CASE pair \notin open
    <3>1. PICK w \in Workers : WorkCommits(w) /\ pair = Pair(w)
      BY <1>1, <2>2, OpenStep
    <3>2. proc[w].id \in Ids /\ proc[w].run \in Run
      BY <3>1, WorkOnCommits, TaskOfCommand
    <3>3. QED
      BY <3>1, <3>2 DEF Pair
  <2>3. QED
    BY <2>1, <2>2
<1>2. QED
  BY <1>1

-----------------------------------------------------------------------------
(* A command that works on a task after its step worked on it before, or    *)
(* has just claimed it.                                                     *)
Continues(w) ==
  Working(w) /\ proc'[w].id = proc[w].id /\ proc'[w].run = proc[w].run

Claims(w, id) ==
  /\ id = proc'[w].id /\ id \in Ids
  /\ Status(id) = "queued" /\ Status(id)' = "running"
  /\ runs' = runs + 1 /\ proc'[w].run = runs + 1
  /\ history' = history /\ open' = open

LEMMA WorkersStep ==
  ASSUME IInv, NEW w \in Workers, Step(w), Working(w)'
  PROVE  Continues(w) \/ \E id : Claims(w, id)
<1>0. proc \in [Workers -> Proc] /\ proc[w] \in Proc /\ queue \in Seq(Entry)
  BY DEF IInv, TypeOK
<1>w. proc'[w].at \in {"work", "reconciling", "record"}
  BY DEF Working
<1>f. ~Finish(w)
  BY <1>0, <1>w DEF Finish, Idle
<1>g. \A place \in Places \ {"work", "reconciling", "record"} : ~Goto(w, place)
  BY <1>0, <1>w DEF Goto, Proc
<1>1. CASE Claim(w)
  <2>0. PICK id : id = queue[Selected].id
    OBVIOUS
  <2> DEFINE e == [Latest(id) EXCEPT !.status = "running", !.attempts = @ + 1, !.commit = None]
  <2>1. /\ runs < MaxRuns /\ runs' = runs + 1 /\ SetLatest(id, e) /\ history' = history
        /\ open' = open
        /\ proc' = [proc EXCEPT ![w].at = "work", ![w].id = id, ![w].run = runs + 1]
    BY <1>1, <1>f, <2>0 DEF Claim
  <2>2. Selected \in DOMAIN queue /\ queue[Selected].status = "queued"
    BY <1>0, <1>1, SelectedIsReady DEF Claim, Ready
  <2>3. queue[Selected] \in Entry
    BY <1>0, <2>2
  <2>4. Known(id) /\ id \in Ids
    BY <2>0, <2>2, <2>3 DEF Known, EntriesOf, Entry
  <2>5. Latest(id) = queue[Selected]
    BY <2>0, <2>2 DEF IInv, QueueInvariant, OneActiveEntry, Active, Latest
  <2>6. Status(id) = "queued"
    BY <2>2, <2>4, <2>5 DEF Status
  <2>7. Latest(id) \in Entry /\ Latest(id).id = id
    BY <2>4, AttemptsOfLatest
  <2>8. e \in Entry /\ e.id = id /\ e.deps = Latest(id).deps /\ e.status = "running"
    <3> DEFINE old == Latest(id)
    <3>1. old \in Entry /\ old.id = id
      BY <2>7
    <3> HIDE DEF old
    <3>2. old.attempts + 1 \in Nat
      BY <3>1 DEF Entry
    <3>3. [old EXCEPT !.status = "running", !.attempts = @ + 1, !.commit = None] = e
      BY DEF old
    <3> HIDE DEF e
    <3>4. e \in Entry /\ e.id = id /\ e.deps = old.deps /\ e.status = "running"
      BY <3>1, <3>2, <3>3 DEF Entry, Statuses, Active
    <3>5. QED
      BY <3>4 DEF old
  <2> HIDE DEF e
  <2>9. Changes(id, e)
    BY <2>1, <2>4, <2>8 DEF Changes
  <2>10. Status(id)' = "running"
    BY <1>0, <2>4, <2>8, <2>9, Changed
  <2>11. QED
    <3>1. proc'[w].id = id /\ proc'[w].run = runs + 1
      BY <1>0, <2>1 DEF Proc
    <3>2. Claims(w, id)
      BY <2>1, <2>4, <2>6, <2>10, <3>1 DEF Claims
    <3>3. QED
      BY <3>2
<1>2. CASE WorkReturns(w)
  <2>1. PICK result \in Results :
          Working(w) /\ proc' = [proc EXCEPT ![w].at = "record", ![w].result = result]
    BY <1>2 DEF WorkReturns, Working, Results
  <2>2. QED
    BY <1>0, <2>1 DEF Continues, Proc
<1>r. CASE WorkRaises(w)
  <2>1. Working(w) /\ proc' = [proc EXCEPT ![w].at = "reconciling", ![w].todo = open]
    BY <1>r DEF WorkRaises, Working
  <2>2. QED
    BY <1>0, <2>1 DEF Continues, Proc
<1>c. CASE WorkCommits(w)
  BY <1>c, WorkOnCommits DEF Continues
<1>3. CASE \/ Begin(w) \/ ListUnbundled(w) \/ RepairExport(w) \/ RepairAttach(w)
  <2>1. CASE Begin(w)
    BY <1>0, <1>w, <2>1 DEF Begin, Proc
  <2>2. CASE ListUnbundled(w)
    <3>1. proc'[w].at \in {"claim", "repair"}
      <4> DEFINE listed == {<<id, LastCommitted(id, proc[w].seen)>> : id \in Unbundled}
      <4>1. proc' = [proc EXCEPT ![w].at = IF Unbundled = {} THEN "claim" ELSE "repair",
                                 ![w].seen = 0, ![w].todo = listed]
        BY <1>f, <2>2 DEF ListUnbundled
      <4> HIDE DEF listed
      <4>2. QED
        BY <1>0, <4>1 DEF Proc
    <3>2. QED
      BY <1>w, <3>1
  <2>3. CASE RepairExport(w)
    BY <1>w, <2>3 DEF RepairExport
  <2>4. CASE RepairAttach(w)
    <3>1. PICK pair \in proc[w].todo :
            proc' = [proc EXCEPT ![w].todo = @ \ {pair},
                                 ![w].at = IF proc[w].todo = {pair} THEN "claim" ELSE @]
      BY <1>f, <2>4 DEF RepairAttach
    <3>2. proc'[w].at \in {"claim", "repair"}
      BY <1>0, <2>4, <3>1 DEF RepairAttach, Proc
    <3>3. QED
      BY <1>w, <3>2
  <2>5. QED
    BY <1>3, <2>1, <2>2, <2>3, <2>4
<1>4. CASE \/ NothingToClaim(w) \/ WorkContended(w) \/ RecordFailure(w) \/ RecordResult(w)
           \/ CloseOperation(w) \/ Export(w) \/ Attach(w) \/ AskCritic(w)
           \/ (\E verdict \in Verdicts : CriticAnswers(w, verdict))
           \/ CriticFails(w) \/ AfterException(w) \/ FailReviewSetup(w) \/ Crash(w)
  <2>1. \/ Finish(w) \/ Goto(w, "close") \/ Goto(w, "export") \/ Goto(w, "attach")
        \/ Goto(w, "failing") \/ Goto(w, "critic") \/ Goto(w, "judging") \/ Goto(w, "failSetup")
    BY <1>4 DEF NothingToClaim, WorkContended, RecordFailure, RecordResult, CloseOperation,
         Export, Attach, AskCritic, CriticAnswers, CriticFails, AfterException,
         FailReviewSetup, Crash
  <2>2. QED
    BY <1>f, <1>g, <2>1 DEF Places
<1>5. QED
  BY <1>1, <1>2, <1>r, <1>c, <1>3, <1>4 DEF Step

(* Any command after any step.                                              *)
LEMMA WorkingStep ==
  ASSUME IInv, [Next]_vars, NEW v \in Workers, Working(v)'
  PROVE  \/ Continues(v)
         \/ Step(v) /\ \E id : Claims(v, id)
<1>1. ASSUME NEW w \in Workers, Step(w)
      PROVE  Continues(v) \/ (Step(v) /\ \E id : Claims(v, id))
  <2>1. CASE v = w
    BY <1>1, <2>1, WorkersStep
  <2>2. CASE v # w
    <3>1. proc'[v] = proc[v]
      BY <1>1, <2>2, CommandTypes DEF Alters
    <3>2. QED
      BY <3>1 DEF Working, Continues
  <2>3. QED
    BY <2>1, <2>2
<1>2. CASE UNCHANGED proc
  BY <1>2 DEF Working, Continues
<1>3. QED
  BY <1>1, <1>2, OperatorKeeps DEF Next

-----------------------------------------------------------------------------
(* The runs under way.                                                      *)

LEMMA InUnderWay ==
  ASSUME NEW pair
  PROVE  /\ pair \in UnderWay <=>
              /\ Fresh(pair[2])
              /\ pair \in open \/ \E w \in Workers : Working(w) /\ pair = Pair(w)
         /\ pair \in UnderWay' <=>
              /\ Fresh(pair[2])'
              /\ \/ pair \in open'
                 \/ \E w \in Workers : Working(w)' /\ pair = <<proc'[w].id, proc'[w].run>>
<1>1. pair \in UnderWay <=>
        /\ Fresh(pair[2])
        /\ pair \in open \/ \E w \in Workers : Working(w) /\ pair = Pair(w)
  BY DEF UnderWay
<1>2. pair \in UnderWay' <=>
        /\ Fresh(pair[2])'
        /\ \/ pair \in open'
           \/ \E w \in Workers : Working(w)' /\ pair = <<proc'[w].id, proc'[w].run>>
  BY DEF UnderWay, Fresh, Working, Pair
<1>3. QED
  BY <1>1, <1>2

\* The pair has just been claimed.
Claimed(pair) ==
  \E w \in Workers : Step(w) /\ Claims(w, pair[1]) /\ pair = <<pair[1], runs + 1>>

LEMMA UnderWayStep ==
  ASSUME IInv, [Next]_vars, NEW pair \in UnderWay'
  PROVE  pair \in UnderWay \/ Claimed(pair)
<1>1. Fresh(pair[2])
  BY InUnderWay, RecordedGrows
<1>2. ASSUME NEW w \in Workers, Working(w)', pair = <<proc'[w].id, proc'[w].run>>
      PROVE  pair \in UnderWay \/ Claimed(pair)
  <2>1. CASE Continues(w)
    <3>1. Working(w) /\ pair = Pair(w)
      BY <1>2, <2>1 DEF Continues, Pair
    <3>2. QED
      BY <1>1, <3>1, InUnderWay
  <2>2. ASSUME NEW id, Step(w), Claims(w, id) PROVE Claimed(pair)
    <3>1. pair = <<id, runs + 1>> /\ pair[1] = id
      BY <1>2, <2>2 DEF Claims
    <3>2. QED
      BY <2>2, <3>1 DEF Claimed
  <2>3. QED
    BY <1>2, <2>1, <2>2, WorkingStep
<1>3. CASE pair \in open' /\ pair \notin open
  <2>1. PICK w \in Workers : WorkCommits(w) /\ pair = Pair(w)
    BY <1>3, OpenStep
  <2>2. QED
    BY <1>1, <2>1, WorkOnCommits, InUnderWay
<1>4. CASE pair \in open
  BY <1>1, <1>4, InUnderWay
<1>5. QED
  BY <1>2, <1>3, <1>4, InUnderWay

(* The tasks whose runs no exception after a commit has disturbed.          *)
Owned(id) == orderly \/ ~HasCommittedRun(id)

(* No run of the task is under way any more.                                *)
Left(id) == \A pair \in UnderWay' : pair[1] # id

LEMMA OwnedRuns ==
  ASSUME IInv, NEW pair \in UnderWay, Owned(pair[1])
  PROVE  /\ Status(pair[1]) = "running"
         /\ \A other \in UnderWay : other[1] = pair[1] => other = pair
BY DEF IInv, QueueInvariant, RunnerOwnsTask, Owned

(* The run that ends was the only one of its task.                          *)
LEMMA LeavesTask ==
  ASSUME IInv, [Next]_vars, NEW pair \in UnderWay, Owned(pair[1]), pair \notin UnderWay'
  PROVE  Left(pair[1])
<1> SUFFICES ASSUME NEW other \in UnderWay', other[1] = pair[1] PROVE FALSE
  BY DEF Left
<1>1. other \notin UnderWay
  BY OwnedRuns
<1>2. Claimed(other)
  BY <1>1, UnderWayStep
<1>3. Status(other[1]) = "queued"
  BY <1>2 DEF Claimed, Claims
<1>4. Status(pair[1]) = "running"
  BY OwnedRuns
<1>5. QED
  BY <1>3, <1>4

\* The committed runs of the whole history.
Committed(id) == \E i \in DOMAIN history : history[i].id = id /\ history[i].result = "commit"

LEMMA HasCommittedRunIs ==
  ASSUME NEW id
  PROVE  /\ history \in Seq(RunRecord) =>
              (HasCommittedRun(id) <=> (\E pair \in open : pair[1] = id) \/ Committed(id))
         /\ history' \in Seq(RunRecord) =>
              (HasCommittedRun(id)' <=> (\E pair \in open' : pair[1] = id) \/ Committed(id)')
<1>1. ASSUME history \in Seq(RunRecord)
      PROVE  HasCommittedRun(id) <=> (\E pair \in open : pair[1] = id) \/ Committed(id)
  <2>1. DOMAIN history = 1..Len(history)
    BY <1>1
  <2>2. Committed(id) <=> CommittedRuns(id, Len(history)) # {}
    BY <2>1 DEF Committed, CommittedRuns
  <2>3. QED
    BY <2>2 DEF HasCommittedRun
<1>2. ASSUME history' \in Seq(RunRecord)
      PROVE  HasCommittedRun(id)' <=> (\E pair \in open' : pair[1] = id) \/ Committed(id)'
  <2>1. DOMAIN history' = 1..Len(history')
    BY <1>2
  <2>2. Committed(id)' <=> CommittedRuns(id, Len(history))' # {}
    BY <2>1 DEF Committed, CommittedRuns
  <2>3. QED
    BY <2>2 DEF HasCommittedRun
<1>3. QED
  BY <1>1, <1>2

(* A task that has a committed run keeps it.                                *)
LEMMA OwnedBefore ==
  ASSUME IInv, [Next]_vars, NEW id, Owned(id)'
  PROVE  Owned(id)
<1> SUFFICES ASSUME HasCommittedRun(id), ~orderly PROVE HasCommittedRun(id)'
  BY AloneKept DEF Owned
<1>0. /\ history \in Seq(RunRecord) /\ history' \in Seq(RunRecord)
      /\ \A i \in DOMAIN history : i \in DOMAIN history' /\ history'[i] = history[i]
  BY RecordedGrows
<1>1. (\E pair \in open : pair[1] = id) \/ Committed(id)
  BY <1>0, HasCommittedRunIs
<1>2. CASE Committed(id)
  <2>1. Committed(id)'
    BY <1>0, <1>2 DEF Committed
  <2>2. QED
    BY <1>0, <2>1, HasCommittedRunIs
<1>3. CASE \E pair \in open : pair[1] = id
  <2>1. PICK pair \in open : pair[1] = id
    BY <1>3
  <2>2. CASE pair \in open'
    BY <1>0, <2>1, <2>2, HasCommittedRunIs
  <2>3. CASE pair \notin open'
    <3>1. ~Fresh(pair[2])
      BY <2>1, <2>3, OpenStep
    <3>2. CommitRecorded(pair)
      BY <2>1, <3>1 DEF IInv, QueueInvariant, OpenRuns
    <3>3. Committed(id)'
      BY <1>0, <2>1, <3>2 DEF CommitRecorded, Committed
    <3>4. QED
      BY <1>0, <3>3, HasCommittedRunIs
  <2>4. QED
    BY <2>2, <2>3
<1>4. QED
  BY <1>1, <1>2, <1>3

-----------------------------------------------------------------------------
(* What a step does to the queue file: it appends a batch, or moves the     *)
(* latest entry of one task in one of the ways the statuses allow.          *)

(* The entry e is closed on an approval of a recorded run of the task.      *)
Approved(id, e) ==
  \E d \in decisions' : /\ d.verdict = "approve"
                        /\ d.bundle = e.decision
                        /\ Recorded(d.bundle, id)

(* The handler of an exception after a commit makes a closed task fail.     *)
Reopens(id, e) ==
  /\ ~orderly /\ e.status = "failed"
  /\ \E w \in Workers : proc[w].at \in {"work", "reconciling"} /\ proc[w].id = id

Moves(id, e) ==
  /\ Changes(id, e)
  /\ Latest(id).status = "running" /\ Owned(id) => Left(id)
  /\ Latest(id).status = "rolled_back" => Reopens(id, e)
  /\ Latest(id).status = "done" => e.status = "rolled_back" \/ Reopens(id, e)
  /\ Required => e.attempts <= MaxAttempts
  /\ Required /\ e.status = "done" => Approved(id, e)

QueueChanges ==
  \/ UNCHANGED queue
  \/ \E batch \in Batches : Enqueue(batch)
  \/ \E id \in Ids : \E e : Moves(id, e)

(* A status that does not close the entry may follow any open one.          *)
LEMMA MovesOn ==
  ASSUME IInv, NEW id \in Ids, NEW e \in Entry,
         Status(id) \in Active \cup {"failed"},
         Status(id) = "running" /\ Owned(id) => Left(id),
         e.id = id, e.deps = Latest(id).deps, e.attempts <= Latest(id).attempts,
         e.status # "done", SetLatest(id, e)
  PROVE  Moves(id, e)
<1>1. Known(id) /\ Status(id) = Latest(id).status
  BY KnownStatus DEF Active
<1>2. Latest(id) \in Entry /\ (Required => Latest(id).attempts <= MaxAttempts)
  BY <1>1, AttemptsOfLatest
<1>3. Required => e.attempts <= MaxAttempts
  BY <1>2, TaskConstants DEF Entry, ConstantsOK
<1>4. QED
  BY <1>1, <1>3 DEF Moves, Changes, Active

LEMMA RepairAttachMoves ==
  ASSUME IInv, NEW w \in Workers, RepairAttach(w)
  PROVE  QueueChanges
<1>1. PICK pair \in proc[w].todo :
        \/ /\ Status(pair[1]) = "review_pending"
           /\ AttachBundle(pair[1], pair[2])
        \/ UNCHANGED queue
  BY DEF RepairAttach
<1>2. CASE UNCHANGED queue
  BY <1>2 DEF QueueChanges
<1>3. CASE Status(pair[1]) = "review_pending" /\ AttachBundle(pair[1], pair[2])
  <2> DEFINE id == pair[1]
             e == [Latest(id) EXCEPT !.bundle = pair[2]]
  <2>1. proc[w] \in Proc
    BY DEF IInv, TypeOK
  <2>2. id \in Ids /\ pair[2] \in Run
    BY <2>1 DEF Proc
  <2>3. Known(id)
    BY <1>3, KnownStatus
  <2>4. Latest(id) \in Entry /\ Latest(id).id = id
    BY <2>3, AttemptsOfLatest
  <2>5. /\ e \in Entry /\ e.id = id /\ e.deps = Latest(id).deps
        /\ e.attempts <= Latest(id).attempts /\ e.status = Latest(id).status
    BY <2>2, <2>4 DEF Entry
  <2>6. e.status # "done" /\ SetLatest(id, e)
    BY <1>3, <2>5, KnownStatus DEF AttachBundle
  <2>7. Moves(id, e)
    BY <1>3, <2>2, <2>5, <2>6, MovesOn DEF Active
  <2>8. QED
    BY <2>2, <2>7 DEF QueueChanges
<1>4. QED
  BY <1>1, <1>2, <1>3

LEMMA ClaimMoves ==
  ASSUME IInv, NEW w \in Workers, Claim(w)
  PROVE  QueueChanges
<1> DEFINE id == queue[Selected].id
           old == Latest(id)
<1>1. Selected \in DOMAIN queue /\ queue[Selected].status = "queued"
  BY SelectedIsReady DEF Claim, Ready, IInv, TypeOK
<1>2. queue[Selected] \in Entry /\ id \in Ids
  <2>1. queue[Selected] \in Entry
    BY <1>1 DEF IInv, TypeOK
  <2>2. QED
    BY <2>1 DEF Entry
<1>3. Known(id)
  BY <1>1 DEF Known, EntriesOf
<1>4. queue[Selected] = old
  BY <1>1 DEF IInv, QueueInvariant, OneActiveEntry, Active, Latest
<1>5. old \in Entry /\ old.id = id
  BY <1>3, AttemptsOfLatest
<1>6. Status(id) = "queued"
  BY <1>1, <1>3, <1>4 DEF Status
<1>7. CASE SetLatest(id, [old EXCEPT !.status = "escalated"])
  <2> DEFINE e == [old EXCEPT !.status = "escalated"]
  <2>1. /\ e \in Entry /\ e.id = id /\ e.deps = old.deps
        /\ e.attempts <= old.attempts /\ e.status # "done"
    BY <1>5 DEF Entry, Statuses, Active
  <2>2. Moves(id, e)
    BY <1>2, <1>6, <1>7, <2>1, MovesOn DEF Active
  <2>3. QED
    BY <1>2, <2>2 DEF QueueChanges
<1>8. CASE /\ ~(Required /\ queue[Selected].attempts >= MaxAttempts)
           /\ SetLatest(id, [old EXCEPT !.status = "running", !.attempts = @ + 1,
                                        !.commit = None])
  <2> DEFINE e == [old EXCEPT !.status = "running", !.attempts = @ + 1, !.commit = None]
  <2>1. /\ e \in Entry /\ e.id = id /\ e.deps = old.deps
        /\ e.attempts = old.attempts + 1 /\ e.status = "running"
    <3> HIDE DEF old
    <3>1. old.attempts + 1 \in Nat
      BY <1>5 DEF Entry
    <3>2. QED
      BY <1>5, <3>1 DEF Entry, Statuses, Active
  <2>2. Required => e.attempts <= MaxAttempts
    BY <1>4, <1>5, <1>8, <2>1, TaskConstants DEF Entry, ConstantsOK
  <2>3. Moves(id, e)
    BY <1>1, <1>3, <1>4, <1>8, <2>1, <2>2 DEF Moves, Changes
  <2>4. QED
    BY <1>2, <2>3 DEF QueueChanges
<1>9. QED
  BY <1>7, <1>8 DEF Claim

(* A command that works on a task, or sets its review up, knows it.         *)
(* A command that ends has left its task, if no exception after a commit    *)
(* has disturbed it.                                                        *)
LEMMA UncommittedIs ==
  ASSUME IInv, NEW w \in Workers, Working(w), Owned(proc[w].id), orderly => ~HasCommitted(w)
  PROVE  ~HasCommitted(w) /\ Pair(w) \in UnderWay
<1>1. CASE orderly
  BY <1>1, InUnderWay DEF HasCommitted, Pair
<1>2. CASE ~HasCommittedRun(proc[w].id)
  <2>1. ~(\E pair \in open : pair[1] = proc[w].id) /\ ~Committed(proc[w].id)
    BY <1>2, HasCommittedRunIs DEF IInv, TypeOK
  <2>2. Pair(w) \notin open
    BY <2>1 DEF Pair
  <2>3. ~CommitRecorded(Pair(w))
    BY <2>1 DEF CommitRecorded, Committed, Pair
  <2>4. Fresh(proc[w].run)
    BY <2>3 DEF IInv, QueueInvariant, ProcessAt
  <2>5. QED
    BY <2>2, <2>4, InUnderWay DEF HasCommitted, Pair
<1>3. QED
  BY <1>1, <1>2 DEF Owned

LEMMA EndsLeave ==
  ASSUME IInv, [Next]_vars, NEW w \in Workers, Working(w), Owned(proc[w].id),
         orderly => ~HasCommitted(w), Alters(w), ~Working(w)', open' = open
  PROVE  Left(proc[w].id) /\ Status(proc[w].id) = "running"
<1>1. ~HasCommitted(w) /\ Pair(w) \in UnderWay
  BY UncommittedIs
<1>2. Pair(w)[1] = proc[w].id /\ Pair(w)[2] = proc[w].run
  BY DEF Pair
<1>3. Pair(w) \notin open'
  BY <1>1 DEF HasCommitted
<1>4. ASSUME NEW v \in Workers, Working(v)', Pair(w) = <<proc'[v].id, proc'[v].run>>
      PROVE  FALSE
  <2>1. v # w
    BY <1>4
  <2>2. Working(v) /\ proc'[v] = proc[v]
    BY <1>4, <2>1 DEF Alters, Working
  <2>3. proc[v].run = proc[w].run
    BY <1>4, <2>2 DEF Pair
  <2>4. QED
    BY <2>1, <2>2, <2>3 DEF IInv, QueueInvariant, RunsKnown
<1>5. PICK pair : pair = Pair(w)
  OBVIOUS
<1>6. pair \notin UnderWay'
  BY <1>3, <1>4, <1>5, InUnderWay
<1>7. QED
  BY <1>1, <1>2, <1>5, <1>6, LeavesTask, OwnedRuns

LEMMA ContendedMoves ==
  ASSUME IInv, [Next]_vars, NEW w \in Workers, WorkContended(w), Alters(w)
  PROVE  QueueChanges
<1> DEFINE id == proc[w].id
           old == Latest(id)
           e == [old EXCEPT !.status = "queued"]
<1>1. /\ proc[w].at = "work" /\ Working(w) /\ (orderly => ~HasCommitted(w)) /\ open' = open
      /\ UNCHANGED queue \/ (Status(id) = "running" /\ SetLatest(id, e))
      /\ proc' = [proc EXCEPT ![w] = Idle]
  BY DEF WorkContended, Working, Finish
<1>2. id \in Ids /\ old \in Entry /\ old.id = id
  BY <1>1, TaskOfCommand
<1>3. e \in Entry /\ e.id = id /\ e.deps = old.deps /\ e.attempts <= old.attempts /\ e.status # "done"
  <2> HIDE DEF old, id
  <2>1. old.attempts \in Nat /\ e \in Entry
    BY <1>2 DEF Entry, Statuses, Active
  <2>2. e.attempts = old.attempts /\ e.id = id /\ e.deps = old.deps /\ e.status # "done"
    BY <1>2 DEF Entry, Statuses, Active
  <2>3. QED
    BY <2>1, <2>2
<1>4. ~Working(w)'
  BY <1>1 DEF Working, Idle, IInv, TypeOK
<1>5. Owned(id) => Left(id)
  BY <1>1, <1>4, EndsLeave
<1> HIDE DEF e
<1>6. Status(id) = "running" /\ SetLatest(id, e) => Moves(id, e)
  BY <1>2, <1>3, <1>5, MovesOn DEF Active
<1>7. QED
  BY <1>1, <1>2, <1>6 DEF QueueChanges

LEMMA RecordFailureMoves ==
  ASSUME IInv, [Next]_vars, NEW w \in Workers, RecordFailure(w), Alters(w)
  PROVE  QueueChanges
<1> DEFINE id == proc[w].id
           old == Latest(id)
           e == [old EXCEPT !.status = "failed", !.commit = None]
<1>1. /\ Working(w) /\ open' = open /\ proc' = [proc EXCEPT ![w] = Idle]
      /\ proc[w].at \in {"work", "reconciling"}
      /\ proc[w].at = "work" => ~HasCommitted(w)
      /\ SetLatest(id, e)
  BY DEF RecordFailure, Working, Finish
<1>2. id \in Ids /\ Known(id) /\ old \in Entry /\ old.id = id /\ Status(id) = old.status
  BY <1>1, TaskOfCommand
<1>3. e \in Entry /\ e.id = id /\ e.deps = old.deps /\ e.attempts = old.attempts /\ e.status = "failed"
  <2> HIDE DEF old, id
  <2>1. QED
    BY <1>2 DEF Entry, Statuses, Active
<1>4. orderly => ~HasCommitted(w)
  BY <1>1 DEF IInv, QueueInvariant, ProcessAt
<1>5. ~Working(w)'
  BY <1>1 DEF Working, Idle, IInv, TypeOK
<1>6. Owned(id) => Left(id) /\ Status(id) = "running"
  BY <1>1, <1>4, <1>5, EndsLeave
<1> HIDE DEF e
<1>7. Status(id) # "running" => Reopens(id, e)
  BY <1>1, <1>3, <1>6 DEF Reopens, Owned
<1>8. Required => e.attempts <= MaxAttempts
  BY <1>2, <1>3, AttemptsOfLatest
<1>9. Moves(id, e)
  BY <1>1, <1>2, <1>3, <1>6, <1>7, <1>8 DEF Moves, Changes
<1>10. QED
  BY <1>2, <1>9 DEF QueueChanges

(* record_result of a running task, by its command or a reconciliation.     *)
LEMMA TakesMoves ==
  ASSUME IInv, [Next]_vars, NEW id \in Ids, NEW run \in Run, NEW result \in Results,
         Status(id) = "running", Takes(id, run, result), <<id, run>> \in UnderWay
  PROVE  QueueChanges
<1> DEFINE old == Latest(id)
           commit == IF result = "commit" THEN run ELSE None
           e == [old EXCEPT !.status = ResultStatus(result), !.commit = commit]
<1>1. /\ SetLatest(id, e)
      /\ history' = Append(history, [run |-> run, id |-> id, result |-> result])
  BY DEF Takes
<1>2. Known(id) /\ old \in Entry /\ old.id = id /\ old.status = "running"
  BY KnownStatus, AttemptsOfLatest
<1>3. ResultStatus(result) \in Statuses /\ commit \in Run \cup {None}
  BY DEF ResultStatus, Statuses, Active
<1>4. /\ e \in Entry /\ e.id = id /\ e.deps = old.deps
      /\ e.attempts = old.attempts /\ e.status = ResultStatus(result)
  <2> HIDE DEF old, commit
  <2>1. QED
    BY <1>2, <1>3 DEF Entry
<1>5. Required => e.status # "done"
  BY <1>4 DEF ResultStatus
<1>6. Required => e.attempts <= MaxAttempts
  BY <1>2, <1>4, AttemptsOfLatest
<1> HIDE DEF e
<1>7. ~Fresh(run)'
  <2>1. PICK rec : rec = [run |-> run, id |-> id, result |-> result]
    OBVIOUS
  <2>2. rec \in RunRecord /\ rec.run = run
    BY <2>1 DEF RunRecord
  <2>3. Len(history) + 1 \in DOMAIN history' /\ history'[Len(history) + 1] = rec
    BY <1>1, <2>1, <2>2 DEF IInv, TypeOK
  <2>4. QED
    BY <2>2, <2>3 DEF Fresh
<1>8. <<id, run>> \notin UnderWay'
  BY <1>7, InUnderWay
<1>9. Owned(id) => Left(id)
  <2>1. PICK pair : pair = <<id, run>>
    OBVIOUS
  <2>2. pair[1] = id /\ pair \in UnderWay /\ pair \notin UnderWay'
    BY <1>8, <2>1
  <2>3. QED
    BY <2>2, LeavesTask
<1>10. Moves(id, e)
  BY <1>1, <1>2, <1>4, <1>5, <1>6, <1>9 DEF Moves, Changes
<1>11. QED
  BY <1>10 DEF QueueChanges

LEMMA RecordResultMoves ==
  ASSUME IInv, [Next]_vars, NEW w \in Workers, RecordResult(w)
  PROVE  QueueChanges
<1>1. /\ proc[w].at = "record" /\ Working(w)
      /\ \/ UNCHANGED queue
         \/ /\ Fresh(proc[w].run) /\ Status(proc[w].id) = "running"
            /\ Takes(proc[w].id, proc[w].run, proc[w].result)
  BY DEF RecordResult, Working
<1>2. proc[w].id \in Ids /\ proc[w].run \in Run /\ proc[w].result \in Results
  BY <1>1, TaskOfCommand DEF IInv, QueueInvariant, ProcessAt
<1>3. CASE /\ Fresh(proc[w].run) /\ Status(proc[w].id) = "running"
           /\ Takes(proc[w].id, proc[w].run, proc[w].result)
  <2>1. Pair(w) \in UnderWay
    BY <1>1, <1>3, InUnderWay DEF Pair
  <2>2. QED
    BY <1>2, <1>3, <2>1, TakesMoves DEF Pair
<1>4. QED
  BY <1>1, <1>3 DEF QueueChanges

LEMMA CompleteStateMoves ==
  ASSUME IInv, [Next]_vars, NEW pair \in open, CompleteState(pair)
  PROVE  QueueChanges
<1>1. /\ pair \in UnderWay /\ Status(pair[1]) = "running"
      /\ Takes(pair[1], pair[2], "commit")
  BY InUnderWay DEF CompleteState
<1>2. pair[1] \in Ids /\ pair[2] \in Run /\ pair = <<pair[1], pair[2]>> /\ "commit" \in Results
  BY DEF IInv, TypeOK, Results
<1>3. QED
  BY <1>1, <1>2, TakesMoves

LEMMA SetupMoves ==
  ASSUME IInv, NEW w \in Workers, Attach(w) \/ FailReviewSetup(w)
  PROVE  QueueChanges
<1> DEFINE id == proc[w].id
           old == Latest(id)
           bundled == [old EXCEPT !.bundle = proc[w].run]
           failed == [old EXCEPT !.status = "failed"]
<1>1. proc[w].at \in {"attach", "failSetup"}
  BY DEF Attach, FailReviewSetup
<1>2. /\ id \in Ids /\ old \in Entry /\ old.id = id /\ Status(id) = old.status
      /\ proc[w].run \in Run
  BY <1>1, TaskOfCommand DEF Setup
<1>3. \A e \in {bundled, failed} :
        /\ e \in Entry /\ e.id = id /\ e.deps = old.deps
        /\ e.attempts <= old.attempts /\ e.status \in {old.status, "failed"}
  <2> HIDE DEF old, id
  <2>1. QED
    BY <1>2 DEF Entry, Statuses, Active
<1>4. \/ UNCHANGED queue
      \/ Status(id) = "review_pending" /\ (SetLatest(id, bundled) \/ SetLatest(id, failed))
  BY DEF Attach, FailReviewSetup, AttachBundle
<1> HIDE DEF bundled, failed
<1>5. UNCHANGED queue \/ Moves(id, bundled) \/ Moves(id, failed)
  BY <1>2, <1>3, <1>4, MovesOn DEF Active
<1>6. QED
  BY <1>2, <1>5 DEF QueueChanges

(* import_decision closes a task for its own bundle only.                   *)
LEMMA DecisionMoves ==
  ASSUME IInv, NEW d \in [bundle : Run, verdict : Verdicts],
         ~Fresh(d.bundle), ApplyDecision(d), decisions' = decisions \cup {d}
  PROVE  QueueChanges
<1> DEFINE id == TaskOf(d.bundle)
           old == Latest(id)
           e == [old EXCEPT !.status = DecisionStatus(d.verdict),
                            !.bundle = None, !.decision = d.bundle]
<1>1. PICK i \in DOMAIN history : history[i].run = d.bundle /\ id = history[i].id
  <2>1. PICK i \in DOMAIN history : history[i].run = d.bundle
    BY DEF Fresh
  <2>2. QED
    BY <2>1 DEF TaskOf
<1>2. Known(id) /\ Recorded(d.bundle, id)
  BY <1>1 DEF IInv, QueueInvariant, RunsKnown, Recorded
<1>3. id \in Ids
  <2>1. history[i] \in RunRecord
    BY DEF IInv, TypeOK
  <2>2. QED
    BY <1>1, <2>1 DEF RunRecord
<1>4. old \in Entry /\ old.id = id /\ Status(id) = old.status
  BY <1>2, AttemptsOfLatest DEF Status
<1>5. d.bundle \in Run /\ d.verdict \in Verdicts
  OBVIOUS
<1>6. DecisionStatus(d.verdict) \in Statuses \cap {"done", "rework_required", "escalated"}
  BY <1>5 DEF DecisionStatus, Verdicts, Statuses, Active
<1>7. /\ e \in Entry /\ e.id = id /\ e.deps = old.deps /\ e.attempts = old.attempts
      /\ e.status = DecisionStatus(d.verdict) /\ e.decision = d.bundle
  <2> HIDE DEF old, id
  <2>1. QED
    BY <1>4, <1>5, <1>6 DEF Entry
<1>8. e.status = "done" => Approved(id, e)
  <2> SUFFICES ASSUME e.status = "done" PROVE Approved(id, e)
    OBVIOUS
  <2>1. d.verdict = "approve"
    BY <1>5, <1>7 DEF DecisionStatus, Verdicts
  <2>2. QED
    BY <1>2, <1>7, <2>1 DEF Approved
<1>9. Required => e.attempts <= MaxAttempts
  BY <1>2, <1>7, AttemptsOfLatest
<1>10. UNCHANGED queue \/ (old.status = "review_pending" /\ SetLatest(id, e))
  BY DEF ApplyDecision, Resolves
<1> HIDE DEF e
<1>11. UNCHANGED queue \/ Moves(id, e)
  BY <1>2, <1>3, <1>7, <1>8, <1>9, <1>10 DEF Moves, Changes
<1>12. QED
  BY <1>3, <1>11 DEF QueueChanges

LEMMA RecoverLeaves ==
  ASSUME IInv, NEW id \in Ids, Recover(id), Owned(id)
  PROVE  Left(id)
<1>1. proc' = proc /\ open' = open /\ \A w \in Workers : proc[w].id # id
  BY DEF Recover, OperatorMoves, Interrupted
<1>2. \A pair \in open : pair[1] # id
  <2>1. CASE orderly
    BY <2>1 DEF Recover
  <2>2. CASE ~HasCommittedRun(id)
    BY <2>2 DEF HasCommittedRun
  <2>3. QED
    BY <2>1, <2>2 DEF Owned
<1>3. ASSUME NEW pair \in UnderWay' PROVE pair[1] # id
  <2>1. pair \in open \/ \E w \in Workers : pair = <<proc[w].id, proc[w].run>>
    BY <1>1, InUnderWay
  <2>2. QED
    BY <1>1, <1>2, <2>1
<1>4. QED
  BY <1>3 DEF Left

LEMMA OperatorMovesOn ==
  ASSUME IInv, NEW id \in Ids, Retry(id) \/ Recover(id) \/ ConfirmRework(id) \/ ResolveEscalation(id)
  PROVE  QueueChanges
<1> DEFINE old == Latest(id)
           queued == [old EXCEPT !.status = "queued"]
           again == [old EXCEPT !.status = "queued", !.attempts = 0, !.bundle = None]
           failed == [old EXCEPT !.status = "failed", !.bundle = None]
           escalated == [old EXCEPT !.status = "escalated"]
           reworked == [old EXCEPT !.status = "queued", !.bundle = None]
<1>1. Status(id) \in Active \cup {"failed"}
  BY DEF Retry, Recover, ConfirmRework, ResolveEscalation, Active
<1>l. Status(id) = "running" /\ Owned(id) => Left(id)
  <2> SUFFICES ASSUME Status(id) = "running", Owned(id) PROVE Left(id)
    OBVIOUS
  <2>1. Recover(id)
    BY DEF Retry, ConfirmRework, ResolveEscalation
  <2>2. QED
    BY <2>1, RecoverLeaves
<1>2. Known(id) /\ old \in Entry /\ old.id = id
  BY <1>1, KnownStatus, AttemptsOfLatest DEF Active
<1>3. \A e \in {queued, again, failed, escalated, reworked} :
        /\ e \in Entry /\ e.id = id /\ e.deps = old.deps
        /\ e.attempts <= old.attempts /\ e.status # "done"
  <2> HIDE DEF old
  <2> USE <1>2 DEF Entry, Statuses, Active
  <2>1. /\ queued \in Entry /\ queued.id = id /\ queued.deps = old.deps
        /\ queued.attempts <= old.attempts /\ queued.status # "done"
    <3>1. old.attempts \in Nat /\ queued \in Entry
      OBVIOUS
    <3>2. queued.attempts = old.attempts /\ queued.id = id /\ queued.deps = old.deps /\ queued.status # "done"
      OBVIOUS
    <3>3. QED
      BY <3>1, <3>2
  <2>2. /\ again \in Entry /\ again.id = id /\ again.deps = old.deps
        /\ again.attempts <= old.attempts /\ again.status # "done"
    <3>1. old.attempts \in Nat /\ again \in Entry
      OBVIOUS
    <3>2. again.attempts = 0 /\ again.id = id /\ again.deps = old.deps /\ again.status # "done"
      OBVIOUS
    <3>3. QED
      BY <3>1, <3>2
  <2>3. /\ failed \in Entry /\ failed.id = id /\ failed.deps = old.deps
        /\ failed.attempts <= old.attempts /\ failed.status # "done"
    <3>1. old.attempts \in Nat /\ failed \in Entry
      OBVIOUS
    <3>2. failed.attempts = old.attempts /\ failed.id = id /\ failed.deps = old.deps /\ failed.status # "done"
      OBVIOUS
    <3>3. QED
      BY <3>1, <3>2
  <2>4. /\ escalated \in Entry /\ escalated.id = id /\ escalated.deps = old.deps
        /\ escalated.attempts <= old.attempts /\ escalated.status # "done"
    <3>1. old.attempts \in Nat /\ escalated \in Entry
      OBVIOUS
    <3>2. escalated.attempts = old.attempts /\ escalated.id = id /\ escalated.deps = old.deps /\ escalated.status # "done"
      OBVIOUS
    <3>3. QED
      BY <3>1, <3>2
  <2>5. /\ reworked \in Entry /\ reworked.id = id /\ reworked.deps = old.deps
        /\ reworked.attempts <= old.attempts /\ reworked.status # "done"
    <3>1. old.attempts \in Nat /\ reworked \in Entry
      OBVIOUS
    <3>2. reworked.attempts = old.attempts /\ reworked.id = id /\ reworked.deps = old.deps /\ reworked.status # "done"
      OBVIOUS
    <3>3. QED
      BY <3>1, <3>2
  <2>6. QED
    BY <2>1, <2>2, <2>3, <2>4, <2>5
<1>4. \E e \in {queued, again, failed, escalated, reworked} : SetLatest(id, e)
  <2> HIDE DEF old
  <2>1. CASE Retry(id) \/ Recover(id)
    BY <2>1 DEF Retry, Recover, OperatorMoves, old
  <2>2. CASE ConfirmRework(id)
    BY <2>2 DEF ConfirmRework, OperatorMoves, old
  <2>3. CASE ResolveEscalation(id)
    BY <2>3 DEF ResolveEscalation, OperatorMoves, old
  <2>4. QED
    BY <2>1, <2>2, <2>3
<1>5. \E e : Moves(id, e)
  <2> HIDE DEF queued, again, failed, escalated, reworked
  <2>1. PICK e \in {queued, again, failed, escalated, reworked} : SetLatest(id, e)
    BY <1>4
  <2>2. Moves(id, e)
    BY <1>1, <1>3, <1>l, <2>1, MovesOn
  <2>3. QED
    BY <2>2
<1>6. QED
  BY <1>5 DEF QueueChanges

LEMMA RollbackMoves ==
  ASSUME IInv, RollbackCompletes
  PROVE  QueueChanges
<1> DEFINE id == rolling
           old == Latest(id)
           e == [old EXCEPT !.status = "rolled_back"]
<1>1. id \in Ids /\ Status(id) = "done" /\ SetLatest(id, e)
  BY DEF RollbackCompletes, IInv, TypeOK
<1>2. Known(id) /\ old.status = "done"
  BY <1>1, KnownStatus
<1>3. /\ old \in Entry /\ old.id = id
      /\ Required => old.attempts <= MaxAttempts
  BY <1>2, AttemptsOfLatest
<1>4. /\ e \in Entry /\ e.id = id /\ e.deps = old.deps
      /\ e.attempts = old.attempts /\ e.status = "rolled_back"
  <2> HIDE DEF old, id
  <2>1. QED
    BY <1>3 DEF Entry, Statuses, Active
<1>5. Moves(id, e)
  BY <1>1, <1>2, <1>3, <1>4 DEF Moves, Changes
<1>6. QED
  BY <1>1, <1>5 DEF QueueChanges

LEMMA QueueStep ==
  ASSUME IInv, [Next]_vars
  PROVE  QueueChanges
<1>1. CASE UNCHANGED vars
  BY <1>1 DEF vars, QueueChanges
<1>2. ASSUME NEW w \in Workers, Step(w) PROVE QueueChanges
  <2>1. CASE \/ Begin(w) \/ ListUnbundled(w) \/ RepairExport(w) \/ NothingToClaim(w)
             \/ WorkCommits(w) \/ WorkReturns(w) \/ WorkRaises(w) \/ CloseOperation(w)
             \/ Export(w) \/ AskCritic(w) \/ CriticFails(w) \/ AfterException(w) \/ Crash(w)
    BY <2>1 DEF Begin, ListUnbundled, RepairExport, NothingToClaim, WorkCommits, WorkReturns,
                WorkRaises, CloseOperation, Export, AskCritic, CriticFails, AfterException, Crash, QueueChanges
  <2>2. CASE \E verdict \in Verdicts : CriticAnswers(w, verdict)
    <3>1. PICK verdict \in Verdicts : CriticAnswers(w, verdict)
      BY <2>2
    <3> DEFINE d == [bundle |-> proc[w].run, verdict |-> verdict]
    <3>2. proc[w].at = "judging"
      BY <3>1 DEF CriticAnswers
    <3>3. proc[w].run \in Run /\ CommitRecorded(Pair(w))
      BY <3>2, TaskOfCommand DEF Setup, IInv, QueueInvariant, ProcessAt
    <3>4. d \in [bundle : Run, verdict : Verdicts] /\ ~Fresh(d.bundle)
      BY <3>3, CommitIsRecord DEF Pair
    <3>5. UNCHANGED queue \/ (ApplyDecision(d) /\ decisions' = decisions \cup {d})
      BY <3>1 DEF CriticAnswers
    <3> HIDE DEF d
    <3>6. QED
      BY <3>4, <3>5, DecisionMoves DEF QueueChanges
  <2>3. QED
    BY <1>2, <2>1, <2>2, CommandTypes, RepairAttachMoves, ClaimMoves, ContendedMoves,
       RecordFailureMoves, RecordResultMoves, SetupMoves DEF Step
<1>3. CASE Operator
  <2>1. CASE \E batch \in Batches : Enqueue(batch)
    BY <2>1 DEF QueueChanges
  <2>2. CASE \/ RollbackReverted \/ \E id \in Ids : RollbackBegins(id)
             \/ \E pair \in open : FinishLedger(pair)
    BY <2>2 DEF RollbackReverted, RollbackBegins, FinishLedger, QueueChanges
  <2>3. CASE \E d \in [bundle : bundles, verdict : Verdicts] :
               ImportDecision(d) \/ ImportInterrupted(d)
    <3>1. PICK d \in [bundle : bundles, verdict : Verdicts] :
                 ImportDecision(d) \/ ImportInterrupted(d)
      BY <2>3
    <3>2. d \in [bundle : Run, verdict : Verdicts] /\ ~Fresh(d.bundle)
      BY DEF IInv, TypeOK, QueueInvariant, RunsKnown
    <3>3. UNCHANGED queue \/ (ApplyDecision(d) /\ decisions' = decisions \cup {d})
      BY <3>1 DEF ImportDecision, ImportInterrupted
    <3>4. QED
      BY <3>2, <3>3, DecisionMoves DEF QueueChanges
  <2>4. QED
    BY <1>3, <2>1, <2>2, <2>3, OperatorMovesOn, CompleteStateMoves, RollbackMoves DEF Operator
<1>4. QED
  BY <1>1, <1>2, <1>3 DEF Next

-----------------------------------------------------------------------------
(* The invariants that QueueStep gives.                                     *)

-----------------------------------------------------------------------------
(* The invariants that QueueStep gives.                                     *)

LEMMA ClosedStaysClosedStep ==
  ASSUME IInv, [Next]_vars, NEW i \in DOMAIN queue,
         queue[i].status \in {"done", "rolled_back"}
  PROVE  \/ queue'[i].status = queue[i].status
         \/ queue[i].status = "done" /\ queue'[i].status = "rolled_back"
         \/ /\ ~orderly
            /\ queue'[i].status = "failed"
            /\ \E w \in Workers : /\ proc[w].at \in {"work", "reconciling"}
                                  /\ proc[w].id = queue[i].id
<1>1. QueueChanges /\ queue \in Seq(Entry)
  BY QueueStep DEF IInv, TypeOK
<1>2. CASE UNCHANGED queue
  BY <1>2
<1>3. ASSUME NEW batch \in Batches, Enqueue(batch) PROVE queue'[i] = queue[i]
  BY <1>1, <1>3, Enqueued
<1>4. ASSUME NEW id \in Ids, NEW e, Moves(id, e)
      PROVE  \/ queue'[i] = queue[i]
             \/ queue[i] = Latest(id) /\ queue[i].id = id /\ queue'[i] = e
  <2>1. Changes(id, e) /\ Known(id)
    BY <1>4 DEF Moves, Changes
  <2>2. Latest(id).id = id
    BY <1>1, <2>1, LatestEntry
  <2>3. QED
    BY <1>1, <2>1, <2>2, Changed DEF Latest
<1>5. ASSUME NEW id \in Ids, NEW e, Moves(id, e)
      PROVE  \/ queue'[i].status = queue[i].status
             \/ queue[i].status = "done" /\ queue'[i].status = "rolled_back"
             \/ /\ ~orderly
                /\ queue'[i].status = "failed"
                /\ \E w \in Workers : /\ proc[w].at \in {"work", "reconciling"}
                                      /\ proc[w].id = queue[i].id
  <2>1. CASE queue'[i] = queue[i]
    BY <2>1
  <2>2. CASE queue[i] = Latest(id) /\ queue[i].id = id /\ queue'[i] = e
    BY <1>5, <2>2 DEF Moves, Reopens
  <2>3. QED
    BY <1>4, <1>5, <2>1, <2>2
<1>6. QED
  BY <1>1, <1>2, <1>3, <1>5 DEF QueueChanges

LEMMA OneActiveEntryStep ==
  ASSUME IInv, [Next]_vars
  PROVE  OneActiveEntry'
<1> SUFFICES ASSUME NEW i \in DOMAIN queue', queue'[i].status \in Active,
                    NEW x, x = queue'[i].id
             PROVE  i = LatestIndex(x)'
  BY DEF OneActiveEntry, LatestIndex, EntriesOf
<1>1. QueueChanges /\ queue \in Seq(Entry) /\ OneActiveEntry
  BY QueueStep DEF IInv, TypeOK, QueueInvariant
<1>2. CASE UNCHANGED queue
  BY <1>1, <1>2 DEF OneActiveEntry, LatestIndex, EntriesOf
<1>3. ASSUME NEW batch \in Batches, Enqueue(batch)
      PROVE  i = LatestIndex(x)'
  <2>1. CASE i \in DOMAIN queue
    <3>1. queue'[i] = queue[i]
      BY <1>1, <1>3, <2>1, Enqueued
    <3>2. i \in EntriesOf(x)
      BY <2>1, <3>1 DEF EntriesOf
    <3>3. \A k \in DOMAIN batch : batch[k].id # x
      BY <1>3, <3>1, <3>2 DEF Enqueue
    <3>4. LatestIndex(x)' = LatestIndex(x)
      BY <1>1, <1>3, <3>3, Enqueued
    <3>5. QED
      BY <1>1, <2>1, <3>1, <3>4 DEF OneActiveEntry
  <2>2. CASE i \notin DOMAIN queue
    <3>1. PICK k \in DOMAIN batch : /\ i = LatestIndex(batch[k].id)'
                                    /\ queue'[i] = NewEntry(batch[k])
      BY <1>1, <1>3, <2>2, Enqueued
    <3>2. QED
      BY <3>1 DEF NewEntry
  <2>3. QED
    BY <2>1, <2>2
<1>4. ASSUME NEW id \in Ids, NEW e, Moves(id, e)
      PROVE  i = LatestIndex(x)'
  <2>1. Changes(id, e) /\ Known(id) /\ e.id = id
    BY <1>4 DEF Moves, Changes
  <2>2. CASE i = LatestIndex(id)
    BY <1>1, <2>1, <2>2, Changed
  <2>3. CASE i # LatestIndex(id)
    <3>1. i \in DOMAIN queue /\ queue'[i] = queue[i]
      BY <1>1, <2>1, <2>3, Changed
    <3>2. QED
      BY <1>1, <2>1, <3>1, Changed DEF OneActiveEntry
  <2>4. QED
    BY <2>2, <2>3
<1>5. QED
  BY <1>1, <1>2, <1>3, <1>4 DEF QueueChanges

LEMMA AttemptsBoundedStep ==
  ASSUME IInv, [Next]_vars
  PROVE  AttemptsBounded'
<1> SUFFICES ASSUME Required, NEW i \in DOMAIN queue'
             PROVE  queue'[i].attempts <= MaxAttempts
  BY DEF AttemptsBounded
<1>1. QueueChanges /\ queue \in Seq(Entry) /\ AttemptsBounded
  BY QueueStep DEF IInv, TypeOK, QueueInvariant
<1>2. CASE UNCHANGED queue
  BY <1>1, <1>2 DEF AttemptsBounded
<1>3. ASSUME NEW batch \in Batches, Enqueue(batch)
      PROVE  queue'[i].attempts <= MaxAttempts
  <2>1. CASE i \in DOMAIN queue
    BY <1>1, <1>3, <2>1, Enqueued DEF AttemptsBounded
  <2>2. CASE i \notin DOMAIN queue
    <3>1. \E k \in DOMAIN batch : queue'[i] = NewEntry(batch[k])
      BY <1>1, <1>3, <2>2, Enqueued
    <3>2. QED
      BY <3>1, TaskConstants DEF NewEntry, ConstantsOK
  <2>3. QED
    BY <2>1, <2>2
<1>4. ASSUME NEW id \in Ids, NEW e, Moves(id, e)
      PROVE  queue'[i].attempts <= MaxAttempts
  <2>1. Changes(id, e) /\ e.attempts <= MaxAttempts
    BY <1>4 DEF Moves
  <2>2. i \in DOMAIN queue /\ (queue'[i] = e \/ queue'[i] = queue[i])
    BY <1>1, <2>1, Changed
  <2>3. QED
    BY <1>1, <2>1, <2>2 DEF AttemptsBounded
<1>5. QED
  BY <1>1, <1>2, <1>3, <1>4 DEF QueueChanges

-----------------------------------------------------------------------------
(* The open tasks and what they wait for, as OpenTasksAcyclic sees them.    *)
Closed == {"done", "rolled_back"}
Open == {id \in Ids : Known(id) /\ Status(id) \notin Closed}

LEMMA OpenGraph ==
  OpenTasksAcyclic <=> (orderly => \A S \in SUBSET Open :
                                     S # {} => \E n \in S : Latest(n).deps \cap S = {})
BY DEF OpenTasksAcyclic, Acyclic, Open, Closed

LEMMA OpenTasksAcyclicStep ==
  ASSUME IInv, [Next]_vars
  PROVE  OpenTasksAcyclic'
<1> SUFFICES ASSUME orderly PROVE OpenTasksAcyclic'
  BY AloneKept DEF OpenTasksAcyclic
<1>1. QueueChanges /\ queue \in Seq(Entry) /\ OpenTasksAcyclic
  BY QueueStep DEF IInv, TypeOK, QueueInvariant
<1>2. CASE UNCHANGED queue
  BY <1>1, <1>2 DEF OpenTasksAcyclic, Known, EntriesOf, Status, Latest, LatestIndex
<1>3. ASSUME NEW id \in Ids, NEW e, Moves(id, e)
      PROVE  OpenTasksAcyclic'
  <2>1. Changes(id, e) /\ Known(id) /\ e.deps = Latest(id).deps
    BY <1>3 DEF Moves, Changes
  <2>2. Status(id) \in Closed => e.status \in Closed
    BY <1>3, <2>1 DEF Moves, Reopens, Closed, Status
  <2>3. \A n \in Open' : n \in Open
    <3> SUFFICES ASSUME NEW n \in Open' PROVE n \in Open
      OBVIOUS
    <3>1. n \in Ids /\ Known(n) /\ Status(n)' \notin Closed
      BY <1>1, <2>1, Changed DEF Open
    <3>2. Status(n) \notin Closed
      BY <1>1, <2>1, <2>2, <3>1, Changed
    <3>3. QED
      BY <3>1, <3>2 DEF Open
  <2>4. \A n \in Open' : Latest(n)'.deps = Latest(n).deps
    <3> SUFFICES ASSUME NEW n \in Open' PROVE Latest(n)'.deps = Latest(n).deps
      OBVIOUS
    <3>1. Known(n)
      BY <2>3 DEF Open
    <3>2. QED
      BY <1>1, <2>1, <3>1, Changed
  <2>5. \A S \in SUBSET Open' : S # {} => \E n \in S : Latest(n)'.deps \cap S = {}
    BY <1>1, <2>3, <2>4, OpenGraph
  <2>6. QED
    BY <2>5 DEF OpenTasksAcyclic, Acyclic, Open, Closed
<1>4. ASSUME NEW batch \in Batches, Enqueue(batch)
      PROVE  OpenTasksAcyclic'
  <2> DEFINE item(id) == {k \in DOMAIN batch : batch[k].id = id}
             known == {id \in Ids : item(id) # {} \/ Known(id)}
             unresolved == {id \in known : item(id) # {} \/ Status(id) # "done"}
             deps == [id \in unresolved |->
                        IF item(id) # {} THEN batch[CHOOSE k \in item(id) : TRUE].deps
                                         ELSE Latest(id).deps]
  <2>1. Acyclic(deps)
    BY <1>4 DEF Enqueue, EnqueueGraphOK
  <2>2. \A S \in SUBSET unresolved : S # {} => \E n \in S : deps[n] \cap S = {}
    BY <2>1 DEF Acyclic
  <2>3. ASSUME NEW n \in Open'
        PROVE  n \in unresolved /\ deps[n] = Latest(n)'.deps
    <3>0. n \in Ids /\ Known(n)' /\ Status(n)' \notin Closed
      BY DEF Open
    <3>1. CASE item(n) = {}
      <4>1. \A k \in DOMAIN batch : batch[k].id # n
        BY <3>1
      <4>2. Known(n) /\ Status(n) = Status(n)' /\ Latest(n)' = Latest(n)
        BY <1>1, <1>4, <3>0, <4>1, Enqueued
      <4>3. n \in unresolved
        BY <3>0, <4>2 DEF Closed
      <4>4. QED
        BY <3>1, <4>2, <4>3
    <3>2. CASE item(n) # {}
      <4>1. n \in unresolved
        BY <3>0, <3>2
      <4> DEFINE k == CHOOSE m \in item(n) : TRUE
      <4>2. k \in DOMAIN batch /\ batch[k].id = n
        BY <3>2
      <4> HIDE DEF k
      <4>3. Latest(n)' = NewEntry(batch[k])
        BY <1>1, <1>4, <4>2, Enqueued
      <4>4. Latest(n)'.deps = batch[k].deps
        BY <4>3 DEF NewEntry
      <4>5. QED
        BY <3>2, <4>1, <4>4 DEF k
    <3>3. QED
      BY <3>1, <3>2
  <2> HIDE DEF item, known, unresolved, deps
  <2>4. \A S \in SUBSET Open' : S # {} => \E n \in S : Latest(n)'.deps \cap S = {}
    BY <2>2, <2>3
  <2>5. QED
    BY <2>4 DEF OpenTasksAcyclic, Acyclic, Open, Closed
<1>5. QED
  BY <1>1, <1>2, <1>3, <1>4 DEF QueueChanges

(* The queue file keeps its type, and the tasks that are in it.             *)
LEMMA QueueKept ==
  ASSUME IInv, [Next]_vars
  PROVE  /\ queue' \in Seq(Entry)
         /\ \A id : Known(id) => Known(id)'
<1>1. QueueChanges /\ queue \in Seq(Entry)
  BY QueueStep DEF IInv, TypeOK
<1>2. CASE UNCHANGED queue
  BY <1>1, <1>2 DEF Known, EntriesOf
<1>3. ASSUME NEW batch \in Batches, Enqueue(batch)
      PROVE  queue' \in Seq(Entry) /\ \A id : Known(id) => Known(id)'
  <2>1. queue' \in Seq(Entry) /\ \A i \in DOMAIN queue : i \in DOMAIN queue' /\ queue'[i] = queue[i]
    BY <1>1, <1>3, Enqueued
  <2>2. QED
    BY <2>1 DEF Known, EntriesOf
<1>4. ASSUME NEW id \in Ids, NEW e, Moves(id, e)
      PROVE  queue' \in Seq(Entry) /\ \A x : Known(x) => Known(x)'
  BY <1>1, <1>4, Changed DEF Moves
<1>5. QED
  BY <1>1, <1>2, <1>3, <1>4 DEF QueueChanges

-----------------------------------------------------------------------------
(* What a command relies on after a step.                                   *)

Works(p) == p.at \in {"work", "reconciling", "record"}

\* The run of p has committed.
Ran(p) == <<p.id, p.run>> \in open \/ ~Fresh(p.run)

\* What ProcessAt says of a command whose record is p.
Placed(p) ==
  /\ Works(p) \/ p.at \in {"close"} \cup Setup =>
       p.id \in Ids /\ Known(p.id) /\ p.run \in 1..runs
  /\ Works(p) => Fresh(p.run) \/ CommitRecorded(<<p.id, p.run>>)
  /\ p.at = "reconciling" /\ orderly => ~Ran(p)
  /\ p.at = "record" => p.result \in Results /\ (p.result = "commit" <=> Ran(p))
  /\ p.at \in {"close"} \cup Setup => CommitRecorded(<<p.id, p.run>>)
  /\ p.at = "snapshot" => p.seen <= Len(history)
  /\ p.at = "repair" => \A pair \in p.todo : Recorded(pair[2], pair[1])

LEMMA PlacedIsAt ==
  ASSUME NEW w \in Workers
  PROVE  /\ ProcessAt(w) <=> Placed(proc[w])
         /\ \A p : p = proc'[w] => (ProcessAt(w)' <=> Placed(p)')
<1>1. ProcessAt(w) <=> Placed(proc[w])
  BY DEF ProcessAt, Placed, Works, Working, Ran, HasCommitted, Pair
<1>2. ASSUME NEW p, p = proc'[w] PROVE ProcessAt(w)' <=> Placed(p)'
  BY <1>2 DEF ProcessAt, Placed, Works, Working, Ran, HasCommitted, Pair, Known, EntriesOf,
              Fresh, Recorded, CommitRecorded
<1>3. QED
  BY <1>1, <1>2

(* Only its own WorkCommits commits the run of a command, and what has      *)
(* committed is open until it is recorded.                                  *)
LEMMA RanStays ==
  ASSUME IInv, [Next]_vars, NEW v \in Workers, proc'[v] = proc[v],
         proc[v].at \in {"reconciling", "record"}, NEW p, p = proc[v]
  PROVE  Ran(p)' <=> Ran(p)
<1>0. Working(v) /\ Working(v)' /\ p = proc'[v]
  BY DEF Working
<1>1. ASSUME Ran(p) PROVE Ran(p)'
  BY <1>1, OpenStep, RecordedGrows DEF Ran
<1>2. ASSUME ~Ran(p), Ran(p)' PROVE FALSE
  <2>1. Fresh(p.run) /\ <<p.id, p.run>> \notin open
    BY <1>2 DEF Ran
  <2>2. CASE <<p.id, p.run>> \in open'
    <3>1. PICK w \in Workers : WorkCommits(w) /\ <<p.id, p.run>> = Pair(w)
      BY <2>1, <2>2, OpenStep
    <3>2. Working(w) /\ proc[w].at = "work" /\ proc[w].run = p.run
      BY <3>1, WorkOnCommits DEF Pair
    <3>3. v = w
      BY <1>0, <3>2 DEF IInv, QueueInvariant, RunsKnown
    <3>4. QED
      BY <3>2, <3>3
  <2>3. CASE ~Fresh(p.run)'
    <3>1. PICK rec : Records(rec) /\ rec.run = p.run
      BY <2>1, <2>3, FreshUntilRecorded
    <3>2. p.run # None
      BY <1>0, TaskOfCommand
    <3>3. OfNewRun(rec)
      BY <3>1, <3>2 DEF Records
    <3>4. proc'[v].id = rec.id /\ <<rec.id, rec.run>> \in open
      BY <1>0, <3>1, <3>3 DEF OfNewRun
    <3>5. QED
      BY <1>0, <2>1, <3>1, <3>4
  <2>4. QED
    BY <1>2, <2>2, <2>3 DEF Ran
<1>3. QED
  BY <1>1, <1>2

LEMMA CommandKeptPlace ==
  ASSUME IInv, [Next]_vars, NEW v \in Workers, proc'[v] = proc[v]
  PROVE  ProcessAt(v)'
<1> SUFFICES ASSUME NEW p, p = proc'[v] PROVE Placed(p)'
  BY PlacedIsAt
<1>1. p = proc[v] /\ Placed(p)
  BY PlacedIsAt DEF IInv, QueueInvariant
<1>2. /\ \A id : Known(id) => Known(id)'
      /\ orderly' = orderly
  BY QueueKept, AloneKept
<1>3. /\ \A run, id : Recorded(run, id) => Recorded(run, id)'
      /\ \A pair : CommitRecorded(pair) => CommitRecorded(pair)'
      /\ Len(history) <= Len(history') /\ Len(history) \in Nat /\ Len(history') \in Nat
  BY RecordedGrows
<1>s. p.seen \in Nat /\ runs \in Nat /\ runs' \in 0..MaxRuns /\ runs <= runs' /\ MaxRuns \in Nat
  <2>1. proc[v] \in Proc
    BY DEF IInv, TypeOK
  <2>2. QED
    BY <1>1, <2>1, CommandsStep, TaskConstants DEF Proc, ConstantsOK
<1>4. p.at \in {"reconciling", "record"} => (Ran(p)' <=> Ran(p))
  BY <1>1, RanStays
<1>5. Works(p) <=> Working(v) /\ Working(v)'
  BY <1>1 DEF Works, Working
<1>6. Works(p) \/ p.at \in {"close"} \cup Setup =>
        p.id \in Ids /\ Known(p.id)' /\ p.run \in 1..runs'
  BY <1>1, <1>2, <1>s DEF Placed
<1>7. Works(p) => Fresh(p.run)' \/ CommitRecorded(<<p.id, p.run>>)'
  <2> SUFFICES ASSUME Works(p), ~Fresh(p.run)' PROVE CommitRecorded(<<p.id, p.run>>)'
    OBVIOUS
  <2>1. CASE CommitRecorded(<<p.id, p.run>>)
    BY <1>3, <2>1
  <2>2. CASE Fresh(p.run)
    <3>1. PICK rec : Records(rec) /\ rec.run = p.run
      BY <2>2, FreshUntilRecorded
    <3>2. p.run # None
      BY <1>1, <1>5, TaskOfCommand
    <3>3. rec.result = "commit" /\ rec.id = p.id
      BY <1>1, <1>5, <3>1, <3>2 DEF Records, OfNewRun
    <3>4. Len(history) + 1 \in DOMAIN history' /\ history'[Len(history) + 1] = rec
      BY <3>1, RecordAppended
    <3>5. PICK pair : pair = <<p.id, p.run>>
      OBVIOUS
    <3>6. CommitRecorded(pair)'
      BY <3>1, <3>3, <3>4, <3>5 DEF CommitRecorded
    <3>7. QED
      BY <3>5, <3>6
  <2>3. QED
    BY <1>1, <2>1, <2>2 DEF Placed
<1>8. p.at = "snapshot" => p.seen <= Len(history')
  BY <1>1, <1>3, <1>s DEF Placed
<1>9. p.at \in {"close"} \cup Setup => CommitRecorded(<<p.id, p.run>>)'
  BY <1>1, <1>3 DEF Placed
<1>10. p.at = "repair" => \A pair \in p.todo : Recorded(pair[2], pair[1])'
  BY <1>1, <1>3 DEF Placed
<1>11. /\ p.at = "reconciling" /\ orderly' => ~Ran(p)'
       /\ p.at = "record" => p.result \in Results /\ (p.result = "commit" <=> Ran(p)')
  BY <1>1, <1>2, <1>4 DEF Placed
<1>12. QED
  BY <1>6, <1>7, <1>8, <1>9, <1>10, <1>11 DEF Placed, Works

LEMMA CommandAt ==
  ASSUME IInv, NEW w \in Workers, Step(w), UNCHANGED <<alone, orderly>>
  PROVE  ProcessAt(w)'
<1>0. /\ proc \in [Workers -> Proc] /\ proc[w] \in Proc
      /\ runs \in 0..MaxRuns /\ MaxRuns \in Nat /\ runs' \in 0..MaxRuns /\ runs <= runs'
      /\ history \in Seq(RunRecord)
      /\ Alters(w) /\ [Next]_vars
  BY CommandTypes, TaskConstants DEF IInv, TypeOK, ConstantsOK, Next
<1> SUFFICES ASSUME NEW p, p = proc'[w] PROVE Placed(p)'
  BY PlacedIsAt
<1>k. /\ \A id : Known(id) => Known(id)'
      /\ \A run, id : Recorded(run, id) => Recorded(run, id)'
      /\ \A pair : CommitRecorded(pair) => CommitRecorded(pair)'
  BY <1>0, QueueKept, RecordedGrows
<1>p. Placed(proc[w])
  BY PlacedIsAt DEF IInv, QueueInvariant
<1>1. ASSUME p.at \in {"idle", "claim"} PROVE Placed(p)'
  BY <1>1 DEF Placed, Works, Setup
<1>2. ASSUME Finish(w) PROVE Placed(p)'
  BY <1>0, <1>1, <1>2 DEF Finish, Idle
<1>3. ASSUME NEW place \in {"close"} \cup Setup, Goto(w, place),
             Works(proc[w]) \/ proc[w].at \in {"close"} \cup Setup,
             NEW pair, pair = <<proc[w].id, proc[w].run>>, CommitRecorded(pair)'
      PROVE  Placed(p)'
  <2>1. /\ p.at = place /\ p.id = proc[w].id /\ p.run = proc[w].run
        /\ pair = <<p.id, p.run>>
    BY <1>0, <1>3 DEF Goto, Proc
  <2>2. p.id \in Ids /\ Known(p.id)' /\ p.run \in 1..runs'
    BY <1>0, <1>3, <1>k, <1>p, <2>1 DEF Placed
  <2>3. p.at \notin {"work", "reconciling", "record", "snapshot", "repair"}
    BY <2>1 DEF Setup
  <2>4. QED
    BY <1>3, <2>1, <2>2, <2>3 DEF Placed, Works
<1>4. CASE Begin(w)
  <2>1. p.at = "claim" \/ (p.at = "snapshot" /\ p.seen = Len(history) /\ history' = history)
    BY <1>0, <1>4 DEF Begin, Proc
  <2>2. CASE p.at = "snapshot" /\ p.seen = Len(history) /\ history' = history
    BY <1>0, <2>2 DEF Placed, Works, Setup
  <2>3. QED
    BY <1>1, <2>1, <2>2
<1>5. CASE ListUnbundled(w)
  <2>1. CASE Finish(w)
    BY <1>2, <2>1
  <2>2. CASE ~Finish(w)
    <3> DEFINE listed == {<<id, LastCommitted(id, proc[w].seen)>> : id \in Unbundled}
    <3>1. \A id \in Unbundled : CommittedRuns(id, proc[w].seen) # {}
      BY <1>5, <2>2 DEF ListUnbundled
    <3>2. proc' = [proc EXCEPT ![w].at = IF Unbundled = {} THEN "claim" ELSE "repair",
                               ![w].seen = 0, ![w].todo = listed]
      BY <1>5, <2>2 DEF ListUnbundled
    <3>3. proc[w].seen \in Nat /\ proc[w].seen <= Len(history)
      BY <1>0, <1>5 DEF ListUnbundled, IInv, QueueInvariant, ProcessAt, Proc
    <3>4. \A pair \in listed : Recorded(pair[2], pair[1])
      BY <1>0, <3>1, <3>3, LastCommittedIs
    <3>5. \A pair \in listed : Recorded(pair[2], pair[1])'
      BY <1>k, <3>4
    <3> HIDE DEF listed
    <3>6. p.at \in {"claim", "repair"} /\ p.todo = listed
      BY <1>0, <3>2 DEF Proc
    <3>7. QED
      BY <1>1, <3>5, <3>6 DEF Placed, Works, Setup
  <2>3. QED
    BY <2>1, <2>2
<1>6. CASE RepairExport(w) \/ WorkCommits(w)
  <2>1. proc'[w] = proc[w]
    BY <1>6 DEF RepairExport, WorkCommits
  <2>2. QED
    BY <1>0, <2>1, CommandKeptPlace, PlacedIsAt
<1>7. CASE RepairAttach(w)
  <2>1. PICK pair \in proc[w].todo :
          \/ Finish(w)
          \/ proc' = [proc EXCEPT ![w].todo = @ \ {pair},
                                  ![w].at = IF proc[w].todo = {pair} THEN "claim" ELSE @]
    BY <1>7 DEF RepairAttach
  <2>2. CASE Finish(w)
    BY <1>2, <2>2
  <2>3. CASE proc' = [proc EXCEPT ![w].todo = @ \ {pair},
                                  ![w].at = IF proc[w].todo = {pair} THEN "claim" ELSE @]
    <3>1. proc[w].at = "repair"
      BY <1>7 DEF RepairAttach
    <3>2. p.at \in {"claim", "repair"} /\ p.todo \subseteq proc[w].todo
      BY <1>0, <2>3, <3>1 DEF Proc
    <3>3. \A one \in p.todo : Recorded(one[2], one[1])'
      BY <1>k, <1>p, <3>1, <3>2 DEF Placed
    <3>4. QED
      BY <1>1, <3>2, <3>3 DEF Placed, Works, Setup
  <2>4. QED
    BY <2>1, <2>2, <2>3
<1>8. CASE Claim(w)
  <2>1. CASE Finish(w)
    BY <1>2, <2>1
  <2>2. CASE /\ runs < MaxRuns /\ runs' = runs + 1
             /\ proc' = [proc EXCEPT ![w].at = "work", ![w].id = queue[Selected].id,
                                     ![w].run = runs + 1]
    <3>1. Selected \in DOMAIN queue
      BY <1>8, SelectedIsReady DEF Claim, Ready, IInv, TypeOK
    <3>2. queue[Selected].id \in Ids /\ Known(queue[Selected].id)
      <4>1. queue[Selected] \in Entry
        BY <3>1 DEF IInv, TypeOK
      <4>2. QED
        BY <3>1, <4>1 DEF Entry, Known, EntriesOf
    <3>3. history' = history
      BY <1>8 DEF Claim
    <3> HIDE DEF Selected
    <3>4. p.at = "work" /\ p.id = queue[Selected].id /\ p.run = runs + 1
      BY <1>0, <2>2 DEF Proc
    <3>5. \A i \in DOMAIN history : history[i].run # runs + 1
      <4>1. runs + 1 # None
        BY <1>0, TaskConstants DEF ConstantsOK
      <4>2. QED
        BY <1>0, <4>1 DEF IInv, QueueInvariant, RunsKnown
    <3>6. Fresh(p.run)'
      BY <3>3, <3>4, <3>5 DEF Fresh
    <3>7. p.id \in Ids /\ Known(p.id)' /\ p.run \in 1..runs'
      BY <1>0, <1>k, <2>2, <3>2, <3>4
    <3>8. QED
      BY <3>4, <3>6, <3>7 DEF Placed, Works, Setup
  <2>3. QED
    BY <1>8, <2>1, <2>2 DEF Claim
<1>9. CASE WorkReturns(w)
  <2>1. PICK result \in Results :
          /\ result = "commit" <=> Ran(proc[w])
          /\ proc' = [proc EXCEPT ![w].at = "record", ![w].result = result]
    BY <1>9 DEF WorkReturns, HasCommitted, Pair, Ran, Results
  <2>2. proc[w].at = "work" /\ history' = history /\ open' = open
    BY <1>9 DEF WorkReturns
  <2>3. /\ p.at = "record" /\ p.id = proc[w].id /\ p.run = proc[w].run /\ p.result = result
    BY <1>0, <2>1 DEF Proc
  <2>4. /\ p.id \in Ids /\ Known(p.id)' /\ p.run \in 1..runs'
        /\ Fresh(p.run) \/ CommitRecorded(<<p.id, p.run>>)'
    BY <1>0, <1>k, <1>p, <2>2, <2>3 DEF Placed, Works
  <2>5. Fresh(p.run)' = Fresh(p.run)
    BY <2>2 DEF Fresh
  <2>6. p.result = "commit" <=> Ran(p)'
    <3>1. Ran(p)' <=> Ran(p)
      BY <2>2, <2>5 DEF Ran
    <3>2. Ran(p) <=> Ran(proc[w])
      BY <2>3 DEF Ran
    <3>3. QED
      BY <2>1, <2>3, <3>1, <3>2
  <2>7. QED
    BY <2>1, <2>3, <2>4, <2>5, <2>6 DEF Placed, Works, Setup
<1>r. CASE WorkRaises(w)
  <2>1. /\ proc[w].at = "work" /\ history' = history /\ open' = open
        /\ orderly => ~HasCommitted(w)
        /\ proc' = [proc EXCEPT ![w].at = "reconciling", ![w].todo = open]
    BY <1>r DEF WorkRaises
  <2>2. p.at = "reconciling" /\ p.id = proc[w].id /\ p.run = proc[w].run
    BY <1>0, <2>1 DEF Proc
  <2>3. /\ p.id \in Ids /\ Known(p.id)' /\ p.run \in 1..runs'
        /\ Fresh(p.run) \/ CommitRecorded(<<p.id, p.run>>)'
    BY <1>0, <1>k, <1>p, <2>1, <2>2 DEF Placed, Works
  <2>4. Fresh(p.run)' = Fresh(p.run)
    BY <2>1 DEF Fresh
  <2>5. orderly' => ~Ran(p)'
    BY <2>1, <2>2, <2>4 DEF Ran, HasCommitted, Pair
  <2>6. QED
    BY <2>2, <2>3, <2>4, <2>5 DEF Placed, Works, Setup
<1>10. CASE RecordResult(w)
  <2>0. proc[w].at = "record" /\ Works(proc[w])
    BY <1>10 DEF RecordResult, Works
  <2>1. CASE Finish(w)
    BY <1>2, <2>1
  <2>2. CASE /\ Goto(w, "close") /\ proc[w].result = "commit"
             /\ Takes(proc[w].id, proc[w].run, proc[w].result)
    <3>1. PICK rec : rec = [run |-> proc[w].run, id |-> proc[w].id, result |-> "commit"]
      OBVIOUS
    <3>2. history' = Append(history, rec)
      BY <2>2, <3>1 DEF Takes
    <3>3. Len(history) + 1 \in DOMAIN history' /\ history'[Len(history) + 1] = rec
      BY <1>0, <3>2
    <3>4. PICK pair : pair = <<proc[w].id, proc[w].run>>
      OBVIOUS
    <3>5. CommitRecorded(pair)'
      BY <3>1, <3>3, <3>4 DEF CommitRecorded
    <3>6. QED
      BY <1>3, <2>0, <2>2, <3>4, <3>5
  <2>3. CASE Goto(w, "close") /\ ~Fresh(proc[w].run)
    <3>1. PICK pair : pair = <<proc[w].id, proc[w].run>>
      OBVIOUS
    <3>2. CommitRecorded(pair)
      BY <1>p, <2>0, <2>3, <3>1 DEF Placed
    <3>3. QED
      BY <1>3, <1>k, <2>0, <2>3, <3>1, <3>2
  <2>4. QED
    BY <1>10, <2>1, <2>2, <2>3 DEF RecordResult
<1>11. CASE \/ NothingToClaim(w) \/ WorkContended(w) \/ RecordFailure(w) \/ FailReviewSetup(w)
            \/ Crash(w)
  BY <1>2, <1>11 DEF NothingToClaim, WorkContended, RecordFailure, FailReviewSetup, Crash
<1>12. CASE \/ CloseOperation(w) \/ Export(w) \/ Attach(w) \/ AskCritic(w)
            \/ (\E verdict \in Verdicts : CriticAnswers(w, verdict))
            \/ CriticFails(w) \/ AfterException(w)
  <2>1. /\ proc[w].at \in {"close"} \cup Setup
        /\ \/ Finish(w) \/ Goto(w, "export") \/ Goto(w, "attach") \/ Goto(w, "failing")
           \/ Goto(w, "critic") \/ Goto(w, "judging") \/ Goto(w, "failSetup")
    BY <1>12 DEF CloseOperation, Export, Attach, AskCritic, CriticAnswers, CriticFails,
                 AfterException, Setup
  <2>2. PICK pair : pair = <<proc[w].id, proc[w].run>>
    OBVIOUS
  <2>3. CommitRecorded(pair)
    BY <1>p, <2>1, <2>2 DEF Placed
  <2>4. CommitRecorded(pair)'
    BY <1>k, <2>3
  <2>5. ASSUME NEW place \in Setup, Goto(w, place) PROVE Placed(p)'
    BY <1>3, <2>1, <2>2, <2>4, <2>5
  <2>6. QED
    BY <1>2, <2>1, <2>5 DEF Setup
<1>13. QED
  BY <1>4, <1>5, <1>6, <1>7, <1>8, <1>9, <1>r, <1>10, <1>11, <1>12 DEF Step

LEMMA ProcessAtStep ==
  ASSUME IInv, [Next]_vars, NEW v \in Workers
  PROVE  ProcessAt(v)'
<1>1. ASSUME NEW w \in Workers, Step(w) PROVE ProcessAt(v)'
  <2>1. v # w => proc'[v] = proc[v]
    BY <1>1, CommandTypes DEF Alters
  <2>2. QED
    BY <1>1, <2>1, CommandAt, CommandKeptPlace, AloneKept
<1>2. CASE UNCHANGED proc
  BY <1>2, CommandKeptPlace
<1>3. QED
  BY <1>1, <1>2, OperatorKeeps DEF Next

-----------------------------------------------------------------------------
(* The runs under way own their tasks.                                      *)

LEMMA StillRunning ==
  ASSUME IInv, [Next]_vars, NEW pair \in UnderWay', NEW id \in Ids, id = pair[1],
         Owned(id), Status(id) = "running"
  PROVE  Status(id)' = "running"
<1>1. QueueChanges /\ queue \in Seq(Entry)
  BY QueueStep DEF IInv, TypeOK
<1>2. Known(id) /\ Latest(id).status = "running"
  BY KnownStatus
<1>3. CASE UNCHANGED queue
  BY <1>3 DEF Status, Known, EntriesOf, Latest, LatestIndex
<1>4. ASSUME NEW batch \in Batches, Enqueue(batch) PROVE Status(id)' = "running"
  <2>1. LatestIndex(id) \in EntriesOf(id) /\ queue[LatestIndex(id)].status \in Active
    BY <1>1, <1>2, LatestIs DEF Latest, Active
  <2>2. \A k \in DOMAIN batch : batch[k].id # id
    BY <1>4, <2>1 DEF Enqueue
  <2>3. QED
    BY <1>1, <1>4, <2>2, Enqueued
<1>5. ASSUME NEW x \in Ids, NEW e, Moves(x, e) PROVE Status(id)' = "running"
  <2>1. Changes(x, e)
    BY <1>5 DEF Moves
  <2>2. x # id
    BY <1>2, <1>5 DEF Moves, Left
  <2>3. QED
    BY <1>1, <1>2, <2>1, <2>2, Changed
<1>6. QED
  BY <1>1, <1>3, <1>4, <1>5 DEF QueueChanges

(* The pairs under way are tasks and runs.                                  *)
LEMMA UnderWayTasks ==
  ASSUME IInv, NEW pair \in UnderWay
  PROVE  pair[1] \in Ids
<1>1. pair \in open => pair[1] \in Ids
  BY DEF IInv, TypeOK
<1>2. ASSUME NEW w \in Workers, Working(w), pair = Pair(w) PROVE pair[1] \in Ids
  BY <1>2, TaskOfCommand DEF Pair
<1>3. QED
  BY <1>1, <1>2, InUnderWay

LEMMA RunnerOwnsTaskStep ==
  ASSUME IInv, [Next]_vars
  PROVE  RunnerOwnsTask'
<1>a. SUFFICES ASSUME NEW pair \in UnderWay', NEW id, id = pair[1], Owned(id)'
               PROVE  /\ Status(id)' = "running"
                      /\ \A other \in UnderWay' : other[1] = id => other = pair
  BY DEF RunnerOwnsTask, Owned, HasCommittedRun, CommittedRuns, Status, Known, EntriesOf,
         Latest, LatestIndex
<1>b. Owned(id)
  BY <1>a, OwnedBefore
<1>1. CASE pair \in UnderWay
  <2>1. /\ id \in Ids /\ Status(id) = "running"
        /\ \A other \in UnderWay : other[1] = id => other = pair
    BY <1>a, <1>b, <1>1, OwnedRuns, UnderWayTasks
  <2>2. Status(id)' = "running"
    BY <1>a, <1>b, <2>1, StillRunning
  <2>3. ASSUME NEW other \in UnderWay', other[1] = id PROVE other \in UnderWay
    <3>1. ~Claimed(other)
      BY <2>1, <2>3 DEF Claimed, Claims
    <3>2. QED
      BY <3>1, UnderWayStep
  <2>4. QED
    BY <2>1, <2>2, <2>3
<1>2. CASE Claimed(pair)
  <2>1. /\ Status(id) = "queued" /\ Status(id)' = "running" /\ pair = <<id, runs + 1>>
    BY <1>a, <1>2 DEF Claimed, Claims
  <2>2. ASSUME NEW other \in UnderWay', other[1] = id PROVE other = pair
    <3>1. other \notin UnderWay
      <4>1. other \in UnderWay => Status(id) = "running"
        BY <1>b, <2>2, OwnedRuns
      <4>2. QED
        BY <2>1, <4>1
    <3>2. Claimed(other)
      BY <3>1, UnderWayStep
    <3>3. other = <<id, runs + 1>>
      BY <2>2, <3>2 DEF Claimed
    <3>4. QED
      BY <2>1, <3>3
  <2>3. QED
    BY <2>1, <2>2
<1>3. QED
  BY <1>1, <1>2, UnderWayStep

-----------------------------------------------------------------------------
(* What a step does to the review index and the decisions.                  *)

LEMMA NotFresh ==
  ASSUME NEW run, NEW id, Recorded(run, id)
  PROVE  ~Fresh(run)
BY DEF Fresh, Recorded

(* One bundle and one decision may come in, of a recorded run.              *)
Adds(run) ==
  /\ bundles' \in {bundles, bundles \cup {run}}
  /\ \/ decisions' = decisions
     \/ \E verdict \in Verdicts :
          decisions' = decisions \cup {[bundle |-> run, verdict |-> verdict]}

AddsOfRecord == \E run \in Run : ~Fresh(run) /\ Adds(run)

LEMMA EvidenceOfCommand ==
  ASSUME IInv, NEW w \in Workers, Step(w)
  PROVE  UNCHANGED <<bundles, decisions>> \/ AddsOfRecord
<1>a. ProcessAt(w) /\ proc[w] \in Proc
  BY DEF IInv, TypeOK, QueueInvariant
<1>b. ASSUME proc[w].at \in Setup, Adds(proc[w].run)
      PROVE  AddsOfRecord
  <2>1. proc[w].run \in Run /\ CommitRecorded(Pair(w))
    BY <1>a, <1>b, TaskOfCommand DEF ProcessAt
  <2>2. ~Fresh(proc[w].run)
    BY <2>1, CommitIsRecord DEF Pair
  <2>3. QED
    BY <1>b, <2>1, <2>2 DEF AddsOfRecord
<1>1. CASE RepairExport(w)
  <2>1. PICK pair \in proc[w].todo : bundles' = bundles \cup {pair[2]}
    BY <1>1 DEF RepairExport
  <2>2. pair[2] \in Run
    BY <1>a, <2>1 DEF Proc
  <2>3. Recorded(pair[2], pair[1]) /\ Adds(pair[2])
    BY <1>a, <1>1, <2>1 DEF RepairExport, ProcessAt, Adds
  <2>4. QED
    BY <2>2, <2>3, NotFresh DEF AddsOfRecord
<1>2. CASE Export(w)
  <2>1. proc[w].at \in Setup /\ Adds(proc[w].run)
    BY <1>2 DEF Export, Setup, Adds
  <2>2. QED
    BY <1>b, <2>1
<1>3. ASSUME NEW verdict \in Verdicts, CriticAnswers(w, verdict)
      PROVE  AddsOfRecord
  <2>1. proc[w].at \in Setup
    BY <1>3 DEF CriticAnswers, Setup
  <2>2. Adds(proc[w].run)
    BY <1>3 DEF CriticAnswers, Adds
  <2>3. QED
    BY <1>b, <2>1, <2>2
<1>4. CASE \/ Begin(w) \/ ListUnbundled(w) \/ RepairAttach(w) \/ Claim(w) \/ NothingToClaim(w)
           \/ WorkCommits(w) \/ WorkReturns(w) \/ WorkContended(w) \/ WorkRaises(w)
           \/ RecordFailure(w) \/ RecordResult(w) \/ CloseOperation(w) \/ Attach(w) \/ AskCritic(w)
           \/ CriticFails(w) \/ AfterException(w) \/ FailReviewSetup(w) \/ Crash(w)
  BY <1>4 DEF Begin, ListUnbundled, RepairAttach, Claim, NothingToClaim, WorkCommits, WorkReturns,
              WorkContended, WorkRaises, RecordFailure, RecordResult, CloseOperation, Attach,
              AskCritic, CriticFails, AfterException, FailReviewSetup, Crash
<1>5. QED
  BY <1>1, <1>2, <1>3, <1>4 DEF Step

LEMMA EvidenceOfOperator ==
  ASSUME IInv, Operator \/ UNCHANGED vars
  PROVE  UNCHANGED <<bundles, decisions>> \/ AddsOfRecord
<1>1. ASSUME NEW d \in [bundle : bundles, verdict : Verdicts],
             ImportDecision(d) \/ ImportInterrupted(d)
      PROVE  AddsOfRecord
  <2>1. ~Fresh(d.bundle) /\ d.bundle \in Run
    BY DEF IInv, TypeOK, QueueInvariant, RunsKnown
  <2>2. d = [bundle |-> d.bundle, verdict |-> d.verdict] /\ d.verdict \in Verdicts
    OBVIOUS
  <2>3. Adds(d.bundle)
    BY <1>1, <2>2 DEF Adds, ImportDecision, ImportInterrupted
  <2>4. QED
    BY <2>1, <2>3 DEF AddsOfRecord
<1>2. QED
  BY <1>1 DEF Operator, vars, Enqueue, Retry, Recover, ConfirmRework, ResolveEscalation,
              OperatorMoves, RollbackBegins, RollbackCompletes, RollbackReverted,
              CompleteState, FinishLedger

LEMMA EvidenceStep ==
  ASSUME IInv, [Next]_vars
  PROVE  /\ bundles' \subseteq Run
         /\ decisions' \subseteq [bundle : Run, verdict : Verdicts]
         /\ decisions \subseteq decisions'
         /\ \A bundle \in bundles' : ~Fresh(bundle)'
         /\ \A d \in decisions' : ~Fresh(d.bundle)'
<1>0. /\ bundles \subseteq Run /\ decisions \subseteq [bundle : Run, verdict : Verdicts]
      /\ \A bundle \in bundles : ~Fresh(bundle)
      /\ \A d \in decisions : ~Fresh(d.bundle)
  BY DEF IInv, TypeOK, QueueInvariant, RunsKnown
<1>2. \A run : ~Fresh(run) => ~Fresh(run)'
  BY RecordedGrows
<1>4. CASE UNCHANGED <<bundles, decisions>>
  BY <1>0, <1>2, <1>4
<1>5. CASE AddsOfRecord
  <2>0. PICK run \in Run : ~Fresh(run) /\ Adds(run)
    BY <1>5 DEF AddsOfRecord
  <2>1. ~Fresh(run)'
    BY <1>2, <2>0
  <2>2. bundles' \subseteq bundles \cup {run}
    BY <2>0 DEF Adds
  <2>3. /\ decisions \subseteq decisions'
        /\ \A d \in decisions' : \/ d \in decisions
                                 \/ d \in [bundle : Run, verdict : Verdicts] /\ d.bundle = run
    BY <2>0 DEF Adds
  <2>4. QED
    BY <1>0, <1>2, <2>0, <2>1, <2>2, <2>3
<1>6. QED
  BY <1>4, <1>5, EvidenceOfCommand, EvidenceOfOperator DEF Next

-----------------------------------------------------------------------------
(* Run ids are handed out once, recorded once and worked on by one command. *)

LEMMA RunsOfWorkers ==
  ASSUME IInv, [Next]_vars, NEW u \in Workers, NEW v \in Workers,
         Working(u)', Working(v)', proc'[u].run = proc'[v].run
  PROVE  u = v
<1>0. runs \in Nat
  BY CommandsStep
<1>3. \A t \in Workers : Continues(t) => proc'[t].run \in 1..runs
  BY TaskOfCommand DEF Continues
<1>4. Continues(u) /\ Continues(v) => u = v
  BY DEF Continues, IInv, QueueInvariant, RunsKnown
<1>5. \A t \in Workers : Working(t)' => Continues(t) \/ (Step(t) /\ proc'[t].run = runs + 1)
  BY WorkingStep DEF Claims
<1>6. CASE Continues(u) /\ Continues(v)
  BY <1>4, <1>6
<1>7. ASSUME ~Continues(u), Step(u) PROVE u = v
  <2>1. proc'[v].run = runs + 1
    BY <1>5, <1>7
  <2>2. ~Continues(v)
    BY <1>0, <1>3, <2>1
  <2>3. Working(v)' /\ Step(v)
    BY <1>5, <2>2
  <2>4. u # v => proc'[v] = proc[v]
    BY <1>7, CommandTypes DEF Alters
  <2>5. proc'[v] = proc[v] => Continues(v)
    BY <2>3 DEF Working, Continues
  <2>6. QED
    BY <2>2, <2>4, <2>5
<1>8. ASSUME Continues(u), ~Continues(v) PROVE u = v
  <2>1. proc'[u].run = runs + 1 /\ proc'[u].run \in 1..runs
    BY <1>3, <1>5, <1>8
  <2>2. QED
    BY <1>0, <2>1
<1>9. QED
  BY <1>5, <1>6, <1>7, <1>8

LEMMA HistoryOfRuns ==
  ASSUME IInv, [Next]_vars
  PROVE  /\ \A i, j \in DOMAIN history' :
              history'[i].run # None /\ history'[i].run = history'[j].run => i = j
         /\ \A i \in DOMAIN history' :
              /\ Known(history[i].id)'
              /\ history'[i].run # None => history'[i].run \in 1..runs'
              /\ history'[i].result = "commit" => history'[i].run # None
<1>0. /\ runs \in Nat /\ runs' \in 0..MaxRuns /\ runs <= runs' /\ MaxRuns \in Nat
      /\ Grows
  BY CommandsStep, HistoryStep, TaskConstants DEF ConstantsOK
<1>1. \A id : Known(id) => Known(id)'
  BY QueueKept
<1>2. \A i \in DOMAIN history : i \in DOMAIN history' /\ history'[i] = history[i]
  BY RecordedGrows
<1>3. /\ \A i, j \in DOMAIN history :
           history[i].run # None /\ history[i].run = history[j].run => i = j
      /\ \A i \in DOMAIN history :
           /\ Known(history[i].id)
           /\ history[i].run # None => history[i].run \in 1..runs
           /\ history[i].result = "commit" => history[i].run # None
  BY DEF IInv, QueueInvariant, RunsKnown
<1>4. ASSUME NEW rec, Records(rec)
      PROVE  /\ \A i \in DOMAIN history' :
                  (i \in DOMAIN history) \/ (i = Len(history) + 1 /\ history'[i] = rec)
             /\ Known(rec.id)
             /\ rec.result = "commit" => rec.run # None
             /\ rec.run # None => rec.run \in 1..runs /\ Fresh(rec.run)
  BY <1>4, RecordAppended DEF Records, OfNewRun
<1>5. ASSUME NEW i \in DOMAIN history', NEW j \in DOMAIN history',
             history'[i].run # None, history'[i].run = history'[j].run
      PROVE  i = j
  <2>1. CASE history' = history
    BY <1>3, <1>5, <2>1
  <2>2. ASSUME NEW rec, Records(rec) PROVE i = j
    BY <1>2, <1>3, <1>4, <1>5, <2>2 DEF Fresh
  <2>3. QED
    BY <1>0, <2>1, <2>2 DEF Grows
<1>6. ASSUME NEW i \in DOMAIN history', NEW id, id = history'[i].id
      PROVE  /\ Known(id)'
             /\ history'[i].run # None => history'[i].run \in 1..runs'
             /\ history'[i].result = "commit" => history'[i].run # None
  <2>1. CASE i \in DOMAIN history
    BY <1>0, <1>1, <1>2, <1>3, <1>6, <2>1
  <2>2. CASE i \notin DOMAIN history
    <3>1. PICK rec : Records(rec)
      BY <1>0, <1>6, <2>2 DEF Grows
    <3>2. history'[i] = rec
      BY <1>4, <1>6, <2>2, <3>1
    <3>3. Known(id)'
      BY <1>1, <1>4, <1>6, <3>1, <3>2
    <3>4. QED
      BY <1>0, <1>4, <3>1, <3>2, <3>3
  <2>3. QED
    BY <2>1, <2>2
<1>7. QED
  BY <1>5, <1>6 DEF Known, EntriesOf

LEMMA RunsKnownStep ==
  ASSUME IInv, [Next]_vars
  PROVE  RunsKnown'
<1>1. /\ \A bundle \in bundles' : ~Fresh(bundle)'
      /\ \A d \in decisions' : ~Fresh(d.bundle)'
  BY EvidenceStep
<1>2. \A u, v \in Workers :
        Working(u)' /\ Working(v)' /\ proc'[u].run = proc'[v].run => u = v
  BY RunsOfWorkers
<1>3. QED
  BY <1>1, <1>2, HistoryOfRuns DEF RunsKnown, Fresh

-----------------------------------------------------------------------------
(* The open operation.                                                      *)

LEMMA OpenRunsStep ==
  ASSUME IInv, [Next]_vars
  PROVE  OpenRuns'
<1>0. /\ runs \in Nat /\ runs' \in 0..MaxRuns /\ runs <= runs' /\ MaxRuns \in Nat
      /\ proc' \in [Workers -> Proc]
  BY CommandsStep, TaskConstants DEF ConstantsOK
<1>k. /\ \A id : Known(id) => Known(id)'
      /\ \A pair : CommitRecorded(pair) => CommitRecorded(pair)'
  BY QueueKept, RecordedGrows
<1>1. \A pair, other \in open' : pair = other
  <2>1. CASE open' \subseteq open
    BY <2>1 DEF IInv, QueueInvariant, OpenRuns
  <2>2. CASE ~(open' \subseteq open)
    <3>1. PICK w \in Workers : WorkCommits(w)
      BY <2>2, OpenStep
    <3>2. open' = {Pair(w)}
      BY <3>1, WorkOnCommits
    <3>3. QED
      BY <3>2
  <2>3. QED
    BY <2>1, <2>2
<1>2. ASSUME NEW pair \in open'
      PROVE  /\ Known(pair[1])' /\ pair[2] \in 1..runs'
             /\ Fresh(pair[2])' \/ CommitRecorded(pair)'
             /\ \A w \in Workers : Working(w)' /\ proc'[w].run = pair[2] =>
                  pair = <<proc'[w].id, proc'[w].run>>
  <2>1. CASE pair \in open
    <3>1. /\ Known(pair[1]) /\ pair[2] \in 1..runs /\ pair \in Ids \X Run
          /\ Fresh(pair[2]) \/ CommitRecorded(pair)
          /\ \A w \in Workers : Working(w) /\ proc[w].run = pair[2] => Pair(w) = pair
      BY <2>1 DEF IInv, TypeOK, QueueInvariant, OpenRuns
    <3>2. Fresh(pair[2])' \/ CommitRecorded(pair)'
      <4> SUFFICES ASSUME ~Fresh(pair[2])', Fresh(pair[2]) PROVE CommitRecorded(pair)'
        BY <1>k, <3>1
      <4>1. PICK rec : Records(rec) /\ rec.run = pair[2]
        BY FreshUntilRecorded
      <4>2. pair[2] # None
        BY <3>1, NoneIsNoRun
      <4>3. rec.result = "commit" /\ rec.id = pair[1]
        BY <2>1, <4>1, <4>2 DEF Records, OfNewRun
      <4>4. Len(history) + 1 \in DOMAIN history' /\ history'[Len(history) + 1] = rec
        BY <4>1, RecordAppended
      <4>5. QED
        BY <4>1, <4>3, <4>4 DEF CommitRecorded
    <3>3. ASSUME NEW w \in Workers, Working(w)', proc'[w].run = pair[2]
          PROVE  pair = <<proc'[w].id, proc'[w].run>>
      <4>1. pair[2] \in 1..runs
        BY <3>1
      <4>2. Continues(w)
        BY <1>0, <3>3, <4>1, WorkingStep DEF Claims
      <4>3. QED
        BY <3>1, <3>3, <4>2 DEF Continues, Pair
    <3>4. pair[2] \in 1..runs'
      BY <1>0, <3>1
    <3>5. QED
      BY <1>k, <3>1, <3>2, <3>3, <3>4
  <2>2. CASE pair \notin open
    <3>1. PICK w \in Workers : WorkCommits(w) /\ pair = Pair(w)
      BY <1>2, <2>2, OpenStep
    <3>2. /\ Working(w) /\ proc' = proc /\ history' = history /\ runs' = runs
          /\ Fresh(proc[w].run)
      BY <3>1, WorkOnCommits
    <3>3. /\ Known(pair[1]) /\ pair[2] \in 1..runs /\ pair[2] = proc[w].run
      BY <3>1, <3>2, TaskOfCommand DEF Pair
    <3>4. Fresh(pair[2])'
      BY <3>2, <3>3 DEF Fresh
    <3>5. ASSUME NEW v \in Workers, Working(v)', proc'[v].run = pair[2]
          PROVE  pair = <<proc'[v].id, proc'[v].run>>
      <4>1. Working(v) /\ proc[v].run = proc[w].run
        BY <3>2, <3>3, <3>5 DEF Working
      <4>2. v = w
        BY <3>2, <4>1 DEF IInv, QueueInvariant, RunsKnown
      <4>3. QED
        BY <3>1, <3>2, <4>2 DEF Pair
    <3>6. QED
      BY <1>k, <3>2, <3>3, <3>4, <3>5
  <2>3. QED
    BY <2>1, <2>2
<1>3. ASSUME NEW pair \in open'
      PROVE  /\ Known(pair[1])' /\ pair[2] \in 1..runs'
             /\ Fresh(pair[2])' \/ CommitRecorded(pair)'
             /\ \A w \in Workers : (Working(w) /\ proc[w].run = pair[2] => Pair(w) = pair)'
  BY <1>2, <1>3 DEF Pair, Working
<1>4. QED
  BY <1>1, <1>3 DEF OpenRuns, Known, EntriesOf, Fresh, CommitRecorded

-----------------------------------------------------------------------------
(* What closes a task.                                                      *)

(* The first record with a run id is the only one.                          *)
FirstRecord(h, run) == h[CHOOSE i \in DOMAIN h : h[i].run = run].id

LEMMA OneRecord ==
  ASSUME NEW h, NEW run, NEW j \in DOMAIN h, h[j].run = run, run # None,
         \A i, k \in DOMAIN h : h[i].run # None /\ h[i].run = h[k].run => i = k
  PROVE  FirstRecord(h, run) = h[j].id
<1> DEFINE first == CHOOSE i \in DOMAIN h : h[i].run = run
<1>1. first \in DOMAIN h /\ h[first].run = run
  OBVIOUS
<1>2. first = j
  BY <1>1
<1>3. QED
  BY <1>2 DEF FirstRecord

LEMMA DoneNeedsApprovalStep ==
  ASSUME IInv, [Next]_vars
  PROVE  DoneNeedsApproval'
<1>a. SUFFICES ASSUME Required, NEW i \in DOMAIN queue', queue'[i].status = "done"
               PROVE  \E d \in decisions' : /\ d.verdict = "approve"
                                            /\ d.bundle = queue'[i].decision
                                            /\ TaskOf(d.bundle)' = queue'[i].id
  BY DEF DoneNeedsApproval
<1>0. /\ queue \in Seq(Entry) /\ QueueChanges /\ DoneNeedsApproval
      /\ \A d \in decisions : ~Fresh(d.bundle) /\ d.bundle # None
      /\ \A j, k \in DOMAIN history :
           history[j].run # None /\ history[j].run = history[k].run => j = k
  BY QueueStep, NoneIsNoRun DEF IInv, TypeOK, QueueInvariant, RunsKnown
<1>1. /\ \A j, k \in DOMAIN history' :
           history'[j].run # None /\ history'[j].run = history'[k].run => j = k
      /\ \A j \in DOMAIN history : j \in DOMAIN history' /\ history'[j] = history[j]
      /\ decisions \subseteq decisions'
      /\ \A d \in decisions' : d.bundle # None
  BY HistoryOfRuns, RecordedGrows, EvidenceStep, NoneIsNoRun
<1>2. ASSUME NEW run, NEW id, Recorded(run, id), run # None
      PROVE  TaskOf(run)' = id
  <2>1. PICK j \in DOMAIN history : history[j].run = run /\ history[j].id = id
    BY <1>2 DEF Recorded
  <2>2. j \in DOMAIN history' /\ history'[j].run = run /\ history'[j].id = id
    BY <1>1, <2>1
  <2>3. FirstRecord(history', run) = history'[j].id
    BY <1>1, <1>2, <2>2, OneRecord
  <2>4. TaskOf(run)' = FirstRecord(history', run)
    BY DEF TaskOf, FirstRecord
  <2>5. QED
    BY <2>2, <2>3, <2>4
<1>3. ASSUME i \in DOMAIN queue, queue'[i] = queue[i]
      PROVE  \E d \in decisions' : /\ d.verdict = "approve"
                                   /\ d.bundle = queue'[i].decision
                                   /\ TaskOf(d.bundle)' = queue'[i].id
  <2>1. PICK d \in decisions : /\ d.verdict = "approve" /\ d.bundle = queue[i].decision
                               /\ TaskOf(d.bundle) = queue[i].id
    BY <1>0, <1>a, <1>3 DEF DoneNeedsApproval
  <2>2. PICK j \in DOMAIN history : history[j].run = d.bundle
    BY <1>0 DEF Fresh
  <2>3. FirstRecord(history, d.bundle) = history[j].id
    BY <1>0, <2>2, OneRecord
  <2>4. Recorded(d.bundle, queue[i].id)
    BY <2>1, <2>2, <2>3 DEF TaskOf, FirstRecord, Recorded
  <2>5. TaskOf(d.bundle)' = queue[i].id
    BY <1>0, <1>2, <2>4
  <2>6. QED
    BY <1>1, <1>3, <2>1, <2>5
<1>4. CASE UNCHANGED queue
  BY <1>3, <1>4
<1>5. ASSUME NEW batch \in Batches, Enqueue(batch)
      PROVE  i \in DOMAIN queue /\ queue'[i] = queue[i]
  <2>1. /\ \A j \in DOMAIN queue : queue'[j] = queue[j]
        /\ \A j \in DOMAIN queue' \ DOMAIN queue :
             \E k \in DOMAIN batch : queue'[j] = NewEntry(batch[k])
    BY <1>0, <1>5, Enqueued
  <2>2. QED
    BY <1>a, <2>1 DEF NewEntry
<1>6. ASSUME NEW id \in Ids, NEW e, Moves(id, e)
      PROVE  \E d \in decisions' : /\ d.verdict = "approve"
                                   /\ d.bundle = queue'[i].decision
                                   /\ TaskOf(d.bundle)' = queue'[i].id
  <2>1. Changes(id, e) /\ e.id = id /\ (e.status = "done" => Approved(id, e))
    BY <1>6, <1>a DEF Moves, Changes
  <2>2. /\ DOMAIN queue' = DOMAIN queue
        /\ queue'[LatestIndex(id)] = e
        /\ \A j \in DOMAIN queue \ {LatestIndex(id)} : queue'[j] = queue[j]
    BY <1>0, <2>1, Changed
  <2>3. CASE i = LatestIndex(id)
    <3>1. PICK d \in decisions' : /\ d.verdict = "approve" /\ d.bundle = e.decision
                                  /\ Recorded(d.bundle, id)
      BY <1>a, <2>1, <2>2, <2>3 DEF Approved
    <3>2. TaskOf(d.bundle)' = id
      BY <1>1, <1>2, <3>1
    <3>3. QED
      BY <2>1, <2>2, <2>3, <3>1, <3>2
  <2>4. CASE i # LatestIndex(id)
    BY <1>3, <2>2, <2>4
  <2>5. QED
    BY <2>3, <2>4
<1>7. QED
  BY <1>0, <1>3, <1>4, <1>5, <1>6 DEF QueueChanges

-----------------------------------------------------------------------------
(* The invariant, and the theorems.                                         *)

LEMMA RollingTyped ==
  ASSUME IInv, [Next]_vars
  PROVE  rolling' \in Ids \cup {None}
<1>1. ASSUME NEW w \in Workers, Step(w) PROVE rolling' = rolling
  BY <1>1, CommandTypes
<1>2. CASE Operator \/ UNCHANGED vars
  BY <1>2 DEF IInv, TypeOK, Operator, vars, Enqueue, Retry, Recover, ConfirmRework,
              ResolveEscalation, OperatorMoves, RollbackBegins, RollbackCompletes,
              RollbackReverted, ImportDecision, ImportInterrupted, CompleteState, FinishLedger
<1>3. QED
  BY <1>1, <1>2 DEF Next, IInv, TypeOK

LEMMA TypeOKStep ==
  ASSUME IInv, [Next]_vars
  PROVE  TypeOK'
<1>1. /\ queue' \in Seq(Entry) /\ history' \in Seq(RunRecord)
      /\ bundles' \subseteq Run /\ decisions' \subseteq [bundle : Run, verdict : Verdicts]
      /\ open' \subseteq Ids \X Run
  BY QueueKept, RecordedGrows, EvidenceStep, OpenTyped
<1>2. proc' \in [Workers -> Proc] /\ runs' \in 0..MaxRuns /\ rolling' \in Ids \cup {None}
  BY CommandsStep, RollingTyped
<1>3. QED
  BY <1>1, <1>2, AloneKept DEF IInv, TypeOK

LEMMA InitHolds ==
  ASSUME Init
  PROVE  IInv
<1>1. MaxRuns \in Nat /\ MaxEntries \in Nat
  BY TaskConstants DEF ConstantsOK
<1>2. DOMAIN queue = {} /\ DOMAIN history = {} /\ open = {}
  BY DEF Init
<1>3. Idle \in Proc /\ Idle.at = "idle"
  BY DEF Idle, Proc, Places
<1>4. TypeOK
  BY <1>1, <1>3 DEF Init, TypeOK
<1>5. \A w \in Workers : proc[w].at = "idle"
  BY <1>3 DEF Init
<1>6. OneActiveEntry /\ AttemptsBounded /\ DoneNeedsApproval
  BY <1>2 DEF OneActiveEntry, AttemptsBounded, DoneNeedsApproval
<1>7. RunsKnown /\ OpenRuns /\ \A w \in Workers : ProcessAt(w)
  BY <1>2, <1>5 DEF Init, RunsKnown, OpenRuns, ProcessAt, Working, Setup
<1>8. RunnerOwnsTask
  BY <1>2, <1>5 DEF RunnerOwnsTask, UnderWay, Working
<1>9. OpenTasksAcyclic
  <2>1. Open = {}
    BY <1>2 DEF Open, Known, EntriesOf
  <2>2. \A S \in SUBSET Open : S = {}
    BY <2>1
  <2>3. QED
    BY <2>2, OpenGraph
<1>10. QED
  BY <1>4, <1>6, <1>7, <1>8, <1>9 DEF IInv, QueueInvariant

LEMMA InvariantStep ==
  ASSUME IInv, [Next]_vars
  PROVE  IInv'
<1>1. TypeOK'
  BY TypeOKStep
<1>2. OneActiveEntry' /\ RunnerOwnsTask' /\ AttemptsBounded'
  BY OneActiveEntryStep, RunnerOwnsTaskStep, AttemptsBoundedStep
<1>3. DoneNeedsApproval' /\ OpenTasksAcyclic' /\ RunsKnown' /\ OpenRuns'
  BY DoneNeedsApprovalStep, OpenTasksAcyclicStep, RunsKnownStep, OpenRunsStep
<1>4. \A w \in Workers : ProcessAt(w)'
  BY ProcessAtStep
<1>5. QED
  BY <1>1, <1>2, <1>3, <1>4 DEF IInv, QueueInvariant

(* The queue file, the run history, the review index, the open operation    *)
(* and what every queue command remembers fit together after every          *)
(* transaction of state.py, reconciliations and the handlers of exceptions  *)
(* included, for any tasks, commands, batches and limits.                   *)
THEOREM QueueIsSound == Spec => [](TypeOK /\ QueueInvariant)
<1>1. Init => IInv
  BY InitHolds
<1>2. IInv /\ [Next]_vars => IInv'
  BY InvariantStep
<1>3. IInv => TypeOK /\ QueueInvariant
  BY DEF IInv
<1>4. QED
  BY <1>1, <1>2, <1>3, PTL DEF Spec

(* enqueue_many against every later transaction: an id never has two open   *)
(* entries, and the open one is what _get_task and schedule() look at.      *)
THEOREM OneEntryIsActive == Spec => []OneActiveEntry
<1>1. TypeOK /\ QueueInvariant => OneActiveEntry
  BY DEF QueueInvariant
<1>2. QED
  BY <1>1, QueueIsSound, PTL

(* claim_next, record_result by the command or by a reconciliation, and     *)
(* record_failure, recover_running, retry and rework of any number of       *)
(* commands: the task of a run under way is running, and no other run of it *)
(* is; with exceptions after a commit and recoveries despite one, so for    *)
(* the tasks that have no committed run.  A task starts at most             *)
(* max_attempts times.                                                      *)
THEOREM RunsHaveOneOwner == Spec => []RunsAreOwnedAndCounted
<1>1. TypeOK /\ QueueInvariant => RunsAreOwnedAndCounted
  BY DEF QueueInvariant, RunsAreOwnedAndCounted
<1>2. QED
  BY <1>1, QueueIsSound, PTL

(* _validate_enqueue_graph looks only at the entries that are not done when *)
(* a batch comes in; that is enough for the open tasks to stay acyclic.     *)
THEOREM OpenTasksStayAcyclic == Spec => []OpenTasksAcyclic
<1>1. TypeOK /\ QueueInvariant => OpenTasksAcyclic
  BY DEF QueueInvariant
<1>2. QED
  BY <1>1, QueueIsSound, PTL

(* import_decision and resolve_review, with the critic, reviewers outside   *)
(* and a crash in between: in required mode nothing else closes a task.     *)
THEOREM DoneIsApproved == Spec => []DoneNeedsApproval
<1>1. TypeOK /\ QueueInvariant => DoneNeedsApproval
  BY DEF QueueInvariant
<1>2. QED
  BY <1>1, QueueIsSound, PTL

(* record_result, recover_running, retry, resolve_review and the repair of  *)
(* reviews: whichever comes late leaves a closed task closed, and only      *)
(* complete_rollback moves it on.  The one exception is the record_failure  *)
(* of a handler whose command has committed, and it needs a live command    *)
(* that works on that task.                                                 *)
THEOREM ClosedIsFinal == Spec => ClosedStaysClosed
<1> DEFINE Stays == \A i \in DOMAIN queue :
             queue[i].status \in {"done", "rolled_back"} =>
               \/ queue'[i].status = queue[i].status
               \/ queue[i].status = "done" /\ queue'[i].status = "rolled_back"
               \/ /\ ~orderly
                  /\ queue'[i].status = "failed"
                  /\ \E w \in Workers : /\ proc[w].at \in {"work", "reconciling"}
                                        /\ proc[w].id = queue[i].id
<1>1. Init => IInv
  BY InitHolds
<1>2. IInv /\ [Next]_vars => IInv'
  BY InvariantStep
<1>3. IInv /\ [Next]_vars => [Stays]_vars
  <2> SUFFICES ASSUME IInv, [Next]_vars PROVE Stays
    OBVIOUS
  <2>1. QED
    BY ClosedStaysClosedStep
<1>4. QED
  BY <1>1, <1>2, <1>3, PTL DEF Spec, ClosedStaysClosed

-----------------------------------------------------------------------------
(* One command at a time: closing on the approval of the very commit.       *)

OneByOne == IInv /\ ApprovalInvariant /\ alone /\ Required /\ ~Automatic

(* The step brings no task under review, and changes an entry of S at most. *)
Plain(S) ==
  \/ UNCHANGED queue
  \/ \E batch \in Batches : Enqueue(batch)
  \/ \E id \in S : \E e : /\ Changes(id, e) /\ e.status # "review_pending"
                          /\ Covered(e, decisions')

\* The tasks that are not running, or that no command works on.
Unowned == {id \in Ids : Status(id) # "running" \/ Interrupted(id)}

LEMMA PlainKeeps ==
  ASSUME IInv, Plain(Ids), NEW x, Status(x)' = "review_pending"
  PROVE  Known(x) /\ Status(x) = "review_pending" /\ Latest(x)' = Latest(x)
<1>0. queue \in Seq(Entry)
  BY DEF IInv, TypeOK
<1>1. Status(x) = "review_pending" => Known(x)
  BY KnownStatus
<1>2. CASE UNCHANGED queue
  BY <1>1, <1>2 DEF Status, Known, EntriesOf, Latest, LatestIndex
<1>3. ASSUME NEW batch \in Batches, Enqueue(batch)
      PROVE  Known(x) /\ Status(x) = "review_pending" /\ Latest(x)' = Latest(x)
  <2>1. \A k \in DOMAIN batch : batch[k].id # x
    BY <1>0, <1>3, Enqueued
  <2>2. QED
    BY <1>0, <1>1, <1>3, <2>1, Enqueued
<1>4. ASSUME NEW id \in Ids, NEW e, Changes(id, e), e.status # "review_pending"
      PROVE  Known(x) /\ Status(x) = "review_pending" /\ Latest(x)' = Latest(x)
  <2>1. x # id
    BY <1>0, <1>4, Changed
  <2>2. QED
    BY <1>0, <1>1, <1>4, <2>1, Changed
<1>5. QED
  BY <1>2, <1>3, <1>4 DEF Plain

LEMMA CoveredStays ==
  ASSUME NEW e, NEW given, NEW more, given \subseteq more, Covered(e, given)
  PROVE  Covered(e, more)
BY DEF Covered

LEMMA PlainCovers ==
  ASSUME IInv, Plain(Ids), decisions \subseteq decisions',
         \A i \in DOMAIN queue : Covered(queue[i], decisions)
  PROVE  \A i \in DOMAIN queue' : Covered(queue'[i], decisions')
<1> SUFFICES ASSUME NEW i \in DOMAIN queue' PROVE Covered(queue'[i], decisions')
  OBVIOUS
<1>0. queue \in Seq(Entry)
  BY DEF IInv, TypeOK
<1>1. i \in DOMAIN queue /\ queue'[i] = queue[i] => Covered(queue'[i], decisions')
  BY CoveredStays
<1>2. CASE UNCHANGED queue
  BY <1>1, <1>2
<1>3. ASSUME NEW batch \in Batches, Enqueue(batch) PROVE Covered(queue'[i], decisions')
  <2>1. \/ i \in DOMAIN queue /\ queue'[i] = queue[i]
        \/ \E k \in DOMAIN batch : queue'[i] = NewEntry(batch[k])
    BY <1>0, <1>3, Enqueued
  <2>2. \A k \in DOMAIN batch : Covered(NewEntry(batch[k]), decisions')
    BY DEF NewEntry, Covered
  <2>3. QED
    BY <1>1, <2>1, <2>2
<1>4. ASSUME NEW id \in Ids, NEW e, Changes(id, e), Covered(e, decisions')
      PROVE  Covered(queue'[i], decisions')
  <2>1. i \in DOMAIN queue /\ (queue'[i] = e \/ queue'[i] = queue[i])
    BY <1>0, <1>4, Changed
  <2>2. QED
    BY <1>1, <1>4, <2>1
<1>5. QED
  BY <1>2, <1>3, <1>4 DEF Plain

(* A task that is not under review has no bundle.                           *)
LEMMA BundleOfLatest ==
  ASSUME IInv, ApprovalInvariant, NEW id, Known(id)
  PROVE  /\ Covered(Latest(id), decisions)
         /\ Status(id) = Latest(id).status
         /\ Status(id) # "review_pending" => Latest(id).bundle = None
<1>1. LatestIndex(id) \in DOMAIN queue
  BY LatestEntry DEF IInv, TypeOK
<1>2. Covered(Latest(id), decisions)
  BY <1>1 DEF ApprovalInvariant, Latest
<1>3. QED
  BY <1>2 DEF Covered, Status

LEMMA PlainMove ==
  ASSUME IInv, NEW S, NEW id \in S, Known(id), NEW e \in Entry,
         e.id = id, e.deps = Latest(id).deps, SetLatest(id, e), e.bundle = None,
         e.status \notin {"review_pending", "done"}
  PROVE  Plain(S)
<1>1. Changes(id, e) /\ Covered(e, decisions')
  BY DEF Changes, Covered
<1>2. QED
  BY <1>1 DEF Plain

LEMMA ClaimPlain ==
  ASSUME IInv, ApprovalInvariant, NEW w \in Workers, Claim(w)
  PROVE  Plain(Ids)
<1>0. PICK id : id = queue[Selected].id
  OBVIOUS
<1>1. Selected \in DOMAIN queue /\ queue[Selected].status = "queued"
  BY SelectedIsReady DEF Claim, Ready, IInv, TypeOK
<1>2. queue[Selected] \in Entry
  BY <1>1 DEF IInv, TypeOK
<1>3. id \in Ids /\ Known(id)
  BY <1>0, <1>1, <1>2 DEF Known, EntriesOf, Entry
<1>4. queue[Selected] = Latest(id)
  BY <1>0, <1>1 DEF IInv, QueueInvariant, OneActiveEntry, Active, Latest
<1>5. PICK old : old = Latest(id)
  OBVIOUS
<1>6. old \in Entry /\ old.id = id /\ old.bundle = None /\ old.attempts \in Nat
  <2>1. old \in Entry /\ old.id = id
    BY <1>3, <1>5, AttemptsOfLatest
  <2>2. Status(id) # "review_pending"
    BY <1>1, <1>3, <1>4 DEF Status
  <2>3. QED
    BY <1>3, <1>5, <2>1, <2>2, BundleOfLatest DEF Entry
<1>7. CASE SetLatest(id, [old EXCEPT !.status = "escalated"])
  <2>1. PICK e : e = [old EXCEPT !.status = "escalated"]
    OBVIOUS
  <2>2. e \in Entry /\ e.id = id /\ e.deps = old.deps /\ e.bundle = None /\ e.status = "escalated"
    BY <1>6, <2>1 DEF Entry, Statuses, Active
  <2>3. QED
    BY <1>3, <1>5, <1>7, <2>1, <2>2, PlainMove
<1>8. CASE SetLatest(id, [old EXCEPT !.status = "running", !.attempts = @ + 1, !.commit = None])
  <2>1. PICK e : e = [old EXCEPT !.status = "running", !.attempts = @ + 1, !.commit = None]
    OBVIOUS
  <2>2. old.attempts + 1 \in Nat
    BY <1>6
  <2>3. e \in Entry /\ e.id = id /\ e.deps = old.deps /\ e.bundle = None /\ e.status = "running"
    BY <1>6, <2>1, <2>2 DEF Entry, Statuses, Active
  <2>4. QED
    BY <1>3, <1>5, <1>8, <2>1, <2>3, PlainMove
<1>9. QED
  BY <1>0, <1>5, <1>7, <1>8 DEF Claim

(* What AttachesTo says of a command that works on its task.                *)
LEMMA WorkerOf ==
  ASSUME IInv, ApprovalInvariant, NEW w \in Workers, Working(w)
  PROVE  /\ Fresh(proc[w].run) => Status(proc[w].id) = "running"
         /\ Latest(proc[w].id).bundle = None
<1>1. /\ Fresh(proc[w].run) => Status(proc[w].id) = "running"
      /\ ~Fresh(proc[w].run) /\ Status(proc[w].id) = "review_pending" =>
           Latest(proc[w].id).bundle = None
  BY DEF ApprovalInvariant, AttachesTo, HasRecord
<1>2. Known(proc[w].id)
  BY TaskOfCommand
<1>3. QED
  BY <1>1, <1>2, BundleOfLatest

LEMMA WorkPlain ==
  ASSUME IInv, ApprovalInvariant, NEW w \in Workers, WorkContended(w) \/ RecordFailure(w)
  PROVE  Plain(Ids)
<1>0. PICK id, old : id = proc[w].id /\ old = Latest(id)
  OBVIOUS
<1>1. Working(w)
  BY DEF WorkContended, RecordFailure, Working
<1>2. id \in Ids /\ Known(id) /\ old \in Entry /\ old.id = id
  BY <1>0, <1>1, TaskOfCommand
<1>3. old.bundle = None
  BY <1>0, <1>1, WorkerOf
<1>4. CASE UNCHANGED queue
  BY <1>4 DEF Plain
<1>5. CASE ~UNCHANGED queue
  <2>1. PICK e : e \in {[old EXCEPT !.status = "queued"],
                        [old EXCEPT !.status = "failed", !.commit = None]} /\ SetLatest(id, e)
    BY <1>0, <1>5 DEF WorkContended, RecordFailure
  <2>2. e \in Entry /\ e.id = id /\ e.deps = old.deps /\ e.bundle = None /\ e.status \in {"queued", "failed"}
    BY <1>2, <1>3, <2>1 DEF Entry, Statuses, Active
  <2>3. QED
    BY <1>0, <1>2, <2>1, <2>2, PlainMove
<1>6. QED
  BY <1>4, <1>5

(* A result with a commit brings the task under review without a bundle.    *)
Reviews(id, run) ==
  \E e : /\ Changes(id, e)
         /\ e.status = "review_pending" /\ e.bundle = None /\ e.commit = run
         /\ history' = Append(history, [run |-> run, id |-> id, result |-> "commit"])

LEMMA TakesReviews ==
  ASSUME OneByOne, NEW id \in Ids, NEW run \in Run, Status(id) = "running",
         Takes(id, run, "commit")
  PROVE  Reviews(id, run)
<1>0. PICK old : old = Latest(id)
  OBVIOUS
<1>1. Known(id) /\ old \in Entry /\ old.id = id
  BY <1>0, KnownStatus, AttemptsOfLatest DEF OneByOne
<1>2. old.bundle = None
  BY <1>0, <1>1, BundleOfLatest DEF OneByOne
<1>3. PICK e : e = [old EXCEPT !.status = "review_pending", !.commit = run]
  OBVIOUS
<1>4. /\ SetLatest(id, e)
      /\ history' = Append(history, [run |-> run, id |-> id, result |-> "commit"])
  BY <1>0, <1>3 DEF Takes, ResultStatus, OneByOne
<1>5. /\ e \in Entry /\ e.id = id /\ e.deps = old.deps /\ e.bundle = None
      /\ e.status = "review_pending" /\ e.commit = run
  BY <1>1, <1>2, <1>3 DEF Entry, Statuses, Active
<1>6. Changes(id, e)
  BY <1>0, <1>1, <1>4, <1>5 DEF Changes
<1>7. QED
  BY <1>4, <1>5, <1>6 DEF Reviews

LEMMA TakesPlain ==
  ASSUME OneByOne, NEW id \in Ids, NEW run \in Run, Status(id) = "running",
         Takes(id, run, "fail")
  PROVE  Plain(Ids)
<1>0. PICK old : old = Latest(id)
  OBVIOUS
<1>1. Known(id) /\ old \in Entry /\ old.id = id
  BY <1>0, KnownStatus, AttemptsOfLatest DEF OneByOne
<1>2. old.bundle = None
  BY <1>0, <1>1, BundleOfLatest DEF OneByOne
<1>3. PICK e : e = [old EXCEPT !.status = "failed", !.commit = None]
  OBVIOUS
<1>4. SetLatest(id, e)
  BY <1>0, <1>3 DEF Takes, ResultStatus
<1>5. e \in Entry /\ e.id = id /\ e.deps = old.deps /\ e.bundle = None /\ e.status = "failed"
  BY <1>1, <1>2, <1>3 DEF Entry, Statuses, Active
<1>6. QED
  BY <1>0, <1>1, <1>4, <1>5, PlainMove DEF OneByOne

(* A bundle is attached to the commit under review.                         *)
Attaches(id, e) ==
  /\ Changes(id, e)
  /\ Status(id) = "review_pending" /\ e.status = "review_pending"
  /\ e.commit = Latest(id).commit /\ e.bundle = e.commit

LEMMA AttachAttaches ==
  ASSUME IInv, NEW id \in Ids, NEW run \in Run, Status(id) = "review_pending",
         Latest(id).commit = run, AttachBundle(id, run)
  PROVE  \E e : Attaches(id, e)
<1>0. PICK old : old = Latest(id)
  OBVIOUS
<1>1. Known(id) /\ old \in Entry /\ old.id = id /\ old.status = "review_pending"
  BY <1>0, KnownStatus, AttemptsOfLatest
<1>2. PICK e : e = [old EXCEPT !.bundle = run]
  OBVIOUS
<1>3. /\ e \in Entry /\ e.id = id /\ e.deps = old.deps /\ e.status = "review_pending"
      /\ e.commit = old.commit /\ e.bundle = run
  BY <1>1, <1>2 DEF Entry
<1>4. SetLatest(id, e)
  BY <1>0, <1>2 DEF AttachBundle
<1>5. Attaches(id, e)
  BY <1>0, <1>1, <1>3, <1>4 DEF Attaches, Changes
<1>6. QED
  BY <1>5

LEMMA RepairAttaches ==
  ASSUME OneByOne, NEW w \in Workers, RepairAttach(w)
  PROVE  UNCHANGED queue \/ \E id \in Ids : \E e : Attaches(id, e)
<1>1. PICK pair \in proc[w].todo :
        \/ Status(pair[1]) = "review_pending" /\ AttachBundle(pair[1], pair[2])
        \/ UNCHANGED queue
  BY DEF RepairAttach
<1>2. proc[w] \in Proc /\ proc[w].at = "repair"
  BY DEF OneByOne, IInv, TypeOK, RepairAttach
<1>3. pair[1] \in Ids /\ pair[2] \in Run
  BY <1>2 DEF Proc
<1>4. Status(pair[1]) = "review_pending" => Latest(pair[1]).commit = pair[2]
  BY <1>2 DEF OneByOne, ApprovalInvariant, AttachesTo
<1>5. QED
  BY <1>1, <1>3, <1>4, AttachAttaches DEF OneByOne

LEMMA AttachIs ==
  ASSUME OneByOne, NEW w \in Workers, Attach(w)
  PROVE  \/ UNCHANGED queue /\ Goto(w, "failing")
         \/ (\E id \in Ids : \E e : Attaches(id, e)) /\ Finish(w)
<1>1. proc[w].at = "attach"
  BY DEF Attach
<1>2. proc[w].id \in Ids /\ proc[w].run \in Run
  BY <1>1, TaskOfCommand DEF Setup, OneByOne
<1>3. Status(proc[w].id) = "review_pending" => Latest(proc[w].id).commit = proc[w].run
  BY <1>1 DEF OneByOne, ApprovalInvariant, AttachesTo, HasRecord, Setup
<1>4. QED
  BY <1>2, <1>3, AttachAttaches DEF Attach, OneByOne

LEMMA AttachesKeeps ==
  ASSUME OneByOne, NEW id \in Ids, NEW e, Attaches(id, e), decisions \subseteq decisions'
  PROVE  /\ \A i \in DOMAIN queue' : Covered(queue'[i], decisions')
         /\ \A x : Status(x)' = "review_pending" =>
              /\ Status(x) = "review_pending" /\ Latest(x)'.commit = Latest(x).commit
              /\ x # id => Latest(x)' = Latest(x)
<1>0. /\ queue \in Seq(Entry) /\ Changes(id, e) /\ Known(id)
      /\ \A i \in DOMAIN queue : Covered(queue[i], decisions)
  BY DEF OneByOne, IInv, TypeOK, ApprovalInvariant, Attaches, Changes
<1>1. Covered(Latest(id), decisions) /\ Latest(id).status = "review_pending"
  BY <1>0, BundleOfLatest DEF OneByOne, Attaches
<1>2. Covered(e, decisions')
  BY <1>1 DEF Covered, Attaches
<1>3. ASSUME NEW i \in DOMAIN queue' PROVE Covered(queue'[i], decisions')
  <2>1. i \in DOMAIN queue /\ (queue'[i] = e \/ queue'[i] = queue[i])
    BY <1>0, Changed
  <2>2. QED
    BY <1>0, <1>2, <2>1, CoveredStays
<1>4. ASSUME NEW x, Status(x)' = "review_pending"
      PROVE  /\ Status(x) = "review_pending" /\ Latest(x)'.commit = Latest(x).commit
             /\ x # id => Latest(x)' = Latest(x)
  <2>1. CASE x = id
    BY <1>0, <2>1, Changed DEF Attaches
  <2>2. CASE x # id
    <3>1. Status(x) = "review_pending" /\ Known(x)
      BY <1>0, <1>4, <2>2, Changed, KnownStatus
    <3>2. QED
      BY <1>0, <2>2, <3>1, Changed
  <2>3. QED
    BY <2>1, <2>2
<1>5. QED
  BY <1>3, <1>4

LEMMA FailSetupPlain ==
  ASSUME OneByOne, NEW w \in Workers, FailReviewSetup(w)
  PROVE  Plain(Ids)
<1>0. PICK id, old : id = proc[w].id /\ old = Latest(id)
  OBVIOUS
<1>1. proc[w].at = "failSetup"
  BY DEF FailReviewSetup
<1>2. id \in Ids /\ Known(id) /\ old \in Entry /\ old.id = id
  BY <1>0, <1>1, TaskOfCommand DEF Setup, OneByOne
<1>3. CASE UNCHANGED queue
  BY <1>3 DEF Plain
<1>4. CASE Status(id) = "review_pending" /\ SetLatest(id, [old EXCEPT !.status = "failed"])
  <2>1. old.bundle = None
    BY <1>0, <1>1, <1>4 DEF OneByOne, ApprovalInvariant, AttachesTo, HasRecord, Setup
  <2>2. PICK e : e = [old EXCEPT !.status = "failed"]
    OBVIOUS
  <2>3. e \in Entry /\ e.id = id /\ e.deps = old.deps /\ e.bundle = None /\ e.status = "failed"
    BY <1>2, <2>1, <2>2 DEF Entry, Statuses, Active
  <2>4. QED
    BY <1>0, <1>2, <1>4, <2>2, <2>3, PlainMove DEF OneByOne
<1>5. QED
  BY <1>0, <1>3, <1>4 DEF FailReviewSetup

(* A decision closes a task on the bundle that is attached, so on the       *)
(* commit under review.                                                     *)
LEMMA DecisionPlain ==
  ASSUME OneByOne, NEW d \in [bundle : Run, verdict : Verdicts],
         ~Fresh(d.bundle), ApplyDecision(d), decisions' = decisions \cup {d}
  PROVE  Plain(Unowned)
<1>0. PICK id, old : id = TaskOf(d.bundle) /\ old = Latest(id)
  OBVIOUS
<1>1. PICK i \in DOMAIN history : id = history[i].id
  <2>1. PICK j \in DOMAIN history : history[j].run = d.bundle
    BY DEF Fresh
  <2>2. QED
    BY <1>0, <2>1 DEF TaskOf
<1>2. id \in Ids /\ Known(id)
  <2>1. history[i] \in RunRecord
    BY DEF OneByOne, IInv, TypeOK
  <2>2. QED
    BY <1>1, <2>1 DEF RunRecord, OneByOne, IInv, QueueInvariant, RunsKnown
<1>3. old \in Entry /\ old.id = id /\ Covered(old, decisions)
  BY <1>0, <1>2, AttemptsOfLatest, BundleOfLatest DEF OneByOne
<1>4. d.bundle \in Run /\ d.verdict \in Verdicts /\ d = [bundle |-> d.bundle, verdict |-> d.verdict]
  OBVIOUS
<1>5. CASE UNCHANGED queue
  BY <1>5 DEF Plain
<1>6. CASE /\ old.bundle = d.bundle /\ old.status = "review_pending"
           /\ SetLatest(id, [old EXCEPT !.status = DecisionStatus(d.verdict),
                                        !.bundle = None, !.decision = d.bundle])
  <2>1. PICK s : s = DecisionStatus(d.verdict)
    OBVIOUS
  <2>2. /\ s \in {"done", "rework_required", "escalated"}
        /\ s = "done" => d.verdict = "approve"
    BY <1>4, <2>1 DEF DecisionStatus, Verdicts
  <2>3. PICK e : e = [old EXCEPT !.status = s, !.bundle = None, !.decision = d.bundle]
    OBVIOUS
  <2>4. /\ e \in Entry /\ e.id = id /\ e.deps = old.deps /\ e.bundle = None
        /\ e.status = s /\ e.commit = old.commit
    BY <1>3, <1>4, <2>2, <2>3 DEF Entry, Statuses, Active
  <2>5. SetLatest(id, e)
    BY <1>6, <2>1, <2>3
  <2>6. d.bundle # None
    BY <1>4, TaskConstants DEF Run, ConstantsOK
  <2>7. old.commit = d.bundle
    BY <1>3, <1>6, <2>6 DEF Covered
  <2>8. s = "done" => [bundle |-> e.commit, verdict |-> "approve"] \in decisions'
    BY <1>4, <2>2, <2>4, <2>7
  <2>9. Covered(e, decisions')
    BY <2>2, <2>4, <2>8 DEF Covered
  <2>10. Changes(id, e)
    BY <1>0, <1>2, <2>4, <2>5 DEF Changes
  <2>11. id \in Unowned
    BY <1>0, <1>2, <1>6 DEF Unowned, Status
  <2>12. QED
    BY <2>2, <2>4, <2>9, <2>10, <2>11 DEF Plain
<1>7. QED
  BY <1>0, <1>5, <1>6 DEF ApplyDecision, Resolves

LEMMA OperatorMovesPlain ==
  ASSUME OneByOne, NEW id \in Ids,
         Retry(id) \/ Recover(id) \/ ConfirmRework(id) \/ ResolveEscalation(id)
  PROVE  Plain(Unowned)
<1>0. PICK old : old = Latest(id)
  OBVIOUS
<1>1. Status(id) \in {"failed", "running", "rework_required", "escalated"}
  BY DEF Retry, Recover, ConfirmRework, ResolveEscalation
<1>2. Known(id) /\ old \in Entry /\ old.id = id
  BY <1>0, <1>1, KnownStatus, AttemptsOfLatest DEF OneByOne
<1>3. old.bundle = None
  BY <1>0, <1>1, <1>2, BundleOfLatest DEF OneByOne
<1>4. PICK e : /\ SetLatest(id, e)
               /\ e \in {[old EXCEPT !.status = "queued"],
                         [old EXCEPT !.status = "queued", !.attempts = 0, !.bundle = None],
                         [old EXCEPT !.status = "failed", !.bundle = None],
                         [old EXCEPT !.status = "escalated"],
                         [old EXCEPT !.status = "queued", !.bundle = None]}
  <2>1. CASE Retry(id) \/ Recover(id)
    BY <1>0, <2>1 DEF Retry, Recover, OperatorMoves
  <2>2. CASE ConfirmRework(id)
    BY <1>0, <2>2 DEF ConfirmRework, OperatorMoves
  <2>3. CASE ResolveEscalation(id)
    BY <1>0, <2>3 DEF ResolveEscalation, OperatorMoves
  <2>4. QED
    BY <2>1, <2>2, <2>3
<1>5. /\ e \in Entry /\ e.id = id /\ e.deps = old.deps /\ e.bundle = None
      /\ e.status \in {"queued", "failed", "escalated"}
  <2> USE <1>2, <1>3 DEF Entry, Statuses, Active
  <2>1. CASE e = [old EXCEPT !.status = "queued"]
    BY <2>1
  <2>2. CASE e = [old EXCEPT !.status = "queued", !.attempts = 0, !.bundle = None]
    BY <2>2
  <2>3. CASE e = [old EXCEPT !.status = "failed", !.bundle = None]
    BY <2>3
  <2>4. CASE e = [old EXCEPT !.status = "escalated"]
    BY <2>4
  <2>5. CASE e = [old EXCEPT !.status = "queued", !.bundle = None]
    BY <2>5
  <2>6. QED
    BY <1>4, <2>1, <2>2, <2>3, <2>4, <2>5
<1>6. id \in Unowned
  BY <1>1 DEF Unowned, Retry, Recover, ConfirmRework, ResolveEscalation
<1>7. QED
  BY <1>0, <1>2, <1>4, <1>5, <1>6, PlainMove DEF OneByOne

LEMMA RollbackPlain ==
  ASSUME OneByOne, RollbackCompletes
  PROVE  Plain(Unowned)
<1>0. PICK id, old : id = rolling /\ old = Latest(id)
  OBVIOUS
<1>1. id \in Ids /\ Status(id) = "done"
  BY <1>0 DEF RollbackCompletes, OneByOne, IInv, TypeOK
<1>2. Known(id) /\ old \in Entry /\ old.id = id
  BY <1>0, <1>1, KnownStatus, AttemptsOfLatest DEF OneByOne
<1>3. old.bundle = None
  BY <1>0, <1>1, <1>2, BundleOfLatest DEF OneByOne
<1>4. PICK e : e = [old EXCEPT !.status = "rolled_back"]
  OBVIOUS
<1>5. SetLatest(id, e)
  BY <1>0, <1>4 DEF RollbackCompletes
<1>6. e \in Entry /\ e.id = id /\ e.deps = old.deps /\ e.bundle = None /\ e.status = "rolled_back"
  BY <1>2, <1>3, <1>4 DEF Entry, Statuses, Active
<1>7. id \in Unowned
  BY <1>1 DEF Unowned
<1>8. QED
  BY <1>0, <1>2, <1>5, <1>6, <1>7, PlainMove DEF OneByOne

LEMMA OperatorPlain ==
  ASSUME OneByOne, Operator \/ UNCHANGED vars, ~\E pair \in open : CompleteState(pair)
  PROVE  Plain(Unowned)
<1>1. CASE \E batch \in Batches : Enqueue(batch)
  BY <1>1 DEF Plain
<1>2. CASE UNCHANGED queue
  BY <1>2 DEF Plain
<1>3. ASSUME NEW d \in [bundle : bundles, verdict : Verdicts],
             ImportDecision(d) \/ ImportInterrupted(d)
      PROVE  Plain(Unowned)
  <2>1. d \in [bundle : Run, verdict : Verdicts] /\ ~Fresh(d.bundle)
    BY DEF OneByOne, IInv, TypeOK, QueueInvariant, RunsKnown
  <2>2. UNCHANGED queue \/ (ApplyDecision(d) /\ decisions' = decisions \cup {d})
    BY <1>3 DEF ImportDecision, ImportInterrupted
  <2>3. QED
    BY <1>2, <2>1, <2>2, DecisionPlain
<1>4. UNCHANGED vars => UNCHANGED queue
  BY DEF vars
<1>5. \/ RollbackReverted
      \/ \E id \in Ids : RollbackBegins(id)
      \/ \E pair \in open : FinishLedger(pair)
      => UNCHANGED queue
  BY DEF RollbackReverted, RollbackBegins, FinishLedger
<1>6. QED
  BY <1>1, <1>2, <1>3, <1>4, <1>5, OperatorMovesPlain, RollbackPlain DEF Operator


-----------------------------------------------------------------------------
(* The command of the moment, and the history.                              *)

\* HasRecord and AttachesTo, of a command whose record is p.
Recording(p) == \/ p.at \in {"close"} \cup Setup
                \/ Works(p) /\ ~Fresh(p.run)

Reviewing(p) ==
  /\ p.at \notin {"critic", "judging"}
  /\ p.at = "snapshot" => p.seen = Len(history)
  /\ p.at = "repair" => \A pair \in p.todo :
       Status(pair[1]) = "review_pending" => Latest(pair[1]).commit = pair[2]
  /\ Works(p) /\ Fresh(p.run) => Status(p.id) = "running"
  /\ Recording(p) /\ Status(p.id) = "review_pending" =>
       Latest(p.id).bundle = None /\ Latest(p.id).commit = p.run

Holds(p) ==
  p.at # "idle" => \A pair \in open :
                     (Works(p) \/ p.at = "close") /\ pair = <<p.id, p.run>>

Attaching(p) == Reviewing(p) /\ Holds(p)

LEMMA AttachingIsAt ==
  ASSUME NEW w \in Workers
  PROVE  /\ AttachesTo(w) <=> Attaching(proc[w])
         /\ \A p : p = proc'[w] => (AttachesTo(w)' <=> Attaching(p)')
<1>1. AttachesTo(w) <=> Attaching(proc[w])
  BY DEF AttachesTo, Attaching, Reviewing, Holds, Recording, HasRecord, Works, Working, Pair
<1>2. ASSUME NEW p, p = proc'[w] PROVE AttachesTo(w)' <=> Attaching(p)'
  BY <1>2 DEF AttachesTo, Attaching, Reviewing, Holds, Recording, HasRecord, Works, Working, Pair,
              Status, Known, EntriesOf, Latest, LatestIndex, Fresh
<1>3. QED
  BY <1>1, <1>2

LEMMA AttachingKept ==
  ASSUME IInv, Plain(Ids), NEW p, Reviewing(p), history' = history,
         Works(p) /\ Fresh(p.run) => Status(p.id)' = "running",
         Holds(p)'
  PROVE  Attaching(p)'
<1>1. \A x : Status(x)' = "review_pending" =>
               Status(x) = "review_pending" /\ Latest(x)' = Latest(x)
  BY PlainKeeps
<1>2. p.at = "repair" => \A pair \in p.todo :
        Status(pair[1])' = "review_pending" => Latest(pair[1])'.commit = pair[2]
  BY <1>1 DEF Reviewing
<1>3. Fresh(p.run)' = Fresh(p.run)
  BY DEF Fresh
<1>4. Recording(p)' = Recording(p)
  BY <1>3 DEF Recording, Works
<1>5. Recording(p) /\ Status(p.id)' = "review_pending" =>
        Latest(p.id)'.bundle = None /\ Latest(p.id)'.commit = p.run
  BY <1>1 DEF Reviewing
<1>6. Works(p) /\ Fresh(p.run)' => Status(p.id)' = "running"
  BY <1>3
<1>7. Reviewing(p)'
  BY <1>2, <1>4, <1>5, <1>6 DEF Reviewing, Works
<1>8. QED
  BY <1>7 DEF Attaching

(* An operator does not touch a running task that a command works on.       *)
LEMMA StaysRunning ==
  ASSUME IInv, Plain(Unowned), NEW v \in Workers, NEW id, id = proc[v].id,
         Status(id) = "running"
  PROVE  Status(id)' = "running"
<1>0. queue \in Seq(Entry) /\ Known(id) /\ Latest(id).status = "running"
  BY KnownStatus DEF IInv, TypeOK
<1>1. CASE UNCHANGED queue
  BY <1>1 DEF Status, Known, EntriesOf, Latest, LatestIndex
<1>2. ASSUME NEW batch \in Batches, Enqueue(batch) PROVE Status(id)' = "running"
  <2>1. LatestIndex(id) \in EntriesOf(id) /\ queue[LatestIndex(id)].status \in Active
    BY <1>0, LatestIs DEF Latest, Active
  <2>2. \A k \in DOMAIN batch : batch[k].id # id
    BY <1>2, <2>1 DEF Enqueue
  <2>3. QED
    BY <1>0, <1>2, <2>2, Enqueued
<1>3. ASSUME NEW x \in Unowned, NEW e, Changes(x, e) PROVE Status(id)' = "running"
  <2>1. x # id /\ x \in Ids
    BY DEF Unowned, Interrupted
  <2>2. Status(id)' = Status(id)
    BY <1>0, <1>3, <2>1, Changed
  <2>3. QED
    BY <2>2
<1>4. QED
  BY <1>1, <1>2, <1>3 DEF Plain

LEMMA UnownedPlain ==
  ASSUME Plain(Unowned)
  PROVE  Plain(Ids)
BY DEF Plain, Unowned

(* Between two tasks a command remembers nothing that could go stale.       *)
LEMMA AtRest ==
  ASSUME NEW p, p.at = "idle" \/ (p.at = "claim" /\ open' = {})
  PROVE  Attaching(p)'
BY DEF Attaching, Reviewing, Holds, Recording, Works, Setup

(* The latest committed run of a task stays so until the next one.          *)
LEMMA LastCommittedKept ==
  ASSUME NEW h \in Seq(RunRecord), NEW rec \in RunRecord, NEW run, NEW id,
         LastCommittedIn(h, run, id), rec.id = id => rec.result # "commit"
  PROVE  LastCommittedIn(Append(h, rec), run, id)
<1> DEFINE g == Append(h, rec)
<1>1. /\ DOMAIN h = 1..Len(h) /\ Len(h) \in Nat /\ DOMAIN g = 1..(Len(h) + 1)
      /\ \A i \in DOMAIN h : g[i] = h[i]
      /\ g[Len(h) + 1] = rec
  OBVIOUS
<1> HIDE DEF g
<1>2. PICK i \in DOMAIN h :
        /\ h[i].run = run /\ h[i].id = id /\ h[i].result = "commit"
        /\ \A j \in DOMAIN h : h[j].id = id /\ h[j].result = "commit" => j <= i
  BY DEF LastCommittedIn
<1>3. \A j \in DOMAIN g : g[j].id = id /\ g[j].result = "commit" => j \in DOMAIN h
  BY <1>1
<1>4. i \in DOMAIN g
  BY <1>1
<1>5. LastCommittedIn(g, run, id)
  BY <1>1, <1>2, <1>3, <1>4 DEF LastCommittedIn
<1>6. QED
  BY <1>5 DEF g

LEMMA LastCommittedNew ==
  ASSUME NEW h \in Seq(RunRecord), NEW run \in Run, NEW id \in Ids
  PROVE  LastCommittedIn(Append(h, [run |-> run, id |-> id, result |-> "commit"]), run, id)
<1> DEFINE rec == [run |-> run, id |-> id, result |-> "commit"]
           g == Append(h, rec)
<1>0. rec \in RunRecord /\ rec.run = run /\ rec.id = id /\ rec.result = "commit"
  BY DEF RunRecord, Results
<1> HIDE DEF rec
<1>1. Len(h) \in Nat /\ DOMAIN g = 1..(Len(h) + 1) /\ g[Len(h) + 1] = rec
  BY <1>0
<1> HIDE DEF g
<1>2. Len(h) + 1 \in DOMAIN g /\ \A j \in DOMAIN g : j <= Len(h) + 1
  BY <1>1
<1>3. LastCommittedIn(g, run, id)
  BY <1>0, <1>1, <1>2 DEF LastCommittedIn
<1>4. QED
  BY <1>3 DEF g, rec

LEMMA LastCommittedListed ==
  ASSUME history \in Seq(RunRecord), NEW run, NEW id, LastCommittedIn(history, run, id)
  PROVE  LastCommitted(id, Len(history)) = run
<1> DEFINE C == CommittedRuns(id, Len(history))
<1>1. DOMAIN history = 1..Len(history) /\ Len(history) \in Nat
  OBVIOUS
<1>2. PICK i \in DOMAIN history :
        /\ history[i].run = run /\ history[i].id = id /\ history[i].result = "commit"
        /\ \A j \in DOMAIN history : history[j].id = id /\ history[j].result = "commit" => j <= i
  BY DEF LastCommittedIn
<1>3. i \in C /\ C \subseteq Nat /\ \A j \in C : j <= i
  BY <1>1, <1>2 DEF CommittedRuns
<1> HIDE DEF C
<1>4. (CHOOSE k \in C : \A j \in C : j <= k) = i
  BY <1>3
<1>5. QED
  BY <1>2, <1>4 DEF LastCommitted, C

-----------------------------------------------------------------------------
(* A step of the command that brings no task under review: the history gets *)
(* no commit, and what the command is about stays so.                       *)
Keeps(w) ==
  /\ Plain(Ids)
  /\ \/ history' = history
     \/ \E rec \in RunRecord : rec.result # "commit" /\ history' = Append(history, rec)
  /\ AttachesTo(w)'

LEMMA SettledKeeps ==
  ASSUME NEW w \in Workers, proc'[w].at = "idle" \/ (proc'[w].at = "claim" /\ open' = {})
  PROVE  AttachesTo(w)'
<1>1. PICK p : p = proc'[w]
  OBVIOUS
<1>2. Attaching(p)'
  BY <1>1, AtRest
<1>3. QED
  BY <1>1, <1>2, AttachingIsAt

LEMMA FinishKeeps ==
  ASSUME OneByOne, NEW w \in Workers, Finish(w)
  PROVE  AttachesTo(w)'
<1>1. proc'[w].at = "idle"
  BY DEF Finish, Idle, OneByOne, IInv, TypeOK
<1>2. QED
  BY <1>1, SettledKeeps

LEMMA AttachingNow ==
  ASSUME OneByOne, NEW w \in Workers
  PROVE  /\ proc \in [Workers -> Proc] /\ proc[w] \in Proc
         /\ Reviewing(proc[w]) /\ Holds(proc[w])
BY AttachingIsAt DEF OneByOne, IInv, TypeOK, ApprovalInvariant, Attaching

(* The command goes on with its run, and nothing of the task changes.       *)
LEMMA GoesOn ==
  ASSUME OneByOne, NEW w \in Workers, UNCHANGED <<queue, history>>,
         NEW place \in Places \ {"critic", "judging", "snapshot", "repair"},
         proc'[w].at = place, proc'[w].id = proc[w].id, proc'[w].run = proc[w].run,
         place \in {"work", "reconciling", "record"} => Working(w),
         place \in {"close"} \cup Setup => HasRecord(w),
         \A pair \in open' :
           place \in {"work", "reconciling", "record", "close"} /\ pair = Pair(w)
  PROVE  Keeps(w)
<1>0. IInv /\ Plain(Ids) /\ Reviewing(proc[w])
  BY AttachingNow DEF OneByOne, Plain
<1>1. PICK p : p = proc'[w]
  OBVIOUS
<1>2. /\ Works(p) => Working(w) /\ Works(proc[w])
      /\ Recording(p) => Recording(proc[w])
  BY <1>1 DEF Works, Working, Recording, HasRecord, Setup
<1>3. Reviewing(p)
  BY <1>0, <1>1, <1>2 DEF Reviewing
<1>4. Works(p) /\ Fresh(p.run) => Status(p.id)' = "running"
  BY <1>3 DEF Reviewing, Status, Known, EntriesOf, Latest, LatestIndex
<1>5. Holds(p)'
  BY <1>1 DEF Holds, Works, Pair
<1>6. Attaching(p)'
  BY <1>0, <1>3, <1>4, <1>5, AttachingKept
<1>7. QED
  BY <1>0, <1>1, <1>6, AttachingIsAt DEF Keeps

LEMMA SetupKeeps ==
  ASSUME OneByOne, NEW w \in Workers, proc[w].at \in Setup, UNCHANGED <<queue, history, open>>,
         \/ Finish(w) \/ Goto(w, "attach") \/ Goto(w, "failing") \/ Goto(w, "failSetup")
  PROVE  Keeps(w)
<1>0. proc \in [Workers -> Proc] /\ proc[w] \in Proc /\ Holds(proc[w])
  BY AttachingNow
<1>1. Plain(Ids)
  BY DEF Plain
<1>2. CASE Finish(w)
  BY <1>1, <1>2, FinishKeeps DEF Keeps
<1>3. ASSUME NEW place \in {"attach", "failing", "failSetup"}, Goto(w, place)
      PROVE  Keeps(w)
  <2>1. proc'[w].at = place /\ proc'[w].id = proc[w].id /\ proc'[w].run = proc[w].run
    BY <1>0, <1>3 DEF Goto, Proc
  <2>2. open' = {}
    BY <1>0 DEF Holds, Works, Setup
  <2>3. place \in Places \ {"critic", "judging", "snapshot", "repair"} /\ place \in Setup /\ HasRecord(w)
    BY <1>3 DEF Places, Setup, HasRecord
  <2>4. place \notin {"work", "reconciling", "record"}
    BY <1>3
  <2>5. QED
    BY <2>1, <2>2, <2>3, <2>4, GoesOn
<1>4. QED
  BY <1>2, <1>3

LEMMA WorkingKeeps ==
  ASSUME OneByOne, NEW w \in Workers, WorkCommits(w) \/ WorkReturns(w) \/ WorkRaises(w)
  PROVE  Keeps(w)
<1>0. proc \in [Workers -> Proc] /\ proc[w] \in Proc /\ Holds(proc[w])
  BY AttachingNow
<1>1. Working(w) /\ UNCHANGED <<queue, history>>
  BY DEF WorkCommits, WorkReturns, WorkRaises, Working
<1>2. PICK place \in {"work", "reconciling", "record"} :
        proc'[w].at = place /\ proc'[w].id = proc[w].id /\ proc'[w].run = proc[w].run
  BY <1>0 DEF WorkCommits, WorkReturns, WorkRaises, Proc
<1>3. \A pair \in open' : pair = Pair(w)
  <2>1. CASE open' = open
    BY <1>0, <1>1, <2>1 DEF Holds, Working, Pair
  <2>2. CASE open' # open
    BY <2>2 DEF WorkCommits, WorkReturns, WorkRaises
  <2>3. QED
    BY <2>1, <2>2
<1>4. place \in Places \ {"critic", "judging", "snapshot", "repair"} /\ place \notin {"close"} \cup Setup
  BY <1>2 DEF Places, Setup
<1>5. QED
  BY <1>1, <1>2, <1>3, <1>4, GoesOn

LEMMA CloseKeeps ==
  ASSUME OneByOne, NEW w \in Workers, CloseOperation(w)
  PROVE  Keeps(w)
<1>0. /\ proc \in [Workers -> Proc] /\ proc[w] \in Proc /\ Holds(proc[w])
      /\ proc[w].at = "close" /\ UNCHANGED <<queue, history>>
      /\ Goto(w, "export") \/ Finish(w)
  BY AttachingNow DEF CloseOperation
<1>1. CASE Finish(w)
  BY <1>0, <1>1, FinishKeeps DEF Keeps, Plain
<1>2. CASE Goto(w, "export")
  <2>1. proc'[w].at = "export" /\ proc'[w].id = proc[w].id /\ proc'[w].run = proc[w].run
    BY <1>0, <1>2 DEF Goto, Proc
  <2>2. open' = {}
    BY <1>0 DEF Holds, CloseOperation, Pair
  <2>3. "export" \in Places \ {"critic", "judging", "snapshot", "repair"} /\ HasRecord(w)
    BY <1>0 DEF Places, HasRecord
  <2>4. QED
    BY <1>0, <2>1, <2>2, <2>3, GoesOn
<1>3. QED
  BY <1>0, <1>1, <1>2

(* record_result of the command.                                            *)
LEMMA ResultCases ==
  ASSUME OneByOne, NEW w \in Workers, RecordResult(w)
  PROVE  \/ Keeps(w)
         \/ /\ proc[w].id \in Ids /\ proc[w].run \in Run /\ Reviews(proc[w].id, proc[w].run)
            /\ Goto(w, "close") /\ open' = open
<1>0. /\ proc \in [Workers -> Proc] /\ proc[w] \in Proc /\ Holds(proc[w])
      /\ proc[w].at = "record" /\ Working(w) /\ open' = open
  BY AttachingNow DEF RecordResult, Working
<1>1. /\ proc[w].result \in Results /\ proc[w].id \in Ids /\ proc[w].run \in Run
      /\ history \in Seq(RunRecord)
  BY <1>0, TaskOfCommand DEF OneByOne, IInv, TypeOK, QueueInvariant, ProcessAt
<1>2. CASE UNCHANGED <<queue, history>> /\ Finish(w)
  BY <1>2, FinishKeeps DEF Keeps, Plain
<1>3. CASE UNCHANGED <<queue, history>> /\ Goto(w, "close") /\ ~Fresh(proc[w].run)
  <2>1. proc'[w].at = "close" /\ proc'[w].id = proc[w].id /\ proc'[w].run = proc[w].run
    BY <1>0, <1>3 DEF Goto, Proc
  <2>2. "close" \in Places \ {"critic", "judging", "snapshot", "repair"} /\ HasRecord(w)
    BY <1>0, <1>3 DEF Places, HasRecord
  <2>3. \A pair \in open' : pair = Pair(w)
    BY <1>0 DEF Holds, Pair
  <2>4. QED
    BY <1>3, <2>1, <2>2, <2>3, GoesOn
<1>4. CASE /\ Status(proc[w].id) = "running" /\ Finish(w) /\ proc[w].result = "fail"
           /\ Takes(proc[w].id, proc[w].run, proc[w].result)
  <2>1. Plain(Ids)
    BY <1>1, <1>4, TakesPlain
  <2>2. PICK rec : rec = [run |-> proc[w].run, id |-> proc[w].id, result |-> "fail"]
    OBVIOUS
  <2>3. rec \in RunRecord /\ rec.result # "commit"
    BY <1>1, <2>2 DEF RunRecord, Results
  <2>4. history' = Append(history, rec)
    BY <1>4, <2>2 DEF Takes
  <2>5. QED
    BY <1>4, <2>1, <2>3, <2>4, FinishKeeps DEF Keeps
<1>5. CASE /\ Status(proc[w].id) = "running" /\ Goto(w, "close") /\ proc[w].result = "commit"
           /\ Takes(proc[w].id, proc[w].run, proc[w].result)
  BY <1>0, <1>1, <1>5, TakesReviews
<1>6. QED
  BY <1>1, <1>2, <1>3, <1>4, <1>5 DEF RecordResult, Results

LEMMA ListKeeps ==
  ASSUME OneByOne, NEW w \in Workers, ListUnbundled(w)
  PROVE  Keeps(w)
<1>0. /\ proc \in [Workers -> Proc] /\ proc[w] \in Proc /\ IInv /\ AttachesTo(w)
      /\ history \in Seq(RunRecord) /\ queue \in Seq(Entry) /\ Holds(proc[w])
  BY AttachingNow DEF OneByOne, IInv, TypeOK, ApprovalInvariant
<1>1. Plain(Ids) /\ history' = history /\ open' = open /\ proc[w].at = "snapshot"
  BY DEF Plain, ListUnbundled
<1>h. open' = {}
  BY <1>0, <1>1 DEF Holds, Works
<1>2. CASE Finish(w)
  BY <1>1, <1>2, FinishKeeps DEF Keeps
<1>3. CASE ~Finish(w)
  <2> DEFINE listed == {<<id, LastCommitted(id, proc[w].seen)>> : id \in Unbundled}
  <2>1. proc[w].seen = Len(history)
    BY <1>0 DEF AttachesTo, ListUnbundled
  <2>2. proc' = [proc EXCEPT ![w].at = IF Unbundled = {} THEN "claim" ELSE "repair",
                             ![w].seen = 0, ![w].todo = listed]
    BY <1>3 DEF ListUnbundled
  <2>3. Unbundled \subseteq Ids
    <3> SUFFICES ASSUME NEW i \in DOMAIN queue PROVE queue[i].id \in Ids
      BY DEF Unbundled
    <3>1. queue[i] \in Entry
      BY <1>0
    <3>2. QED
      BY <3>1 DEF Entry
  <2>4. ASSUME NEW id \in Unbundled, Status(id) = "review_pending"
        PROVE  Latest(id).commit = LastCommitted(id, proc[w].seen)
    <3>1. LastCommittedIn(history, Latest(id).commit, id)
      BY <2>3, <2>4 DEF OneByOne, ApprovalInvariant
    <3>2. QED
      BY <1>0, <2>1, <3>1, LastCommittedListed
  <2>5. ASSUME NEW pair \in listed, Status(pair[1]) = "review_pending"
        PROVE  Latest(pair[1]).commit = pair[2]
    <3>1. PICK id \in Unbundled : pair = <<id, LastCommitted(id, proc[w].seen)>>
      OBVIOUS
    <3>2. QED
      BY <2>4, <2>5, <3>1
  <2> HIDE DEF listed
  <2>6. PICK p : p = proc'[w]
    OBVIOUS
  <2>7. p.at \in {"claim", "repair"} /\ p.todo = listed
    BY <1>0, <2>2, <2>6 DEF Proc
  <2>8. Reviewing(p)
    BY <2>5, <2>7 DEF Reviewing, Recording, Works, Setup
  <2>h. Holds(p)' /\ ~Works(p)
    BY <1>h, <2>7 DEF Holds, Works
  <2>9. Attaching(p)'
    BY <1>0, <1>1, <2>8, <2>h, AttachingKept
  <2>10. QED
    BY <1>1, <2>6, <2>9, AttachingIsAt DEF Keeps
<1>4. QED
  BY <1>2, <1>3

LEMMA CommandCases ==
  ASSUME OneByOne, NEW w \in Workers, Step(w), ~RepairAttach(w), ~RecordResult(w)
  PROVE  \/ Keeps(w)
         \/ (\E id \in Ids : \E e : Attaches(id, e)) /\ Finish(w) /\ history' = history
<1>0. /\ proc \in [Workers -> Proc] /\ proc[w] \in Proc /\ IInv /\ AttachesTo(w)
      /\ ApprovalInvariant /\ Reviewing(proc[w]) /\ Holds(proc[w])
  BY AttachingNow DEF OneByOne, IInv, TypeOK, ApprovalInvariant
<1>q. ASSUME UNCHANGED queue PROVE Plain(Ids)
  BY <1>q DEF Plain
<1>1. CASE Begin(w)
  <2>1. PICK p : p = proc'[w]
    OBVIOUS
  <2>2. /\ p.at = "snapshot" /\ p.seen = Len(history) /\ history' = history
        /\ open = {} /\ open' = open
    BY <1>0, <1>1, <2>1 DEF Begin, OneByOne, Proc
  <2>3. Reviewing(p)
    BY <2>2 DEF Reviewing, Recording, Works, Setup
  <2>4. Plain(Ids)
    BY <1>1, <1>q DEF Begin
  <2>h. Holds(p)' /\ ~Works(p)
    BY <2>2 DEF Holds, Works
  <2>5. Attaching(p)'
    BY <1>0, <2>2, <2>3, <2>4, <2>h, AttachingKept
  <2>6. QED
    BY <2>1, <2>2, <2>4, <2>5, AttachingIsAt DEF Keeps
<1>2. CASE RepairExport(w)
  <2>1. /\ proc'[w] = proc[w] /\ Plain(Ids) /\ history' = history /\ open' = open
        /\ proc[w].at = "repair"
    BY <1>2, <1>q DEF RepairExport
  <2>2. PICK p : p = proc'[w]
    OBVIOUS
  <2>3. Reviewing(p) /\ Holds(p)' /\ ~Works(p)
    BY <1>0, <2>1, <2>2 DEF Holds, Works
  <2>4. Attaching(p)'
    BY <1>0, <2>1, <2>3, AttachingKept
  <2>5. QED
    BY <2>1, <2>2, <2>4, AttachingIsAt DEF Keeps
<1>3. CASE Claim(w)
  <2>1. Plain(Ids) /\ history' = history /\ open' = open /\ proc[w].at = "claim"
    BY <1>0, <1>3, ClaimPlain DEF Claim
  <2>2. CASE Finish(w)
    BY <2>1, <2>2, FinishKeeps DEF Keeps
  <2>3. CASE ~Finish(w)
    <3>0. open' = {}
      BY <1>0, <2>1 DEF Holds, Works
    <3>1. PICK id : id = queue[Selected].id
      OBVIOUS
    <3>2. proc' = [proc EXCEPT ![w].at = "work", ![w].id = id, ![w].run = runs + 1]
      BY <1>3, <2>3, <3>1 DEF Claim
    <3>3. proc'[w].at = "work" /\ proc'[w].id = id
      BY <1>0, <3>2 DEF Proc
    <3>4. Working(w)'
      BY <3>3 DEF Working
    <3>6. PICK p : p = proc'[w]
      OBVIOUS
    <3>5. Status(id)' = "running" /\ Fresh(p.run)'
      <4>1. ~Working(w)
        BY <2>1 DEF Working
      <4>2. PICK x : Claims(w, x)
        BY <1>0, <3>4, <4>1, WorkersStep DEF Continues
      <4>3. proc'[w].run = runs + 1 /\ x = id /\ Status(x)' = "running"
        BY <3>3, <4>2 DEF Claims
      <4>4. runs + 1 # None /\ runs \in Nat
        BY <1>0, TaskConstants DEF ConstantsOK, IInv, TypeOK
      <4>5. \A i \in DOMAIN history : history[i].run # runs + 1
        BY <1>0, <4>4 DEF IInv, QueueInvariant, RunsKnown
      <4>6. Fresh(p.run)'
        BY <2>1, <3>6, <4>3, <4>5 DEF Fresh
      <4>7. QED
        BY <4>3, <4>6
    <3>7. p.at = "work" /\ p.id = id /\ Fresh(p.run)'
      BY <3>3, <3>5, <3>6
    <3>8. Reviewing(p)' /\ Holds(p)'
      BY <3>0, <3>5, <3>7 DEF Reviewing, Holds, Recording, Works, Setup
    <3>9. QED
      BY <2>1, <3>6, <3>8, AttachingIsAt DEF Keeps, Attaching
  <2>4. QED
    BY <2>2, <2>3
<1>4. CASE NothingToClaim(w) \/ Crash(w)
  <2>1. Plain(Ids) /\ history' = history /\ Finish(w)
    BY <1>4, <1>q DEF NothingToClaim, Crash
  <2>2. QED
    BY <2>1, FinishKeeps DEF Keeps
<1>5. CASE WorkCommits(w) \/ WorkReturns(w) \/ WorkRaises(w)
  BY <1>5, WorkingKeeps
<1>6. CASE WorkContended(w) \/ RecordFailure(w)
  <2>1. Plain(Ids) /\ Finish(w)
    BY <1>0, <1>6, WorkPlain DEF WorkContended, RecordFailure
  <2>2. \/ history' = history
        \/ \E rec \in RunRecord : rec.result # "commit" /\ history' = Append(history, rec)
    <3>1. CASE WorkContended(w)
      BY <3>1 DEF WorkContended
    <3>2. CASE RecordFailure(w)
      <4>1. PICK rec : rec = [run |-> None, id |-> proc[w].id, result |-> "fail"]
        OBVIOUS
      <4>2. proc[w].id \in Ids
        <5>1. Working(w)
          BY <3>2 DEF RecordFailure, Working
        <5>2. QED
          BY <1>0, <5>1, TaskOfCommand
      <4>3. rec \in RunRecord /\ rec.result # "commit"
        BY <4>1, <4>2 DEF RunRecord, Results
      <4>4. history' = Append(history, rec)
        BY <3>2, <4>1 DEF RecordFailure
      <4>5. QED
        BY <4>3, <4>4
    <3>3. QED
      BY <1>6, <3>1, <3>2
  <2>3. QED
    BY <2>1, <2>2, FinishKeeps DEF Keeps
<1>8. CASE Export(w)
  BY <1>8, SetupKeeps DEF Export, Setup
<1>9. CASE Attach(w)
  <2>1. proc[w].at \in Setup /\ history' = history /\ open' = open
    BY <1>9 DEF Attach, Setup
  <2>2. QED
    BY <1>9, <2>1, AttachIs, SetupKeeps
<1>10. CASE AfterException(w)
  BY <1>10, SetupKeeps DEF AfterException, Setup
<1>11. CASE FailReviewSetup(w)
  <2>1. Plain(Ids) /\ history' = history /\ Finish(w)
    BY <1>11, FailSetupPlain DEF FailReviewSetup
  <2>2. QED
    BY <2>1, FinishKeeps DEF Keeps
<1>12. ~AskCritic(w) /\ ~CriticFails(w) /\ \A verdict \in Verdicts : ~CriticAnswers(w, verdict)
  BY <1>0 DEF AttachesTo, AskCritic, CriticFails, CriticAnswers
<1>13. QED
  BY <1>1, <1>2, <1>3, <1>4, <1>5, <1>6, <1>8, <1>9, <1>10, <1>11, <1>12, ListKeeps, CloseKeeps
     DEF Step

LEMMA RepairAttachKeeps ==
  ASSUME OneByOne, NEW w \in Workers, RepairAttach(w), decisions \subseteq decisions'
  PROVE  AttachesTo(w)' /\ history' = history
<1>0. /\ proc \in [Workers -> Proc] /\ proc[w] \in Proc /\ IInv /\ AttachesTo(w)
      /\ proc[w].at = "repair" /\ history' = history /\ open' = open /\ Holds(proc[w])
  BY AttachingNow DEF OneByOne, IInv, TypeOK, ApprovalInvariant, RepairAttach
<1>h. open' = {}
  BY <1>0 DEF Holds, Works
<1>1. PICK pair \in proc[w].todo :
        \/ Finish(w)
        \/ proc' = [proc EXCEPT ![w].todo = @ \ {pair},
                                ![w].at = IF proc[w].todo = {pair} THEN "claim" ELSE @]
  BY DEF RepairAttach
<1>2. CASE Finish(w)
  BY <1>0, <1>2, FinishKeeps
<1>3. CASE proc' = [proc EXCEPT ![w].todo = @ \ {pair},
                                ![w].at = IF proc[w].todo = {pair} THEN "claim" ELSE @]
  <2>1. PICK p, old : p = proc'[w] /\ old = proc[w]
    OBVIOUS
  <2>2. p.at \in {"claim", "repair"} /\ p.todo \subseteq old.todo
    BY <1>0, <1>3, <2>1 DEF Proc
  <2>3. \A one \in old.todo :
          Status(one[1]) = "review_pending" => Latest(one[1]).commit = one[2]
    BY <1>0, <2>1 DEF AttachesTo
  <2>4. \A x : Status(x)' = "review_pending" =>
          Status(x) = "review_pending" /\ Latest(x)'.commit = Latest(x).commit
    <3>1. CASE UNCHANGED queue
      BY <3>1 DEF Status, Known, EntriesOf, Latest, LatestIndex
    <3>2. CASE ~UNCHANGED queue
      BY <3>2, RepairAttaches, AttachesKeeps
    <3>3. QED
      BY <3>1, <3>2
  <2>5. \A one \in p.todo :
          Status(one[1])' = "review_pending" => Latest(one[1])'.commit = one[2]
    BY <2>2, <2>3, <2>4
  <2>6. Attaching(p)'
    BY <1>h, <2>2, <2>5 DEF Attaching, Reviewing, Holds, Recording, Works, Setup
  <2>7. QED
    BY <1>0, <2>1, <2>6, AttachingIsAt
<1>4. QED
  BY <1>1, <1>2, <1>3

LEMMA OthersIdle ==
  ASSUME OneByOne, NEW w \in Workers, Step(w), NEW v \in Workers \ {w}
  PROVE  proc[v].at = "idle" /\ proc'[v] = proc[v]
<1>1. proc'[v] = proc[v]
  BY CommandTypes DEF Alters, OneByOne
<1>2. CASE Begin(w)
  BY <1>1, <1>2 DEF Begin, OneByOne
<1>3. CASE ~Begin(w)
  <2>1. proc[w].at # "idle"
    BY <1>3 DEF Step, ListUnbundled, RepairExport, RepairAttach, Claim, NothingToClaim,
           WorkCommits, WorkReturns, WorkContended, WorkRaises, RecordFailure, RecordResult,
           CloseOperation, Export, Attach, AskCritic,
           CriticAnswers, CriticFails, AfterException, FailReviewSetup, Crash
  <2>2. QED
    BY <1>1, <2>1 DEF OneByOne, ApprovalInvariant
<1>4. QED
  BY <1>2, <1>3

(* A commit that is recorded, by the command or by a reconciliation.        *)
LEMMA ReviewsCover ==
  ASSUME OneByOne, NEW id \in Ids, NEW run \in Run, Reviews(id, run), decisions \subseteq decisions'
  PROVE  /\ \A i \in DOMAIN queue' : Covered(queue'[i], decisions')
         /\ \A x \in Ids : Status(x)' = "review_pending" =>
              LastCommittedIn(history', Latest(x)'.commit, x)
<1>1. PICK e :
        /\ Changes(id, e) /\ e.status = "review_pending" /\ e.bundle = None /\ e.commit = run
        /\ history' = Append(history, [run |-> run, id |-> id, result |-> "commit"])
  BY DEF Reviews
<1>0. /\ queue \in Seq(Entry) /\ history \in Seq(RunRecord)
      /\ \A i \in DOMAIN queue : Covered(queue[i], decisions)
      /\ \A x \in Ids : Status(x) = "review_pending" =>
           LastCommittedIn(history, Latest(x).commit, x)
  BY DEF OneByOne, IInv, TypeOK, ApprovalInvariant
<1>2. run # None
  BY NoneIsNoRun
<1>3. Covered(e, decisions')
  BY <1>1, <1>2 DEF Covered
<1>4. ASSUME NEW i \in DOMAIN queue' PROVE Covered(queue'[i], decisions')
  <2>1. i \in DOMAIN queue /\ (queue'[i] = e \/ queue'[i] = queue[i])
    BY <1>0, <1>1, Changed
  <2>2. QED
    BY <1>0, <1>3, <2>1, CoveredStays
<1>5. ASSUME NEW x \in Ids, Status(x)' = "review_pending"
      PROVE  LastCommittedIn(history', Latest(x)'.commit, x)
  <2>1. CASE x = id
    <3>1. Latest(x)' = e
      BY <1>0, <1>1, <2>1, Changed
    <3>2. QED
      BY <1>0, <1>1, <2>1, <3>1, LastCommittedNew
  <2>2. CASE x # id
    <3>1. Status(x) = "review_pending" /\ Known(x)
      BY <1>0, <1>1, <1>5, <2>2, Changed, KnownStatus
    <3>2. Latest(x)' = Latest(x)
      BY <1>0, <1>1, <2>2, <3>1, Changed
    <3>3. PICK rec : rec = [run |-> run, id |-> id, result |-> "commit"]
      OBVIOUS
    <3>4. rec \in RunRecord /\ rec.id = id
      BY <1>1, <3>3 DEF RunRecord, Results
    <3>5. LastCommittedIn(Append(history, rec), Latest(x).commit, x)
      BY <1>0, <2>2, <3>1, <3>4, LastCommittedKept
    <3>6. QED
      BY <1>1, <3>2, <3>3, <3>5
  <2>3. QED
    BY <2>1, <2>2
<1>6. QED
  BY <1>4, <1>5

(* Whoever works on the run, or has just recorded it, finds its task as it  *)
(* expects it.                                                              *)
LEMMA ReviewsAttach ==
  ASSUME OneByOne, NEW id \in Ids, NEW run \in Run, Reviews(id, run),
         NEW w \in Workers, proc'[w].at \in {"work", "reconciling", "record", "close"},
         proc'[w].id = id, proc'[w].run = run,
         \A pair \in open' : pair = <<id, run>>
  PROVE  AttachesTo(w)'
<1>0. queue \in Seq(Entry) /\ history \in Seq(RunRecord)
  BY DEF OneByOne, IInv, TypeOK
<1>1. PICK e :
        /\ Changes(id, e) /\ e.status = "review_pending" /\ e.bundle = None /\ e.commit = run
        /\ history' = Append(history, [run |-> run, id |-> id, result |-> "commit"])
  BY DEF Reviews
<1>2. Latest(id)' = e
  BY <1>0, <1>1, Changed
<1>3. ~Fresh(run)'
  <2>1. PICK rec : rec = [run |-> run, id |-> id, result |-> "commit"]
    OBVIOUS
  <2>2. rec \in RunRecord /\ rec.run = run /\ history' = Append(history, rec)
    BY <1>1, <2>1 DEF RunRecord, Results
  <2>3. Len(history) + 1 \in DOMAIN history' /\ history'[Len(history) + 1] = rec
    BY <1>0, <2>2
  <2>4. QED
    BY <2>2, <2>3 DEF Fresh
<1>4. PICK p : p = proc'[w]
  OBVIOUS
<1>5. p.at \in {"work", "reconciling", "record", "close"} /\ p.id = id /\ p.run = run
  BY <1>4
<1>6. Reviewing(p)'
  BY <1>1, <1>2, <1>3, <1>5 DEF Reviewing
<1>7. Holds(p)'
  BY <1>5 DEF Holds, Works
<1>8. QED
  BY <1>4, <1>6, <1>7, AttachingIsAt DEF Attaching

(* The steps that are not a command's.                                      *)
LEMMA OperatorAttaches ==
  ASSUME OneByOne, Operator \/ UNCHANGED vars, ~\E pair \in open : CompleteState(pair),
         NEW v \in Workers
  PROVE  AttachesTo(v)'
<1>0. /\ Plain(Unowned) /\ Plain(Ids) /\ proc' = proc /\ IInv
      /\ Reviewing(proc[v]) /\ Holds(proc[v])
  BY OperatorPlain, OperatorKeeps, UnownedPlain, AttachingNow DEF OneByOne
<1>1. history' = history /\ open' \subseteq open
  BY DEF Operator, vars, Enqueue, Retry, Recover, ConfirmRework, ResolveEscalation, OperatorMoves,
         RollbackBegins, RollbackCompletes, RollbackReverted, ImportDecision, ImportInterrupted,
         FinishLedger
<1>2. PICK p : p = proc[v]
  OBVIOUS
<1>3. Works(p) /\ Fresh(p.run) => Status(p.id)' = "running"
  <2> SUFFICES ASSUME Works(p), Fresh(p.run) PROVE Status(p.id)' = "running"
    OBVIOUS
  <2>1. PICK id : id = proc[v].id
    OBVIOUS
  <2>2. Status(id) = "running"
    BY <1>0, <1>2, <2>1 DEF Reviewing
  <2>3. Status(id)' = "running"
    BY <1>0, <2>1, <2>2, StaysRunning
  <2>4. QED
    BY <1>2, <2>1, <2>3
<1>4. Holds(p)'
  BY <1>0, <1>1, <1>2 DEF Holds, Works
<1>5. Attaching(p)'
  BY <1>0, <1>1, <1>2, <1>3, <1>4, AttachingKept
<1>6. QED
  BY <1>0, <1>2, <1>5, AttachingIsAt

LEMMA ApprovalInvariantStep ==
  ASSUME OneByOne, [Next]_vars
  PROVE  ApprovalInvariant'
<1>0. /\ IInv /\ queue \in Seq(Entry) /\ history \in Seq(RunRecord)
      /\ \A i \in DOMAIN queue : Covered(queue[i], decisions)
      /\ \A x \in Ids : Status(x) = "review_pending" =>
           LastCommittedIn(history, Latest(x).commit, x)
      /\ \A v, u \in Workers : proc[v].at # "idle" /\ proc[u].at # "idle" => v = u
      /\ \A v \in Workers : AttachesTo(v)
  BY DEF OneByOne, IInv, TypeOK, ApprovalInvariant
<1>d. decisions \subseteq decisions'
  BY <1>0, EvidenceStep
<1>1. ASSUME Plain(Ids),
             \/ history' = history
             \/ \E rec \in RunRecord : rec.result # "commit" /\ history' = Append(history, rec)
      PROVE  /\ \A i \in DOMAIN queue' : Covered(queue'[i], decisions')
             /\ \A x \in Ids : Status(x)' = "review_pending" =>
                  LastCommittedIn(history', Latest(x)'.commit, x)
  <2>1. ASSUME NEW x \in Ids, Status(x)' = "review_pending"
        PROVE  LastCommittedIn(history', Latest(x)'.commit, x)
    <3>1. Latest(x)' = Latest(x) /\ LastCommittedIn(history, Latest(x).commit, x)
      BY <1>0, <1>1, <2>1, PlainKeeps
    <3>2. QED
      BY <1>0, <1>1, <3>1, LastCommittedKept
  <2>2. QED
    BY <1>0, <1>1, <1>d, <2>1, PlainCovers
<1>2. ASSUME NEW w \in Workers, Step(w) PROVE ApprovalInvariant'
  <2>1. ASSUME NEW v \in Workers \ {w} PROVE proc'[v].at = "idle" /\ AttachesTo(v)'
    BY <1>2, OthersIdle, SettledKeeps
  <2>2. \A v, u \in Workers : proc'[v].at # "idle" /\ proc'[u].at # "idle" => v = u
    BY <2>1
  <2>3. ASSUME NEW id \in Ids, NEW e, Attaches(id, e), history' = history
        PROVE  /\ \A i \in DOMAIN queue' : Covered(queue'[i], decisions')
               /\ \A x \in Ids : Status(x)' = "review_pending" =>
                    LastCommittedIn(history', Latest(x)'.commit, x)
    BY <1>0, <1>d, <2>3, AttachesKeeps
  <2>4. /\ \A i \in DOMAIN queue' : Covered(queue'[i], decisions')
        /\ \A x \in Ids : Status(x)' = "review_pending" =>
             LastCommittedIn(history', Latest(x)'.commit, x)
        /\ AttachesTo(w)'
    <3>1. CASE RepairAttach(w)
      <4>1. AttachesTo(w)' /\ history' = history
        BY <1>d, <3>1, RepairAttachKeeps
      <4>2. UNCHANGED queue \/ \E id \in Ids : \E e : Attaches(id, e)
        BY <3>1, RepairAttaches
      <4>3. UNCHANGED queue => Plain(Ids)
        BY DEF Plain
      <4>4. QED
        BY <1>1, <2>3, <4>1, <4>2, <4>3
    <3>2. CASE Keeps(w)
      BY <1>1, <3>2 DEF Keeps
    <3>3. CASE RecordResult(w)
      <4> SUFFICES ASSUME proc[w].id \in Ids, proc[w].run \in Run,
                          Reviews(proc[w].id, proc[w].run), Goto(w, "close"), open' = open
                   PROVE  /\ \A i \in DOMAIN queue' : Covered(queue'[i], decisions')
                          /\ \A x \in Ids : Status(x)' = "review_pending" =>
                               LastCommittedIn(history', Latest(x)'.commit, x)
                          /\ AttachesTo(w)'
        BY <3>2, <3>3, ResultCases
      <4>1. proc'[w].at = "close" /\ proc'[w].id = proc[w].id /\ proc'[w].run = proc[w].run
        BY AttachingNow DEF Goto, Proc
      <4>2. \A pair \in open' : pair = <<proc[w].id, proc[w].run>>
        BY <3>3, AttachingNow DEF Holds, RecordResult
      <4>3. QED
        BY <1>d, <4>1, <4>2, ReviewsCover, ReviewsAttach
    <3>4. CASE (\E id \in Ids : \E e : Attaches(id, e)) /\ Finish(w) /\ history' = history
      BY <2>3, <3>4, FinishKeeps
    <3>5. QED
      BY <1>2, <3>1, <3>2, <3>3, <3>4, CommandCases
  <2>5. QED
    BY <2>1, <2>2, <2>4 DEF ApprovalInvariant, Status, Known, EntriesOf, Latest, LatestIndex
<1>3. CASE (Operator \/ UNCHANGED vars) /\ ~\E pair \in open : CompleteState(pair)
  <2>1. Plain(Ids) /\ UNCHANGED proc
    BY <1>3, OperatorPlain, UnownedPlain, OperatorKeeps
  <2>2. history' = history
    BY <1>3 DEF Operator, vars, Enqueue, Retry, Recover, ConfirmRework, ResolveEscalation,
           OperatorMoves, RollbackBegins, RollbackCompletes, RollbackReverted, ImportDecision,
           ImportInterrupted, FinishLedger
  <2>3. \A v \in Workers : AttachesTo(v)'
    BY <1>3, OperatorAttaches
  <2>4. QED
    BY <1>0, <1>1, <2>1, <2>2, <2>3
       DEF ApprovalInvariant, Status, Known, EntriesOf, Latest, LatestIndex
<1>4. ASSUME NEW pair \in open, CompleteState(pair) PROVE ApprovalInvariant'
  <2>0. PICK id, run : id = pair[1] /\ run = pair[2]
    OBVIOUS
  <2>1. id \in Ids /\ run \in Run /\ pair = <<id, run>>
    BY <1>0, <2>0 DEF IInv, TypeOK
  <2>2. Reviews(id, run) /\ proc' = proc /\ open' = open
    BY <1>4, <2>0, <2>1, TakesReviews DEF CompleteState
  <2>3. ASSUME NEW v \in Workers PROVE AttachesTo(v)'
    <3>1. CASE proc[v].at = "idle"
      BY <2>2, <3>1, SettledKeeps
    <3>2. CASE proc[v].at # "idle"
      <4>1. \A other \in open : (Works(proc[v]) \/ proc[v].at = "close") /\ other = Pair(v)
        BY <3>2, AttachingNow DEF Holds, Pair
      <4>2. /\ proc'[v].at \in {"work", "reconciling", "record", "close"}
            /\ proc'[v].id = id /\ proc'[v].run = run
        BY <2>1, <2>2, <4>1 DEF Works, Pair
      <4>3. \A other \in open' : other = <<id, run>>
        BY <2>1, <2>2, <4>1
      <4>4. QED
        BY <2>1, <2>2, <4>2, <4>3, ReviewsAttach
    <3>3. QED
      BY <3>1, <3>2
  <2>4. QED
    BY <1>0, <1>d, <2>1, <2>2, <2>3, ReviewsCover
       DEF ApprovalInvariant, Status, Known, EntriesOf, Latest, LatestIndex
<1>5. QED
  BY <1>2, <1>3, <1>4 DEF Next

LEMMA ApprovalInit ==
  ASSUME Init
  PROVE  ApprovalInvariant
<1>1. \A w \in Workers : proc[w].at = "idle"
  BY DEF Init, Idle
<1>2. DOMAIN queue = {} /\ open = {}
  BY DEF Init
<1>3. \A id \in Ids : Status(id) = "missing"
  BY <1>2 DEF Status, Known, EntriesOf
<1>4. QED
  BY <1>1, <1>2, <1>3 DEF ApprovalInvariant, AttachesTo, HasRecord, Working, Setup

LEMMA ApprovalIsOfCommit ==
  ASSUME IInv, alone /\ Required /\ ~Automatic => ApprovalInvariant
  PROVE  ClosedIsApproved
<1>1. DoneNeedsApproval
  BY DEF IInv, QueueInvariant
<1>2. ASSUME alone, Required, ~Automatic, NEW i \in DOMAIN queue,
             queue[i].status = "done", queue[i].commit # None
      PROVE  [bundle |-> queue[i].commit, verdict |-> "approve"] \in decisions
  BY <1>2 DEF ApprovalInvariant, Covered
<1>3. QED
  BY <1>1, <1>2 DEF ClosedIsApproved, ApprovalCoversCommit

(* import_decision with export_review_bundle, attach_review_bundle, the     *)
(* startup repair and the failures of the setup: what is attached, decided  *)
(* on and closed is one and the same commit, when commands come one at a    *)
(* time, whatever crashes and whatever the operator does in between.        *)
THEOREM ClosedOnApprovalOfCommit == Spec => []ClosedIsApproved
<1> DEFINE I == IInv /\ (alone /\ Required /\ ~Automatic => ApprovalInvariant)
<1>1. Init => I
  BY InitHolds, ApprovalInit
<1>2. I /\ [Next]_vars => I'
  <2> SUFFICES ASSUME I, [Next]_vars PROVE I'
    OBVIOUS
  <2>1. IInv' /\ alone' = alone
    BY InvariantStep, AloneKept
  <2>2. CASE alone /\ Required /\ ~Automatic
    BY <2>1, <2>2, ApprovalInvariantStep DEF OneByOne
  <2>3. QED
    BY <2>1, <2>2
<1>3. I => ClosedIsApproved
  BY ApprovalIsOfCommit
<1> HIDE DEF I
<1>4. QED
  BY <1>1, <1>2, <1>3, PTL DEF Spec
=============================================================================
