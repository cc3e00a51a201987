--------------------------- MODULE OperatorProofs ---------------------------
(***************************************************************************)
(* Proofs about what the operator sees and decides, for every value of the *)
(* constants: a rollback reverts a commit once and the records agree about *)
(* it, the evidence files lose nothing, a project is handed off only after *)
(* an audit that earned it, the settings use the agent they accept, and    *)
(* the window acts for the project it shows.                               *)
(***************************************************************************)
EXTENDS Rollback, JournalFiles, FinalAudit, ProjectSettings, DesktopWindow, FiniteOrders,
        SequenceTheorems

-----------------------------------------------------------------------------
(***************************************************************************)
(* Rollback, for any processes, tasks, dependencies, runs and operations,  *)
(* with or without crashes and litter.                                     *)
(***************************************************************************)

IInv == TypeOK /\ RollbackInvariant

-----------------------------------------------------------------------------
(* The queue file.                                                          *)

LEMMA NewestIs ==
  ASSUME NEW n \in Nat, NEW S \in SUBSET (1..n), S # {}
  PROVE  Newest(S) \in S /\ \A j \in S : j <= Newest(S)
<1>1. IsFiniteSet(1..n)
  BY FS_Interval
<1>a. IsFiniteSet(S)
  BY <1>1, FS_Subset
<1>2. S \in SUBSET Int /\ IsFiniteSet(S)
  BY <1>a
<1>3. \E i \in S : \A j \in S : j <= i
  BY <1>2, GreatestNumber
<1>4. QED
  BY <1>3 DEF Newest

LEMMA LatestIs ==
  ASSUME queue \in Seq(Entry), NEW t, EntriesOf(t) # {}
  PROVE  \E k \in DOMAIN queue : /\ k = Newest(EntriesOf(t)) /\ Latest(t) = queue[k]
                                 /\ queue[k].id = t /\ Latest(t) \in Entry
                                 /\ \A j \in DOMAIN queue : queue[j].id = t => j <= k
<1>1. EntriesOf(t) \in SUBSET (1..Len(queue)) /\ Len(queue) \in Nat
  BY DEF EntriesOf
<1>2. /\ Newest(EntriesOf(t)) \in EntriesOf(t)
      /\ \A j \in EntriesOf(t) : j <= Newest(EntriesOf(t))
  BY <1>1, NewestIs
<1> DEFINE k == Newest(EntriesOf(t))
<1>3. k \in DOMAIN queue /\ queue[k].id = t /\ Latest(t) = queue[k]
  BY <1>2 DEF EntriesOf, Latest
<1>4. queue[k] \in Entry
  BY <1>3
<1>5. \A j \in DOMAIN queue : queue[j].id = t => j <= k
  BY <1>2 DEF EntriesOf
<1>6. QED
  BY <1>3, <1>4, <1>5

(* A change of the latest entry of an id changes what that id names.        *)
LEMMA SetLatestIs ==
  ASSUME queue \in Seq(Entry), NEW t, EntriesOf(t) # {},
         NEW e \in Entry, e.id = t, SetLatest(t, e)
  PROVE  /\ queue' \in Seq(Entry) /\ DOMAIN queue' = DOMAIN queue
         /\ \A u : EntriesOf(u)' = EntriesOf(u)
         /\ \A u : EntriesOf(u) # {} => Latest(u)' = IF u = t THEN e ELSE Latest(u)
         /\ \A i \in DOMAIN queue : queue'[i] = queue[i] \/ (queue'[i] = e /\ queue[i] = Latest(t))
         /\ \E i \in DOMAIN queue : queue'[i] = e
<1>1. PICK k \in DOMAIN queue : k = Newest(EntriesOf(t)) /\ Latest(t) = queue[k] /\ queue[k].id = t
  BY LatestIs
<1>2. queue' = [queue EXCEPT ![k] = e]
  BY <1>1 DEF SetLatest
<1>3. /\ queue' \in Seq(Entry) /\ DOMAIN queue' = DOMAIN queue
      /\ queue'[k] = e /\ \A i \in DOMAIN queue : i # k => queue'[i] = queue[i]
  BY <1>1, <1>2
<1>4. \A u : EntriesOf(u)' = EntriesOf(u)
  BY <1>1, <1>3 DEF EntriesOf
<1>5. ASSUME NEW u, EntriesOf(u) # {}
      PROVE  Latest(u)' = IF u = t THEN e ELSE Latest(u)
  <2>1. PICK j \in DOMAIN queue : j = Newest(EntriesOf(u)) /\ Latest(u) = queue[j] /\ queue[j].id = u
    BY <1>5, LatestIs
  <2>2. Latest(u)' = queue'[j]
    BY <1>4, <2>1 DEF Latest
  <2>3. QED
    BY <1>1, <1>3, <2>1, <2>2
<1>6. \A i \in DOMAIN queue : queue'[i] = queue[i] \/ (queue'[i] = e /\ queue[i] = Latest(t))
  <2> SUFFICES ASSUME NEW i \in DOMAIN queue
               PROVE  queue'[i] = queue[i] \/ (queue'[i] = e /\ queue[i] = Latest(t))
    OBVIOUS
  <2>1. CASE i = k
    BY <1>1, <1>3, <2>1
  <2>2. CASE i # k
    BY <1>3, <2>2
  <2>3. QED
    BY <2>1, <2>2
<1>7. \E i \in DOMAIN queue : queue'[i] = e
  BY <1>1, <1>3
<1>8. QED
  BY <1>3, <1>4, <1>5, <1>6, <1>7

LEMMA AppendIs ==
  ASSUME queue \in Seq(Entry), NEW e \in Entry, queue' = Append(queue, e)
  PROVE  /\ queue' \in Seq(Entry) /\ DOMAIN queue \subseteq DOMAIN queue'
         /\ \A i \in DOMAIN queue : queue'[i] = queue[i]
         /\ \A i \in DOMAIN queue' : i \in DOMAIN queue \/ queue'[i] = e
         /\ \A u : EntriesOf(u) # {} => EntriesOf(u)' # {}
         /\ Latest(e.id)' = e
         /\ \A u : u # e.id /\ EntriesOf(u) # {} => Latest(u)' = Latest(u)
<1> DEFINE n == Len(queue) + 1
<1>1. /\ queue' \in Seq(Entry) /\ n \in Nat /\ n \in DOMAIN queue' /\ queue'[n] = e
      /\ n \notin DOMAIN queue /\ DOMAIN queue' = 1..n /\ DOMAIN queue \subseteq DOMAIN queue'
      /\ \A i \in DOMAIN queue : queue'[i] = queue[i]
      /\ \A i \in DOMAIN queue' : i \in DOMAIN queue \/ i = n
  OBVIOUS
<1> HIDE DEF n
<1>2. /\ \A u : u # e.id => EntriesOf(u)' = EntriesOf(u)
      /\ EntriesOf(e.id)' = EntriesOf(e.id) \cup {n}
  BY <1>1 DEF EntriesOf
<1>3. ASSUME NEW u, u # e.id, EntriesOf(u) # {}
      PROVE  Latest(u)' = Latest(u)
  <2>1. PICK j \in DOMAIN queue : j = Newest(EntriesOf(u)) /\ Latest(u) = queue[j]
    BY <1>3, LatestIs
  <2>2. Latest(u)' = queue'[j]
    BY <1>2, <1>3, <2>1 DEF Latest
  <2>3. QED
    BY <1>1, <2>1, <2>2
<1>4. Latest(e.id)' = e
  <2>1. PICK t : t = e.id
    OBVIOUS
  <2> DEFINE S == EntriesOf(t)'
  <2>2. S \in SUBSET (1..n) /\ n \in S
    BY <1>1, <1>2, <2>1 DEF EntriesOf
  <2>3. Newest(S) \in S /\ \A j \in S : j <= Newest(S)
    BY <1>1, <2>2, NewestIs
  <2>4. Newest(S) = n
    BY <1>1, <2>2, <2>3
  <2>5. Latest(t)' = queue'[Newest(S)]
    BY DEF Latest
  <2>6. QED
    BY <1>1, <2>1, <2>4, <2>5
<1>5. QED
  BY <1>1, <1>2, <1>3, <1>4

-----------------------------------------------------------------------------
(* What a step may do to what others rely on.  p is who takes it: a process, *)
(* or None for the operator.                                                 *)

\* The branch grows by the run or by the revert of who has the lease.
LogStep(p) ==
  \/ log' = log
  \/ /\ p \in Procs /\ lease = p
     /\ \E x \in Nat \cup Ops :
           /\ log' = Append(log, x)
           /\ \/ x \in Nat /\ proc[p].pc = "integrate"
              \/ x = proc[p].op /\ proc[p].pc = "verified" /\ queue' = queue /\ records' = records

\* A record keeps its task and its run, and its outcome is true.
LedgerStep ==
  /\ RecordsOK(ledger')
  /\ \A o \in DOMAIN ledger : /\ o \in DOMAIN ledger'
                              /\ ledger'[o].task = ledger[o].task
                              /\ ledger'[o].run = ledger[o].run
  /\ \A o \in DOMAIN ledger' :
        /\ ledger'[o].outcome = "complete" => StateComplete(o)
        /\ ledger'[o].outcome \in {"reverted", "cancelled"} => \A i \in DOMAIN log' : log'[i] # o

\* A mark stays, and is of a revert on the branch; a running task is taken
\* from nobody; and only an integration makes a task done.
QueueStep(p) ==
  /\ queue' \in Seq(Entry)
  /\ \A t \in Tasks : EntriesOf(t)' # {}
  /\ \A i \in DOMAIN queue : queue[i].status = "rolled_back" =>
        i \in DOMAIN queue' /\ queue'[i] = queue[i]
  /\ \A i \in DOMAIN queue' : queue'[i].by # None => OnBranch(queue'[i].by)
  /\ \A t \in Tasks : Latest(t).status = "running" =>
        \/ Latest(t)'.status = "running"
        \/ p \in Procs /\ proc[p].pc \in Working /\ proc[p].task = t
  /\ \A t \in Tasks :
        \/ Latest(t)' = Latest(t)
        \/ Latest(t)'.status \notin {"done", "rolled_back"}
        \/ Latest(t).status = "done" /\ Latest(t)'.run = Latest(t).run
        \/ log' # log /\ p \in Procs /\ proc[p].pc = "integrate"

\* A new record is of a revert on the branch that was not recorded.
RecordsStep ==
  \/ records' = records
  \/ /\ log' = log
     /\ \E row \in Row : \E o \in DOMAIN ledger :
           /\ records' = records \cup {row} /\ row.op = o
           /\ Unrecorded(o) /\ row.run = ledger[o].run
           /\ Marked(o)'

LeaseStep(p) ==
  /\ lease' \in Procs \cup {None}
  /\ \A q \in Procs : q # p /\ lease = q => lease' = q

Shared(p) == LogStep(p) /\ LedgerStep /\ QueueStep(p) /\ RecordsStep /\ LeaseStep(p)

(* On the branch, and recorded, is for good.                                *)
LEMMA Stays ==
  ASSUME TypeOK, NEW p, Shared(p)
  PROVE  /\ \A o : OnBranch(o) => OnBranch(o)'
         /\ \A o : StateComplete(o) => StateComplete(o)'
         /\ log' = log => \A o : (OnBranch(o)' <=> OnBranch(o)) /\ (Unrecorded(o)' => Unrecorded(o))
         /\ log' \in Seq(Nat \cup Ops) /\ records' \subseteq Row
<1>1. \A o : StateComplete(o) => StateComplete(o)'
  BY DEF Shared, RecordsStep, StateComplete
<1>2. log \in Seq(Nat \cup Ops)
  BY DEF TypeOK
<1>3. \A x \in Nat \cup Ops : log' = Append(log, x) =>
        log' \in Seq(Nat \cup Ops) /\ \A i \in DOMAIN log : i \in DOMAIN log' /\ log'[i] = log[i]
  BY <1>2
<1>4. /\ log' \in Seq(Nat \cup Ops)
      /\ \A i \in DOMAIN log : i \in DOMAIN log' /\ log'[i] = log[i]
  BY <1>2, <1>3 DEF Shared, LogStep
<1>5. \A o : OnBranch(o) => OnBranch(o)'
  BY <1>4 DEF OnBranch
<1>6. log' = log => \A o : (OnBranch(o)' <=> OnBranch(o)) /\ (Unrecorded(o)' => Unrecorded(o))
  BY <1>1 DEF OnBranch, Unrecorded
<1>7. records' \subseteq Row
  BY DEF Shared, RecordsStep, TypeOK
<1>8. QED
  BY <1>1, <1>4, <1>5, <1>6, <1>7

(* Without an integration, what a revert may mark stays what it is.         *)
LEMMA TargetKept ==
  ASSUME NEW p, Shared(p), log' = log, NEW t \in Tasks, NEW r, NEW o, TargetIs(t, r, o)
  PROVE  TargetIs(t, r, o)'
BY DEF Shared, QueueStep, TargetIs, AlreadyMarked

LEMMA MarkedKept ==
  ASSUME NEW p, Shared(p), NEW o \in DOMAIN ledger, Marked(o)
  PROVE  Marked(o)'
BY DEF Shared, QueueStep, LedgerStep, Marked

(* The branch after a step: as it was, or longer by one.                    *)
LEMMA BranchIs ==
  ASSUME IInv, NEW p, Shared(p), log' # log
  PROVE  /\ p \in Procs /\ lease = p
         /\ \E x \in Nat \cup Ops, n \in Nat :
              /\ n \in DOMAIN log' /\ log'[n] = x /\ n = Len(log')
              /\ \A i \in DOMAIN log' : i = n \/ (i \in DOMAIN log /\ log'[i] = log[i])
              /\ \/ x \in Nat /\ proc[p].pc = "integrate"
                 \/ x = proc[p].op /\ proc[p].pc = "verified" /\ queue' = queue /\ records' = records
         /\ \A o \in Ops : Unrecorded(o) => o = proc[p].op
<1>1. p \in Procs /\ lease = p /\ log \in Seq(Nat \cup Ops)
  BY DEF IInv, TypeOK, Shared, LogStep
<1>2. PICK x \in Nat \cup Ops :
        /\ log' = Append(log, x)
        /\ \/ x \in Nat /\ proc[p].pc = "integrate"
           \/ x = proc[p].op /\ proc[p].pc = "verified" /\ queue' = queue /\ records' = records
  BY DEF Shared, LogStep
<1> DEFINE n == Len(log) + 1
<1>3. /\ n \in Nat /\ n \in DOMAIN log' /\ log'[n] = x /\ n = Len(log')
      /\ \A i \in DOMAIN log' : i = n \/ (i \in DOMAIN log /\ log'[i] = log[i])
  BY <1>1, <1>2
<1>4. \A o \in Ops : Unrecorded(o) => o = proc[p].op
  BY <1>1, <1>2 DEF IInv, RollbackInvariant, Rely, OthersRecorded, Rolling
<1>5. QED
  BY <1>1, <1>2, <1>3, <1>4

LEMMA RevertsKept ==
  ASSUME IInv, NEW p, Shared(p)
  PROVE  OneRevertEach'
<1> SUFFICES ASSUME NEW i \in DOMAIN log', NEW j \in DOMAIN log', log'[i] \in Ops, log'[j] \in Ops,
                    ledger'[log'[i]].run = ledger'[log'[j]].run
             PROVE  i = j
  BY DEF OneRevertEach
<1>1. ASSUME NEW k \in DOMAIN log, log[k] \in Ops
      PROVE  log[k] \in DOMAIN ledger /\ ledger'[log[k]].run = ledger[log[k]].run
  BY <1>1 DEF IInv, RollbackInvariant, LedgerAgrees, Shared, LedgerStep
<1>2. CASE log' = log
  BY <1>1, <1>2 DEF IInv, RollbackInvariant, OneRevertEach
<1>3. CASE log' # log
  <2>1. PICK x \in Nat \cup Ops, n \in Nat :
          /\ n \in DOMAIN log' /\ log'[n] = x
          /\ \A k \in DOMAIN log' : k = n \/ (k \in DOMAIN log /\ log'[k] = log[k])
          /\ \/ x \in Nat /\ proc[p].pc = "integrate"
             \/ x = proc[p].op /\ proc[p].pc = "verified"
    BY <1>3, BranchIs
  <2>2. p \in Procs /\ \A o \in Ops : Unrecorded(o) => o = proc[p].op
    BY <1>3, BranchIs
  <2>3. ASSUME NEW k \in DOMAIN log, log'[k] = log[k], log[k] \in Ops, x \in Ops,
               ledger'[log[k]].run = ledger'[x].run
        PROVE  FALSE
    <3>1. x = proc[p].op /\ proc[p].pc = "verified"
      BY <2>1, <2>3, RollbackConstants
    <3>2. /\ x \in DOMAIN ledger /\ ledger[x].run = proc[p].run /\ ~OnBranch(x)
          /\ \A row \in records : row.run # proc[p].run
      BY <2>2, <3>1 DEF IInv, RollbackInvariant, Rely, OwnOperation, Begun, Committed
    <3>3. OnBranch(log[k])
      BY <2>3 DEF OnBranch
    <3>4. StateComplete(log[k])
      BY <2>2, <2>3, <3>1, <3>2, <3>3 DEF Unrecorded
    <3>5. ledger'[x].run = ledger[x].run
      BY <3>2 DEF Shared, LedgerStep
    <3>6. ledger[log[k]].run = proc[p].run
      BY <1>1, <2>3, <3>2, <3>5
    <3>7. PICK row \in records : row.op = log[k]
      BY <3>4 DEF StateComplete
    <3>8. row.run = ledger[row.op].run
      BY DEF IInv, RollbackInvariant, LedgerAgrees
    <3>9. QED
      BY <3>2, <3>6, <3>7, <3>8
  <2>4. CASE i # n /\ j # n
    BY <1>1, <2>1, <2>4 DEF IInv, RollbackInvariant, OneRevertEach
  <2>5. CASE i = n /\ j # n
    BY <2>1, <2>3, <2>5
  <2>6. CASE i # n /\ j = n
    BY <2>1, <2>3, <2>6
  <2>7. QED
    BY <2>4, <2>5, <2>6
<1>4. QED
  BY <1>2, <1>3

LEMMA AgreementKept ==
  ASSUME IInv, NEW p, Shared(p)
  PROVE  QueueAgrees' /\ LedgerAgrees'
<1>1. /\ \A o : OnBranch(o) => OnBranch(o)'
      /\ \A o : StateComplete(o) => StateComplete(o)'
  BY Stays DEF IInv
<1>2. QueueAgrees'
  BY <1>1 DEF Shared, QueueStep, QueueAgrees
<1>3. ASSUME NEW i \in DOMAIN log', log'[i] \in Ops
      PROVE  log'[i] \in DOMAIN ledger'
  <2>1. \A k \in DOMAIN log : log[k] \in Ops => log[k] \in DOMAIN ledger'
    BY DEF IInv, RollbackInvariant, LedgerAgrees, Shared, LedgerStep
  <2>2. CASE log' = log
    BY <1>3, <2>1, <2>2
  <2>3. CASE log' # log
    <3>1. PICK x \in Nat \cup Ops, n \in Nat :
          /\ log'[n] = x
          /\ \A k \in DOMAIN log' : k = n \/ (k \in DOMAIN log /\ log'[k] = log[k])
          /\ \/ x \in Nat /\ proc[p].pc = "integrate"
             \/ x = proc[p].op /\ proc[p].pc = "verified"
      BY <2>3, BranchIs
    <3>2. p \in Procs
      BY <2>3, BranchIs
    <3>3. x \in Ops => x \in DOMAIN ledger'
      BY <3>1, <3>2, RollbackConstants
         DEF IInv, RollbackInvariant, Rely, OwnOperation, Begun, Shared, LedgerStep
    <3>4. QED
      BY <1>3, <2>1, <3>1, <3>3
  <2>4. QED
    BY <2>2, <2>3
<1>4. ASSUME NEW row \in records', NEW o, o = row.op
      PROVE  o \in DOMAIN ledger' /\ OnBranch(o)' /\ row.run = ledger'[o].run /\ Marked(o)'
  <2>1. CASE row \in records
    <3>1. o \in DOMAIN ledger /\ OnBranch(o) /\ row.run = ledger[o].run /\ Marked(o)
      BY <1>4, <2>1 DEF IInv, RollbackInvariant, LedgerAgrees
    <3>2. QED
      BY <1>1, <3>1, MarkedKept DEF Shared, LedgerStep
  <2>2. CASE row \notin records
    <3>1. PICK u \in DOMAIN ledger : row.op = u /\ Unrecorded(u) /\ row.run = ledger[u].run /\ Marked(u)'
      BY <1>4, <2>2 DEF Shared, RecordsStep
    <3>2. QED
      BY <1>1, <1>4, <3>1 DEF Unrecorded, Shared, LedgerStep
  <2>3. QED
    BY <2>1, <2>2
<1>5. ASSUME NEW o \in DOMAIN ledger'
      PROVE  /\ ledger'[o].outcome = "complete" => StateComplete(o)'
             /\ ledger'[o].outcome \in {"reverted", "cancelled"} => ~OnBranch(o)'
  BY <1>1, <1>5 DEF Shared, LedgerStep, OnBranch
<1>6. ASSUME NEW o \in DOMAIN ledger', Unrecorded(o)'
      PROVE  log'[Len(log')] = o /\ TargetOf(o)'
  <2>0. o \in Ops
    BY <1>6 DEF Shared, LedgerStep, RecordsOK
  <2>1. ASSUME OnBranch(o)
        PROVE  /\ o \in DOMAIN ledger /\ ledger[o].task \in Tasks
               /\ ledger'[o].task = ledger[o].task /\ ledger'[o].run = ledger[o].run
    <3>1. o \in DOMAIN ledger
      BY <2>0, <2>1 DEF OnBranch, IInv, RollbackInvariant, LedgerAgrees
    <3>2. QED
      BY <3>1 DEF IInv, TypeOK, RecordsOK, Operation, Shared, LedgerStep
  <2>2. CASE log' = log
    <3>1. Unrecorded(o)
      BY <1>6, <2>2, Stays DEF IInv
    <3>2. o \in DOMAIN ledger /\ log[Len(log)] = o /\ TargetIs(ledger[o].task, ledger[o].run, o)
      BY <2>1, <3>1 DEF Unrecorded, IInv, RollbackInvariant, LedgerAgrees, TargetOf
    <3>3. PICK t \in Tasks : t = ledger[o].task
      BY <2>1, <3>1 DEF Unrecorded
    <3>a. PICK r : r = ledger[o].run
      OBVIOUS
    <3>4. TargetIs(t, r, o)'
      BY <2>2, <3>2, <3>3, <3>a, TargetKept
    <3>5. t = ledger'[o].task /\ r = ledger'[o].run
      BY <2>1, <3>1, <3>3, <3>a DEF Unrecorded
    <3>6. TargetOf(o)'
      BY <3>4, <3>5 DEF TargetOf
    <3>7. QED
      BY <2>2, <3>2, <3>6
  <2>3. CASE log' # log
    <3>1. PICK x \in Nat \cup Ops, n \in Nat :
          /\ log'[n] = x /\ n = Len(log')
          /\ \A k \in DOMAIN log' : k = n \/ (k \in DOMAIN log /\ log'[k] = log[k])
          /\ \/ x \in Nat /\ proc[p].pc = "integrate"
             \/ x = proc[p].op /\ proc[p].pc = "verified" /\ queue' = queue /\ records' = records
      BY <2>3, BranchIs
    <3>2. p \in Procs /\ \A u \in Ops : Unrecorded(u) => u = proc[p].op
      BY <2>3, BranchIs
    <3>3. o # x => OnBranch(o) /\ Unrecorded(o) /\ o = proc[p].op
      BY <1>1, <1>6, <2>0, <3>1, <3>2 DEF Unrecorded, OnBranch
    <3>4. /\ proc[p].pc = "verified" => ~OnBranch(proc[p].op)
          /\ proc[p].pc = "integrate" => proc[p].op = None
      BY <3>2 DEF IInv, RollbackInvariant, Rely, OwnOperation, Begun, Committed
    <3>5. o = x /\ x = proc[p].op /\ proc[p].pc = "verified" /\ queue' = queue
      BY <2>0, <3>1, <3>3, <3>4, RollbackConstants
    <3>6. /\ o \in DOMAIN ledger /\ ledger[o].task = proc[p].task /\ ledger[o].run = proc[p].run
          /\ TargetIs(proc[p].task, proc[p].run, o)
      BY <3>2, <3>5 DEF IInv, RollbackInvariant, Rely, OwnOperation, Begun, Committed
    <3>a. PICK t : t = ledger[o].task
      OBVIOUS
    <3>7. PICK r : r = ledger[o].run
      OBVIOUS
    <3>8. TargetIs(t, r, o)'
      BY <3>5, <3>6, <3>a, <3>7 DEF TargetIs, AlreadyMarked, Latest, EntriesOf
    <3>9. t = ledger'[o].task /\ r = ledger'[o].run
      BY <3>6, <3>a, <3>7 DEF Shared, LedgerStep
    <3>10. TargetOf(o)'
      BY <3>8, <3>9 DEF TargetOf
    <3>11. QED
      BY <3>1, <3>5, <3>10
  <2>4. QED
    BY <2>2, <2>3
<1>7. QED
  BY <1>2, <1>3, <1>4, <1>5, <1>6 DEF LedgerAgrees

(* What a command takes for granted survives a step of anybody else.        *)
LEMMA RelyKept ==
  ASSUME IInv, NEW p, Shared(p), NEW l, CommandOK(l), Rely(l),
         l.pc \in Leased => log' = log,
         l.pc \in Working => \/ UNCHANGED queue
                             \/ ~(p \in Procs /\ proc[p].pc \in Working /\ proc[p].task = l.task)
  PROVE  Rely(l)'
<1>1. /\ \A o : OnBranch(o) => OnBranch(o)'
      /\ \A o : StateComplete(o) => StateComplete(o)'
      /\ log' = log => \A o : (OnBranch(o)' <=> OnBranch(o)) /\ (Unrecorded(o)' => Unrecorded(o))
  BY Stays DEF IInv
<1>2. l.pc \in Working \cup Rolling \cup {"checking"} => l.task \in Tasks
  BY DEF Rely
<1>3. ASSUME l.pc \in Working
      PROVE  Latest(l.task)'.status = "running"
  <2>1. PICK t \in Tasks : t = l.task
    BY <1>2, <1>3
  <2>2. Latest(t).status = "running"
    BY <1>3, <2>1 DEF Rely
  <2>3. Latest(t)'.status = "running"
    <3>1. CASE UNCHANGED queue
      BY <2>2, <3>1 DEF Latest, EntriesOf
    <3>2. CASE ~(p \in Procs /\ proc[p].pc \in Working /\ proc[p].task = t)
      BY <2>2, <3>2 DEF Shared, QueueStep
    <3>3. QED
      BY <1>3, <2>1, <3>1, <3>2
  <2>4. QED
    BY <2>1, <2>3
<1>4. SnapshotAt(l)'
  <2>1. SnapshotAt(l)
    BY DEF Rely
  <2>2. \A o \in DOMAIN l.todo : /\ o \in DOMAIN ledger'
                                 /\ l.todo[o].task = ledger'[o].task
                                 /\ l.todo[o].run = ledger'[o].run
                                 /\ l.todo[o].outcome = "open"
    BY <2>1 DEF SnapshotAt, Shared, LedgerStep
  <2>3. QED
    BY <1>1, <2>1, <2>2 DEF SnapshotAt
<1>5. OthersRecorded(l)'
  BY <1>1 DEF Rely, OthersRecorded, Leased
<1>6. OwnOperation(l)'
  <2>1. OwnOperation(l)
    BY DEF Rely
  <2>2. l.pc \in Begun => /\ l.op \in DOMAIN ledger'
                          /\ ledger'[l.op].task = l.task /\ ledger'[l.op].run = l.run
    BY <2>1 DEF OwnOperation, Shared, LedgerStep
  <2>3. ASSUME l.pc \in Begun \ Committed
        PROVE  /\ ~OnBranch(l.op)' /\ TargetIs(l.task, l.run, l.op)'
               /\ \A row \in records' : row.run # l.run
    <3>1. log' = log /\ l.task \in Tasks /\ l.op \in Ops
      BY <1>2, <2>1, <2>3, RollbackConstants
         DEF Begun, Leased, Rolling, CommandOK, OwnOperation
    <3>2. ~OnBranch(l.op) /\ TargetIs(l.task, l.run, l.op) /\ \A row \in records : row.run # l.run
      BY <2>1, <2>3 DEF OwnOperation
    <3>3. ~OnBranch(l.op)' /\ TargetIs(l.task, l.run, l.op)'
      BY <1>1, <3>1, <3>2, TargetKept
    <3>4. ASSUME NEW row \in records', row \notin records
          PROVE  row.run # l.run
      <4>1. PICK o \in DOMAIN ledger : Unrecorded(o) /\ row.run = ledger[o].run
        BY <3>4 DEF Shared, RecordsStep
      <4>2. o \in Ops
        BY DEF IInv, TypeOK, RecordsOK
      <4>3. o = l.op
        BY <2>3, <4>1, <4>2 DEF Rely, OthersRecorded, Begun, Rolling
      <4>4. QED
        BY <3>2, <4>1, <4>3 DEF Unrecorded
    <3>5. QED
      BY <3>2, <3>3, <3>4
  <2>4. QED
    BY <1>1, <2>1, <2>2, <2>3 DEF OwnOperation
<1>7. QED
  BY <1>2, <1>3, <1>4, <1>5, <1>6 DEF Rely

(* A step of the operator.                                                  *)
LEMMA OperatorKeeps ==
  ASSUME IInv, Shared(None), proc' = proc,
         history' \in Seq(Tasks), tree' \subseteq Ops \cup {Litter}
  PROVE  IInv'
<1>0. None \notin Procs
  BY RollbackConstants
<1>1. log' = log
  BY <1>0 DEF Shared, LogStep
<1>2. OneRevertEach' /\ QueueAgrees' /\ LedgerAgrees'
  BY RevertsKept, AgreementKept
<1>3. ASSUME NEW q \in Procs, NEW l, l = proc[q]
      PROVE  (l.pc \in Leased => lease' = q) /\ Rely(l)' /\ CommandOK(l)
  <2>1. (l.pc \in Leased => lease = q) /\ Rely(l) /\ CommandOK(l)
    BY <1>3 DEF IInv, RollbackInvariant, TypeOK
  <2>2. Rely(l)'
    BY <1>0, <1>1, <2>1, RelyKept
  <2>3. QED
    BY <1>0, <1>3, <2>1, <2>2 DEF Shared, LeaseStep
<1>4. TypeOK'
  <2>1. \A q \in Procs : CommandOK(proc[q])'
    BY <1>3 DEF CommandOK, RecordsOK
  <2>2. QED
    BY <2>1, Stays DEF IInv, TypeOK, Shared, QueueStep, LedgerStep, LeaseStep
<1>5. OneWorker'
  BY DEF IInv, RollbackInvariant, OneWorker
<1>6. \A q \in Procs : (proc'[q].pc \in Leased => lease' = q) /\ Rely(proc[q])'
  BY <1>3
<1>7. QED
  BY <1>2, <1>4, <1>5, <1>6 DEF IInv, RollbackInvariant

(* A step of a process: what the others rely on is kept, so it is enough to *)
(* look at the process itself.                                              *)
LEMMA StepKeeps ==
  ASSUME IInv, NEW p \in Procs, NEW m, Become(p, m), Shared(p), CommandOK(m),
         history' \in Seq(Tasks), tree' \subseteq Ops \cup {Litter},
         m.pc \in Leased => lease' = p, Rely(m)',
         m.pc \in Working => \/ proc[p].pc \in Working /\ m.task = proc[p].task
                             \/ Latest(m.task).status # "running"
  PROVE  IInv'
<1>0. DOMAIN proc = Procs /\ proc' = [proc EXCEPT ![p] = m]
  BY DEF IInv, TypeOK, Become
<1>1. /\ DOMAIN proc' = Procs /\ proc'[p] = m
      /\ \A q \in Procs : q # p => proc'[q] = proc[q]
  BY <1>0
<1>2. OneRevertEach' /\ QueueAgrees' /\ LedgerAgrees'
  BY RevertsKept, AgreementKept
<1>3. ASSUME NEW q \in Procs, q # p, NEW l, l = proc[q]
      PROVE  (l.pc \in Leased => lease' = q) /\ Rely(l)' /\ CommandOK(l)
  <2>1. (l.pc \in Leased => lease = q) /\ Rely(l) /\ CommandOK(l)
    BY <1>3 DEF IInv, RollbackInvariant, TypeOK
  <2>2. l.pc \in Leased => log' = log
    BY <1>3, <2>1 DEF Shared, LogStep
  <2>3. l.pc \in Working => ~(proc[p].pc \in Working /\ proc[p].task = l.task)
    BY <1>3 DEF IInv, RollbackInvariant, OneWorker
  <2>4. Rely(l)'
    BY <2>1, <2>2, <2>3, RelyKept
  <2>5. QED
    BY <1>3, <2>1, <2>4 DEF Shared, LeaseStep
<1>4. TypeOK'
  <2>1. \A q \in Procs : CommandOK(proc'[q])
    BY <1>1, <1>3
  <2>2. \A q \in Procs : CommandOK(proc[q])'
    BY <2>1 DEF CommandOK, RecordsOK
  <2>3. QED
    BY <1>1, <2>2, Stays DEF IInv, TypeOK, Shared, QueueStep, LedgerStep, LeaseStep
<1>5. OneWorker'
  <2>1. ASSUME NEW q \in Procs, q # p, proc[q].pc \in Working, m.pc \in Working
        PROVE  proc[q].task # m.task
    <3>1. Latest(proc[q].task).status = "running"
      BY <2>1 DEF IInv, RollbackInvariant, Rely
    <3>2. proc[p].pc \in Working => proc[q].task # proc[p].task
      BY <2>1 DEF IInv, RollbackInvariant, OneWorker
    <3>3. QED
      BY <2>1, <3>1, <3>2
  <2>2. \A q, r \in Procs : q # p /\ r # p /\ q # r /\ proc[q].pc \in Working /\ proc[r].pc \in Working
                              => proc[q].task # proc[r].task
    BY DEF IInv, RollbackInvariant, OneWorker
  <2>3. QED
    BY <1>1, <2>1, <2>2 DEF OneWorker
<1>6. \A q \in Procs : (proc'[q].pc \in Leased => lease' = q) /\ Rely(proc[q])'
  BY <1>1, <1>3
<1>7. QED
  BY <1>2, <1>4, <1>5, <1>6 DEF IInv, RollbackInvariant

(* What a step leaves alone.                                                *)
LEMMA Same ==
  ASSUME IInv, NEW p
  PROVE  /\ log' = log => LogStep(p)
         /\ UNCHANGED <<ledger, log>> => LedgerStep
         /\ UNCHANGED queue => QueueStep(p)
         /\ UNCHANGED records => RecordsStep
         /\ UNCHANGED lease => LeaseStep(p)
         /\ p \in Procs /\ Release(p) => LeaseStep(p)
         /\ p \in Procs /\ lease = None /\ lease' = p => LeaseStep(p)
<1>1. UNCHANGED <<ledger, log>> => LedgerStep
  BY DEF IInv, TypeOK, RecordsOK, RollbackInvariant, LedgerAgrees, LedgerStep, OnBranch
<1>2. UNCHANGED queue => QueueStep(p)
  BY DEF IInv, TypeOK, RollbackInvariant, QueueAgrees, QueueStep, EntriesOf, Latest
<1>3. /\ UNCHANGED lease => LeaseStep(p)
      /\ p \in Procs /\ Release(p) => LeaseStep(p)
      /\ p \in Procs /\ lease = None /\ lease' = p => LeaseStep(p)
  BY RollbackConstants DEF IInv, TypeOK, LeaseStep, Release
<1>4. QED
  BY <1>1, <1>2, <1>3 DEF LogStep, RecordsStep

(* A step that changes nothing of the queue, the branch and the records.    *)
LEMMA LedgerKeeps ==
  ASSUME IInv, NEW p \in Procs, NEW m, Become(p, m), CommandOK(m), LedgerStep,
         UNCHANGED <<queue, history, log, records>>,
         tree' \subseteq Ops \cup {Litter}, LeaseStep(p),
         m.pc \in Leased => lease' = p, Rely(m),
         m.pc \in Working => proc[p].pc \in Working /\ m.task = proc[p].task
  PROVE  IInv'
<1>1. Shared(p)
  BY Same DEF Shared
<1>2. Rely(m)'
  BY <1>1, RelyKept
<1>3. history' \in Seq(Tasks)
  BY DEF IInv, TypeOK
<1>4. QED
  BY <1>1, <1>2, <1>3, StepKeeps

LEMMA QuietKeeps ==
  ASSUME IInv, NEW p \in Procs, NEW m, Become(p, m), CommandOK(m),
         UNCHANGED <<queue, history, log, ledger, records>>,
         tree' \subseteq Ops \cup {Litter}, LeaseStep(p),
         m.pc \in Leased => lease' = p, Rely(m),
         m.pc \in Working => proc[p].pc \in Working /\ m.task = proc[p].task
  PROVE  IInv'
BY Same, LedgerKeeps

(* A process that does nothing relies on nothing.                           *)
LEMMA IdleRelies ==
  CommandOK(Idle) /\ Rely(Idle) /\ Rely(Idle)' /\ Idle.pc = "idle"
  /\ Idle.pc \notin Leased \cup Working
<1>1. /\ Idle.pc = "idle" /\ Idle.op = None /\ Idle.item = None /\ Idle.step = "look"
      /\ Idle.todo = NoRecords /\ DOMAIN Idle.todo = {}
  BY DEF Idle, NoRecords
<1>2. /\ Idle.pc \notin Leased \cup Working \cup Rolling \cup Begun
  BY <1>1 DEF Leased, Working, Rolling, Begun
<1>3. Rely(Idle) /\ Rely(Idle)'
  BY <1>1, <1>2 DEF Rely, SnapshotAt, OthersRecorded, OwnOperation, Leased, Working, Begun, Committed
<1>4. CommandOK(Idle)
  BY <1>1 DEF Idle, CommandOK, RecordsOK, Points, NoRecords
<1>5. QED
  BY <1>1, <1>2, <1>3, <1>4

LEMMA LeaveKeeps ==
  ASSUME IInv, NEW p \in Procs, Leave(p), LogStep(p), LedgerStep, QueueStep(p), RecordsStep,
         history' \in Seq(Tasks), tree' \subseteq Ops \cup {Litter}
  PROVE  IInv'
<1>1. Become(p, Idle) /\ LeaseStep(p)
  BY Same DEF Leave
<1>2. QED
  BY <1>1, IdleRelies, StepKeeps DEF Shared

-----------------------------------------------------------------------------
(* Reconciliation.                                                          *)

(* What blocks is in the report, for it is open.                            *)
LEMMA ReconcileKeeps ==
  ASSUME IInv, NEW p \in Procs, NEW local, CommandOK(local), Reconcile(p, local),
         UNCHANGED <<queue, history, log, tree, ledger, records>>, LeaseStep(p),
         local.pc \in Reconciling, local.op = None,
         local.pc \in Leased => lease' = p,
         local.pc = "checking" => local.task \in Tasks,
         local.pc \in Working => proc[p].pc \in Working /\ local.task = proc[p].task
  PROVE  IInv'
<1> DEFINE todo == [o \in OpenOps |-> ledger[o]]
           m == [local EXCEPT !.todo = todo, !.item = None, !.step = "look", !.blocked = FALSE]
<1>1. Become(p, m)
  BY DEF Reconcile
<1>2. RecordsOK(todo) /\ DOMAIN todo = OpenOps /\ \A o \in OpenOps : todo[o] = ledger[o]
  BY DEF OpenOps, RecordsOK, IInv, TypeOK
<1> HIDE DEF todo
<1>3. CommandOK(m)
  BY <1>2 DEF CommandOK
<1>4. /\ m.pc = local.pc /\ m.task = local.task /\ m.op = local.op /\ m.todo = todo
      /\ m.item = None /\ m.step = "look" /\ m.blocked = FALSE
  BY DEF CommandOK
<1> HIDE DEF m
<1>5. m.pc \in Working \cup {"checking"} => m.task \in Tasks
  BY <1>4 DEF IInv, RollbackInvariant, Rely
<1>6. m.pc \in Working => Latest(m.task).status = "running"
  BY <1>4 DEF IInv, RollbackInvariant, Rely
<1>7. \A o \in Ops : Unrecorded(o) => o \in OpenOps
  BY DEF IInv, TypeOK, RecordsOK, Operation, Outcomes, RollbackInvariant, LedgerAgrees, Unrecorded,
         OnBranch, OpenOps
<1>8. SnapshotAt(m)
  BY <1>2, <1>4 DEF SnapshotAt, OpenOps
<1>9. OthersRecorded(m) /\ OwnOperation(m) /\ m.pc \notin Rolling
  BY <1>2, <1>4, <1>7 DEF OthersRecorded, OwnOperation, Reconciling, Rolling, Begun, Committed
<1>10. Rely(m)
  BY <1>5, <1>6, <1>8, <1>9 DEF Rely
<1>11. tree' \subseteq Ops \cup {Litter}
  BY DEF IInv, TypeOK
<1>12. QED
  BY <1>1, <1>3, <1>4, <1>10, <1>11, QuietKeeps

LEMMA RaiseKeeps ==
  ASSUME IInv, NEW p \in Procs, proc[p].pc \in Working, Raise(p),
         UNCHANGED <<queue, history, log, tree, ledger, records>>
  PROVE  IInv'
<1> DEFINE local == [proc[p] EXCEPT !.pc = "failing"]
<1>1. CommandOK(proc[p]) /\ Rely(proc[p])
  BY DEF IInv, TypeOK, RollbackInvariant
<1>2. CommandOK(local)
  BY <1>1 DEF CommandOK, Points, Reconciling
<1>3. local.pc = "failing" /\ local.op = proc[p].op /\ local.task = proc[p].task
  BY <1>1 DEF CommandOK
<1>4. local.op = None
  BY <1>1, <1>3 DEF Rely, OwnOperation, Begun, Working
<1>5. Reconcile(p, local) /\ LeaseStep(p)
  BY Same DEF Raise
<1>6. local.pc \in Reconciling /\ local.pc \notin Leased /\ local.pc # "checking"
  BY <1>3 DEF Reconciling, Leased, Rolling
<1> HIDE DEF local
<1>7. QED
  BY <1>2, <1>3, <1>4, <1>5, <1>6, ReconcileKeeps

LEMMA EscapesKeeps ==
  ASSUME IInv, NEW p \in Procs, Escapes(p),
         UNCHANGED <<queue, history, log, tree, ledger, records>>
  PROVE  IInv'
<1>1. CASE Raise(p) /\ proc[p].pc = "integrating"
  BY <1>1, RaiseKeeps DEF Working
<1>2. CASE Leave(p)
  BY <1>2, Same, LeaveKeeps DEF IInv, TypeOK
<1>3. QED
  BY <1>1, <1>2 DEF Escapes

LEMMA NextItemKeeps ==
  ASSUME IInv, NEW p \in Procs, NEW step, InHand(p, step), NEW b \in BOOLEAN, NextItem(p, b),
         UNCHANGED <<queue, history, log, tree, records, lease>>, LedgerStep,
         b \/ ~Unrecorded(proc[p].item)
  PROVE  IInv'
<1> DEFINE l == proc[p]
           todo == [o \in DOMAIN l.todo \ {l.item} |-> l.todo[o]]
           blocked == l.blocked \/ b
           m == [l EXCEPT !.todo = todo, !.item = None, !.step = "look", !.blocked = blocked]
<1>1. CommandOK(l) /\ Rely(l) /\ (l.pc \in Leased => lease = p) /\ l.pc \in Reconciling
  BY DEF IInv, TypeOK, RollbackInvariant, InHand
<1>2. Become(p, m)
  BY DEF NextItem
<1>3. /\ RecordsOK(todo) /\ DOMAIN todo = DOMAIN l.todo \ {l.item}
      /\ \A o \in DOMAIN todo : todo[o] = l.todo[o]
  BY <1>1 DEF CommandOK, RecordsOK
<1>4. blocked \in BOOLEAN /\ (blocked = FALSE => l.blocked = FALSE /\ ~b)
  BY <1>1 DEF CommandOK
<1> HIDE DEF l, todo, blocked
<1>5. CommandOK(m)
  BY <1>1, <1>3, <1>4 DEF CommandOK
<1>6. /\ m.pc = l.pc /\ m.task = l.task /\ m.op = l.op /\ m.todo = todo
      /\ m.item = None /\ m.step = "look" /\ m.blocked = blocked
  BY <1>1 DEF CommandOK
<1> HIDE DEF m
<1>7. SnapshotAt(m)
  BY <1>1, <1>3, <1>6 DEF Rely, SnapshotAt
<1>8. OthersRecorded(m)
  <2>1. m.pc \notin Rolling /\ m.pc # "integrate"
    BY <1>1, <1>6 DEF Reconciling, Rolling
  <2>2. ASSUME m.pc \in {"checking", "integrating"}, m.blocked = FALSE, NEW o \in Ops, Unrecorded(o)
        PROVE  o \in DOMAIN m.todo
    <3>1. l.blocked = FALSE /\ ~b
      BY <1>4, <1>6, <2>2
    <3>2. o \in DOMAIN l.todo
      BY <1>1, <1>6, <2>2, <3>1 DEF Rely, OthersRecorded
    <3>3. o # l.item
      BY <2>2, <3>1 DEF l
    <3>4. QED
      BY <1>3, <1>6, <3>2, <3>3
  <2>3. m.blocked \in BOOLEAN
    BY <1>4, <1>6
  <2>4. QED
    BY <2>1, <2>2, <2>3 DEF OthersRecorded
<1>9. OwnOperation(m) /\ m.pc \notin Begun
  BY <1>1, <1>6 DEF Rely, OwnOperation, Reconciling, Begun, Committed
<1>10. Rely(m)
  BY <1>1, <1>6, <1>7, <1>8, <1>9 DEF Rely
<1>11. tree' \subseteq Ops \cup {Litter} /\ LeaseStep(p)
  BY Same DEF IInv, TypeOK
<1>12. QED
  BY <1>1, <1>2, <1>5, <1>6, <1>10, <1>11, LedgerKeeps DEF l

-----------------------------------------------------------------------------
(* Steps on the queue.                                                      *)

LEMMA ChangeIs ==
  ASSUME IInv, NEW p, NEW t \in Tasks, NEW e \in Entry, e.id = t, SetLatest(t, e),
         Latest(t).status # "rolled_back", e.by # None => OnBranch(e.by),
         Latest(t).status = "running" => p \in Procs /\ proc[p].pc \in Working /\ proc[p].task = t,
         \/ e.status \notin {"done", "rolled_back"}
         \/ Latest(t).status = "done" /\ e.run = Latest(t).run
         \/ log' # log /\ p \in Procs /\ proc[p].pc = "integrate"
  PROVE  QueueStep(p) /\ Latest(t)' = e /\ \E i \in DOMAIN queue' : queue'[i] = e
<1>1. queue \in Seq(Entry) /\ \A u \in Tasks : EntriesOf(u) # {}
  BY DEF IInv, TypeOK, RollbackInvariant, QueueAgrees
<1>2. /\ queue' \in Seq(Entry) /\ DOMAIN queue' = DOMAIN queue
      /\ \A u : EntriesOf(u)' = EntriesOf(u)
      /\ \A u : EntriesOf(u) # {} => Latest(u)' = IF u = t THEN e ELSE Latest(u)
      /\ \A i \in DOMAIN queue : queue'[i] = queue[i] \/ (queue'[i] = e /\ queue[i] = Latest(t))
      /\ \E i \in DOMAIN queue : queue'[i] = e
  BY <1>1, SetLatestIs
<1>3. \A u \in Tasks : u # t => Latest(u)' = Latest(u)
  BY <1>1, <1>2
<1>4. Latest(t)' = e
  BY <1>1, <1>2
<1>5. \A i \in DOMAIN queue : queue[i].status = "rolled_back" => queue'[i] = queue[i]
  BY <1>2
<1>6. \A i \in DOMAIN queue' : queue'[i].by # None => OnBranch(queue'[i].by)
  BY <1>2 DEF IInv, RollbackInvariant, QueueAgrees
<1>7. QED
  BY <1>1, <1>2, <1>3, <1>4, <1>5, <1>6 DEF QueueStep

(* complete_rollback marks an entry that is done, or marked already.        *)
LEMMA MarkIs ==
  ASSUME IInv, NEW p, NEW t \in Tasks, NEW o \in Ops, OnBranch(o), MarkRolledBack(t, o),
         Latest(t).status = "done" \/ AlreadyMarked(t, o)
  PROVE  /\ QueueStep(p)
         /\ \E i \in DOMAIN queue' : /\ queue'[i].status = "rolled_back" /\ queue'[i].by = o
                                     /\ queue'[i].run = Latest(t).run
<1>1. PICK k \in DOMAIN queue : Latest(t) = queue[k] /\ queue[k].id = t /\ Latest(t) \in Entry
  BY LatestIs DEF IInv, TypeOK, RollbackInvariant, QueueAgrees
<1>2. CASE AlreadyMarked(t, o)
  BY <1>1, <1>2, Same DEF MarkRolledBack, AlreadyMarked
<1>3. CASE ~AlreadyMarked(t, o)
  <2> DEFINE e == [Latest(t) EXCEPT !.status = "rolled_back", !.by = o]
  <2>1. /\ e \in Entry /\ e.id = t /\ e.status = "rolled_back" /\ e.by = o
        /\ e.run = Latest(t).run
    BY <1>1 DEF Entry, Statuses
  <2>2. SetLatest(t, e) /\ Latest(t).status = "done"
    BY <1>3 DEF MarkRolledBack
  <2> HIDE DEF e
  <2>3. QueueStep(p) /\ \E i \in DOMAIN queue' : queue'[i] = e
    BY <2>1, <2>2, ChangeIs
  <2>4. QED
    BY <2>1, <2>3
<1>4. QED
  BY <1>2, <1>3

(* A change of status by the command that works on the task.                *)
LEMMA WorkerSets ==
  ASSUME IInv, NEW p \in Procs, NEW t \in Tasks, NEW s \in {"queued", "running", "failed"},
         SetLatest(t, [Latest(t) EXCEPT !.status = s]),
         \/ Latest(t).status = "queued"
         \/ proc[p].pc \in Working /\ proc[p].task = t
  PROVE  QueueStep(p) /\ Latest(t)'.status = s
<1>1. PICK k \in DOMAIN queue : Latest(t) = queue[k] /\ queue[k].id = t /\ Latest(t) \in Entry
  BY LatestIs DEF IInv, TypeOK, RollbackInvariant, QueueAgrees
<1>2. Latest(t).status \in {"queued", "running"}
  BY DEF IInv, RollbackInvariant, Rely
<1> DEFINE e == [Latest(t) EXCEPT !.status = s]
<1>3. e \in Entry /\ e.id = t /\ e.status = s /\ e.by = Latest(t).by
  BY <1>1 DEF Entry, Statuses
<1>4. e.by # None => OnBranch(e.by)
  BY <1>1, <1>3 DEF IInv, RollbackInvariant, QueueAgrees
<1> HIDE DEF e
<1>5. SetLatest(t, e)
  BY DEF e
<1>6. QueueStep(p) /\ Latest(t)' = e
  BY <1>2, <1>3, <1>4, <1>5, ChangeIs
<1>7. QED
  BY <1>3, <1>6

(* A revert on the branch that no record tells of is recorded.              *)
LEMMA CompleteIs ==
  ASSUME IInv, NEW p, NEW o \in Ops, OnBranch(o), NEW row \in Row, row.op = o,
         row.task = ledger[o].task, row.run = ledger[o].run, CompleteRollback(row),
         UNCHANGED <<log, ledger>>
  PROVE  QueueStep(p) /\ RecordsStep /\ StateComplete(o)'
<1>1. o \in DOMAIN ledger /\ row.task \in Tasks
  BY DEF OnBranch, IInv, RollbackInvariant, LedgerAgrees, Row
<1>2. Latest(row.task).status = "done" \/ AlreadyMarked(row.task, o)
  BY DEF CompleteRollback, CompleteRefused
<1>3. MarkRolledBack(row.task, o) /\ records' = records \cup {row}
  BY DEF CompleteRollback
<1>4. /\ QueueStep(p)
      /\ \E i \in DOMAIN queue' : /\ queue'[i].status = "rolled_back" /\ queue'[i].by = o
                                  /\ queue'[i].run = Latest(row.task).run
  BY <1>1, <1>2, <1>3, MarkIs
<1>5. StateComplete(o)'
  BY <1>3 DEF StateComplete
<1>6. CASE StateComplete(o)
  <2>1. records' = records
    BY <1>3, <1>6 DEF StateComplete, CompleteRollback, CompleteRefused
  <2>2. QED
    BY <1>4, <1>5, <2>1 DEF RecordsStep
<1>7. CASE ~StateComplete(o)
  <2>1. Unrecorded(o)
    BY <1>7 DEF Unrecorded
  <2>2. TargetOf(o)
    BY <1>1, <2>1 DEF IInv, RollbackInvariant, LedgerAgrees
  <2>3. Latest(row.task).run = ledger[o].run
    BY <1>2, <2>2 DEF TargetOf, TargetIs
  <2>4. Marked(o)'
    BY <1>4, <2>3 DEF Marked
  <2>5. QED
    BY <1>1, <1>3, <1>4, <1>5, <2>1, <2>4 DEF RecordsStep
<1>8. QED
  BY <1>6, <1>7

-----------------------------------------------------------------------------
(* Steps of a reconciliation.                                               *)

\* Where a reconciliation is: at which record, and how far with it.
At(l, item, step) == [l EXCEPT !.item = item, !.step = step]

LEMMA MoveIs ==
  ASSUME IInv, NEW p \in Procs, NEW step \in {"look", "judge", "write", "finish"},
         NEW item \in Ops \cup {None},
         Become(p, At(proc[p], item, step))
  PROVE  \E m : /\ Become(p, m) /\ CommandOK(m)
                /\ m.pc = proc[p].pc /\ m.task = proc[p].task /\ m.run = proc[p].run
                /\ m.op = proc[p].op /\ m.todo = proc[p].todo /\ m.blocked = proc[p].blocked
                /\ m.item = item /\ m.step = step
<1>1. CommandOK(proc[p])
  BY DEF IInv, TypeOK
<1> DEFINE m == [proc[p] EXCEPT !.item = item, !.step = step]
<1>2. CommandOK(m)
  BY <1>1 DEF CommandOK
<1>3. /\ m.pc = proc[p].pc /\ m.task = proc[p].task /\ m.run = proc[p].run
      /\ m.op = proc[p].op /\ m.todo = proc[p].todo /\ m.blocked = proc[p].blocked
      /\ m.item = item /\ m.step = step
  BY <1>1 DEF CommandOK
<1> HIDE DEF m
<1>4. Become(p, m)
  BY DEF m, At
<1>5. QED
  BY <1>2, <1>3, <1>4

(* A move between the steps for one record relies on what is true of it.    *)
LEMMA MoveKeeps ==
  ASSUME IInv, NEW p \in Procs, NEW step \in {"look", "judge", "write", "finish"},
         NEW item \in DOMAIN proc[p].todo,
         Become(p, At(proc[p], item, step)),
         proc[p].pc \in Reconciling, Shared(None),
         step \in {"write", "finish"} => OnBranch(item),
         step = "finish" => StateComplete(item)',
         UNCHANGED <<history, tree>>
  PROVE  IInv'
<1>0. PICK l : l = proc[p]
  OBVIOUS
<1>1. CommandOK(l) /\ Rely(l) /\ (l.pc \in Leased => lease = p) /\ None \notin Procs \cup Ops
  BY <1>0, RollbackConstants DEF IInv, TypeOK, RollbackInvariant
<1>2. item \in Ops
  BY <1>0, <1>1 DEF CommandOK, RecordsOK
<1>3. PICK m : /\ Become(p, m) /\ CommandOK(m)
               /\ m.pc = proc[p].pc /\ m.task = proc[p].task /\ m.run = proc[p].run
               /\ m.op = proc[p].op /\ m.todo = proc[p].todo /\ m.blocked = proc[p].blocked
               /\ m.item = item /\ m.step = step
  BY <1>2, MoveIs
<1>a. /\ m.pc = l.pc /\ m.task = l.task /\ m.run = l.run
      /\ m.op = l.op /\ m.todo = l.todo /\ m.blocked = l.blocked
  BY <1>0, <1>3
<1>4. UNCHANGED log /\ Shared(p) /\ (lease = p => lease' = p)
  BY <1>1 DEF Shared, LogStep, QueueStep, LeaseStep
<1>5. Rely(l)'
  BY <1>1, <1>4, RelyKept
<1>6. m.op = None
  BY <1>0, <1>1, <1>3, <1>a DEF Rely, OwnOperation, Begun, Reconciling
<1>7. SnapshotAt(m)'
  <2>1. step \in {"write", "finish"} => OnBranch(item)'
    BY <1>4 DEF OnBranch
  <2>2. item \in DOMAIN l.todo
    BY <1>0
  <2>3. QED
    BY <1>1, <1>2, <1>3, <1>a, <1>5, <1>6, <2>1, <2>2 DEF Rely, SnapshotAt
<1>8. OthersRecorded(m)' /\ OwnOperation(m)'
  BY <1>3, <1>a, <1>5 DEF Rely, OthersRecorded, OwnOperation
<1>9. Rely(m)'
  BY <1>3, <1>a, <1>5, <1>7, <1>8 DEF Rely
<1>10. history' \in Seq(Tasks) /\ tree' \subseteq Ops \cup {Litter}
  BY DEF IInv, TypeOK
<1>11. /\ m.pc \in Leased => lease' = p
       /\ m.pc \in Working => proc[p].pc \in Working /\ m.task = proc[p].task
  BY <1>0, <1>1, <1>3, <1>a, <1>4
<1>12. QED
  BY <1>3, <1>4, <1>9, <1>10, <1>11, StepKeeps

LEMMA TakeItemKeeps ==
  ASSUME IInv, NEW p \in Procs, TakeItem(p)
  PROVE  IInv'
<1>1. PICK o \in DOMAIN proc[p].todo : Become(p, [proc[p] EXCEPT !.item = o])
  BY DEF TakeItem
<1>2. proc[p].step = "look" /\ CommandOK(proc[p])
  BY DEF IInv, TypeOK, RollbackInvariant, Rely, SnapshotAt, TakeItem
<1>3. [proc[p] EXCEPT !.item = o] = At(proc[p], o, "look")
  BY <1>2 DEF CommandOK, At
<1>4. Shared(None)
  BY Same DEF Shared, TakeItem
<1>5. QED
  BY <1>1, <1>3, <1>4, MoveKeeps DEF TakeItem

(* A change of one record of the ledger.                                    *)
LEMMA RecordIs ==
  ASSUME IInv, NEW o \in DOMAIN ledger, NEW rec \in Operation,
         rec.task = ledger[o].task, rec.run = ledger[o].run,
         ledger' = [ledger EXCEPT ![o] = rec],
         \A i \in DOMAIN log' : OnBranch(log'[i]) \/ log'[i] \in Nat \cup {o},
         rec.outcome = "complete" => StateComplete(o),
         rec.outcome \in {"reverted", "cancelled"} => \A i \in DOMAIN log' : log'[i] # o
  PROVE  LedgerStep
<1>1. RecordsOK(ledger)
  BY DEF IInv, TypeOK
<1>2. /\ DOMAIN ledger' = DOMAIN ledger /\ ledger'[o] = rec
      /\ \A u \in DOMAIN ledger : u # o => ledger'[u] = ledger[u]
  BY DEF RecordsOK
<1>3. RecordsOK(ledger')
  BY <1>1, <1>2 DEF RecordsOK
<1>4. \A u \in DOMAIN ledger : ledger'[u].task = ledger[u].task /\ ledger'[u].run = ledger[u].run
  BY <1>2
<1>5. ASSUME NEW u \in DOMAIN ledger'
      PROVE  /\ ledger'[u].outcome = "complete" => StateComplete(u)
             /\ ledger'[u].outcome \in {"reverted", "cancelled"} => \A i \in DOMAIN log' : log'[i] # u
  <2>1. CASE u = o
    BY <1>2, <2>1
  <2>2. CASE u # o
    <3>1. u \in Ops /\ u \notin Nat /\ ledger'[u] = ledger[u]
      BY <1>1, <1>2, <1>5, <2>2, RollbackConstants DEF RecordsOK
    <3>2. /\ ledger[u].outcome = "complete" => StateComplete(u)
          /\ ledger[u].outcome \in {"reverted", "cancelled"} => ~OnBranch(u)
      BY <1>2, <1>5 DEF IInv, RollbackInvariant, LedgerAgrees
    <3>3. QED
      BY <2>2, <3>1, <3>2
  <2>3. QED
    BY <2>1, <2>2
<1>6. QED
  BY <1>2, <1>3, <1>4, <1>5 DEF LedgerStep

LEMMA OutcomeIs ==
  ASSUME IInv, NEW o \in DOMAIN ledger, NEW c \in Outcomes,
         ledger' = [ledger EXCEPT ![o].outcome = c], UNCHANGED log,
         c = "complete" => StateComplete(o),
         c \in {"reverted", "cancelled"} => ~OnBranch(o)
  PROVE  LedgerStep
<1> DEFINE rec == [ledger[o] EXCEPT !.outcome = c]
<1>1. ledger[o] \in Operation /\ ledger \in [DOMAIN ledger -> Operation]
  BY DEF IInv, TypeOK, RecordsOK
<1>2. /\ rec \in Operation /\ rec.task = ledger[o].task /\ rec.run = ledger[o].run
      /\ rec.outcome = c
  BY <1>1 DEF Operation
<1>3. ledger' = [ledger EXCEPT ![o] = rec]
  BY <1>1
<1>4. \A i \in DOMAIN log' : OnBranch(log'[i])
  BY DEF OnBranch
<1>5. rec.outcome \in {"reverted", "cancelled"} => \A i \in DOMAIN log' : log'[i] # o
  BY <1>2 DEF OnBranch
<1> HIDE DEF rec
<1>6. QED
  BY <1>2, <1>3, <1>4, <1>5, RecordIs

\* What a reconciliation has in hand.
LEMMA InHandIs ==
  ASSUME IInv, NEW p \in Procs, NEW step, InHand(p, step)
  PROVE  /\ CommandOK(proc[p]) /\ proc[p].item \in DOMAIN proc[p].todo
         /\ proc[p].item \in Ops /\ proc[p].item \in DOMAIN ledger
         /\ proc[p].todo[proc[p].item] \in Operation
         /\ proc[p].todo[proc[p].item].task = ledger[proc[p].item].task
         /\ proc[p].todo[proc[p].item].run = ledger[proc[p].item].run
         /\ proc[p].todo[proc[p].item].outcome = "open"
         /\ step \in {"write", "finish"} => OnBranch(proc[p].item)
         /\ step = "finish" => StateComplete(proc[p].item)
<1>1. CommandOK(proc[p]) /\ SnapshotAt(proc[p]) /\ proc[p].item # None /\ proc[p].step = step
  BY DEF IInv, TypeOK, RollbackInvariant, Rely, InHand
<1>2. QED
  BY <1>1 DEF CommandOK, RecordsOK, SnapshotAt

LEMMA NextStepKeeps ==
  ASSUME IInv, NEW p \in Procs, NEW step, InHand(p, step), NEW s \in {"judge", "write", "finish"},
         NEW item, item = proc[p].item,
         Become(p, [proc[p] EXCEPT !.step = s]), Shared(None),
         s \in {"write", "finish"} => OnBranch(item),
         s = "finish" => StateComplete(item)',
         UNCHANGED <<history, tree>>
  PROVE  IInv'
<1>2. CommandOK(proc[p]) /\ item \in DOMAIN proc[p].todo
  BY InHandIs
<1>3. [proc[p] EXCEPT !.step = s] = At(proc[p], item, s)
  BY <1>2 DEF CommandOK, At
<1>4. Become(p, At(proc[p], item, s))
  BY <1>3
<1>5. proc[p].pc \in Reconciling
  BY DEF InHand
<1>6. QED
  BY <1>2, <1>4, <1>5, MoveKeeps

LEMMA LookUpKeeps ==
  ASSUME IInv, NEW p \in Procs, LookUp(p)
  PROVE  IInv'
<1> DEFINE o == proc[p].item
<1>1. InHand(p, "look") /\ UNCHANGED <<queue, history, log, tree, records>>
  BY DEF LookUp
<1>2. o \in DOMAIN ledger
  BY <1>1, InHandIs
<1>3. CASE Become(p, [proc[p] EXCEPT !.step = "judge"]) /\ UNCHANGED <<ledger, lease>>
  <2>1. Shared(None)
    BY <1>1, <1>3, Same DEF Shared
  <2>2. QED
    BY <1>1, <1>3, <2>1, NextStepKeeps
<1>4. CASE Escapes(p) /\ UNCHANGED ledger
  BY <1>1, <1>4, EscapesKeeps
<1>5. CASE /\ StateComplete(o) /\ ledger' = [ledger EXCEPT ![o].outcome = "complete"]
           /\ NextItem(p, FALSE) /\ UNCHANGED lease
  <2>1. LedgerStep
    BY <1>1, <1>2, <1>5, OutcomeIs DEF Outcomes
  <2>2. QED
    BY <1>1, <1>5, <2>1, NextItemKeeps DEF Unrecorded
<1>6. QED
  BY <1>3, <1>4, <1>5 DEF LookUp

LEMMA JudgeKeeps ==
  ASSUME IInv, NEW p \in Procs, Judge(p)
  PROVE  IInv'
<1>1. InHand(p, "judge") /\ UNCHANGED <<queue, history, log, tree, records, lease>>
  BY DEF Judge
<1>2. PICK o, rec : o = proc[p].item /\ rec = proc[p].todo[o]
  OBVIOUS
<1>3. /\ o \in DOMAIN ledger /\ rec \in Operation /\ rec.task = ledger[o].task
      /\ rec.run = ledger[o].run /\ rec.outcome = "open"
  BY <1>1, <1>2, InHandIs
<1>4. CASE ExactCommit(o, rec)
  <2>1. OnBranch(o)
    BY <1>4 DEF ExactCommit, OnBranch
  <2>2. LedgerStep
    <3>1. CASE UNCHANGED ledger
      BY <1>1, <3>1, Same
    <3>2. CASE ledger' = [ledger EXCEPT ![o] = [rec EXCEPT !.commit = TRUE]]
      <4> DEFINE new == [rec EXCEPT !.commit = TRUE]
      <4>1. /\ new \in Operation /\ new.task = ledger[o].task /\ new.run = ledger[o].run
            /\ new.outcome = "open"
        BY <1>3 DEF Operation
      <4>2. \A i \in DOMAIN log' : OnBranch(log'[i])
        BY <1>1 DEF OnBranch
      <4> HIDE DEF new
      <4>3. ledger' = [ledger EXCEPT ![o] = new]
        BY <3>2 DEF new
      <4>4. QED
        BY <1>3, <4>1, <4>2, <4>3, RecordIs
    <3>3. QED
      BY <1>2, <1>4, <3>1, <3>2 DEF Judge
  <2>3. Become(p, [proc[p] EXCEPT !.step = "write"])
    BY <1>2, <1>4 DEF Judge
  <2>4. Shared(None)
    BY <1>1, <2>2, Same DEF Shared
  <2>5. QED
    BY <1>1, <1>2, <2>1, <2>3, <2>4, NextStepKeeps
<1>5. CASE ~ExactCommit(o, rec)
  <2>1. NextItem(p, TRUE) /\ UNCHANGED ledger
    BY <1>2, <1>5 DEF Judge
  <2>2. LedgerStep
    BY <1>1, <2>1, Same
  <2>3. QED
    BY <1>1, <2>1, <2>2, NextItemKeeps
<1>6. QED
  BY <1>4, <1>5

LEMMA CompleteStateKeeps ==
  ASSUME IInv, NEW p \in Procs, CompleteState(p)
  PROVE  IInv'
<1>1. InHand(p, "write") /\ UNCHANGED <<history, log, tree, ledger>>
  BY DEF CompleteState
<1>2. PICK o : o = proc[p].item
  OBVIOUS
<1>3. PICK row : row = RowOf(o, proc[p].todo[o])
  OBVIOUS
<1>4. /\ o \in Ops /\ OnBranch(o) /\ row \in Row /\ row.op = o
      /\ row.task = ledger[o].task /\ row.run = ledger[o].run
  BY <1>1, <1>2, <1>3, InHandIs DEF RowOf, Row, Operation
<1>5. CASE Escapes(p) /\ UNCHANGED <<queue, records>>
  BY <1>1, <1>5, EscapesKeeps
<1>6. CASE /\ CompleteRollback(row) /\ Become(p, [proc[p] EXCEPT !.step = "finish"])
           /\ UNCHANGED lease
  <2>1. QueueStep(None) /\ RecordsStep /\ StateComplete(o)'
    BY <1>1, <1>4, <1>6, CompleteIs
  <2>2. Shared(None)
    BY <1>1, <1>6, <2>1, Same DEF Shared
  <2>3. QED
    BY <1>1, <1>2, <1>4, <1>6, <2>1, <2>2, NextStepKeeps
<1>7. QED
  BY <1>2, <1>3, <1>5, <1>6 DEF CompleteState

LEMMA FinishLedgerKeeps ==
  ASSUME IInv, NEW p \in Procs, FinishLedger(p)
  PROVE  IInv'
<1> DEFINE o == proc[p].item
<1>1. InHand(p, "finish") /\ UNCHANGED <<queue, history, log, tree, records>>
  BY DEF FinishLedger
<1>2. o \in DOMAIN ledger /\ StateComplete(o)
  BY <1>1, InHandIs
<1>3. CASE Escapes(p) /\ UNCHANGED ledger
  BY <1>1, <1>3, EscapesKeeps
<1>4. CASE /\ ledger' = [ledger EXCEPT ![o].outcome = "complete"]
           /\ NextItem(p, FALSE) /\ UNCHANGED lease
  <2>1. LedgerStep
    BY <1>1, <1>2, <1>4, OutcomeIs DEF Outcomes
  <2>2. QED
    BY <1>1, <1>2, <1>4, <2>1, NextItemKeeps DEF Unrecorded
<1>5. QED
  BY <1>3, <1>4 DEF FinishLedger

LEMMA GotoIs ==
  ASSUME IInv, NEW p \in Procs, NEW x \in Points, Goto(p, x)
  PROVE  \E m : /\ Become(p, m) /\ CommandOK(m) /\ m.pc = x
                /\ m.task = proc[p].task /\ m.run = proc[p].run
                /\ m.op = proc[p].op /\ m.todo = proc[p].todo /\ m.blocked = proc[p].blocked
                /\ m.item = proc[p].item /\ m.step = proc[p].step
<1>1. CommandOK(proc[p])
  BY DEF IInv, TypeOK
<1> DEFINE m == [proc[p] EXCEPT !.pc = x]
<1>2. CommandOK(m)
  BY <1>1 DEF CommandOK
<1>3. /\ m.pc = x /\ m.task = proc[p].task /\ m.run = proc[p].run
      /\ m.op = proc[p].op /\ m.todo = proc[p].todo /\ m.blocked = proc[p].blocked
      /\ m.item = proc[p].item /\ m.step = proc[p].step
  BY <1>1 DEF CommandOK
<1>4. Become(p, m)
  BY DEF Goto
<1> HIDE DEF m
<1>5. QED
  BY <1>2, <1>3, <1>4

LEMMA ReconcileEndsKeeps ==
  ASSUME IInv, NEW p \in Procs, ReconcileEnds(p)
  PROVE  IInv'
<1>1. /\ proc[p].pc \in Reconciling /\ DOMAIN proc[p].todo = {}
      /\ UNCHANGED <<queue, history, log, tree, ledger, records>>
  BY DEF ReconcileEnds
<1>2. PICK l : l = proc[p]
  OBVIOUS
<1>3. /\ CommandOK(l) /\ Rely(l) /\ (l.pc \in Leased => lease = p)
      /\ None \notin Procs \cup Ops
  BY <1>2, RollbackConstants DEF IInv, TypeOK, RollbackInvariant
<1>4. ASSUME NEW x \in {"ready", "planning", "integrate", "fail"}, Goto(p, x), LeaseStep(p),
             \/ x = "ready" /\ l.pc = "startup"
             \/ x = "planning" /\ l.pc = "checking" /\ ~l.blocked /\ UNCHANGED lease
             \/ x = "integrate" /\ l.pc = "integrating" /\ ~l.blocked /\ UNCHANGED lease
             \/ x = "fail" /\ l.pc = "failing"
      PROVE  IInv'
  <2>1. x \in Points
    BY DEF Points, Rolling
  <2>2. PICK m : /\ Become(p, m) /\ CommandOK(m) /\ m.pc = x
                 /\ m.task = proc[p].task /\ m.run = proc[p].run
                 /\ m.op = proc[p].op /\ m.todo = proc[p].todo /\ m.blocked = proc[p].blocked
                 /\ m.item = proc[p].item /\ m.step = proc[p].step
    BY <1>4, <2>1, GotoIs
  <2>3. /\ m.task = l.task /\ m.op = l.op /\ m.todo = l.todo
        /\ m.item = l.item /\ m.step = l.step /\ DOMAIN l.todo = {}
    BY <1>1, <1>2, <2>2
  <2>4. l.op = None
    BY <1>4, <1>3 DEF Rely, OwnOperation, Begun
  <2>5. /\ m.pc \in Working => l.pc \in Working
        /\ m.pc \in Rolling => l.pc = "checking"
        /\ m.pc \notin Begun /\ m.pc \notin Reconciling
        /\ m.pc \in Leased => l.pc \in Leased /\ UNCHANGED lease /\ ~l.blocked
                              /\ l.pc \in {"checking", "integrating"}
    BY <1>4, <2>2 DEF Working, Rolling, Begun, Leased, Reconciling
  <2>6. m.pc \in Working \cup Rolling \cup {"checking"} => m.task \in Tasks
    BY <1>3, <2>3, <2>5 DEF Rely, Reconciling
  <2>7. m.pc \in Working => Latest(m.task).status = "running"
    BY <1>3, <2>3, <2>5 DEF Rely
  <2>8. SnapshotAt(m)
    BY <1>3, <2>3 DEF Rely, SnapshotAt
  <2>9. OthersRecorded(m) /\ OwnOperation(m)
    <3>1. m.pc = "integrate" \/ m.pc \in Rolling => \A o \in Ops : ~Unrecorded(o)
      BY <1>3, <2>3, <2>5 DEF Rely, OthersRecorded, Leased
    <3>2. OthersRecorded(m)
      BY <2>5, <3>1 DEF OthersRecorded, Reconciling
    <3>3. OwnOperation(m)
      BY <2>3, <2>4, <2>5 DEF OwnOperation, Begun, Committed
    <3>4. QED
      BY <3>2, <3>3
  <2>10. Rely(m)
    BY <2>6, <2>7, <2>8, <2>9 DEF Rely
  <2>11. tree' \subseteq Ops \cup {Litter}
    BY <1>1 DEF IInv, TypeOK
  <2>12. /\ m.pc \in Leased => lease' = p
         /\ m.pc \in Working => proc[p].pc \in Working /\ m.task = proc[p].task
    BY <1>2, <1>3, <2>3, <2>5
  <2>13. QED
    BY <1>1, <1>4, <2>2, <2>10, <2>11, <2>12, QuietKeeps
<1>5. CASE Leave(p)
  BY <1>1, <1>5, Same, LeaveKeeps DEF IInv, TypeOK
<1>6. CASE Raise(p) /\ l.pc = "integrating"
  BY <1>1, <1>2, <1>6, RaiseKeeps DEF Working
<1>7. CASE l.pc = "startup" /\ Goto(p, "ready") /\ Release(p)
  BY <1>4, <1>7, Same
<1>8. CASE /\ ~l.blocked /\ UNCHANGED lease
           /\ \/ l.pc = "checking" /\ Goto(p, "planning")
              \/ l.pc = "integrating" /\ Goto(p, "integrate")
              \/ l.pc = "failing" /\ Goto(p, "fail")
  <2>1. LeaseStep(p)
    BY <1>8, Same
  <2>2. QED
    BY <1>4, <1>8, <2>1
<1>9. QED
  BY <1>2, <1>5, <1>6, <1>7, <1>8 DEF ReconcileEnds

-----------------------------------------------------------------------------
(* A run of the queue.                                                      *)

LEMMA StartupKeeps ==
  ASSUME IInv, NEW p \in Procs, Startup(p)
  PROVE  IInv'
<1> DEFINE local == [Idle EXCEPT !.pc = "startup"]
<1>1. /\ local.pc = "startup" /\ local.op = None /\ CommandOK(local)
  BY DEF Idle, CommandOK, RecordsOK, NoRecords, Points, Reconciling
<1>2. /\ Reconcile(p, local) /\ lease' = p /\ LeaseStep(p)
      /\ UNCHANGED <<queue, history, log, tree, ledger, records>>
  BY Same DEF Startup
<1>3. local.pc \in Reconciling /\ local.pc \notin Working /\ local.pc # "checking"
  BY <1>1 DEF Reconciling, Working
<1> HIDE DEF local
<1>4. QED
  BY <1>1, <1>2, <1>3, ReconcileKeeps

LEMMA BeginRollbackKeeps ==
  ASSUME IInv, NEW p \in Procs, NEW t \in Tasks, NEW r \in Runs, BeginRollback(p, t, r)
  PROVE  IInv'
<1> DEFINE local == [Idle EXCEPT !.pc = "checking", !.task = t, !.run = r]
<1>0. r \in Nat
  BY DEF BeginRollback, IInv, TypeOK
<1>1. /\ local.pc = "checking" /\ local.op = None /\ local.task = t /\ CommandOK(local)
  BY <1>0 DEF Idle, CommandOK, RecordsOK, NoRecords, Points, Reconciling
<1>2. /\ Reconcile(p, local) /\ lease' = p /\ LeaseStep(p)
      /\ UNCHANGED <<queue, history, log, tree, ledger, records>>
  BY Same DEF BeginRollback
<1>3. local.pc \in Reconciling /\ local.pc \notin Working
  BY <1>1 DEF Reconciling, Working
<1> HIDE DEF local
<1>4. QED
  BY <1>1, <1>2, <1>3, ReconcileKeeps

LEMMA WorkReturnsKeeps ==
  ASSUME IInv, NEW p \in Procs, WorkReturns(p)
  PROVE  IInv'
<1> DEFINE local == [proc[p] EXCEPT !.pc = "integrating"]
<1>1. CommandOK(proc[p]) /\ Rely(proc[p]) /\ proc[p].pc = "working"
  BY DEF IInv, TypeOK, RollbackInvariant, WorkReturns
<1>2. CommandOK(local)
  BY <1>1 DEF CommandOK, Points, Reconciling
<1>3. local.pc = "integrating" /\ local.op = proc[p].op /\ local.task = proc[p].task
  BY <1>1 DEF CommandOK
<1>4. local.op = None
  BY <1>1, <1>3 DEF Rely, OwnOperation, Begun
<1>5. /\ Reconcile(p, local) /\ lease' = p /\ LeaseStep(p)
      /\ UNCHANGED <<queue, history, log, tree, ledger, records>>
  BY Same DEF WorkReturns
<1>6. local.pc \in Reconciling /\ local.pc # "checking" /\ proc[p].pc \in Working
  BY <1>1, <1>3 DEF Reconciling, Working
<1> HIDE DEF local
<1>7. QED
  BY <1>2, <1>3, <1>4, <1>5, <1>6, ReconcileKeeps

(* A claimed task is nobody else's, for it was queued.                      *)
LEMMA ClaimKeeps ==
  ASSUME IInv, NEW p \in Procs, Claim(p)
  PROVE  IInv'
<1>1. proc[p].pc = "ready" /\ UNCHANGED <<history, log, tree, ledger, records, lease>>
  BY DEF Claim
<1>2. PICK t \in Tasks : /\ Latest(t).status = "queued"
                         /\ SetLatest(t, [Latest(t) EXCEPT !.status = "running"])
                         /\ Become(p, [proc[p] EXCEPT !.pc = "working", !.task = t])
  BY DEF Claim
<1>3. PICK l : l = proc[p]
  OBVIOUS
<1>4. CommandOK(l) /\ Rely(l) /\ l.pc = "ready"
  BY <1>1, <1>3 DEF IInv, TypeOK, RollbackInvariant
<1>5. QueueStep(p) /\ Latest(t)'.status = "running"
  BY <1>2, WorkerSets
<1>6. Shared(p)
  BY <1>1, <1>5, Same DEF Shared
<1>7. Rely(l)'
  BY <1>4, <1>6, RelyKept DEF Leased, Rolling, Working
<1> DEFINE m == [l EXCEPT !.pc = "working", !.task = t]
<1>8. CommandOK(m)
  BY <1>4 DEF CommandOK, Points
<1>9. /\ m.pc = "working" /\ m.task = t /\ m.op = l.op /\ m.todo = l.todo
      /\ m.item = l.item /\ m.step = l.step
  BY <1>4 DEF CommandOK
<1>10. Become(p, m)
  BY <1>2, <1>3
<1> HIDE DEF m
<1>11. l.op = None
  BY <1>4 DEF Rely, OwnOperation, Begun
<1>12. SnapshotAt(m)'
  BY <1>4, <1>7, <1>9 DEF Rely, SnapshotAt, Reconciling
<1>13. m.pc \notin Rolling \cup Begun \cup Leased
  BY <1>9 DEF Rolling, Begun, Leased
<1>14. OthersRecorded(m)' /\ OwnOperation(m)'
  BY <1>9, <1>11, <1>13 DEF OthersRecorded, OwnOperation, Committed
<1>15. Rely(m)'
  BY <1>5, <1>9, <1>12, <1>14 DEF Rely
<1>16. history' \in Seq(Tasks) /\ tree' \subseteq Ops \cup {Litter}
  BY <1>1 DEF IInv, TypeOK
<1>17. Latest(m.task).status # "running"
  BY <1>2, <1>9
<1>18. QED
  BY <1>6, <1>8, <1>10, <1>13, <1>15, <1>16, <1>17, StepKeeps

LEMMA GivesUpKeeps ==
  ASSUME IInv, NEW p \in Procs, NEW s \in {"queued", "running", "failed"},
         SetLatest(proc[p].task, [Latest(proc[p].task) EXCEPT !.status = s]),
         proc[p].pc \in Working, Leave(p), UNCHANGED <<history, log, tree, ledger, records>>
  PROVE  IInv'
<1>1. proc[p].task \in Tasks
  BY DEF IInv, RollbackInvariant, Rely
<1>2. QueueStep(p)
  BY <1>1, WorkerSets
<1>3. QED
  BY <1>2, Same, LeaveKeeps DEF IInv, TypeOK

LEMMA IntegrateKeeps ==
  ASSUME IInv, NEW p \in Procs, Integrate(p)
  PROVE  IInv'
<1> DEFINE r == Len(history) + 1
           t == proc[p].task
           e == [Latest(t) EXCEPT !.status = "done", !.run = r]
<1>1. /\ proc[p].pc = "integrate" /\ log' = Append(log, r) /\ history' = Append(history, t)
      /\ SetLatest(t, e) /\ Leave(p) /\ UNCHANGED <<tree, ledger, records>>
  BY DEF Integrate
<1>2. /\ r \in Nat /\ log \in Seq(Nat \cup Ops) /\ history \in Seq(Tasks)
      /\ t \in Tasks /\ Latest(t).status = "running" /\ lease = p /\ proc[p].pc \in Working
  BY <1>1 DEF IInv, TypeOK, RollbackInvariant, Rely, Working, Leased
<1>3. PICK k \in DOMAIN queue : Latest(t) = queue[k] /\ queue[k].id = t /\ Latest(t) \in Entry
  BY <1>2, LatestIs DEF IInv, TypeOK, RollbackInvariant, QueueAgrees
<1>4. /\ e \in Entry /\ e.id = t /\ e.status = "done" /\ e.by = Latest(t).by
  BY <1>2, <1>3 DEF Entry, Statuses
<1>5. e.by # None => OnBranch(e.by)
  BY <1>3, <1>4 DEF IInv, RollbackInvariant, QueueAgrees
<1> HIDE DEF r, t, e
<1>6. log' # log /\ \A i \in DOMAIN log' : log'[i] = r \/ OnBranch(log'[i])
  BY <1>1, <1>2 DEF OnBranch
<1>7. QueueStep(p)
  BY <1>1, <1>2, <1>4, <1>5, <1>6, ChangeIs DEF t
<1>8. LogStep(p)
  BY <1>1, <1>2 DEF LogStep
<1>9. LedgerStep
  <2>1. RecordsOK(ledger') /\ DOMAIN ledger \subseteq Ops
    BY <1>1 DEF IInv, TypeOK, RecordsOK
  <2>2. \A o \in DOMAIN ledger : o # r
    BY <1>2, <2>1, RollbackConstants
  <2>3. ASSUME NEW o \in DOMAIN ledger
        PROVE  /\ ledger[o].outcome = "complete" => StateComplete(o)
               /\ ledger[o].outcome \in {"reverted", "cancelled"} => \A i \in DOMAIN log' : log'[i] # o
    <3>1. /\ ledger[o].outcome = "complete" => StateComplete(o)
          /\ ledger[o].outcome \in {"reverted", "cancelled"} => ~OnBranch(o)
      BY DEF IInv, RollbackInvariant, LedgerAgrees
    <3>2. QED
      BY <1>6, <2>2, <3>1
  <2>4. QED
    BY <1>1, <2>1, <2>3 DEF LedgerStep
<1>10. RecordsStep
  BY <1>1, Same
<1>11. history' \in Seq(Tasks) /\ tree' \subseteq Ops \cup {Litter}
  BY <1>1, <1>2 DEF IInv, TypeOK
<1>12. QED
  BY <1>1, <1>7, <1>8, <1>9, <1>10, <1>11, LeaveKeeps

LEMMA EnqueueKeeps ==
  ASSUME IInv, NEW t \in Tasks, Enqueue(t)
  PROVE  IInv'
<1> DEFINE e == [id |-> t, status |-> "queued", run |-> 0, by |-> None]
<1>1. /\ queue' = Append(queue, e) /\ NoneActive(t)
      /\ UNCHANGED <<history, log, tree, ledger, records, lease, proc>>
  BY DEF Enqueue
<1>2. e \in Entry /\ e.id = t /\ e.status = "queued" /\ e.by = None
  BY DEF Entry, Statuses
<1>3. queue \in Seq(Entry) /\ \A u \in Tasks : EntriesOf(u) # {}
  BY DEF IInv, TypeOK, RollbackInvariant, QueueAgrees
<1> HIDE DEF e
<1>4. /\ queue' \in Seq(Entry) /\ DOMAIN queue \subseteq DOMAIN queue'
      /\ \A i \in DOMAIN queue : queue'[i] = queue[i]
      /\ \A i \in DOMAIN queue' : i \in DOMAIN queue \/ queue'[i] = e
      /\ \A u : EntriesOf(u) # {} => EntriesOf(u)' # {}
      /\ Latest(e.id)' = e
      /\ \A u : u # e.id /\ EntriesOf(u) # {} => Latest(u)' = Latest(u)
  BY <1>1, <1>2, <1>3, AppendIs
<1>5. Latest(t).status # "running"
  <2>1. PICK k \in DOMAIN queue : Latest(t) = queue[k] /\ queue[k].id = t
    BY <1>3, LatestIs
  <2>2. QED
    BY <1>1, <2>1 DEF NoneActive, EntriesOf, Active
<1>6. \A u \in Tasks : Latest(u)' = Latest(u) \/ (u = t /\ Latest(u)' = e)
  BY <1>2, <1>3, <1>4
<1>7. \A i \in DOMAIN queue' : queue'[i].by # None => OnBranch(queue'[i].by)
  BY <1>2, <1>4 DEF IInv, RollbackInvariant, QueueAgrees
<1>8. QueueStep(None)
  BY <1>2, <1>3, <1>4, <1>5, <1>6, <1>7 DEF QueueStep
<1>9. Shared(None)
  BY <1>1, <1>8, Same DEF Shared
<1>10. QED
  BY <1>1, <1>9, OperatorKeeps DEF IInv, TypeOK

-----------------------------------------------------------------------------
(* A rollback.                                                              *)

LEMMA RollsOn ==
  ASSUME IInv, NEW p \in Procs, proc[p].pc \in Rolling, NEW x \in Rolling, Goto(p, x),
         NEW o, o = proc[p].op, LedgerStep, QueueStep(p), RecordsStep,
         UNCHANGED <<history, log, lease>>, tree' \subseteq Ops \cup {Litter},
         x \in Begun <=> proc[p].pc \in Begun,
         x \in Committed <=> proc[p].pc \in Committed,
         x = "stored" => StateComplete(o)'
  PROVE  IInv'
<1>1. PICK l : l = proc[p]
  OBVIOUS
<1>2. CommandOK(l) /\ Rely(l) /\ lease = p /\ l.pc \notin Working
  BY <1>1 DEF IInv, TypeOK, RollbackInvariant, Leased, Working, Rolling
<1>3. x \in Points /\ x \notin Working \cup Reconciling /\ x # "integrate"
  BY DEF Points, Rolling, Working, Reconciling
<1>4. PICK m : /\ Become(p, m) /\ CommandOK(m) /\ m.pc = x
               /\ m.task = proc[p].task /\ m.run = proc[p].run
               /\ m.op = proc[p].op /\ m.todo = proc[p].todo /\ m.blocked = proc[p].blocked
               /\ m.item = proc[p].item /\ m.step = proc[p].step
  BY <1>3, GotoIs
<1>5. /\ m.task = l.task /\ m.run = l.run /\ m.op = l.op /\ m.todo = l.todo
      /\ m.item = l.item /\ m.step = l.step /\ l.op = o /\ l.pc \in Rolling
      /\ x \in Begun <=> l.pc \in Begun
      /\ x \in Committed <=> l.pc \in Committed
  BY <1>1, <1>4
<1>6. Shared(p)
  BY Same DEF Shared
<1>7. Rely(l)'
  BY <1>2, <1>6, RelyKept
<1>8. SnapshotAt(m)'
  BY <1>3, <1>5, <1>7 DEF Rely, SnapshotAt, Rolling, Reconciling
<1>9. OthersRecorded(m)'
  BY <1>3, <1>4, <1>5, <1>7 DEF Rely, OthersRecorded, Reconciling
<1>10. OwnOperation(m)'
  BY <1>4, <1>5, <1>7 DEF Rely, OwnOperation
<1>11. Rely(m)'
  BY <1>3, <1>4, <1>5, <1>7, <1>8, <1>9, <1>10 DEF Rely
<1>12. history' \in Seq(Tasks)
  BY DEF IInv, TypeOK
<1>13. QED
  BY <1>2, <1>3, <1>4, <1>6, <1>11, <1>12, StepKeeps

LEMMA QuitKeeps ==
  ASSUME IInv, NEW p \in Procs, Leave(p),
         UNCHANGED <<queue, history, log, tree, ledger, records>>
  PROVE  IInv'
BY Same, LeaveKeeps DEF IInv, TypeOK

(* The operation of a rollback under way.                                   *)
LEMMA OwnIs ==
  ASSUME IInv, NEW p \in Procs, proc[p].pc \in Begun
  PROVE  /\ proc[p].op \in DOMAIN ledger /\ proc[p].op \in Ops
         /\ ledger[proc[p].op] \in Operation /\ lease = p
         /\ ledger[proc[p].op].task = proc[p].task /\ ledger[proc[p].op].run = proc[p].run
         /\ proc[p].task \in Tasks /\ proc[p].run \in Nat /\ proc[p].pc \in Rolling
         /\ proc[p].pc \in Committed <=> OnBranch(proc[p].op)
<1>1. CommandOK(proc[p]) /\ OwnOperation(proc[p]) /\ proc[p].pc \in Rolling /\ proc[p].task \in Tasks
  BY DEF IInv, TypeOK, RollbackInvariant, Rely, Begun, Rolling
<1>2. lease = p /\ RecordsOK(ledger)
  BY <1>1 DEF IInv, TypeOK, RollbackInvariant, Leased
<1>3. QED
  BY <1>1, <1>2 DEF OwnOperation, CommandOK, RecordsOK

LEMMA PlanKeeps ==
  ASSUME IInv, NEW p \in Procs, Plan(p) \/ TestApart(p)
  PROVE  IInv'
<1>1. UNCHANGED <<queue, history, log, tree, ledger, records>> /\ tree' \subseteq Ops \cup {Litter}
  BY DEF Plan, TestApart, IInv, TypeOK
<1>2. CASE Leave(p)
  BY <1>1, <1>2, QuitKeeps
<1>3. CASE UNCHANGED lease /\ \/ proc[p].pc = "planning" /\ Goto(p, "isolated")
                              \/ proc[p].pc = "isolated" /\ Goto(p, "tested")
  <2>1. LedgerStep /\ QueueStep(p) /\ RecordsStep
    BY <1>1, Same
  <2>2. QED
    BY <1>1, <1>3, <2>1, RollsOn DEF Rolling, Begun, Committed
<1>4. QED
  BY <1>2, <1>3 DEF Plan, TestApart

(* An intent is written for the run that was planned for.                   *)
LEMMA RevalidateKeeps ==
  ASSUME IInv, NEW p \in Procs, Revalidate(p)
  PROVE  IInv'
<1>1. UNCHANGED <<queue, history, log, tree, records>> /\ proc[p].pc = "tested"
  BY DEF Revalidate
<1>2. PICK l : l = proc[p]
  OBVIOUS
<1>3. /\ CommandOK(l) /\ Rely(l) /\ l.pc = "tested" /\ l.task \in Tasks /\ lease = p
      /\ None \notin Ops
  BY <1>1, <1>2, RollbackConstants DEF IInv, TypeOK, RollbackInvariant, Rely, Leased, Rolling
<1> DEFINE rec == [task |-> l.task, run |-> l.run, baseline |-> Len(log), applied |-> FALSE,
                   evidence |-> "none", commit |-> FALSE, outcome |-> "open"]
<1>4. ASSUME NEW o \in Ops \ DOMAIN ledger, Eligible(l.task, l.run), UNCHANGED lease,
             ledger' = [q \in DOMAIN ledger \cup {o} |-> IF q = o THEN rec ELSE ledger[q]],
             Become(p, [l EXCEPT !.pc = "begun", !.op = o])
      PROVE  IInv'
  <2>1. rec \in Operation /\ rec.task = l.task /\ rec.run = l.run /\ rec.outcome = "open"
    BY <1>3 DEF CommandOK, Operation, Outcomes, Evidence, IInv, TypeOK
  <2> HIDE DEF rec
  <2>2. /\ DOMAIN ledger' = DOMAIN ledger \cup {o} /\ ledger'[o] = rec
        /\ \A u \in DOMAIN ledger : ledger'[u] = ledger[u]
    BY <1>4
  <2>3. RecordsOK(ledger')
    <3>1. RecordsOK(ledger)
      BY DEF IInv, TypeOK
    <3>2. QED
      BY <1>4, <2>1, <2>2, <3>1 DEF RecordsOK
  <2>4. LedgerStep
    <3>1. \A u \in DOMAIN ledger :
            /\ ledger[u].outcome = "complete" => StateComplete(u)
            /\ ledger[u].outcome \in {"reverted", "cancelled"} => \A i \in DOMAIN log' : log'[i] # u
      BY <1>1 DEF IInv, RollbackInvariant, LedgerAgrees, OnBranch
    <3>2. QED
      BY <2>1, <2>2, <2>3, <3>1 DEF LedgerStep
  <2>5. Shared(p)
    BY <1>1, <1>4, <2>4, Same DEF Shared
  <2> DEFINE m == [l EXCEPT !.pc = "begun", !.op = o]
  <2>6. CommandOK(m)
    BY <1>3 DEF CommandOK, Points, Rolling
  <2>7. /\ m.pc = "begun" /\ m.op = o /\ m.task = l.task /\ m.run = l.run
        /\ m.todo = l.todo /\ m.item = l.item /\ m.step = l.step
    BY <1>3 DEF CommandOK
  <2>8. Become(p, m)
    BY <1>4
  <2> HIDE DEF m
  <2>9. l.op = None /\ l.item = None /\ l.step = "look"
    BY <1>3 DEF Rely, OwnOperation, SnapshotAt, Begun, Reconciling
  <2>10. /\ \A u : OnBranch(u)' <=> OnBranch(u)
         /\ \A u : StateComplete(u)' <=> StateComplete(u)
         /\ \A u : Latest(u)' = Latest(u)
    BY <1>1 DEF OnBranch, StateComplete, Latest, EntriesOf
  <2>11. SnapshotAt(m)'
    <3>1. \A u \in DOMAIN l.todo : /\ u \in DOMAIN ledger'
                                   /\ l.todo[u].task = ledger'[u].task
                                   /\ l.todo[u].run = ledger'[u].run
                                   /\ l.todo[u].outcome = "open"
      BY <1>3, <2>4 DEF Rely, SnapshotAt, LedgerStep
    <3>2. QED
      BY <2>7, <2>9, <3>1 DEF SnapshotAt
  <2>12. OthersRecorded(m)'
    <3>1. \A u \in Ops : ~Unrecorded(u)
      BY <1>3, <2>9 DEF Rely, OthersRecorded, Rolling
    <3>2. \A u \in Ops : ~Unrecorded(u)'
      BY <2>10, <3>1 DEF Unrecorded
    <3>3. QED
      BY <2>7, <3>2 DEF OthersRecorded
  <2>13. OwnOperation(m)'
    <3>1. ~OnBranch(o)
      BY DEF OnBranch, IInv, RollbackInvariant, LedgerAgrees
    <3>2. TargetIs(l.task, l.run, o)' /\ \A row \in records' : row.run # l.run
      BY <1>1, <1>4, <2>10 DEF Eligible, TargetIs
    <3>3. ledger'[o].task = l.task /\ ledger'[o].run = l.run
      BY <2>1, <2>2
    <3>4. QED
      BY <1>3, <2>2, <2>7, <2>10, <3>1, <3>2, <3>3 DEF OwnOperation, Begun, Committed
  <2>14. Rely(m)' /\ m.pc \notin Working
    BY <1>3, <2>7, <2>11, <2>12, <2>13 DEF Rely, Working
  <2>15. history' \in Seq(Tasks) /\ tree' \subseteq Ops \cup {Litter}
    BY <1>1 DEF IInv, TypeOK
  <2>16. QED
    BY <1>3, <1>4, <2>5, <2>6, <2>8, <2>14, <2>15, StepKeeps
<1>5. CASE Leave(p) /\ UNCHANGED ledger
  BY <1>1, <1>5, QuitKeeps
<1>6. QED
  BY <1>2, <1>4, <1>5 DEF Revalidate

LEMMA ApplyKeeps ==
  ASSUME IInv, NEW p \in Procs, Apply(p)
  PROVE  IInv'
<1>1. UNCHANGED <<queue, history, log, ledger, records>> /\ proc[p].pc = "begun"
  BY DEF Apply
<1>2. proc[p].op \in Ops /\ tree' \subseteq Ops \cup {Litter}
  BY <1>1, OwnIs DEF Begun, Apply, IInv, TypeOK
<1>3. LedgerStep /\ QueueStep(p) /\ RecordsStep
  BY <1>1, Same
<1>4. CASE Goto(p, "applied") /\ UNCHANGED lease
  BY <1>1, <1>2, <1>3, <1>4, RollsOn DEF Rolling, Begun, Committed
<1>5. CASE Leave(p) /\ UNCHANGED tree
  BY <1>1, <1>5, QuitKeeps
<1>6. QED
  BY <1>4, <1>5 DEF Apply

(* The rollback under way notes its progress.                               *)
LEMMA NoteIs ==
  ASSUME IInv, NEW p \in Procs, proc[p].pc \in Begun, NEW o, o = proc[p].op,
         ledger[o].outcome = "open", NEW rec,
         \/ rec = [ledger[o] EXCEPT !.applied = TRUE]
         \/ rec = [ledger[o] EXCEPT !.evidence = "provisional"]
         \/ rec = [ledger[o] EXCEPT !.evidence = "final", !.commit = TRUE],
         ledger' = [ledger EXCEPT ![o] = rec],
         \A i \in DOMAIN log' : OnBranch(log'[i]) \/ log'[i] = o
  PROVE  LedgerStep
<1>1. o \in DOMAIN ledger /\ ledger[o] \in Operation
  BY OwnIs
<1>2. /\ rec \in Operation /\ rec.task = ledger[o].task /\ rec.run = ledger[o].run
      /\ rec.outcome = "open"
  BY <1>1 DEF Operation, Evidence
<1>3. QED
  BY <1>1, <1>2, RecordIs

LEMMA CheckKeeps ==
  ASSUME IInv, NEW p \in Procs, Check(p)
  PROVE  IInv'
<1>1. UNCHANGED <<queue, history, log, records>> /\ proc[p].pc = "applied"
  BY DEF Check
<1>2. PICK o : o = proc[p].op
  OBVIOUS
<1>3. proc[p].pc \in Begun
  BY <1>1 DEF Begun
<1>4. CASE Leave(p) /\ UNCHANGED <<tree, ledger>>
  BY <1>1, <1>4, QuitKeeps
<1>5. CASE /\ ledger[o].outcome = "open" /\ UNCHANGED lease
           /\ ledger' = [ledger EXCEPT ![o].applied = TRUE]
           /\ Goto(p, "verified") \/ Goto(p, "restored")
           /\ tree' \subseteq tree \cup {Litter}
  <2>1. o \in DOMAIN ledger /\ ledger \in [DOMAIN ledger -> Operation]
    BY <1>2, <1>3, OwnIs DEF IInv, TypeOK, RecordsOK
  <2>2. ledger' = [ledger EXCEPT ![o] = [ledger[o] EXCEPT !.applied = TRUE]]
    BY <1>5, <2>1
  <2>3. \A i \in DOMAIN log' : OnBranch(log'[i])
    BY <1>1 DEF OnBranch
  <2>4. LedgerStep
    BY <1>2, <1>3, <1>5, <2>2, <2>3, NoteIs
  <2>5. QueueStep(p) /\ RecordsStep /\ tree' \subseteq Ops \cup {Litter}
    BY <1>1, <1>5, Same DEF IInv, TypeOK
  <2>6. QED
    BY <1>1, <1>5, <2>4, <2>5, RollsOn DEF Rolling, Begun, Committed
<1>6. QED
  BY <1>2, <1>4, <1>5 DEF Check

LEMMA EndsKeeps ==
  ASSUME IInv, NEW p \in Procs, EndReverted(p) \/ EndComplete(p)
  PROVE  IInv'
<1>1. UNCHANGED <<queue, history, log, tree, records>> /\ Leave(p)
  BY DEF EndReverted, EndComplete
<1>2. PICK o : o = proc[p].op
  OBVIOUS
<1>3. /\ proc[p].pc = "restored" => o \in DOMAIN ledger /\ ~OnBranch(o)
      /\ proc[p].pc = "stored" => o \in DOMAIN ledger /\ StateComplete(o)
  BY <1>2 DEF IInv, RollbackInvariant, Rely, OwnOperation, Begun, Committed
<1>4. LedgerStep
  <2>1. CASE UNCHANGED ledger
    BY <1>1, <2>1, Same
  <2>2. CASE proc[p].pc = "restored" /\ ledger' = [ledger EXCEPT ![o].outcome = "reverted"]
    BY <1>1, <1>3, <2>2, OutcomeIs DEF Outcomes
  <2>3. CASE proc[p].pc = "stored" /\ ledger' = [ledger EXCEPT ![o].outcome = "complete"]
    BY <1>1, <1>3, <2>3, OutcomeIs DEF Outcomes
  <2>4. QED
    BY <1>2, <2>1, <2>2, <2>3 DEF EndReverted, EndComplete
<1>5. QED
  BY <1>1, <1>4, Same, LeaveKeeps DEF IInv, TypeOK

(* The revert is committed: it was not on the branch, and nobody else's     *)
(* revert waits for its record.                                             *)
LEMMA RevertKeeps ==
  ASSUME IInv, NEW p \in Procs, proc[p].pc = "verified", Goto(p, "committed"),
         NEW o, o = proc[p].op, log' = Append(log, o), LedgerStep,
         UNCHANGED <<queue, history, records, lease>>, tree' \subseteq Ops \cup {Litter}
  PROVE  IInv'
<1>1. PICK l : l = proc[p]
  OBVIOUS
<1>2. CommandOK(l) /\ Rely(l) /\ l.pc = "verified" /\ None \notin Ops /\ l.op = o
  BY <1>1, RollbackConstants DEF IInv, TypeOK, RollbackInvariant
<1>3. lease = p /\ o \in Ops /\ log \in Seq(Nat \cup Ops) /\ l.task \in Tasks
  BY <1>1, <1>2, OwnIs DEF Begun, IInv, TypeOK
<1>4. Shared(p)
  BY <1>3, Same DEF Shared, LogStep
<1>5. PICK m : /\ Become(p, m) /\ CommandOK(m) /\ m.pc = "committed"
               /\ m.task = proc[p].task /\ m.run = proc[p].run
               /\ m.op = proc[p].op /\ m.todo = proc[p].todo /\ m.blocked = proc[p].blocked
               /\ m.item = proc[p].item /\ m.step = proc[p].step
  BY GotoIs DEF Points, Rolling
<1>6. /\ m.task = l.task /\ m.run = l.run /\ m.op = l.op /\ m.todo = l.todo
      /\ m.item = l.item /\ m.step = l.step
  BY <1>1, <1>5
<1>7. SnapshotAt(m)'
  <2>1. \A u \in DOMAIN l.todo : /\ u \in DOMAIN ledger'
                                 /\ l.todo[u].task = ledger'[u].task
                                 /\ l.todo[u].run = ledger'[u].run
                                 /\ l.todo[u].outcome = "open"
    BY <1>2 DEF Rely, SnapshotAt, LedgerStep
  <2>2. l.item = None /\ l.step = "look"
    BY <1>2 DEF Rely, SnapshotAt, Reconciling
  <2>3. QED
    BY <1>6, <2>1, <2>2 DEF SnapshotAt
<1>8. \A i \in DOMAIN log' : log'[i] = o \/ OnBranch(log'[i])
  BY <1>3 DEF OnBranch
<1>9. OthersRecorded(m)'
  <2>1. ASSUME NEW u \in Ops, Unrecorded(u)', u # o
        PROVE  FALSE
    <3>1. Unrecorded(u)
      BY <1>8, <2>1 DEF Unrecorded, OnBranch, StateComplete
    <3>2. QED
      BY <1>2, <2>1, <3>1 DEF Rely, OthersRecorded, Rolling
  <2>2. QED
    BY <1>2, <1>5, <1>6, <2>1 DEF OthersRecorded
<1>10. OwnOperation(m)'
  <2>1. /\ o \in DOMAIN ledger' /\ ledger'[o].task = l.task /\ ledger'[o].run = l.run
    BY <1>2 DEF Rely, OwnOperation, Begun, LedgerStep
  <2>2. OnBranch(o)'
    <3>1. Len(log) + 1 \in DOMAIN log' /\ log'[Len(log) + 1] = o
      BY <1>3
    <3>2. QED
      BY <3>1 DEF OnBranch
  <2>3. QED
    BY <1>2, <1>3, <1>5, <1>6, <2>1, <2>2 DEF OwnOperation, Begun, Committed
<1>11. Rely(m)' /\ m.pc \notin Working
  BY <1>3, <1>5, <1>6, <1>7, <1>9, <1>10 DEF Rely, Working
<1>12. history' \in Seq(Tasks)
  BY DEF IInv, TypeOK
<1>13. QED
  BY <1>3, <1>4, <1>5, <1>11, <1>12, StepKeeps

LEMMA CommitKeeps ==
  ASSUME IInv, NEW p \in Procs, Commit(p)
  PROVE  IInv'
<1>1. UNCHANGED <<queue, history, records>> /\ proc[p].pc = "verified"
  BY DEF Commit
<1>2. PICK o : o = proc[p].op
  OBVIOUS
<1>3. proc[p].pc \in Begun
  BY <1>1 DEF Begun
<1>4. CASE Leave(p) /\ UNCHANGED <<log, tree, ledger>>
  BY <1>1, <1>4, QuitKeeps
<1>5. ASSUME ledger[o].outcome = "open", ledger' = [ledger EXCEPT ![o].evidence = "provisional"],
             tree' = tree \ {o},
             \/ UNCHANGED log
             \/ log' = Append(log, o)
      PROVE  LedgerStep /\ tree' \subseteq Ops \cup {Litter}
  <2>1. o \in DOMAIN ledger /\ ledger \in [DOMAIN ledger -> Operation] /\ o \in Ops
        /\ log \in Seq(Nat \cup Ops) /\ tree \subseteq Ops \cup {Litter}
    BY <1>2, <1>3, OwnIs DEF IInv, TypeOK, RecordsOK
  <2>2. ledger' = [ledger EXCEPT ![o] = [ledger[o] EXCEPT !.evidence = "provisional"]]
    BY <1>5, <2>1
  <2>3. \A i \in DOMAIN log' : OnBranch(log'[i]) \/ log'[i] = o
    BY <1>5, <2>1 DEF OnBranch
  <2>4. LedgerStep
    BY <1>2, <1>3, <1>5, <2>2, <2>3, NoteIs
  <2>5. QED
    BY <1>5, <2>1, <2>4
<1>6. ASSUME LedgerStep, tree' \subseteq Ops \cup {Litter}, UNCHANGED log,
             (Goto(p, "restored") /\ UNCHANGED lease) \/ Leave(p)
      PROVE  IInv'
  <2>1. QueueStep(p) /\ RecordsStep /\ LogStep(p) /\ history' \in Seq(Tasks)
    BY <1>1, <1>6, Same DEF IInv, TypeOK
  <2>2. CASE Goto(p, "restored") /\ UNCHANGED lease
    BY <1>1, <1>6, <2>1, <2>2, RollsOn DEF Rolling, Begun, Committed
  <2>3. CASE Leave(p)
    BY <1>6, <2>1, <2>3, LeaveKeeps
  <2>4. QED
    BY <1>6, <2>2, <2>3
<1>7. CASE /\ ledger[o].outcome = "open"
           /\ ledger' = [ledger EXCEPT ![o].evidence = "provisional"]
           /\ tree' = tree \ {o}
           /\ \/ log' = Append(log, o) /\ Goto(p, "committed") /\ UNCHANGED lease
              \/ UNCHANGED log /\ Goto(p, "restored") /\ UNCHANGED lease
              \/ UNCHANGED log /\ Leave(p)
  <2>1. LedgerStep /\ tree' \subseteq Ops \cup {Litter}
    BY <1>5, <1>7
  <2>2. CASE log' = Append(log, o) /\ Goto(p, "committed") /\ UNCHANGED lease
    BY <1>1, <1>2, <2>1, <2>2, RevertKeeps
  <2>3. CASE UNCHANGED log /\ ((Goto(p, "restored") /\ UNCHANGED lease) \/ Leave(p))
    BY <1>6, <2>1, <2>3
  <2>4. QED
    BY <1>7, <2>2, <2>3
<1>8. QED
  BY <1>2, <1>4, <1>7 DEF Commit

LEMMA NoteCommitKeeps ==
  ASSUME IInv, NEW p \in Procs, NoteCommit(p)
  PROVE  IInv'
<1>1. UNCHANGED <<queue, history, log, tree, records>> /\ proc[p].pc = "committed"
  BY DEF NoteCommit
<1>2. PICK o : o = proc[p].op
  OBVIOUS
<1>3. proc[p].pc \in Begun
  BY <1>1 DEF Begun
<1>4. CASE Leave(p) /\ UNCHANGED ledger
  BY <1>1, <1>4, QuitKeeps
<1>5. CASE /\ ledger[o].outcome = "open" /\ Goto(p, "noted") /\ UNCHANGED lease
           /\ ledger' = [ledger EXCEPT ![o].evidence = "final", ![o].commit = TRUE]
  <2>1. o \in DOMAIN ledger /\ ledger \in [DOMAIN ledger -> Operation]
    BY <1>2, <1>3, OwnIs DEF IInv, TypeOK, RecordsOK
  <2>2. ledger' = [ledger EXCEPT ![o] = [ledger[o] EXCEPT !.evidence = "final", !.commit = TRUE]]
    BY <1>5, <2>1
  <2>3. \A i \in DOMAIN log' : OnBranch(log'[i])
    BY <1>1 DEF OnBranch
  <2>4. LedgerStep
    BY <1>2, <1>3, <1>5, <2>2, <2>3, NoteIs
  <2>5. QueueStep(p) /\ RecordsStep /\ tree' \subseteq Ops \cup {Litter}
    BY <1>1, Same DEF IInv, TypeOK
  <2>6. QED
    BY <1>1, <1>5, <2>4, <2>5, RollsOn DEF Rolling, Begun, Committed
<1>6. QED
  BY <1>2, <1>4, <1>5 DEF NoteCommit

LEMMA StoreRollbackKeeps ==
  ASSUME IInv, NEW p \in Procs, StoreRollback(p)
  PROVE  IInv'
<1>1. UNCHANGED <<history, log, tree, ledger>> /\ proc[p].pc = "noted"
  BY DEF StoreRollback
<1>2. PICK o : o = proc[p].op
  OBVIOUS
<1>3. PICK row : row = FinalRow(p)
  OBVIOUS
<1>4. /\ o \in Ops /\ OnBranch(o) /\ row \in Row /\ row.op = o
      /\ row.task = ledger[o].task /\ row.run = ledger[o].run
  BY <1>1, <1>2, <1>3, OwnIs DEF Begun, Committed, FinalRow, Row, Evidence
<1>5. CASE Leave(p) /\ UNCHANGED <<queue, records>>
  BY <1>1, <1>5, QuitKeeps
<1>6. CASE CompleteRollback(row) /\ Goto(p, "stored") /\ UNCHANGED lease
  <2>1. QueueStep(p) /\ RecordsStep /\ StateComplete(o)'
    BY <1>1, <1>4, <1>6, CompleteIs
  <2>2. LedgerStep /\ tree' \subseteq Ops \cup {Litter}
    BY <1>1, Same DEF IInv, TypeOK
  <2>3. QED
    BY <1>1, <1>2, <1>6, <2>1, <2>2, RollsOn DEF Rolling, Begun, Committed
<1>7. QED
  BY <1>3, <1>5, <1>6 DEF StoreRollback

LEMMA CrashKeeps ==
  ASSUME IInv, NEW p \in Procs, Crash(p) \/ NothingToClaim(p)
  PROVE  IInv'
BY QuitKeeps DEF Crash, NothingToClaim

(* A stop between the two files leaves a mark of a revert on the branch.    *)
LEMMA CrashWhileStoringKeeps ==
  ASSUME IInv, NEW p \in Procs, CrashWhileStoring(p)
  PROVE  IInv'
<1>1. Leave(p) /\ UNCHANGED <<history, log, tree, ledger, records>>
  BY DEF CrashWhileStoring
<1>2. PICK row : /\ \/ row = FinalRow(p)
                    \/ InHand(p, "write") /\ row = RowOf(proc[p].item, proc[p].todo[proc[p].item])
                 /\ proc[p].pc = "noted" \/ InHand(p, "write")
                 /\ InHand(p, "write") => row.op = proc[p].item
                 /\ ~CompleteRefused(row) /\ MarkRolledBack(row.task, row.op)
  BY DEF CrashWhileStoring
<1>3. row.op \in Ops /\ OnBranch(row.op) /\ row.task \in Tasks
  <2>1. CASE InHand(p, "write")
    <3>1. /\ proc[p].item \in Ops /\ OnBranch(proc[p].item)
          /\ proc[p].todo[proc[p].item].task \in Tasks
      BY <2>1, InHandIs DEF Operation
    <3>2. proc[p].op = None /\ None \notin Ops
      BY <2>1, RollbackConstants DEF InHand, IInv, RollbackInvariant, Rely, OwnOperation, Begun, Reconciling
    <3>3. row # FinalRow(p)
      BY <1>2, <2>1, <3>1, <3>2 DEF FinalRow
    <3>4. row = RowOf(proc[p].item, proc[p].todo[proc[p].item])
      BY <1>2, <3>3
    <3>5. QED
      BY <3>1, <3>4 DEF RowOf
  <2>2. CASE ~InHand(p, "write")
    <3>1. row = FinalRow(p) /\ proc[p].pc = "noted"
      BY <1>2, <2>2
    <3>2. QED
      BY <3>1, OwnIs DEF FinalRow, Begun, Committed
  <2>3. QED
    BY <2>1, <2>2
<1>4. Latest(row.task).status = "done" \/ AlreadyMarked(row.task, row.op)
  BY <1>2 DEF CompleteRefused
<1>5. QueueStep(p)
  BY <1>2, <1>3, <1>4, MarkIs
<1>6. QED
  BY <1>1, <1>5, Same, LeaveKeeps DEF IInv, TypeOK

(* The operator ends an operation whose commit is not on the branch.        *)
LEMMA CancelKeeps ==
  ASSUME IInv, NEW o \in Ops, Cancel(o) \/ Restore(o)
  PROVE  IInv'
<1>1. /\ o \in DOMAIN ledger /\ ~OnBranch(o)
      /\ UNCHANGED <<queue, history, log, records, lease, proc>>
      /\ tree' \subseteq tree
  BY DEF Cancel, Restore, OpenOps, NotStarted, PatchApplied
<1>2. \/ ledger' = [ledger EXCEPT ![o].outcome = "cancelled"]
      \/ ledger' = [ledger EXCEPT ![o].outcome = "reverted"]
  BY DEF Cancel, Restore
<1>3. LedgerStep
  BY <1>1, <1>2, OutcomeIs DEF Outcomes
<1>4. Shared(None)
  BY <1>1, <1>3, Same DEF Shared
<1>5. QED
  BY <1>1, <1>4, OperatorKeeps DEF IInv, TypeOK

LEMMA NothingKeeps ==
  ASSUME IInv, RemoveLitter \/ UNCHANGED vars
  PROVE  IInv'
<1>1. /\ UNCHANGED <<queue, history, log, ledger, records, lease, proc>>
      /\ tree' \subseteq tree
  BY DEF RemoveLitter, vars
<1>2. Shared(None)
  BY <1>1, Same DEF Shared
<1>3. QED
  BY <1>1, <1>2, OperatorKeeps DEF IInv, TypeOK

-----------------------------------------------------------------------------
(* The first state.                                                         *)

LEMMA LaidOut ==
  ASSUME NEW S, IsFiniteSet(S)
  PROVE  /\ SetToSeq(S) \in Seq(S) /\ Cardinality(S) \in Nat /\ Len(SetToSeq(S)) = Cardinality(S)
         /\ \A x \in S : \E i \in DOMAIN SetToSeq(S) : SetToSeq(S)[i] = x
<1> DEFINE n == Cardinality(S)
<1>1. n \in Nat /\ ExistsBijection(1..n, S)
  BY FS_CardinalityType
<1>2. \E f \in [1..n -> S] : IsInjective(f)
  BY <1>1 DEF ExistsBijection, Bijection, Injection
<1> DEFINE f == SetToSeq(S)
<1>3. f \in [1..n -> S] /\ IsInjective(f)
  BY <1>2 DEF SetToSeq
<1>4. f \in Injection(1..n, S)
  BY <1>3 DEF Injection
<1>5. IsFiniteSet(1..n) /\ Cardinality(1..n) = n
  BY <1>1, FS_Interval
<1> HIDE DEF f
<1>6. f \in Surjection(1..n, S)
  BY <1>4, <1>5, FS_Injection
<1>7. \A x \in S : \E i \in 1..n : f[i] = x
  BY <1>6 DEF Surjection
<1> HIDE DEF n
<1>8. f \in Seq(S) /\ Len(f) = n /\ DOMAIN f = 1..n
  BY <1>1, <1>3
<1>9. QED
  BY <1>1, <1>7, <1>8 DEF f, n

LEMMA InitIs == Init => IInv
<1> SUFFICES ASSUME Init PROVE IInv
  OBVIOUS
<1>1. PICK done \in SUBSET Tasks :
        /\ history = SetToSeq(done)
        /\ queue = [i \in 1..Cardinality(Tasks) |->
                      LET order == SetToSeq(done) \o SetToSeq(Tasks \ done) IN
                      [id |-> order[i],
                       status |-> IF order[i] \in done THEN "done" ELSE "queued",
                       run |-> IF order[i] \in done THEN i ELSE 0, by |-> None]]
        /\ log = [i \in 1..Cardinality(done) |-> i]
  BY DEF Init
<1>2. tree = {} /\ ledger = NoRecords /\ records = {} /\ lease = None /\ proc = [p \in Procs |-> Idle]
  BY DEF Init
<1> DEFINE first == SetToSeq(done)
           rest  == SetToSeq(Tasks \ done)
           order == first \o rest
           n     == Cardinality(Tasks)
<1>3. IsFiniteSet(Tasks) /\ IsFiniteSet(done) /\ IsFiniteSet(Tasks \ done)
  BY RollbackConstants, FS_Subset, FS_Difference
<1>4. Cardinality(Tasks \ done) = n - Cardinality(done) /\ n \in Nat
  <2>1. Tasks \cap done = done
    OBVIOUS
  <2>2. QED
    BY <1>3, <2>1, FS_Difference, FS_CardinalityType
<1>5. /\ first \in Seq(done) /\ Cardinality(done) \in Nat /\ Len(first) = Cardinality(done)
      /\ \A x \in done : \E i \in DOMAIN first : first[i] = x
  BY <1>3, LaidOut
<1>6. /\ rest \in Seq(Tasks \ done) /\ Len(rest) = Cardinality(Tasks \ done)
      /\ \A x \in Tasks \ done : \E i \in DOMAIN rest : rest[i] = x
  BY <1>3, LaidOut
<1> HIDE DEF first, rest, n
<1>7. first \in Seq(Tasks) /\ rest \in Seq(Tasks)
  BY <1>5, <1>6
<1>8. order \in Seq(Tasks) /\ Len(order) = n /\ DOMAIN order = 1..n
  BY <1>4, <1>5, <1>6, <1>7
<1>9. \A x \in Tasks : \E i \in 1..n : order[i] = x
  <2> SUFFICES ASSUME NEW x \in Tasks PROVE \E i \in 1..n : order[i] = x
    OBVIOUS
  <2>1. CASE x \in done
    <3>1. PICK i \in DOMAIN first : first[i] = x
      BY <1>5, <2>1
    <3>2. i \in 1..n /\ order[i] = x
      BY <1>4, <1>5, <1>6, <1>7, <3>1
    <3>3. QED
      BY <3>2
  <2>2. CASE x \notin done
    <3>1. PICK i \in DOMAIN rest : rest[i] = x
      BY <1>6, <2>2
    <3>2. Len(first) + i \in 1..n /\ order[Len(first) + i] = x
      BY <1>4, <1>5, <1>6, <1>7, <3>1
    <3>3. QED
      BY <3>2
  <2>3. QED
    BY <2>1, <2>2
<1> HIDE DEF order
<1>10. queue = [i \in 1..n |-> [id |-> order[i],
                                status |-> IF order[i] \in done THEN "done" ELSE "queued",
                                run |-> IF order[i] \in done THEN i ELSE 0, by |-> None]]
  BY <1>1 DEF order, first, rest, n
<1>11. /\ DOMAIN queue = 1..n
       /\ \A i \in 1..n : queue[i].id = order[i] /\ queue[i].by = None
  BY <1>10
<1>12. queue \in Seq(Entry)
  <2>1. \A i \in 1..n : order[i] \in Tasks /\ i \in Nat
    BY <1>8
  <2>2. \A i \in 1..n : queue[i] \in Entry
    BY <1>10, <2>1 DEF Entry, Statuses
  <2>3. QED
    BY <1>4, <1>10, <2>2
<1>13. \A t \in Tasks : EntriesOf(t) # {}
  BY <1>9, <1>11 DEF EntriesOf
<1>14. log \in Seq(Nat) /\ \A i \in DOMAIN log : log[i] \in Nat
  BY <1>1, <1>5
<1>15. history \in Seq(Tasks)
  BY <1>1, <1>7 DEF first
<1>16. log \in Seq(Nat \cup Ops) /\ \A i \in DOMAIN log : log[i] \notin Ops
  BY <1>14, RollbackConstants
<1>17. DOMAIN ledger = {} /\ RecordsOK(ledger)
  BY <1>2 DEF NoRecords, RecordsOK
<1>18. \A p \in Procs : /\ proc[p] = Idle /\ CommandOK(proc[p]) /\ Rely(proc[p])
                        /\ proc[p].pc \notin Leased \cup Working
  BY <1>2, IdleRelies
<1>19. TypeOK
  BY <1>2, <1>12, <1>15, <1>16, <1>17, <1>18 DEF TypeOK
<1>20. OneRevertEach /\ QueueAgrees /\ LedgerAgrees /\ OneWorker
  BY <1>2, <1>11, <1>13, <1>16, <1>17, <1>18
     DEF OneRevertEach, QueueAgrees, LedgerAgrees, OneWorker
<1>21. QED
  BY <1>18, <1>19, <1>20 DEF IInv, RollbackInvariant

-----------------------------------------------------------------------------
LEMMA StepIs == IInv /\ [Next]_vars => IInv'
<1> SUFFICES ASSUME IInv, [Next]_vars PROVE IInv'
  OBVIOUS
<1>1. CASE UNCHANGED vars
  BY <1>1, NothingKeeps
<1>2. ASSUME NEW p \in Procs, Step(p)
      PROVE  IInv'
  <2>1. CASE TakeItem(p) \/ LookUp(p) \/ Judge(p) \/ CompleteState(p) \/ FinishLedger(p)
             \/ ReconcileEnds(p)
    BY <2>1, TakeItemKeeps, LookUpKeeps, JudgeKeeps, CompleteStateKeeps, FinishLedgerKeeps,
       ReconcileEndsKeeps
  <2>2. CASE Claim(p) \/ NothingToClaim(p) \/ WorkReturns(p) \/ Integrate(p)
    BY <2>2, ClaimKeeps, CrashKeeps, WorkReturnsKeeps, IntegrateKeeps
  <2>3. CASE WorkContended(p) \/ Fail(p)
    BY <2>3, GivesUpKeeps DEF WorkContended, Fail, Working
  <2>4. CASE WorkRaises(p) \/ IntegrateFails(p)
    BY <2>4, RaiseKeeps DEF WorkRaises, IntegrateFails, Working
  <2>5. CASE Plan(p) \/ TestApart(p) \/ Revalidate(p) \/ Apply(p) \/ Check(p)
    BY <2>5, PlanKeeps, RevalidateKeeps, ApplyKeeps, CheckKeeps
  <2>6. CASE EndReverted(p) \/ Commit(p) \/ NoteCommit(p) \/ StoreRollback(p) \/ EndComplete(p)
    BY <2>6, EndsKeeps, CommitKeeps, NoteCommitKeeps, StoreRollbackKeeps
  <2>7. QED
    BY <1>2, <2>1, <2>2, <2>3, <2>4, <2>5, <2>6 DEF Step
<1>3. ASSUME NEW p \in Procs, Startup(p) \/ Crash(p) \/ CrashWhileStoring(p)
      PROVE  IInv'
  BY <1>3, StartupKeeps, CrashKeeps, CrashWhileStoringKeeps
<1>4. ASSUME NEW p \in Procs, NEW t \in Tasks, NEW r \in Runs, BeginRollback(p, t, r)
      PROVE  IInv'
  BY <1>4, BeginRollbackKeeps
<1>5. ASSUME NEW t \in Tasks, Enqueue(t)
      PROVE  IInv'
  BY <1>5, EnqueueKeeps
<1>6. ASSUME NEW o \in Ops, Cancel(o) \/ Restore(o)
      PROVE  IInv'
  BY <1>6, CancelKeeps
<1>7. CASE RemoveLitter
  BY <1>7, NothingKeeps
<1>8. QED
  BY <1>1, <1>2, <1>3, <1>4, <1>5, <1>6, <1>7 DEF Next

(* apply_rollback, complete_rollback and OperationLedger.reconcile, next to *)
(* the runs of the queue: whoever stops or interleaves, what a command      *)
(* takes for granted under the execution lease is so.                       *)
THEOREM RollbackIsSound == Spec => [](TypeOK /\ RollbackInvariant)
<1>1. Init => IInv
  BY InitIs
<1>2. IInv /\ [Next]_vars => IInv'
  BY StepIs
<1>3. QED
  BY <1>1, <1>2, PTL DEF Spec, IInv

LEMMA RevertedOnceHolds == IInv => RevertedOnce
<1> SUFFICES ASSUME IInv PROVE RevertedOnce
  OBVIOUS
<1>1. ASSUME NEW o \in DOMAIN ledger, OnBranch(o), ~StateComplete(o)
      PROVE  ledger[o].outcome = "open" /\ log[Len(log)] = o
  <2>1. ledger[o].outcome \in Outcomes
    BY DEF IInv, TypeOK, RecordsOK, Operation
  <2>2. QED
    BY <1>1, <2>1 DEF IInv, RollbackInvariant, LedgerAgrees, Unrecorded, Outcomes
<1>2. QED
  BY <1>1 DEF IInv, RollbackInvariant, RevertedOnce, UnrecordedRevertBlocks

(* apply_rollback: no run is reverted by two commits, no revert is made     *)
(* twice, and a revert without a record keeps the branch from growing.      *)
THEOREM RevertsHappenOnce == Spec => []RevertedOnce
<1>1. IInv => RevertedOnce
  BY RevertedOnceHolds
<1>2. QED
  BY <1>1, RollbackIsSound, PTL DEF IInv

(* complete_rollback: what the ledger calls complete is on the branch, in   *)
(* rollback-records.jsonl and in the entry of the run it reverted.          *)
THEOREM RecordsAgree == Spec => []RollbackAgrees
<1>1. IInv => RollbackAgrees
  <2> SUFFICES ASSUME IInv PROVE RollbackAgrees
    OBVIOUS
  <2>1. \A row \in records : OnBranch(row.op)
    BY DEF IInv, RollbackInvariant, LedgerAgrees
  <2>2. ASSUME NEW o \in DOMAIN ledger, ledger[o].outcome = "complete"
        PROVE  StateComplete(o) /\ Marked(o)
    BY <2>2 DEF IInv, RollbackInvariant, LedgerAgrees, StateComplete
  <2>3. QED
    BY <2>1, <2>2 DEF RollbackAgrees
<1>2. QED
  BY <1>1, RollbackIsSound, PTL DEF IInv

-----------------------------------------------------------------------------
(***************************************************************************)
(* JournalFiles, for any invocations, texts and numbers of payloads.       *)
(***************************************************************************)

(* At first nothing was appended.                                          *)
LEMMA JournalInitially == JournalInit => JournalTypeOK /\ JournalInvariant
<1> SUFFICES ASSUME JournalInit PROVE JournalTypeOK /\ JournalInvariant
  OBVIOUS
<1>1. \A f \in Files : file[f] = <<>>
  BY DEF JournalInit
<1>2. Nothing \in Payloads /\ Nothing.tokens = 0
  BY DEF Nothing, Payload, Payloads
<1>3. \A c \in Callers : call[c] = 
        [pc |-> "idle", payloads |-> 0, payload |-> Nothing, said |-> 0, usage |-> 0,
         seen |-> 0, recorded |-> FALSE, snapshot |-> <<>>, unsure |-> FALSE]
  BY DEF JournalInit
<1>4. JournalTypeOK
  <2>1. <<>> \in Seq(Records)
    BY EmptySeq
  <2>2. call \in [Callers -> Invocations]
    BY <1>2, <2>1 DEF JournalInit, Invocations
  <2>3. QED
    BY <2>1, <2>2 DEF JournalInit, JournalTypeOK
<1>5. SnapshotHeld
  BY <1>3 DEF SnapshotHeld
<1>6. Numbered
  BY <1>1 DEF Numbered
<1>7. UsageFollows
  BY <1>2, <1>3 DEF UsageFollows
<1>8. EvidenceIsKept
  <2>1. AppendsAreKept
    BY <1>1 DEF AppendsAreKept, JournalInit
  <2>2. UsageCountedOnce
    BY <1>1, <1>3 DEF UsageCountedOnce, Counted, Files
  <2>3. QED
    BY <2>1, <2>2 DEF EvidenceIsKept
<1>9. QED
  BY <1>4, <1>5, <1>6, <1>7, <1>8 DEF JournalInvariant

(* What a step of c leaves alone: everybody else, and what c has had.       *)
CallerMoves(c) ==
  /\ call' = [call EXCEPT ![c] = call'[c]] /\ call'[c] \in Invocations
  /\ call[c].payloads <= call'[c].payloads

(* A step that replaces no file.                                            *)
NoAppend(c) ==
  /\ CallerMoves(c)
  /\ UNCHANGED <<file, returned>>
  /\ stateLease' = stateLease \/ (stateLease = Nobody /\ stateLease' = c) \/ (stateLease = c /\ stateLease' = Nobody)
  /\ call'[c].pc \in {"journaling", "using"} =>
        stateLease' = c /\ call'[c].snapshot = file[Target(c)']
  /\ \A f \in Files : IsNew(c, f)' => IsNew(c, f) \/ call[c].payloads < call'[c].payloads
  /\ call'[c].usage = call'[c].seen /\ call'[c].seen <= call'[c].said
  /\ call'[c].payload.tokens \in {0, call'[c].said}
  /\ call'[c].pc \in {"usage", "using"} =>
        (call'[c].recorded <=> call'[c].payload.direction = "quality")
  /\ call'[c].recorded = call[c].recorded /\ call'[c].unsure = call[c].unsure
  /\ call[c].recorded => call'[c].seen = call[c].seen

(* Only c changes, and the files stay: what is known of c is all there is to *)
(* check.                                                                   *)
LEMMA NoAppendKeeps ==
  ASSUME JournalTypeOK, JournalInvariant, NEW c \in Callers, NoAppend(c)
  PROVE  JournalTypeOK' /\ JournalInvariant'
<1>1. \A d \in Callers : d # c => call'[d] = call[d]
  BY DEF NoAppend, CallerMoves, JournalTypeOK
<1>2. call' \in [Callers -> Invocations]
  BY DEF NoAppend, CallerMoves, JournalTypeOK
<1>3. JournalTypeOK'
  BY <1>2 DEF NoAppend, JournalTypeOK
<1>4. SnapshotHeld'
  <2>1. SUFFICES ASSUME NEW d \in Callers, call'[d].pc \in {"journaling", "using"}
                 PROVE  stateLease' = d /\ call'[d].snapshot = file'[Target(d)']
    BY DEF SnapshotHeld
  <2>2. CASE d = c
    BY <2>1, <2>2 DEF NoAppend
  <2>3. CASE d # c
    <3>1. call'[d] = call[d] /\ stateLease = d /\ call[d].snapshot = file[Target(d)]
      BY <1>1, <2>1, <2>3 DEF JournalInvariant, SnapshotHeld
    <3>2. stateLease' = d /\ Target(d)' = Target(d)
      BY <2>3, <3>1, JournalConstants DEF NoAppend, Target
    <3>3. QED
      BY <3>1, <3>2 DEF NoAppend
  <2>4. QED
    BY <2>2, <2>3
<1>5. Numbered'
  <2>1. ASSUME NEW f \in Files, NEW i \in DOMAIN file[f], NEW d \in Callers, file[f][i].by = d
        PROVE  /\ file[f][i].number <= call'[d].payloads
               /\ IsNew(d, f)' => file[f][i].number < call'[d].payloads
    <3>1. file[f][i] \in Records
      BY DEF JournalTypeOK
    <3>2. file[f][i].number \in Nat
      BY <3>1 DEF Records
    <3>3. /\ file[f][i].number <= call[d].payloads
          /\ IsNew(d, f) => file[f][i].number < call[d].payloads
      BY <2>1 DEF JournalInvariant, Numbered
    <3>4. CASE d # c
      BY <1>1, <3>3, <3>4 DEF IsNew
    <3>5. CASE d = c
      <4>1. call[c].payloads \in Nat /\ call'[c].payloads \in Nat
        BY <1>2 DEF JournalTypeOK, Invocations
      <4>2. call[c].payloads <= call'[c].payloads
        BY DEF NoAppend, CallerMoves
      <4>3. IsNew(c, f)' => IsNew(c, f) \/ call[c].payloads < call'[c].payloads
        BY DEF NoAppend
      <4>4. IsNew(d, f)' => IsNew(c, f) \/ call[c].payloads < call'[c].payloads
        BY <3>5, <4>3
      <4>5. QED
        BY <3>2, <3>3, <3>5, <4>1, <4>2, <4>4
    <3>6. QED
      BY <3>4, <3>5
  <2>2. \A f \in Files : \A i \in DOMAIN file[f] : file[f][i].by \in Callers
    <3>1. \A f \in Files : \A i \in DOMAIN file[f] : file[f][i] \in Records
      BY DEF JournalTypeOK
    <3>2. QED
      BY <3>1 DEF Records
  <2>3. file' = file
    BY DEF NoAppend
  <2>4. QED
    BY <2>1, <2>2, <2>3 DEF Numbered, IsNew
<1>6. UsageFollows'
  BY <1>1 DEF JournalInvariant, UsageFollows, NoAppend
<1>7. AppendsAreKept'
  BY DEF JournalInvariant, EvidenceIsKept, AppendsAreKept, NoAppend
<1>8. UsageCountedOnce'
  <2>1. \A d \in Callers : Counted(d)' = Counted(d)
    BY DEF Counted, NoAppend
  <2>2. \A d \in Callers : /\ call'[d].unsure = call[d].unsure /\ call'[d].recorded = call[d].recorded
                           /\ call[d].recorded => call'[d].seen = call[d].seen
    BY <1>1 DEF NoAppend
  <2>3. UsageCountedOnce /\ file' = file
    BY DEF JournalInvariant, EvidenceIsKept, NoAppend
  <2>4. QED
    BY <2>1, <2>2, <2>3 DEF UsageCountedOnce
<1>9. QED
  BY <1>3, <1>4, <1>5, <1>6, <1>7, <1>8 DEF JournalInvariant, EvidenceIsKept

(***************************************************************************)
(* A record that is appended.                                              *)
(***************************************************************************)
(* NewRecord: of this caller, with the number of its payload.               *)
LEMMA NewRecordIs ==
  ASSUME JournalTypeOK, NEW c \in Callers
  PROVE  /\ NewRecord(c) \in Records /\ NewRecord(c).by = c
         /\ NewRecord(c).number = call[c].payloads /\ NewRecord(c).kind = call[c].payload.direction
         /\ Target(c) = "usage" /\ call[c].payload.direction # "quality" => NewRecord(c).tokens = call[c].usage
<1>1. call[c] \in Invocations
  BY DEF JournalTypeOK
<1>2. call[c].payload \in Payloads /\ call[c].payloads \in Nat /\ call[c].usage \in Nat
  BY <1>1 DEF Invocations
<1>3. call[c].payload.direction \in {"none", "outbound", "inbound", "quality"}
      /\ call[c].payload.text \in Texts \cup {"plain"}
  BY <1>2 DEF Payloads
<1> DEFINE tokens == IF Target(c) = "journal" \/ call[c].payload.direction = "quality" THEN 0 ELSE call[c].usage
           text == IF Target(c) = "journal" THEN call[c].payload.text ELSE "plain"
<1>4. tokens \in Nat /\ text \in Texts \cup {"plain"}
  BY <1>2, <1>3
<1>5. NewRecord(c) = [by |-> c, number |-> call[c].payloads, kind |-> call[c].payload.direction,
                      tokens |-> tokens, text |-> text]
  BY DEF NewRecord
<1> HIDE DEF tokens, text
<1>6. NewRecord(c) \in Records
  BY <1>2, <1>3, <1>4, <1>5 DEF Records
<1>7. QED
  BY <1>5, <1>6 DEF tokens

\* The file becomes what it was, and the record, because nobody else wrote it
\* since it was read.
Appends(c) ==
  /\ call[c].pc \in {"journaling", "using"}
  /\ CallerMoves(c)
  /\ Replaced(c) /\ Leaves(c)
  /\ returned' \in {returned, returned \cup {<<Target(c), NewRecord(c)>>}}
  /\ call'[c].payloads = call[c].payloads
  /\ call'[c].pc \in IF call[c].pc = "journaling" THEN {"observe", "idle"} ELSE {"idle"}
  /\ call'[c].usage = call[c].usage /\ call'[c].seen = call[c].seen /\ call'[c].said = call[c].said
  /\ call'[c].payload.tokens \in {0, call[c].said}
  /\ \/ call'[c].unsure
     \/ /\ call'[c].unsure = call[c].unsure
        /\ call'[c].recorded <=> call[c].recorded \/ call[c].pc = "using"

(* An append keeps every record, in order, and counts a call once.           *)
LEMMA AppendsKeeps ==
  ASSUME JournalTypeOK, JournalInvariant, NEW c \in Callers, Appends(c)
  PROVE  JournalTypeOK' /\ JournalInvariant'
<1> DEFINE t == Target(c)
           new == NewRecord(c)
           old == file[t]
           n == Len(old) + 1
<1>1. /\ \A d \in Callers : d # c => call'[d] = call[d]
      /\ call' \in [Callers -> Invocations]
  BY DEF Appends, CallerMoves, JournalTypeOK
<1>2. t \in Files /\ old \in Seq(Records) /\ new \in Records
  BY NewRecordIs DEF Target, Files, JournalTypeOK
<1>3. stateLease = c /\ call[c].snapshot = old
  BY DEF Appends, JournalInvariant, SnapshotHeld
<1>4. file' = [file EXCEPT ![t] = Append(old, new)]
  BY <1>3 DEF Appends, Replaced
<1>5. /\ file'[t] = Append(old, new) /\ \A f \in Files : f # t => file'[f] = file[f]
      /\ Append(old, new) \in Seq(Records)
  BY <1>2, <1>4 DEF JournalTypeOK
<1>6. /\ n \in Nat \ {0} /\ DOMAIN file'[t] = 1..n /\ DOMAIN old = 1..(n - 1)
      /\ file'[t][n] = new /\ \A i \in 1..(n - 1) : file'[t][i] = old[i]
  BY <1>2, <1>5
<1>7. file' \in [Files -> Seq(Records)]
  BY <1>2, <1>4, <1>5 DEF JournalTypeOK
<1>8. stateLease' = Nobody
  BY <1>3 DEF Appends, Leaves
<1>9. /\ new.by = c /\ new.number = call[c].payloads /\ new.kind = call[c].payload.direction
      /\ t = "usage" /\ call[c].payload.direction # "quality" => new.tokens = call[c].usage
  BY NewRecordIs
<1> HIDE DEF t, new, old, n
<1>10. returned' \in {returned, returned \cup {<<t, new>>}}
  BY DEF Appends, t, new
<1>11. JournalTypeOK'
  BY <1>1, <1>2, <1>7, <1>8, <1>10 DEF JournalTypeOK
<1>12. SnapshotHeld'
  <2>1. ASSUME NEW d \in Callers, call'[d].pc \in {"journaling", "using"} PROVE FALSE
    <3>1. d # c
      BY <2>1 DEF Appends
    <3>2. stateLease = d
      BY <1>1, <2>1, <3>1 DEF JournalInvariant, SnapshotHeld
    <3>3. QED
      BY <1>3, <3>1, <3>2
  <2>2. QED
    BY <2>1 DEF SnapshotHeld
<1>13. IsNew(c, t) /\ \A f \in Files : IsNew(c, f)' => IsNew(c, f) /\ f # t
  <2>1. CASE call[c].pc = "journaling"
    BY <2>1 DEF Appends, IsNew, t, Target, Files
  <2>2. CASE call[c].pc = "using"
    BY <2>2 DEF Appends, IsNew, t, Target, Files
  <2>3. QED
    BY <2>1, <2>2 DEF Appends
<1>14. Numbered'
  <2>1. ASSUME NEW f \in Files, NEW i \in DOMAIN file[f], NEW d \in Callers, file[f][i].by = d
        PROVE  /\ file[f][i].number <= call'[d].payloads
               /\ IsNew(d, f)' => file[f][i].number < call'[d].payloads
    <3>1. /\ file[f][i].number <= call[d].payloads
          /\ IsNew(d, f) => file[f][i].number < call[d].payloads
      BY <2>1 DEF JournalInvariant, Numbered
    <3>2. call'[d].payloads = call[d].payloads
      BY <1>1 DEF Appends
    <3>3. IsNew(d, f)' => IsNew(d, f)
      BY <1>1, <1>13 DEF IsNew
    <3>4. QED
      BY <3>1, <3>2, <3>3
  <2>2. ASSUME NEW f \in Files, NEW i \in DOMAIN file'[f], NEW d \in Callers, file'[f][i].by = d
        PROVE  /\ file'[f][i].number <= call'[d].payloads
               /\ IsNew(d, f)' => file'[f][i].number < call'[d].payloads
    <3>1. CASE f # t \/ i # n
      <4>1. i \in DOMAIN file[f] /\ file'[f][i] = file[f][i]
        BY <1>5, <1>6, <2>2, <3>1 DEF old
      <4>2. QED
        BY <2>1, <2>2, <4>1
    <3>2. CASE f = t /\ i = n
      <4>1. d = c /\ file'[f][i].number = call[c].payloads
        BY <1>6, <1>9, <2>2, <3>2
      <4>2. call'[c].payloads = call[c].payloads /\ call[c].payloads \in Nat
        BY <1>1 DEF Appends, JournalTypeOK, Invocations
      <4>3. ~IsNew(d, f)'
        BY <1>13, <3>2, <4>1
      <4>4. QED
        BY <4>1, <4>2, <4>3
    <3>3. QED
      BY <3>1, <3>2
  <2>3. \A f \in Files : \A i \in DOMAIN file'[f] : file'[f][i].by \in Callers
    <3>1. \A f \in Files : \A i \in DOMAIN file'[f] : file'[f][i] \in Records
      BY <1>7
    <3>2. QED
      BY <3>1 DEF Records
  <2>4. QED
    BY <2>2, <2>3 DEF Numbered, IsNew
<1>15. UsageFollows'
  <2>1. ASSUME NEW d \in Callers
        PROVE  /\ call'[d].usage = call'[d].seen /\ call'[d].seen <= call'[d].said
               /\ call'[d].payload.tokens \in {0, call'[d].said}
               /\ call'[d].pc \in {"usage", "using"} =>
                    (call'[d].recorded <=> call'[d].payload.direction = "quality")
    BY <1>1 DEF JournalInvariant, UsageFollows, Appends
  <2>2. QED
    BY <2>1 DEF UsageFollows
<1>16. AppendsAreKept'
  <2>1. ASSUME NEW f \in Files, NEW i \in DOMAIN file[f]
        PROVE  i \in DOMAIN file'[f] /\ file'[f][i] = file[f][i]
    <3>1. CASE f = t
      <4>1. i \in 1..(n - 1)
        BY <1>6, <3>1 DEF old
      <4>2. i \in 1..n /\ file'[t][i] = file[t][i]
        BY <1>6, <4>1 DEF old
      <4>3. QED
        BY <1>6, <3>1, <4>2
    <3>2. CASE f # t
      BY <1>5, <3>2
    <3>3. QED
      BY <3>1, <3>2
  <2>2. \A r \in returned' : r[2] \in Range(file'[r[1]])
    <3>1. ASSUME NEW r \in returned PROVE r[2] \in Range(file'[r[1]])
      <4>1. r[1] \in Files /\ r[2] \in Range(file[r[1]])
        BY DEF JournalInvariant, EvidenceIsKept, AppendsAreKept, JournalTypeOK
      <4>2. QED
        BY <2>1, <4>1 DEF Range
    <3>2. <<t, new>>[2] \in Range(file'[<<t, new>>[1]])
      BY <1>6 DEF Range
    <3>3. QED
      BY <1>10, <3>1, <3>2
  <2>3. ASSUME NEW f \in Files, NEW i \in DOMAIN file'[f], NEW k \in DOMAIN file'[f],
               i < k, file'[f][i].by = file'[f][k].by
        PROVE  file'[f][i].number < file'[f][k].number
    <3>1. CASE f # t \/ k # n
      <4>1. i \in DOMAIN file[f] /\ k \in DOMAIN file[f]
        BY <1>5, <1>6, <2>3, <3>1 DEF old
      <4>2. QED
        BY <2>1, <2>3, <4>1 DEF JournalInvariant, EvidenceIsKept, AppendsAreKept
    <3>2. CASE f = t /\ k = n
      <4>1. i \in DOMAIN file[t] /\ file'[f][i] = file[t][i]
        BY <1>5, <1>6, <2>3, <3>2 DEF old
      <4>2. file[t][i].by = c /\ file'[f][k].number = call[c].payloads
        BY <1>6, <1>9, <2>3, <3>2, <4>1
      <4>3. file[t][i].number < call[c].payloads
        BY <1>2, <1>13, <4>1, <4>2 DEF JournalInvariant, Numbered
      <4>4. QED
        BY <4>1, <4>2, <4>3
    <3>3. QED
      BY <3>1, <3>2
  <2>4. QED
    BY <2>2, <2>3 DEF AppendsAreKept
<1>17. UsageCountedOnce'
  <2>1. \A d \in Callers : Counted(d)' = Counted(d) \cup
           (IF d = c /\ t = "usage" /\ call[c].payload.direction # "quality" THEN {n} ELSE {})
    <3>1. CASE t = "usage"
      <4>1. ASSUME NEW d \in Callers, NEW i
            PROVE  i \in Counted(d)' <=> i \in Counted(d) \/
                     (d = c /\ call[c].payload.direction # "quality" /\ i = n)
        BY <1>6, <1>9, <3>1 DEF Counted, old
      <4>2. QED
        BY <3>1, <4>1
    <3>2. CASE t # "usage"
      BY <1>5, <3>2 DEF Counted, Files
    <3>3. QED
      BY <3>1, <3>2
  <2>2. \A i \in DOMAIN file["usage"] : i \in DOMAIN file'["usage"] /\ file'["usage"][i] = file["usage"][i]
    BY <1>5, <1>6 DEF old, Files
  <2>3. ASSUME NEW d \in Callers, d # c \/ t # "usage" \/ call[c].payload.direction = "quality"
        PROVE  \/ call'[d].unsure
               \/ IF call'[d].recorded
                  THEN \E i \in DOMAIN file'["usage"] : Counted(d)' = {i} /\ file'["usage"][i].tokens = call'[d].seen
                  ELSE Counted(d)' = {}
    <3>1. Counted(d)' = Counted(d)
      BY <2>1, <2>3
    <3>2. call'[d].seen = call[d].seen /\ (call'[d].unsure \/ (call'[d].unsure = call[d].unsure
                                                             /\ (call'[d].recorded <=> call[d].recorded)))
      <4>1. CASE d # c
        BY <1>1, <4>1
      <4>2. CASE d = c
        <5>1. call[c].pc = "using" => call[c].recorded
          BY <2>3, <4>2 DEF t, Target, JournalInvariant, UsageFollows
        <5>2. QED
          BY <4>2, <5>1 DEF Appends
      <4>3. QED
        BY <4>1, <4>2
    <3>3. \/ call[d].unsure
          \/ IF call[d].recorded
             THEN \E i \in DOMAIN file["usage"] : Counted(d) = {i} /\ file["usage"][i].tokens = call[d].seen
             ELSE Counted(d) = {}
      BY DEF JournalInvariant, EvidenceIsKept, UsageCountedOnce
    <3>4. QED
      BY <2>2, <3>1, <3>2, <3>3
  <2>4. ASSUME t = "usage", call[c].payload.direction # "quality", ~call'[c].unsure
        PROVE  call'[c].recorded /\ \E i \in DOMAIN file'["usage"] :
                 Counted(c)' = {i} /\ file'["usage"][i].tokens = call'[c].seen
    <3>1. call[c].pc = "using"
      BY <2>4 DEF Appends, t, Target
    <3>2. ~call[c].recorded /\ ~call[c].unsure /\ call'[c].recorded /\ call'[c].seen = call[c].seen
      BY <2>4, <3>1 DEF Appends, JournalInvariant, UsageFollows
    <3>3. Counted(c) = {}
      BY <3>2 DEF JournalInvariant, EvidenceIsKept, UsageCountedOnce
    <3>4. Counted(c)' = {n}
      BY <2>1, <2>4, <3>3
    <3>5. n \in DOMAIN file'["usage"] /\ file'["usage"][n].tokens = call[c].usage
      BY <1>6, <1>9, <2>4
    <3>6. call[c].usage = call[c].seen
      BY DEF JournalInvariant, UsageFollows
    <3>7. QED
      BY <3>2, <3>4, <3>5, <3>6
  <2>5. QED
    BY <2>3, <2>4 DEF UsageCountedOnce
<1>18. QED
  BY <1>11, <1>12, <1>14, <1>15, <1>16, <1>17 DEF JournalInvariant, EvidenceIsKept

-----------------------------------------------------------------------------
(* The fields of an invocation.                                             *)
LEMMA InvocationIs ==
  ASSUME JournalTypeOK, NEW c \in Callers
  PROVE  /\ call[c] \in Invocations
         /\ call[c].payloads \in Nat /\ call[c].payload \in Payloads /\ call[c].payload.tokens \in Nat
         /\ call[c].said \in Nat /\ call[c].usage \in Nat /\ call[c].seen \in Nat
         /\ call[c].recorded \in BOOLEAN /\ call[c].unsure \in BOOLEAN
         /\ Nothing \in Payloads /\ Nothing.tokens = 0 /\ <<>> \in Seq(Records)
<1>1. call[c] \in Invocations
  BY DEF JournalTypeOK
<1>2. Nothing \in Payloads /\ Nothing.tokens = 0
  BY DEF Nothing, Payload, Payloads
<1>3. <<>> \in Seq(Records)
  BY EmptySeq
<1>4. call[c].payload \in Payloads /\ call[c].payloads \in Nat /\ call[c].said \in Nat
      /\ call[c].usage \in Nat /\ call[c].seen \in Nat
      /\ call[c].recorded \in BOOLEAN /\ call[c].unsure \in BOOLEAN
  BY <1>1 DEF Invocations
<1>5. call[c].payload.tokens \in Nat
  BY <1>4 DEF Payloads
<1>6. QED
  BY <1>1, <1>2, <1>3, <1>4, <1>5

\* A caller gives up or rests: the payload is dropped.
Drops(c, pc) ==
  call' = [call EXCEPT ![c].pc = pc, ![c].payload = Nothing, ![c].snapshot = <<>>]

LEMMA DropsIs ==
  ASSUME JournalTypeOK, NEW c \in Callers, NEW pc \in {"idle", "dead"}, Drops(c, pc)
  PROVE  /\ call' = [call EXCEPT ![c] = call'[c]] /\ call'[c] \in Invocations
         /\ call'[c].pc = pc /\ call'[c].payload.tokens = 0
         /\ call'[c].payloads = call[c].payloads /\ call'[c].said = call[c].said
         /\ call'[c].usage = call[c].usage /\ call'[c].seen = call[c].seen
         /\ call'[c].recorded = call[c].recorded /\ call'[c].unsure = call[c].unsure
<1>1. call'[c] = [call[c] EXCEPT !.pc = pc, !.payload = Nothing, !.snapshot = <<>>]
      /\ call' = [call EXCEPT ![c] = call'[c]]
  BY DEF Drops, JournalTypeOK
<1>2. call'[c] \in Invocations
  BY <1>1, InvocationIs DEF Invocations
<1>3. QED
  BY <1>1, <1>2, InvocationIs DEF Invocations

(* The actions, one by one.                                                 *)
LEMMA EmitKeeps ==
  ASSUME JournalTypeOK, JournalInvariant, NEW c \in Callers, Emit(c)
  PROVE  NoAppend(c)
<1>1. PICK at \in {"journal", "usage"}, payload \in Payloads :
        /\ Presents(c, at, payload)
        /\ payload.tokens = 0 \/ payload.tokens >= call[c].said
        /\ at = "usage" => call[c].recorded /\ payload.direction = "quality"
  <2>1. CASE call[c].payloads = 0 /\ \E text \in Texts : Presents(c, "journal", Payload("outbound", FALSE, 0, text))
    <3>1. PICK text \in Texts : Presents(c, "journal", Payload("outbound", FALSE, 0, text))
      BY <2>1
    <3>2. Payload("outbound", FALSE, 0, text) \in Payloads /\ Payload("outbound", FALSE, 0, text).tokens = 0
      BY DEF Payload, Payloads
    <3>3. QED
      BY <3>1, <3>2
  <2>2. CASE \E text \in Texts, ends \in BOOLEAN, tokens \in {0} \cup call[c].said..MaxTokens :
                Presents(c, "journal", Payload("inbound", ends, tokens, text))
    <3>1. PICK text \in Texts, ends \in BOOLEAN, tokens \in {0} \cup call[c].said..MaxTokens :
                Presents(c, "journal", Payload("inbound", ends, tokens, text))
      BY <2>2
    <3>2. tokens \in Nat /\ (tokens = 0 \/ tokens >= call[c].said)
      BY InvocationIs, JournalConstants
    <3>3. /\ Payload("inbound", ends, tokens, text) \in Payloads
          /\ Payload("inbound", ends, tokens, text).tokens = tokens
      BY <3>2 DEF Payload, Payloads
    <3>4. QED
      BY <3>1, <3>2, <3>3
  <2>3. CASE call[c].recorded /\ Presents(c, "usage", Payload("quality", FALSE, 0, "plain"))
    <3>1. /\ Payload("quality", FALSE, 0, "plain") \in Payloads
          /\ Payload("quality", FALSE, 0, "plain").tokens = 0
          /\ Payload("quality", FALSE, 0, "plain").direction = "quality"
      BY DEF Payload, Payloads
    <3>2. QED
      BY <2>3, <3>1
  <2>4. QED
    BY <2>1, <2>2, <2>3 DEF Emit
<1> DEFINE said == IF payload.tokens = 0 THEN call[c].said ELSE payload.tokens
<1>2. said \in Nat /\ call[c].said <= said /\ payload.tokens \in {0, said}
  BY <1>1, InvocationIs DEF Payloads
<1>3. /\ call'[c] = [call[c] EXCEPT !.pc = at, !.payloads = @ + 1, !.payload = payload, !.said = said]
      /\ call' = [call EXCEPT ![c] = call'[c]]
  BY <1>1 DEF Presents, JournalTypeOK
<1> HIDE DEF said
<1>4. call[c].payloads + 1 \in Nat
  BY InvocationIs
<1>5. call'[c] \in Invocations
  BY <1>1, <1>2, <1>3, <1>4, InvocationIs DEF Invocations
<1>6. /\ call'[c].pc = at /\ call'[c].payloads = call[c].payloads + 1 /\ call'[c].payload = payload
      /\ call'[c].said = said /\ call'[c].usage = call[c].usage /\ call'[c].seen = call[c].seen
      /\ call'[c].recorded = call[c].recorded /\ call'[c].unsure = call[c].unsure
  BY <1>3, InvocationIs DEF Invocations
<1>7. call[c].usage = call[c].seen /\ call[c].seen <= call[c].said
  BY DEF JournalInvariant, UsageFollows
<1>8. UNCHANGED <<file, stateLease, returned>> /\ call[c].pc = "idle"
  BY DEF Emit
<1>9. call[c].payloads < call'[c].payloads /\ call[c].payloads <= call'[c].payloads
      /\ call'[c].seen <= call'[c].said
  BY <1>2, <1>6, <1>7, InvocationIs
<1>10. ~(at \in {"journaling", "using"}) /\ (at \in {"usage", "using"} =>
            (call'[c].recorded <=> call'[c].payload.direction = "quality"))
  BY <1>1, <1>6
<1>11. QED
  BY <1>2, <1>3, <1>5, <1>6, <1>7, <1>8, <1>9, <1>10 DEF NoAppend, CallerMoves

LEMMA ReadKeeps ==
  ASSUME JournalTypeOK, JournalInvariant, NEW c \in Callers, Read(c)
  PROVE  NoAppend(c)
<1> DEFINE pc == IF call[c].pc = "journal" THEN "journaling" ELSE "using"
<1>1. /\ call'[c] = [call[c] EXCEPT !.pc = pc, !.snapshot = file[Target(c)]]
      /\ call' = [call EXCEPT ![c] = call'[c]]
  BY DEF Read, JournalTypeOK
<1>2. Target(c) \in Files /\ file[Target(c)] \in Seq(Records)
  BY DEF Target, Files, JournalTypeOK
<1>3. call'[c] \in Invocations
  BY <1>1, <1>2, InvocationIs DEF Invocations
<1>4. /\ call'[c].pc = pc /\ call'[c].payloads = call[c].payloads /\ call'[c].payload = call[c].payload
      /\ call'[c].said = call[c].said /\ call'[c].usage = call[c].usage /\ call'[c].seen = call[c].seen
      /\ call'[c].recorded = call[c].recorded /\ call'[c].unsure = call[c].unsure
      /\ call'[c].snapshot = file[Target(c)]
  BY <1>1, InvocationIs DEF Invocations
<1>5. Target(c)' = Target(c) /\ \A f \in Files : IsNew(c, f)' => IsNew(c, f)
  BY <1>4 DEF Read, Target, IsNew, Files
<1>6. /\ call[c].usage = call[c].seen /\ call[c].seen <= call[c].said
      /\ call[c].payload.tokens \in {0, call[c].said}
      /\ call[c].pc = "usage" => (call[c].recorded <=> call[c].payload.direction = "quality")
  BY DEF JournalInvariant, UsageFollows
<1>7. UNCHANGED <<file, returned>> /\ stateLease' = c /\ stateLease = Nobody
      /\ call[c].pc \in {"journal", "usage"}
  BY DEF Read, Free
<1>8. call[c].payloads <= call'[c].payloads
  BY <1>4, InvocationIs
<1>9. QED
  BY <1>1, <1>3, <1>4, <1>5, <1>6, <1>7, <1>8 DEF NoAppend, CallerMoves

(* The payload is dropped, and nothing was appended.                        *)
LEMMA DropKeeps ==
  ASSUME JournalTypeOK, JournalInvariant, NEW c \in Callers, NEW pc \in {"idle", "dead"}, Drops(c, pc),
         UNCHANGED <<file, returned>>, stateLease' = stateLease \/ Leaves(c)
  PROVE  NoAppend(c)
<1>1. /\ call' = [call EXCEPT ![c] = call'[c]] /\ call'[c] \in Invocations
      /\ call'[c].pc = pc /\ call'[c].payload.tokens = 0
      /\ call'[c].payloads = call[c].payloads /\ call'[c].said = call[c].said
      /\ call'[c].usage = call[c].usage /\ call'[c].seen = call[c].seen
      /\ call'[c].recorded = call[c].recorded /\ call'[c].unsure = call[c].unsure
  BY DropsIs
<1>2. call[c].payloads <= call'[c].payloads
  BY <1>1, InvocationIs
<1>3. call[c].usage = call[c].seen /\ call[c].seen <= call[c].said
  BY DEF JournalInvariant, UsageFollows
<1>4. stateLease' = stateLease \/ (stateLease = c /\ stateLease' = Nobody)
  BY DEF Leaves
<1>5. \A f \in Files : ~IsNew(c, f)'
  BY <1>1 DEF IsNew
<1>6. QED
  BY <1>1, <1>2, <1>3, <1>4, <1>5 DEF NoAppend, CallerMoves

LEMMA ObserveKeeps ==
  ASSUME JournalTypeOK, JournalInvariant, NEW c \in Callers, Observe(c)
  PROVE  NoAppend(c)
<1> DEFINE p == call[c].payload
<1>1. CASE p.direction = "inbound" /\ ~call[c].recorded
  <2> DEFINE pc == IF p.ends THEN "usage" ELSE "idle"
             usage == Merged(call[c].usage, p.tokens)
             seen == IF p.tokens = 0 THEN call[c].seen ELSE p.tokens
  <2>1. /\ call[c].usage = call[c].seen /\ call[c].seen <= call[c].said
        /\ call[c].payload.tokens \in {0, call[c].said}
    BY DEF JournalInvariant, UsageFollows
  <2>2. usage = seen /\ seen <= call[c].said /\ seen \in Nat
    BY <2>1, InvocationIs DEF Merged
  <2>3. /\ call'[c] = [call[c] EXCEPT !.usage = usage, !.seen = seen, !.pc = pc]
        /\ call' = [call EXCEPT ![c] = call'[c]]
    BY <1>1 DEF Observe, JournalTypeOK
  <2>4. pc \in {"usage", "idle"}
    OBVIOUS
  <2> HIDE DEF pc, usage, seen
  <2>5. call'[c] \in Invocations
    BY <2>2, <2>3, <2>4, InvocationIs DEF Invocations
  <2>6. /\ call'[c].pc = pc /\ call'[c].payloads = call[c].payloads /\ call'[c].payload = call[c].payload
        /\ call'[c].said = call[c].said /\ call'[c].usage = usage /\ call'[c].seen = seen
        /\ call'[c].recorded = call[c].recorded /\ call'[c].unsure = call[c].unsure
    BY <2>3, InvocationIs DEF Invocations
  <2>7. UNCHANGED <<file, stateLease, returned>> /\ call[c].pc = "observe"
    BY DEF Observe
  <2>8. call[c].payloads <= call'[c].payloads
    BY <2>6, InvocationIs
  <2>9. \A f \in Files : IsNew(c, f)' => IsNew(c, f)
    BY <2>4, <2>6, <2>7 DEF IsNew, Files
  <2>10. ~call[c].recorded /\ call[c].payload.direction # "quality"
    BY <1>1
  <2>11. QED
    BY <2>1, <2>2, <2>3, <2>4, <2>5, <2>6, <2>7, <2>8, <2>9, <2>10 DEF NoAppend, CallerMoves
<1>2. CASE ~(p.direction = "inbound" /\ ~call[c].recorded)
  <2>1. Drops(c, "idle") /\ UNCHANGED <<file, stateLease, returned>>
    BY <1>2 DEF Observe, Rests, Drops
  <2>2. QED
    BY <2>1, DropKeeps
<1>3. QED
  BY <1>1, <1>2

(* Both ways an append takes place.                                         *)
LEMMA AppendingIs ==
  ASSUME JournalTypeOK, JournalInvariant, NEW c \in Callers, Replace(c) \/ AppendRaisesLate(c)
  PROVE  Appends(c)
<1>1. /\ call[c].usage = call[c].seen /\ call[c].seen <= call[c].said
      /\ call[c].payload.tokens \in {0, call[c].said}
  BY DEF JournalInvariant, UsageFollows
<1>2. CASE Replace(c) /\ Target(c) = "journal"
  <2>1. call[c].pc = "journaling" /\ call' = [call EXCEPT ![c].pc = "observe", ![c].snapshot = <<>>]
    BY <1>2 DEF Replace, Target
  <2>2. /\ call'[c] = [call[c] EXCEPT !.pc = "observe", !.snapshot = <<>>]
        /\ call' = [call EXCEPT ![c] = call'[c]]
    BY <2>1 DEF JournalTypeOK
  <2>3. call'[c] \in Invocations
    BY <2>2, InvocationIs DEF Invocations
  <2>4. /\ call'[c].pc = "observe" /\ call'[c].payloads = call[c].payloads /\ call'[c].payload = call[c].payload
        /\ call'[c].said = call[c].said /\ call'[c].usage = call[c].usage /\ call'[c].seen = call[c].seen
        /\ call'[c].recorded = call[c].recorded /\ call'[c].unsure = call[c].unsure
    BY <2>2, InvocationIs DEF Invocations
  <2>5. call[c].payloads <= call'[c].payloads
    BY <2>4, InvocationIs
  <2>6. QED
    BY <1>1, <1>2, <2>1, <2>2, <2>3, <2>4, <2>5 DEF Replace, Appends, CallerMoves
<1>3. CASE Replace(c) /\ Target(c) # "journal"
  <2>1. call[c].pc = "using" /\ call' = [call EXCEPT ![c].pc = "idle", ![c].payload = Nothing,
                                            ![c].snapshot = <<>>, ![c].recorded = TRUE]
    BY <1>3 DEF Replace, Target
  <2>2. /\ call'[c] = [call[c] EXCEPT !.pc = "idle", !.payload = Nothing, !.snapshot = <<>>, !.recorded = TRUE]
        /\ call' = [call EXCEPT ![c] = call'[c]]
    BY <2>1 DEF JournalTypeOK
  <2>3. call'[c] \in Invocations
    BY <2>2, InvocationIs DEF Invocations
  <2>4. /\ call'[c].pc = "idle" /\ call'[c].payloads = call[c].payloads /\ call'[c].payload.tokens = 0
        /\ call'[c].said = call[c].said /\ call'[c].usage = call[c].usage /\ call'[c].seen = call[c].seen
        /\ call'[c].recorded = TRUE /\ call'[c].unsure = call[c].unsure
    BY <2>2, InvocationIs DEF Invocations
  <2>5. call[c].payloads <= call'[c].payloads
    BY <2>4, InvocationIs
  <2>6. QED
    BY <1>1, <1>3, <2>1, <2>2, <2>3, <2>4, <2>5 DEF Replace, Appends, CallerMoves
<1>4. CASE AppendRaisesLate(c)
  <2>1. /\ call'[c] = [call[c] EXCEPT !.pc = "idle", !.payload = Nothing, !.snapshot = <<>>, !.unsure = TRUE]
        /\ call' = [call EXCEPT ![c] = call'[c]]
    BY <1>4 DEF AppendRaisesLate, JournalTypeOK
  <2>2. call'[c] \in Invocations
    BY <2>1, InvocationIs DEF Invocations
  <2>3. /\ call'[c].pc = "idle" /\ call'[c].payloads = call[c].payloads /\ call'[c].payload.tokens = 0
        /\ call'[c].said = call[c].said /\ call'[c].usage = call[c].usage /\ call'[c].seen = call[c].seen
        /\ call'[c].unsure = TRUE
    BY <2>1, InvocationIs DEF Invocations
  <2>4. call[c].payloads <= call'[c].payloads
    BY <2>3, InvocationIs
  <2>5. /\ call[c].pc \in {"journaling", "using"} /\ Replaced(c) /\ Leaves(c)
        /\ returned' = returned
    BY <1>4 DEF AppendRaisesLate
  <2>6. CallerMoves(c)
    BY <2>1, <2>2, <2>4 DEF CallerMoves
  <2>7. QED
    BY <1>1, <2>3, <2>5, <2>6 DEF Appends
<1>5. QED
  BY <1>2, <1>3, <1>4

(* Every step keeps the invariant.                                          *)
LEMMA JournalStep ==
  ASSUME JournalTypeOK, JournalInvariant, [JournalNext]_journalVars
  PROVE  JournalTypeOK' /\ JournalInvariant'
<1>1. ASSUME NEW c \in Callers, Emit(c) \/ Read(c) \/ AppendRaises(c) \/ Observe(c) \/ Dies(c)
      PROVE  NoAppend(c)
  <2>1. CASE AppendRaises(c)
    <3>1. Drops(c, "idle") /\ UNCHANGED <<file, returned>> /\ Leaves(c)
      BY <2>1 DEF AppendRaises, Rests, Drops
    <3>2. QED
      BY <3>1, DropKeeps
  <2>2. CASE Dies(c)
    <3>1. Drops(c, "dead") /\ UNCHANGED <<file, returned>> /\ Leaves(c)
      BY <2>2 DEF Dies, Drops
    <3>2. QED
      BY <3>1, DropKeeps
  <2>3. QED
    BY <1>1, <2>1, <2>2, EmitKeeps, ReadKeeps, ObserveKeeps
<1>2. ASSUME NEW c \in Callers, Replace(c) \/ AppendRaisesLate(c)
      PROVE  Appends(c)
  BY <1>2, AppendingIs
<1>3. CASE JournalNext
  BY <1>1, <1>2, <1>3, NoAppendKeeps, AppendsKeeps DEF JournalNext
<1>4. CASE UNCHANGED journalVars
  BY <1>4 DEF journalVars, JournalTypeOK, JournalInvariant, SnapshotHeld, Target, Numbered, IsNew,
     UsageFollows, EvidenceIsKept, AppendsAreKept, UsageCountedOnce, Counted
<1>5. QED
  BY <1>3, <1>4

(* atomic_append_jsonl under the state lease: whoever is about to replace a *)
(* file has read all of it, so the records of a process are in its order,   *)
(* and the sink records a call that it has not recorded.                    *)
THEOREM JournalIsSound == JournalSpec => [](JournalTypeOK /\ JournalInvariant)
<1>1. JournalInit => JournalTypeOK /\ JournalInvariant
  BY JournalInitially
<1>2. JournalTypeOK /\ JournalInvariant /\ [JournalNext]_journalVars => (JournalTypeOK /\ JournalInvariant)'
  BY JournalStep
<1>3. QED
  BY <1>1, <1>2, PTL DEF JournalSpec

(* EvidenceIsKept: no record is lost or doubled by other writers, deaths or *)
(* failed appends, and no invocation is counted twice.                      *)
THEOREM EvidenceStays == JournalSpec => []EvidenceIsKept
<1>1. JournalTypeOK /\ JournalInvariant => EvidenceIsKept
  BY DEF JournalInvariant
<1>2. QED
  BY <1>1, JournalIsSound, PTL

-----------------------------------------------------------------------------
(***************************************************************************)
(* FinalAudit, for any number of checks and of changes by others.          *)
(***************************************************************************)

(* What there is to inspect.                                                *)
LEMMA KindsAre ==
  /\ Len(Kinds) = 6 /\ DOMAIN Kinds = 1..6 /\ Len(Blockers) = 2 /\ DOMAIN Blockers = 1..2
  /\ ToSet(Kinds) = {"dirty", "docs", "diagrams", "lifecycle", "tracked", "dead_code"}
  /\ ToSet(Blockers) = {"rolled_back", "open"}
  /\ All = ToSet(Kinds) \cup ToSet(Blockers)
<1>1. Len(Kinds) = 6 /\ DOMAIN Kinds = 1..6 /\ Len(Blockers) = 2 /\ DOMAIN Blockers = 1..2
  BY DEF Kinds, Blockers
<1>2. /\ Kinds[1] = "dirty" /\ Kinds[2] = "docs" /\ Kinds[3] = "diagrams" /\ Kinds[4] = "lifecycle"
      /\ Kinds[5] = "tracked" /\ Kinds[6] = "dead_code"
      /\ Blockers[1] = "rolled_back" /\ Blockers[2] = "open"
  BY DEF Kinds, Blockers
<1>3. \A k : k \in 1..6 => k = 1 \/ k = 2 \/ k = 3 \/ k = 4 \/ k = 5 \/ k = 6
  OBVIOUS
<1>4. ToSet(Kinds) = {"dirty", "docs", "diagrams", "lifecycle", "tracked", "dead_code"}
  <2>1. \A x : x \in ToSet(Kinds) <=> \E k \in 1..6 : x = Kinds[k]
    BY <1>1 DEF ToSet
  <2>2. \A x : x \in ToSet(Kinds) <=>
               x \in {Kinds[1], Kinds[2], Kinds[3], Kinds[4], Kinds[5], Kinds[6]}
    BY <1>3, <2>1
  <2>3. QED
    BY <1>2, <2>2
<1>5. \A k : k \in 1..2 => k = 1 \/ k = 2
  OBVIOUS
<1>6. ToSet(Blockers) = {"rolled_back", "open"}
  <2>1. \A x : x \in ToSet(Blockers) <=> \E k \in 1..2 : x = Blockers[k]
    BY <1>1 DEF ToSet
  <2>2. \A x : x \in ToSet(Blockers) <=> x \in {Blockers[1], Blockers[2]}
    BY <1>5, <2>1
  <2>3. QED
    BY <1>2, <2>2
<1>7. QED
  BY <1>1, <1>4, <1>6 DEF All

LEMMA KindIs == \A i \in 1..6 : Kinds[i] \in ToSet(Kinds)
BY KindsAre DEF ToSet

(* The record of the audit, field by field.                                 *)
LEMMA AuditFields ==
  ASSUME AuditTypeOK
  PROVE  /\ audit \in Audits
         /\ audit.pc \in {"status", "inspecting", "writing", "recording", "telling", "ended"}
         /\ audit.at \in 1..7 /\ audit.checks \in Nat /\ audit.ran \in Nat
         /\ audit.findings \in SUBSET (ToSet(Kinds) \cup {"unavailable", "check_failed", "no_checks"})
         /\ audit.required \in BOOLEAN
         /\ audit.status \in {"none", "error", "ready", "audit_failed"} \cup ToSet(Blockers)
<1>1. Len(Kinds) + 1 = 7
  BY KindsAre
<1>2. QED
  BY <1>1 DEF Audits, AuditTypeOK

(* At first nothing was looked at.                                          *)
LEMMA AuditInitially == AuditInit => AuditTypeOK /\ AuditInvariant
<1> SUFFICES ASSUME AuditInit PROVE AuditTypeOK /\ AuditInvariant
  OBVIOUS
<1>1. PICK checks \in 0..MaxChecks, required \in BOOLEAN :
        audit = [pc |-> "status", at |-> 1, checks |-> checks, ran |-> 0,
                 findings |-> {}, required |-> required, status |-> "none"]
  BY DEF AuditInit
<1>2. checks \in Nat /\ 0 <= checks
  BY AuditConstants
<1>3. AuditTypeOK
  <2>1. recorded \in Seq(BOOLEAN) /\ reports \in Nat
    BY EmptySeq DEF AuditInit
  <2>2. audit \in Audits
    <3>1. Len(Kinds) + 1 = 7
      BY KindsAre
    <3>2. QED
      BY <1>1, <1>2, <3>1 DEF Audits
  <2>3. QED
    BY <2>1, <2>2, KindsAre DEF AuditInit, AuditTypeOK
<1>4. AuditInvariant
  BY <1>1, <1>2, KindsAre DEF AuditInit, AuditInvariant, AbsentIsSeen, InspectedOrAbsent, RecordFollows, HandoffIsEarned, Ok
<1>5. QED
  BY <1>3, <1>4


(* An inspection that finds nothing looked at a project that is free of the *)
(* kind, or failed; a finding of the documents hides the diagrams, and then *)
(* the audit is not ok.                                                     *)
LEMMA InspectedIs ==
  ASSUME AuditTypeOK, NEW kind \in ToSet(Kinds), NEW how \in Ways(kind)
  PROVE  /\ Inspected(kind, how) \in SUBSET (ToSet(Kinds) \cup {"unavailable"})
         /\ Ok /\ Inspected(kind, how) = {} => how # "read" \/ kind \notin project
BY KindsAre DEF AuditTypeOK, Inspected, GitLines, Documents, Diagrams, Lifecycle, Analyzed, Ways, Ok

(* Every step keeps the invariant.                                          *)
LEMMA AuditStep ==
  ASSUME AuditTypeOK, AuditInvariant, [AuditNext]_auditVars
  PROVE  AuditTypeOK' /\ AuditInvariant'
<1> USE DEF AuditInvariant
<1>0. /\ audit \in Audits
      /\ audit.pc \in {"status", "inspecting", "writing", "recording", "telling", "ended"}
      /\ audit.at \in 1..7 /\ audit.checks \in Nat /\ audit.ran \in Nat
      /\ audit.findings \in SUBSET (ToSet(Kinds) \cup {"unavailable", "check_failed", "no_checks"})
      /\ audit.status \in {"none", "error", "ready", "audit_failed"} \cup ToSet(Blockers)
  BY AuditFields
<1>a. Len(Kinds) + 1 = 7 /\ Len(Kinds) = 6
  BY KindsAre
<1>1. CASE Blocked
  <2>1. PICK i \in 1..2 :
          /\ Blockers[i] \in project
          /\ audit' = [audit EXCEPT !.pc = "ended", !.status = Blockers[i]]
          /\ Tell(Blockers[i])
    BY <1>1, KindsAre DEF Blocked
  <2>2. Blockers[i] \in ToSet(Blockers) /\ Blockers[i] # "ready"
    BY KindsAre DEF ToSet
  <2> DEFINE blocker == Blockers[i]
  <2> HIDE DEF blocker
  <2>3. audit'.pc = "ended" /\ audit'.status = blocker /\ audit'.findings = audit.findings
        /\ audit' \in Audits
    BY <1>0, <2>1, <2>2 DEF Audits, blocker
  <2>4. told' \in {told, told \cup {blocker}} /\ blocker \in ToSet(Blockers) /\ blocker # "ready"
    BY <2>1, <2>2 DEF blocker, Tell
  <2>5. AuditTypeOK'
    BY <1>1, <2>3, <2>4 DEF Blocked, AuditTypeOK
  <2>6. recorded = <<>> /\ "ready" \notin told /\ audit.status # "ready"
    BY <1>1 DEF Blocked, RecordFollows
  <2>7. audit'.ran = audit.ran /\ audit'.checks = audit.checks
    BY <2>1 DEF Audits
  <2>8. AuditInvariant'
    BY <1>1, <2>3, <2>4, <2>6, <2>7 DEF Blocked, AbsentIsSeen, InspectedOrAbsent, RecordFollows,
       HandoffIsEarned
  <2>9. QED
    BY <2>5, <2>8
<1>2. CASE Unblocked
  <2>1. /\ audit'.pc = "inspecting" /\ audit'.status = audit.status /\ audit'.findings = audit.findings
        /\ audit'.at = audit.at /\ audit'.ran = audit.ran /\ audit'.checks = audit.checks
        /\ audit' \in Audits
    BY <1>0, <1>2 DEF Unblocked, Audits
  <2>2. ToSet(Blockers) \subseteq absent
    BY <1>2, KindsAre DEF Unblocked, AbsentIsSeen
  <2>3. AuditTypeOK' /\ AbsentIsSeen'
    BY <1>2, <2>1 DEF Unblocked, AuditTypeOK, AbsentIsSeen
  <2>4. InspectedOrAbsent'
    BY <1>0, <1>2, <2>1, <2>2 DEF Unblocked, InspectedOrAbsent, Ok, RecordFollows
  <2>5. RecordFollows' /\ HandoffIsEarned'
    BY <1>2, <2>1 DEF Unblocked, RecordFollows, HandoffIsEarned, Ok
  <2>6. QED
    BY <2>3, <2>4, <2>5
<1>3. CASE Inspect
  <2> DEFINE kind == Kinds[audit.at]
  <2>1. audit.at \in 1..6 /\ kind \in ToSet(Kinds)
    BY <1>0, <1>a, <1>3, KindIs DEF Inspect
  <2>2. PICK how \in Ways(kind) :
          /\ audit' = [audit EXCEPT !.at = @ + 1, !.findings = @ \cup Inspected(kind, how)]
          /\ blind' = IF how = "read" THEN blind ELSE blind \cup {kind}
    BY <1>3 DEF Inspect
  <2>3. /\ Inspected(kind, how) \in SUBSET (ToSet(Kinds) \cup {"unavailable"})
        /\ Ok /\ Inspected(kind, how) = {} => how # "read" \/ kind \notin project
    BY <2>1, InspectedIs
  <2> HIDE DEF kind
  <2>5. audit'.findings = audit.findings \cup Inspected(kind, how) /\ audit'.at = audit.at + 1
        /\ audit'.pc = audit.pc /\ audit'.status = audit.status /\ audit'.ran = audit.ran
        /\ audit'.checks = audit.checks
    BY <1>0, <2>2 DEF Audits
  <2>4. AuditTypeOK'
    <3>1. audit' \in Audits
      <4>1. /\ audit.at + 1 \in 1..(Len(Kinds) + 1)
            /\ audit.findings \cup Inspected(kind, how)
                 \in SUBSET (ToSet(Kinds) \cup {"unavailable", "check_failed", "no_checks"})
        BY <1>0, <1>a, <2>1, <2>3
      <4>2. QED
        BY <1>0, <2>2, <4>1 DEF Audits
    <3>2. QED
      BY <1>3, <2>1, <2>2, <3>1 DEF Inspect, AuditTypeOK
  <2>6. Ok' => Ok /\ kind \in absent \cup blind'
    BY <2>1, <2>2, <2>3, <2>5, KindsAre DEF Ok, AbsentIsSeen
  <2>7. InspectedOrAbsent'
    <3>1. ASSUME Ok', NEW j \in 1..(audit'.at - 1) PROVE Kinds[j] \in absent' \cup blind'
      <4>1. j = audit.at \/ j \in 1..(audit.at - 1)
        BY <2>1, <2>5
      <4>2. CASE j = audit.at
        BY <1>3, <2>6, <3>1, <4>2 DEF kind, Inspect
      <4>3. CASE j \in 1..(audit.at - 1)
        BY <1>3, <2>2, <2>6, <3>1, <4>3 DEF Inspect, InspectedOrAbsent
      <4>4. QED
        BY <4>1, <4>2, <4>3
    <3>2. QED
      BY <1>3, <2>5, <3>1 DEF Inspect, InspectedOrAbsent
  <2>8. AbsentIsSeen' /\ RecordFollows' /\ HandoffIsEarned'
    BY <1>3, <2>5 DEF Inspect, AbsentIsSeen, RecordFollows, HandoffIsEarned
  <2>9. QED
    BY <2>4, <2>7, <2>8
<1>4. CASE RunCheck
  <2>1. PICK failed \in SUBSET {"check_failed"}, litter \in SUBSET {"dirty"} :
          /\ audit' = [audit EXCEPT !.ran = @ + 1, !.findings = @ \cup failed]
          /\ Becomes(project \cup litter)
    BY <1>4 DEF RunCheck
  <2>2. /\ audit'.findings = audit.findings \cup failed /\ audit'.at = audit.at
        /\ audit'.pc = audit.pc /\ audit'.status = audit.status /\ audit'.ran = audit.ran + 1
        /\ audit'.checks = audit.checks
    BY <1>0, <2>1 DEF Audits
  <2>3. AuditTypeOK'
    <3>1. audit' \in Audits
      <4>1. /\ audit.ran + 1 \in Nat
            /\ audit.findings \cup failed
                 \in SUBSET (ToSet(Kinds) \cup {"unavailable", "check_failed", "no_checks"})
        BY <1>0, <2>1
      <4>2. QED
        BY <1>0, <2>1, <4>1 DEF Audits
    <3>2. project' \in SUBSET All /\ absent' \in SUBSET All
      BY <2>1, KindsAre DEF Becomes, AuditTypeOK
    <3>3. QED
      BY <1>4, <3>1, <3>2 DEF RunCheck, AuditTypeOK
  <2>4. AbsentIsSeen' /\ absent \subseteq absent'
    BY <2>1 DEF AbsentIsSeen, Becomes
  <2>5. InspectedOrAbsent'
    BY <1>4, <2>2, <2>4 DEF RunCheck, InspectedOrAbsent, Ok
  <2>6. RecordFollows' /\ HandoffIsEarned'
    BY <1>0, <1>4, <2>2 DEF RunCheck, RecordFollows, HandoffIsEarned
  <2>7. QED
    BY <2>3, <2>4, <2>5, <2>6
<1>5. CASE Report
  <2>1. /\ audit'.at = audit.at /\ audit'.pc = "writing" /\ audit'.status = audit.status
        /\ audit'.ran = audit.ran /\ audit'.checks = audit.checks
        /\ audit'.findings = IF audit.checks = 0 THEN audit.findings \cup {"no_checks"} ELSE audit.findings
    BY <1>0, <1>5 DEF Report, Audits
  <2>2. AuditTypeOK'
    <3>1. audit' \in Audits
      BY <1>0, <1>5 DEF Report, Audits
    <3>2. QED
      BY <1>5, <3>1 DEF Report, AuditTypeOK
  <2>3. (Ok' => Ok) /\ (Ok' => audit.checks > 0)
    BY <1>0, <2>1 DEF Ok
  <2>4. AbsentIsSeen' /\ InspectedOrAbsent'
    BY <1>5, <2>1, <2>3 DEF Report, AbsentIsSeen, InspectedOrAbsent
  <2>5. RecordFollows' /\ HandoffIsEarned'
    BY <1>0, <1>a, <1>5, <2>1, <2>3 DEF Report, RecordFollows, HandoffIsEarned
  <2>6. QED
    BY <2>2, <2>4, <2>5
<1>6. CASE WriteReport
  <2>1. AuditTypeOK'
    <3>1. audit' \in Audits
      BY <1>0, <1>6 DEF WriteReport, Audits
    <3>2. QED
      BY <1>6, <3>1 DEF WriteReport, AuditTypeOK
  <2>2. AuditInvariant'
    BY <1>0, <1>6 DEF WriteReport, Audits, AbsentIsSeen, InspectedOrAbsent, RecordFollows, HandoffIsEarned, Ok
  <2>3. QED
    BY <2>1, <2>2
<1>7. CASE Record
  <2>1. recorded' = <<Ok>> /\ Ok \in BOOLEAN
    BY <1>7 DEF Record, Recorded, RecordFollows, Ok
  <2>2. AuditTypeOK'
    <3>1. audit' \in Audits
      BY <1>0, <1>7 DEF Record, Audits
    <3>2. QED
      BY <1>7, <2>1, <3>1 DEF Record, AuditTypeOK
  <2>3. AuditInvariant'
    BY <1>0, <1>7, <2>1 DEF Record, Audits, AbsentIsSeen, InspectedOrAbsent, RecordFollows, HandoffIsEarned, Ok
  <2>4. QED
    BY <2>2, <2>3
<1>8. CASE RecordFails
  <2>1. AuditTypeOK'
    <3>1. audit' \in Audits
      BY <1>0, <1>8 DEF RecordFails, Audits
    <3>2. QED
      BY <1>8, <3>1 DEF RecordFails, AuditTypeOK
  <2>2. AuditInvariant'
    BY <1>0, <1>8 DEF RecordFails, Audits, AbsentIsSeen, InspectedOrAbsent, RecordFollows, HandoffIsEarned, Ok
  <2>3. QED
    BY <2>1, <2>2
<1>9. CASE Notify
  <2> DEFINE status == IF Ok THEN "ready" ELSE "audit_failed"
  <2>1. audit' = [audit EXCEPT !.pc = "ended", !.status = status] /\ Tell(status)
    BY <1>9 DEF Notify
  <2>2. /\ audit'.at = audit.at /\ audit'.pc = "ended" /\ audit'.status = status
        /\ audit'.ran = audit.ran /\ audit'.checks = audit.checks
        /\ audit'.findings = audit.findings
    BY <1>0, <2>1 DEF Audits
  <2>3. AuditTypeOK'
    <3>1. audit' \in Audits
      BY <1>0, <2>1 DEF Audits
    <3>2. QED
      BY <1>9, <2>1, <3>1 DEF Notify, Tell, AuditTypeOK
  <2>4. AbsentIsSeen' /\ InspectedOrAbsent'
    BY <1>9, <2>2 DEF Notify, AbsentIsSeen, InspectedOrAbsent
  <2>5. RecordFollows'
    BY <1>9, <2>1, <2>2 DEF Notify, Tell, RecordFollows, Ok
  <2>6. ASSUME Ok
        PROVE /\ Len(recorded) = 1 /\ recorded[1] /\ reports = 1
              /\ audit.checks > 0 /\ audit.ran = audit.checks
              /\ absent \cup blind = All
    <3>1. \A i \in 1..6 : Kinds[i] \in absent \cup blind
      BY <1>9, <2>6, KindsAre DEF Notify, InspectedOrAbsent, RecordFollows
    <3>2. ToSet(Kinds) \subseteq absent \cup blind
      BY <3>1, KindsAre DEF ToSet
    <3>3. ToSet(Blockers) \subseteq absent
      BY <1>9 DEF Notify, InspectedOrAbsent
    <3>4. absent \cup blind = All
      BY <3>2, <3>3, KindsAre DEF AuditTypeOK
    <3>5. QED
      <4>1. recorded = <<Ok>> /\ Ok = TRUE
        BY <1>9, <2>6 DEF Notify, RecordFollows, Ok
      <4>2. Len(recorded) = 1 /\ recorded[1]
        BY <4>1
      <4>3. QED
        BY <1>0, <1>9, <2>6, <3>4, <4>2 DEF Notify, RecordFollows
  <2>7. HandoffIsEarned'
    <3>1. "ready" \in told' \/ audit'.status = "ready" => Ok
      BY <1>9, <2>1, <2>2 DEF Notify, Tell, RecordFollows
    <3>2. QED
      BY <1>9, <2>2, <2>6, <3>1 DEF Notify, HandoffIsEarned
  <2>8. QED
    BY <2>3, <2>4, <2>5, <2>7
<1>10. CASE ChangeOutside
  <2>1. PICK k \in All : Becomes((project \ {k}) \cup ({k} \ project))
    BY <1>10 DEF ChangeOutside
  <2>2. AuditTypeOK'
    BY <1>10, <2>1 DEF ChangeOutside, Becomes, AuditTypeOK
  <2>3. AbsentIsSeen' /\ absent \subseteq absent'
    BY <2>1 DEF AbsentIsSeen, Becomes
  <2>4. InspectedOrAbsent' /\ RecordFollows'
    BY <1>10, <2>3 DEF ChangeOutside, InspectedOrAbsent, RecordFollows, Ok
  <2>5. HandoffIsEarned'
    BY <1>10, <2>2, <2>3, KindsAre DEF ChangeOutside, HandoffIsEarned, AuditTypeOK
  <2>6. QED
    BY <2>2, <2>3, <2>4, <2>5
<1>11. CASE UNCHANGED auditVars
  BY <1>11 DEF auditVars, AuditTypeOK, AbsentIsSeen, InspectedOrAbsent, RecordFollows, HandoffIsEarned, Ok
<1>12. QED
  BY <1>1, <1>2, <1>3, <1>4, <1>5, <1>6, <1>7, <1>8, <1>9, <1>10, <1>11 DEF AuditNext

(* run_project_audit: what was inspected and is not among the findings was  *)
(* absent at some time or could not be seen, and what is recorded is the    *)
(* verdict on everything.                                                   *)
THEOREM AuditIsSound == AuditSpec => [](AuditTypeOK /\ AuditInvariant)
<1>1. AuditInit => AuditTypeOK /\ AuditInvariant
  BY AuditInitially
<1>2. AuditTypeOK /\ AuditInvariant /\ [AuditNext]_auditVars => (AuditTypeOK /\ AuditInvariant)'
  BY AuditStep
<1>3. QED
  BY <1>1, <1>2, PTL DEF AuditSpec

(* HandoffIsEarned: a project is announced ready only after such a verdict, *)
(* with a record, with a report, and with checks that all passed.           *)
THEOREM HandoffsAreEarned == AuditSpec => []HandoffIsEarned
<1>1. AuditTypeOK /\ AuditInvariant => HandoffIsEarned
  BY DEF AuditInvariant
<1>2. QED
  BY <1>1, AuditIsSound, PTL

-----------------------------------------------------------------------------
(***************************************************************************)
(* ProjectSettings, for any names, registry and defaults.                  *)
(***************************************************************************)

(* The two models that are called directly.                                 *)
LEMMA DirectIs ==
  /\ DOMAIN Direct = {"supervisor", "critic"}
  /\ Direct.supervisor = Direct["supervisor"] /\ Direct.critic = Direct["critic"]
  /\ Direct.supervisor # Direct.critic
BY DEF Direct

(* What the catalog has of a name, apart from whether it is there now.      *)
Shown(name, role) ==
    IF name = Direct.supervisor
    THEN [source |-> "model", driver |-> IF role = "supervisor" THEN "model_json" ELSE Absent]
    ELSE IF name = Direct.critic
    THEN [source |-> "model", driver |-> IF role = "critic" THEN "model_json" ELSE Absent]
    ELSE IF name \notin Names THEN [source |-> Absent, driver |-> Absent]
    ELSE IF Listed(name) # <<>>
    THEN [source |-> "local", driver |-> LocalDriver(Final(name), role)]
    ELSE IF Config.remote[name] # {}
    THEN [source |-> "remote", driver |-> IF role \in Config.remote[name] THEN "a2a" ELSE Absent]
    ELSE IF name \in Registered THEN [source |-> "registry", driver |-> "acp"]
    ELSE [source |-> Absent, driver |-> Absent]

LEMMA CatalogShows ==
  ASSUME NEW name, NEW role
  PROVE  /\ Catalog(name, role).source = Shown(name, role).source
         /\ Catalog(name, role).driver = Shown(name, role).driver
BY DEF Catalog, Shown, Offer, NoEntry

(* It is a matter of the settings alone.                                    *)
LEMMA ShownStays ==
  ASSUME UNCHANGED settingsFile, NEW name, NEW role
  PROVE  Shown(name, role)' = Shown(name, role)
BY DEF Shown, Listed, Final, Config

Agrees(used, shown, name) ==
    \/ used.source = "own"
    \/ used.source = shown.source /\ (used.driver = shown.driver \/ Ambiguous(name))

(* build_role_catalog and _resolve_agent agree about every name, in every   *)
(* configuration, for whatever the catalog lets a role have, if the command *)
(* finds the agent at all.                                                  *)
LEMMA ShownIsUsed ==
  ASSUME NEW chosen, NEW r \in Roles,
         Shown(chosen[r].agent, r).driver # Absent,
         chosen[r].driver \in {Absent, Shown(chosen[r].agent, r).driver},
         Effective(chosen, r) # Refused
  PROVE  Agrees(Effective(chosen, r), Shown(chosen[r].agent, r), chosen[r].agent)
<1> DEFINE name == chosen[r].agent
           driver == chosen[r].driver
           agent == Resolve(name, r)
<1>1. CASE r \in Config.own
  BY <1>1 DEF Effective, Agrees
<1>2. CASE r \notin Config.own /\ r \in DOMAIN Direct /\ name = Direct[r]
  <2>1. Effective(chosen, r) = [source |-> "model", driver |-> "model_json"]
    BY <1>2 DEF Effective
  <2>2. Shown(name, r) = [source |-> "model", driver |-> "model_json"]
    BY <1>2, DirectIs DEF Shown
  <2>3. QED
    BY <2>1, <2>2 DEF Agrees
<1>3. CASE r \notin Config.own /\ ~(r \in DOMAIN Direct /\ name = Direct[r])
  <2>1. name # Direct.supervisor /\ name # Direct.critic
    BY <1>3, DirectIs DEF Shown, Absent
  <2>2. name \in Names
    BY <2>1 DEF Shown, Absent
  <2>3. Effective(chosen, r) = Driven(agent, r, driver)
    BY <1>3, <2>2 DEF Effective
  <2>4. agent # NoAgent
    BY <2>3 DEF Driven
  <2>5. agent = [source |-> agent.source, driver |-> agent.driver] /\ agent.source = Shown(name, r).source
    BY <2>1, <2>2, <2>4 DEF Resolve, LocalAgent, RemoteAgent, RegistryAgent, NoAgent, Shown
  <2>6. agent.driver = Shown(name, r).driver \/ Ambiguous(name)
    BY <2>1, <2>2, <2>4 DEF Resolve, LocalAgent, RemoteAgent, RegistryAgent, NoAgent, Shown, Ambiguous
  <2>7. CASE driver # Absent
    <3>1. Driven(agent, r, driver) = [agent EXCEPT !.driver = driver]
      BY <2>4, <2>7 DEF Driven
    <3>2. Driven(agent, r, driver).source = agent.source /\ Driven(agent, r, driver).driver = driver
      BY <2>5, <3>1
    <3>3. QED
      BY <2>3, <2>5, <2>7, <3>2 DEF Agrees
  <2>8. CASE driver = Absent
    <3>1. Driven(agent, r, driver) = agent
      BY <2>3, <2>4, <2>8 DEF Driven
    <3>2. QED
      BY <2>3, <2>5, <2>6, <3>1 DEF Agrees
  <2>9. QED
    BY <2>7, <2>8
<1>4. QED
  BY <1>1, <1>2, <1>3

(* While nothing was saved since the check, what it saw is what the catalog *)
(* has of the saved roles, and what is started agrees with it.              *)
AskedIs ==
    asked = [at |-> asked.at, shown |-> asked.shown, kept |-> asked.kept, used |-> asked.used]

CheckStands ==
    asked.at = "checked" /\ asked.kept =>
        \A r \in Needed(profile) :
            LET shown == Shown(profile[r].agent, r) IN
            /\ shown.driver # Absent /\ profile[r].driver \in {Absent, shown.driver}
            /\ asked.shown[r].source = shown.source /\ asked.shown[r].driver = shown.driver

SettingsInvariant == AskedIs /\ CheckStands /\ SettingsAreUsed

(* A save makes the check one of other settings.                            *)
LEMMA EditKeeps ==
  ASSUME AskedIs, Edit
  PROVE  SettingsInvariant'
<1>1. asked' = [at |-> asked.at, shown |-> asked.shown, kept |-> FALSE, used |-> asked.used]
  BY DEF AskedIs, Edit
<1>2. QED
  BY <1>1 DEF SettingsInvariant, AskedIs, CheckStands, SettingsAreUsed

LEMMA CheckRunKeeps ==
  ASSUME CheckRun
  PROVE  SettingsInvariant'
<1>1. /\ asked'.at = "checked" /\ UNCHANGED <<settingsFile, profile>> /\ AskedIs'
      /\ asked'.shown = [r \in Roles |-> Catalog(profile[r].agent, r)]
  BY DEF CheckRun, AskedIs
<1>2. CheckStands'
  <2>1. SUFFICES ASSUME NEW r \in Needed(profile)
                 PROVE  LET shown == Shown(profile[r].agent, r) IN
                        /\ shown.driver # Absent /\ profile[r].driver \in {Absent, shown.driver}
                        /\ asked'.shown[r].source = shown.source /\ asked'.shown[r].driver = shown.driver
    BY <1>1, ShownStays DEF CheckStands, Needed
  <2>2. r \in Roles
    BY DEF Needed
  <2>3. asked'.shown[r] = Catalog(profile[r].agent, r)
    BY <1>1, <2>2
  <2>4. Accepted(profile[r], r)
    BY DEF CheckRun
  <2>5. QED
    BY <2>3, <2>4, CatalogShows DEF Accepted
<1>3. QED
  BY <1>1, <1>2 DEF SettingsInvariant, SettingsAreUsed

LEMMA StartRunKeeps ==
  ASSUME SettingsInvariant, StartRun
  PROVE  SettingsInvariant'
<1>1. CASE \E r \in Needed(profile) : Effective(profile, r) = Refused
  BY <1>1 DEF StartRun, NotAsked, SettingsInvariant, AskedIs, CheckStands, SettingsAreUsed
<1>2. CASE \A r \in Needed(profile) : Effective(profile, r) # Refused
  <2>1. asked' = [asked EXCEPT !.at = "started", !.used = [r \in Roles |-> Effective(profile, r)]]
    BY <1>2 DEF StartRun
  <2>2. asked' = [at |-> "started", shown |-> asked.shown, kept |-> asked.kept,
                  used |-> [r \in Roles |-> Effective(profile, r)]]
    BY <2>1 DEF SettingsInvariant, AskedIs
  <2>3. asked.at = "checked" /\ UNCHANGED <<settingsFile, profile>>
    BY DEF StartRun
  <2>4. ASSUME asked.kept, NEW r \in Needed(profile)
        PROVE  LET used == asked'.used[r]
                   shown == asked'.shown[r]
               IN Agrees(used, shown, profile[r].agent)
    <3>1. r \in Roles
      BY <2>4 DEF Needed
    <3>2. /\ Shown(profile[r].agent, r).driver # Absent
          /\ profile[r].driver \in {Absent, Shown(profile[r].agent, r).driver}
          /\ asked.shown[r].source = Shown(profile[r].agent, r).source
          /\ asked.shown[r].driver = Shown(profile[r].agent, r).driver
      BY <2>3, <2>4 DEF SettingsInvariant, CheckStands
    <3>3. Agrees(Effective(profile, r), Shown(profile[r].agent, r), profile[r].agent)
      BY <1>2, <2>4, <3>1, <3>2, ShownIsUsed
    <3>4. asked'.used[r] = Effective(profile, r) /\ asked'.shown[r] = asked.shown[r]
      BY <2>2, <3>1
    <3>5. QED
      BY <3>2, <3>3, <3>4 DEF Agrees
  <2>5. SettingsAreUsed'
    <3>1. \A name : Ambiguous(name)' = Ambiguous(name)
      BY <2>3 DEF Ambiguous, Listed, First, Final, Config
    <3>2. asked'.kept = asked.kept /\ Needed(profile') = Needed(profile)
      BY <2>2, <2>3
    <3>3. QED
      BY <2>3, <2>4, <3>1, <3>2 DEF SettingsAreUsed, Agrees
  <2>6. AskedIs' /\ CheckStands'
    BY <2>2 DEF AskedIs, CheckStands
  <2>7. QED
    BY <2>5, <2>6 DEF SettingsInvariant
<1>3. QED
  BY <1>1, <1>2

(* A command that comes or goes changes nothing that is saved or shown.     *)
LEMMA NothingSaved ==
  ASSUME SettingsInvariant, UNCHANGED <<settingsFile, profile, asked>>
  PROVE  SettingsInvariant'
<1>1. \A name : Ambiguous(name)' = Ambiguous(name)
  BY DEF Ambiguous, Listed, First, Final, Config
<1>2. SettingsAreUsed'
  BY <1>1 DEF SettingsInvariant, SettingsAreUsed, Needed
<1>3. CheckStands'
  BY ShownStays DEF SettingsInvariant, CheckStands, Needed
<1>4. QED
  BY <1>2, <1>3 DEF SettingsInvariant, AskedIs

(* SettingsAreUsed: the agents a run was checked with are those that play   *)
(* its roles, for any names and settings, if nothing is saved in between.   *)
THEOREM CheckedRolesAreUsed == SettingsSpec => []SettingsAreUsed
<1>1. SettingsInit => SettingsInvariant
  BY DEF SettingsInit, NotAsked, SettingsInvariant, AskedIs, CheckStands, SettingsAreUsed
<1>2. ASSUME SettingsInvariant, [SettingsNext]_settingsVars PROVE SettingsInvariant'
  <2>1. CASE Edit
    BY <1>2, <2>1, EditKeeps DEF SettingsInvariant
  <2>2. CASE CheckRun
    BY <2>2, CheckRunKeeps
  <2>3. CASE StartRun
    BY <1>2, <2>3, StartRunKeeps
  <2>4. CASE EndRun
    BY <2>4 DEF EndRun, NotAsked, SettingsInvariant, AskedIs, CheckStands, SettingsAreUsed
  <2>5. CASE Environment \/ UNCHANGED settingsVars
    BY <1>2, <2>5, NothingSaved DEF Environment, settingsVars
  <2>6. QED
    BY <1>2, <2>1, <2>2, <2>3, <2>4, <2>5 DEF SettingsNext, SaveProcessProfile, RemoveProcessProfile,
       SaveA2AAgent, RemoveA2AAgent, SaveEditableSettings, SaveConfigText, SaveRoles
<1>3. SettingsInvariant => SettingsAreUsed
  BY DEF SettingsInvariant
<1>4. QED
  BY <1>1, <1>2, <1>3, PTL DEF SettingsSpec

-----------------------------------------------------------------------------
(***************************************************************************)
(* DesktopWindow, for any projects and any number of threads.  Only a load *)
(* that is still to come back, or failed, or the operator's own typing     *)
(* lets the field and what is shown differ.                                *)
(***************************************************************************)
JobKinds == {"load", "run", "check", "command", "doctor", "chat", "plan", "team", "agent"}

\* What is asked for only when a project is loaded.
ProjectKinds == {"run", "check", "command", "chat", "plan", "team"}

Snapshots == [root : Projects \cup {NoProject}, ready : BOOLEAN]

JobRecords ==
    [kind : JobKinds, at : {"queued", "running", "done"}, ok : BOOLEAN, found : Snapshots]

WindowTypes ==
    /\ entry \in Projects \cup {NoProject} /\ typed \in BOOLEAN /\ snapshot \in Snapshots
    /\ ready \in [Projects -> BOOLEAN]
    /\ jobs \in Seq(JobRecords)
    /\ launched \subseteq [kind : {"run", "check", "command"}, root : Projects, ready : BOOLEAN]
    /\ unread \in BOOLEAN /\ closed \in BOOLEAN

\* A load that succeeds has a project, and other work the project it was asked
\* for or one that was loaded since.
JobSound(job) ==
    /\ job.kind = "load" /\ job.at # "queued" /\ job.ok => job.found.root \in Projects
    /\ job.kind \in ProjectKinds => Loaded

JobsSound == \A i \in DOMAIN jobs : JobSound(jobs[i])

Loading == \E i \in DOMAIN jobs : jobs[i].kind = "load"

Agreement == unread \/ typed \/ entry = snapshot.root \/ Loading

WindowInvariant ==
    WindowTypes /\ JobsSound /\ Agreement /\ RunsAreServed

LEMMA NewJob == ASSUME NEW kind \in JobKinds
                PROVE  Job(kind) \in JobRecords /\ Job(kind).kind = kind /\ Job(kind).at = "queued"
<1>1. NothingLoaded \in Snapshots
  BY DEF NothingLoaded, Snapshots
<1>2. QED
  BY <1>1 DEF Job, JobRecords

LEMMA WindowFirst == WindowInit => WindowInvariant
<1> SUFFICES ASSUME WindowInit PROVE WindowInvariant
  OBVIOUS
<1>1. Job("load") \in JobRecords /\ Job("load").kind = "load" /\ Job("load").at = "queued"
  BY NewJob DEF JobKinds
<1>2. snapshot \in Snapshots /\ ~Loaded
  BY DEF WindowInit, NothingLoaded, Snapshots, Loaded
<1>3. CASE entry = NoProject
  <2>1. jobs = <<>>
    BY <1>3 DEF WindowInit
  <2>2. jobs \in Seq(JobRecords) /\ DOMAIN jobs = {}
    BY <2>1
  <2>3. JobsSound /\ Agreement
    BY <1>3, <2>2 DEF JobsSound, Agreement, WindowInit, NothingLoaded
  <2>4. QED
    BY <1>2, <2>2, <2>3 DEF WindowInvariant, WindowTypes, WindowInit, RunsAreServed
<1>4. CASE entry # NoProject
  <2>1. jobs = <<Job("load")>> /\ entry \in Projects
    BY <1>4 DEF WindowInit
  <2>2. jobs \in Seq(JobRecords) /\ DOMAIN jobs = {1} /\ jobs[1] = Job("load")
    BY <1>1, <2>1
  <2>3. JobsSound /\ Agreement
    BY <1>1, <2>1, <2>2 DEF JobsSound, JobSound, Agreement, Loading, ProjectKinds
  <2>4. QED
    BY <1>2, <2>1, <2>2, <2>3 DEF WindowInvariant, WindowTypes, WindowInit, RunsAreServed
<1>5. QED
  BY <1>3, <1>4

\* What a job relies on, once true, stays true.
LEMMA StillSound ==
  ASSUME NEW job, JobSound(job), Loaded => Loaded'
  PROVE  JobSound(job)'
BY DEF JobSound

LEMMA Stay ==
  ASSUME NEW js \in Seq(JobRecords), \A k \in DOMAIN js : JobSound(js[k]), jobs' = js,
         Loaded => Loaded'
  PROVE  jobs' \in Seq(JobRecords) /\ JobsSound'
<1>1. ASSUME NEW k \in DOMAIN js, NEW job, job = js[k] PROVE JobSound(job)'
  BY <1>1, StillSound
<1>2. QED
  BY <1>1 DEF JobsSound, JobSound

LEMMA Added ==
  ASSUME NEW js \in Seq(JobRecords), \A k \in DOMAIN js : JobSound(js[k]),
         NEW kind \in JobKinds, jobs' = Append(js, Job(kind)),
         Loaded => Loaded', kind \in ProjectKinds => Loaded'
  PROVE  /\ jobs' \in Seq(JobRecords) /\ JobsSound'
         /\ kind = "load" \/ (\E k \in DOMAIN js : js[k].kind = "load") => Loading'
<1>1. Len(js) \in Nat /\ DOMAIN js = 1..Len(js)
  OBVIOUS
<1>2. Job(kind) \in JobRecords /\ Job(kind).kind = kind /\ Job(kind).at = "queued"
  BY NewJob
<1>3. /\ jobs' \in Seq(JobRecords) /\ DOMAIN jobs' = 1..(Len(js) + 1)
      /\ \A k \in DOMAIN js : k \in DOMAIN jobs' /\ jobs'[k] = js[k]
      /\ Len(js) + 1 \in DOMAIN jobs' /\ jobs'[Len(js) + 1] = Job(kind)
  BY <1>1, <1>2
<1>4. JobSound(Job(kind))'
  BY <1>2 DEF JobSound
<1>5. ASSUME NEW k \in DOMAIN jobs', NEW job, job = jobs'[k] PROVE JobSound(job)'
  <2>1. CASE k \in DOMAIN js
    <3>1. job = js[k] /\ JobSound(job)
      BY <1>3, <1>5, <2>1
    <3>2. QED
      BY <3>1, StillSound
  <2>2. CASE k = Len(js) + 1
    BY <1>3, <1>4, <1>5, <2>2
  <2>3. QED
    BY <1>1, <1>3, <2>1, <2>2
<1>6. JobsSound'
  BY <1>5 DEF JobsSound, JobSound
<1>7. kind = "load" \/ (\E k \in DOMAIN js : js[k].kind = "load") => Loading'
  BY <1>2, <1>3 DEF Loading
<1>8. QED
  BY <1>3, <1>6, <1>7

\* A reload is one more job, or none while the field is empty.
LEMMA Reloads ==
  ASSUME NEW js \in Seq(JobRecords), \A k \in DOMAIN js : JobSound(js[k]),
         jobs' = Reloaded(js), Loaded => Loaded'
  PROVE  /\ jobs' \in Seq(JobRecords) /\ JobsSound'
         /\ (\E k \in DOMAIN js : js[k].kind = "load") => Loading'
<1>1. CASE entry = NoProject
  <2>1. jobs' = js
    BY <1>1 DEF Reloaded
  <2>2. QED
    BY <2>1, Stay DEF Loading
<1>2. CASE entry # NoProject
  <2>1. jobs' = Append(js, Job("load"))
    BY <1>2 DEF Reloaded
  <2>2. QED
    BY <2>1, Added DEF JobKinds, ProjectKinds
<1>3. QED
  BY <1>1, <1>2

\* A click hands one more job to the executor.
LEMMA Submitted ==
  ASSUME WindowInvariant, NEW kind \in JobKinds, Submit(kind),
         Loaded => Loaded', kind \in ProjectKinds => Loaded'
  PROVE  jobs' \in Seq(JobRecords) /\ JobsSound' /\ (Loading \/ kind = "load" => Loading')
<1>1. PICK js : js = jobs
  OBVIOUS
<1>2. js \in Seq(JobRecords) /\ \A k \in DOMAIN js : JobSound(js[k])
  BY <1>1 DEF WindowInvariant, WindowTypes, JobsSound
<1>3. jobs' = Append(js, Job(kind))
  BY <1>1 DEF Submit
<1>4. Loading => \E k \in DOMAIN js : js[k].kind = "load"
  BY <1>1 DEF Loading
<1>5. QED
  BY <1>2, <1>3, <1>4, Added

\* The executor works on a job.
LEMMA JobMoves ==
  ASSUME WindowInvariant, NEW i \in DOMAIN jobs, NEW at \in {"running", "done"}, NEW ok \in BOOLEAN,
         NEW result \in Snapshots, With(i, at, ok, result),
         jobs[i].kind = "load" /\ ok => result.root \in Projects,
         UNCHANGED snapshot
  PROVE  /\ jobs' \in Seq(JobRecords) /\ JobsSound' /\ (Loading => Loading')
         /\ DOMAIN jobs' = DOMAIN jobs /\ jobs'[i].at = at
         /\ \A k \in DOMAIN jobs \ {i} : jobs'[k] = jobs[k]
<1>1. jobs \in Seq(JobRecords) /\ jobs[i] \in JobRecords
  BY DEF WindowInvariant, WindowTypes
<1>2. PICK kind \in JobKinds : kind = jobs[i].kind
  BY <1>1 DEF JobRecords
<1>3. PICK moved : moved = [kind |-> kind, at |-> at, ok |-> ok, found |-> result]
  OBVIOUS
<1>4. moved \in JobRecords
  BY <1>3 DEF JobRecords
<1>5. DOMAIN jobs' = DOMAIN jobs /\ \A k \in DOMAIN jobs \ {i} : jobs'[k] = jobs[k]
  BY <1>1 DEF With
<1>6. jobs'[i] = moved
  BY <1>1, <1>2, <1>3 DEF With, JobRecords
<1>7. jobs' \in Seq(JobRecords)
  <2>1. \A k \in DOMAIN jobs : jobs'[k] \in JobRecords
    BY <1>1, <1>4, <1>5, <1>6
  <2>2. PICK js : js = [jobs EXCEPT ![i].at = at, ![i].ok = ok]
    OBVIOUS
  <2>3. jobs' = [js EXCEPT ![i].found = result] /\ DOMAIN js = DOMAIN jobs
    BY <2>2 DEF With
  <2>4. jobs' = [k \in DOMAIN jobs |-> jobs'[k]]
    BY <2>3
  <2>5. DOMAIN jobs = 1..Len(jobs) /\ Len(jobs) \in Nat
    BY <1>1
  <2>6. QED
    BY <2>1, <2>4, <2>5
<1>8. JobSound(moved)'
  <2>1. JobSound(jobs[i])
    BY DEF WindowInvariant, JobsSound
  <2>2. JobSound(moved)
    BY <1>2, <1>3, <2>1 DEF JobSound
  <2>3. QED
    BY <2>2 DEF JobSound, Loaded
<1>9. ASSUME NEW k \in DOMAIN jobs', NEW job, job = jobs'[k] PROVE JobSound(job)'
  <2>1. CASE k = i
    BY <1>6, <1>8, <1>9, <2>1
  <2>2. CASE k # i
    <3>1. k \in DOMAIN jobs /\ job = jobs[k]
      BY <1>5, <1>9, <2>2
    <3>2. JobSound(job)
      BY <3>1 DEF WindowInvariant, JobsSound
    <3>3. QED
      BY <3>2 DEF JobSound, Loaded
  <2>3. QED
    BY <2>1, <2>2
<1>10. JobsSound'
  BY <1>9 DEF JobsSound, JobSound
<1>11. Loading => Loading'
  BY <1>2, <1>3, <1>5, <1>6 DEF Loading
<1>12. QED
  BY <1>3, <1>5, <1>6, <1>7, <1>10, <1>11

\* A result is shown and its job is gone.
LEMMA DeliveredJobs ==
  ASSUME NEW js \in Seq(JobRecords), NEW i \in DOMAIN js, NEW remaining, remaining = RemoveAt(js, i)
  PROVE  /\ remaining \in Seq(JobRecords)
         /\ \A k \in DOMAIN remaining : \E m \in DOMAIN js : remaining[k] = js[m]
         /\ \A m \in DOMAIN js \ {i} : \E k \in DOMAIN remaining : remaining[k] = js[m]
<1> DEFINE n == Len(js)
<1>1. n \in Nat /\ DOMAIN js = 1..n /\ i \in 1..n
  OBVIOUS
<1>2. /\ SubSeq(js, 1, i - 1) \in Seq(JobRecords) /\ Len(SubSeq(js, 1, i - 1)) = i - 1
      /\ \A k \in 1..(i - 1) : SubSeq(js, 1, i - 1)[k] = js[k]
  BY <1>1
<1>3. /\ SubSeq(js, i + 1, n) \in Seq(JobRecords) /\ Len(SubSeq(js, i + 1, n)) = n - i
      /\ \A k \in 1..(n - i) : SubSeq(js, i + 1, n)[k] = js[i + k]
  BY <1>1
<1>4. PICK before \in Seq(JobRecords), after \in Seq(JobRecords) :
        before = SubSeq(js, 1, i - 1) /\ after = SubSeq(js, i + 1, n)
  BY <1>2, <1>3
<1>5. /\ remaining \in Seq(JobRecords) /\ Len(remaining) = n - 1
      /\ \A k \in 1..(n - 1) : remaining[k] = IF k <= i - 1 THEN js[k] ELSE js[k + 1]
  <2>1. remaining = before \o after
    BY <1>4 DEF RemoveAt
  <2>2. /\ before \o after \in Seq(JobRecords)
        /\ Len(before \o after) = Len(before) + Len(after)
        /\ \A k \in 1..(Len(before) + Len(after)) : (before \o after)[k] =
              IF k <= Len(before) THEN before[k] ELSE after[k - Len(before)]
    BY ConcatProperties, Zenon
  <2>3. Len(before) = i - 1 /\ Len(after) = n - i
    BY <1>2, <1>3, <1>4
  <2>4. Len(before) + Len(after) = n - 1
    BY <1>1, <2>3
  <2>5. ASSUME NEW k \in 1..(n - 1) PROVE remaining[k] = IF k <= i - 1 THEN js[k] ELSE js[k + 1]
    <3>0. remaining[k] = IF k <= i - 1 THEN before[k] ELSE after[k - (i - 1)]
      BY <2>1, <2>2, <2>3, <2>4
    <3>1. CASE k <= i - 1
      BY <1>1, <1>2, <1>4, <3>0, <3>1
    <3>2. CASE ~(k <= i - 1)
      <4>1. k - (i - 1) \in 1..(n - i) /\ i + (k - (i - 1)) = k + 1
        BY <1>1, <3>2
      <4>2. after[k - (i - 1)] = js[k + 1]
        BY <1>3, <1>4, <4>1
      <4>3. QED
        BY <3>0, <3>2, <4>2
    <3>3. QED
      BY <3>1, <3>2
  <2>6. QED
    BY <2>1, <2>2, <2>4, <2>5
<1>6. DOMAIN remaining = 1..(n - 1)
  BY <1>1, <1>5
<1>7. ASSUME NEW k \in DOMAIN remaining PROVE \E m \in DOMAIN js : remaining[k] = js[m]
  <2>1. k \in 1..(n - 1) /\ k \in DOMAIN js /\ k + 1 \in DOMAIN js
    BY <1>1, <1>6, <1>7
  <2>2. QED
    BY <1>5, <2>1
<1>8. ASSUME NEW m \in DOMAIN js \ {i} PROVE \E k \in DOMAIN remaining : remaining[k] = js[m]
  <2>1. CASE m < i
    BY <1>1, <1>5, <1>6, <2>1
  <2>2. CASE m > i
    <3>1. m - 1 \in DOMAIN remaining /\ remaining[m - 1] = js[m]
      BY <1>1, <1>5, <1>6, <2>2
    <3>2. QED
      BY <3>1
  <2>3. QED
    BY <1>1, <2>1, <2>2
<1>9. QED
  BY <1>5, <1>7, <1>8

LEMMA RemainingJobs ==
  ASSUME WindowInvariant, NEW i \in DOMAIN jobs
  PROVE  \E js \in Seq(JobRecords) :
            /\ js = Delivered(i) /\ \A k \in DOMAIN js : JobSound(js[k])
            /\ Loading /\ jobs[i].kind # "load" => \E k \in DOMAIN js : js[k].kind = "load"
<1>1. PICK all \in Seq(JobRecords) : all = jobs
  BY DEF WindowInvariant, WindowTypes
<1>2. PICK js : js = RemoveAt(all, i)
  OBVIOUS
<1>3. /\ js \in Seq(JobRecords)
      /\ \A k \in DOMAIN js : \E m \in DOMAIN all : js[k] = all[m]
      /\ \A m \in DOMAIN all \ {i} : \E k \in DOMAIN js : js[k] = all[m]
  BY <1>1, <1>2, DeliveredJobs
<1>4. \A k \in DOMAIN js : JobSound(js[k])
  BY <1>1, <1>3 DEF WindowInvariant, JobsSound
<1>5. ASSUME Loading, jobs[i].kind # "load" PROVE \E k \in DOMAIN js : js[k].kind = "load"
  <2>1. PICK m \in DOMAIN jobs : jobs[m].kind = "load"
    BY <1>5 DEF Loading
  <2>2. QED
    BY <1>1, <1>3, <1>5, <2>1
<1>6. js = Delivered(i)
  BY <1>1, <1>2 DEF Delivered
<1>7. QED
  BY <1>3, <1>4, <1>5, <1>6

\* A click changes the field or the roles of the loaded project at most.
LEMMA ClickKeeps ==
  ASSUME WindowInvariant,
         OpenProject \/ Type \/ LoadProject \/ RunOperation \/ OtherOperation \/ SendChatMessage \/ CreateChatPlan
           \/ SaveProjectRoles \/ PrepareTeam \/ ManageSelectedAgent \/ Close
  PROVE  WindowInvariant'
<1> USE DEF JobKinds, ProjectKinds
<1>1. CASE OpenProject
  <2>1. entry' \in Projects /\ Submit("load") /\ UNCHANGED <<typed, snapshot, ready, launched, unread, closed>>
    BY <1>1 DEF OpenProject, Click
  <2>2. jobs' \in Seq(JobRecords) /\ JobsSound' /\ Loading'
    BY <2>1, Submitted DEF Loaded
  <2>3. QED
    BY <2>1, <2>2 DEF WindowInvariant, WindowTypes, Agreement, RunsAreServed
<1>2. ASSUME NEW kind \in ProjectKinds, Loaded, Submit(kind),
             UNCHANGED <<entry, typed, snapshot, ready, launched, unread, closed>>
      PROVE  WindowInvariant'
  <2>1. jobs' \in Seq(JobRecords) /\ JobsSound' /\ (Loading => Loading')
    BY <1>2, Submitted DEF Loaded
  <2>2. QED
    BY <1>2, <2>1 DEF WindowInvariant, WindowTypes, Agreement, RunsAreServed, Loaded
<1>3. CASE RunOperation \/ OtherOperation \/ SendChatMessage \/ CreateChatPlan \/ PrepareTeam
  BY <1>2, <1>3 DEF RunOperation, OtherOperation, SendChatMessage, CreateChatPlan, PrepareTeam, Click
<1>8. ASSUME jobs' = Reloaded(jobs), Loaded => Loaded'
      PROVE  jobs' \in Seq(JobRecords) /\ JobsSound' /\ (Loading => Loading')
  <2>1. PICK js \in Seq(JobRecords) : js = jobs
    BY DEF WindowInvariant, WindowTypes
  <2>2. jobs' = Reloaded(js) /\ \A k \in DOMAIN js : JobSound(js[k])
    BY <1>8, <2>1 DEF WindowInvariant, JobsSound
  <2>3. QED
    BY <1>8, <2>1, <2>2, Reloads DEF Loading
<1>9. CASE LoadProject
  <2>1. jobs' = Reloaded(jobs) /\ UNCHANGED <<entry, typed, snapshot, ready, launched, unread, closed>>
    BY <1>9 DEF LoadProject, Click
  <2>2. QED
    BY <1>8, <2>1 DEF WindowInvariant, WindowTypes, Agreement, RunsAreServed, Loaded
<1>10. CASE Type
  <2>1. /\ entry' \in Projects \cup {NoProject} /\ typed' = TRUE
        /\ UNCHANGED <<snapshot, ready, jobs, launched, unread, closed>>
    BY <1>10 DEF Type, Click
  <2>2. JobsSound'
    BY <2>1 DEF WindowInvariant, JobsSound, JobSound, Loaded
  <2>3. QED
    BY <2>1, <2>2 DEF WindowInvariant, WindowTypes, Agreement, RunsAreServed
<1>4. CASE SaveProjectRoles
  <2>1. /\ Loaded /\ jobs' = Reloaded(jobs) /\ UNCHANGED <<entry, typed, snapshot, launched, unread, closed>>
        /\ ready' = [ready EXCEPT ![snapshot.root] = TRUE]
    BY <1>4 DEF SaveProjectRoles, Click
  <2>2. ready' \in [Projects -> BOOLEAN]
    BY <2>1 DEF WindowInvariant, WindowTypes
  <2>3. jobs' \in Seq(JobRecords) /\ JobsSound' /\ (Loading => Loading')
    BY <1>8, <2>1 DEF Loaded
  <2>4. QED
    BY <2>1, <2>2, <2>3 DEF WindowInvariant, WindowTypes, Agreement, RunsAreServed, Loaded
<1>5. CASE ManageSelectedAgent
  <2>1. Submit("agent") /\ UNCHANGED <<entry, typed, snapshot, ready, launched, unread, closed>>
    BY <1>5 DEF ManageSelectedAgent, Click
  <2>2. jobs' \in Seq(JobRecords) /\ JobsSound' /\ (Loading => Loading')
    BY <2>1, Submitted DEF Loaded
  <2>3. QED
    BY <2>1, <2>2 DEF WindowInvariant, WindowTypes, Agreement, RunsAreServed, Loaded
<1>6. CASE Close
  BY <1>6 DEF Close, WindowInvariant, WindowTypes, JobsSound, JobSound, Agreement, Loading, RunsAreServed, Loaded
<1>7. QED
  BY <1>1, <1>3, <1>4, <1>5, <1>6, <1>9, <1>10

\* A thread takes a job or has done it.
LEMMA WorkOfThreads ==
  ASSUME WindowInvariant, NEW i \in DOMAIN jobs,
         StartLoad(i) \/ StartCommand(i) \/ StartWork(i) \/ Finish(i)
  PROVE  WindowInvariant'
<1>1. jobs[i] \in JobRecords /\ JobSound(jobs[i])
  BY DEF WindowInvariant, WindowTypes, JobsSound
<1>2. NothingLoaded \in Snapshots
  BY DEF NothingLoaded, Snapshots
<1>3. ASSUME NEW at \in {"running", "done"}, NEW ok \in BOOLEAN, NEW result \in Snapshots,
             With(i, at, ok, result), jobs[i].kind = "load" /\ ok => result.root \in Projects,
             UNCHANGED <<entry, typed, snapshot, ready, unread, closed>>,
             launched' \subseteq [kind : {"run", "check", "command"}, root : Projects, ready : BOOLEAN],
             RunsAreServed'
      PROVE  WindowInvariant'
  <2>1. jobs' \in Seq(JobRecords) /\ JobsSound' /\ (Loading => Loading')
    BY <1>3, JobMoves
  <2>2. QED
    BY <1>3, <2>1 DEF WindowInvariant, WindowTypes, Agreement, Loaded
<1>4. CASE StartLoad(i)
  <2>1. /\ IF Named = NoProject THEN With(i, "running", FALSE, NothingLoaded)
           ELSE With(i, "running", TRUE, Now(Named))
        /\ UNCHANGED <<entry, typed, snapshot, ready, launched, unread, closed>>
    BY <1>4 DEF StartLoad, unasked
  <2>2. Named \in Projects \cup {NoProject}
    BY WindowConstants DEF Named, WindowInvariant, WindowTypes
  <2>3. CASE Named = NoProject
    BY <1>2, <1>3, <2>1, <2>3 DEF WindowInvariant, WindowTypes, RunsAreServed
  <2>4. CASE Named \in Projects
    <3>1. Now(Named) \in Snapshots /\ Now(Named).root = Named
      BY <2>4 DEF Now, Snapshots, WindowInvariant, WindowTypes
    <3>2. With(i, "running", TRUE, Now(Named))
      BY <2>1, <2>4, WindowConstants
    <3>3. QED
      BY <1>3, <2>1, <2>4, <3>1, <3>2 DEF WindowInvariant, WindowTypes, RunsAreServed
  <2>5. QED
    BY <2>2, <2>3, <2>4
<1>5. CASE StartCommand(i)
  <2> DEFINE p == snapshot.root
             launches == jobs[i].kind # "run" \/ Served(p)
             start == [kind |-> jobs[i].kind, root |-> p, ready |-> ready[p]]
  <2>1. /\ jobs[i].kind \in {"run", "check", "command"} /\ With(i, "running", launches, NothingLoaded)
        /\ launched' = IF launches THEN launched \cup {start} ELSE launched
        /\ UNCHANGED <<entry, typed, snapshot, ready, unread, closed>>
    BY <1>5 DEF StartCommand, unasked, RunKinds
  <2>2. p \in Projects /\ ready[p] \in BOOLEAN
    <3>1. Loaded
      BY <1>1, <2>1 DEF JobSound, ProjectKinds
    <3>2. QED
      BY <3>1 DEF Loaded, WindowInvariant, WindowTypes, Snapshots
  <2>3. PICK ok \in BOOLEAN : ok = launches
    BY <2>2 DEF Served
  <2>4. launches /\ jobs[i].kind = "run" => ready[p]
    BY DEF Served
  <2>5. start \in [kind : {"run", "check", "command"}, root : Projects, ready : BOOLEAN]
    BY <2>1, <2>2
  <2>6. launched' \subseteq [kind : {"run", "check", "command"}, root : Projects, ready : BOOLEAN]
    BY <2>1, <2>5 DEF WindowInvariant, WindowTypes
  <2>7. RunsAreServed'
    <3> SUFFICES ASSUME NEW l \in launched', l.kind = "run" PROVE l.ready
      BY DEF RunsAreServed
    <3>1. CASE l \in launched
      BY <3>1 DEF WindowInvariant, RunsAreServed
    <3>2. CASE l \notin launched
      BY <2>1, <2>4, <3>2
    <3>3. QED
      BY <3>1, <3>2
  <2>8. With(i, "running", ok, NothingLoaded)
    BY <2>1, <2>3
  <2>9. QED
    BY <1>2, <1>3, <2>1, <2>6, <2>7, <2>8
<1>6. CASE StartWork(i)
  <2>1. /\ jobs[i].kind # "load" /\ With(i, "running", TRUE, NothingLoaded)
        /\ UNCHANGED <<entry, typed, snapshot, ready, launched, unread, closed>>
    BY <1>6 DEF StartWork, unasked
  <2>2. QED
    BY <1>2, <1>3, <2>1 DEF WindowInvariant, WindowTypes, RunsAreServed
<1>7. CASE Finish(i)
  <2>1. PICK ok \in {jobs[i].ok, FALSE} : With(i, "done", ok, IF ok THEN jobs[i].found ELSE NothingLoaded)
    BY <1>7 DEF Finish
  <2>2. jobs[i].at = "running" /\ UNCHANGED <<entry, typed, snapshot, ready, launched, unread, closed>>
    BY <1>7 DEF Finish, unasked
  <2>3. PICK result : result = IF ok THEN jobs[i].found ELSE NothingLoaded
    OBVIOUS
  <2>4. ok \in BOOLEAN /\ jobs[i].found \in Snapshots
    BY <1>1, <2>1 DEF JobRecords
  <2>5. result \in Snapshots
    BY <1>2, <2>3, <2>4
  <2>6. jobs[i].kind = "load" /\ ok => result.root \in Projects
    BY <1>1, <2>1, <2>2, <2>3, <2>4 DEF JobSound
  <2>7. QED
    BY <1>3, <2>1, <2>2, <2>3, <2>4, <2>5, <2>6 DEF WindowInvariant, WindowTypes, RunsAreServed
<1>8. QED
  BY <1>4, <1>5, <1>6, <1>7

\* A result is shown.
LEMMA ResultsKeep ==
  ASSUME WindowInvariant, NEW i \in DOMAIN jobs,
         ProjectLoaded(i) \/ ThenReload(i) \/ TeamPrepared(i) \/ ShowResult(i)
  PROVE  WindowInvariant'
<1> USE DEF JobKinds, ProjectKinds
<1>1. jobs[i] \in JobRecords /\ JobSound(jobs[i])
  BY DEF WindowInvariant, WindowTypes, JobsSound
<1>2. PICK js \in Seq(JobRecords) :
         /\ js = Delivered(i) /\ \A k \in DOMAIN js : JobSound(js[k])
         /\ Loading /\ jobs[i].kind # "load" => \E k \in DOMAIN js : js[k].kind = "load"
  BY RemainingJobs
<1>3. CASE ProjectLoaded(i)
  <2>1. /\ jobs[i].kind = "load" /\ jobs[i].ok /\ jobs[i].at = "done" /\ jobs' = Append(js, Job("doctor"))
        /\ snapshot' = jobs[i].found /\ entry' = jobs[i].found.root /\ typed' = FALSE
        /\ UNCHANGED <<ready, launched, unread, closed>>
    BY <1>2, <1>3 DEF ProjectLoaded, Delivers, ShowSnapshot, unasked
  <2>2. jobs[i].found.root \in Projects /\ jobs[i].found \in Snapshots
    BY <1>1, <2>1 DEF JobSound, JobRecords
  <2>3. Loaded' /\ entry' \in Projects
    BY <2>1, <2>2, WindowConstants DEF Loaded
  <2>4. jobs' \in Seq(JobRecords) /\ JobsSound'
    BY <1>2, <2>1, <2>3, Added
  <2>5. QED
    BY <2>1, <2>2, <2>3, <2>4 DEF WindowInvariant, WindowTypes, Agreement, RunsAreServed
<1>4. ASSUME UNCHANGED <<entry, typed, snapshot, launched, closed>>, ready' \in [Projects -> BOOLEAN],
             unread' \in BOOLEAN, jobs[i].kind = "load" \/ unread => unread',
             jobs' = js \/ jobs' = Reloaded(js)
      PROVE  WindowInvariant'
  <2>1. jobs' \in Seq(JobRecords) /\ JobsSound' /\ (Loading /\ jobs[i].kind # "load" => Loading')
    <3>1. CASE jobs' = js
      <4>1. jobs' \in Seq(JobRecords) /\ JobsSound'
        BY <1>2, <1>4, <3>1, Stay DEF Loaded
      <4>2. QED
        BY <1>2, <3>1, <4>1 DEF Loading
    <3>2. CASE jobs' = Reloaded(js)
      <4>1. Loaded => Loaded'
        BY <1>4 DEF Loaded
      <4>2. QED
        BY <1>2, <3>2, <4>1, Reloads
    <3>3. QED
      BY <1>4, <3>1, <3>2
  <2>2. QED
    BY <1>4, <2>1 DEF WindowInvariant, WindowTypes, Agreement, RunsAreServed, Loaded
<1>5. CASE ThenReload(i)
  <2>1. /\ jobs[i].kind # "load" /\ UNCHANGED <<entry, typed, snapshot, ready, launched, unread, closed>>
        /\ jobs' = IF Loaded THEN Reloaded(js) ELSE js
    BY <1>2, <1>5 DEF ThenReload, unasked, RunKinds
  <2>2. QED
    BY <1>4, <2>1 DEF WindowInvariant, WindowTypes
<1>6. CASE TeamPrepared(i)
  <2>1. /\ jobs[i].kind = "team" /\ UNCHANGED <<entry, typed, snapshot, launched, unread, closed>>
        /\ \/ ready' = [ready EXCEPT ![snapshot.root] = TRUE] /\ jobs' = Reloaded(js)
           \/ UNCHANGED ready /\ jobs' = js
    BY <1>2, <1>6 DEF TeamPrepared, unasked
  <2>2. Loaded
    BY <1>1, <2>1 DEF JobSound
  <2>3. ready' \in [Projects -> BOOLEAN]
    BY <2>1 DEF WindowInvariant, WindowTypes
  <2>4. QED
    BY <1>4, <2>1, <2>2, <2>3 DEF WindowInvariant, WindowTypes
<1>7. CASE ShowResult(i)
  <2>1. /\ UNCHANGED <<entry, typed, snapshot, ready, launched, closed>> /\ jobs' = js
        /\ unread' = (unread \/ jobs[i].kind = "load")
    BY <1>2, <1>7 DEF ShowResult, bounds
  <2>2. QED
    BY <1>4, <2>1 DEF WindowInvariant, WindowTypes
<1>8. QED
  BY <1>3, <1>5, <1>6, <1>7

-----------------------------------------------------------------------------
(* gui.py: in every reachable state the jobs of the executor have the        *)
(* project they need, and what is shown is what the field names, or a load   *)
(* is under way or failed, or the operator typed into the field.             *)
THEOREM WindowIsSound == WindowSpec => []WindowInvariant
<1>1. ASSUME WindowInvariant, [WindowNext]_windowVars PROVE WindowInvariant'
  <2>1. CASE Operator
    BY <1>1, <2>1, ClickKeeps DEF Operator
  <2>2. CASE Background
    BY <1>1, <2>2, WorkOfThreads, ResultsKeep DEF Background
  <2>3. CASE ChangeProject
    <3>1. UNCHANGED <<entry, typed, snapshot, jobs, launched, unread, closed>> /\ ready' \in [Projects -> BOOLEAN]
      BY <1>1, <2>3 DEF ChangeProject, WindowInvariant, WindowTypes
    <3>2. QED
      BY <1>1, <3>1 DEF WindowInvariant, WindowTypes, JobsSound, JobSound, Agreement, Loading,
                        RunsAreServed, Loaded
  <2>4. CASE UNCHANGED windowVars
    BY <1>1, <2>4 DEF windowVars, WindowInvariant, WindowTypes, JobsSound, JobSound, Agreement, Loading,
                      RunsAreServed, Loaded
  <2>5. QED
    BY <1>1, <2>1, <2>2, <2>3, <2>4 DEF WindowNext
<1>2. QED
  BY <1>1, WindowFirst, PTL DEF WindowSpec

\* Once the window is closed, the only step of the executor is the end of work.
LEMMA NothingStarts ==
  ASSUME WindowInvariant, WindowNext, closed
  PROVE  \A i \in DOMAIN jobs : jobs'[i].at = "running" => jobs[i].at = "running"
<1>1. CASE Operator
  BY <1>1 DEF Operator, OpenProject, Type, LoadProject, RunOperation, OtherOperation, SendChatMessage, CreateChatPlan,
              SaveProjectRoles, PrepareTeam, ManageSelectedAgent, Close, Click
<1>2. CASE Background
  <2>1. PICK i \in DOMAIN jobs : Finish(i)
    BY <1>2 DEF Background, StartLoad, StartCommand, StartWork, CanStart, ProjectLoaded, ThenReload,
                TeamPrepared, ShowResult, Delivers
  <2>2. PICK ok \in {jobs[i].ok, FALSE} : With(i, "done", ok, IF ok THEN jobs[i].found ELSE NothingLoaded)
    BY <2>1 DEF Finish
  <2>3. PICK result : result = IF ok THEN jobs[i].found ELSE NothingLoaded
    OBVIOUS
  <2>4. jobs[i] \in JobRecords /\ jobs[i].at = "running"
    BY <2>1 DEF Finish, WindowInvariant, WindowTypes
  <2>5. \A k \in DOMAIN jobs \ {i} : jobs'[k] = jobs[k]
    BY <2>2 DEF With
  <2>6. QED
    BY <2>4, <2>5
<1>3. CASE ChangeProject
  BY <1>3 DEF ChangeProject
<1>4. QED
  BY <1>1, <1>2, <1>3 DEF WindowNext

(* Whatever loads, commands and chat turns come back in which order, the     *)
(* window shows the project its field names once they have, unless a load    *)
(* failed or the field was typed into since; it launches a run only where    *)
(* its roles can be served, and starts nothing after it closed.              *)
THEOREM WindowActs == WindowSpec => WindowActsForItsProject
<1>1. WindowInvariant => WindowAgrees /\ RunsAreServed
  BY DEF WindowInvariant, Agreement, Loading, WindowAgrees
<1>2. WindowInvariant /\ [WindowNext]_windowVars
        => [closed => \A i \in DOMAIN jobs : jobs'[i].at = "running" => jobs[i].at = "running"]_windowVars
  BY NothingStarts
<1>3. QED
  BY <1>1, <1>2, WindowIsSound, PTL DEF WindowSpec, WindowActsForItsProject, NothingStartsAfterClose
=============================================================================
