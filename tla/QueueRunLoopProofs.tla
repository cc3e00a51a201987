------------------------- MODULE QueueRunLoopProofs -------------------------
(***************************************************************************)
(* Proofs about QueueRunLoop, for any loops, tasks, dependencies, scopes   *)
(* and configurations: the tasks of a batch have disjoint scopes, and the  *)
(* exit code of the command is honest.                                     *)
(***************************************************************************)
EXTENDS QueueRunLoop, FiniteOrders

-----------------------------------------------------------------------------
(* schedule_batch.                                                          *)

LEMMA InOrderIs ==
  ASSUME NEW S \in SUBSET Tasks
  PROVE  /\ InOrder(S) \in [1..Cardinality(S) -> S]
         /\ \A i, j \in DOMAIN InOrder(S) : i < j => InOrder(S)[i] < InOrder(S)[j]
         /\ InOrder(S) \in Seq(Tasks) /\ Len(InOrder(S)) = Cardinality(S)
<1>1. S \in SUBSET Int /\ IsFiniteSet(S)
  BY LoopConstants, FS_Subset DEF ConstantsOK
<1>2. \E s \in [1..Cardinality(S) -> S] : \A i, j \in DOMAIN s : i < j => s[i] < s[j]
  BY <1>1, Enumeration
<1>3. /\ InOrder(S) \in [1..Cardinality(S) -> S]
      /\ \A i, j \in DOMAIN InOrder(S) : i < j => InOrder(S)[i] < InOrder(S)[j]
  BY <1>2 DEF InOrder
<1>4. Cardinality(S) \in Nat
  BY <1>1, FS_CardinalityType
<1>5. QED
  BY <1>3, <1>4

(* Looking at the ready tasks in turn ends with a selection.                *)
LEMMA SelectionExists ==
  ASSUME NEW R \in SUBSET Tasks, NEW limit
  PROVE  \E S \in SUBSET R : \A t \in R : t \in S <=> Joins(t, S, limit)
<1> DEFINE Below(n) == {t \in R : t < n}
           Fits(S, n) == \A t \in Below(n) : t \in S <=> Joins(t, S, limit)
           Bad == {n \in Nat : ~ \E S \in SUBSET Below(n) : Fits(S, n)}
<1>0. R \subseteq Nat /\ IsFiniteSet(R)
  BY LoopConstants, FS_Subset DEF ConstantsOK
<1>1. Bad = {}
  <2> SUFFICES ASSUME Bad # {} PROVE FALSE
    OBVIOUS
  <2>1. PICK n \in Bad : \A m \in Bad : n <= m
    BY LeastNatural
  <2>2. n # 0
    <3>1. Below(0) = {}
      <4>1. \A t \in R : t \in Nat
        BY <1>0
      <4>2. QED
        BY <4>1
    <3>2. Fits({}, 0)
      BY <3>1
    <3>3. QED
      BY <2>1, <3>1, <3>2
  <2>3. n - 1 \in Nat /\ n - 1 \notin Bad
    <3>1. n \in Nat
      BY <2>1
    <3>2. n - 1 \in Nat /\ ~(n <= n - 1)
      BY <2>2, <3>1
    <3>3. QED
      BY <2>1, <3>2
  <2>4. PICK S \in SUBSET Below(n - 1) : Fits(S, n - 1)
    BY <2>3
  <2> DEFINE T == IF n - 1 \in R /\ Joins(n - 1, S, limit) THEN S \cup {n - 1} ELSE S
  <2>5. \A t \in Below(n) : t \in Below(n - 1) \/ t = n - 1
    BY <1>0, <2>1
  <2>6. T \in SUBSET Below(n)
    BY <1>0, <2>1, <2>3, <2>4
  <2>7. ASSUME NEW t \in Below(n)
        PROVE  {u \in T : u < t} = {u \in S : u < t}
    BY <1>0, <2>1, <2>4
  <2>8. \A t \in Below(n) : Joins(t, T, limit) <=> Joins(t, S, limit)
    BY <2>7 DEF Joins
  <2>9. ASSUME NEW t \in Below(n)
        PROVE  t \in T <=> Joins(t, S, limit)
    <3>1. CASE t = n - 1
      <4>1. t \in R /\ t \notin S
        BY <1>0, <2>3, <2>4, <3>1
      <4>2. QED
        BY <3>1, <4>1
    <3>2. CASE t # n - 1
      BY <2>4, <2>5, <3>2
    <3>3. QED
      BY <3>1, <3>2
  <2>10. Fits(T, n)
    BY <2>8, <2>9
  <2>11. QED
    BY <2>1, <2>6, <2>10
<1>2. PICK n \in Nat : R \subseteq Below(n)
  <2>1. CASE R = {}
    BY <2>1
  <2>2. CASE R # {}
    <3>1. PICK m \in R : \A x \in R : x <= m
      BY <1>0, <2>2, GreatestNumber
    <3>2. m + 1 \in Nat /\ R \subseteq Below(m + 1)
      BY <1>0, <3>1
    <3>3. QED
      BY <3>2
  <2>3. QED
    BY <2>1, <2>2
<1>3. PICK S \in SUBSET Below(n) : Fits(S, n)
  BY <1>1
<1>4. QED
  BY <1>2, <1>3

\* A batch as a command holds it.
Apart(s) == \A i, j \in DOMAIN s : i # j => ~Conflict(s[i], s[j])

LEMMA BatchIs ==
  ASSUME NEW limit \in Nat
  PROVE  /\ ScheduleBatch(limit) \in Seq(Tasks)
         /\ Len(ScheduleBatch(limit)) <= limit
         /\ Apart(ScheduleBatch(limit))
<1> DEFINE S == Selected(limit)
<1>1. Ready \in SUBSET Tasks
  BY DEF Ready
<1>2. /\ S \in SUBSET Ready
      /\ \A t \in Ready : t \in S <=> Joins(t, S, limit)
  BY <1>1, SelectionExists DEF Selected
<1> HIDE DEF S
<1>3. S \subseteq Tasks /\ S \subseteq Nat /\ IsFiniteSet(S) /\ \A t \in S : Joins(t, S, limit)
  BY <1>1, <1>2, LoopConstants, FS_Subset DEF ConstantsOK
<1>4. Cardinality(S) <= limit
  <2>1. CASE S = {}
    BY <2>1, FS_EmptySet
  <2>2. CASE S # {}
    <3>1. PICK m \in S : \A t \in S : t <= m
      BY <1>3, <2>2, GreatestNumber
    <3> DEFINE earlier == {u \in S : u < m}
    <3>2. earlier = S \ {m}
      <4>1. \A u \in S : u < m <=> u # m
        BY <1>3, <3>1
      <4>2. QED
        BY <4>1
    <3>3. Cardinality(earlier) < limit
      BY <1>3, <3>1 DEF Joins
    <3>4. Cardinality(S \ {m}) = Cardinality(S) - 1 /\ Cardinality(S) \in Nat
      BY <1>3, <3>1, FS_RemoveElement, FS_CardinalityType
    <3>5. QED
      BY <3>2, <3>3, <3>4
  <2>3. QED
    BY <2>1, <2>2
<1> DEFINE s == InOrder(S)
<1>5. ScheduleBatch(limit) = s
  BY DEF ScheduleBatch, S
<1>6. /\ s \in [1..Cardinality(S) -> S]
      /\ \A i, j \in DOMAIN s : i < j => s[i] < s[j]
      /\ s \in Seq(Tasks) /\ Len(s) = Cardinality(S)
  BY <1>3, InOrderIs
<1> HIDE DEF s
<1>7. ASSUME NEW i \in DOMAIN s, NEW j \in DOMAIN s, i < j
      PROVE  ~Conflict(s[j], s[i]) /\ ~Conflict(s[i], s[j])
  <2>1. s[i] \in S /\ s[j] \in S /\ s[i] < s[j]
    BY <1>6, <1>7
  <2>2. ~Conflict(s[j], s[i])
    BY <1>3, <2>1 DEF Joins
  <2>3. \A pair \in Overlaps : <<pair[2], pair[1]>> \in Overlaps
    BY LoopConstants DEF ConstantsOK
  <2>4. QED
    BY <2>2, <2>3 DEF Conflict
<1>8. Apart(s)
  <2> SUFFICES ASSUME NEW i \in DOMAIN s, NEW j \in DOMAIN s, i # j
               PROVE  ~Conflict(s[i], s[j])
    BY DEF Apart
  <2>1. DOMAIN s \subseteq Int
    BY <1>6
  <2>2. QED
    BY <1>7, <2>1
<1>9. QED
  BY <1>4, <1>5, <1>6, <1>8

-----------------------------------------------------------------------------
(* The invariant, as one of each loop.                                      *)

Honest(p) ==
  /\ p.exit \in Succeeds => \A t \in Tasks : p.fate[t] \in Good
  /\ p.config.max > 0 => p.completed <= p.config.max

Sound(p) ==
  /\ Honest(p) /\ Apart(p.batch)
  /\ p.pc # "exit" => Accounted(p) /\ InRound(p) /\ InLimits(p)

IInv == TypeOK /\ \A l \in Loops : Sound(loop[l])

LEMMA InvariantIs ==
  IInv <=> TypeOK /\ LoopInvariant
BY DEF IInv, LoopInvariant, Sound, Honest, Apart, ExitIsHonest, BatchApart, Good

\* A step of a loop changes the loop, and leaves it sound.
Moves(l) == \E q \in Local : Become(l, q) /\ Sound(q)

(* Where a command may go with what it holds.                               *)
May(p, pc) ==
  /\ pc \notin {"take", "handoff", "audit"} =>
       ~p.blocked /\ (pc # "integrate" => p.pending = <<>>)
  /\ pc \in {"collect", "work", "integrate"} <=> p.batch # <<>>
  /\ pc \in {"start", "stale", "waiting"} =>
       p.completed = 0 /\ \A t \in Tasks : p.fate[t] = "none"
  /\ pc \in {"handoff", "audit"} => p.pending = <<"empty">>
  /\ pc \in {"one", "batch", "schedule", "claim", "select", "claim_one"} => Room(p) >= 1
  /\ pc \in {"batch", "schedule", "claim"} => ~p.config.required

LEMMA GotoMoves ==
  ASSUME IInv, NEW l \in Loops, NEW p, p = loop[l], p.pc # "exit",
         NEW pc \in Places \ {"exit"}, Goto(l, pc), May(p, pc)
  PROVE  Moves(l)
<1> DEFINE q == [p EXCEPT !.pc = pc]
<1>1. p \in Local /\ Sound(p)
  BY DEF IInv, TypeOK
<1>2. q \in Local
  BY <1>1 DEF Local
<1>3. /\ q.fate = p.fate /\ q.batch = p.batch /\ q.config = p.config /\ q.pending = p.pending
      /\ q.completed = p.completed /\ q.pc = pc /\ q.exit = p.exit /\ q.blocked = p.blocked
  BY <1>1 DEF Local
<1>4. Become(l, q)
  BY DEF Goto
<1> HIDE DEF q
<1>5. Honest(q) /\ Apart(q.batch) /\ Accounted(q)
  BY <1>1, <1>3 DEF Sound, Honest, Accounted
<1>6. InRound(q)
  BY <1>1, <1>3 DEF Sound, InRound, May
<1>7. InLimits(q)
  BY <1>1, <1>3 DEF Sound, InLimits, May, Room
<1>8. QED
  BY <1>2, <1>4, <1>5, <1>6, <1>7 DEF Moves, Sound

LEMMA ExitMoves ==
  ASSUME IInv, NEW l \in Loops, NEW p, p = loop[l], NEW code \in Exits, Exit(l, code),
         code \in Succeeds => \A t \in Tasks : p.fate[t] \in Good
  PROVE  Moves(l)
<1> DEFINE q == [p EXCEPT !.pc = "exit", !.exit = code]
<1>1. p \in Local /\ Sound(p)
  BY DEF IInv, TypeOK
<1>2. q \in Local
  BY <1>1 DEF Local, Places
<1>3. /\ q.fate = p.fate /\ q.batch = p.batch /\ q.config = p.config
      /\ q.completed = p.completed /\ q.pc = "exit" /\ q.exit = code
  BY <1>1 DEF Local
<1>4. Become(l, q)
  BY DEF Exit
<1> HIDE DEF q
<1>5. Sound(q)
  BY <1>1, <1>3 DEF Sound, Honest
<1>6. QED
  BY <1>2, <1>4, <1>5 DEF Moves

LEMMA StartMoves ==
  ASSUME IInv, NEW l \in Loops, Start(l) \/ CheckStale(l) \/ CheckWaiting(l)
  PROVE  Moves(l)
<1> DEFINE p == loop[l]
<1>1. p \in Local /\ Sound(p) /\ p.pc \in {"start", "stale", "waiting"}
  BY DEF IInv, TypeOK, Start, CheckStale, CheckWaiting
<1> HIDE DEF p
<1>2. /\ \A t \in Tasks : p.fate[t] = "none"
      /\ \A pc \in {"stale", "waiting", "take"} : May(p, pc)
  BY <1>1 DEF Sound, InRound, May
<1>3. ASSUME NEW code \in Exits, Exit(l, code)
      PROVE  Moves(l)
  BY <1>2, <1>3, ExitMoves DEF p, Good
<1>4. ASSUME NEW pc \in {"stale", "waiting", "take"}, Goto(l, pc)
      PROVE  Moves(l)
  BY <1>1, <1>2, <1>4, GotoMoves DEF p, Places
<1>5. CASE Start(l) \/ CheckStale(l)
  BY <1>3, <1>4, <1>5 DEF Start, CheckStale, Exits
<1>6. CASE CheckWaiting(l) /\ ~(loop[l].config.required /\ WaitingTasks # {})
  BY <1>4, <1>6 DEF CheckWaiting
<1>7. CASE CheckWaiting(l) /\ WaitingTasks # {}
  <2> DEFINE Shown(s) == /\ \E t \in WaitingTasks : status[t] = s
                         /\ s = "rework_required" => \A t \in WaitingTasks : status[t] # "escalated"
                         /\ s = "review_pending" => \A t \in WaitingTasks : status[t] = s
  <2>1. Shown("escalated") \/ Shown("rework_required") \/ Shown("review_pending")
    BY <1>7 DEF WaitingTasks, Waiting
  <2>2. (CHOOSE s \in Waiting : Shown(s)) \in Exits
    BY <2>1 DEF Waiting, Exits
  <2>3. QED
    BY <1>3, <1>4, <1>7, <2>2 DEF CheckWaiting
<1>8. QED
  BY <1>5, <1>6, <1>7

-----------------------------------------------------------------------------
(* A round, up to the claim.                                                *)

(* What a command that has not claimed reports is all it has in hand.       *)
LEMMA ReportMoves ==
  ASSUME IInv, NEW l \in Loops, NEW p, p = loop[l],
         p.pc \in {"one", "batch", "select", "claim_one"}, NEW kind \in Kinds, Report(l, kind)
  PROVE  Moves(l)
<1> DEFINE q == [p EXCEPT !.pc = "take", !.pending = Append(@, kind)]
<1>1. p \in Local /\ Sound(p)
  BY DEF IInv, TypeOK
<1>2. p.pending = <<>> /\ p.batch = <<>> /\ ~p.blocked /\ Room(p) >= 1
  BY <1>1 DEF Sound, InRound, InLimits
<1>3. Append(p.pending, kind) = <<kind>> /\ <<kind>> \in Seq(Kinds)
  BY <1>2
<1>4. q = [p EXCEPT !.pc = "take", !.pending = <<kind>>]
  BY <1>3
<1>5. q \in Local
  BY <1>1, <1>3, <1>4 DEF Local, Places
<1>6. /\ q.fate = p.fate /\ q.batch = <<>> /\ q.config = p.config /\ q.pending = <<kind>>
      /\ q.completed = p.completed /\ q.pc = "take" /\ q.exit = p.exit /\ q.blocked = p.blocked
  BY <1>1, <1>2, <1>4 DEF Local
<1>7. Become(l, q)
  BY DEF Report
<1>8. /\ p.completed \in Nat /\ p.config.max \in Nat
      /\ Len(q.pending) = 1 /\ Len(q.batch) = 0
  BY <1>1, <1>6 DEF Local, Config
<1> HIDE DEF q
<1>9. Honest(q) /\ Apart(q.batch)
  BY <1>1, <1>2, <1>6 DEF Sound, Honest
<1>10. Accounted(q)
  BY <1>1, <1>2, <1>6 DEF Sound, Accounted
<1>11. InRound(q)
  BY <1>1, <1>2, <1>6, <1>8 DEF Sound, InRound
<1>12. InLimits(q)
  BY <1>1, <1>2, <1>6, <1>8 DEF Sound, InLimits, Room
<1>13. QED
  BY <1>5, <1>7, <1>9, <1>10, <1>11, <1>12 DEF Moves, Sound

LEMMA RoundMoves ==
  ASSUME IInv, NEW l \in Loops,
         Round(l) \/ Startup(l) \/ PlanBatch(l) \/ Collected(l) \/ SelectOne(l)
  PROVE  Moves(l)
<1> DEFINE p == loop[l]
<1>1. /\ p \in Local /\ Sound(p)
      /\ p.pc \in {"take", "one", "batch", "schedule", "collect", "select"}
  BY DEF IInv, TypeOK, Round, Startup, PlanBatch, Collected, SelectOne
<1>2. ASSUME NEW pc \in Places \ {"exit"}, Goto(l, pc), May(p, pc)
      PROVE  Moves(l)
  BY <1>1, <1>2, GotoMoves
<1>3. CASE Round(l)
  <2>0. p.pc = "take" /\ p.pending = <<>> /\ ~LimitReached(l)
    BY <1>3 DEF Round
  <2>1. /\ p.completed \in Nat /\ p.config.max \in Nat /\ p.config.parallelism \in Nat
        /\ p.config.required \in BOOLEAN
    BY <1>1 DEF Local, Config
  <2>2. p.batch = <<>> /\ ~p.blocked /\ InLimits(p)
    BY <1>1, <2>0 DEF Sound, InRound
  <2>3. Room(p) >= 1
    BY <2>0, <2>1 DEF Room, LimitReached
  <2>4. p.config.required => Remaining(l) <= 1
    BY <2>1, <2>3 DEF Remaining, Parallelism, Room
  <2>5. CASE Remaining(l) <= 1
    <3>1. Goto(l, "one") /\ May(p, "one")
      BY <1>3, <2>0, <2>2, <2>3, <2>5 DEF Round, May
    <3>2. QED
      BY <1>2, <3>1 DEF Places
  <2>6. CASE ~(Remaining(l) <= 1)
    <3>1. Goto(l, "batch") /\ May(p, "batch")
      BY <1>3, <2>0, <2>2, <2>3, <2>4, <2>6 DEF Round, May
    <3>2. QED
      BY <1>2, <3>1 DEF Places
  <2>7. QED
    BY <2>5, <2>6
<1>4. CASE Startup(l)
  <2>1. May(p, "select") /\ (p.pc = "batch" => May(p, "schedule"))
    BY <1>1, <1>4 DEF Startup, Sound, InRound, InLimits, May
  <2>2. ASSUME NEW kind \in {"claim_contended", "reconciliation_blocked"}, Report(l, kind)
        PROVE  Moves(l)
    BY <1>4, <2>2, ReportMoves DEF Startup, Kinds, Exceptions
  <2>3. QED
    BY <1>2, <1>4, <2>1, <2>2 DEF Startup, Places
<1>5. CASE PlanBatch(l)
  <2>1. May(p, "one") /\ May(p, "claim")
    BY <1>1, <1>5 DEF PlanBatch, Sound, InRound, InLimits, May
  <2>2. Goto(l, "one") \/ Goto(l, "claim")
    BY <1>5 DEF PlanBatch
  <2>3. QED
    BY <1>2, <2>1, <2>2 DEF Places
<1>6. CASE Collected(l)
  <2>1. May(p, "integrate")
    BY <1>1, <1>6 DEF Collected, Sound, InRound, InLimits, May
  <2>2. QED
    BY <1>2, <1>6, <2>1 DEF Collected, Places
<1>7. CASE SelectOne(l)
  <2>1. May(p, "claim_one")
    BY <1>1, <1>7 DEF SelectOne, Sound, InRound, InLimits, May
  <2>2. ASSUME NEW kind \in {"dependency_blocked", "empty"}, Report(l, kind)
        PROVE  Moves(l)
    BY <1>7, <2>2, ReportMoves DEF SelectOne, Kinds
  <2>3. QED
    BY <1>2, <1>7, <2>1, <2>2 DEF SelectOne, Places
<1>8. QED
  BY <1>3, <1>4, <1>5, <1>6, <1>7

-----------------------------------------------------------------------------
(* The claim and the preparation.                                           *)

(* With nothing in hand, all that was claimed ended well.                   *)
LEMMA NothingInHand ==
  ASSUME NEW p, Accounted(p), p.pending = <<>>, p.batch = <<>>, ~p.blocked
  PROVE  \A t \in Tasks : p.fate[t] \in Good
<1>1. ToSet(p.batch) = {} /\ DOMAIN p.pending = {}
  BY DEF ToSet
<1>2. QED
  BY <1>1 DEF Accounted

(* The limit of a round fits into what the command has left.                *)
LEMMA RemainingIs ==
  ASSUME NEW l \in Loops, loop[l] \in Local, Room(loop[l]) >= 1
  PROVE  /\ Remaining(l) \in Nat
         /\ loop[l].config.max > 0 => Remaining(l) <= Room(loop[l])
<1> DEFINE p == loop[l]
<1>1. /\ p.completed \in Nat /\ p.config.max \in Nat /\ p.config.parallelism \in Nat
  BY DEF Local, Config
<1> HIDE DEF p
<1>2. QED
  BY <1>1 DEF p, Remaining, Parallelism, Room

LEMMA ClaimBatchMoves ==
  ASSUME IInv, NEW l \in Loops, ClaimBatch(l)
  PROVE  Moves(l)
<1> DEFINE p == loop[l]
           batch == ScheduleBatch(Remaining(l))
           fate == [t \in Tasks |-> IF t \in ToSet(batch) THEN "running" ELSE p.fate[t]]
           fresh == [t \in Tasks |-> "none"]
           claimed == [p EXCEPT !.batch = batch, !.fate = fate, !.prepared = fresh]
<1>1. p \in Local /\ Sound(p) /\ p.pc = "claim"
  BY DEF IInv, TypeOK, ClaimBatch
<1>2. /\ p.pending = <<>> /\ p.batch = <<>> /\ ~p.blocked /\ Room(p) >= 1
      /\ ~p.config.required /\ p.exit = "none"
  BY <1>1 DEF Sound, InRound, InLimits
<1>a. \A t \in Tasks : p.fate[t] \in Good
  BY <1>1, <1>2, NothingInHand DEF Sound
<1>3. /\ batch \in Seq(Tasks) /\ Apart(batch) /\ Len(batch) <= Remaining(l)
      /\ Remaining(l) \in Nat /\ (p.config.max > 0 => Remaining(l) <= Room(p))
  BY <1>1, <1>2, RemainingIs, BatchIs
<1>4. fate \in [Tasks -> Statuses \cup {"none"}] /\ fresh \in [Tasks -> Prepared]
  BY <1>1 DEF Local, Statuses, Prepared
<1>5. \/ batch # <<>> /\ Become(l, [claimed EXCEPT !.pc = "collect"])
      \/ Become(l, [claimed EXCEPT !.pc = "exit", !.exit = "raised"])
  BY DEF ClaimBatch
<1>6. p.completed \in Nat /\ p.config.max \in Nat /\ Len(batch) \in Nat
  BY <1>1, <1>3 DEF Local, Config
<1>7. \A t \in Tasks : fate[t] \in Good \/ t \in ToSet(batch)
  BY <1>a
<1> HIDE DEF p, batch, fate, fresh
<1>8. CASE batch # <<>> /\ Become(l, [claimed EXCEPT !.pc = "collect"])
  <2> DEFINE q == [claimed EXCEPT !.pc = "collect"]
  <2>1. q \in Local
    BY <1>1, <1>3, <1>4 DEF Local, Places
  <2>2. /\ q.fate = fate /\ q.batch = batch /\ q.config = p.config /\ q.pending = p.pending
        /\ q.completed = p.completed /\ q.pc = "collect" /\ q.exit = p.exit /\ q.blocked = p.blocked
    BY <1>1 DEF Local
  <2> HIDE DEF q
  <2>3. Honest(q) /\ Apart(q.batch)
    BY <1>1, <1>2, <1>3, <2>2 DEF Sound, Honest, Succeeds
  <2>4. Accounted(q) /\ InRound(q)
    BY <1>2, <1>7, <1>8, <2>2 DEF Accounted, InRound
  <2>5. InLimits(q)
    BY <1>2, <1>3, <1>6, <2>2 DEF InLimits, Room
  <2>6. QED
    BY <1>8, <2>1, <2>3, <2>4, <2>5 DEF Moves, Sound, q
<1>9. CASE Become(l, [claimed EXCEPT !.pc = "exit", !.exit = "raised"])
  <2> DEFINE q == [claimed EXCEPT !.pc = "exit", !.exit = "raised"]
  <2>1. q \in Local
    BY <1>1, <1>3, <1>4 DEF Local, Places, Exits
  <2>2. /\ q.batch = batch /\ q.config = p.config /\ q.completed = p.completed
        /\ q.pc = "exit" /\ q.exit = "raised"
    BY <1>1 DEF Local
  <2> HIDE DEF q
  <2>3. Sound(q)
    BY <1>1, <1>3, <2>2 DEF Sound, Honest, Succeeds
  <2>4. QED
    BY <1>9, <2>1, <2>3 DEF Moves, q
<1>10. QED
  BY <1>5, <1>8, <1>9 DEF p, batch, fate, fresh

LEMMA ClaimOneMoves ==
  ASSUME IInv, NEW l \in Loops, ClaimOne(l)
  PROVE  Moves(l)
<1> DEFINE p == loop[l]
           t == Head(ReadyTasks)
           q == [p EXCEPT !.pc = "work", !.batch = <<t>>, !.fate[t] = "running",
                          !.prepared[t] = "none"]
<1>1. p \in Local /\ Sound(p) /\ p.pc = "claim_one"
  BY DEF IInv, TypeOK, ClaimOne
<1>2. ASSUME NEW kind \in {"empty", "escalation"}, Report(l, kind)
      PROVE  Moves(l)
  BY <1>1, <1>2, ReportMoves DEF Kinds, Exceptions
<1>3. ASSUME ReadyTasks # <<>>, Become(l, q)
      PROVE  Moves(l)
  <2>1. ReadyTasks \in Seq(Tasks)
    BY InOrderIs DEF ReadyTasks, Ready
  <2>2. t \in Tasks
    BY <1>3, <2>1
  <2>3. /\ p.pending = <<>> /\ p.batch = <<>> /\ ~p.blocked /\ Room(p) >= 1 /\ p.exit = "none"
    BY <1>1 DEF Sound, InRound, InLimits
  <2>a. \A u \in Tasks : p.fate[u] \in Good
    BY <1>1, <2>3, NothingInHand DEF Sound
  <2>4. p.completed \in Nat /\ p.config.max \in Nat
    BY <1>1 DEF Local, Config
  <2> HIDE DEF p, t
  <2>5. <<t>> \in Seq(Tasks) /\ Apart(<<t>>) /\ t \in ToSet(<<t>>) /\ Len(<<t>>) = 1
    BY <2>2 DEF Apart, ToSet
  <2>6. q \in Local
    BY <1>1, <2>2, <2>5 DEF Local, Places, Statuses, Prepared
  <2>7. /\ q.batch = <<t>> /\ q.config = p.config /\ q.pending = p.pending
        /\ q.completed = p.completed /\ q.pc = "work" /\ q.exit = p.exit /\ q.blocked = p.blocked
        /\ \A u \in Tasks : u # t => q.fate[u] = p.fate[u]
    BY <1>1, <2>2 DEF Local
  <2> HIDE DEF q
  <2>8. Honest(q) /\ Apart(q.batch)
    BY <1>1, <2>3, <2>5, <2>7 DEF Sound, Honest, Succeeds
  <2>9. Accounted(q) /\ InRound(q)
    BY <2>3, <2>a, <2>5, <2>7 DEF Accounted, InRound
  <2>10. InLimits(q)
    BY <2>3, <2>4, <2>5, <2>7 DEF InLimits, Room
  <2>11. QED
    BY <1>3, <2>6, <2>8, <2>9, <2>10 DEF Moves, Sound, p, t
<1>4. QED
  BY <1>2, <1>3 DEF ClaimOne

LEMMA PrepareMoves ==
  ASSUME IInv, NEW l \in Loops, WorkOne(l) \/ \E t \in Tasks : Prepare(l, t)
  PROVE  Moves(l)
<1> DEFINE p == loop[l]
<1>1. p \in Local /\ Sound(p) /\ p.pc \in {"collect", "work"}
  BY DEF IInv, TypeOK, WorkOne, Prepare
<1>2. p.batch # <<>> /\ p.batch \in Seq(Tasks)
  BY <1>1 DEF Sound, InRound, Local
<1>3. Head(p.batch) \in Tasks
  BY <1>2
<1>4. PICK t \in Tasks, result \in Prepared, pc \in {"collect", "integrate"} :
        Become(l, [p EXCEPT !.pc = pc, !.prepared[t] = result])
  <2>1. CASE WorkOne(l)
    BY <1>3, <2>1 DEF WorkOne, Prepared
  <2>2. ASSUME NEW t \in Tasks, Prepare(l, t)
        PROVE  \E result \in Prepared : Become(l, [p EXCEPT !.pc = "collect", !.prepared[t] = result])
    <3>1. PICK result \in Prepared : Become(l, [p EXCEPT !.prepared[t] = result])
      BY <2>2 DEF Prepare, Prepared
    <3>2. [p EXCEPT !.prepared[t] = result] = [p EXCEPT !.pc = "collect", !.prepared[t] = result]
      BY <1>1, <2>2 DEF Prepare, Local
    <3>3. QED
      BY <3>1, <3>2
  <2>3. QED
    BY <2>1, <2>2
<1> DEFINE q == [p EXCEPT !.pc = pc, !.prepared[t] = result]
<1> HIDE DEF p
<1>5. q \in Local
  BY <1>1 DEF Local, Places
<1>6. /\ q.fate = p.fate /\ q.batch = p.batch /\ q.config = p.config /\ q.pending = p.pending
      /\ q.completed = p.completed /\ q.pc = pc /\ q.exit = p.exit /\ q.blocked = p.blocked
  BY <1>1 DEF Local
<1> HIDE DEF q
<1>7. Honest(q) /\ Apart(q.batch) /\ Accounted(q) /\ InLimits(q)
  BY <1>1, <1>6 DEF Sound, Honest, Accounted, InLimits
<1>8. InRound(q)
  BY <1>1, <1>2, <1>6 DEF Sound, InRound
<1>9. QED
  BY <1>4, <1>5, <1>7, <1>8 DEF Moves, Sound, q

-----------------------------------------------------------------------------
(* The integration.                                                         *)

LEMMA ReportTaskMoves ==
  ASSUME IInv, NEW l \in Loops, NEW p, p = loop[l], p.pc = "integrate",
         NEW kind \in Kinds, NEW fate \in Statuses, ReportTask(l, kind, fate),
         Ends(kind) \/ fate \in Good, kind \in OfOneTask => p.config.required
  PROVE  Moves(l)
<1> DEFINE t == Head(p.batch)
           rest == Tail(p.batch)
           pending == Append(p.pending, kind)
           pc == IF rest = <<>> THEN "take" ELSE "integrate"
           q == [p EXCEPT !.pending = pending, !.fate[t] = fate, !.batch = rest, !.pc = pc]
<1>1. p \in Local /\ Sound(p)
  BY DEF IInv, TypeOK
<1>2. /\ p.batch \in Seq(Tasks) /\ p.pending \in Seq(Kinds) /\ p.batch # <<>>
      /\ ~p.blocked /\ p.exit = "none"
  BY <1>1 DEF Sound, InRound, Local
<1>3. /\ t \in Tasks /\ rest \in Seq(Tasks) /\ pending \in Seq(Kinds)
      /\ Len(pending) = Len(p.pending) + 1 /\ Len(rest) = Len(p.batch) - 1
      /\ Len(p.pending) \in Nat /\ Len(p.batch) \in Nat /\ Len(p.batch) >= 1
      /\ pending[Len(pending)] = kind /\ Len(pending) \in DOMAIN pending
      /\ \A i \in DOMAIN p.pending : i \in DOMAIN pending /\ pending[i] = p.pending[i]
      /\ \A i \in DOMAIN pending : i \in DOMAIN p.pending \/ i = Len(pending)
  BY <1>2
<1>b. PICK a \in Nat, b \in Nat :
        /\ a = Len(p.pending) /\ b = Len(p.batch) /\ b >= 1
        /\ Len(pending) = a + 1 /\ Len(rest) = b - 1
  BY <1>3
<1>4. \A i, j \in DOMAIN rest : i # j => ~Conflict(rest[i], rest[j])
  <2> SUFFICES ASSUME NEW i \in DOMAIN rest, NEW j \in DOMAIN rest, i # j
               PROVE  ~Conflict(rest[i], rest[j])
    OBVIOUS
  <2>1. /\ i + 1 \in DOMAIN p.batch /\ rest[i] = p.batch[i + 1]
        /\ j + 1 \in DOMAIN p.batch /\ rest[j] = p.batch[j + 1] /\ i + 1 # j + 1
    BY <1>2
  <2>2. QED
    BY <1>1, <2>1 DEF Sound, Apart
<1>5. \A u \in ToSet(p.batch) : u = t \/ u \in ToSet(rest)
  <2> SUFFICES ASSUME NEW i \in DOMAIN p.batch
               PROVE  p.batch[i] = t \/ \E j \in DOMAIN rest : p.batch[i] = rest[j]
    BY DEF ToSet
  <2>1. CASE i = 1
    BY <1>2, <2>1
  <2>2. CASE i # 1
    <3>0. i \in 1..Len(p.batch) /\ Len(p.batch) \in Nat /\ DOMAIN rest = 1..(Len(p.batch) - 1)
      BY <1>2
    <3>1. i - 1 \in DOMAIN rest /\ rest[i - 1] = p.batch[i]
      BY <1>2, <2>2, <3>0
    <3>2. QED
      BY <3>1
  <2>3. QED
    BY <2>1, <2>2
<1>6. Become(l, q)
  BY DEF ReportTask
<1> HIDE DEF t, rest, pending
<1>c. b = 1 => rest = <<>>
  <2>1. b = 1 => Len(rest) = 0
    BY <1>b
  <2>2. rest \in Seq(Tasks)
    BY <1>3
  <2>3. QED
    BY <2>1, <2>2
<1>7. q \in Local
  BY <1>1, <1>3 DEF Local, Places
<1>8. /\ q.batch = rest /\ q.config = p.config /\ q.pending = pending
      /\ q.completed = p.completed /\ q.pc = pc /\ q.exit = p.exit /\ q.blocked = p.blocked
      /\ q.fate[t] = fate /\ \A u \in Tasks : u # t => q.fate[u] = p.fate[u]
  BY <1>1, <1>3 DEF Local
<1> HIDE DEF q
<1>9. Honest(q) /\ Apart(q.batch)
  BY <1>1, <1>2, <1>4, <1>8 DEF Sound, Honest, Succeeds, Apart
<1>10. Accounted(q)
  <2> SUFFICES ASSUME NEW u \in Tasks
               PROVE  \/ q.fate[u] \in Good \/ u \in ToSet(q.batch)
                      \/ \E i \in DOMAIN q.pending : Ends(q.pending[i])
    BY DEF Accounted
  <2>1. CASE u = t
    BY <1>3, <1>8, <2>1
  <2>2. CASE u # t
    <3>1. \/ p.fate[u] \in Good \/ u \in ToSet(p.batch)
          \/ \E i \in DOMAIN p.pending : Ends(p.pending[i])
      BY <1>1, <1>2 DEF Sound, Accounted
    <3>2. QED
      BY <1>3, <1>5, <1>8, <2>2, <3>1
  <2>3. QED
    BY <2>1, <2>2
<1>11. p.config.required => a + b <= 1
  BY <1>1, <1>b DEF Sound, InLimits
<1>12. \A i \in DOMAIN pending :
         pending[i] \in OfOneTask => Len(pending) = 1 /\ rest = <<>>
  <2> SUFFICES ASSUME NEW i \in DOMAIN pending, pending[i] \in OfOneTask
               PROVE  Len(pending) = 1 /\ rest = <<>>
    OBVIOUS
  <2>1. \A j \in DOMAIN p.pending : p.pending[j] \notin OfOneTask
    BY <1>1, <1>2 DEF Sound, InRound
  <2>2. kind \in OfOneTask
    BY <1>3, <2>1
  <2>3. a + b <= 1
    BY <1>11, <2>2
  <2>6. b >= 1
    BY <1>b
  <2>5. a = 0 /\ b = 1
    BY <2>3, <2>6
  <2>4. QED
    BY <1>b, <1>c, <2>5
<1>13. InRound(q)
  BY <1>1, <1>2, <1>8, <1>12 DEF Sound, InRound
<1>14. InLimits(q)
  <2>1. p.config.max > 0 => p.completed + a + b <= p.config.max
    BY <1>1, <1>b DEF Sound, InLimits
  <2>2. p.completed \in Nat /\ p.config.max \in Nat
    BY <1>1 DEF Local, Config
  <2>3. p.config.max > 0 => p.completed + (a + 1) + (b - 1) <= p.config.max
    BY <2>1, <2>2
  <2>7. (a + 1) + (b - 1) = a + b
    OBVIOUS
  <2>4. p.config.required => (a + 1) + (b - 1) <= 1
    BY <1>11, <2>7
  <2>6. /\ p.config.max > 0 => p.completed + Len(pending) + Len(rest) <= p.config.max
        /\ p.config.required => Len(pending) + Len(rest) <= 1
    BY <1>b, <2>3, <2>4
  <2>5. QED
    BY <1>8, <2>6 DEF InLimits
<1>15. QED
  BY <1>6, <1>7, <1>9, <1>10, <1>13, <1>14 DEF Moves, Sound

LEMMA RaiseOfMoves ==
  ASSUME IInv, NEW l \in Loops, NEW p, p = loop[l], p.pc = "integrate",
         NEW fate \in Statuses, RaiseOf(l, fate)
  PROVE  Moves(l)
<1> DEFINE t == Head(p.batch)
           q == [p EXCEPT !.pc = "exit", !.exit = "raised", !.fate[t] = fate]
<1>1. p \in Local /\ Sound(p)
  BY DEF IInv, TypeOK
<1>2. t \in Tasks
  <2>1. p.batch # <<>> /\ p.batch \in Seq(Tasks)
    BY <1>1 DEF Sound, InRound, Local
  <2>2. QED
    BY <2>1
<1>3. Become(l, q)
  BY DEF RaiseOf
<1> HIDE DEF t
<1>4. q \in Local
  BY <1>1, <1>2 DEF Local, Places, Exits
<1>5. /\ q.batch = p.batch /\ q.config = p.config /\ q.completed = p.completed
      /\ q.pc = "exit" /\ q.exit = "raised"
  BY <1>1 DEF Local
<1> HIDE DEF q
<1>6. Sound(q)
  BY <1>1, <1>5 DEF Sound, Honest, Succeeds
<1>7. QED
  BY <1>3, <1>4, <1>6 DEF Moves

LEMMA IntegrateMoves ==
  ASSUME IInv, NEW l \in Loops, Integrate(l)
  PROVE  Moves(l)
<1> DEFINE p == loop[l]
<1>1. PICK t \in Tasks : \/ FailedToPrepare(l, t) \/ Contended(l, t) \/ Raised(l, t)
                         \/ Rejected(l, t) \/ Accepted(l, t)
  BY DEF Integrate
<1>2. p.pc = "integrate"
  BY <1>1 DEF FailedToPrepare, Contended, Raised, Rejected, Accepted, AtHead
<1>3. ASSUME NEW kind \in Kinds, NEW fate \in Statuses, ReportTask(l, kind, fate),
             Ends(kind) \/ fate \in Good, kind \in OfOneTask => p.config.required
      PROVE  Moves(l)
  BY <1>2, <1>3, ReportTaskMoves
<1>4. ASSUME NEW fate \in Statuses, RaiseOf(l, fate)
      PROVE  Moves(l)
  BY <1>2, <1>4, RaiseOfMoves
<1>5. ASSUME NEW kind \in {"failed", "claim_contended", "reconciliation_blocked", "rejected",
                           "setup_failed"},
             NEW fate \in Statuses, ReportTask(l, kind, fate)
      PROVE  Moves(l)
  BY <1>3, <1>5 DEF Kinds, Exceptions, Decisions, Ends, IsBlocker, OfOneTask
<1> HIDE DEF p
<1>6. CASE FailedToPrepare(l, t) \/ Contended(l, t) \/ Raised(l, t) \/ Rejected(l, t)
  BY <1>4, <1>5, <1>6 DEF FailedToPrepare, Contended, Raised, Rejected, Statuses
<1>7. CASE Accepted(l, t)
  <2>1. CASE RaiseOf(l, "running")
    BY <1>4, <2>1 DEF Statuses
  <2>2. ASSUME ~p.config.required, ReportTask(l, "done", "done")
        PROVE  Moves(l)
    BY <1>3, <2>2 DEF Kinds, Statuses, Good, OfOneTask, Decisions
  <2>3. ASSUME ReportTask(l, "setup_failed", "failed") \/ ReportTask(l, "setup_failed", "review_pending")
        PROVE  Moves(l)
    BY <1>5, <2>3 DEF Statuses, Waiting
  <2>4. ASSUME p.config.required,
               \/ ReportTask(l, "critic_done", "done")
               \/ ReportTask(l, "rework_required", "rework_required")
               \/ ReportTask(l, "escalated", "escalated")
               \/ ReportTask(l, "review_pending", "review_pending")
        PROVE  Moves(l)
    BY <1>3, <2>4 DEF Kinds, Decisions, Statuses, Waiting, Good, Ends
  <2>5. QED
    BY <1>7, <2>1, <2>2, <2>3, <2>4 DEF Accepted, p
<1>8. QED
  BY <1>1, <1>6, <1>7

-----------------------------------------------------------------------------
(* The outcomes of a round are taken.                                       *)

\* The command after it took the first outcome.
Taken(p, done, blocked, pc, code) ==
  [p EXCEPT !.pending = Tail(@), !.completed = @ + done, !.blocked = blocked,
            !.pc = pc, !.exit = code]

LEMMA TakenFields ==
  ASSUME NEW p \in Local, p.pending # <<>>, NEW done \in {0, 1}, NEW blocked \in BOOLEAN,
         NEW pc \in Places, NEW code \in Exits,
         NEW q, q = Taken(p, done, blocked, pc, code)
  PROVE  /\ q \in Local
         /\ q.batch = p.batch /\ q.config = p.config /\ q.fate = p.fate
         /\ q.pending = Tail(p.pending) /\ q.completed = p.completed + done
         /\ q.pc = pc /\ q.exit = code /\ q.blocked = blocked
<1>1. /\ p.pending \in Seq(Kinds) /\ p.completed \in Nat
  BY DEF Local
<1> DEFINE rest == Tail(p.pending)
           completed == p.completed + done
<1>2. rest \in Seq(Kinds) /\ completed \in Nat
  BY <1>1
<1> HIDE DEF rest, completed
<1>3. q = [p EXCEPT !.pending = rest, !.completed = completed, !.blocked = blocked,
                    !.pc = pc, !.exit = code]
  BY DEF Taken, rest, completed
<1>4. q \in Local
  BY <1>2, <1>3 DEF Local
<1>5. /\ q.batch = p.batch /\ q.config = p.config /\ q.fate = p.fate
      /\ q.pending = rest /\ q.completed = completed
      /\ q.pc = pc /\ q.exit = code /\ q.blocked = blocked
  BY <1>3 DEF Local
<1>6. QED
  BY <1>4, <1>5 DEF rest, completed

LEMMA TakeIs ==
  ASSUME NEW p \in Local, Sound(p), p.pc = "take", p.pending # <<>>
  PROVE  /\ p.batch = <<>> /\ p.exit = "none"
         /\ p.completed \in Nat /\ p.config.max \in Nat
         /\ p.config.max > 0 => p.completed + Len(p.pending) <= p.config.max
         /\ Head(p.pending) \in Kinds
         /\ p.pending \in Seq(Kinds) /\ Len(p.pending) \in Nat /\ Len(p.pending) >= 1
         /\ Head(p.pending) \in OfOneTask =>
              p.pending = <<Head(p.pending)>> /\ Tail(p.pending) = <<>> /\ ~p.blocked
<1>1. /\ p.pending \in Seq(Kinds) /\ p.completed \in Nat /\ p.config.max \in Nat
  BY DEF Local, Config
<1>2. p.batch = <<>> /\ p.exit = "none"
  BY DEF Sound, InRound
<1>3. Len(p.batch) = 0
  BY <1>2
<1>4. /\ Len(p.pending) \in Nat /\ Len(p.pending) >= 1
      /\ Head(p.pending) = p.pending[1] /\ Head(p.pending) \in Kinds /\ 1 \in DOMAIN p.pending
  BY <1>1
<1>5. p.config.max > 0 => p.completed + Len(p.pending) + Len(p.batch) <= p.config.max
  BY DEF Sound, InLimits
<1>6. p.completed + Len(p.pending) + Len(p.batch) = p.completed + Len(p.pending)
  BY <1>1, <1>3, <1>4
<1>7. ASSUME Head(p.pending) \in OfOneTask
      PROVE  p.pending = <<Head(p.pending)>> /\ Tail(p.pending) = <<>> /\ ~p.blocked
  <2>1. Len(p.pending) = 1 /\ ~p.blocked
    BY <1>4, <1>7 DEF Sound, InRound
  <2>2. p.pending = <<Head(p.pending)>>
    BY <1>1, <1>4, <2>1
  <2>a. Tail(p.pending) \in Seq(Kinds) /\ Len(Tail(p.pending)) = 0
    BY <1>1, <1>4, <2>1
  <2>3. PICK rest \in Seq(Kinds) : rest = Tail(p.pending) /\ Len(rest) = 0
    BY <2>a
  <2>4. rest = <<>>
    BY <2>3
  <2>5. QED
    BY <2>1, <2>2, <2>3, <2>4
<1>8. QED
  BY <1>1, <1>2, <1>4, <1>5, <1>6, <1>7

(* The round goes on: what was taken did not end the command, or the end is *)
(* noted and more is to be taken.                                           *)
LEMMA TakenMoves ==
  ASSUME IInv, NEW l \in Loops, NEW p, p = loop[l], p.pc = "take", p.pending # <<>>,
         NEW done \in {0, 1}, NEW blocked \in BOOLEAN,
         Become(l, Taken(p, done, blocked, "take", "none")),
         blocked => Tail(p.pending) # <<>>,
         p.blocked \/ Ends(Head(p.pending)) => blocked
  PROVE  Moves(l)
<1>1. p \in Local /\ Sound(p)
  BY DEF IInv, TypeOK
<1>2. PICK q : q = Taken(p, done, blocked, "take", "none")
  OBVIOUS
<1> DEFINE rest == Tail(p.pending)
<1>3. /\ q \in Local
      /\ q.batch = p.batch /\ q.config = p.config /\ q.fate = p.fate
      /\ q.pending = rest /\ q.completed = p.completed + done
      /\ q.pc = "take" /\ q.exit = "none" /\ q.blocked = blocked
  BY <1>1, <1>2, TakenFields DEF Places, Exits
<1>4. /\ p.batch = <<>> /\ p.pending \in Seq(Kinds)
      /\ p.completed \in Nat /\ p.config.max \in Nat
      /\ p.config.max > 0 => p.completed + Len(p.pending) <= p.config.max
      /\ Len(p.pending) \in Nat /\ Len(p.pending) >= 1
  BY <1>1, TakeIs
<1>5. \A i \in DOMAIN p.pending : p.pending[i] = Head(p.pending) \/
                                  \E j \in DOMAIN rest : p.pending[i] = rest[j]
  <2> SUFFICES ASSUME NEW i \in DOMAIN p.pending
               PROVE  p.pending[i] = Head(p.pending) \/
                      \E j \in DOMAIN rest : p.pending[i] = rest[j]
    OBVIOUS
  <2>1. CASE i = 1
    BY <1>4, <2>1
  <2>2. CASE i # 1
    <3>0. i \in 1..Len(p.pending) /\ Len(p.pending) \in Nat /\ DOMAIN rest = 1..(Len(p.pending) - 1)
      BY <1>4
    <3>1. i - 1 \in DOMAIN rest /\ rest[i - 1] = p.pending[i]
      BY <1>4, <2>2, <3>0
    <3>2. QED
      BY <3>1
  <2>3. QED
    BY <2>1, <2>2
<1>6. \A j \in DOMAIN rest : /\ Len(p.pending) # 1 /\ rest[j] = p.pending[j + 1]
                             /\ j + 1 \in DOMAIN p.pending
  BY <1>4
<1>7. Len(rest) = Len(p.pending) - 1 /\ Len(p.batch) = 0
  BY <1>4
<1> HIDE DEF rest
<1>8. Accounted(q)
  <2> SUFFICES ASSUME NEW t \in Tasks, ~blocked, p.fate[t] \notin Good
               PROVE  \E j \in DOMAIN rest : Ends(rest[j])
    BY <1>3 DEF Accounted
  <2>1. ToSet(p.batch) = {}
    BY <1>4 DEF ToSet
  <2>2. PICK i \in DOMAIN p.pending : Ends(p.pending[i])
    BY <1>1, <2>1 DEF Sound, Accounted
  <2>3. QED
    BY <1>5, <2>2
<1>9. InRound(q)
  <2>1. \A j \in DOMAIN rest : rest[j] \notin OfOneTask
    BY <1>1, <1>6 DEF Sound, InRound
  <2>2. QED
    BY <1>3, <1>4, <2>1 DEF InRound, rest
<1>10. Honest(q) /\ InLimits(q)
  <2>1. /\ p.config.max > 0 => p.completed + done <= p.config.max
        /\ p.config.max > 0 => (p.completed + done) + Len(rest) + Len(p.batch) <= p.config.max
    BY <1>4, <1>7
  <2>2. p.config.required => Len(p.pending) + Len(p.batch) <= 1
    BY <1>1 DEF Sound, InLimits
  <2>3. Len(p.pending) + Len(p.batch) <= 1 => Len(rest) + Len(p.batch) <= 1
    BY <1>4, <1>7
  <2>4. Honest(q)
    BY <1>3, <2>1 DEF Honest, Succeeds
  <2>5. QED
    BY <1>3, <2>1, <2>2, <2>3, <2>4 DEF InLimits
<1>11. Apart(q.batch)
  BY <1>1, <1>3 DEF Sound
<1>12. QED
  BY <1>2, <1>3, <1>8, <1>9, <1>10, <1>11 DEF Moves, Sound

(* The command ends with what was taken.                                    *)
LEMMA TakenExits ==
  ASSUME IInv, NEW l \in Loops, NEW p, p = loop[l], p.pc = "take", p.pending # <<>>,
         NEW done \in {0, 1}, NEW blocked \in BOOLEAN, NEW code \in Exits,
         Become(l, Taken(p, done, blocked, "exit", code)),
         code \in Succeeds => \A t \in Tasks : p.fate[t] \in Good
  PROVE  Moves(l)
<1>1. p \in Local /\ Sound(p)
  BY DEF IInv, TypeOK
<1>2. PICK q : q = Taken(p, done, blocked, "exit", code)
  OBVIOUS
<1>3. /\ q \in Local
      /\ q.batch = p.batch /\ q.config = p.config /\ q.fate = p.fate
      /\ q.completed = p.completed + done /\ q.pc = "exit" /\ q.exit = code
  BY <1>1, <1>2, TakenFields DEF Places
<1>4. p.config.max > 0 => p.completed + done <= p.config.max
  <2>1. /\ p.completed \in Nat /\ p.config.max \in Nat
        /\ p.config.max > 0 => p.completed + Len(p.pending) <= p.config.max
        /\ Len(p.pending) \in Nat /\ Len(p.pending) >= 1
    BY <1>1, TakeIs
  <2>2. QED
    BY <2>1
<1>5. Sound(q)
  BY <1>1, <1>3, <1>4 DEF Sound, Honest
<1>6. QED
  BY <1>2, <1>3, <1>5 DEF Moves

LEMMA TakenEquals ==
  ASSUME NEW p \in Local, NEW pc, NEW code
  PROVE  /\ [[p EXCEPT !.pending = Tail(@)] EXCEPT !.completed = @ + 1, !.pc = pc, !.exit = code]
              = Taken(p, 1, p.blocked, pc, code)
         /\ [[p EXCEPT !.pending = Tail(@)] EXCEPT !.blocked = TRUE, !.pc = pc, !.exit = code]
              = Taken(p, 0, TRUE, pc, code)
<1> DEFINE rest == Tail(p.pending)
           completed == p.completed + 1
<1>1. p.completed + 0 = p.completed
  BY DEF Local
<1>2. Taken(p, 0, TRUE, pc, code) =
        [p EXCEPT !.pending = rest, !.blocked = TRUE, !.pc = pc, !.exit = code]
  BY <1>1 DEF Taken, Local
<1>3. Taken(p, 1, p.blocked, pc, code) =
        [p EXCEPT !.pending = rest, !.completed = completed, !.pc = pc, !.exit = code]
  BY DEF Taken, Local
<1>4. [p EXCEPT !.pending = rest].completed + 1 = completed
  BY DEF Local
<1> HIDE DEF rest, completed
<1>5. [[p EXCEPT !.pending = rest] EXCEPT !.completed = @ + 1, !.pc = pc, !.exit = code]
        = [p EXCEPT !.pending = rest, !.completed = completed, !.pc = pc, !.exit = code]
  BY <1>4 DEF Local
<1>6. [[p EXCEPT !.pending = rest] EXCEPT !.blocked = TRUE, !.pc = pc, !.exit = code]
        = [p EXCEPT !.pending = rest, !.blocked = TRUE, !.pc = pc, !.exit = code]
  BY DEF Local
<1>7. QED
  BY <1>2, <1>3, <1>5, <1>6 DEF rest

LEMMA TakeMoves ==
  ASSUME IInv, NEW l \in Loops,
         TakeDecision(l) \/ TakeBundle(l) \/ TakeBlocker(l) \/ TakeDone(l)
  PROVE  Moves(l)
<1> DEFINE p == loop[l]
           kind == Head(p.pending)
           rest == Tail(p.pending)
           first == [p EXCEPT !.pending = Tail(@)]
<1>1. /\ p \in Local /\ Sound(p) /\ p.pc = "take" /\ p.pending # <<>>
  BY DEF IInv, TypeOK, TakeDecision, TakeBundle, TakeBlocker, TakeDone, Takes
<1>2. /\ kind \in Kinds /\ p.batch = <<>> /\ p.exit = "none" /\ p.completed \in Nat
      /\ kind \in OfOneTask => p.pending = <<kind>> /\ rest = <<>> /\ ~p.blocked
  BY <1>1, TakeIs
<1>3. Rest(l) = first
  BY DEF Rest
<1>4. \A pc, code :
        /\ [first EXCEPT !.completed = @ + 1, !.pc = pc, !.exit = code]
             = Taken(p, 1, p.blocked, pc, code)
        /\ [first EXCEPT !.blocked = TRUE, !.pc = pc, !.exit = code]
             = Taken(p, 0, TRUE, pc, code)
  BY <1>1, TakenEquals
<1>5. first.pending = rest
  BY <1>1 DEF Local
<1>6. kind \in OfOneTask => kind \in {"rework_required", "escalated"} \/
                            \A t \in Tasks : p.fate[t] \in Good
  <2> SUFFICES ASSUME kind \in OfOneTask, ~Ends(kind), NEW t \in Tasks
               PROVE  p.fate[t] \in Good
    BY DEF Ends, IsBlocker, OfOneTask, Exceptions, Decisions
  <2>1. ToSet(p.batch) = {} /\ ~p.blocked
    BY <1>2 DEF ToSet
  <2>2. \A i \in DOMAIN p.pending : p.pending[i] = kind
    BY <1>2
  <2>3. QED
    BY <1>1, <2>1, <2>2 DEF Sound, Accounted
<1>7. p.blocked \in BOOLEAN
  BY <1>1 DEF Local
<1> HIDE DEF p, kind, rest, first
<1>8. CASE TakeDecision(l)
  <2>1. kind \in Decisions
    BY <1>8 DEF TakeDecision, Takes, p, kind
  <2>2. /\ rest = <<>> /\ ~p.blocked
        /\ kind = "critic_done" \/ kind \in {"rework_required", "escalated"}
    BY <1>2, <2>1 DEF OfOneTask, Decisions
  <2>3. CASE kind = "critic_done"
    <3>1. Become(l, Taken(p, 1, p.blocked, "take", "none"))
      BY <1>3, <1>4, <1>7, <1>8, <2>3 DEF TakeDecision, Places, Exits, p, kind
    <3>2. ~Ends(kind)
      BY <2>3 DEF Ends, IsBlocker, Exceptions
    <3>3. QED
      BY <1>1, <1>7, <2>2, <3>1, <3>2, TakenMoves DEF p, kind, rest
  <2>4. CASE kind \in {"rework_required", "escalated"}
    <3>0. kind # "critic_done" /\ kind \in Exits
      BY <2>4 DEF Exits, Waiting
    <3>a. Become(l, [first EXCEPT !.completed = @ + 1, !.pc = "exit", !.exit = kind])
      BY <1>3, <1>8, <3>0 DEF TakeDecision, p, kind
    <3>1. Become(l, Taken(p, 1, p.blocked, "exit", kind))
      BY <1>4, <3>a
    <3>2. kind \notin Succeeds
      BY <2>4 DEF Succeeds
    <3>3. QED
      BY <1>1, <1>7, <3>0, <3>1, <3>2, TakenExits DEF p
  <2>5. QED
    BY <2>2, <2>3, <2>4
<1>9. CASE TakeBundle(l)
  <2> DEFINE completed == p.completed + 1
             q == [p EXCEPT !.completed = completed, !.pc = "exit", !.exit = "review_pending"]
  <2>1. kind = "review_pending"
    BY <1>9 DEF TakeBundle, Takes, p, kind
  <2>2. \A t \in Tasks : p.fate[t] \in Good
    BY <1>6, <2>1 DEF OfOneTask
  <2>3. Become(l, q)
    BY <1>9 DEF TakeBundle, p
  <2>4. /\ completed \in Nat
        /\ p.config.max > 0 => completed <= p.config.max
    <3>1. /\ p.completed \in Nat /\ p.config.max \in Nat
          /\ p.config.max > 0 => p.completed + Len(p.pending) <= p.config.max
          /\ Len(p.pending) \in Nat /\ Len(p.pending) >= 1
      BY <1>1, TakeIs
    <3>2. QED
      BY <3>1
  <2> HIDE DEF completed
  <2>5. q \in Local
    BY <1>1, <2>4 DEF Local, Places, Exits, Waiting
  <2>6. /\ q.batch = p.batch /\ q.config = p.config /\ q.fate = p.fate
        /\ q.completed = completed /\ q.pc = "exit"
    BY <1>1 DEF Local
  <2> HIDE DEF q
  <2>7. Sound(q)
    BY <1>1, <2>2, <2>4, <2>6 DEF Sound, Honest
  <2>8. QED
    BY <2>3, <2>5, <2>7 DEF Moves
<1>10. CASE TakeBlocker(l)
  <2>1. CASE rest = <<>>
    <3>a. Become(l, [first EXCEPT !.blocked = TRUE, !.pc = "exit", !.exit = "blocked"])
      BY <1>3, <1>5, <1>10, <2>1 DEF TakeBlocker
    <3>1. Become(l, Taken(p, 0, TRUE, "exit", "blocked"))
      BY <1>4, <3>a
    <3>2. QED
      BY <1>1, <3>1, TakenExits DEF p, Exits, Succeeds
  <2>2. CASE rest # <<>>
    <3>a. Become(l, [first EXCEPT !.blocked = TRUE, !.pc = "take", !.exit = "none"])
      BY <1>3, <1>5, <1>10, <2>2 DEF TakeBlocker
    <3>1. Become(l, Taken(p, 0, TRUE, "take", "none"))
      BY <1>4, <3>a
    <3>2. QED
      BY <1>1, <2>2, <3>1, TakenMoves DEF p, rest
  <2>3. QED
    BY <2>1, <2>2
<1>11. CASE TakeDone(l)
  <2>1. ~Ends(kind)
    BY <1>11 DEF TakeDone, Takes, Ends, Decisions, p, kind
  <2>2. CASE p.blocked /\ rest = <<>>
    <3>a. Become(l, [first EXCEPT !.completed = @ + 1, !.pc = "exit", !.exit = "blocked"])
      BY <1>3, <1>5, <1>11, <2>2 DEF TakeDone, p
    <3>1. Become(l, Taken(p, 1, p.blocked, "exit", "blocked"))
      BY <1>4, <3>a
    <3>2. QED
      BY <1>1, <1>7, <3>1, TakenExits DEF p, Exits, Succeeds
  <2>3. CASE ~(p.blocked /\ rest = <<>>)
    <3>a. Become(l, [first EXCEPT !.completed = @ + 1, !.pc = "take", !.exit = "none"])
      BY <1>3, <1>5, <1>11, <2>3 DEF TakeDone, p
    <3>1. Become(l, Taken(p, 1, p.blocked, "take", "none"))
      BY <1>4, <3>a
    <3>2. QED
      BY <1>1, <1>7, <2>1, <2>3, <3>1, TakenMoves DEF p, kind, rest
  <2>4. QED
    BY <2>2, <2>3
<1>12. QED
  BY <1>8, <1>9, <1>10, <1>11

(* Only what ended well is reported as an empty queue or a limit reached.   *)
LEMMA EndMoves ==
  ASSUME IInv, NEW l \in Loops,
         \/ EndOfLimit(l) \/ TakeEmpty(l) \/ TakeDependency(l)
         \/ Handoff(l) \/ RunAudit(l)
  PROVE  Moves(l)
<1> DEFINE p == loop[l]
<1>1. p \in Local /\ Sound(p) /\ p.pc # "exit"
  BY DEF IInv, TypeOK, EndOfLimit, TakeEmpty, TakeDependency, Handoff, RunAudit, Takes
<1>2. ASSUME NEW code \in Exits, Exit(l, code),
             code \in Succeeds => \A t \in Tasks : p.fate[t] \in Good
      PROVE  Moves(l)
  BY <1>2, ExitMoves
<1>3. ASSUME NEW pc \in Places \ {"exit"}, Goto(l, pc), May(p, pc)
      PROVE  Moves(l)
  BY <1>1, <1>3, GotoMoves
<1> HIDE DEF p
<1>4. CASE EndOfLimit(l)
  <2>1. /\ p.pc = "take" /\ p.config.max > 0 /\ p.completed >= p.config.max
        /\ Exit(l, "max_tasks_reached")
    BY <1>4 DEF EndOfLimit, LimitReached, p
  <2>2. p.batch = <<>> /\ (p.blocked => p.pending # <<>>) /\ Accounted(p)
    BY <1>1, <2>1 DEF Sound, InRound
  <2>3. p.pending = <<>>
    <3>1. CASE p.pending = <<>>
      BY <3>1
    <3>2. CASE p.pending # <<>>
      <4>1. /\ p.completed \in Nat /\ p.config.max \in Nat
            /\ p.config.max > 0 => p.completed + Len(p.pending) <= p.config.max
            /\ Len(p.pending) \in Nat /\ Len(p.pending) >= 1
        BY <1>1, <2>1, <3>2, TakeIs
      <4>2. QED
        BY <2>1, <4>1
    <3>3. QED
      BY <3>1, <3>2
  <2>4. \A t \in Tasks : p.fate[t] \in Good
    BY <2>2, <2>3, NothingInHand
  <2>5. QED
    BY <1>2, <2>1, <2>4 DEF Exits
<1>5. ASSUME p.pending = <<"empty">>, p.batch = <<>>, ~p.blocked
      PROVE  \A t \in Tasks : p.fate[t] \in Good
  <2>1. ToSet(p.batch) = {} /\ \A i \in DOMAIN p.pending : p.pending[i] = "empty"
    BY <1>5 DEF ToSet
  <2>2. ~Ends("empty")
    BY DEF Ends, IsBlocker, Exceptions
  <2>3. QED
    BY <1>1, <1>5, <2>1, <2>2 DEF Sound, Accounted
<1>6. CASE TakeEmpty(l)
  <2>1. p.pc = "take" /\ p.pending # <<>> /\ Head(p.pending) = "empty"
    BY <1>6 DEF TakeEmpty, Takes, p
  <2>2. p.pending = <<"empty">> /\ p.batch = <<>> /\ ~p.blocked
    BY <1>1, <2>1, TakeIs DEF OfOneTask
  <2>3. May(p, "handoff")
    BY <2>2 DEF May
  <2>4. QED
    BY <1>2, <1>3, <1>5, <1>6, <2>2, <2>3 DEF TakeEmpty, Exits, Places
<1>7. CASE TakeDependency(l)
  BY <1>2, <1>7 DEF TakeDependency, Exits, Succeeds
<1>8. CASE Handoff(l) \/ RunAudit(l)
  <2>1. p.pc \in {"handoff", "audit"}
    BY <1>8 DEF Handoff, RunAudit, p
  <2>2. p.pending = <<"empty">> /\ p.batch = <<>>
    BY <1>1, <2>1 DEF Sound, InRound
  <2>3. ~p.blocked
    <3>1. 1 \in DOMAIN p.pending /\ p.pending[1] = "empty"
      BY <2>2
    <3>2. QED
      BY <1>1, <3>1 DEF Sound, InRound, OfOneTask
  <2>4. May(p, "audit") /\ \A t \in Tasks : p.fate[t] \in Good
    BY <1>5, <2>2, <2>3 DEF May
  <2>5. QED
    BY <1>2, <1>3, <1>8, <2>4 DEF Handoff, RunAudit, Exits, Places
<1>9. QED
  BY <1>4, <1>6, <1>7, <1>8

-----------------------------------------------------------------------------
(* The invariant is inductive.                                              *)

LEMMA InitSound ==
  Init => IInv
<1> SUFFICES ASSUME Init PROVE IInv
  OBVIOUS
<1>1. PICK c \in Configs : loop = [l \in Loops |-> Fresh(c)]
  BY DEF Init
<1>2. c \in Config
  BY LoopConstants DEF ConstantsOK
<1>3. Fresh(c) \in Local
  <2>1. <<>> \in Seq(Kinds) /\ <<>> \in Seq(Tasks)
    OBVIOUS
  <2>2. QED
    BY <1>2, <2>1 DEF Fresh, Local, Places, Prepared, Exits
<1>4. Sound(Fresh(c))
  <2> DEFINE p == Fresh(c)
  <2>1. /\ p.pc = "start" /\ p.config = c /\ p.pending = <<>> /\ p.batch = <<>>
        /\ p.completed = 0 /\ ~p.blocked /\ p.exit = "none"
        /\ \A t \in Tasks : p.fate[t] = "none"
    BY DEF Fresh
  <2>2. c.max \in Nat /\ Len(p.pending) = 0 /\ Len(p.batch) = 0
    BY <1>2, <2>1 DEF Config
  <2> HIDE DEF p
  <2>3. Honest(p) /\ Apart(p.batch) /\ Accounted(p)
    BY <2>1, <2>2 DEF Honest, Apart, Accounted, Succeeds, Good
  <2>4. InRound(p)
    BY <2>1 DEF InRound
  <2>5. InLimits(p)
    BY <2>1, <2>2 DEF InLimits
  <2>6. QED
    BY <2>3, <2>4, <2>5 DEF Sound, p
<1>5. /\ status \in [Tasks -> Statuses] /\ dirty \in BOOLEAN /\ others \in 0..MaxOthers
  <2>1. MaxOthers \in Nat /\ others = 0
    BY LoopConstants DEF Init, ConstantsOK
  <2>2. status \in [Tasks -> Statuses] /\ dirty \in BOOLEAN
    BY DEF Init, Statuses
  <2>3. QED
    BY <2>1, <2>2
<1>6. QED
  BY <1>1, <1>3, <1>4, <1>5 DEF IInv, TypeOK

LEMMA QueueTypes ==
  ASSUME TypeOK, Next
  PROVE  status' \in [Tasks -> Statuses] /\ dirty' \in BOOLEAN /\ others' \in 0..MaxOthers
<1>1. ASSUME NEW t \in Tasks, NEW s \in Statuses, SetStatus(t, s)
      PROVE  status' \in [Tasks -> Statuses]
  BY <1>1 DEF TypeOK, SetStatus
<1>2. CASE Other
  <2>1. \A t \in Tasks : OtherMoves[status[t]] \subseteq Statuses
    BY DEF TypeOK, OtherMoves, Statuses, Waiting
  <2>2. status' \in [Tasks -> Statuses] /\ dirty' \in BOOLEAN
    BY <1>1, <1>2, <2>1 DEF Other, TypeOK
  <2>3. others' \in 0..MaxOthers
    BY <1>2, LoopConstants DEF Other, TypeOK, ConstantsOK
  <2>4. QED
    BY <2>2, <2>3
<1>3. ASSUME NEW l \in Loops, Step(l)
      PROVE  status' \in [Tasks -> Statuses] /\ dirty' = dirty /\ others' = others
  <2>1. CASE ClaimBatch(l)
    BY <2>1 DEF ClaimBatch, TypeOK, Statuses
  <2>2. CASE ClaimOne(l)
    <3>1. ReadyTasks \in Seq(Tasks)
      BY InOrderIs DEF ReadyTasks, Ready
    <3>2. ReadyTasks # <<>> => Head(ReadyTasks) \in Tasks
      BY <3>1
    <3>3. QED
      BY <1>1, <2>2, <3>2 DEF ClaimOne, TypeOK, Statuses, Waiting
  <2>3. CASE Integrate(l)
    BY <1>1, <2>3 DEF Integrate, FailedToPrepare, Contended, Raised, Rejected, Accepted,
                      TypeOK, Statuses, Waiting
  <2>4. CASE \E t \in Tasks : Prepare(l, t)
    BY <2>4 DEF Prepare, TypeOK
  <2>5. CASE UNCHANGED <<status, dirty, others>>
    BY <2>5 DEF TypeOK
  <2>6. QED
    BY <1>3, <2>1, <2>2, <2>3, <2>4, <2>5
       DEF Step, Start, CheckStale, CheckWaiting, EndOfLimit, Round, Startup, PlanBatch, Collected,
           SelectOne, WorkOne, TakeEmpty, TakeDependency, TakeDecision, TakeBundle, TakeBlocker,
           TakeDone, Handoff, RunAudit
<1>4. QED
  BY <1>2, <1>3 DEF Next, TypeOK

LEMMA StepSound ==
  IInv /\ [Next]_vars => IInv'
<1> SUFFICES ASSUME IInv, [Next]_vars PROVE IInv'
  OBVIOUS
<1>1. CASE UNCHANGED vars
  BY <1>1 DEF vars, IInv, TypeOK, Sound, Honest, Apart, Accounted, InRound, InLimits, Room
<1>2. CASE Next
  <2>1. status' \in [Tasks -> Statuses] /\ dirty' \in BOOLEAN /\ others' \in 0..MaxOthers
    BY <1>2, QueueTypes DEF IInv
  <2>2. loop' \in [Loops -> Local] /\ \A m \in Loops : Sound(loop'[m])
    <3>1. CASE Other
      BY <3>1 DEF Other, IInv, TypeOK
    <3>2. ASSUME NEW l \in Loops, Step(l)
          PROVE  loop' \in [Loops -> Local] /\ \A m \in Loops : Sound(loop'[m])
      <4>1. Moves(l)
        BY <3>2, StartMoves, RoundMoves, ClaimBatchMoves, ClaimOneMoves, PrepareMoves,
           IntegrateMoves, TakeMoves, EndMoves DEF Step
      <4>2. QED
        BY <4>1 DEF Moves, Become, IInv, TypeOK
    <3>3. QED
      BY <1>2, <3>1, <3>2 DEF Next
  <2>3. QED
    BY <2>1, <2>2 DEF IInv, TypeOK
<1>3. QED
  BY <1>1, <1>2

(* The state is well formed, and what `queue-run-loop` keeps in memory      *)
(* accounts for every task it claimed (cmd_queue_run_loop's pending_items   *)
(* and batch_blocked, cli.py).                                              *)
THEOREM LoopIsSound ==
  Spec => [](TypeOK /\ LoopInvariant)
<1>1. Spec => []IInv
  BY InitSound, StepSound, PTL DEF Spec
<1>2. QED
  BY <1>1, InvariantIs, PTL

(* For any limits, scopes and schedule: a `queue-run-loop` that exits with 0 *)
(* left no task it claimed failed, contended or in rework, and it completed  *)
(* no more tasks than --max-tasks allows.                                    *)
THEOREM ExitCodeIsHonest ==
  Spec => []ExitIsHonest
<1>1. TypeOK /\ LoopInvariant => ExitIsHonest
  BY DEF LoopInvariant
<1>2. QED
  BY <1>1, LoopIsSound, PTL

(* For any scopes and any changes of the queue between the plan of a batch   *)
(* and its claim: the tasks claim_batch hands to parallel workers have       *)
(* pairwise disjoint allowed_paths.                                          *)
THEOREM BatchesAreApart ==
  Spec => []BatchApart
<1>1. TypeOK /\ LoopInvariant => BatchApart
  BY DEF LoopInvariant
<1>2. QED
  BY <1>1, LoopIsSound, PTL
=============================================================================
