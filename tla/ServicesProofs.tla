--------------------------- MODULE ServicesProofs ---------------------------
(***************************************************************************)
(* Proofs about the services that poll: TelegramCommands, for any pollers, *)
(* messages, batch limit and number of interrupted polls, and              *)
(* WorkspaceScheduler, for any projects, schedulers and intervals.         *)
(***************************************************************************)
EXTENDS TelegramCommands, WorkspaceScheduler, FiniteOrders

-----------------------------------------------------------------------------
(***************************************************************************)
(* TelegramCommands.  A poll has passed the updates before its batch, and  *)
(* the first of the batch once it is acted on.  Whoever has the lease has  *)
(* acted on every command it passed, and on no command after it since the  *)
(* last interruption.                                                      *)
(***************************************************************************)
Holding == {"fetch", "batch", "answer"}

\* The newest update the poll is done with, apart from telling the operator.
Passed(l) == l.newest - Len(l.batch) + (IF l.pc = "answer" THEN 1 ELSE 0)

\* A batch is a run of updates that ends with the newest, from the offset on.
BatchSound(l) ==
    /\ l.pc \notin {"batch", "answer"} => l.batch = <<>> /\ l.newest = 0
    /\ l.pc = "answer" => l.batch # <<>>
    /\ Len(l.batch) <= l.newest
    /\ l.batch # <<>> => l.newest - Len(l.batch) + 1 >= offset
    /\ \A i \in DOMAIN l.batch : l.batch[i] = l.newest - Len(l.batch) + i

LeaseOfPoller(p) == poller[p].pc \in Holding <=> pollLease = p

PassedHandled(l) == \A u \in FromOperator : u <= Passed(l) => Times(u) > 0

\* Updates still to be fetched after `from` were acted on in broken polls only.
FreshAfter(from) ==
    \A u \in FromOperator : u > from /\ u >= offset => Times(u) <= breaks

TelegramInvariant ==
    /\ OffsetPassesHandled
    /\ RepeatedOnlyAfterBreak
    /\ \A p \in Pollers : LeaseOfPoller(p) /\ BatchSound(poller[p])
    /\ \A p \in Pollers : pollLease = p => PassedHandled(poller[p]) /\ FreshAfter(Passed(poller[p]))
    /\ pollLease = Free => FreshAfter(0)

PollerRecord == [pc: {"stopped", "acquire", "fetch", "batch", "answer"},
                 batch: Seq(Updates), newest: Updates \cup {0}]

LEMMA UpdatesAreNumbers ==
  /\ Updates \subseteq Nat \ {0}
  /\ \A n \in Updates : 1..n \subseteq Updates
BY TelegramConstants DEF Updates

LEMMA TimesIsNatural ==
  ASSUME TelegramTypes, NEW u
  PROVE  Times(u) \in Nat
<1>1. IsFiniteSet({i \in DOMAIN events : events[i] = u})
  BY FS_Interval, FS_Subset DEF TelegramTypes
<1>2. QED
  BY <1>1, FS_CardinalityType DEF Times

\* An event counts for its own update.
LEMMA TimesAfter ==
  ASSUME TelegramTypes, NEW v \in Updates, events' = Append(events, v), NEW u
  PROVE  Times(u)' = Times(u) + (IF u = v THEN 1 ELSE 0)
<1> DEFINE S == {i \in DOMAIN events : events[i] = u}
           n == Len(events) + 1
<1>1. DOMAIN events = 1..Len(events) /\ Len(events) \in Nat
  BY DEF TelegramTypes
<1>2. /\ DOMAIN events' = 1..n
      /\ \A i \in DOMAIN events : events'[i] = events[i]
      /\ events'[n] = v
  BY <1>1 DEF TelegramTypes
<1>3. IsFiniteSet(S) /\ n \notin S
  <2>1. S \subseteq 1..Len(events) /\ IsFiniteSet(1..Len(events))
    BY <1>1, FS_Interval
  <2>2. QED
    BY <1>1, <2>1, FS_Subset
<1>4. CASE u = v
  <2>1. {i \in DOMAIN events' : events'[i] = u} = S \cup {n}
    BY <1>1, <1>2, <1>4
  <2>2. Cardinality(S \cup {n}) = Cardinality(S) + 1
    BY <1>3, FS_AddElement
  <2>3. QED
    BY <1>4, <2>1, <2>2 DEF Times
<1>5. CASE u # v
  <2>1. {i \in DOMAIN events' : events'[i] = u} = S
    BY <1>1, <1>2, <1>5
  <2>2. Times(u)' = Times(u)
    BY <2>1 DEF Times
  <2>3. QED
    BY <1>5, <2>2, TimesIsNatural
<1>6. QED
  BY <1>4, <1>5

\* What getUpdates returns is a run of updates from the offset on.
LEMMA PendingIsRun ==
  ASSUME TelegramTypes
  PROVE  LET b == Pending(offset)
             n == IF b = <<>> THEN 0 ELSE b[Len(b)] IN
         /\ b \in Seq(Updates) /\ n \in Updates \cup {0}
         /\ Len(b) <= n
         /\ b # <<>> => n - Len(b) + 1 >= offset
         /\ \A u \in Updates : u <= n - Len(b) => u < offset
         /\ \A i \in DOMAIN b : b[i] = n - Len(b) + i
<1> DEFINE first == IF offset = 0 THEN 1 ELSE offset
           waiting == arrived + 1 - first
           k == IF waiting < BatchLimit THEN waiting ELSE BatchLimit
           b == Pending(offset)
           n == IF b = <<>> THEN 0 ELSE b[Len(b)]
<1>1. offset \in Nat /\ arrived \in Nat /\ first \in Nat \ {0} /\ k \in Int /\ waiting \in Int
  BY TelegramConstants, UpdatesAreNumbers DEF TelegramTypes
<1>2. k <= waiting
  BY <1>1, TelegramConstants
<1>3. b = [i \in 1..k |-> first + i - 1]
  BY DEF Pending
<1>4. CASE k <= 0
  <2>1. b = <<>>
    BY <1>1, <1>3, <1>4
  <2>2. QED
    BY <1>1, <2>1, UpdatesAreNumbers
<1>5. CASE k > 0
  <2>1. k \in Nat /\ \A i \in 1..k : first + i - 1 \in 1..arrived
    BY <1>1, <1>2, <1>5
  <2>2. arrived \in Updates
    BY <1>1, <1>2, <1>5 DEF TelegramTypes
  <2>3. \A i \in 1..k : first + i - 1 \in Updates
    BY <2>1, <2>2, UpdatesAreNumbers
  <2>4. b \in Seq(Updates) /\ Len(b) = k /\ b # <<>>
    BY <1>3, <1>5, <2>1, <2>3
  <2>5. n = first + k - 1 /\ n \in Updates
    BY <1>1, <1>3, <1>5, <2>1, <2>3, <2>4
  <2>6. n - Len(b) + 1 = first
    BY <1>1, <2>1, <2>4, <2>5
  <2>7. \A u \in Updates : u <= n - Len(b) => u < offset
    BY <1>1, <2>1, <2>4, <2>5, UpdatesAreNumbers
  <2>8. \A i \in DOMAIN b : b[i] = n - Len(b) + i
    <3>1. DOMAIN b = 1..k /\ \A i \in 1..k : b[i] = first + i - 1
      BY <1>3
    <3> HIDE DEF b, n, first, k
    <3>2. QED
      BY <1>1, <2>1, <2>6, <2>4, <2>5, <3>1, UpdatesAreNumbers
  <2>9. n >= Len(b) /\ n - Len(b) + 1 >= offset
    BY <1>1, <2>1, <2>4, <2>5
  <2>10. QED
    BY <2>4, <2>5, <2>7, <2>8, <2>9
<1>6. QED
  BY <1>1, <1>4, <1>5

(***************************************************************************)
(* One step.  Every step keeps the updates and the types.                  *)
(***************************************************************************)
LEMMA TypesFirst == TelegramInit => TelegramTypes
BY DEF TelegramInit, TelegramTypes, Stopped, Free

LEMMA TypesNext ==
  ASSUME TelegramTypes, TelegramInvariant, [TelegramNext]_telegramVars
  PROVE  TelegramTypes'
<1> USE DEF TelegramTypes
<1>1. CASE Arrive
  BY <1>1 DEF Arrive
<1>2. CASE OtherCommand
  BY <1>2 DEF OtherCommand
<1>3. CASE UNCHANGED telegramVars
  BY <1>3 DEF telegramVars
<1>4. ASSUME NEW p \in Pollers, Poll(p) \/ Break(p)
      PROVE  TelegramTypes'
  <2>0. poller[p] \in PollerRecord /\ Stopped \in PollerRecord
    BY DEF PollerRecord, Stopped
  <2>1. CASE Begin(p)
    BY <2>1 DEF Begin, Goto
  <2>2. CASE Acquire(p)
    <3>1. CASE pollLease = Free
      <4>1. pollLease' = p /\ poller' = [poller EXCEPT ![p].pc = "fetch"]
        BY <2>2, <3>1 DEF Acquire, Goto
      <4>2. QED
        BY <2>2, <4>1 DEF Acquire
    <3>2. CASE pollLease # Free
      <4>1. UNCHANGED pollLease /\ poller' = [poller EXCEPT ![p] = Stopped]
        BY <2>2, <3>2 DEF Acquire
      <4>2. QED
        BY <2>0, <2>2, <4>1 DEF Acquire, PollerRecord
    <3>3. QED
      BY <3>1, <3>2
  <2>3. CASE Fetch(p)
    <3>1. Pending(offset) \in Seq(Updates)
          /\ (IF Pending(offset) = <<>> THEN 0 ELSE Pending(offset)[Len(Pending(offset))]) \in Updates \cup {0}
      BY PendingIsRun
    <3>2. QED
      BY <2>3, <3>1 DEF Fetch
  <2>4. ASSUME NEW u \in Updates, Ignore(p, u) PROVE TelegramTypes'
    <3>1. Tail(poller[p].batch) \in Seq(Updates)
      BY <2>0, <2>4 DEF Ignore, AtUpdate, PollerRecord
    <3>2. QED
      BY <2>4, <3>1 DEF Ignore
  <2>5. ASSUME NEW u \in Updates, Handle(p, u) PROVE TelegramTypes'
    <3>1. Append(events, u) \in Seq(Updates)
      OBVIOUS
    <3>2. status' \in [Targets -> {"queued", "running", "failed"}]
      BY <2>5 DEF Handle
    <3>3. QED
      BY <2>5, <3>1, <3>2 DEF Handle, Goto
  <2>6. CASE Answer(p)
    <3>1. Tail(poller[p].batch) \in Seq(Updates)
      BY <2>0, <2>6 DEF Answer, PollerRecord, TelegramInvariant, BatchSound
    <3>2. QED
      BY <2>6, <3>1 DEF Answer
  <2>7. CASE Store(p)
    <3>1. offset' \in Nat
      BY <2>7, <2>0, UpdatesAreNumbers DEF Store, NextOffset, PollerRecord
    <3>2. QED
      BY <2>0, <2>7, <3>1 DEF Store, PollerRecord
  <2>8. CASE Break(p)
    BY <2>0, <2>8 DEF Break, PollerRecord
  <2>9. QED
    BY <1>4, <2>1, <2>2, <2>3, <2>4, <2>5, <2>6, <2>7, <2>8 DEF Poll
<1>5. QED
  BY <1>1, <1>2, <1>3, <1>4 DEF TelegramNext

LEMMA InvariantFirst == TelegramInit => TelegramInvariant
<1> SUFFICES ASSUME TelegramInit PROVE TelegramInvariant
  OBVIOUS
<1>1. TelegramTypes
  BY TypesFirst
<1>2. \A u \in Updates : Times(u) = 0
  BY FS_EmptySet DEF TelegramInit, Times
<1>3. \A p \in Pollers : poller[p] = Stopped
  BY DEF TelegramInit
<1>4. OffsetPassesHandled /\ RepeatedOnlyAfterBreak /\ FreshAfter(0)
  BY <1>2, UpdatesAreNumbers
     DEF TelegramInit, OffsetPassesHandled, RepeatedOnlyAfterBreak, FreshAfter, FromOperator
<1>5. \A p \in Pollers : LeaseOfPoller(p) /\ pollLease # p /\ BatchSound(poller[p])
  BY <1>3, TelegramConstants
     DEF TelegramInit, LeaseOfPoller, BatchSound, Stopped, Holding, Free
<1>6. QED
  BY <1>4, <1>5 DEF TelegramInvariant

\* Poller p goes on; nobody else moves, and the lease is p's or nobody's.
Moves(p) ==
    /\ \A q \in Pollers \ {p} : poller'[q] = poller[q]
    /\ \A q \in Pollers \ {p} : (pollLease' = q) <=> (pollLease = q)

\* Unless somebody else holds the lease, only p's own view is in question.
LEMMA MoveKeeps ==
  ASSUME TelegramTypes, TelegramInvariant, NEW p \in Pollers, Moves(p), TelegramTypes',
         OffsetPassesHandled', RepeatedOnlyAfterBreak',
         LeaseOfPoller(p)', BatchSound(poller[p])',
         pollLease' = p => PassedHandled(poller[p])' /\ FreshAfter(Passed(poller[p]))',
         pollLease' = Free => FreshAfter(0)',
         \A q \in Pollers \ {p} : pollLease = q => UNCHANGED <<offset, events, breaks>>
  PROVE  TelegramInvariant'
<1> SUFFICES ASSUME NEW q \in Pollers \ {p}
             PROVE  /\ LeaseOfPoller(q)' /\ BatchSound(poller[q])'
                    /\ pollLease' = q => /\ PassedHandled(poller[q])'
                                         /\ FreshAfter(Passed(poller[q]))'
  BY DEF TelegramInvariant
<1>1. poller'[q] = poller[q] /\ (pollLease' = q <=> pollLease = q)
  BY DEF Moves
<1>2. LeaseOfPoller(q) /\ BatchSound(poller[q])
  BY DEF TelegramInvariant
<1>3. LeaseOfPoller(q)'
  BY <1>1, <1>2 DEF LeaseOfPoller
<1>4. CASE pollLease = q
  <2>1. UNCHANGED <<offset, events, breaks>>
    BY <1>4
  <2>2. PassedHandled(poller[q]) /\ FreshAfter(Passed(poller[q]))
    BY <1>4 DEF TelegramInvariant
  <2>3. PassedHandled(poller[q])' /\ FreshAfter(Passed(poller[q]))'
    BY <1>1, <2>1, <2>2 DEF PassedHandled, FreshAfter, Passed, Times
  <2>4. BatchSound(poller[q])'
    BY <1>1, <1>2, <2>1 DEF BatchSound
  <2>5. QED
    BY <1>3, <2>3, <2>4
<1>5. CASE pollLease # q
  <2>1. poller[q].batch = <<>>
    BY <1>2, <1>5 DEF LeaseOfPoller, BatchSound, Holding
  <2>2. BatchSound(poller[q])'
    BY <1>1, <1>2, <2>1 DEF BatchSound
  <2>3. QED
    BY <1>1, <1>3, <1>5, <2>2
<1>6. QED
  BY <1>4, <1>5

\* A poller that stops leaves the lease, if it had it.
LEMMA StoppedIsSound ==
  ASSUME NEW p \in Pollers, poller'[p] = Stopped, pollLease' # p
  PROVE  LeaseOfPoller(p)' /\ BatchSound(poller[p])'
<1>1. BatchSound(poller[p])'
  BY DEF BatchSound, Stopped
<1>2. LeaseOfPoller(p)'
  BY DEF LeaseOfPoller, Stopped, Holding
<1>3. QED
  BY <1>1, <1>2

LEMMA BeginKeeps ==
  ASSUME TelegramTypes, TelegramInvariant, TelegramTypes', NEW p \in Pollers,
         Begin(p) \/ Acquire(p)
  PROVE  TelegramInvariant'
<1>0. /\ poller[p].pc \notin Holding /\ poller[p].batch = <<>> /\ poller[p].newest = 0
      /\ pollLease # p /\ UNCHANGED <<arrived, offset, events, breaks>>
  BY DEF Begin, Acquire, Holding, TelegramInvariant, LeaseOfPoller, BatchSound
<1>1. OffsetPassesHandled' /\ RepeatedOnlyAfterBreak'
  BY <1>0 DEF TelegramInvariant, OffsetPassesHandled, RepeatedOnlyAfterBreak, Times
<1>f. FreshAfter(0) => FreshAfter(0)'
  BY <1>0 DEF FreshAfter, Times
<1>2. CASE Begin(p) \/ pollLease # Free
  <2>1. /\ poller'[p].pc \notin Holding /\ poller'[p].batch = <<>> /\ poller'[p].newest = 0
        /\ pollLease' = pollLease /\ \A q \in Pollers \ {p} : poller'[q] = poller[q]
    BY <1>0, <1>2 DEF Begin, Acquire, Goto, Stopped, Holding, TelegramTypes
  <2>2. LeaseOfPoller(p)' /\ BatchSound(poller[p])'
    BY <1>0, <2>1 DEF LeaseOfPoller, BatchSound, Holding
  <2>3. pollLease' = Free => FreshAfter(0)'
    BY <1>f, <2>1 DEF TelegramInvariant
  <2>4. QED
    BY <1>0, <1>1, <2>1, <2>2, <2>3, MoveKeeps DEF Moves
<1>3. CASE Acquire(p) /\ pollLease = Free
  <2>1. /\ poller'[p].pc = "fetch" /\ poller'[p].batch = <<>> /\ poller'[p].newest = 0
        /\ pollLease' = p /\ \A q \in Pollers \ {p} : poller'[q] = poller[q]
    BY <1>0, <1>3 DEF Acquire, Goto, TelegramTypes
  <2>2. LeaseOfPoller(p)' /\ BatchSound(poller[p])'
    BY <1>0, <2>1 DEF LeaseOfPoller, BatchSound, Holding
  <2>3. Passed(poller[p])' = 0
    <3>1. Len(poller'[p].batch) = 0 /\ poller'[p].pc # "answer" /\ poller'[p].newest = 0
      BY <2>1
    <3>2. QED
      BY <3>1 DEF Passed
  <2>4. PassedHandled(poller[p])'
    BY <2>3, UpdatesAreNumbers DEF PassedHandled, FromOperator
  <2>5. FreshAfter(Passed(poller[p]))'
    BY <1>f, <1>3, <2>3 DEF TelegramInvariant
  <2>6. p # Free
    BY TelegramConstants DEF Free
  <2>7. QED
    BY <1>0, <1>1, <1>3, <2>1, <2>2, <2>4, <2>5, <2>6, TelegramConstants, MoveKeeps DEF Moves, Free
<1>4. QED
  BY <1>2, <1>3

LEMMA FetchKeeps ==
  ASSUME TelegramTypes, TelegramInvariant, TelegramTypes', NEW p \in Pollers, Fetch(p)
  PROVE  TelegramInvariant'
<1> DEFINE b == Pending(offset)
           n == IF b = <<>> THEN 0 ELSE b[Len(b)]
<1>0. /\ pollLease = p /\ UNCHANGED <<arrived, offset, events, breaks, pollLease>>
      /\ p # Free
  BY TelegramConstants
     DEF Fetch, Holding, TelegramInvariant, LeaseOfPoller, BatchSound, Free
<1>1. OffsetPassesHandled' /\ RepeatedOnlyAfterBreak'
  BY <1>0 DEF TelegramInvariant, OffsetPassesHandled, RepeatedOnlyAfterBreak, Times
<1>2. /\ poller'[p] = [pc |-> "batch", batch |-> b, newest |-> n]
      /\ \A q \in Pollers \ {p} : poller'[q] = poller[q]
  BY DEF Fetch, TelegramTypes
<1>3. /\ b \in Seq(Updates) /\ n \in Updates \cup {0}
      /\ Len(b) <= n
      /\ b # <<>> => n - Len(b) + 1 >= offset
      /\ \A u \in Updates : u <= n - Len(b) => u < offset
      /\ \A i \in DOMAIN b : b[i] = n - Len(b) + i
  BY PendingIsRun
<1> HIDE DEF b, n
<1>4. LeaseOfPoller(p)' /\ BatchSound(poller[p])'
  BY <1>0, <1>2, <1>3 DEF LeaseOfPoller, BatchSound, Holding
<1>5. Passed(poller[p])' = n - Len(b)
  BY <1>2, <1>3, UpdatesAreNumbers DEF Passed
<1>6. PassedHandled(poller[p])'
  <2> SUFFICES ASSUME NEW u \in FromOperator, u <= n - Len(b) PROVE Times(u)' > 0
    BY <1>5 DEF PassedHandled
  <2>1. u < offset
    BY <1>3 DEF FromOperator
  <2>2. QED
    BY <1>1, <1>0, <2>1 DEF OffsetPassesHandled
<1>7. FreshAfter(Passed(poller[p]))'
  <2> SUFFICES ASSUME NEW u \in FromOperator, u > n - Len(b), u >= offset
               PROVE  Times(u)' <= breaks'
    BY <1>0, <1>5 DEF FreshAfter
  <2>1. FreshAfter(Passed(poller[p])) /\ Passed(poller[p]) = 0
    <3>1. poller[p].pc = "fetch" /\ poller[p].newest = 0 /\ Len(poller[p].batch) = 0
      BY DEF Fetch, TelegramInvariant, BatchSound
    <3>2. QED
      BY <1>0, <3>1 DEF TelegramInvariant, Passed
  <2>2. u > 0
    BY UpdatesAreNumbers DEF FromOperator
  <2>3. Times(u) <= breaks
    BY <2>1, <2>2 DEF FreshAfter
  <2>4. QED
    BY <1>0, <2>3 DEF Times
<1>8. QED
  BY <1>0, <1>1, <1>2, <1>4, <1>6, <1>7, MoveKeeps DEF Moves

LEMMA RestOfSequence ==
  ASSUME NEW S, NEW s \in Seq(S), s # <<>>
  PROVE  /\ Len(s) \in Nat \ {0} /\ 1 \in DOMAIN s /\ Head(s) = s[1] /\ s[1] \in S
         /\ Tail(s) \in Seq(S) /\ Len(Tail(s)) = Len(s) - 1
         /\ \A i \in DOMAIN Tail(s) : i \in Nat /\ i + 1 \in DOMAIN s /\ Tail(s)[i] = s[i + 1]
<1>1. Len(s) \in Nat \ {0} /\ DOMAIN s = 1..Len(s) /\ s[1] \in S /\ Head(s) = s[1]
  OBVIOUS
<1>2. Tail(s) \in Seq(S) /\ Len(Tail(s)) = Len(s) - 1
  OBVIOUS
<1>3. DOMAIN Tail(s) = 1..(Len(s) - 1)
  BY <1>2
<1>4. \A i \in 1..(Len(s) - 1) : Tail(s)[i] = s[i + 1]
  OBVIOUS
<1>5. QED
  BY <1>1, <1>2, <1>3, <1>4

\* The poll puts the first update of its batch behind it.
LEMMA PassedNext ==
  ASSUME NEW l \in PollerRecord, NEW u, l.pc = "batch", l.batch # <<>>, u = Head(l.batch),
         BatchSound(l)
  PROVE  /\ u = Passed(l) + 1 /\ u >= offset /\ u \in Updates /\ Passed(l) \in Nat
         /\ Len(Tail(l.batch)) = Len(l.batch) - 1 /\ Tail(l.batch) \in Seq(Updates)
         /\ \A i \in DOMAIN Tail(l.batch) : Tail(l.batch)[i] = l.newest - Len(Tail(l.batch)) + i
         /\ Len(l.batch) \in Nat \ {0} /\ l.newest \in Nat
<1>0. l.batch \in Seq(Updates) /\ l.newest \in Nat
  <2>1. l.batch \in Seq(Updates) /\ l.newest \in Updates \cup {0}
    BY DEF PollerRecord
  <2>2. \A n \in Updates \cup {0} : n \in Nat
    BY UpdatesAreNumbers
  <2>3. QED
    BY <2>1, <2>2
<1>1. /\ Len(l.batch) \in Nat \ {0} /\ u = l.batch[1] /\ 1 \in DOMAIN l.batch /\ u \in Updates
      /\ Tail(l.batch) \in Seq(Updates) /\ Len(Tail(l.batch)) = Len(l.batch) - 1
      /\ \A i \in DOMAIN Tail(l.batch) : i \in Nat /\ i + 1 \in DOMAIN l.batch
                                          /\ Tail(l.batch)[i] = l.batch[i + 1]
  BY <1>0, RestOfSequence
<1>2. l.batch[1] = l.newest - Len(l.batch) + 1
  BY <1>1 DEF BatchSound
<1>3. Passed(l) = l.newest - Len(l.batch)
  BY <1>0, <1>1 DEF Passed
<1>4. \A i \in DOMAIN Tail(l.batch) : Tail(l.batch)[i] = l.newest - Len(Tail(l.batch)) + i
  <2> SUFFICES ASSUME NEW i \in DOMAIN Tail(l.batch)
               PROVE  Tail(l.batch)[i] = l.newest - Len(Tail(l.batch)) + i
    OBVIOUS
  <2>1. Tail(l.batch)[i] = l.newest - Len(l.batch) + (i + 1)
    BY <1>1 DEF BatchSound
  <2>2. /\ i \in Nat /\ l.newest \in Nat /\ Len(l.batch) \in Nat
        /\ Len(Tail(l.batch)) = Len(l.batch) - 1
    BY <1>0, <1>1
  <2>3. QED
    BY <2>1, <2>2
<1>5. QED
  BY <1>0, <1>1, <1>2, <1>3, <1>4 DEF BatchSound

\* Of an update that is handled or ignored: it is the operator's, or not.
LEMMA IgnoreKeeps ==
  ASSUME TelegramTypes, TelegramInvariant, TelegramTypes', NEW p \in Pollers,
         NEW u \in Updates, Ignore(p, u)
  PROVE  TelegramInvariant'
<1> DEFINE l == poller[p]
<1>0. /\ pollLease = p /\ UNCHANGED <<arrived, offset, events, breaks, pollLease>>
      /\ p # Free /\ l \in PollerRecord /\ l.pc = "batch" /\ l.batch # <<>> /\ u = Head(l.batch)
      /\ BatchSound(l) /\ PassedHandled(l) /\ FreshAfter(Passed(l)) /\ u \notin FromOperator
  BY TelegramConstants
     DEF Ignore, AtUpdate, Holding, TelegramInvariant, LeaseOfPoller, Free, TelegramTypes,
         PollerRecord, FromOperator
<1>1. OffsetPassesHandled' /\ RepeatedOnlyAfterBreak'
  BY <1>0 DEF TelegramInvariant, OffsetPassesHandled, RepeatedOnlyAfterBreak, Times
<1>2. /\ poller'[p].pc = "batch" /\ poller'[p].batch = Tail(l.batch)
      /\ poller'[p].newest = l.newest
      /\ \A q \in Pollers \ {p} : poller'[q] = poller[q]
  BY <1>0 DEF Ignore, TelegramTypes
<1>3. /\ u = Passed(l) + 1 /\ u >= offset /\ Passed(l) \in Nat
      /\ Len(Tail(l.batch)) = Len(l.batch) - 1
      /\ \A i \in DOMAIN Tail(l.batch) : Tail(l.batch)[i] = l.newest - Len(Tail(l.batch)) + i
      /\ Len(l.batch) \in Nat \ {0} /\ l.newest \in Nat
  BY <1>0, PassedNext
<1>4. Passed(l) = l.newest - Len(l.batch) /\ Passed(poller[p])' = u
  <2>1. l.pc # "answer" /\ poller'[p].pc # "answer"
    BY <1>0, <1>2
  <2>2. Len(poller'[p].batch) = Len(l.batch) - 1
    BY <1>2, <1>3
  <2> HIDE DEF l
  <2>3. Passed(l) = l.newest - Len(l.batch)
    BY <1>3, <2>1 DEF Passed
  <2>4. Passed(poller[p])' = l.newest - (Len(l.batch) - 1)
    BY <1>2, <1>3, <2>1, <2>2 DEF Passed
  <2>5. QED
    BY <1>3, <2>3, <2>4
<1>5. BatchSound(poller[p])'
  <2>1. offset \in Nat
    BY DEF TelegramTypes
  <2>2. l.newest - Len(Tail(l.batch)) + 1 >= offset /\ Len(Tail(l.batch)) <= l.newest
    BY <1>0, <1>3, <1>4, <2>1 DEF BatchSound
  <2> HIDE DEF l
  <2>3. QED
    BY <1>0, <1>2, <1>3, <2>2 DEF BatchSound
<1>6. LeaseOfPoller(p)'
  BY <1>0, <1>2 DEF LeaseOfPoller, Holding
<1>7. \A v \in FromOperator : v \in Nat /\ (v <= u => v <= Passed(l)) /\ (v > u => v > Passed(l))
  <2>1. \A v \in FromOperator : v \in Nat /\ v # u
    BY <1>0, UpdatesAreNumbers DEF FromOperator
  <2> HIDE DEF l
  <2>2. QED
    BY <1>3, <2>1
<1>8. PassedHandled(poller[p])' /\ FreshAfter(Passed(poller[p]))'
  <2> HIDE DEF l
  <2>1. QED
    BY <1>0, <1>4, <1>7 DEF PassedHandled, FreshAfter, Times
<1>9. QED
  BY <1>0, <1>1, <1>2, <1>5, <1>6, <1>8, MoveKeeps DEF Moves

LEMMA HandleKeeps ==
  ASSUME TelegramTypes, TelegramInvariant, TelegramTypes', NEW p \in Pollers,
         NEW u \in Updates, Handle(p, u)
  PROVE  TelegramInvariant'
<1> DEFINE l == poller[p]
<1>0. /\ pollLease = p /\ UNCHANGED <<arrived, offset, breaks, pollLease>>
      /\ events' = Append(events, u)
      /\ p # Free /\ l \in PollerRecord /\ l.pc = "batch" /\ l.batch # <<>> /\ u = Head(l.batch)
      /\ BatchSound(l) /\ PassedHandled(l) /\ FreshAfter(Passed(l)) /\ u \in FromOperator
  BY TelegramConstants
     DEF Handle, AtUpdate, Holding, TelegramInvariant, LeaseOfPoller, Free, TelegramTypes,
         PollerRecord, FromOperator
<1>1. /\ \A v : Times(v) \in Nat /\ Times(v)' = Times(v) + (IF v = u THEN 1 ELSE 0)
      /\ breaks \in Nat /\ offset \in Nat
  BY <1>0, TimesIsNatural, TimesAfter DEF TelegramTypes
<1>2. /\ poller'[p].pc = "answer" /\ poller'[p].batch = l.batch
      /\ poller'[p].newest = l.newest
      /\ \A q \in Pollers \ {p} : poller'[q] = poller[q]
  BY <1>0 DEF Handle, Goto, TelegramTypes
<1>3. /\ u = Passed(l) + 1 /\ u >= offset /\ Passed(l) \in Nat
      /\ Len(l.batch) \in Nat \ {0} /\ l.newest \in Nat
  BY <1>0, PassedNext
<1>4. Passed(l) = l.newest - Len(l.batch) /\ Passed(poller[p])' = u
  <2>1. l.pc # "answer" /\ poller'[p].pc = "answer"
    BY <1>0, <1>2
  <2>2. Len(poller'[p].batch) = Len(l.batch)
    BY <1>2
  <2> HIDE DEF l
  <2>3. Passed(l) = l.newest - Len(l.batch)
    BY <1>3, <2>1 DEF Passed
  <2>4. Passed(poller[p])' = l.newest - Len(l.batch) + 1
    BY <1>2, <1>3, <2>1, <2>2 DEF Passed
  <2>5. QED
    BY <1>3, <2>3, <2>4
<1>5. BatchSound(poller[p])'
  BY <1>0, <1>2 DEF BatchSound
<1>6. LeaseOfPoller(p)'
  BY <1>0, <1>2 DEF LeaseOfPoller, Holding
<1>7. \A v \in FromOperator : v \in Nat /\ (v <= u => v <= Passed(l) \/ v = u)
                                        /\ (v > u => v > Passed(l) /\ v # u)
  <2>1. \A v \in FromOperator : v \in Nat
    BY UpdatesAreNumbers DEF FromOperator
  <2> HIDE DEF l
  <2>2. QED
    BY <1>3, <2>1
<1> HIDE DEF l
<1>8. Times(u) <= breaks
  BY <1>0, <1>3 DEF FreshAfter
<1>9. PassedHandled(poller[p])' /\ FreshAfter(Passed(poller[p]))'
  BY <1>0, <1>1, <1>4, <1>7 DEF PassedHandled, FreshAfter
<1>10. OffsetPassesHandled' /\ RepeatedOnlyAfterBreak'
  <2>1. OffsetPassesHandled /\ RepeatedOnlyAfterBreak
    BY DEF TelegramInvariant
  <2>2. OffsetPassesHandled'
    BY <1>0, <1>1, <2>1 DEF OffsetPassesHandled
  <2>3. RepeatedOnlyAfterBreak'
    BY <1>0, <1>1, <1>8, <2>1 DEF RepeatedOnlyAfterBreak
  <2>4. QED
    BY <2>2, <2>3
<1>11. QED
  BY <1>0, <1>2, <1>5, <1>6, <1>9, <1>10, MoveKeeps DEF Moves

LEMMA AnswerKeeps ==
  ASSUME TelegramTypes, TelegramInvariant, TelegramTypes', NEW p \in Pollers, Answer(p)
  PROVE  TelegramInvariant'
<1> DEFINE l == poller[p]
           m == [l EXCEPT !.pc = "batch"]
<1>0. /\ pollLease = p /\ UNCHANGED <<arrived, offset, events, breaks, pollLease>>
      /\ p # Free /\ l \in PollerRecord /\ l.pc = "answer" /\ l.batch # <<>>
      /\ BatchSound(l) /\ PassedHandled(l) /\ FreshAfter(Passed(l))
  BY TelegramConstants
     DEF Answer, Holding, TelegramInvariant, LeaseOfPoller, BatchSound, Free, TelegramTypes,
         PollerRecord
<1>1. OffsetPassesHandled' /\ RepeatedOnlyAfterBreak'
  BY <1>0 DEF TelegramInvariant, OffsetPassesHandled, RepeatedOnlyAfterBreak, Times
<1>2. /\ poller'[p].pc = "batch" /\ poller'[p].batch = Tail(l.batch)
      /\ poller'[p].newest = l.newest
      /\ \A q \in Pollers \ {p} : poller'[q] = poller[q]
  BY <1>0 DEF Answer, TelegramTypes
<1>3. /\ m \in PollerRecord /\ m.pc = "batch" /\ m.batch = l.batch /\ m.newest = l.newest
  BY <1>0 DEF PollerRecord
<1>4. BatchSound(m)
  BY <1>0, <1>3 DEF BatchSound
<1> HIDE DEF m, l
<1>5. /\ Len(Tail(l.batch)) = Len(l.batch) - 1
      /\ \A i \in DOMAIN Tail(l.batch) : Tail(l.batch)[i] = l.newest - Len(Tail(l.batch)) + i
      /\ Len(l.batch) \in Nat \ {0} /\ l.newest \in Nat /\ offset \in Nat
  BY <1>0, <1>3, <1>4, PassedNext DEF TelegramTypes
<1>6. Passed(poller[p])' = Passed(l)
  <2>1. Passed(l) = l.newest - Len(l.batch) + 1
    BY <1>0, <1>5 DEF Passed
  <2>2. Passed(poller[p])' = l.newest - (Len(l.batch) - 1)
    BY <1>2, <1>5 DEF Passed
  <2>3. QED
    BY <1>5, <2>1, <2>2
<1>7. BatchSound(poller[p])'
  <2>1. l.newest - Len(Tail(l.batch)) + 1 >= offset /\ Len(Tail(l.batch)) <= l.newest
    BY <1>0, <1>5 DEF BatchSound
  <2>2. QED
    BY <1>0, <1>2, <1>5, <2>1 DEF BatchSound
<1>8. LeaseOfPoller(p)'
  BY <1>0, <1>2 DEF LeaseOfPoller, Holding
<1>9. PassedHandled(poller[p])' /\ FreshAfter(Passed(poller[p]))'
  BY <1>0, <1>6 DEF PassedHandled, FreshAfter, Times
<1>10. QED
  BY <1>0, <1>1, <1>2, <1>7, <1>8, <1>9, MoveKeeps DEF Moves

\* The offset moves past the batch, all of which was acted on.
LEMMA StoreKeeps ==
  ASSUME TelegramTypes, TelegramInvariant, TelegramTypes', NEW p \in Pollers, Store(p)
  PROVE  TelegramInvariant'
<1> DEFINE l == poller[p]
<1>0. /\ pollLease = p /\ UNCHANGED <<arrived, events, breaks>> /\ pollLease' = Free
      /\ p # Free /\ l.pc = "batch" /\ Len(l.batch) = 0 /\ l.newest \in Nat /\ offset \in Nat
      /\ PassedHandled(l) /\ FreshAfter(Passed(l))
  <2>1. l.newest \in Updates \cup {0} /\ \A n \in Updates \cup {0} : n \in Nat
    BY UpdatesAreNumbers DEF TelegramTypes
  <2>2. p # Free /\ l.batch = <<>>
    BY TelegramConstants DEF Store, Free
  <2>3. QED
    BY <2>1, <2>2
       DEF Store, Holding, TelegramInvariant, LeaseOfPoller, TelegramTypes
<1>1. Passed(l) = l.newest
  BY <1>0 DEF Passed
<1>2. /\ offset' \in Nat
      /\ \A u \in Nat : /\ u < offset' => u < offset \/ u <= l.newest
                        /\ u > 0 /\ u >= offset' => u >= offset /\ u > l.newest
  BY <1>0 DEF Store, NextOffset
<1>3. \A u \in FromOperator : u \in Nat /\ u > 0 /\ Times(u)' = Times(u)
  <2>1. \A u \in FromOperator : u \in Nat \ {0}
    BY UpdatesAreNumbers DEF FromOperator
  <2>2. \A u : Times(u)' = Times(u)
    BY <1>0 DEF Times
  <2>3. QED
    BY <2>1, <2>2
<1>4. poller'[p] = Stopped /\ \A q \in Pollers \ {p} : poller'[q] = poller[q]
  BY DEF Store, TelegramTypes
<1> HIDE DEF l
<1>5. OffsetPassesHandled'
  BY <1>0, <1>1, <1>2, <1>3 DEF TelegramInvariant, OffsetPassesHandled, PassedHandled, FromOperator
<1>6. RepeatedOnlyAfterBreak'
  BY <1>0, <1>3 DEF TelegramInvariant, RepeatedOnlyAfterBreak, FromOperator
<1>7. FreshAfter(0)'
  <2> SUFFICES ASSUME NEW u \in FromOperator, u > 0, u >= offset' PROVE Times(u)' <= breaks'
    BY DEF FreshAfter, FromOperator
  <2>1. u \in Nat /\ u >= offset /\ u > Passed(l)
    BY <1>1, <1>2, <1>3
  <2>2. Times(u) <= breaks
    BY <1>0, <2>1 DEF FreshAfter
  <2>3. QED
    BY <1>0, <1>3, <2>2
<1>8. LeaseOfPoller(p)' /\ BatchSound(poller[p])'
  BY <1>0, <1>4, StoppedIsSound
<1>9. QED
  BY <1>0, <1>4, <1>5, <1>6, <1>7, <1>8, TelegramConstants, MoveKeeps DEF Moves, Free

LEMMA BreakKeeps ==
  ASSUME TelegramTypes, TelegramInvariant, TelegramTypes', NEW p \in Pollers, Break(p)
  PROVE  TelegramInvariant'
<1>0. /\ pollLease = p /\ UNCHANGED <<arrived, events, offset>> /\ pollLease' = Free
      /\ p # Free /\ breaks \in Nat /\ breaks' = breaks + 1
  BY TelegramConstants
     DEF Break, Holding, TelegramInvariant, LeaseOfPoller, Free, TelegramTypes
<1>1. poller'[p] = Stopped /\ \A q \in Pollers \ {p} : poller'[q] = poller[q]
  BY DEF Break, TelegramTypes
<1>2. \A u \in FromOperator : Times(u) \in Nat /\ Times(u)' = Times(u) /\ Times(u) <= 1 + breaks
  BY <1>0, TimesIsNatural DEF Times, TelegramInvariant, RepeatedOnlyAfterBreak
<1>3. OffsetPassesHandled' /\ RepeatedOnlyAfterBreak' /\ FreshAfter(0)'
  BY <1>0, <1>2
     DEF TelegramInvariant, OffsetPassesHandled, RepeatedOnlyAfterBreak, FreshAfter, FromOperator
<1>4. LeaseOfPoller(p)' /\ BatchSound(poller[p])'
  BY <1>0, <1>1, StoppedIsSound
<1>5. QED
  BY <1>0, <1>1, <1>3, <1>4, TelegramConstants, MoveKeeps DEF Moves, Free

LEMMA InvariantNext ==
  ASSUME TelegramTypes, TelegramInvariant, TelegramTypes', [TelegramNext]_telegramVars
  PROVE  TelegramInvariant'
<1>1. CASE Arrive \/ OtherCommand \/ UNCHANGED telegramVars
  <2>1. UNCHANGED <<offset, events, pollLease, poller, breaks>>
    BY <1>1 DEF Arrive, OtherCommand, telegramVars
  <2>2. QED
    BY <2>1
       DEF TelegramInvariant, OffsetPassesHandled, RepeatedOnlyAfterBreak, LeaseOfPoller, BatchSound,
           PassedHandled, FreshAfter, Times
<1>2. ASSUME NEW p \in Pollers, Poll(p) \/ Break(p) PROVE TelegramInvariant'
  BY <1>2, BeginKeeps, FetchKeeps, IgnoreKeeps, HandleKeeps, AnswerKeeps, StoreKeeps, BreakKeeps
     DEF Poll
<1>3. QED
  BY <1>1, <1>2 DEF TelegramNext

\* telegram_polling.py: polls keep their lease and their batch, whatever is sent
\* meanwhile, and wherever a poll is interrupted.
THEOREM PollsAreSound == TelegramSpec => [](TelegramTypes /\ TelegramInvariant)
<1>1. TelegramInit => TelegramTypes /\ TelegramInvariant
  BY TypesFirst, InvariantFirst
<1>2. TelegramTypes /\ TelegramInvariant /\ [TelegramNext]_telegramVars
         => (TelegramTypes /\ TelegramInvariant)'
  BY TypesNext, InvariantNext
<1>3. QED
  BY <1>1, <1>2, PTL DEF TelegramSpec

\* The stored offset passes no command of the operator that was not acted on,
\* and a command is acted on once more for an interrupted poll at most.
THEOREM CommandsAreAppliedOnce == TelegramSpec => []CommandsAppliedOnce
<1>1. TelegramInvariant => CommandsAppliedOnce
  BY DEF TelegramInvariant, CommandsAppliedOnce
<1>2. QED
  BY <1>1, PollsAreSound, PTL

-----------------------------------------------------------------------------
(***************************************************************************)
(* WorkspaceScheduler.  A recorded run takes what it writes of a project   *)
(* from the registry, so only the next run and the last outcome change.    *)
(***************************************************************************)
LEMMA OrderExists ==
  ASSUME NEW S \in SUBSET Projects
  PROVE  InOrder(S) \in Seq(S) /\ (S # {} => InOrder(S) # <<>>)
<1>1. IsFiniteSet(S) /\ S \subseteq Int
  <2>1. S \subseteq Int
    BY WorkspaceConstants
  <2>2. IsFiniteSet(Projects)
    BY WorkspaceConstants
  <2>3. QED
    BY <2>1, <2>2, FS_Subset
<1>2. InOrder(S) \in [1..Cardinality(S) -> S]
  BY <1>1, Enumeration DEF InOrder
<1>3. Cardinality(S) \in Nat /\ (S # {} => Cardinality(S) # 0)
  BY <1>1, FS_CardinalityType, FS_EmptySet
<1>4. InOrder(S) \in Seq(S) /\ Len(InOrder(S)) = Cardinality(S)
  BY <1>2, <1>3
<1>5. QED
  BY <1>3, <1>4

\* A scheduler that is not idle has a project to go on with.
BusyHasProject == \A s \in Schedulers : scheduler[s].pc # "idle" => scheduler[s].todo # <<>>

WorkspaceInvariant == WorkspaceTypes /\ BusyHasProject /\ OperatorChoiceStands

\* A change of the operator is what stands afterwards.
LEMMA ChooseKeeps ==
  ASSUME WorkspaceInvariant, NEW p \in Projects, NEW entry \in Entries, Choose(p, entry),
         entry.schedule.enabled => entry.next # Never
  PROVE  WorkspaceInvariant'
<1>1. /\ registry' = [registry EXCEPT ![p] = entry] /\ chosen' = [chosen EXCEPT ![p] = entry]
      /\ choices' = choices + 1 /\ UNCHANGED <<now, scheduler>>
  BY DEF Choose
<1>2. WorkspaceTypes'
  BY <1>1 DEF WorkspaceInvariant, WorkspaceTypes
<1>3. OperatorChoiceStands'
  BY <1>1 DEF WorkspaceInvariant, WorkspaceTypes, OperatorChoiceStands
<1>4. QED
  BY <1>1, <1>2, <1>3 DEF WorkspaceInvariant, BusyHasProject

LEMMA OperateKeeps ==
  ASSUME WorkspaceInvariant, Operate
  PROVE  WorkspaceInvariant'
<1>1. PICK p \in Projects : Register(p) \/ RemoveProject(p) \/ ConfigureSchedule(p)
  BY DEF Operate
<1>2. registry[p] \in Entries /\ now \in Nat /\ Never \notin Nat
  BY DEF WorkspaceInvariant, WorkspaceTypes, Never
<1>3. CASE Register(p)
  <2>1. /\ [Unregistered EXCEPT !.registered = TRUE] \in Entries
        /\ [Unregistered EXCEPT !.registered = TRUE].schedule.enabled = FALSE
    BY DEF Unregistered, Disabled, Never, Entries
  <2>2. QED
    BY <1>3, <2>1, ChooseKeeps DEF Register
<1>4. CASE RemoveProject(p)
  <2>1. Unregistered \in Entries /\ Unregistered.schedule.enabled = FALSE
    BY DEF Unregistered, Disabled, Never, Entries
  <2>2. QED
    BY <1>4, <2>1, ChooseKeeps DEF RemoveProject
<1>5. CASE ConfigureSchedule(p)
  <2> DEFINE Planned(enabled, immediately, interval) ==
               [registry[p] EXCEPT
                  !.schedule = [enabled |-> enabled, interval |-> interval],
                  !.next = IF ~enabled THEN Never
                           ELSE IF immediately THEN now ELSE now + interval]
  <2>1. PICK enabled \in BOOLEAN, immediately \in BOOLEAN, interval \in Intervals :
               Choose(p, Planned(enabled, immediately, interval))
    BY <1>5 DEF ConfigureSchedule
  <2> DEFINE e == Planned(enabled, immediately, interval)
             n == IF ~enabled THEN Never ELSE IF immediately THEN now ELSE now + interval
  <2>2. interval \in Nat
    BY <2>1, WorkspaceConstants
  <2>3. n \in Nat \cup {Never} /\ (enabled => n # Never)
    BY <1>2, <2>2
  <2>4. e \in Entries /\ e.schedule.enabled = enabled /\ e.next = n
    BY <1>2, <2>1, <2>3 DEF Entries
  <2> HIDE DEF n, e
  <2>5. Choose(p, e)
    BY <2>1 DEF e
  <2>6. QED
    BY <2>3, <2>4, <2>5, ChooseKeeps
<1>6. QED
  BY <1>1, <1>3, <1>4, <1>5

\* A recorded run keeps what the operator chose, and plans the next run.
LEMMA RecordKeeps ==
  ASSUME WorkspaceInvariant, NEW s \in Schedulers, Record(s)
  PROVE  WorkspaceInvariant'
<1> DEFINE p == Head(scheduler[s].todo)
           rest == Tail(scheduler[s].todo)
           e == Recorded(s, p)
           n == Schedules(registry[p])
           after == [IdleScheduler EXCEPT !.pc = IF rest = <<>> THEN "idle" ELSE "next",
                                          !.todo = rest]
<1>1. /\ registry' = [registry EXCEPT ![p] = e]
      /\ scheduler' = [scheduler EXCEPT ![s] = after]
      /\ UNCHANGED <<now, choices, chosen>>
  BY DEF Record
<1>2. scheduler[s].todo \in Seq(Projects) /\ scheduler[s].todo # <<>>
  BY DEF Record, WorkspaceInvariant, WorkspaceTypes, BusyHasProject, SchedulerStates
<1>3. p \in Projects /\ rest \in Seq(Projects)
  BY <1>2, RestOfSequence
<1>4. /\ registry[p] \in Entries /\ now \in Nat
      /\ scheduler[s].outcome \in {"none", "reported", "launch_failed"}
  BY <1>3 DEF WorkspaceInvariant, WorkspaceTypes, SchedulerStates
<1>5. registry[p].schedule.interval \in Nat /\ registry[p].schedule.enabled \in BOOLEAN
  <2>1. /\ registry[p].schedule.interval \in Intervals \cup {60}
        /\ registry[p].schedule.enabled \in BOOLEAN
    BY <1>4 DEF Entries
  <2>2. \A i \in Intervals \cup {60} : i \in Nat
    BY WorkspaceConstants
  <2>3. QED
    BY <2>1, <2>2
<1> HIDE DEF p
<1>6. n \in Nat \cup {Never} /\ (registry[p].schedule.enabled => n # Never)
  BY <1>4, <1>5 DEF Schedules, Never
<1>7. /\ e \in Entries
      /\ e.registered = registry[p].registered /\ e.schedule = registry[p].schedule /\ e.next = n
  BY <1>4, <1>6 DEF Recorded, Entries
<1>8. /\ after.todo = rest /\ (after.pc # "idle" => rest # <<>>)
      /\ after \in SchedulerStates
  BY <1>3 DEF IdleScheduler, Unregistered, Disabled, Never, Entries, SchedulerStates
<1> HIDE DEF rest, e, n, after
<1>9. WorkspaceTypes'
  BY <1>1, <1>3, <1>7, <1>8 DEF WorkspaceInvariant, WorkspaceTypes
<1>10. BusyHasProject'
  BY <1>1, <1>8 DEF WorkspaceInvariant, WorkspaceTypes, BusyHasProject
<1>11. OperatorChoiceStands'
  BY <1>1, <1>6, <1>7 DEF WorkspaceInvariant, WorkspaceTypes, OperatorChoiceStands
<1>12. QED
  BY <1>9, <1>10, <1>11 DEF WorkspaceInvariant

\* What a scheduler reads, starts and ends changes nothing of the registry.
LEMMA SchedulerKeeps ==
  ASSUME WorkspaceInvariant, NEW s \in Schedulers, UNCHANGED <<registry, now, chosen>>,
         choices' \in Nat,
         NEW after \in SchedulerStates,
         scheduler' = [scheduler EXCEPT ![s] = after],
         after.pc # "idle" => after.todo # <<>>
  PROVE  WorkspaceInvariant'
<1>1. WorkspaceTypes'
  BY DEF WorkspaceInvariant, WorkspaceTypes
<1>2. BusyHasProject'
  BY DEF WorkspaceInvariant, WorkspaceTypes, BusyHasProject
<1>3. OperatorChoiceStands'
  BY DEF WorkspaceInvariant, OperatorChoiceStands
<1>4. QED
  BY <1>1, <1>2, <1>3 DEF WorkspaceInvariant

LEMMA ScheduleKeeps ==
  ASSUME WorkspaceInvariant, NEW s \in Schedulers,
         \/ ReadDue(s) \/ StartRun(s) \/ EndRun(s) \/ RecordRaises(s)
         \/ \E p \in Projects : RunOnRequest(s, p)
  PROVE  WorkspaceInvariant'
<1> DEFINE l == scheduler[s]
<1>0. /\ l \in SchedulerStates /\ choices \in Nat /\ (l.pc # "idle" => l.todo # <<>>)
      /\ UNCHANGED <<registry, now, chosen>>
  BY DEF WorkspaceInvariant, WorkspaceTypes, BusyHasProject, ReadDue, StartRun, EndRun,
         RecordRaises, RunOnRequest
<1>1. CASE ReadDue(s)
  <2> DEFINE due == {p \in Projects : IsDue(p)}
             after == [l EXCEPT !.pc = "next", !.todo = InOrder(due)]
  <2>1. scheduler' = [scheduler EXCEPT ![s] = after] /\ choices' = choices /\ due # {}
    BY <1>1 DEF ReadDue
  <2>2. InOrder(due) \in Seq(due) /\ InOrder(due) # <<>>
    BY <2>1, OrderExists
  <2>3. InOrder(due) \in Seq(Projects)
    BY <2>2
  <2>4. after \in SchedulerStates /\ after.todo # <<>>
    BY <1>0, <2>2, <2>3 DEF SchedulerStates
  <2> HIDE DEF after, due
  <2>5. QED
    BY <1>0, <2>1, <2>4, SchedulerKeeps
<1>2. CASE StartRun(s)
  <2> DEFINE after == [l EXCEPT !.pc = "running", !.snapshot = registry[Head(l.todo)]]
  <2>1. scheduler' = [scheduler EXCEPT ![s] = after] /\ choices' = choices /\ l.todo # <<>>
    BY <1>2 DEF StartRun
  <2>2. Head(l.todo) \in Projects
    BY <1>0, <2>1, RestOfSequence DEF SchedulerStates
  <2>3. registry[Head(l.todo)] \in Entries
    BY <2>2 DEF WorkspaceInvariant, WorkspaceTypes
  <2>4. after \in SchedulerStates /\ after.todo # <<>>
    BY <1>0, <2>1, <2>3 DEF SchedulerStates
  <2> HIDE DEF after
  <2>5. QED
    BY <1>0, <2>1, <2>4, SchedulerKeeps
<1>3. CASE EndRun(s)
  <2>1. PICK outcome \in {"reported", "launch_failed"} :
               scheduler' = [scheduler EXCEPT ![s].pc = "record", ![s].outcome = outcome]
    BY <1>3 DEF EndRun
  <2> DEFINE after == [l EXCEPT !.pc = "record", !.outcome = outcome]
  <2>2. scheduler' = [scheduler EXCEPT ![s] = after] /\ choices' = choices /\ l.pc = "running"
    BY <1>3, <2>1 DEF EndRun
  <2>3. after \in SchedulerStates /\ after.todo # <<>>
    BY <1>0, <2>2 DEF SchedulerStates
  <2> HIDE DEF after
  <2>4. QED
    BY <1>0, <2>2, <2>3, SchedulerKeeps
<1>4. CASE RecordRaises(s)
  <2>1. scheduler' = [scheduler EXCEPT ![s] = IdleScheduler] /\ choices' \in Nat
    BY <1>0, <1>4 DEF RecordRaises
  <2>2. IdleScheduler \in SchedulerStates /\ IdleScheduler.pc = "idle"
    BY DEF IdleScheduler, Unregistered, Disabled, Never, Entries, SchedulerStates
  <2>3. QED
    BY <1>0, <2>1, <2>2, SchedulerKeeps
<1>5. ASSUME NEW p \in Projects, RunOnRequest(s, p) PROVE WorkspaceInvariant'
  <2> DEFINE after == [l EXCEPT !.pc = "next", !.todo = <<p>>]
  <2>1. scheduler' = [scheduler EXCEPT ![s] = after] /\ choices' = choices + 1
    BY <1>5 DEF RunOnRequest
  <2>2. <<p>> \in Seq(Projects) /\ <<p>> # <<>> /\ choices + 1 \in Nat
    BY <1>0
  <2>3. after \in SchedulerStates /\ after.todo # <<>>
    BY <1>0, <2>2 DEF SchedulerStates
  <2> HIDE DEF after
  <2>4. QED
    BY <1>0, <2>1, <2>2, <2>3, SchedulerKeeps
<1>6. QED
  BY <1>1, <1>2, <1>3, <1>4, <1>5

\* workspace.py, background_scheduler.py: the registry keeps its form and what
\* the operator chose, whoever runs projects meanwhile.
THEOREM RegistryIsSound == WorkspaceSpec => []WorkspaceInvariant
<1>1. WorkspaceInit => WorkspaceInvariant
  <2>1. Unregistered \in Entries /\ Unregistered.schedule.enabled = FALSE
    BY DEF Unregistered, Disabled, Never, Entries
  <2>2. IdleScheduler \in SchedulerStates
        /\ IdleScheduler.pc = "idle"
    BY DEF IdleScheduler, Unregistered, Disabled, Never, Entries, SchedulerStates
  <2>3. QED
    BY <2>1, <2>2
       DEF WorkspaceInit, WorkspaceInvariant, WorkspaceTypes, BusyHasProject, OperatorChoiceStands
<1>2. WorkspaceInvariant /\ [WorkspaceNext]_workspaceVars => WorkspaceInvariant'
  <2> SUFFICES ASSUME WorkspaceInvariant, [WorkspaceNext]_workspaceVars PROVE WorkspaceInvariant'
    OBVIOUS
  <2>1. CASE Tick \/ UNCHANGED workspaceVars
    <3>1. UNCHANGED <<registry, chosen, scheduler, choices>> /\ now' \in Nat
      BY <2>1 DEF Tick, workspaceVars, WorkspaceInvariant, WorkspaceTypes
    <3>2. QED
      BY <3>1 DEF WorkspaceInvariant, WorkspaceTypes, BusyHasProject, OperatorChoiceStands
  <2>2. QED
    BY <2>1, OperateKeeps, RecordKeeps, ScheduleKeeps DEF WorkspaceNext, Schedule
<1>3. QED
  BY <1>1, <1>2, PTL DEF WorkspaceSpec

\* A recorded run brings back neither a removed project nor an earlier schedule,
\* and an enabled project has a next run.
THEOREM ChoicesStand == WorkspaceSpec => []OperatorChoiceStands
<1>1. WorkspaceInvariant => OperatorChoiceStands
  BY DEF WorkspaceInvariant
<1>2. QED
  BY <1>1, RegistryIsSound, PTL
=============================================================================
