-------------------------- MODULE TelegramCommands --------------------------
(***************************************************************************)
(* Operator commands over Telegram: telegram_polling.py, the commands of    *)
(* operator_decisions.py and the watch loop of cli.py.                      *)
(*                                                                          *)
(* A poll holds the telegram-poll lease from reading the offset to storing  *)
(* it.  Each command is one state transaction; the offset is stored once,   *)
(* after the last answer of the batch.  Whatever fails in between ends the  *)
(* command with the offset as it was.                                       *)
(***************************************************************************)
EXTENDS Integers, Sequences, FiniteSets

CONSTANTS
    Pollers,     \* processes of telegram-poll or telegram-watch
    Targets,     \* tasks the commands name
    Messages,    \* what the updates say, in the order they are sent
    BatchLimit,  \* --limit
    MaxBreaks    \* bound: polls that are interrupted

ASSUME TelegramConstants ==
    /\ Messages \in Seq([from: {"operator", "stranger"}, command: STRING, target: Targets])
    /\ BatchLimit \in Nat /\ MaxBreaks \in Nat
    /\ "free" \notin Pollers

Updates == DOMAIN Messages

VARIABLES
    status,      \* the status of each task
    unresolved,  \* tasks with an open canonical operation
    arrived,     \* the newest update Telegram has
    offset,      \* telegram-offset.json; 0 when there is none
    events,      \* operator-events.jsonl: the updates acted on
    pollLease,   \* the telegram-poll lease
    poller,      \* per process, where it is and its batch
    breaks       \* polls interrupted so far

telegramVars == <<status, unresolved, arrived, offset, events, pollLease, poller, breaks>>

-----------------------------------------------------------------------------
Free == "free"

Stopped == [pc |-> "stopped", batch |-> <<>>, newest |-> 0]

TelegramTypes ==
    /\ status \in [Targets -> {"queued", "running", "failed"}] /\ unresolved \subseteq Targets
    /\ arrived \in Updates \cup {0}
    /\ offset \in Nat
    /\ events \in Seq(Updates)
    /\ pollLease \in Pollers \cup {Free}
    /\ poller \in [Pollers -> [pc: {"stopped", "acquire", "fetch", "batch", "answer"},
                              batch: Seq(Updates), newest: Updates \cup {0}]]
    /\ breaks \in Nat

TelegramInit ==
    /\ status \in [Targets -> {"failed", "running"}]
    /\ unresolved = {}
    /\ arrived = 0
    /\ offset = 0
    /\ events = <<>>
    /\ pollLease = Free
    /\ poller = [p \in Pollers |-> Stopped]
    /\ breaks = 0

Goto(p, pc) == poller' = [poller EXCEPT ![p].pc = pc]

-----------------------------------------------------------------------------
(* Telegram: updates from the offset on, oldest first. *)
Pending(from) ==
    LET first   == IF from = 0 THEN 1 ELSE from
        waiting == arrived + 1 - first
    IN  [i \in 1..(IF waiting < BatchLimit THEN waiting ELSE BatchLimit) |-> first + i - 1]

Arrive ==
    /\ arrived + 1 \in Updates
    /\ arrived' = arrived + 1
    /\ UNCHANGED <<status, unresolved, offset, events, pollLease, poller, breaks>>

-----------------------------------------------------------------------------
\* The command starts, or a watch begins its next iteration.
Begin(p) ==
    /\ poller[p].pc = "stopped"
    /\ Goto(p, "acquire")
    /\ UNCHANGED <<status, unresolved, arrived, offset, events, pollLease, breaks>>

\* Slip: the lease is not looked at.
AcquireAnyway(p) ==
    /\ poller[p].pc = "acquire"
    /\ pollLease' = p
    /\ Goto(p, "fetch")
    /\ UNCHANGED <<status, unresolved, arrived, offset, events, breaks>>

\* A lease that stays taken ends the command: lock_contended.
Acquire(p) ==
    /\ poller[p].pc = "acquire"
    /\ \/ pollLease = Free /\ pollLease' = p /\ Goto(p, "fetch")
       \/ pollLease # Free /\ poller' = [poller EXCEPT ![p] = Stopped] /\ UNCHANGED pollLease
    /\ UNCHANGED <<status, unresolved, arrived, offset, events, breaks>>

Fetch(p) ==
    LET batch == Pending(offset) IN
    /\ poller[p].pc = "fetch"
    /\ poller' = [poller EXCEPT ![p] =
                    [pc |-> "batch", batch |-> batch,
                     newest |-> IF batch = <<>> THEN 0 ELSE batch[Len(batch)]]]
    /\ UNCHANGED <<status, unresolved, arrived, offset, events, pollLease, breaks>>

\* retry takes a failed task, recover a running one without open operation;
\* every other command only reads.
Refused(message) ==
    \/ message.command = "retry" /\ status[message.target] # "failed"
    \/ message.command = "recover" /\ status[message.target] # "running"
    \/ message.command = "recover" /\ message.target \in unresolved

Changes(message) == message.command \in {"retry", "recover"} /\ ~Refused(message)

AtUpdate(p, u) == poller[p].pc = "batch" /\ poller[p].batch # <<>> /\ u = Head(poller[p].batch)

\* Not a text, or not from the operator's account and chat.
Ignore(p, u) ==
    /\ AtUpdate(p, u) /\ Messages[u].from # "operator"
    /\ poller' = [poller EXCEPT ![p].batch = Tail(@)]
    /\ UNCHANGED <<status, unresolved, arrived, offset, events, pollLease, breaks>>

\* handle_operator_command: the command and its event in one transaction; a
\* refusal is recorded too.
Handle(p, u) ==
    /\ AtUpdate(p, u) /\ Messages[u].from = "operator"
    /\ status' = IF Changes(Messages[u])
                 THEN [status EXCEPT ![Messages[u].target] = "queued"] ELSE status
    /\ events' = Append(events, u)
    /\ Goto(p, "answer")
    /\ UNCHANGED <<unresolved, arrived, offset, pollLease, breaks>>

Answer(p) ==
    /\ poller[p].pc = "answer"
    /\ poller' = [poller EXCEPT ![p].pc = "batch", ![p].batch = Tail(@)]
    /\ UNCHANGED <<status, unresolved, arrived, offset, events, pollLease, breaks>>

\* Slip: everything Telegram has by now counts as seen.
NextOffsetOfAll(p) == arrived + 1

NextOffset(p) == IF poller[p].newest = 0 THEN offset ELSE poller[p].newest + 1

\* set_telegram_update_offset never moves back.
Store(p) ==
    /\ poller[p].pc = "batch" /\ poller[p].batch = <<>>
    /\ offset' = IF NextOffset(p) < offset THEN offset ELSE NextOffset(p)
    /\ pollLease' = Free
    /\ poller' = [poller EXCEPT ![p] = Stopped]
    /\ UNCHANGED <<status, unresolved, arrived, events, breaks>>

\* Telegram or the state lease fails, or the process is killed: the exception
\* leaves the poll, and the lease with it.
Break(p) ==
    /\ poller[p].pc \in {"fetch", "batch", "answer"} /\ breaks < MaxBreaks
    /\ breaks' = breaks + 1
    /\ pollLease' = Free
    /\ poller' = [poller EXCEPT ![p] = Stopped]
    /\ UNCHANGED <<status, unresolved, arrived, offset, events>>

-----------------------------------------------------------------------------
(* Queue commands of other processes. *)
OtherCommand ==
    /\ \E t \in Targets :
         \/ /\ status[t] = "queued"
            /\ status' = [status EXCEPT ![t] = "running"] /\ UNCHANGED unresolved
         \/ /\ status[t] = "running" /\ t \notin unresolved
            /\ unresolved' = unresolved \cup {t} /\ UNCHANGED status
         \/ /\ status[t] = "running"
            /\ status' = [status EXCEPT ![t] = "failed"]
            /\ unresolved' = unresolved \ {t}
    /\ UNCHANGED <<arrived, offset, events, pollLease, poller, breaks>>

Poll(p) ==
    \/ Begin(p) \/ Acquire(p) \/ Fetch(p)
    \/ \E u \in Updates : Ignore(p, u) \/ Handle(p, u)
    \/ Answer(p) \/ Store(p)

TelegramNext == Arrive \/ OtherCommand \/ \E p \in Pollers : Poll(p) \/ Break(p)

\* A watch polls again after each poll; after a failure it is started again.
TelegramSpec == TelegramInit /\ [][TelegramNext]_telegramVars
                  /\ \A p \in Pollers : WF_telegramVars(Poll(p))

-----------------------------------------------------------------------------
Times(u) == Cardinality({i \in DOMAIN events : events[i] = u})

FromOperator == {u \in Updates : Messages[u].from = "operator"}

(* No command is lost: the offset passes an update of the operator only once *)
(* it was acted on, whatever arrives while a batch is answered.              *)
OffsetPassesHandled == \A u \in FromOperator : u < offset => Times(u) > 0

(* A command is acted on again only after an interrupted poll: two pollers   *)
(* never act on the same update.                                             *)
RepeatedOnlyAfterBreak == \A u \in FromOperator : Times(u) <= 1 + breaks

(* telegram_polling.py: the stored offset passes no command of the operator  *)
(* that was not acted on, and only an interrupted poll repeats one.          *)
CommandsAppliedOnce == RepeatedOnlyAfterBreak /\ OffsetPassesHandled

(* Every command the operator sends is acted on, also when it takes several  *)
(* batches or a poll is interrupted.                                         *)
CommandsHandled == \A u \in FromOperator : (arrived >= u) ~> (Times(u) > 0)
=============================================================================
