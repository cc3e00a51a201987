----------------------------- MODULE A2AClients -----------------------------
(***************************************************************************)
(* Role invocations over A2A: the client (a2a.py), the shared loopback push *)
(* receiver and its inbox (a2a_push.py), and what the adapters make of the  *)
(* result (a2a_adapters.py).                                                *)
(*                                                                          *)
(* Each client is a thread that sends one message; the remote agent runs it *)
(* as one task, named by the client.  A client learns of its task from a    *)
(* stream, from pushed events or by polling.  What names no task is all it   *)
(* will learn.  Clients with the same callback share one receiver, counted  *)
(* by references.                                                           *)
(***************************************************************************)
EXTENDS Integers, Sequences, FiniteSets, SequencesExt

CONSTANTS
    Clients,
    Mixes,       \* client -> "stream", "push" or "poll": the mixes looked at
    MaxEmits,    \* client -> bound: events of its task
    EventLimit,  \* max_events_per_task
    TaskLimit    \* max_tasks

Ways == {"stream", "push", "poll"}

\* Both limits of an inbox are 1000 unless a caller says otherwise.
ASSUME A2AConstants ==
    /\ IsFiniteSet(Clients)
    /\ Mixes \subseteq [Clients -> Ways] /\ MaxEmits \in [Clients -> Nat]
    /\ EventLimit \in Nat \ {0} /\ TaskLimit \in Nat \ {0}

VARIABLES
    remote,     \* the agent: per task its state and the events it emitted
    net,        \* per task, the pushed events under way: positions in emitted
    receiver,   \* the managed loopback receiver: references and inbox
    calls,      \* per client, where it is, the states it saw and its end
    recorded    \* per task, every event its receiver accepted for this client

a2aVars == <<remote, net, receiver, calls, recorded>>

-----------------------------------------------------------------------------
Working  == "WORKING"
Failures == {"FAILED", "CANCELED"}
Terminal == {"COMPLETED"} \cup Failures

\* An event that has the parts or the role of a message and no state.  (What
\* has neither, as an artifact, tells no more of its task than "WORKING".)
Message == "message"

Unsent == [state |-> "none", emitted |-> <<>>]

\* `tasks` is the insertion order of the dictionary.
EmptyInbox == [tasks |-> <<>>, events |-> [c \in Clients |-> <<>>]]

Closed == [references |-> 0, running |-> FALSE, inbox |-> EmptyInbox, evicted |-> {}]

\* `named`: what was read named a task.
Fresh(delivery) == [pc |-> "prepare", by |-> delivery, seen |-> <<>>, named |-> TRUE, end |-> "none"]

A2AInit ==
    /\ remote = [c \in Clients |-> Unsent]
    /\ net = [c \in Clients |-> {}]
    /\ receiver = Closed
    /\ calls \in {[c \in Clients |-> Fresh(mix[c])] : mix \in Mixes}
    /\ recorded = [c \in Clients |-> <<>>]

Becomes(c, local) == calls' = [calls EXCEPT ![c] = local]
Goto(c, pc)     == Becomes(c, [calls[c] EXCEPT !.pc = pc])

\* Whatever happens inside the receiver's context, it is left on the way out.
Leaving(c, local, end) ==
    [local EXCEPT !.end = end, !.pc = IF local.by = "push" THEN "leave" ELSE "ended"]
End(c, end) == Becomes(c, Leaving(c, calls[c], end))

-----------------------------------------------------------------------------
(***************************************************************************)
(* The remote agent and the network.                                       *)
(***************************************************************************)
Emit(c, event) ==
    /\ remote' = [remote EXCEPT ![c] =
                    [state |-> IF event = Message THEN Working ELSE event,
                     emitted |-> Append(@.emitted, event)]]
    /\ net' = IF calls[c].by = "push"
              THEN [net EXCEPT ![c] = @ \cup {Len(remote[c].emitted) + 1}] ELSE net

RemoteStep(c) ==
    /\ remote[c].state = Working /\ Len(remote[c].emitted) < MaxEmits[c]
    /\ \E event \in {Working, "COMPLETED", "FAILED", Message} : Emit(c, event)
    /\ UNCHANGED <<receiver, calls, recorded>>

\* A new task evicts the oldest one of a full inbox.
Evicted(inbox, c) ==
    IF c \notin ToSet(inbox.tasks) /\ Len(inbox.tasks) >= TaskLimit
    THEN {Head(inbox.tasks)} ELSE {}

\* A2APushInbox.record: a new event drops the oldest event of its task.
Record(inbox, c, state) ==
    LET gone == Evicted(inbox, c)
        kept == IF gone = {} THEN inbox.tasks ELSE Tail(inbox.tasks)
        events == [d \in Clients |-> IF d \in gone THEN <<>> ELSE inbox.events[d]]
        target == Append(events[c], state)
    IN [tasks |-> IF c \in ToSet(kept) THEN kept ELSE Append(kept, c),
        events |-> [events EXCEPT ![c] =
                      SubSeq(target, IF Len(target) > EventLimit THEN 2 ELSE 1, Len(target))]]

\* An event is delivered out of order, or never; no receiver, no delivery.
Deliver(c) ==
    /\ receiver.running
    /\ \E i \in net[c] :
          LET state == remote[c].emitted[i] IN
             /\ net' = [net EXCEPT ![c] = @ \ {i}]
             /\ receiver' = [receiver EXCEPT !.inbox = Record(@, c, state),
                                             !.evicted = @ \cup Evicted(receiver.inbox, c)]
             /\ recorded' = [recorded EXCEPT ![c] = Append(@, state)]
    /\ UNCHANGED <<remote, calls>>

-----------------------------------------------------------------------------
(***************************************************************************)
(* A2AClient.send_message, and the adapter around it.                      *)
(***************************************************************************)
\* What is asked of the agent: a Worker's task needs allowed paths and a
\* snapshot of them within the limits.
Prepare(c) ==
    /\ calls[c].pc = "prepare"
    /\ \/ Goto(c, "discover")
       \/ Becomes(c, [calls[c] EXCEPT !.pc = "returned", !.end = "final"])
    /\ UNCHANGED <<remote, net, receiver, recorded>>

\* The Agent Card is fetched; a card that is not usable, or asks for an
\* authentication the connection does not have, ends the call.
Discover(c) ==
    /\ calls[c].pc = "discover"
    /\ \/ Becomes(c, [calls[c] EXCEPT !.pc = "ended", !.end = "error"])
       \/ Goto(c, IF calls[c].by = "push" THEN "enter" ELSE "send")
    /\ UNCHANGED <<remote, net, receiver, recorded>>

\* managed_loopback_push_receiver: the first client starts it; a port that is
\* taken or a token that is missing ends the call.
Enter(c) ==
    /\ calls[c].pc = "enter"
    /\ \/ /\ receiver' = [receiver EXCEPT !.references = @ + 1, !.running = TRUE]
          /\ Goto(c, "send")
       \/ /\ ~receiver.running
          /\ Becomes(c, [calls[c] EXCEPT !.pc = "ended", !.end = "error"])
          /\ UNCHANGED receiver
    /\ UNCHANGED <<remote, net, recorded>>

\* Slip: whoever leaves stops the receiver.
LeaveStopping(c) ==
    /\ calls[c].pc = "leave"
    /\ receiver' = [Closed EXCEPT !.references = receiver.references - 1,
                                  !.evicted = receiver.evicted]
    /\ Goto(c, "ended")
    /\ UNCHANGED <<remote, net, recorded>>

\* The last client stops it, and its inbox is gone.
Leave(c) ==
    /\ calls[c].pc = "leave"
    /\ receiver' = IF receiver.references = 1
                   THEN [Closed EXCEPT !.evicted = receiver.evicted]
                   ELSE [receiver EXCEPT !.references = @ - 1]
    /\ Goto(c, "ended")
    /\ UNCHANGED <<remote, net, recorded>>

\* _stream_result: the last state among the events.
LastState(seen) == IF seen = <<>> THEN "" ELSE Last(seen)

\* Slip: every terminal state is a result.
OutcomeOf(event) == IF event \in Terminal \cup {Message} THEN "result" ELSE "none"

\* _task_state: a message is read as a completion.  A failure ends the call as
\* an error.
Outcome(event) ==
    CASE event \in Failures -> "error"
      [] event \in {"COMPLETED", Message} -> "result"
      [] OTHER -> "none"

\* The client goes on only with a task that has a name and is not over; without
\* a name, whatever is no failure is the result.
Taken(c, local, outcome, named, next) ==
    IF outcome # "none" THEN Leaving(c, local, outcome)
    ELSE IF named THEN next ELSE Leaving(c, [local EXCEPT !.named = FALSE], "result")

\* SendMessage or SendStreamingMessage starts the task; the request, or the
\* answer to it, may fail (network, HTTP status, credential, envelope).  The
\* answer of a stream is read as a stream.
Send(c) ==
    LET waiting == [calls[c] EXCEPT !.pc = calls[c].by] IN
    /\ calls[c].pc = "send"
    /\ \/ End(c, "error") /\ UNCHANGED <<remote, net>>
       \/ /\ Emit(c, Working)
          /\ End(c, "error")
       \/ \E event \in {Working, "COMPLETED", "FAILED", Message}, named \in BOOLEAN :
             /\ Emit(c, event)
             /\ Becomes(c, IF calls[c].by = "stream" THEN waiting
                           ELSE Taken(c, calls[c], Outcome(event), named, waiting))
    /\ UNCHANGED <<receiver, recorded>>

\* A2APushInbox.discard.
Discarded(c) ==
    LET tasks == receiver.inbox.tasks
        at == CHOOSE i \in DOMAIN tasks : tasks[i] = c
    IN [receiver EXCEPT !.inbox =
          [tasks |-> IF c \in ToSet(tasks) THEN RemoveAt(tasks, at) ELSE tasks,
           events |-> [@.events EXCEPT ![c] = <<>>]]]

\* Slip: all events, not those after the ones taken before.
UnreadAll(c) == receiver.inbox.events[c]

\* A2APushInbox.wait: the events after as many as were taken before.
Unread(c) ==
    LET events == receiver.inbox.events[c] IN SubSeq(events, Len(calls[c].seen) + 1, Len(events))

WaitForPush(c) ==
    LET seen == calls[c].seen \o Unread(c)
        outcome == Outcome(LastState(seen))
    IN /\ calls[c].pc = "push" /\ Unread(c) # <<>>
       /\ IF outcome = "none"
          THEN Becomes(c, [calls[c] EXCEPT !.seen = seen]) /\ UNCHANGED receiver
          ELSE /\ Becomes(c, Leaving(c, [calls[c] EXCEPT !.seen = seen], outcome))
               /\ receiver' = Discarded(c)
       /\ UNCHANGED <<remote, net, recorded>>

\* GetTask; an error ends the call and leaves the task to itself.
Poll(c) ==
    /\ calls[c].pc = "poll"
    /\ \/ End(c, "error") /\ UNCHANGED remote
       \/ /\ Outcome(remote[c].state) # "none"
          /\ End(c, Outcome(remote[c].state)) /\ UNCHANGED remote
       \/ /\ remote[c].state = Working
          /\ remote' = [remote EXCEPT ![c].emitted = Append(@, Message)] /\ End(c, Outcome(Message))
    /\ UNCHANGED <<net, receiver, recorded>>

\* The deadline: the task is cancelled, if the request gets through.
Timeout(c) ==
    /\ calls[c].pc \in {"push", "poll"}
    /\ \/ UNCHANGED <<remote, net>>
       \/ remote[c].state = Working /\ Emit(c, "CANCELED")
    /\ receiver' = IF calls[c].pc = "push" THEN Discarded(c) ELSE receiver
    /\ End(c, "timeout")
    /\ UNCHANGED recorded

\* _send_streaming: the stream ends after some of the events, one at least; a
\* task that is not over is subscribed to once more, if its name is known.
Stream(c) ==
    /\ calls[c].pc \in {"stream", "subscribed"}
    /\ \/ End(c, "error")
       \/ \E n \in (Len(calls[c].seen) + 1)..Len(remote[c].emitted), named \in BOOLEAN :
             LET local == [calls[c] EXCEPT !.seen = SubSeq(remote[c].emitted, 1, n)]
                 next == IF calls[c].pc = "stream" THEN [local EXCEPT !.pc = "subscribed"]
                         ELSE Leaving(c, local, "error")
             IN /\ calls[c].pc = "subscribed" => named
                /\ Becomes(c, Taken(c, local, Outcome(LastState(local.seen)), named, next))
    /\ UNCHANGED <<remote, net, receiver, recorded>>

\* The adapter: a result must hold a patch, a plan or a judgment of the closed
\* shape, or it is a final error; an error of the call may be retried.
AdapterReturns(c) ==
    /\ calls[c].pc = "ended"
    /\ \E verdict \in IF calls[c].end = "result" THEN {"usable", "final"} ELSE {"retryable"} :
          Becomes(c, [calls[c] EXCEPT !.pc = "returned", !.end = verdict])
    /\ UNCHANGED <<remote, net, receiver, recorded>>

-----------------------------------------------------------------------------
Call(c) ==
    \/ Prepare(c) \/ AdapterReturns(c) \/ Discover(c) \/ Enter(c) \/ Send(c) \/ WaitForPush(c) \/ Poll(c) \/ Timeout(c)
    \/ Stream(c) \/ Leave(c)

A2ANext == \E c \in Clients : Call(c) \/ RemoteStep(c) \/ Deliver(c)

A2ASpec == A2AInit /\ [][A2ANext]_a2aVars

-----------------------------------------------------------------------------
Inside(c) == calls[c].pc \in {"send", "push", "leave"} /\ calls[c].by = "push"

(* The receiver runs exactly while a client that shares it is inside its      *)
(* call, whichever of them came first or leaves last.                         *)
ReceiverHeld ==
    /\ receiver.references = Cardinality({c \in Clients : Inside(c)})
    /\ receiver.running <=> \E c \in Clients : Inside(c)

(* A call returns a result, and an adapter uses it, only for a task that      *)
(* completed, however events were delayed, reordered or lost: unless the     *)
(* agent answered without naming a task, or sent a message of it.            *)
ResultIsOfCompletedTask ==
    \A c \in Clients :
        calls[c].end \in {"result", "usable"} =>
            \/ remote[c].state = "COMPLETED"
            \/ ~calls[c].named
            \/ Message \in ToSet(remote[c].emitted)

(* Within the limits of the inbox a client sees each accepted event once and *)
(* in the order of acceptance, whatever arrives between two looks.           *)
EventsSeenOnce ==
    \A c \in Clients :
        /\ calls[c].by = "push"
        /\ c \notin receiver.evicted
        /\ Len(recorded[c]) <= EventLimit
        => IsPrefix(calls[c].seen, recorded[c])

(* a2a.py and a2a_push.py: what a remote agent answers is a message, what it *)
(* said without a task, or the result of the task it completed, and its      *)
(* events reach who waits for them once.                                    *)
RemoteResultsHold == ReceiverHeld /\ ResultIsOfCompletedTask /\ EventsSeenOnce
=============================================================================
