---------------------------- MODULE JournalFiles ----------------------------
(***************************************************************************)
(* The append-only evidence of a state root: interaction-journal.jsonl      *)
(* (journal.py) and usage-metrics.jsonl (metrics.py), both written with     *)
(* durable_io.py under the state lease.                                     *)
(*                                                                          *)
(* Appending is reading every record, and replacing the file by one with a  *)
(* record more.  The callers are agent invocations: what goes out and what  *)
(* comes in is journaled and then looked at for usage, which is cumulative  *)
(* in a call, and recorded once, at the payload that ends it.  Nothing that *)
(* goes wrong on the way may reach the agent's protocol: it is swallowed.   *)
(***************************************************************************)
EXTENDS Naturals, Sequences, SequencesExt, FiniteSets, FiniteSetsExt

CONSTANTS
    Callers,       \* invocations
    Nobody,
    Texts,         \* what payloads hold: "plain", "separator" (U+2028, U+0085, ...)
    MaxTokens,     \* bound: what an agent says it used
    MaxPayloads    \* bound: payloads of all invocations

ASSUME JournalConstants == Nobody \notin Callers /\ MaxTokens \in Nat

VARIABLES
    file,        \* the records of each file
    stateLease,  \* the holder of the state lease
    call,        \* each invocation and its sink
    returned     \* ghost: the records whose append returned

journalVars == <<file, stateLease, call, returned>>

-----------------------------------------------------------------------------
Files == {"journal", "usage"}

Payload(direction, ends, tokens, text) ==
    [direction |-> direction, ends |-> ends, tokens |-> tokens, text |-> text]

Nothing == Payload("none", FALSE, 0, "plain")

\* `said` is the agent's total; `usage` what the sink has merged, `seen` what
\* the last report it looked at said; `unsure`: an append that failed late.
JournalInit ==
    /\ file = [f \in Files |-> <<>>]
    /\ stateLease = Nobody
    /\ call = [c \in Callers |->
                 [pc |-> "idle", payloads |-> 0, payload |-> Nothing, said |-> 0, usage |-> 0,
                  seen |-> 0, recorded |-> FALSE, snapshot |-> <<>>, unsure |-> FALSE]]
    /\ returned = {}

\* The file a caller is about to append to.
Target(c) == IF call[c].pc \in {"journal", "journaling"} THEN "journal" ELSE "usage"

\* read_jsonl: lines are split where str.splitlines does, and json.dumps with
\* ensure_ascii=False leaves the separators in.
Readable(f) == \A i \in DOMAIN file[f] : file[f][i].text # "separator"

\* What is appended: the payload, or the usage of the whole call, or a score.
NewRecord(c) ==
    LET p == call[c].payload
        journaled == Target(c) = "journal" IN
    [by |-> c, number |-> call[c].payloads, kind |-> p.direction,
     tokens |-> IF journaled \/ p.direction = "quality" THEN 0 ELSE call[c].usage,
     text |-> IF journaled THEN p.text ELSE "plain"]

-----------------------------------------------------------------------------
(***************************************************************************)
(* A payload.                                                              *)
(***************************************************************************)
Presents(c, at, payload) ==
    call' = [call EXCEPT ![c].pc = at, ![c].payloads = @ + 1, ![c].payload = payload,
                         ![c].said = IF payload.tokens = 0 THEN @ ELSE payload.tokens]

\* The first payload goes out, then answers come in; what they say of the usage
\* only grows, and 0 stands for nothing said.  The result may be scored, in the
\* metrics alone.
Emit(c) ==
    /\ call[c].pc = "idle" /\ MapThenSumSet(LAMBDA d : call[d].payloads, Callers) < MaxPayloads
    /\ \/ /\ call[c].payloads = 0
          /\ \E text \in Texts : Presents(c, "journal", Payload("outbound", FALSE, 0, text))
       \/ /\ call[c].payloads > 0
          /\ \E text \in Texts, ends \in BOOLEAN, tokens \in {0} \cup call[c].said..MaxTokens :
                Presents(c, "journal", Payload("inbound", ends, tokens, text))
       \/ /\ call[c].recorded
          /\ Presents(c, "usage", Payload("quality", FALSE, 0, "plain"))
    /\ UNCHANGED <<file, stateLease, returned>>

\* Slip: the append does not wait for the lease.
FreeAnyway(c) == stateLease \in {Nobody} \cup Callers

Free(c) == stateLease = Nobody

\* atomic_append_jsonl under the lease: the records there are ...
Read(c) ==
    /\ call[c].pc \in {"journal", "usage"} /\ Free(c) /\ Readable(Target(c))
    /\ stateLease' = c
    /\ call' = [call EXCEPT ![c].pc = IF @ = "journal" THEN "journaling" ELSE "using",
                            ![c].snapshot = file[Target(c)]]
    /\ UNCHANGED <<file, returned>>

Leaves(c) == stateLease' = IF stateLease = c THEN Nobody ELSE stateLease

Replaced(c) == file' = [file EXCEPT ![Target(c)] = Append(call[c].snapshot, NewRecord(c))]

Rests(c) == call' = [call EXCEPT ![c].pc = "idle", ![c].payload = Nothing, ![c].snapshot = <<>>]

\* ... and one more.
Replace(c) ==
    /\ call[c].pc \in {"journaling", "using"}
    /\ Replaced(c) /\ Leaves(c)
    /\ returned' = returned \cup {<<Target(c), NewRecord(c)>>}
    /\ IF Target(c) = "journal"
       THEN call' = [call EXCEPT ![c].pc = "observe", ![c].snapshot = <<>>]
       ELSE call' = [call EXCEPT ![c].pc = "idle", ![c].payload = Nothing, ![c].snapshot = <<>>,
                                 ![c].recorded = TRUE]

\* The lease is contended for too long, the file is malformed, the disk is
\* full.  The payload is not looked at; most callers swallow the error, and
\* where it ends the call (supervisor_adapters.py:50) no payload follows, or
\* the call was over.
AppendRaises(c) ==
    /\ \/ call[c].pc \in {"journal", "usage"} /\ (~Free(c) \/ ~Readable(Target(c)))
       \/ call[c].pc \in {"journaling", "using"}
    /\ Rests(c) /\ Leaves(c)
    /\ UNCHANGED <<file, returned>>

\* The file is replaced, and its directory cannot be synced.
AppendRaisesLate(c) ==
    /\ call[c].pc \in {"journaling", "using"}
    /\ Replaced(c) /\ Leaves(c)
    /\ call' = [call EXCEPT ![c].pc = "idle", ![c].payload = Nothing, ![c].snapshot = <<>>,
                            ![c].unsure = TRUE]
    /\ UNCHANGED returned

-----------------------------------------------------------------------------
(***************************************************************************)
(* AdapterMetricsSink.                                                     *)
(***************************************************************************)
\* Slip: the tokens of every payload are added up.
MergedAdding(usage, tokens) == usage + tokens

Merged(usage, tokens) == IF tokens >= usage THEN tokens ELSE usage

Observe(c) ==
    LET p == call[c].payload
        counts == p.direction = "inbound" /\ ~call[c].recorded IN
    /\ call[c].pc = "observe"
    /\ IF counts
       THEN call' = [call EXCEPT ![c].usage = Merged(@, p.tokens),
                                 ![c].seen = IF p.tokens = 0 THEN @ ELSE p.tokens,
                                 ![c].pc = IF p.ends THEN "usage" ELSE "idle"]
       ELSE Rests(c)
    /\ UNCHANGED <<file, stateLease, returned>>

\* The process of an invocation dies; the kernel frees its lock.
Dies(c) ==
    /\ call[c].pc # "dead"
    /\ call' = [call EXCEPT ![c].pc = "dead", ![c].payload = Nothing, ![c].snapshot = <<>>]
    /\ Leaves(c)
    /\ UNCHANGED <<file, returned>>

-----------------------------------------------------------------------------
JournalNext ==
    \E c \in Callers :
        Emit(c) \/ Read(c) \/ Replace(c) \/ AppendRaises(c) \/ AppendRaisesLate(c) \/ Observe(c) \/ Dies(c)

JournalSpec == JournalInit /\ [][JournalNext]_journalVars

-----------------------------------------------------------------------------
\* UsageLedger.summary: the records that count as an invocation, of the group c
\* belongs to.
Counted(c) == {i \in DOMAIN file["usage"] : file["usage"][i].by = c /\ file["usage"][i].kind # "quality"}

(* A record whose append returned is in its file, no record is there twice,   *)
(* and the records of a process are in the order it appended them: no writer  *)
(* undoes another's.                                                         *)
AppendsAreKept ==
    /\ \A r \in returned : r[2] \in Range(file[r[1]])
    /\ \A f \in Files : \A i, k \in DOMAIN file[f] :
          i < k /\ file[f][i].by = file[f][k].by => file[f][i].number < file[f][k].number

(* An invocation is counted at most once however often it ends and reports,   *)
(* with what the last report said that HoH looked at; unless an append that   *)
(* took place was taken for one that did not.                                *)
UsageCountedOnce ==
    \A c \in Callers :
        call[c].unsure
        \/ IF call[c].recorded
           THEN \E i \in DOMAIN file["usage"] : Counted(c) = {i} /\ file["usage"][i].tokens = call[c].seen
           ELSE Counted(c) = {}

(* atomic_append_jsonl and AdapterMetricsSink: no record is lost or doubled,  *)
(* and no invocation counted twice.                                          *)
EvidenceIsKept == AppendsAreKept /\ UsageCountedOnce

(* What was appended can be read, and appended to: a payload's characters do  *)
(* not make its file unreadable.                                              *)
AppendsAreRead == \A f \in Files : Readable(f)

-----------------------------------------------------------------------------
Records ==
    [by : Callers, number : Nat, kind : {"none", "outbound", "inbound", "quality"},
     tokens : Nat, text : Texts \cup {"plain"}]

Payloads ==
    [direction : {"none", "outbound", "inbound", "quality"}, ends : BOOLEAN,
     tokens : Nat, text : Texts \cup {"plain"}]

Invocations ==
    [pc : {"idle", "journal", "journaling", "observe", "usage", "using", "dead"}, payloads : Nat,
     payload : Payloads, said : Nat, usage : Nat, seen : Nat, recorded : BOOLEAN,
     snapshot : Seq(Records), unsure : BOOLEAN]

JournalTypeOK ==
    /\ file \in [Files -> Seq(Records)]
    /\ stateLease \in Callers \cup {Nobody}
    /\ call \in [Callers -> Invocations]
    /\ returned \in SUBSET (Files \X Records)

\* Who is about to replace a file has the lease, and the file is what it read.
SnapshotHeld ==
    \A c \in Callers : call[c].pc \in {"journaling", "using"} =>
        stateLease = c /\ call[c].snapshot = file[Target(c)]

\* The payload c works on is not in the file f yet.
IsNew(c, f) ==
    call[c].pc \in IF f = "journal" THEN {"journal", "journaling"}
                   ELSE {"journal", "journaling", "observe", "usage", "using"}

\* Records are of payloads c has had, and not of one it has yet to append.
Numbered ==
    \A f \in Files : \A i \in DOMAIN file[f] :
        LET r == file[f][i] IN
        r.number <= call[r.by].payloads /\ (IsNew(r.by, f) => r.number < call[r.by].payloads)

\* What the sink merged is the last report it saw, and the usage of a call is
\* appended by a call that has not recorded it, a score by one that has.
UsageFollows ==
    \A c \in Callers :
        /\ call[c].usage = call[c].seen /\ call[c].seen <= call[c].said
        /\ call[c].payload.tokens \in {0, call[c].said}
        /\ call[c].pc \in {"usage", "using"} =>
              (call[c].recorded <=> call[c].payload.direction = "quality")

(* What makes EvidenceIsKept inductive.                                       *)
JournalInvariant == SnapshotHeld /\ Numbered /\ UsageFollows /\ EvidenceIsKept
=============================================================================
