-------------------------- MODULE MCTaskLifecycle --------------------------
(* The task queue on four small instances, one run: `part` tells which.     *)
(* The module's own constants are those of the part "review".               *)
EXTENDS TaskLifecycle, TLC

CONSTANTS x, y, w1, w2

VARIABLE part

Item(id, deps, pri) == [id |-> id, deps |-> deps, pri |-> pri]

(* One task with required review, possibly enqueued again after it closed,  *)
(* two commands, and reviewers outside.                                     *)
TwoIds      == {x, y}
TwoWorkers  == {w1, w2}
ReviewBatch == {<<Item(x, {}, 0)>>}

(* The same with an automatic critic, and a run less.                       *)
Critic == INSTANCE TaskLifecycle WITH Automatic <- TRUE, MaxRuns <- 2

(* Two tasks in either dependency, one by one and as a batch.               *)
Graph == INSTANCE TaskLifecycle WITH
  MaxEntries <- 3, MaxRuns <- 2,
  Batches <- {<<Item(x, {}, 0)>>, <<Item(y, {}, 1)>>, <<Item(x, {y}, 0)>>,
              <<Item(y, {x}, 1)>>, <<Item(x, {}, 0), Item(y, {x}, 1)>>,
              <<Item(x, {y}, 0), Item(y, {x}, 0)>>}

(* Without reviews a good result closes the task; two commands.             *)
Plain == INSTANCE TaskLifecycle WITH
  Required <- FALSE, MaxEntries <- 3, MaxRuns <- 2,
  Batches <- {<<Item(x, {}, 0)>>, <<Item(y, {}, 1)>>, <<Item(x, {y}, 0)>>,
              <<Item(y, {x}, 1)>>}

ASSUME PartConstants == Critic!ConstantsOK /\ Graph!ConstantsOK /\ Plain!ConstantsOK

-----------------------------------------------------------------------------
(* On the graph one command runs at a time.                                 *)
PartsInit == /\ part \in {"review", "critic", "graph", "plain"}
             /\ Init
             /\ alone = (part = "graph")
             /\ part = "review" => orderly
             /\ part = "critic" => ~orderly

PartsNext == /\ \/ part = "review" /\ Next
                \/ part = "critic" /\ Critic!Next
                \/ part = "graph" /\ Graph!Next
                \/ part = "plain" /\ Plain!Next
             /\ UNCHANGED part

PartsSpec == PartsInit /\ [][PartsNext]_<<part, vars>>

(* import_decision: where a review is required a task closes on an approval *)
(* of one of its own bundles, and of the commit it records if one command   *)
(* runs at a time.                                                          *)
ReviewedIsApproved == part # "plain" => ClosedIsApproved

(* Queue commands are interchangeable.                                      *)
Commands == Permutations(Workers)
=============================================================================
