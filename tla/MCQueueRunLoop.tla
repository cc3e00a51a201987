--------------------------- MODULE MCQueueRunLoop ---------------------------
(* The loop on three tasks: the second and the third conflict, and the third *)
(* depends on the first.                                                     *)
EXTENDS QueueRunLoop

CONSTANTS l1, l2

MCDependsOn == [t \in Tasks |-> IF t = 3 THEN {1} ELSE {}]
MCOverlaps  == {<<2, 3>>, <<3, 2>>}

Command(required, automatic, isolated, parallelism, max) ==
    [required |-> required, automatic |-> automatic, isolated |-> isolated,
     parallelism |-> parallelism, max |-> max, audit |-> TRUE]

(* One at a time, with the automatic critic, with an outside reviewer, and in *)
(* batches with and without a limit.                                          *)
MCConfigs == {Command(FALSE, FALSE, FALSE, 2, 2), Command(TRUE, TRUE, TRUE, 2, 0),
              Command(TRUE, FALSE, FALSE, 0, 0), Command(TRUE, FALSE, TRUE, 1, 1),
              Command(FALSE, FALSE, TRUE, 2, 0), Command(FALSE, FALSE, TRUE, 3, 2),
              [Command(FALSE, FALSE, TRUE, 2, 0) EXCEPT !.audit = FALSE]}

TwoBatches == {Command(FALSE, FALSE, TRUE, 2, 0)}
=============================================================================
