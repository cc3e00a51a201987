--------------------------- MODULE AbstractLease ---------------------------
(* What a lease promises its callers, with the kernel lock, the in-process  *)
(* RLock and the metadata file left out: at most one owner, no hand-over    *)
(* without an idle moment in between, and crash evidence that is exact: a   *)
(* grant reports a lost predecessor if and only if the previous lease did   *)
(* not end with its release marker on disk.                                 *)

CONSTANTS Threads,   \* everything that can own the lease
          None       \* no owner

VARIABLES owner,     \* the thread that owns the lease, or None
          abrupt,    \* while idle: the last lease ended without its marker
          reported   \* the last owner record carries crash evidence

avars == <<owner, abrupt, reported>>

AInit == /\ owner = None
         /\ abrupt = FALSE
         /\ reported = FALSE

(* A thread gets the free lease; it is told whether its predecessor was     *)
(* lost.                                                                    *)
Grant(t) == /\ owner = None
            /\ owner' = t
            /\ reported' = abrupt
            /\ abrupt' = FALSE

(* The owner record reached the disk but the grant failed: nobody owns the  *)
(* lease, and the record that stays behind counts as a lost owner.          *)
AbortGrant == /\ owner = None
              /\ reported' = abrupt
              /\ abrupt' = TRUE
              /\ UNCHANGED owner

(* The owner lets go, either cleanly or without leaving its marker.         *)
Drop == /\ owner # None
        /\ owner' = None
        /\ abrupt' \in BOOLEAN
        /\ UNCHANGED reported

ANext == \/ \E t \in Threads : Grant(t)
         \/ AbortGrant
         \/ Drop

ASpec == AInit /\ [][ANext]_avars
=============================================================================
