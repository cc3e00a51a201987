--------------------------- MODULE AbstractLedger ---------------------------
(***************************************************************************)
(* What the operation ledger promises about the two stores it joins, the   *)
(* Git branch and the StateStore: a change of the branch is declared before*)
(* it lands, and the next one lands only when every earlier one is known to*)
(* the StateStore.                                                         *)
(***************************************************************************)
CONSTANT Ops

VARIABLES
    intended,  \* operations declared in the ledger
    landed,    \* operations whose commit is on the branch
    known      \* operations whose run the StateStore has recorded

avars == <<intended, landed, known>>

AInit == intended = {} /\ landed = {} /\ known = {}

Declare(o) ==
    /\ o \notin intended
    /\ intended' = intended \cup {o}
    /\ UNCHANGED <<landed, known>>

Land(o) ==
    /\ o \in intended \ landed
    /\ landed \subseteq known
    /\ landed' = landed \cup {o}
    /\ UNCHANGED <<intended, known>>

Know(o) ==
    /\ o \notin known
    /\ known' = known \cup {o}
    /\ UNCHANGED <<intended, landed>>

ANext == \E o \in Ops : Declare(o) \/ Land(o) \/ Know(o)

ASpec == AInit /\ [][ANext]_avars
=============================================================================
