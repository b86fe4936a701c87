----------------------------- MODULE MCMmceSio2 -----------------------------
(* Instances of MmceSio2 for TLC: two threads and one other client. *)
EXTENDS MmceSio2

CONSTANTS t1, t2

MCThreads == {t1, t2}
OnOff == BOOLEAN

=============================================================================
