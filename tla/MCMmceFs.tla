------------------------------ MODULE MCMmceFs ------------------------------
(* The commands and descriptors for TLC's runs of MmceFs. *)
EXTENDS MmceFs

\* One command of each way through the handlers; the reserved descriptor.
EveryWay == {"open", "close", "dopen", "dclose", "read", "remove", "devctl", "reset"}
SomeReserved == {1, 250}

\* What two callers may be inside of together: anything but an open.
OverlapOps == {"open", "close", "dopen", "dclose", "read", "remove"}
AllButOpens == OverlapOps \ Opens

OpenOnly == {"open"}
NameOnly == {"remove"}
Nothing == {}
SomeFds == {1, 2, 3}
MixedFds == {1, 2, 250}

=============================================================================
