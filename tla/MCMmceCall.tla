----------------------------- MODULE MCMmceCall -----------------------------
(* The commands for TLC's runs of MmceCall. *)
EXTENDS MmceCall

AllButSectors == Commands \ {"read_sector"}
SectorsOnly == {"read_sector"}

=============================================================================
