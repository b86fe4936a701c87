----------------------------- MODULE MCSio2Hook -----------------------------
(* Instances of Sio2Hook for TLC: the sio2man of ps2sdk with both of its     *)
(* interfaces, that of a game with the newest one, an old one, and one with  *)
(* a version after the newest.                                               *)
EXTENDS Sio2Hook

Sdk == <<<<1, 2>>, <<2, 7>>>>
Game == <<<<2, 7>>>>
Old == <<<<1, 1>>>>
After == <<<<2, 8>>>>

MCDrivers == {Sdk, Game, Old, After}

=============================================================================
