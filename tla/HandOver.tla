------------------------------ MODULE HandOver ------------------------------
(***************************************************************************)
(* How the SIO2 changes hands.  One user at a time holds it; only a caller *)
(* of mmceman that holds it exchanges the interrupt handler; and nobody    *)
(* lets go of it but with sio2man's handler in place.                      *)
(*                                                                         *)
(* MmceSio2 implements this, its lock taken to be sio2man's; Sio2Hook      *)
(* implements it too, and has to find that lock first.                     *)
(***************************************************************************)
CONSTANTS Callers, Pad, Nobody

VARIABLES holder,   \* of the SIO2
          handler   \* whose interrupt handler is installed

hvars == <<holder, handler>>

Init == holder = Nobody /\ handler = "sio2man"

Acquire(u) ==
    /\ holder = Nobody
    /\ holder' = u
    /\ UNCHANGED handler

Exchange(from, to) ==
    /\ holder \in Callers
    /\ handler = from
    /\ handler' = to
    /\ UNCHANGED holder

LetGo ==
    /\ holder # Nobody
    /\ handler = "sio2man"
    /\ holder' = Nobody
    /\ UNCHANGED handler

Next ==
    \/ \E u \in Callers \cup {Pad} : Acquire(u)
    \/ Exchange("sio2man", "mmce")
    \/ Exchange("mmce", "sio2man")
    \/ LetGo

Spec == Init /\ [][Next]_hvars

=============================================================================
