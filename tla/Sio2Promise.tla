----------------------------- MODULE Sio2Promise -----------------------------
(***************************************************************************)
(* What the transfer engine promises its callers and sio2man.  One user at *)
(* a time holds the SIO2.  A holder transfers one request after another;   *)
(* a request is reported done only after the card answered it, and given   *)
(* up only after its own time had run out, unless the users were disturbed *)
(* by a change of the settings; after one given up the holder asks for     *)
(* nothing more, it lets go.                                               *)
(***************************************************************************)
CONSTANTS Threads, Pad, Nobody

VARIABLES owner,     \* who holds the SIO2
          request,   \* of the holder: none, open, done, timeout
          answered,  \* has the card answered the open request?
          expired,   \* has the open request's time run out?
          disturbed  \* have the settings been changed while one held the SIO2?

pvars == <<owner, request, answered, expired, disturbed>>

Init ==
    /\ owner = Nobody
    /\ request = "none"
    /\ answered = FALSE
    /\ expired = FALSE
    /\ disturbed = FALSE

Acquire(u) ==
    /\ owner = Nobody
    /\ owner' = u
    /\ UNCHANGED <<request, answered, expired, disturbed>>

Ask ==
    /\ owner \in Threads
    /\ request \in {"none", "done"}
    /\ request' = "open"
    /\ UNCHANGED <<owner, answered, expired, disturbed>>

Answer ==
    /\ request = "open"
    /\ answered' = TRUE
    /\ UNCHANGED <<owner, request, expired, disturbed>>

Expire ==
    /\ request = "open"
    /\ expired' = TRUE
    /\ UNCHANGED <<owner, request, answered, disturbed>>

Report(outcome, reason) ==
    /\ request = "open"
    /\ reason
    /\ request' = outcome
    /\ answered' = FALSE
    /\ expired' = FALSE
    /\ UNCHANGED <<owner, disturbed>>

Disturb ==
    /\ owner \in Threads
    /\ disturbed' = TRUE
    /\ UNCHANGED <<owner, request, answered, expired>>

LetGo ==
    /\ owner # Nobody
    /\ request # "open"
    /\ owner' = Nobody
    /\ request' = "none"
    /\ UNCHANGED <<answered, expired, disturbed>>

Next ==
    \/ \E u \in Threads \cup {Pad} : Acquire(u)
    \/ Ask
    \/ Answer
    \/ Expire
    \/ Report("done", answered)
    \/ Report("timeout", expired \/ disturbed)
    \/ Disturb
    \/ LetGo

Spec == Init /\ [][Next]_pvars

=============================================================================
