----------------------------- MODULE BodyStream -----------------------------
(***************************************************************************)
(* What a fetch processor promises to Varnish: after a length has been     *)
(* announced, the bytes of the body come in order, never more of them than *)
(* announced, and the end is reported when, and only when, all have come.  *)
(***************************************************************************)
EXTENDS Naturals

VARIABLES
    state,      \* "closed", "open", "ended"
    length,     \* the announced Content-Length
    sent        \* bytes delivered so far

vars == <<state, length, sent>>

Init == state = "closed" /\ length = 0 /\ sent = 0

Announce ==
    /\ state = "closed"
    /\ state' = "open"
    /\ length' \in Nat
    /\ sent' = sent

Send ==
    /\ state = "open"
    /\ sent' \in (sent + 1) .. length
    /\ UNCHANGED <<state, length>>

\* The last bytes, if any, come together with the end.
End ==
    /\ state = "open"
    /\ sent <= length
    /\ sent' = length
    /\ state' = "ended"
    /\ UNCHANGED length

Next == Announce \/ Send \/ End

Spec == Init /\ [][Next]_vars
=============================================================================
