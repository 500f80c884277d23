---------------------------- MODULE Announcements ----------------------------
(***************************************************************************)
(* What the package documentation of internal/alert/alert.go promises the  *)
(* owner of one rule, without the counters that keep it: there is a belief *)
(* about the target, every change of it is announced at most once, the     *)
(* rest is silent, and a recovery is announced only to an owner whose last *)
(* word was an alert.                                                      *)
(***************************************************************************)
VARIABLES
    belief, \* "unknown", "up" or "down"
    said,   \* what was said in the last step
    told    \* the last thing that was said at all

promise == <<belief, said, told>>

Beliefs == {"unknown", "up", "down"}

Init == belief \in Beliefs /\ said = "none" /\ told = "none"

Says(words) ==
    /\ said' \in words
    /\ told' = IF said' = "none" THEN told ELSE said'

GoesDown == belief = "up" /\ belief' = "down" /\ Says({"none", "alert"})

ComesBack ==
    /\ belief = "down" /\ belief' = "up"
    /\ Says(IF told = "alert" THEN {"none", "recovered"} ELSE {"none"})

\* Nothing known any more, or something again, or no change of belief.
Silence ==
    /\ belief' \in Beliefs
    /\ belief' = belief \/ "unknown" \in {belief, belief'}
    /\ Says({"none"})

Next == GoesDown \/ ComesBack \/ Silence

Spec == Init /\ [][Next]_promise

==============================================================================
