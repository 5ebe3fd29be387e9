----------------------------- MODULE MCDeposit -----------------------------
(* Small instances of Deposit for TLC: two requests and a few evenings.    *)
EXTENDS Deposit

CONSTANTS p1, p2

E(start, noShow, alone, may) == [start |-> start, noShow |-> noShow, alone |-> alone, may |-> may]

AllDoors == Routes \cup Settling

\* Everything at once, within the five minutes of the safety window.
Rush == E("held", "partial", FALSE, AllDoors \cup {"blind"})
\* One request at a time, over days, from the card's confirmation on.
Days == E("pending", "partial", TRUE, AllDoors \cup {"blind", "late", "lapse", "dashboard", "complete"})
\* The same under a policy that forfeits on a no-show, which staff retry.
Retries == E("held", "forfeit", TRUE, Routes \cup {"no_show", "late", "lapse"})
RushAndDays == {Rush, Days, Retries}

\* Requests differ in nothing but their names.
Symmetry == Permutations({p1, p2})
=============================================================================
