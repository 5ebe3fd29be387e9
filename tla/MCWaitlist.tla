----------------------------- MODULE MCWaitlist -----------------------------
(* Small instances of Waitlist for TLC.                                    *)
EXTENDS Waitlist

CONSTANTS g1, g2, g3, a1, a2

E(parties, may) == [parties |-> parties, may |-> may]

Three == <<g1, g2, g3>>
Two == <<g1, g2>>
Both == {"seated", "cancelled"}

\* Requests one at a time, with and without a queue. Jobs that cannot be
\* scheduled, processes that die and answers that are lost. Requests beside
\* each other, also about a party whose job cannot be scheduled.
Evenings ==
  {E(Three, Both), E(Two, Both \cup {"absent"}), E(Two, Both \cup {"error"}),
   E(Two, Both \cup {"crash", "error", "lost"}), E(Two, {"seated", "overlap"}),
   E(<<g1>>, Both \cup {"overlap", "error"})}
=============================================================================
