----------------------------- MODULE SlotClaims -----------------------------
(***************************************************************************)
(* What the booking core promises, with every request a single step: a     *)
(* table's time is claimed by bookings and by holds, a claim is granted    *)
(* only when no other claim stands in its way, and a hold is spent once.   *)
(* Nothing here knows of transactions, locks or stale reads.               *)
(***************************************************************************)
EXTENDS SlotRules, FiniteSets

CONSTANTS Rsv, Hold, Table, Slot, None

VARIABLES
  booked,   \* the claim of each booking, or None
  held,     \* the claim of each hold, or None
  lapsed,   \* the holds whose time is up: they stand in nobody's way
  seated    \* the bookings of walk-ins

claims == <<booked, held, lapsed, seated>>

Claim == [table : Table, win : Slot]

Clash(a, b) ==
  a # None /\ b # None /\ a.table = b.table /\ Overlaps(a.win, b.win)

NoBooking(c, r) == \A x \in Rsv \ {r} : ~Clash(booked[x], c)
NoHolds(c, mine) == \A x \in Hold \ (mine \cup lapsed) : ~Clash(held[x], c)

Without(hs) == [h \in Hold |-> IF h \in hs THEN None ELSE held[h]]

Init ==
  /\ booked = [r \in Rsv |-> None]
  /\ held = [h \in Hold |-> None]
  /\ lapsed = {}
  /\ seated = {}

\* A hold is placed; the holds it replaces go in the same step.
Place(h, c, replaced) ==
  /\ held[h] = None
  /\ NoBooking(c, None) /\ NoHolds(c, replaced)
  /\ held' = [Without(replaced) EXCEPT ![h] = c]
  /\ lapsed' = lapsed \ replaced
  /\ UNCHANGED <<booked, seated>>

Lapse(h) ==
  /\ held[h] # None
  /\ lapsed' = lapsed \cup {h}
  /\ UNCHANGED <<booked, held, seated>>

Release(hs) ==
  /\ hs # {}
  /\ held' = Without(hs)
  /\ lapsed' = lapsed \ hs
  /\ UNCHANGED <<booked, seated>>

\* A hold becomes a booking, or a booking moves onto it: the hold is spent.
Spend(h, r) ==
  /\ held[h] # None
  /\ NoBooking(held[h], r) /\ NoHolds(held[h], {h})
  /\ booked' = [booked EXCEPT ![r] = held[h]]
  /\ held' = Without({h})
  /\ lapsed' = lapsed \ {h}
  /\ UNCHANGED seated

\* A booking is made, or moved, with no hold.
Book(r, c) ==
  /\ NoBooking(c, r) /\ NoHolds(c, {})
  /\ booked' = [booked EXCEPT ![r] = c]
  /\ UNCHANGED <<held, lapsed, seated>>

\* A walk-in is seated: holds do not stop it.
Seat(r, c) ==
  /\ booked[r] = None
  /\ NoBooking(c, r)
  /\ booked' = [booked EXCEPT ![r] = c]
  /\ seated' = seated \cup {r}
  /\ UNCHANGED <<held, lapsed>>

Free(r) ==
  /\ booked[r] # None
  /\ booked' = [booked EXCEPT ![r] = None]
  /\ seated' = seated \ {r}
  /\ UNCHANGED <<held, lapsed>>

Next ==
  \/ \E h \in Hold, c \in Claim, replaced \in SUBSET Hold : Place(h, c, replaced)
  \/ \E h \in Hold : Lapse(h)
  \/ \E hs \in SUBSET Hold : Release(hs)
  \/ \E h \in Hold, r \in Rsv : Spend(h, r)
  \/ \E r \in Rsv, c \in Claim : Book(r, c) \/ Seat(r, c)
  \/ \E r \in Rsv : Free(r)

Spec == Init /\ [][Next]_claims
=============================================================================
