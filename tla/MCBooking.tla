----------------------------- MODULE MCBooking -----------------------------
(* Small instances of Booking and of its refinement of SlotClaims, for TLC. *)
EXTENDS BookingClaims, TLC

CONSTANTS p1, p2, r1, r2, h1, h2, s1, s2, t1, t2

W(from, to) == [from |-> from, to |-> to]
P(table, from, to) == [table |-> table, from |-> from, to |-> to]

MCTime == 1..3
LongAndShort == {W(1, 3), W(2, 3)}
TouchingSlots == {W(1, 2), W(2, 3)}

NoBand == [c \in {} |-> None]

NoPatch == {}
\* Staff edits that name the table and the end of the slot, the start or not.
WholePatches == {P(t1, 1, 2), P(t2, None, 3)}
\* Edits of one field, as the PATCH body allows.
OneFieldPatches == {P(t2, None, None), P(None, None, 3)}

HoldDoors == Door \ {"edit"}
StaffDoors == {"create", "edit"}

Symmetry == Permutations({p1, p2}) \cup Permutations({r1, r2})
              \cup Permutations({h1, h2}) \cup Permutations({s1, s2})
=============================================================================
