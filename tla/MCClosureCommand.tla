-------------------------- MODULE MCClosureCommand --------------------------
(* Small instances of ClosureCommand for TLC.                              *)
EXTENDS ClosureCommand, TLC

CONSTANTS p1, p2, m1, m2, r1, r2, h1, s1, t1, t2, c1, c2

W(from, to) == [from |-> from, to |-> to]
P(table, from, to) == [table |-> table, from |-> from, to |-> to]
VenueBand(from, to) == [from |-> from, to |-> to, channels |-> Channels, tables |-> {}]
TableBand(from, to) == [from |-> from, to |-> to, channels |-> {}, tables |-> {t1}]

MCTime == 1..3
AllSlots == {W(1, 2), W(2, 3), W(1, 3)}
ShortSlots == {W(1, 2), W(2, 3)}

\* A closure of the later part of the day, and one of the whole day.
VenueBands == (c1 :> VenueBand(2, 3) @@ c2 :> VenueBand(1, 3))
\* A closure of the later part of the day, and a block of one table.
TableBands == (c1 :> VenueBand(2, 3) @@ c2 :> TableBand(1, 2))

NoPatch == {}
\* A shift of the slot, and an edit that names no field of it (a party increase).
OneShift == {P(t1, 2, 3), P(None, None, None)}
\* The shift alone.
ShiftOnly == {P(t1, 2, 3)}

CreateOnly == {"create"}
DeskDoors == {"create", "edit"}
SeatDoors == {"create", "walkin", "hold"}

Symmetry == Permutations({p1, p2}) \cup Permutations({m1, m2}) \cup Permutations({r1, r2})
=============================================================================
