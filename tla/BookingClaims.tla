---------------------------- MODULE BookingClaims ----------------------------
(***************************************************************************)
(* Booking as an implementation of SlotClaims: which claims the rows of    *)
(* the two tables stand for.                                               *)
(***************************************************************************)
EXTENDS Booking

\* The windows a claim may have: those that end after they start.
Forward == {w \in Window : w.from < w.to}

ASSUME NoneIsNoClaim == None \notin [table : Table, win : Window]

ClaimOfRow(row) == [table |-> row.table, win |-> row.win]

BookedClaims == [r \in Rsv |-> IF Booked(r) THEN ClaimOfRow(res[r]) ELSE None]
HeldClaims == [h \in Hold |-> IF IsLive(h) THEN ClaimOfRow(hold[h]) ELSE None]
LapsedHolds == {h \in Hold : IsLive(h) /\ ~Active(h)}
SeatedWalkIns == {r \in Rsv : Booked(r) /\ res[r].walkIn}

Claims == INSTANCE SlotClaims WITH
  Slot <- Forward, booked <- BookedClaims, held <- HeldClaims,
  lapsed <- LapsedHolds, seated <- SeatedWalkIns

\* Locked, re-checked and stale as its reads are, every request acts on the
\* slots as one step that is granted only when no claim stands in its way
\* (book-slot.ts, hold.ts, confirm-hold.ts, move-to-hold.ts, reservation.ts).
BooksAsOneStep == Claims!Spec
=============================================================================
