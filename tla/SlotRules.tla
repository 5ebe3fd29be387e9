----------------------------- MODULE SlotRules -----------------------------
(***************************************************************************)
(* The pure rules every booking path of the reservations service shares:   *)
(* when two slot windows overlap, which statuses still hold a slot, which  *)
(* status changes the state machine allows, and what a closure band stops. *)
(*                                                                         *)
(* A window is a record [from, to] of instants, half open: [from, to).     *)
(* A closure is described by Band, a function of closures:                 *)
(*   from, to   the minutes the band covers                                *)
(*   channels   the booking channels it closes: both for a venue or        *)
(*              service closure, fewer for a "booking" closure, none for   *)
(*              a "tables" closure                                         *)
(*   tables     the tables a "tables" closure blocks, else {}              *)
(***************************************************************************)
EXTENDS Integers, Sequences, SequencesExt

Channels == {"online", "phone"}

Live == {"PENDING", "CONFIRMED"}
NotBooked == {"CANCELLED", "NO_SHOW"}
Statuses == Live \cup NotBooked \cup {"COMPLETED"}

\* The reservation state machine: the status changes a request may make.
Transitions ==
  {<<"PENDING", "CONFIRMED">>, <<"PENDING", "CANCELLED">>,
   <<"CONFIRMED", "COMPLETED">>, <<"CONFIRMED", "CANCELLED">>,
   <<"CONFIRMED", "NO_SHOW">>}

\* The double-booking rule: two windows that touch do not overlap.
Overlaps(a, b) == a.from < b.to /\ b.from < a.to

InBand(minute, band) == band.from <= minute /\ minute < band.to

ClosesSeating(band, minute, channel) ==
  InBand(minute, band) /\ channel \in band.channels

BlocksTable(band, minute, table) ==
  InBand(minute, band) /\ table \in band.tables

ClosesVenue(band) == band.channels = Channels

\* A venue band that cuts into a booking after it has started.
RunsIntoBand(band, win) ==
  ClosesVenue(band) /\ band.from > win.from /\ band.from < win.to

(***************************************************************************)
(* strandReason: what a staff booking at this minute would be told by the  *)
(* rules in force, in the order they were saved. The first band that stops *)
(* the seating answers; only a venue-wide answer counts as a stranding, a  *)
(* "booking_closed" one does not. Blocked tables are looked at last.       *)
(***************************************************************************)
Strands(bands, minute, table) ==
  LET stops(i) == ClosesSeating(bands[i], minute, "phone")
  IN  \/ \E i \in DOMAIN bands : /\ stops(i) /\ \A j \in 1..(i - 1) : ~stops(j)
                                 /\ ClosesVenue(bands[i])
      \/ /\ \A i \in DOMAIN bands : ~stops(i)
         /\ \E i \in DOMAIN bands : BlocksTable(bands[i], minute, table)
=============================================================================
