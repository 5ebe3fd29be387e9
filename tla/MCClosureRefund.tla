-------------------------- MODULE MCClosureRefund --------------------------
(* Small instances of ClosureRefund and ClosureNotice for TLC. The two     *)
(* kinds of jobs write different columns of the outcome, and of each       *)
(* other's a notice reads the refund for its text only, so a behaviour has *)
(* one of them at work.                                                    *)
EXTENDS ClosureNotice

CONSTANTS j1

G(preference, has) == [preference |-> preference, has |-> has]
\* A guest to be told both ways, one who prefers what the booking lacks, and one out of reach.
SomeGuests == {G("both", {"email", "sms"}), G("sms_only", {"email"}), G("email_only", {})}
OneGuest == {G("both", {"email", "sms"})}

\* The refund of a guest, whose notice is left alone, and the notices of a guest who is owed nothing.
S(start, charge, may) ==
  [row |-> start, intent |-> charge, owed |-> "pending", guests |-> OneGuest, may |-> may]
N(guests, may) ==
  [row |-> "uncollectable", intent |-> "canceled", owed |-> "none", guests |-> guests, may |-> may]

\* Two jobs beside each other and refunds that hold: from a card that is not confirmed
\* yet, with a late cancellation beside them, and from a hold that may lapse.
Beside == S("pending", "unconfirmed", {})
BesideLapse == S("held", "requires_capture", {"lapse"})
\* One job after another, and everything that can go wrong. Left out, because the code
\* then leaves a failed refund "done", is one order: an outcome is recorded between
\* the two statements of the refund webhook (without "whole", SettledIsTrue fails).
OneByOne == S("pending", "unconfirmed", {"solo", "whole", "lapse", "failing", "dashboard", "faults"})

\* Nothing is owed. The closure's notice with all that can go wrong; and two
\* notices, the attempts of a reopening's between those of the closure's own.
Notice == N(SomeGuests, {"notice", "edits", "faults"})
TwoNotices == N(OneGuest, {"notice", "reopen", "orderly", "faults"})

AllSettings == {Beside, BesideLapse, OneByOne, Notice, TwoNotices}
\* Two jobs beside each other, and a refund that fails.
FailingBeside == {S("forfeited", "succeeded", {"failing", "whole"})}
=============================================================================
