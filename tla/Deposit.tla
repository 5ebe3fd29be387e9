------------------------------ MODULE Deposit ------------------------------
(***************************************************************************)
(* The deposit of one reservation: its row, the PaymentIntent behind it at *)
(* the provider, and the requests and webhooks that move both.             *)
(*                                                                         *)
(* Every money move is database first: a request claims the row with a     *)
(* compare-and-set from "held", calls the provider, and on an error asks   *)
(* the provider what happened and may take the claim back. Answers get     *)
(* lost, requests land late, webhooks come late or twice, requests die.    *)
(*                                                                         *)
(* The provider keeps, per idempotency key, what it answered. Its own      *)
(* rules are external to this repository and modelled from their use here. *)
(* A deposit is worth two units: a partial refund returns one of them, and *)
(* a refund from the provider's dashboard returns one.                     *)
(***************************************************************************)
EXTENDS SlotRules

CONSTANTS
  Proc,      \* requests that may be served at the same time
  Evenings,  \* the settings a behaviour may have: where the deposit starts,
             \* the no-show policy, whether requests overlap, what may happen
  None

VARIABLES
  evening,  \* the setting of this behaviour, which never changes
  booking,  \* status of the reservation
  row,      \* the deposit's row: status, forfeit origin, and whether its
            \* capture timestamp is older than the safety window
  post,     \* postCaptureRefundCents
  intent,   \* status of the PaymentIntent
  said,     \* what the provider answered under each idempotency key
  ours,     \* refunds the service made
  theirs,   \* refunds made on the dashboard
  wire,     \* requests whose caller gave up and that may still arrive
  events,   \* webhooks the provider has yet to deliver, or will repeat
  h         \* where each request is, and what it has read

provider == <<intent, said, ours, events>>
vars == <<evening, booking, row, post, provider, theirs, wire, h>>

Routes == {"apply", "forfeit", "release"}
Settling == {"guest", "staff", "no_show"}
Ops == {"apply", "forfeit", "partial", "refund"}
Keys == Ops \cup {"pay"}

Captured == {"applied", "forfeited", "partial_refunded"}
DepositStatus == Captured \cup {"pending", "held", "refunded", "uncollectable"}

Target == [apply |-> "applied", forfeit |-> "forfeited",
           partial |-> "partial_refunded", refund |-> "refunded"]
Goal == [guest |-> "CANCELLED", staff |-> "CANCELLED", no_show |-> "NO_SHOW"]
Origin == [guest |-> "cancellation", no_show |-> "no_show", forfeit |-> "staff"]

Idle == [pc |-> "idle", door |-> None, saw |-> None, op |-> None, mine |-> FALSE,
         sure |-> FALSE, to |-> None, did |-> None, redo |-> FALSE, old |-> FALSE]

ASSUME DepositAssumption ==
  /\ None \notin DepositStatus \cup Ops \cup Routes \cup Settling
  /\ None \notin {"unconfirmed", "requires_capture", "succeeded", "canceled"}
  /\ \A e \in Evenings : /\ e.start \in {"pending", "held"}
                       /\ e.noShow \in {"refund", "partial", "forfeit"}
                       /\ e.alone \in BOOLEAN

May(what) == what \in evening.may

\* Nobody is at work on the deposit and nothing is on its way.
Quiet == wire = {} /\ \A p \in Proc : h[p] = Idle

-----------------------------------------------------------------------------
(* The provider. *)

Event(type, amount) == [type |-> type, amount |-> amount]

\* What a request asks for can still be done.
Possible(k) ==
  IF k = "pay" THEN intent = "succeeded" ELSE intent = "requires_capture"

IntentAfter(k) ==
  CASE k = "pay" -> intent [] k = "refund" -> "canceled" [] OTHER -> "succeeded"

\* The provider does what the request asks, once per idempotency key.
Execute(k) ==
  /\ said[k] = "nothing" /\ Possible(k)
  /\ said' = [said EXCEPT ![k] = "ok"]
  /\ intent' = IntentAfter(k)
  /\ ours' = IF k = "pay" THEN ours + 1 ELSE ours
  /\ events' = CASE k = "pay" -> events \cup {Event("refunded", ours + theirs + 1)}
                 [] k = "refund" -> events \cup {Event("released", 0)}
                 [] OTHER -> events

\* A refusal of what could be done is kept under the key.
Refuse(k) ==
  /\ said[k] = "nothing"
  /\ said' = IF Possible(k) THEN [said EXCEPT ![k] = "no"] ELSE said
  /\ UNCHANGED <<intent, ours, events>>

Replay(k, answer) == said[k] = answer /\ UNCHANGED provider

Answer(k, answer) ==
  \/ Replay(k, answer)
  \/ answer = "ok" /\ Execute(k)
  \/ answer = "no" /\ Refuse(k)

\* A call to the provider: it answers, or the answer never comes and the
\* request itself may still be on its way.
Reach(k, answer) ==
  \/ answer \in {"ok", "no"} /\ Answer(k, answer) /\ UNCHANGED wire
  \/ answer = "lost" /\ wire' = wire \cup {k} /\ UNCHANGED provider

\* What a retrieve of the intent, or a list of its refunds, may return:
\* the truth, or nothing when the provider cannot be reached.
Seen(truth) == IF May("blind") THEN {truth, None} ELSE {truth}

LateArrival(k) ==
  /\ k \in wire
  /\ wire' = wire \ {k}
  /\ \/ UNCHANGED provider
     \/ \E answer \in {"ok", "no"} : Answer(k, answer)
  /\ UNCHANGED <<evening, booking, row, post, theirs, h>>

\* The guest confirms the card; the authorisation lapses; somebody cancels
\* it on the dashboard.
IntentMoves(what, from, to, event) ==
  /\ what # "authorize" => May(what)
  /\ intent = from
  /\ intent' = to
  /\ events' = events \cup {Event(event, 0)}
  /\ UNCHANGED <<evening, booking, row, post, said, ours, theirs, wire, h>>

Authorize == IntentMoves("authorize", "unconfirmed", "requires_capture", "authorized")
Lapse == IntentMoves("lapse", "requires_capture", "canceled", "expired")
DashboardCancel == IntentMoves("dashboard", "requires_capture", "canceled", "released")

DashboardRefund ==
  /\ May("dashboard") /\ intent = "succeeded" /\ theirs = 0
  /\ theirs' = 1
  /\ events' = events \cup {Event("refunded", ours + 1)}
  /\ UNCHANGED <<evening, booking, row, post, intent, said, ours, wire, h>>

-----------------------------------------------------------------------------
(* What a request does next, after what it has just learned.               *)

Step(x, pc) == [x EXCEPT !.pc = pc]

\* The operation on the deposit is done: a route answers, a cancellation or
\* a no-show goes on to the reservation's status.
Done(x, did) ==
  IF x.door \in Settling
  THEN [Idle EXCEPT !.pc = "write", !.door = x.door, !.did = did]
  ELSE Idle

\* The capture's error reaches the caller. Only the no-show handler looks
\* again at the row, and only after an attempt on a held deposit.
Thrown(x) ==
  IF x.door = "no_show" /\ x.saw = "held" /\ x.op # "refund"
  THEN Step([x EXCEPT !.sure = FALSE, !.to = None], "reread") ELSE Idle

TakeBack(x, to) == Step([x EXCEPT !.sure = FALSE, !.to = to], "undo")

\* How a held deposit is settled: staff waive fees, the clock and the policy
\* decide for guests, the policy alone for a no-show.
OpsOf(door) ==
  CASE door = "staff" -> {"refund"}
    [] door = "guest" -> {"refund", "partial", "forfeit"}
    [] door = "no_show" -> {evening.noShow}

Settle(x, op, saw) ==
  [Idle EXCEPT !.pc = "claim", !.door = x.door, !.op = op, !.saw = saw]

AfterCall(x, answer) ==
  CASE answer = "ok" /\ x.op # "partial" -> Done(x, Target[x.op])
    [] answer = "ok" /\ x.op = "partial" -> Step(x, IF x.mine THEN "pay" ELSE "find")
    [] answer # "ok" /\ x.mine -> Step([x EXCEPT !.sure = (answer = "no")], "check")
    [] OTHER -> Idle

\* Mutant: the claim is taken back on any error while the intent is open.
AfterCheckUnproven(x, seen) ==
  CASE x.op = "refund" -> IF seen = "canceled" THEN Done(x, "refunded")
                          ELSE TakeBack(x, "held")
    [] x.op # "refund" /\ seen = "requires_capture" -> TakeBack(x, "held")
    [] x.op = "partial" /\ seen = "succeeded" -> Step(x, "pay")
    [] OTHER -> Thrown(x)

\* The provider was asked after an error. A release stands only if the intent
\* is canceled. A capture is taken back only if the error proves that it did
\* not happen, and stands when it is seen to have happened.
AfterCheck(x, seen) ==
  CASE x.op = "refund" -> IF seen = "canceled" THEN Done(x, "refunded")
                          ELSE TakeBack(x, "held")
    [] x.op # "refund" /\ seen = None -> Thrown(x)
    [] x.op # "refund" /\ seen = "succeeded" ->
         IF x.op = "partial" THEN Step([x EXCEPT !.sure = FALSE], "pay") ELSE Thrown(x)
    [] x.op # "refund" /\ x.sure /\ seen = "requires_capture" -> TakeBack(x, "held")
    [] x.op # "refund" /\ x.sure /\ seen = "canceled" -> TakeBack(x, "uncollectable")
    [] OTHER -> Idle

\* Mutant: the refund is sent again without looking for the first one.
AfterFindAnyway(x, found) == IF found = None THEN Idle ELSE Step(x, "pay")

AfterFind(x, found) ==
  CASE found = None -> Idle
    [] found # None /\ found > 0 -> Done(x, "partial_refunded")
    [] OTHER -> Step(x, "pay")

\* Mutant: the row's word is taken for the capture.
AfterVerifyTrusting(x, seen) ==
  IF seen = "canceled" THEN TakeBack(x, "uncollectable") ELSE Done(x, x.saw)

\* A row found at a capture status is verified, never trusted.
AfterVerify(x, seen) ==
  CASE seen = "succeeded" -> Done(x, x.saw)
    [] seen = "canceled" -> TakeBack(x, "uncollectable")
    [] seen = "requires_capture" /\ x.redo -> Step(x, "recapture")
    [] seen = "requires_capture" /\ ~x.redo /\ x.old -> TakeBack(x, "held")
    [] OTHER -> Idle
-----------------------------------------------------------------------------
(* The requests. Each action is what happens up to the next await that     *)
(* another request, a webhook or the provider can slip into.               *)

Kept == UNCHANGED <<evening, booking, row, post, provider, theirs, wire>>

\* A staff route, a cancellation or a no-show comes in. The last two read the
\* reservation first and stop if its status does not allow the change.
Ask(p, door) ==
  /\ May(door) /\ h[p] = Idle
  /\ evening.alone => \A q \in Proc : h[q] = Idle
  /\ door \in Settling => <<booking, Goal[door]>> \in Transitions
  /\ h' = [h EXCEPT ![p] =
       CASE door \in Settling -> [Idle EXCEPT !.pc = "look", !.door = door]
         [] door = "release" -> Settle([door |-> door], "refund", None)
         [] OTHER -> Settle([door |-> door], door, None)]
  /\ Kept

\* The deposit is read and its status decides. A deposit that is neither held
\* nor at a capture status asks for no money move.
Look(p) ==
  LET x == h[p] st == row.st IN
  /\ x.pc = "look"
  /\ \/ st = "held" /\ \E op \in OpsOf(x.door) : h' = [h EXCEPT ![p] = Settle(x, op, st)]
     \/ st = "partial_refunded" /\ h' = [h EXCEPT ![p] = Settle(x, "partial", st)]
     \/ /\ st \in {"applied", "forfeited"}
        /\ h' = [h EXCEPT ![p] = [x EXCEPT !.pc = "stamp", !.saw = st,
                                  !.redo = x.door = "no_show" /\ row.origin = "no_show"]]
     \/ st \in {"pending", "refunded", "uncollectable"} /\ h' = [h EXCEPT ![p] = Done(x, None)]
  /\ Kept

Claimed(x) ==
  [st |-> Target[x.op], aged |-> FALSE,
   origin |-> IF x.op = "forfeit" THEN Origin[x.door] ELSE row.origin]

\* The compare-and-set from held. A partial refund found half done is taken
\* up again; anything else has lost the race.
Claim(p) ==
  LET x == h[p] IN
  /\ x.pc = "claim"
  /\ \/ /\ row.st = "held"
        /\ row' = Claimed(x)
        /\ h' = [h EXCEPT ![p] = Step([x EXCEPT !.mine = TRUE], "call")]
     \/ /\ row.st = "partial_refunded" /\ x.op = "partial"
        /\ h' = [h EXCEPT ![p] = Step(x, "recheck")]
        /\ UNCHANGED row
     \/ /\ row.st # "held" /\ ~(row.st = "partial_refunded" /\ x.op = "partial")
        /\ h' = [h EXCEPT ![p] = Idle]
        /\ UNCHANGED row
  /\ UNCHANGED <<evening, booking, post, provider, theirs, wire>>

\* A partial refund taken up again asks for the intent before its capture.
Recheck(p) ==
  LET x == h[p] IN
  /\ x.pc = "recheck"
  /\ \E seen \in Seen(intent) :
       h' = [h EXCEPT ![p] = CASE seen = "canceled" -> TakeBack(x, "uncollectable")
                               [] seen = "succeeded" -> Step(x, "find")
                               [] OTHER -> Step(x, "call")]
  /\ Kept

\* The capture, or for a release the cancel, of the intent.
Call(p) ==
  /\ h[p].pc = "call"
  /\ \E answer \in {"ok", "no", "lost"} :
       /\ Reach(h[p].op, answer)
       /\ h' = [h EXCEPT ![p] = AfterCall(@, answer)]
  /\ UNCHANGED <<evening, booking, row, post, theirs>>

Check(p) ==
  /\ h[p].pc = "check"
  /\ \E seen \in Seen(intent) : h' = [h EXCEPT ![p] = AfterCheck(@, seen)]
  /\ Kept

\* The status a claim is taken back from.
Leaving(x) == IF x.op = None THEN x.saw ELSE Target[x.op]

\* Mutant: the forfeit origin survives the rollback.
UndoneButOrigin(to) == [row EXCEPT !.st = to, !.aged = FALSE]

Undone(to) == [st |-> to, origin |-> None, aged |-> FALSE]

\* The compare-and-set that takes a claim back, to held or written off. What
\* follows depends on who asked and whether it matched.
Undo(p) ==
  LET x == h[p] hit == row.st = Leaving(x) IN
  /\ x.pc = "undo"
  /\ row' = IF hit THEN Undone(x.to) ELSE row
  /\ h' = [h EXCEPT ![p] =
       CASE x.op # None /\ x.mine -> Thrown(x)
         [] x.op # None /\ ~x.mine ->
              IF x.saw = "partial_refunded" THEN Done(x, None) ELSE Thrown(x)
         [] x.op = None /\ hit /\ x.to = "uncollectable" -> Done(x, None)
         [] x.op = None /\ hit /\ x.to = "held" -> Step([Idle EXCEPT !.door = x.door], "again")
         [] OTHER -> Idle]
  /\ UNCHANGED <<evening, booking, post, provider, theirs, wire>>

\* After a rollback the deposit is read again and settled as a held one.
Again(p) ==
  LET x == h[p] IN
  /\ x.pc = "again"
  /\ IF row.st = "held"
     THEN \E op \in OpsOf(x.door) : h' = [h EXCEPT ![p] = Settle(x, op, "held")]
     ELSE h' = [h EXCEPT ![p] = Idle]
  /\ Kept

\* The no-show handler reads off the row how its failed capture was settled.
Reread(p) ==
  LET x == h[p] IN
  /\ x.pc = "reread"
  /\ h' = [h EXCEPT ![p] =
       CASE row.st = "uncollectable" -> Done(x, None)
         [] row.st = "forfeited" /\ x.op = "forfeit" -> Done(x, "forfeited")
         [] OTHER -> Idle]
  /\ Kept

\* A retry of a refund looks for the refund it may already have made.
Find(p) ==
  /\ h[p].pc = "find"
  /\ \E found \in Seen(ours) : h' = [h EXCEPT ![p] = AfterFind(@, found)]
  /\ Kept

Pay(p) ==
  /\ h[p].pc = "pay"
  /\ \E answer \in {"ok", "no", "lost"} :
       /\ Reach("pay", answer)
       /\ h' = [h EXCEPT ![p] = IF answer = "ok" THEN Done(@, "partial_refunded") ELSE Idle]
  /\ UNCHANGED <<evening, booking, row, post, theirs>>

\* verifyCaptureCompleted reads the row for its timestamp, then the intent.
Stamp(p) ==
  LET x == h[p] IN
  /\ x.pc = "stamp"
  /\ h' = [h EXCEPT ![p] = [x EXCEPT !.pc = "verify", !.old = row.st = x.saw /\ row.aged]]
  /\ Kept

Verify(p) ==
  /\ h[p].pc = "verify"
  /\ \E seen \in Seen(intent) : h' = [h EXCEPT ![p] = AfterVerify(@, seen)]
  /\ Kept

\* A no-show's retry repeats its own forfeit.
Recapture(p) ==
  /\ h[p].pc = "recapture"
  /\ \E answer \in {"ok", "no", "lost"} :
       /\ Reach("forfeit", answer)
       /\ h' = [h EXCEPT ![p] = IF answer = "ok" THEN Done(@, "forfeited") ELSE Idle]
  /\ UNCHANGED <<evening, booking, row, post, theirs>>

\* The reservation's status, last of all, if it still allows the change.
Write(p) ==
  LET goal == Goal[h[p].door] IN
  /\ h[p].pc = "write"
  /\ booking' = IF <<booking, goal>> \in Transitions THEN goal ELSE booking
  /\ h' = [h EXCEPT ![p] = Idle]
  /\ UNCHANGED <<evening, row, post, provider, theirs, wire>>

\* The process of a request dies.
Crash(p) ==
  /\ h[p] # Idle
  /\ h' = [h EXCEPT ![p] = Idle]
  /\ Kept

-----------------------------------------------------------------------------
(* The webhooks. *)

\* Mutant: the planned refund is taken for the one that was made.
PlannedLeg == IF row.st = "partial_refunded" THEN 1 ELSE 0

\* How much of the charge's refunds is our own leg.
OwnLeg == IF row.st = "partial_refunded" THEN ours ELSE 0

\* What a delivered event does to the row; deliveries at the wrong status do
\* nothing.
OnEvent(e) ==
  /\ row' = CASE e.type = "authorized" /\ row.st = "pending" -> [row EXCEPT !.st = "held"]
              [] e.type \in {"released", "refunded"} /\ row.st = "held" -> [row EXCEPT !.st = "refunded"]
              [] e.type = "expired" /\ row.st = "held" -> [row EXCEPT !.st = "uncollectable"]
              [] OTHER -> row
  /\ post' = IF e.type = "refunded" /\ row.st \in Captured /\ e.amount - OwnLeg > post
             THEN e.amount - OwnLeg ELSE post

\* An event is delivered at least once, in any order.
Deliver(e) ==
  /\ e \in events
  /\ OnEvent(e)
  /\ \/ events' = events \ {e}
     \/ UNCHANGED events
  /\ UNCHANGED <<evening, booking, intent, said, ours, theirs, wire, h>>

\* Minutes pass with nothing at work: the capture's timestamp leaves the
\* safety window. After a day the provider has forgotten its answers, too.
Wait(day) ==
  /\ May("late") /\ Quiet
  /\ row' = [row EXCEPT !.aged = row.st \in Captured]
  /\ said' = IF day THEN [k \in Keys |-> "nothing"] ELSE said
  /\ UNCHANGED <<evening, booking, post, intent, ours, events, theirs, wire, h>>

\* The guest was served.
Complete ==
  /\ May("complete") /\ <<booking, "COMPLETED">> \in Transitions
  /\ booking' = "COMPLETED"
  /\ UNCHANGED <<evening, row, post, provider, theirs, wire, h>>

-----------------------------------------------------------------------------

Init ==
  /\ evening \in Evenings
  /\ booking = "CONFIRMED"
  /\ row = [st |-> evening.start, origin |-> None, aged |-> FALSE]
  /\ intent = IF evening.start = "pending" THEN "unconfirmed" ELSE "requires_capture"
  /\ post = 0 /\ ours = 0 /\ theirs = 0
  /\ said = [k \in Keys |-> "nothing"]
  /\ wire = {} /\ events = {}
  /\ h = [p \in Proc |-> Idle]

Request(p) ==
  \/ \E door \in Routes \cup Settling : Ask(p, door)
  \/ Look(p) \/ Claim(p) \/ Recheck(p) \/ Call(p) \/ Check(p) \/ Undo(p) \/ Again(p)
  \/ Reread(p) \/ Find(p) \/ Pay(p) \/ Stamp(p) \/ Verify(p) \/ Recapture(p)
  \/ Write(p) \/ Crash(p)

Outside ==
  \/ \E k \in Keys : LateArrival(k)
  \/ Authorize \/ Lapse \/ DashboardCancel \/ DashboardRefund \/ Complete
  \/ \E e \in events : Deliver(e)
  \/ \E day \in BOOLEAN : Wait(day)

Next == Outside \/ \E p \in Proc : Request(p)

Spec == Init /\ [][Next]_vars

-----------------------------------------------------------------------------

\* Rows, requests and the provider keep their shape, and a forfeit origin
\* never outlives the forfeit it explains (deposit.ts, _rollbackToHeld).
TypeOK ==
  /\ evening \in Evenings
  /\ booking \in Statuses
  /\ row \in [st : DepositStatus, origin : {None, "cancellation", "no_show", "staff"},
              aged : BOOLEAN]
  /\ row.origin # None => row.st = "forfeited"
  /\ post \in 0..2 /\ theirs \in 0..1 /\ ours \in Nat
  /\ intent \in {"unconfirmed", "requires_capture", "succeeded", "canceled"}
  /\ said \in [Keys -> {"nothing", "ok", "no"}]
  /\ wire \subseteq Keys
  /\ \A e \in events : e.type \in {"authorized", "released", "expired", "refunded"}
  /\ \A p \in Proc : h[p].pc = "idle" <=> h[p] = Idle

\* A card that was charged is on record as charged: no rollback, write-off or
\* webhook leaves the row of a captured intent at another status, whatever
\* calls failed or answers were lost (deposit.ts, _reconcileCaptureFailure).
ChargeOnRecord == intent = "succeeded" => row.st \in Captured

\* The guest's part of the deposit goes back at most once, however often the
\* refund is retried, by whom, and after how long (deposit.ts, refundPartial).
RefundedOnce == ours <= 1

\* A request that is about to write CANCELLED or NO_SHOW on the strength of a
\* charge, a refund or a release acts on what did happen at the provider,
\* never on the row alone (reservation-cancellation.ts, reservation-no-show.ts).
WritesOnProof ==
  \A p \in Proc : h[p].pc = "write" =>
    /\ h[p].did \in Captured => intent = "succeeded"
    /\ h[p].did = "partial_refunded" => ours > 0
    /\ h[p].did = "refunded" => intent = "canceled"

\* When every webhook is delivered, the refund recorded as made after the
\* capture of a partly refunded deposit, or of one we refunded nothing of, is
\* exactly the dashboard's: our own leg is never counted in and never hides
\* theirs, in whatever order the webhooks came (recordPostCaptureRefund).
PostCaptureExact ==
  Quiet /\ events = {} /\ (ours > 0 => row.st = "partial_refunded") => post = theirs
=============================================================================
