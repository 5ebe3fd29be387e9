--------------------------- MODULE Deposit_proofs ---------------------------
(***************************************************************************)
(* What TLAPS proves of Deposit for any number of requests and any         *)
(* evenings: the money in the rows is the money at the provider. Where the *)
(* code keeps its promise only in some evenings, a theorem says in which.  *)
(***************************************************************************)
EXTENDS Deposit, TLAPS

-----------------------------------------------------------------------------
(* The invariant. *)

\* The safety window protects a charge from a rollback: requests outlive it only
\* one at a time, and what a no-show's retry has on its way no guest or staff
\* cancellation comes upon.
Unhurried ==
  \A e \in Evenings : "late" \in e.may =>
    /\ e.alone
    /\ e.noShow = "forfeit" /\ "no_show" \in e.may => {"guest", "staff"} \cap e.may = {}

\* A no-show that forfeits works alone and reaches the provider when it asks.
Certain ==
  \A e \in Evenings :
    "no_show" \in e.may /\ e.noShow = "forfeit" => e.alone /\ "blind" \notin e.may

Pcs == {"idle", "look", "claim", "recheck", "call", "check", "undo", "again", "reread",
        "find", "pay", "stamp", "verify", "recapture", "write"}
Doors == Routes \cup Settling
Requests ==
  [pc : Pcs, door : Doors \cup {None}, saw : DepositStatus \cup {None}, op : Ops \cup {None},
   mine : BOOLEAN, sure : BOOLEAN, to : {None, "held", "uncollectable"},
   did : DepositStatus \cup {None}, redo : BOOLEAN, old : BOOLEAN]
Rows == [st : DepositStatus, origin : {None, "cancellation", "no_show", "staff"}, aged : BOOLEAN]
IntentStatus == {"unconfirmed", "requires_capture", "succeeded", "canceled"}
EventTypes == {"authorized", "released", "expired", "refunded"}

\* Which requests the code can be serving.
Verifying == {"stamp", "verify", "recapture"}
Shaped(x) ==
  /\ x.pc = "idle" => x = Idle
  /\ x.pc # "idle" => x.door \in Doors /\ May(x.door)
  /\ x.pc \in {"look", "again", "write"} \cup Verifying => x.door \in Settling
  /\ x.pc = "reread" => x.door = "no_show"
  /\ x.pc \in {"claim", "recheck", "call", "check", "find", "pay", "reread"} => x.op \in Ops
  /\ x.pc \in {"recheck", "find", "pay"} => x.op = "partial"
  /\ x.pc = "look" => x.op = None
  /\ x.pc \in Verifying => x.op = None /\ x.saw \in {"applied", "forfeited"}
  /\ x.pc = "recapture" => x.redo
  /\ x.op = "forfeit" => /\ x.door \in {"guest", "no_show", "forfeit"}
                         /\ x.door = "no_show" => evening.noShow = "forfeit"
  /\ x.pc = "check" => x.mine
  /\ x.mine => x.op \in Ops
  /\ x.pc = "undo" /\ x.op = None => x.door \in Settling /\ x.saw \in {"applied", "forfeited"}
  /\ x.pc = "undo" => x.to \in {"held", "uncollectable"}
  /\ x.pc = "undo" /\ x.to = "held" => x.mine \/ x.op = None
  /\ x.pc = "undo" /\ ~x.mine => x.op \in {"partial", None}

Typed ==
  /\ evening \in Evenings /\ booking \in Statuses
  /\ row \in Rows /\ (row.origin # None => row.st = "forfeited")
  /\ post \in Nat /\ theirs \in 0..1 /\ ours \in Nat
  /\ intent \in IntentStatus
  /\ said \in [Keys -> {"nothing", "ok", "no"}]
  /\ wire \subseteq Keys
  /\ events \subseteq [type : EventTypes, amount : Nat]
  /\ h \in [Proc -> Requests]
  /\ \A p \in Proc : Shaped(h[p])

\* What the provider's state says about its past.
Captures == {"apply", "forfeit", "partial"}
Ledger ==
  /\ said["refund"] = "ok" => intent = "canceled"
  /\ \A k \in Captures : said[k] = "ok" => intent = "succeeded"
  /\ said["pay"] = "ok" => ours > 0
  /\ ours > 0 \/ theirs > 0 => intent = "succeeded"
  /\ \A e \in events : e.type = "refunded" => intent = "succeeded" /\ e.amount <= ours + theirs
  /\ \A e \in events : e.type = "authorized" => intent # "unconfirmed"
  /\ post <= ours + theirs

\* A status about to be written, or read off the row for it, is the truth.
Grounded(x) ==
  /\ x.pc = "write" /\ x.did \in Captured => intent = "succeeded"
  /\ x.pc = "write" /\ x.did = "partial_refunded" => ours > 0
  /\ x.pc = "write" /\ x.did = "refunded" => intent = "canceled"
  /\ x.pc = "reread" /\ x.op = "forfeit" /\ row.st = "forfeited" => intent = "succeeded"

InTurn == evening.alone => \A p, q \in Proc : p # q => h[p] = Idle \/ h[q] = Idle

\* A capture somebody wants may still happen.
Open == intent \in {"unconfirmed", "requires_capture"}
Fresh(k) == said[k] = "nothing" /\ Open
Wants(x, k) ==
  \/ x.op = k /\ x.pc \in {"recheck", "call"}
  \/ k = "forfeit" /\ x.redo /\ x.pc \in Verifying
Wanted(k) == k \in wire \/ \E p \in Proc : Wants(h[p], k)

\* A claim is taken back for lack of a charge only when none can come.
Lapsed(x) == evening.alone /\ row.aged /\ row.st = x.saw /\ row.origin # "no_show"
Safe(x) ==
  /\ x.pc = "undo" /\ x.to = "uncollectable" => intent = "canceled"
  /\ x.pc = "check" /\ x.sure /\ x.op \in Captures => ~Fresh(x.op)
  /\ x.pc = "undo" /\ x.to = "held" /\ x.op \in Captures =>
       ~Fresh(x.op) /\ (row.st = Target[x.op] => intent # "succeeded")
  /\ x.pc = "undo" /\ x.to = "held" /\ x.op = None => Lapsed(x) /\ intent # "succeeded"
  /\ x.pc = "verify" /\ x.old /\ ~x.redo => Lapsed(x)
  /\ evening.alone /\ x.pc \in {"stamp", "verify"} =>
       row.st = x.saw /\ (row.origin = "no_show" /\ x.door = "no_show" => x.redo)
  /\ ours > 0 /\ said["pay"] = "nothing" => x.pc # "pay" /\ ~x.mine

Before == {"idle", "look", "claim", "write"}
Recorded ==
  /\ row.st = "pending" => wire = {} /\ \A p \in Proc : h[p].pc \in Before
  /\ intent = "unconfirmed" => row.st = "pending"
  /\ row.aged => May("late") /\ row.st \in Captured
  /\ row.origin = "no_show" => May("no_show") /\ evening.noShow = "forfeit"
  /\ \A k \in Captures : Wanted(k) /\ Fresh(k) => row.st = Target[k]
  /\ row.aged /\ row.origin # "no_show" /\ row.st # "partial_refunded" =>
       \A k \in Captures : ~(Wanted(k) /\ Fresh(k))
  /\ ChargeOnRecord
  /\ ours > 0 /\ said["pay"] = "nothing" => "pay" \notin wire
  /\ ours <= 1

\* The refunds of the dashboard are counted, or their webhook is yet to come.
Counted ==
  /\ theirs = 1 => post >= 1 \/ Event("refunded", ours + theirs) \in events
  /\ (ours > 0 => row.st = "partial_refunded") => post <= theirs

Base == Typed /\ Ledger /\ InTurn
Proven == Certain => \A p \in Proc : Grounded(h[p])
Timed == Unhurried => Recorded /\ Counted /\ \A p \in Proc : Safe(h[p])
DepositInv == Base /\ Proven /\ Timed

-----------------------------------------------------------------------------
(* What a request becomes.                                                 *)

LEMMA IdleShape ==
  /\ Idle \in Requests /\ Idle.pc = "idle" /\ Idle.op = None /\ ~Idle.mine /\ ~Idle.redo
  /\ Shaped(Idle) /\ \A k \in Keys : ~Wants(Idle, k)
<1>1. Idle \in Requests /\ Idle.pc = "idle" /\ Idle.op = None /\ ~Idle.mine /\ ~Idle.redo
  BY DEF Idle, Requests, Pcs
<1>2. Shaped(Idle)
  BY <1>1, DepositAssumption DEF Shaped, Verifying, Ops
<1> QED BY <1>1, <1>2 DEF Wants, Verifying

LEMMA StepShape ==
  ASSUME NEW x \in Requests, NEW pc \in Pcs
  PROVE  /\ Step(x, pc) \in Requests /\ Step(x, pc).pc = pc
         /\ Step(x, pc).door = x.door /\ Step(x, pc).saw = x.saw /\ Step(x, pc).op = x.op
         /\ Step(x, pc).mine = x.mine /\ Step(x, pc).sure = x.sure /\ Step(x, pc).to = x.to
         /\ Step(x, pc).redo = x.redo /\ Step(x, pc).old = x.old
BY DEF Step, Requests

\* The fields a request keeps when only its place and what it is sure of change.
Kin(y, x) ==
  /\ y \in Requests /\ y.door = x.door /\ y.saw = x.saw /\ y.op = x.op /\ y.mine = x.mine
  /\ y.redo = x.redo /\ y.old = x.old

LEMMA DoneShape ==
  ASSUME NEW x \in Requests, NEW did \in DepositStatus \cup {None}
  PROVE  /\ Done(x, did) \in Requests
         /\ x.door \notin Settling => Done(x, did) = Idle
         /\ x.door \in Settling => Done(x, did).pc = "write" /\ Done(x, did).door = x.door
                                   /\ Done(x, did).did = did
         /\ Done(x, did).pc \in {"idle", "write"}
         /\ Done(x, did).op = None /\ ~Done(x, did).mine /\ ~Done(x, did).redo
<1>1. CASE x.door \notin Settling
  BY <1>1, IdleShape DEF Done
<1>2. CASE x.door \in Settling
  <2>1. PICK y : y = [[[Idle EXCEPT !.pc = "write"] EXCEPT !.door = x.door] EXCEPT !.did = did]
    OBVIOUS
  <2>2. y = [pc |-> "write", door |-> x.door, saw |-> None, op |-> None, mine |-> FALSE,
             sure |-> FALSE, to |-> None, did |-> did, redo |-> FALSE, old |-> FALSE]
    BY <2>1 DEF Idle
  <2>3. y \in Requests /\ y.pc = "write" /\ y.door = x.door /\ y.did = did
        /\ y.op = None /\ ~y.mine /\ ~y.redo
    BY <2>2 DEF Requests, Pcs
  <2> QED BY <1>2, <2>1, <2>3 DEF Done
<1> QED BY <1>1, <1>2

LEMMA DoneShaped ==
  ASSUME NEW x \in Requests, NEW did \in DepositStatus \cup {None},
         x.pc # "idle", Shaped(x)
  PROVE  Shaped(Done(x, did))
<1>1. CASE x.door \notin Settling
  BY <1>1, DoneShape, IdleShape
<1>2. CASE x.door \in Settling
  <2>1. PICK y \in Requests : /\ y = Done(x, did) /\ y.pc = "write" /\ y.door = x.door
                             /\ y.op = None /\ ~y.mine
    BY <1>2, DoneShape
  <2>2. Shaped(y)
    BY <1>2, <2>1, DepositAssumption DEF Shaped, Verifying, Ops
  <2> QED BY <2>1, <2>2
<1> QED BY <1>1, <1>2
LEMMA ThrownShape ==
  ASSUME NEW x \in Requests, Shaped(x), x.pc # "idle", x.op \in Ops
  PROVE  \/ Thrown(x) = Idle
         \/ /\ Kin(Thrown(x), x) /\ Thrown(x).pc = "reread" /\ Shaped(Thrown(x))
            /\ x.door = "no_show"
<1>1. CASE ~(x.door = "no_show" /\ x.saw = "held" /\ x.op # "refund")
  BY <1>1 DEF Thrown
<1>2. CASE x.door = "no_show" /\ x.saw = "held" /\ x.op # "refund"
  <2>1. PICK z : z = [[x EXCEPT !.sure = FALSE] EXCEPT !.to = None]
    OBVIOUS
  <2>2. /\ z \in Requests /\ z.door = x.door /\ z.saw = x.saw /\ z.op = x.op /\ z.mine = x.mine
        /\ z.redo = x.redo /\ z.old = x.old
    BY <2>1 DEF Requests
  <2>3. PICK y : y = Step(z, "reread")
    OBVIOUS
  <2>4. Kin(y, x) /\ y.pc = "reread"
    BY <2>2, <2>3, StepShape DEF Kin, Pcs
  <2>5. Thrown(x) = y
    BY <1>2, <2>1, <2>3 DEF Thrown
  <2>6. Shaped(y)
    BY <1>2, <2>4, DepositAssumption DEF Shaped, Kin, Verifying, Ops
  <2> QED BY <1>2, <2>4, <2>5, <2>6
<1> QED BY <1>1, <1>2

LEMMA TakeBackShape ==
  ASSUME NEW x \in Requests, Shaped(x), x.pc # "idle", NEW to \in {"held", "uncollectable"},
         to = "held" => x.mine \/ x.op = None, ~x.mine => x.op \in {"partial", None},
         x.op = None => x.pc \in Verifying
  PROVE  /\ Kin(TakeBack(x, to), x) /\ TakeBack(x, to).pc = "undo"
         /\ TakeBack(x, to).to = to /\ Shaped(TakeBack(x, to))
<1>1. PICK z : z = [[x EXCEPT !.sure = FALSE] EXCEPT !.to = to]
  OBVIOUS
<1>2. /\ z \in Requests /\ z.door = x.door /\ z.saw = x.saw /\ z.op = x.op /\ z.mine = x.mine
      /\ z.redo = x.redo /\ z.old = x.old /\ z.to = to
  BY <1>1 DEF Requests
<1>3. PICK y : y = Step(z, "undo")
  OBVIOUS
<1>4. Kin(y, x) /\ y.pc = "undo" /\ y.to = to
  BY <1>2, <1>3, StepShape DEF Kin, Pcs
<1>5. TakeBack(x, to) = y
  BY <1>1, <1>3 DEF TakeBack
<1>6. Shaped(y)
  BY <1>4 DEF Shaped, Kin, Verifying
<1> QED BY <1>4, <1>5, <1>6

LEMMA SettleShape ==
  ASSUME NEW x, x.door \in Doors, May(x.door), NEW op \in Ops, NEW saw \in DepositStatus \cup {None},
         op = "forfeit" => /\ x.door \in {"guest", "no_show", "forfeit"}
                           /\ x.door = "no_show" => evening.noShow = "forfeit"
  PROVE  /\ Settle(x, op, saw) \in Requests /\ Settle(x, op, saw).pc = "claim"
         /\ ~Settle(x, op, saw).mine /\ ~Settle(x, op, saw).redo
         /\ Shaped(Settle(x, op, saw))
<1>1. PICK y : y = [[[[Idle EXCEPT !.pc = "claim"] EXCEPT !.door = x.door] EXCEPT !.op = op]
                      EXCEPT !.saw = saw]
  OBVIOUS
<1>2. y = [pc |-> "claim", door |-> x.door, saw |-> saw, op |-> op, mine |-> FALSE,
           sure |-> FALSE, to |-> None, did |-> None, redo |-> FALSE, old |-> FALSE]
  BY <1>1 DEF Idle
<1>3. y \in Requests /\ y.pc = "claim" /\ ~y.mine /\ ~y.redo /\ y.door = x.door /\ y.op = op
  BY <1>2 DEF Requests, Pcs
<1>4. Shaped(y)
  BY <1>3 DEF Shaped, Verifying
<1> QED BY <1>1, <1>3, <1>4 DEF Settle

\* An error before the check is sure only of what the provider said.
LEMMA SureShape ==
  ASSUME NEW x \in Requests, NEW b \in BOOLEAN
  PROVE  LET z == [x EXCEPT !.sure = b]
         IN  /\ Kin(z, x) /\ z.pc = x.pc /\ z.sure = b /\ z.to = x.to
BY DEF Kin, Requests

LEMMA AfterCallShape ==
  ASSUME NEW x \in Requests, Shaped(x), x.pc = "call", NEW answer \in {"ok", "no", "lost"},
         NEW y, y = AfterCall(x, answer)
  PROVE  /\ y \in Requests /\ Shaped(y) /\ y.pc \in {"idle", "write", "pay", "find", "check"}
         /\ y.pc = "write" => answer = "ok" /\ x.op # "partial" /\ y.did = Target[x.op]
         /\ y.pc \in {"pay", "find"} => answer = "ok" /\ x.op = "partial"
         /\ y.pc = "pay" \/ y.mine => x.mine
         /\ y.pc = "check" => y.op = x.op /\ (y.sure => answer = "no")
<1>1. x.op \in Ops /\ x.pc # "idle" /\ x.door \in Doors /\ May(x.door)
  BY DEF Shaped
<1>2. CASE answer = "ok" /\ x.op # "partial"
  <2>1. Target[x.op] \in DepositStatus \cup {None}
    BY <1>1 DEF Target, Ops, DepositStatus, Captured
  <2>2. y = Done(x, Target[x.op])
    BY <1>2 DEF AfterCall
  <2>3. Shaped(y) /\ y \in Requests /\ y.pc \in {"idle", "write"} /\ ~y.mine
    BY <1>1, <2>1, <2>2, DoneShape, DoneShaped
  <2>4. y.pc = "write" => y.did = Target[x.op]
    BY <2>1, <2>2, DoneShape, IdleShape
  <2> QED BY <1>2, <2>3, <2>4
<1>3. CASE answer = "ok" /\ x.op = "partial"
  <2>1. PICK pc \in {"pay", "find"} : y = Step(x, pc) /\ (pc = "pay" => x.mine)
    BY <1>3 DEF AfterCall
  <2>2. y \in Requests /\ y.pc = pc /\ y.door = x.door /\ y.op = x.op /\ y.mine = x.mine
    BY <2>1, StepShape DEF Pcs
  <2>3. Shaped(y)
    BY <1>1, <1>3, <2>1, <2>2, DepositAssumption DEF Shaped, Verifying, Ops
  <2> QED BY <1>3, <2>1, <2>2, <2>3
<1>4. CASE answer # "ok" /\ x.mine
  <2>1. PICK z : z = [x EXCEPT !.sure = (answer = "no")]
    OBVIOUS
  <2>2. Kin(z, x) /\ z.sure = (answer = "no")
    BY <2>1, SureShape
  <2>3. y = Step(z, "check")
    BY <1>4, <2>1 DEF AfterCall
  <2>4. Kin(y, x) /\ y.pc = "check" /\ y.sure = (answer = "no")
    BY <2>2, <2>3, StepShape DEF Kin, Pcs
  <2>5. Shaped(y)
    BY <1>1, <1>4, <2>4, DepositAssumption DEF Shaped, Kin, Verifying, Ops
  <2> QED BY <1>4, <2>4, <2>5 DEF Kin
<1>5. CASE answer # "ok" /\ ~x.mine
  <2>1. y = Idle
    BY <1>5 DEF AfterCall
  <2> QED BY <2>1, IdleShape
<1> QED BY <1>2, <1>3, <1>4, <1>5

LEMMA AfterCheckShape ==
  ASSUME NEW x \in Requests, Shaped(x), x.pc = "check", NEW seen \in IntentStatus \cup {None},
         NEW y, y = AfterCheck(x, seen)
  PROVE  /\ y \in Requests /\ Shaped(y) /\ y.pc \in {"idle", "write", "pay", "undo", "reread"}
         /\ y.pc = "write" => seen = "canceled" /\ y.did = "refunded"
         /\ y.pc = "undo" => /\ y.op = x.op
                             /\ y.to = "uncollectable" => seen = "canceled"
                             /\ y.to = "held" /\ x.op # "refund" => x.sure /\ seen = "requires_capture"
         /\ y.pc = "reread" => seen \in {None, "succeeded"}
         /\ y.pc = "pay" => seen = "succeeded"
<1>1. x.op \in Ops /\ x.mine /\ x.pc # "idle" /\ x.door \in Doors /\ May(x.door)
  BY DEF Shaped
<1>2. \/ y = Done(x, "refunded") /\ seen = "canceled"
      \/ y = TakeBack(x, "held") /\ (x.op # "refund" => x.sure /\ seen = "requires_capture")
      \/ y = TakeBack(x, "uncollectable") /\ seen = "canceled"
      \/ y = Step([x EXCEPT !.sure = FALSE], "pay") /\ x.op = "partial" /\ seen = "succeeded"
      \/ y = Thrown(x) /\ seen \in {None, "succeeded"}
      \/ y = Idle
  <2>1. CASE x.op = "refund"
    BY <2>1 DEF AfterCheck
  <2>2. CASE x.op # "refund" /\ seen \in {None, "succeeded"}
    BY <2>2 DEF AfterCheck
  <2>3. CASE x.op # "refund" /\ seen \notin {None, "succeeded"}
    BY <2>3 DEF AfterCheck
  <2> QED BY <2>1, <2>2, <2>3
<1>3. CASE y = Done(x, "refunded") /\ seen = "canceled"
  <2>1. Shaped(y) /\ y \in Requests /\ y.pc \in {"idle", "write"}
    BY <1>1, <1>3, DoneShape, DoneShaped DEF DepositStatus
  <2>2. y.pc = "write" => y.did = "refunded"
    BY <1>3, DoneShape, IdleShape DEF DepositStatus
  <2> QED BY <1>3, <2>1, <2>2
<1>4. CASE y = TakeBack(x, "held") /\ (x.op # "refund" => x.sure /\ seen = "requires_capture")
  <2>1. Kin(y, x) /\ y.pc = "undo" /\ y.to = "held" /\ Shaped(y)
    BY <1>1, <1>4, TakeBackShape, DepositAssumption DEF Ops
  <2> QED BY <1>4, <2>1 DEF Kin
<1>5. CASE y = TakeBack(x, "uncollectable") /\ seen = "canceled"
  <2>1. Kin(y, x) /\ y.pc = "undo" /\ y.to = "uncollectable" /\ Shaped(y)
    BY <1>1, <1>5, TakeBackShape, DepositAssumption DEF Ops
  <2> QED BY <1>5, <2>1 DEF Kin
<1>6. CASE y = Step([x EXCEPT !.sure = FALSE], "pay") /\ x.op = "partial" /\ seen = "succeeded"
  <2>1. PICK z : z = [x EXCEPT !.sure = FALSE]
    OBVIOUS
  <2>2. Kin(z, x)
    BY <2>1, SureShape
  <2>3. y = Step(z, "pay")
    BY <1>6, <2>1
  <2>4. Kin(y, x) /\ y.pc = "pay"
    BY <2>2, <2>3, StepShape DEF Kin, Pcs
  <2>5. Shaped(y)
    BY <1>1, <1>6, <2>4, DepositAssumption DEF Shaped, Kin, Verifying, Ops
  <2> QED BY <1>6, <2>4, <2>5 DEF Kin
<1>7. CASE y = Thrown(x) /\ seen \in {None, "succeeded"}
  <2>1. \/ y = Idle
        \/ y \in Requests /\ y.pc = "reread" /\ Shaped(y)
    BY <1>1, <1>7, ThrownShape DEF Kin
  <2> QED BY <1>7, <2>1, IdleShape
<1>8. CASE y = Idle
  BY <1>8, IdleShape
<1> QED BY <1>2, <1>3, <1>4, <1>5, <1>6, <1>7, <1>8

LEMMA AfterFindShape ==
  ASSUME NEW x \in Requests, Shaped(x), x.pc = "find", NEW found \in Nat \cup {None},
         NEW y, y = AfterFind(x, found)
  PROVE  /\ y \in Requests /\ Shaped(y) /\ y.pc \in {"idle", "write", "pay"}
         /\ y.pc = "write" => found # None /\ found > 0 /\ y.did = "partial_refunded"
         /\ y.pc = "pay" => found # None /\ found = 0
         /\ y.mine => x.mine
<1>1. x.op = "partial" /\ x.pc # "idle" /\ x.door \in Doors /\ May(x.door)
  BY DEF Shaped
<1>2. CASE found = None
  <2>1. y = Idle
    BY <1>2 DEF AfterFind
  <2> QED BY <2>1, IdleShape
<1>3. CASE found # None /\ found > 0
  <2>1. y = Done(x, "partial_refunded")
    BY <1>3 DEF AfterFind
  <2>2. Shaped(y) /\ y \in Requests /\ y.pc \in {"idle", "write"} /\ ~y.mine
    BY <1>1, <2>1, DoneShape, DoneShaped DEF DepositStatus, Captured
  <2>3. y.pc = "write" => y.did = "partial_refunded"
    BY <2>1, DoneShape, IdleShape DEF DepositStatus, Captured
  <2> QED BY <1>3, <2>2, <2>3
<1>4. CASE found # None /\ ~(found > 0)
  <2>1. y = Step(x, "pay")
    BY <1>4 DEF AfterFind
  <2>2. Kin(y, x) /\ y.pc = "pay"
    BY <2>1, StepShape DEF Kin, Pcs
  <2>3. Shaped(y)
    BY <1>1, <2>2, DepositAssumption DEF Shaped, Kin, Verifying, Ops
  <2> QED BY <1>4, <2>2, <2>3 DEF Kin
<1> QED BY <1>2, <1>3, <1>4

LEMMA AfterVerifyShape ==
  ASSUME NEW x \in Requests, Shaped(x), x.pc = "verify", NEW seen \in IntentStatus \cup {None},
         NEW y, y = AfterVerify(x, seen)
  PROVE  /\ y \in Requests /\ Shaped(y) /\ y.pc \in {"idle", "write", "undo", "recapture"} /\ ~y.mine
         /\ y.pc = "write" => seen = "succeeded" /\ y.did = x.saw
         /\ y.pc = "undo" => /\ y.op = None /\ y.saw = x.saw
                             /\ y.to = "uncollectable" => seen = "canceled"
                             /\ y.to = "held" => seen = "requires_capture" /\ ~x.redo /\ x.old
         /\ y.pc = "recapture" => y.redo = x.redo /\ y.op = None
<1>1. /\ x.op = None /\ x.pc # "idle" /\ x.saw \in {"applied", "forfeited"} /\ x.door \in Settling
      /\ x.pc \in Verifying /\ ~x.mine /\ May(x.door) /\ x.op \notin Ops
  BY DepositAssumption DEF Shaped, Verifying, Requests
<1>2. \/ y = Done(x, x.saw) /\ seen = "succeeded"
      \/ y = TakeBack(x, "uncollectable") /\ seen = "canceled"
      \/ y = Step(x, "recapture") /\ x.redo
      \/ y = TakeBack(x, "held") /\ seen = "requires_capture" /\ ~x.redo /\ x.old
      \/ y = Idle
  BY DEF AfterVerify
<1>3. CASE y = Done(x, x.saw) /\ seen = "succeeded"
  <2>1. Shaped(y) /\ y \in Requests /\ y.pc \in {"idle", "write"} /\ ~y.mine
    BY <1>1, <1>3, DoneShape, DoneShaped DEF DepositStatus, Captured
  <2>2. y.pc = "write" => y.did = x.saw
    BY <1>1, <1>3, DoneShape, IdleShape DEF DepositStatus, Captured
  <2> QED BY <1>3, <2>1, <2>2
<1>4. CASE y = TakeBack(x, "uncollectable") /\ seen = "canceled"
  <2>1. Kin(y, x) /\ y.pc = "undo" /\ y.to = "uncollectable" /\ Shaped(y)
    BY <1>1, <1>4, TakeBackShape, DepositAssumption DEF Ops
  <2> QED BY <1>1, <1>4, <2>1 DEF Kin
<1>5. CASE y = Step(x, "recapture") /\ x.redo
  <2>1. y = Step(x, "recapture")
    BY <1>5
  <2>2. Kin(y, x) /\ y.pc = "recapture"
    BY <2>1, StepShape DEF Kin, Pcs
  <2>3. y.redo /\ ~y.mine /\ y.op = None /\ y.op \notin Ops /\ y.saw = x.saw /\ y.door = x.door
    BY <1>1, <1>5, <2>2 DEF Kin
  <2>4. Shaped(y)
    BY <1>1, <2>2, <2>3 DEF Shaped, Verifying, Ops, Doors
  <2> QED BY <1>1, <1>5, <2>2, <2>3, <2>4 DEF Kin
<1>6. CASE y = TakeBack(x, "held") /\ seen = "requires_capture" /\ ~x.redo /\ x.old
  <2>1. Kin(y, x) /\ y.pc = "undo" /\ y.to = "held" /\ Shaped(y)
    BY <1>1, <1>6, TakeBackShape, DepositAssumption DEF Ops
  <2> QED BY <1>1, <1>6, <2>1 DEF Kin
<1>7. CASE y = Idle
  BY <1>7, IdleShape
<1> QED BY <1>2, <1>3, <1>4, <1>5, <1>6, <1>7

-----------------------------------------------------------------------------
(* What a request's step leaves of the others.                             *)

\* One request moves on, or a first one comes in.
Moves(p, y) ==
  /\ y \in Requests /\ Shaped(y)
  /\ h' = [h EXCEPT ![p] = y] /\ evening' = evening
  /\ h[p] # Idle \/ (evening.alone => \A q \in Proc : h[q] = Idle)

LEMMA MovesOn ==
  ASSUME Base, NEW p \in Proc, NEW y, Moves(p, y)
  PROVE  /\ h' \in [Proc -> Requests] /\ (\A q \in Proc : Shaped(h[q]))'
         /\ h'[p] = y /\ (\A q \in Proc : q # p => h'[q] = h[q])
         /\ evening'.alone => \A q \in Proc : q # p => h'[q] = Idle
         /\ InTurn'
<1>1. h' \in [Proc -> Requests] /\ h'[p] = y /\ \A q \in Proc : q # p => h'[q] = h[q]
  BY DEF Base, Typed, Moves
<1>2. ASSUME NEW q \in Proc PROVE Shaped(h[q])'
  <2>1. Shaped(h'[q])
    BY <1>1 DEF Base, Typed, Moves
  <2> QED BY <2>1 DEF Shaped, Moves, May
<1>3. evening'.alone => \A q \in Proc : q # p => h'[q] = Idle
  BY <1>1 DEF Base, InTurn, Moves
<1>4. InTurn'
  BY <1>1, <1>3 DEF InTurn
<1> QED BY <1>1, <1>2, <1>3, <1>4

\* Everything but the requests.
WorldTyped ==
  /\ evening \in Evenings /\ booking \in Statuses
  /\ row \in Rows /\ (row.origin # None => row.st = "forfeited")
  /\ post \in Nat /\ theirs \in 0..1 /\ ours \in Nat
  /\ intent \in IntentStatus
  /\ said \in [Keys -> {"nothing", "ok", "no"}]
  /\ wire \subseteq Keys
  /\ events \subseteq [type : EventTypes, amount : Nat]

\* Only the requests and the reservation change.
Rests ==
  UNCHANGED <<evening, row, post, provider, theirs, wire>> /\ booking' \in Statuses

LEMMA RestsBase ==
  ASSUME Base, NEW p \in Proc, NEW y, Moves(p, y), Rests
  PROVE  Base'
<1>1. WorldTyped' /\ Ledger'
  BY DEF Base, Typed, Ledger, Rests, provider, WorldTyped
<1> QED BY <1>1, MovesOn DEF Base, Typed, WorldTyped

-----------------------------------------------------------------------------
(* What the provider's answers leave.                                      *)

\* What is settled at the provider stays settled.
Onward ==
  /\ evening' = evening
  /\ \A k \in Keys : said[k] # "nothing" => said'[k] # "nothing"
  /\ intent \in {"succeeded", "canceled"} => intent' = intent
  /\ intent' = "unconfirmed" => intent = "unconfirmed"
  /\ ours > 0 => ours' > 0
  /\ ours' > 0 /\ said'["pay"] = "nothing" => ours > 0 /\ said["pay"] = "nothing"

LEMMA AnswerCases ==
  ASSUME Base, NEW k \in Keys, NEW answer \in {"ok", "no"}, Answer(k, answer)
  PROVE  \/ UNCHANGED provider /\ said[k] = answer
         \/ UNCHANGED provider /\ answer = "no" /\ ~Possible(k)
         \/ /\ answer = "no" /\ said' = [said EXCEPT ![k] = "no"]
            /\ said[k] = "nothing" /\ UNCHANGED <<intent, ours, events>>
         \/ answer = "ok" /\ Execute(k)
BY DEF Answer, Replay, Refuse, provider

LEMMA Sums ==
  ASSUME NEW a \in Nat, NEW b \in 0..1
  PROVE  /\ a + b \in Nat /\ a + 1 \in Nat /\ a + 1 > 0 /\ a + b + 1 = (a + 1) + b
         /\ a + b <= (a + 1) + b /\ a + b + 1 \in Nat
         /\ a <= a + b
         /\ \A n \in Nat : n <= a + b => n <= (a + 1) + b
OBVIOUS

\* The provider does what was asked.
LEMMA ExecuteOn ==
  ASSUME Base, NEW k \in Keys, Execute(k), UNCHANGED <<evening, post, theirs>>
  PROVE  /\ intent' \in IntentStatus /\ said' \in [Keys -> {"nothing", "ok", "no"}]
         /\ ours' \in Nat /\ events' \subseteq [type : EventTypes, amount : Nat]
         /\ Ledger' /\ Onward /\ said'[k] = "ok"
         /\ k # "pay" => intent = "requires_capture" /\ ours' = ours
         /\ intent' = "succeeded" => k \in Captures \/ intent = "succeeded"
         /\ k = "pay" => /\ ours' = ours + 1 /\ intent' = "succeeded" /\ intent = "succeeded"
                         /\ Event("refunded", ours' + theirs') \in events'
         /\ events \subseteq events'
<1>1. PICK n, t, i, sd : n = ours /\ t = theirs /\ i = intent /\ sd = said
  OBVIOUS
<1>2. /\ n \in Nat /\ t \in 0..1 /\ theirs' = t /\ n' = n /\ i \in IntentStatus
      /\ sd \in [Keys -> {"nothing", "ok", "no"}] /\ sd[k] = "nothing"
      /\ said' = [sd EXCEPT ![k] = "ok"] /\ events \subseteq [type : EventTypes, amount : Nat]
      /\ post' = post /\ evening' = evening
  BY <1>1 DEF Base, Typed, Execute
<1>3. CASE k = "pay"
  <2>1. /\ i = "succeeded" /\ intent' = i /\ ours' = n + 1
        /\ events' = events \cup {Event("refunded", n + t + 1)}
    BY <1>1, <1>3 DEF Execute, Possible, IntentAfter
  <2>2. /\ n + t + 1 \in Nat /\ n + t + 1 = (n + 1) + t /\ n + 1 \in Nat /\ n + 1 > 0
        /\ \A m \in Nat : m <= n + t => m <= (n + 1) + t
    BY <1>2, Sums
  <2>3. PICK e : e = Event("refunded", n + t + 1)
    OBVIOUS
  <2>4. /\ e \in [type : EventTypes, amount : Nat] /\ e.type = "refunded"
        /\ e.amount = (n + 1) + t /\ e.amount <= (n + 1) + t
    BY <2>2, <2>3, <1>2 DEF Event, EventTypes
  <2>5. events' = events \cup {e} /\ Event("refunded", ours' + theirs') = e
    BY <1>2, <2>1, <2>2, <2>3
  <2>6. events' \subseteq [type : EventTypes, amount : Nat] /\ events \subseteq events'
    BY <1>2, <2>4, <2>5
  <2>7. said' \in [Keys -> {"nothing", "ok", "no"}] /\ said'["pay"] = "ok"
        /\ \A j \in Keys : j # "pay" => said'[j] = sd[j]
    BY <1>2, <1>3
  <2>8. Ledger'
    <3>1. said'["refund"] = "ok" => intent' = "canceled"
      BY <1>1, <2>1, <2>7 DEF Base, Ledger, Keys, Ops
    <3>2. \A j \in Captures : said'[j] = "ok" => intent' = "succeeded"
      BY <1>1, <2>1
    <3>3. ASSUME NEW f \in events'
          PROVE  /\ f.type = "refunded" => intent' = "succeeded" /\ f.amount <= ours' + theirs'
                 /\ f.type = "authorized" => intent' # "unconfirmed"
      <4>1. f \in events => f.amount \in Nat /\ (f.type = "refunded" => f.amount <= n + t)
        BY <1>1, <1>2 DEF Base, Ledger
      <4>2. f.type = "refunded" => f.amount <= (n + 1) + t
        BY <2>2, <2>4, <2>5, <4>1
      <4> QED BY <1>2, <2>1, <4>2
    <3>4. post' <= ours' + theirs'
      <4>1. post \in Nat /\ post <= n + t
        BY <1>1 DEF Base, Typed, Ledger
      <4> QED BY <1>2, <2>1, <2>2, <4>1
    <3> QED BY <1>1, <2>1, <2>2, <3>1, <3>2, <3>3, <3>4 DEF Ledger
  <2>9. Onward
    BY <1>1, <1>2, <2>1, <2>2, <2>7 DEF Onward
  <2> QED BY <1>1, <1>2, <1>3, <2>1, <2>2, <2>5, <2>6, <2>7, <2>8, <2>9
<1>4. CASE k # "pay"
  <2>1. /\ i = "requires_capture" /\ ours' = n
        /\ intent' = IF k = "refund" THEN "canceled" ELSE "succeeded"
        /\ events' = events \/ events' = events \cup {Event("released", 0)}
    BY <1>1, <1>4 DEF Execute, Possible, IntentAfter
  <2>2. n = 0 /\ t = 0
    BY <1>1, <1>2, <2>1 DEF Base, Ledger
  <2>3. PICK e : e = Event("released", 0)
    OBVIOUS
  <2>4. e \in [type : EventTypes, amount : Nat] /\ e.type = "released"
    BY <2>3 DEF Event, EventTypes
  <2>5. events' \subseteq [type : EventTypes, amount : Nat] /\ events \subseteq events'
    BY <1>2, <2>1, <2>3, <2>4
  <2>6. said' \in [Keys -> {"nothing", "ok", "no"}] /\ said'[k] = "ok"
        /\ \A j \in Keys : j # k => said'[j] = sd[j]
    BY <1>2
  <2>7. \A j \in Captures : said'[j] = "ok" => j = k
    BY <1>1, <2>1, <2>6 DEF Base, Ledger, Captures, Keys, Ops
  <2>8. k \in Captures \cup {"refund"} /\ "refund" \in Keys /\ "refund" \notin Captures /\ "pay" \in Keys
    BY <1>4 DEF Keys, Ops, Captures
  <2>9. Ledger'
    <3>1. said'["refund"] = "ok" => intent' = "canceled"
      BY <1>1, <2>1, <2>6, <2>8 DEF Base, Ledger
    <3>2. \A j \in Captures : said'[j] = "ok" => intent' = "succeeded"
      BY <2>1, <2>7, <2>8
    <3>3. said'["pay"] # "ok"
      BY <1>1, <1>4, <2>2, <2>6, <2>8 DEF Base, Ledger
    <3>4. \A f \in events' : f.type \notin {"refunded"} 
      BY <1>1, <2>1, <2>3, <2>4 DEF Base, Ledger
    <3>5. post' <= ours' + theirs'
      BY <1>1, <1>2, <2>1 DEF Base, Ledger
    <3>6. intent' # "unconfirmed" /\ ~(ours' > 0 \/ theirs' > 0)
      BY <1>2, <2>1, <2>2
    <3> QED BY <3>1, <3>2, <3>3, <3>4, <3>5, <3>6 DEF Ledger
  <2>10. Onward
    BY <1>1, <1>2, <2>1, <2>2, <2>6 DEF Onward
  <2> QED BY <1>1, <1>4, <2>1, <2>5, <2>6, <2>8, <2>9, <2>10, <1>2 DEF IntentStatus
<1> QED BY <1>3, <1>4

\* Where a request for k leaves the provider, done or not.
Heard(k) ==
  /\ intent' \in IntentStatus /\ said' \in [Keys -> {"nothing", "ok", "no"}]
  /\ ours' \in Nat /\ events' \subseteq [type : EventTypes, amount : Nat] /\ events \subseteq events'
  /\ Ledger' /\ Onward
  /\ intent' = "succeeded" => intent = "succeeded" \/ (k \in Captures /\ Fresh(k))
  /\ \/ ours' = ours
     \/ /\ k = "pay" /\ said["pay"] = "nothing" /\ intent = "succeeded"
        /\ ours' = ours + 1 /\ Event("refunded", ours' + theirs') \in events'

LEMMA Unheard ==
  ASSUME Base, NEW k, UNCHANGED provider, UNCHANGED <<evening, post, theirs>>
  PROVE  Heard(k)
<1>1. Ledger' /\ Onward
  BY DEF Base, Ledger, Onward, provider
<1> QED BY <1>1 DEF Base, Typed, Heard, provider

LEMMA AnswerOn ==
  ASSUME Base, NEW k \in Keys, NEW answer \in {"ok", "no"}, Answer(k, answer),
         UNCHANGED <<evening, post, theirs>>
  PROVE  /\ Heard(k) /\ (answer = "ok" => said'[k] = "ok")
         /\ answer = "no" /\ k # "pay" => said'[k] # "nothing" \/ intent # "requires_capture"
<1>1. CASE UNCHANGED provider /\ said[k] = answer
  BY <1>1, Unheard DEF provider
<1>2. CASE UNCHANGED provider /\ answer = "no" /\ ~Possible(k)
  BY <1>2, Unheard DEF Possible
<1>3. CASE /\ answer = "no" /\ said' = [said EXCEPT ![k] = "no"]
           /\ said[k] = "nothing" /\ UNCHANGED <<intent, ours, events>>
  <2>1. /\ said' \in [Keys -> {"nothing", "ok", "no"}] /\ said'[k] = "no"
        /\ \A j \in Keys : j # k => said'[j] = said[j]
    BY <1>3 DEF Base, Typed
  <2>2. /\ \A j \in Keys : said'[j] = "ok" => said[j] = "ok"
        /\ {"refund", "pay"} \cup Captures \subseteq Keys
    BY <2>1 DEF Keys, Ops, Captures
  <2>3. Ledger'
    BY <1>3, <2>2 DEF Base, Ledger
  <2>4. Onward
    BY <1>3, <2>1, <2>2 DEF Base, Typed, Onward
  <2> QED BY <1>3, <2>1, <2>3, <2>4 DEF Heard, Base, Typed
<1>4. CASE answer = "ok" /\ Execute(k)
  <2>1. said[k] = "nothing"
    BY <1>4 DEF Execute
  <2> QED BY <1>4, <2>1, ExecuteOn DEF Heard, Fresh, Open
<1> QED BY <1>1, <1>2, <1>3, <1>4, AnswerCases

LEMMA ReachOn ==
  ASSUME Base, NEW k \in Keys, NEW answer \in {"ok", "no", "lost"}, Reach(k, answer),
         UNCHANGED <<evening, post, theirs>>
  PROVE  /\ Heard(k) /\ wire \subseteq wire' /\ wire' \subseteq wire \cup {k}
         /\ (answer = "ok" => said'[k] = "ok")
         /\ answer = "no" /\ k # "pay" => said'[k] # "nothing" \/ intent # "requires_capture"
<1>1. CASE answer \in {"ok", "no"}
  BY <1>1, AnswerOn DEF Reach
<1>2. CASE answer = "lost"
  BY <1>2, Unheard DEF Reach
<1> QED BY <1>1, <1>2

\* A request's call leaves the row alone.
LEMMA CallBase ==
  ASSUME Base, NEW p \in Proc, NEW y, Moves(p, y), NEW k \in Keys, Heard(k),
         wire' \subseteq wire \cup {k}, UNCHANGED <<booking, row, post, theirs>>
  PROVE  Base'
<1>1. WorldTyped'
  BY DEF Base, Typed, Heard, Onward, WorldTyped
<1>2. Ledger'
  BY DEF Heard
<1> QED BY <1>1, <1>2, MovesOn DEF Base, Typed, WorldTyped

-----------------------------------------------------------------------------
(* What holds on while the row stays as it is.                             *)

LEMMA GroundedOn ==
  ASSUME Base, NEW x \in Requests, Grounded(x), Onward,
         x.pc = "reread" /\ x.op = "forfeit" /\ row'.st = "forfeited" =>
           row.st = "forfeited" \/ intent = "succeeded"
  PROVE  Grounded(x)'
BY DEF Grounded, Onward

LEMMA GroundedStep ==
  ASSUME Base, \A q \in Proc : Grounded(h[q]), NEW p \in Proc, NEW y, Moves(p, y),
         Onward, Grounded(y)',
         \A q \in Proc : q # p /\ h[q].pc = "reread" /\ h[q].op = "forfeit" =>
           row'.st = row.st \/ row'.st # "forfeited"
  PROVE  (\A q \in Proc : Grounded(h[q]))'
<1>1. ASSUME NEW q \in Proc PROVE Grounded(h[q])'
  <2>1. CASE q = p
    <3>1. h'[q] = y
      BY <2>1, MovesOn
    <3> QED BY <3>1 DEF Grounded
  <2>2. CASE q # p
    <3>1. PICK x : x = h[q] /\ h'[q] = x /\ x \in Requests
      BY <2>2, MovesOn DEF Base, Typed
    <3>2. Grounded(x)'
      BY <2>2, <3>1, GroundedOn
    <3> QED BY <3>1, <3>2 DEF Grounded
  <2> QED BY <2>1, <2>2
<1> QED BY <1>1

\* A charge comes only of a capture that somebody wanted and that was open.
Charging == intent' = "succeeded" => \/ intent = "succeeded"
                                     \/ \E k \in Captures : Wanted(k) /\ Fresh(k)

LEMMA FreshBefore ==
  ASSUME Base, Onward, NEW k \in Keys, Fresh(k)'
  PROVE  Fresh(k)
BY DEF Base, Typed, Fresh, Open, Onward, IntentStatus

LEMMA Targets ==
  ASSUME NEW j \in Ops, NEW k \in Ops, Target[j] = Target[k]
  PROVE  j = k
BY DEF Target, Ops

LEMMA SafeOn ==
  ASSUME Base, Recorded, NEW x \in Requests, Shaped(x), Safe(x), Onward, Charging, row' = row
  PROVE  Safe(x)'
<1>1. \A k \in Captures : ~Fresh(k) => ~Fresh(k)'
  BY FreshBefore DEF Captures, Keys, Ops
<1>2. evening' = evening /\ \A k \in Captures : Wanted(k) /\ Fresh(k) => row.st = Target[k]
  BY DEF Onward, Recorded
<1>3. x.pc = "check" /\ x.sure /\ x.op \in Captures => ~Fresh(x.op)'
  BY <1>1 DEF Safe
<1>4. ASSUME x.pc = "undo", x.to = "held", x.op \in Captures
      PROVE  ~Fresh(x.op)' /\ (row'.st = Target[x.op] => intent' # "succeeded")
  <2>1. ~Fresh(x.op) /\ (row.st = Target[x.op] => intent # "succeeded")
    BY <1>4 DEF Safe
  <2>2. ASSUME row.st = Target[x.op], intent' = "succeeded" PROVE FALSE
    <3>1. PICK k \in Captures : Wanted(k) /\ Fresh(k)
      BY <2>1, <2>2 DEF Charging
    <3>2. Target[k] = Target[x.op] /\ k \in Ops /\ x.op \in Ops
      BY <1>2, <1>4, <2>2, <3>1 DEF Captures, Ops
    <3> QED BY <2>1, <3>1, <3>2, Targets
  <2> QED BY <1>1, <1>4, <2>1, <2>2
<1>5. Lapsed(x) => Lapsed(x)'
  BY <1>2 DEF Lapsed
<1>6. ASSUME x.pc = "undo", x.to = "held", x.op = None
      PROVE  Lapsed(x)' /\ intent' # "succeeded"
  <2>1. Lapsed(x) /\ intent # "succeeded" /\ x.saw \in {"applied", "forfeited"}
    BY <1>6 DEF Safe, Shaped
  <2>2. \A k \in Captures : ~(Wanted(k) /\ Fresh(k))
    BY <2>1 DEF Lapsed, Recorded
  <2> QED BY <1>5, <2>1, <2>2 DEF Charging
<1>7. x.pc = "verify" /\ x.old /\ ~x.redo => Lapsed(x)'
  BY <1>5 DEF Safe
<1>8. evening'.alone /\ x.pc \in {"stamp", "verify"} =>
        row'.st = x.saw /\ (row'.origin = "no_show" /\ x.door = "no_show" => x.redo)
  BY <1>2 DEF Safe
<1>9. ours' > 0 /\ said'["pay"] = "nothing" => x.pc # "pay" /\ ~x.mine
  BY DEF Safe, Onward
<1>10. x.pc = "undo" /\ x.to = "uncollectable" => intent' = "canceled"
  BY DEF Safe, Onward
<1> QED BY <1>3, <1>4, <1>6, <1>7, <1>8, <1>9, <1>10 DEF Safe

LEMMA SafeStep ==
  ASSUME Base, Recorded, \A q \in Proc : Safe(h[q]), NEW p \in Proc, NEW y, Moves(p, y),
         Onward, Charging, row' = row, Safe(y)'
  PROVE  (\A q \in Proc : Safe(h[q]))'
<1>1. ASSUME NEW q \in Proc PROVE Safe(h[q])'
  <2>1. CASE q = p
    <3>1. h'[q] = y
      BY <2>1, MovesOn
    <3> QED BY <3>1 DEF Safe, Lapsed, Fresh, Open
  <2>2. CASE q # p
    <3>1. PICK x : x = h[q] /\ h'[q] = x /\ x \in Requests /\ Shaped(x) /\ Safe(x)
      BY <2>2, MovesOn DEF Base, Typed
    <3>2. Safe(x)'
      BY <3>1, SafeOn
    <3> QED BY <3>1, <3>2 DEF Safe, Lapsed, Fresh, Open
  <2> QED BY <2>1, <2>2
<1> QED BY <1>1

\* A want that comes up finds the row as it should be.
Due(k) == row.st = Target[k] /\ (row.origin = "no_show" \/ k = "partial")

LEMMA RecordedOn ==
  ASSUME Base, Recorded, Onward, Charging, row' = row,
         \A k \in Captures : Wanted(k)' /\ Fresh(k)' => Wanted(k) \/ Due(k),
         row.st = "pending" => wire' = {} /\ \A p \in Proc : h'[p].pc \in Before,
         ours' <= 1, ours' > 0 /\ said'["pay"] = "nothing" => "pay" \notin wire'
  PROVE  Recorded'
<1>1. evening' = evening /\ \A k \in Captures : Fresh(k)' => Fresh(k)
  BY FreshBefore DEF Onward, Captures, Keys, Ops
<1>2. \A k \in Captures : Wanted(k)' /\ Fresh(k)' => row'.st = Target[k]
  BY <1>1 DEF Recorded, Due
<1>3. ASSUME row'.aged, row'.origin # "no_show", row'.st # "partial_refunded", NEW k \in Captures,
             Wanted(k)', Fresh(k)'
      PROVE  FALSE
  <2>1. CASE Wanted(k)
    BY <1>1, <1>3, <2>1 DEF Recorded
  <2>2. CASE Due(k)
    BY <1>3, <2>2 DEF Due, Target
  <2> QED BY <1>3, <2>1, <2>2
<1>4. ChargeOnRecord'
  <2>1. ASSUME NEW k \in Captures, Wanted(k), Fresh(k) PROVE row.st \in Captured
    BY <2>1 DEF Recorded, Captures, Target, Captured
  <2> QED BY <2>1 DEF Recorded, ChargeOnRecord, Charging
<1>5. intent' = "unconfirmed" => row'.st = "pending"
  BY DEF Recorded, Onward
<1>6. /\ row'.aged => May("late")' /\ row'.st \in Captured
      /\ row'.origin = "no_show" => May("no_show")' /\ evening'.noShow = "forfeit"
  BY <1>1 DEF Recorded, May
<1> QED BY <1>2, <1>3, <1>4, <1>5, <1>6 DEF Recorded

LEMMA CountedOn ==
  ASSUME Base, Counted, NEW k, Heard(k), UNCHANGED <<row, post, theirs>>
  PROVE  Counted'
<1>1. CASE ours' = ours
  BY <1>1 DEF Counted, Heard
<1>2. CASE ours' = ours + 1 /\ Event("refunded", ours' + theirs') \in events'
  <2>1. ours' > 0
    BY <1>2 DEF Base, Typed
  <2>2. post \in Nat
    BY DEF Base, Typed
  <2> QED BY <1>2, <2>1, <2>2 DEF Counted
<1> QED BY <1>1, <1>2 DEF Heard

-----------------------------------------------------------------------------
(* One request moves.                                                      *)

LEMMA RestsKeeps ==
  ASSUME DepositInv, NEW p \in Proc, NEW y, Moves(p, y), Rests,
         Certain => Grounded(y), Unhurried => Safe(y),
         Unhurried => \A k \in Captures : Wants(y, k) => Wants(h[p], k) \/ Due(k),
         row.st = "pending" /\ h[p].pc \in Before => y.pc \in Before
  PROVE  DepositInv'
<1>1. Base' /\ Base /\ Onward
  BY RestsBase DEF DepositInv, Rests, provider, Onward
<1>2. row' = row /\ intent' = intent /\ ours' = ours /\ said' = said /\ wire' = wire
      /\ evening' = evening /\ theirs' = theirs /\ post' = post /\ events' = events
  BY DEF Rests, provider
<1>3. Proven'
  <2>1. ASSUME Certain PROVE (\A q \in Proc : Grounded(h[q]))'
    <3>1. Grounded(y)'
      BY <1>2, <2>1 DEF Grounded
    <3> QED BY <1>1, <1>2, <2>1, <3>1, GroundedStep DEF DepositInv, Proven
  <2> QED BY <2>1 DEF Proven
<1>4. Timed'
  <2> SUFFICES ASSUME Unhurried PROVE (Recorded /\ Counted /\ \A q \in Proc : Safe(h[q]))'
    BY DEF Timed
  <2>1. Recorded /\ Counted /\ (\A q \in Proc : Safe(h[q])) /\ Charging
    BY <1>2 DEF DepositInv, Timed, Charging
  <2>2. Safe(y)'
    BY <1>2 DEF Safe, Lapsed, Fresh, Open
  <2>3. (\A q \in Proc : Safe(h[q]))'
    BY <1>1, <1>2, <2>1, <2>2, SafeStep
  <2>4. Counted'
    BY <1>2, <2>1 DEF Counted
  <2>5. ASSUME NEW k \in Captures, Wanted(k)' PROVE Wanted(k) \/ Due(k)
    <3>1. CASE k \in wire'
      BY <1>2, <3>1 DEF Wanted
    <3>2. CASE \E q \in Proc : Wants(h'[q], k)
      <4>1. PICK q \in Proc : Wants(h'[q], k)
        BY <3>2
      <4>2. CASE q = p
        BY <1>1, <4>1, <4>2, MovesOn DEF Wanted
      <4>3. CASE q # p
        BY <1>1, <4>1, <4>3, MovesOn DEF Wanted
      <4> QED BY <4>2, <4>3
    <3>3. k \in wire' \/ \E q \in Proc : Wants(h'[q], k)
      BY <2>5 DEF Wanted, Wants
    <3> QED BY <3>1, <3>2, <3>3
  <2>6. row.st = "pending" => wire' = {} /\ \A q \in Proc : h'[q].pc \in Before
    BY <1>1, <1>2, <2>1, MovesOn DEF Recorded
  <2>7. ours' <= 1 /\ (ours' > 0 /\ said'["pay"] = "nothing" => "pay" \notin wire')
    BY <1>2, <2>1 DEF Recorded
  <2>8. Recorded'
    BY <1>1, <1>2, <2>1, <2>5, <2>6, <2>7, RecordedOn
  <2> QED BY <2>3, <2>4, <2>8
<1> QED BY <1>1, <1>3, <1>4 DEF DepositInv

LEMMA CallKeeps ==
  ASSUME DepositInv, NEW p \in Proc, NEW y, Moves(p, y), NEW k \in Keys, Heard(k),
         wire \subseteq wire', wire' \subseteq wire \cup {k},
         UNCHANGED <<booking, row, post, theirs>>,
         h[p].pc \notin Before, k \in Captures => Wants(h[p], k), k = "pay" => h[p].pc = "pay",
         \A j \in Captures : ~Wants(y, j),
         Certain => Grounded(y)', Unhurried => Safe(y)'
  PROVE  DepositInv'
<1>1. Base' /\ Base /\ Onward
  BY CallBase DEF DepositInv, Heard
<1>2. Proven'
  BY <1>1, GroundedStep DEF DepositInv, Proven
<1>3. Timed'
  <2> SUFFICES ASSUME Unhurried PROVE (Recorded /\ Counted /\ \A q \in Proc : Safe(h[q]))'
    BY DEF Timed
  <2>1. Recorded /\ Counted /\ (\A q \in Proc : Safe(h[q]))
    BY DEF DepositInv, Timed
  <2>2. Charging
    BY DEF Charging, Heard, Wanted
  <2>3. (\A q \in Proc : Safe(h[q]))'
    BY <1>1, <2>1, <2>2, SafeStep
  <2>4. Counted'
    BY <1>1, <2>1, CountedOn
  <2>5. ASSUME NEW j \in Captures, Wanted(j)' PROVE Wanted(j)
    <3>1. CASE j \in wire'
      BY <3>1 DEF Wanted
    <3>2. CASE \E q \in Proc : Wants(h'[q], j)
      BY <1>1, <3>2, MovesOn DEF Wanted
    <3>3. j \in wire' \/ \E q \in Proc : Wants(h'[q], j)
      BY <2>5 DEF Wanted, Wants
    <3> QED BY <3>1, <3>2, <3>3
  <2>6. row.st # "pending"
    BY <2>1 DEF Recorded
  <2>7. ours' <= 1
    <3>1. CASE ours' = ours
      BY <2>1, <3>1 DEF Recorded
    <3>2. CASE k = "pay" /\ said["pay"] = "nothing" /\ ours' = ours + 1
      <4>1. ~(ours > 0) /\ ours \in Nat
        BY <1>1, <2>1, <3>2 DEF Safe, Base, Typed
      <4> QED BY <3>2, <4>1
    <3> QED BY <3>1, <3>2 DEF Heard
  <2>8. ours' > 0 /\ said'["pay"] = "nothing" => "pay" \notin wire'
    <3>1. ASSUME ours > 0, said["pay"] = "nothing" PROVE "pay" \notin wire' 
      BY <2>1, <3>1 DEF Recorded, Safe
    <3> QED BY <1>1, <3>1 DEF Onward
  <2>9. Recorded'
    BY <1>1, <2>1, <2>2, <2>5, <2>6, <2>7, <2>8, RecordedOn
  <2> QED BY <2>3, <2>4, <2>9
<1> QED BY <1>1, <1>2, <1>3 DEF DepositInv

LEMMA Plain ==
  ASSUME NEW x
  PROVE  /\ x.pc \notin {"write", "reread"} => Grounded(x)
         /\ x.pc \notin {"check", "undo", "verify", "stamp", "pay"} /\ ~x.mine => Safe(x)
         /\ x.pc \notin {"recheck", "call"} /\ ~x.redo => \A k \in Captures : ~Wants(x, k)
         /\ x.pc \notin {"recheck", "call", "stamp", "verify", "recapture"} =>
              \A k \in Captures : ~Wants(x, k)
BY DEF Grounded, Safe, Wants, Verifying

\* A request at work is one that the code can be serving.
LEMMA AtWork ==
  ASSUME DepositInv, NEW p \in Proc, h[p].pc # "idle", NEW y \in Requests, Shaped(y),
         h' = [h EXCEPT ![p] = y], evening' = evening
  PROVE  Moves(p, y)
BY IdleShape DEF Moves

LEMMA Working ==
  ASSUME DepositInv, NEW p \in Proc
  PROVE  /\ h[p] \in Requests /\ Shaped(h[p]) /\ h \in [Proc -> Requests]
         /\ Certain => Grounded(h[p])
         /\ Unhurried => Safe(h[p]) /\ Recorded
BY DEF DepositInv, Base, Typed, Proven, Timed

LEMMA SettleOps ==
  ASSUME DepositInv, NEW x, x.door \in Settling, May(x.door), NEW op \in OpsOf(x.door),
         NEW saw \in DepositStatus
  PROVE  /\ Settle(x, op, saw) \in Requests /\ Settle(x, op, saw).pc = "claim"
         /\ ~Settle(x, op, saw).mine /\ ~Settle(x, op, saw).redo /\ Shaped(Settle(x, op, saw))
<1>1. /\ op \in Ops
      /\ op = "forfeit" => /\ x.door \in {"guest", "no_show", "forfeit"}
                           /\ x.door = "no_show" => evening.noShow = "forfeit"
  BY DepositAssumption DEF OpsOf, Ops, Settling, DepositInv, Base, Typed
<1> QED BY <1>1, SettleShape DEF Doors

LEMMA AskKeeps ==
  ASSUME DepositInv, NEW p \in Proc, NEW door \in Doors, Ask(p, door)
  PROVE  DepositInv'
<1>1. h[p] = Idle /\ May(door) /\ Kept /\ (evening.alone => \A q \in Proc : h[q] = Idle)
  BY DEF Ask
<1>2. PICK y : /\ h' = [h EXCEPT ![p] = y]
               /\ \/ door \in Settling /\ y = [[Idle EXCEPT !.pc = "look"] EXCEPT !.door = door]
                  \/ door = "release" /\ y = Settle([door |-> door], "refund", None)
                  \/ door \in {"apply", "forfeit"} /\ y = Settle([door |-> door], door, None)
  <2>1. CASE door \in Settling
    BY <2>1 DEF Ask, Settling
  <2>2. CASE door = "release"
    BY <2>2 DEF Ask, Settling
  <2>3. CASE door \in {"apply", "forfeit"}
    BY <2>3 DEF Ask, Settling
  <2> QED BY <2>1, <2>2, <2>3 DEF Doors, Routes
<1>3. y \in Requests /\ Shaped(y) /\ y.pc \in {"look", "claim"} /\ ~y.mine /\ ~y.redo
  <2>1. CASE door \in Settling /\ y = [[Idle EXCEPT !.pc = "look"] EXCEPT !.door = door]
    <3>1. y = [pc |-> "look", door |-> door, saw |-> None, op |-> None, mine |-> FALSE,
               sure |-> FALSE, to |-> None, did |-> None, redo |-> FALSE, old |-> FALSE]
      BY <2>1 DEF Idle
    <3>2. y \in Requests /\ y.pc = "look" /\ y.op = None /\ ~y.mine /\ ~y.redo /\ y.door = door
      BY <3>1 DEF Requests, Pcs
    <3>3. Shaped(y)
      BY <1>1, <2>1, <3>2, DepositAssumption DEF Shaped, Verifying, Ops
    <3> QED BY <3>2, <3>3
  <2>2. [door |-> door].door = door
    OBVIOUS
  <2>3. CASE door = "release" /\ y = Settle([door |-> door], "refund", None)
    BY <1>1, <2>2, <2>3, SettleShape DEF Ops
  <2>4. CASE door \in {"apply", "forfeit"} /\ y = Settle([door |-> door], door, None)
    <3>1. /\ door \in Ops
          /\ door = "forfeit" => /\ door \in {"guest", "no_show", "forfeit"}
                                 /\ door = "no_show" => evening.noShow = "forfeit"
      BY <2>4 DEF Ops
    <3> QED BY <1>1, <2>2, <2>4, <3>1, SettleShape
  <2> QED BY <1>2, <2>1, <2>3, <2>4
<1>4. Moves(p, y) /\ Rests
  BY <1>1, <1>2, <1>3 DEF Moves, Kept, Rests, DepositInv, Base, Typed, provider
<1>5. Grounded(y) /\ Safe(y) /\ \A k \in Captures : ~Wants(y, k)
  BY <1>3, Plain
<1> QED BY <1>3, <1>4, <1>5, RestsKeeps DEF Before


LEMMA KeptRests == ASSUME DepositInv, Kept PROVE Rests /\ evening' = evening
BY DEF Kept, Rests, provider, DepositInv, Base, Typed

Stamped(x, st, redo) == [x EXCEPT !.pc = "stamp", !.saw = st, !.redo = redo]

LEMMA StampShape ==
  ASSUME NEW x \in Requests, NEW st \in DepositStatus, NEW b \in BOOLEAN,
         NEW y, y = Stamped(x, st, b)
  PROVE  /\ y \in Requests /\ y.pc = "stamp" /\ y.saw = st /\ y.redo = b
         /\ y.door = x.door /\ y.op = x.op /\ y.mine = x.mine
<1>1. PICK u : u = [x EXCEPT !.pc = "stamp"]
  OBVIOUS
<1>2. /\ u \in Requests /\ u.pc = "stamp" /\ u.door = x.door /\ u.op = x.op /\ u.mine = x.mine
  BY <1>1 DEF Requests, Pcs
<1>3. PICK v : v = [u EXCEPT !.saw = st]
  OBVIOUS
<1>4. /\ v \in Requests /\ v.pc = "stamp" /\ v.door = x.door /\ v.op = x.op /\ v.mine = x.mine
      /\ v.saw = st
  BY <1>2, <1>3 DEF Requests
<1>5. y = [v EXCEPT !.redo = b]
  BY <1>1, <1>3 DEF Stamped
<1> QED BY <1>4, <1>5 DEF Requests

LEMMA LookKeeps ==
  ASSUME DepositInv, NEW p \in Proc, Look(p)
  PROVE  DepositInv'
<1>1. PICK x : /\ x = h[p] /\ x.pc = "look" /\ x \in Requests /\ Shaped(x) /\ x.op = None
               /\ x.door \in Settling /\ x.door \in Doors /\ May(x.door) /\ Kept /\ ~x.mine
  BY Working, DepositAssumption DEF Look, Shaped, Requests
<1>2. PICK st \in DepositStatus : st = row.st /\ (row.origin = "no_show" => st = "forfeited")
  BY DepositAssumption DEF DepositInv, Base, Typed, Rows, Settling
<1>3. PICK y :
        /\ h' = [h EXCEPT ![p] = y]
        /\ \/ st \in {"held", "partial_refunded"} /\ \E op \in OpsOf(x.door) : y = Settle(x, op, st)
           \/ st = "partial_refunded" /\ y = Settle(x, "partial", st)
           \/ /\ st \in {"applied", "forfeited"}
              /\ y = [x EXCEPT !.pc = "stamp", !.saw = st,
                               !.redo = x.door = "no_show" /\ row.origin = "no_show"]
           \/ st \in {"pending", "refunded", "uncollectable"} /\ y = Done(x, None)
  BY <1>1, <1>2 DEF Look
<1>4. CASE \E op \in OpsOf(x.door) : y = Settle(x, op, st)
  <2>1. y \in Requests /\ y.pc = "claim" /\ ~y.mine /\ ~y.redo /\ Shaped(y)
    BY <1>1, <1>4, SettleOps
  <2>2. Moves(p, y) /\ Rests
    BY <1>1, <1>3, <2>1, KeptRests, AtWork
  <2> QED BY <2>1, <2>2, Plain, RestsKeeps DEF Before
<1>5. CASE y = Settle(x, "partial", st)
  <2>1. y \in Requests /\ y.pc = "claim" /\ ~y.mine /\ ~y.redo /\ Shaped(y)
    BY <1>1, <1>5, SettleShape DEF Ops
  <2>2. Moves(p, y) /\ Rests
    BY <1>1, <1>3, <2>1, KeptRests, AtWork
  <2> QED BY <2>1, <2>2, Plain, RestsKeeps DEF Before
<1>6. CASE /\ st \in {"applied", "forfeited"}
           /\ y = [x EXCEPT !.pc = "stamp", !.saw = st,
                            !.redo = x.door = "no_show" /\ row.origin = "no_show"]
  <2>1. PICK b \in BOOLEAN : /\ b <=> (x.door = "no_show" /\ row.origin = "no_show")
                            /\ y = Stamped(x, st, b)
    BY <1>6 DEF Stamped
  <2>2. /\ y \in Requests /\ y.pc = "stamp" /\ y.saw = st /\ y.redo = b
        /\ y.door = x.door /\ y.op = x.op /\ y.mine = x.mine
    BY <1>1, <2>1, StampShape
  <2>3. Shaped(y) /\ ~y.mine
    <3>1. ~y.mine /\ y.op = None /\ y.pc = "stamp" /\ y.saw \in {"applied", "forfeited"}
      BY <1>1, <1>6, <2>2
    <3>2. y.op \notin Ops /\ y.door \in Settling /\ y.door \in Doors /\ May(y.door)
      BY <1>1, <2>2, <3>1, DepositAssumption
    <3> QED BY <3>1, <3>2 DEF Shaped, Verifying, Ops
  <2>4. Moves(p, y) /\ Rests
    BY <1>1, <1>3, <2>2, <2>3, KeptRests, AtWork
  <2>5. Safe(y)
    BY <1>2, <1>6, <2>1, <2>2, <2>3 DEF Safe
  <2>6. \A k \in Captures : Wants(y, k) => Due(k)
    BY <1>2, <1>6, <2>1, <2>2 DEF Wants, Due, Target
  <2>7. row.st # "pending"
    BY <1>2, <1>6
  <2> QED BY <2>2, <2>4, <2>5, <2>6, <2>7, Plain, RestsKeeps
<1>7. CASE y = Done(x, None)
  <2>1. y \in Requests /\ Shaped(y) /\ y.pc \in {"idle", "write"} /\ ~y.mine
    BY <1>1, <1>7, DoneShape, DoneShaped
  <2>2. y.pc = "write" => y.did = None
    BY <1>1, <1>7, DoneShape
  <2>3. Moves(p, y) /\ Rests
    BY <1>1, <1>3, <2>1, KeptRests, AtWork
  <2>4. Grounded(y)
    BY <2>1, <2>2, DepositAssumption DEF Grounded, DepositStatus, Captured
  <2> QED BY <2>1, <2>3, <2>4, Plain, RestsKeeps DEF Before
<1> QED BY <1>3, <1>4, <1>5, <1>6, <1>7

LEMMA StillSafe ==
  ASSUME NEW x, Safe(x), NEW y, y.mine => x.mine, y.pc \notin {"check", "undo", "verify", "stamp", "pay"}
  PROVE  Safe(y)
BY DEF Safe

\* What is seen of the intent is the truth, or nothing.
LEMMA Sight ==
  ASSUME DepositInv, NEW seen \in Seen(intent)
  PROVE  /\ seen \in IntentStatus \cup {None}
         /\ seen = intent \/ (seen = None /\ May("blind"))
         /\ seen \in {"unconfirmed", "requires_capture", "succeeded", "canceled"} => seen = intent
BY DepositAssumption DEF Seen, DepositInv, Base, Typed, IntentStatus

LEMMA RecheckKeeps ==
  ASSUME DepositInv, NEW p \in Proc, Recheck(p)
  PROVE  DepositInv'
<1>1. PICK x : /\ x = h[p] /\ x.pc = "recheck" /\ x \in Requests /\ Shaped(x) /\ x.op = "partial"
               /\ x.door \in Doors /\ May(x.door) /\ Kept
  BY Working DEF Recheck, Shaped
<1>a. PICK seen \in Seen(intent) :
        \E y : /\ h' = [h EXCEPT ![p] = y]
              /\ \/ seen = "canceled" /\ y = TakeBack(x, "uncollectable")
                 \/ \E pc \in {"find", "call"} : y = Step(x, pc)
  BY <1>1 DEF Recheck
<1>2. PICK y :
        /\ h' = [h EXCEPT ![p] = y]
        /\ \/ seen = "canceled" /\ y = TakeBack(x, "uncollectable")
           \/ \E pc \in {"find", "call"} : y = Step(x, pc)
  BY <1>a
<1>3. row.st # "pending" \/ ~Unhurried
  BY <1>1, Working DEF Recorded, Before
<1>4. CASE seen = "canceled" /\ y = TakeBack(x, "uncollectable")
  <2>1. Kin(y, x) /\ y.pc = "undo" /\ y.to = "uncollectable" /\ Shaped(y)
    BY <1>1, <1>4, TakeBackShape, DepositAssumption DEF Ops
  <2>2. Moves(p, y) /\ Rests
    BY <1>1, <1>2, <2>1, KeptRests, AtWork DEF Kin
  <2>3. Grounded(y)
    BY <1>4, <2>1, Sight DEF Grounded
  <2>4. Unhurried => Safe(y)
    BY <1>1, <1>4, <2>1, Sight, Working DEF Safe, Kin
  <2> QED BY <1>1, <2>1, <2>2, <2>3, <2>4, Plain, RestsKeeps DEF Before
<1>5. ASSUME NEW pc \in {"find", "call"}, y = Step(x, pc) PROVE DepositInv'
  <2>1. Kin(y, x) /\ y.pc = pc
    BY <1>1, <1>5, StepShape DEF Kin, Pcs
  <2>2. Shaped(y)
    BY <1>1, <2>1, DepositAssumption DEF Shaped, Kin, Verifying, Ops
  <2>3. Moves(p, y) /\ Rests
    BY <1>1, <1>2, <2>1, <2>2, KeptRests, AtWork DEF Kin
  <2>4. Grounded(y) /\ (Unhurried => Safe(y))
    BY <1>1, <2>1, Plain, Working, StillSafe DEF Kin
  <2>5. \A k \in Captures : Wants(y, k) => Wants(x, k)
    BY <1>1, <2>1 DEF Wants, Kin, Verifying
  <2> QED BY <1>1, <2>3, <2>4, <2>5, RestsKeeps DEF Before
<1> QED BY <1>2, <1>4, <1>5

LEMMA CheckKeeps ==
  ASSUME DepositInv, NEW p \in Proc, Check(p)
  PROVE  DepositInv'
<1>1. PICK x : /\ x = h[p] /\ x.pc = "check" /\ x \in Requests /\ Shaped(x) /\ x.op \in Ops /\ x.mine
               /\ Kept
  BY Working DEF Check, Shaped
<1>a. PICK seen \in Seen(intent) : h' = [h EXCEPT ![p] = AfterCheck(x, seen)]
  BY <1>1, Working DEF Check
<1>2. PICK y : h' = [h EXCEPT ![p] = y] /\ y = AfterCheck(x, seen)
  BY <1>a
<1>3. /\ y \in Requests /\ Shaped(y) /\ y.pc \in {"idle", "write", "pay", "undo", "reread"}
      /\ y.pc = "write" => seen = "canceled" /\ y.did = "refunded"
      /\ y.pc = "undo" => /\ y.op = x.op
                          /\ y.to = "uncollectable" => seen = "canceled"
                          /\ y.to = "held" /\ x.op # "refund" => x.sure /\ seen = "requires_capture"
      /\ y.pc = "reread" => seen \in {None, "succeeded"}
  BY <1>1, <1>2, AfterCheckShape, Sight
<1>4. Moves(p, y) /\ Rests
  BY <1>1, <1>2, <1>3, KeptRests, AtWork
<1>5. ASSUME Certain PROVE Grounded(y)
  <2>1. ASSUME y.pc = "reread", y.op = "forfeit" PROVE intent = "succeeded"
    <3>1. May("no_show") /\ evening.noShow = "forfeit" /\ evening \in Evenings
      BY <1>3, <2>1 DEF Shaped, DepositInv, Base, Typed
    <3>2. ~May("blind")
      BY <1>5, <3>1 DEF Certain, May
    <3> QED BY <1>3, <2>1, <3>2, Sight, DepositAssumption DEF DepositInv, Base, Typed, IntentStatus
  <2> QED BY <1>3, <2>1, Sight, DepositAssumption DEF Grounded, Captured
<1>6. ASSUME Unhurried PROVE Safe(y)
  <2>1. Safe(x)
    BY <1>1, <1>6, Working
  <2>2. ours > 0 => said["pay"] # "nothing"
    BY <1>1, <2>1 DEF Safe
  <2>3. y.pc = "undo" => y.op # None
    BY <1>1, <1>3, DepositAssumption DEF Ops
  <2>4. y.pc = "undo" /\ y.to = "held" /\ y.op \in Captures => ~Fresh(y.op) /\ intent # "succeeded"
    BY <1>1, <1>3, <2>1, Sight DEF Safe, Captures
  <2> QED BY <1>3, <2>2, <2>3, <2>4, Sight DEF Safe
<1> QED BY <1>1, <1>3, <1>4, <1>5, <1>6, Plain, RestsKeeps DEF Before

LEMMA AgainKeeps ==
  ASSUME DepositInv, NEW p \in Proc, Again(p)
  PROVE  DepositInv'
<1>1. PICK x : /\ x = h[p] /\ x.pc = "again" /\ x \in Requests /\ Shaped(x) /\ x.door \in Settling
               /\ May(x.door) /\ Kept
  BY Working DEF Again, Shaped
<1>2. PICK y : /\ h' = [h EXCEPT ![p] = y]
               /\ y = Idle \/ \E op \in OpsOf(x.door) : y = Settle(x, op, "held")
  BY <1>1 DEF Again
<1>3. y \in Requests /\ Shaped(y) /\ y.pc \in {"idle", "claim"} /\ ~y.mine /\ ~y.redo
  <2>1. CASE \E op \in OpsOf(x.door) : y = Settle(x, op, "held")
    BY <1>1, <2>1, SettleOps DEF DepositStatus
  <2> QED BY <1>2, <2>1, IdleShape
<1>4. Moves(p, y) /\ Rests
  BY <1>1, <1>2, <1>3, KeptRests, AtWork
<1> QED BY <1>3, <1>4, Plain, RestsKeeps DEF Before

LEMMA RereadKeeps ==
  ASSUME DepositInv, NEW p \in Proc, Reread(p)
  PROVE  DepositInv'
<1>1. PICK x : x = h[p] /\ x.pc = "reread" /\ x \in Requests /\ Shaped(x) /\ Kept
  BY Working DEF Reread
<1>2. PICK y : /\ h' = [h EXCEPT ![p] = y]
               /\ \/ y = Done(x, None)
                  \/ y = Done(x, "forfeited") /\ row.st = "forfeited" /\ x.op = "forfeit"
                  \/ y = Idle
  BY <1>1 DEF Reread
<1>3. /\ y \in Requests /\ Shaped(y) /\ y.pc \in {"idle", "write"} /\ ~y.mine
      /\ y.pc = "write" => \/ y.did = None
                           \/ y.did = "forfeited" /\ row.st = "forfeited" /\ x.op = "forfeit"
  <2>1. CASE y = Done(x, None)
    BY <1>1, <2>1, DoneShape, DoneShaped, IdleShape
  <2>2. CASE y = Done(x, "forfeited") /\ row.st = "forfeited" /\ x.op = "forfeit"
    <3>1. "forfeited" \in DepositStatus \cup {None}
      BY DEF DepositStatus, Captured
    <3> QED BY <1>1, <2>2, <3>1, DoneShape, DoneShaped, IdleShape
  <2> QED BY <1>2, <2>1, <2>2, IdleShape
<1>4. Moves(p, y) /\ Rests
  BY <1>1, <1>2, <1>3, KeptRests, AtWork
<1>5. ASSUME Certain PROVE Grounded(y)
  <2>1. Grounded(x)
    BY <1>1, <1>5, Working
  <2> QED BY <1>1, <1>3, <2>1, DepositAssumption DEF Grounded, DepositStatus, Captured
<1> QED BY <1>3, <1>4, <1>5, Plain, RestsKeeps DEF Before

LEMMA FindKeeps ==
  ASSUME DepositInv, NEW p \in Proc, Find(p)
  PROVE  DepositInv'
<1>1. PICK x : x = h[p] /\ x.pc = "find" /\ x \in Requests /\ Shaped(x) /\ Kept
  BY Working DEF Find
<1>a. PICK found \in Seen(ours) : h' = [h EXCEPT ![p] = AfterFind(x, found)]
  BY <1>1, Working DEF Find
<1>2. PICK y : h' = [h EXCEPT ![p] = y] /\ y = AfterFind(x, found)
  BY <1>a
<1>3. found \in {ours, None} /\ found \in Nat \cup {None}
  BY <1>2 DEF Seen, DepositInv, Base, Typed
<1>4. /\ y \in Requests /\ Shaped(y) /\ y.pc \in {"idle", "write", "pay"}
      /\ y.pc = "write" => found = ours /\ ours > 0 /\ y.did = "partial_refunded"
      /\ y.pc = "pay" => ours = 0
      /\ y.mine => x.mine
  BY <1>1, <1>2, <1>3, AfterFindShape
<1>5. Moves(p, y) /\ Rests
  BY <1>1, <1>2, <1>4, KeptRests, AtWork
<1>6. Grounded(y)
  <2>1. ours > 0 => intent = "succeeded"
    BY DEF DepositInv, Base, Ledger
  <2> QED BY <1>4, <2>1 DEF Grounded
<1>7. Unhurried => Safe(y)
  BY <1>1, <1>4, Working DEF Safe
<1> QED BY <1>1, <1>4, <1>5, <1>6, <1>7, Plain, RestsKeeps DEF Before

LEMMA StampKeeps ==
  ASSUME DepositInv, NEW p \in Proc, Stamp(p)
  PROVE  DepositInv'
<1>1. PICK x : /\ x = h[p] /\ x.pc = "stamp" /\ x \in Requests /\ Shaped(x) /\ Kept /\ ~x.mine
               /\ x.op = None /\ x.door \in Settling /\ May(x.door) /\ x.saw \in {"applied", "forfeited"}
  BY Working, DepositAssumption DEF Stamp, Shaped, Requests, Verifying
<1>2. PICK b \in BOOLEAN : b <=> (row.st = x.saw /\ row.aged)
  OBVIOUS
<1>3. PICK z : z = Step(x, "verify")
  OBVIOUS
<1>4. Kin(z, x) /\ z.pc = "verify"
  BY <1>1, <1>3, StepShape DEF Kin, Pcs
<1>5. PICK y : h' = [h EXCEPT ![p] = y] /\ y = [z EXCEPT !.old = b]
  <2>1. h' = [h EXCEPT ![p] = [x EXCEPT !.pc = "verify", !.old = row.st = x.saw /\ row.aged]]
    BY <1>1 DEF Stamp
  <2>2. h' = [h EXCEPT ![p] = [x EXCEPT !.pc = "verify", !.old = b]]
    BY <1>2, <2>1
  <2>3. [x EXCEPT !.pc = "verify", !.old = b] = [[x EXCEPT !.pc = "verify"] EXCEPT !.old = b]
    OBVIOUS
  <2> QED BY <1>3, <2>2, <2>3 DEF Step
<1>6. /\ y \in Requests /\ y.pc = "verify" /\ y.door = x.door /\ y.saw = x.saw /\ y.op = x.op
      /\ y.mine = x.mine /\ y.redo = x.redo /\ y.old = b
  BY <1>4, <1>5 DEF Kin, Requests
<1>7. Shaped(y)
  <2>1. ~y.mine /\ y.op = None /\ y.pc = "verify" /\ y.saw \in {"applied", "forfeited"}
    BY <1>1, <1>6
  <2>2. y.op \notin Ops /\ y.door \in Settling /\ y.door \in Doors /\ May(y.door)
    BY <1>1, <1>6, <2>1, DepositAssumption DEF Doors
  <2> QED BY <2>1, <2>2 DEF Shaped, Verifying, Ops
<1>8. Moves(p, y) /\ Rests
  BY <1>1, <1>5, <1>6, <1>7, KeptRests, AtWork
<1>9. ASSUME Unhurried PROVE Safe(y)
  <2>1. Safe(x) /\ Recorded
    BY <1>1, <1>9, Working
  <2>2. evening.alone => row.st = x.saw /\ (row.origin = "no_show" /\ x.door = "no_show" => x.redo)
    BY <1>1, <2>1 DEF Safe
  <2>3. ASSUME b, ~x.redo PROVE Lapsed(x)
    <3>1. row.aged /\ row.st = x.saw /\ May("late") /\ evening \in Evenings
      BY <1>2, <2>1, <2>3 DEF Recorded, DepositInv, Base, Typed
    <3>2. /\ evening.alone
          /\ evening.noShow = "forfeit" /\ May("no_show") => ~May("guest") /\ ~May("staff")
      BY <1>9, <3>1 DEF Unhurried, May
    <3>3. row.origin # "no_show"
      BY <1>1, <2>1, <2>2, <2>3, <3>2 DEF Recorded, Settling
    <3> QED BY <3>1, <3>2, <3>3 DEF Lapsed
  <2>4. Lapsed(x) => Lapsed(y)
    BY <1>6 DEF Lapsed
  <2> QED BY <1>1, <1>6, <2>2, <2>3, <2>4 DEF Safe
<1>10. \A k \in Captures : Wants(y, k) => Wants(x, k)
  BY <1>1, <1>6 DEF Wants, Verifying
<1> QED BY <1>1, <1>6, <1>8, <1>9, <1>10, Plain, RestsKeeps DEF Before

LEMMA VerifyKeeps ==
  ASSUME DepositInv, NEW p \in Proc, Verify(p)
  PROVE  DepositInv'
<1>1. PICK x : /\ x = h[p] /\ x.pc = "verify" /\ x \in Requests /\ Shaped(x) /\ Kept
               /\ x.saw \in {"applied", "forfeited"}
  BY Working DEF Verify, Shaped, Verifying
<1>a. PICK seen \in Seen(intent) : h' = [h EXCEPT ![p] = AfterVerify(x, seen)]
  BY <1>1, Working DEF Verify
<1>2. PICK y : h' = [h EXCEPT ![p] = y] /\ y = AfterVerify(x, seen)
  BY <1>a
<1>3. /\ y \in Requests /\ Shaped(y) /\ y.pc \in {"idle", "write", "undo", "recapture"} /\ ~y.mine
      /\ y.pc = "write" => seen = "succeeded" /\ y.did = x.saw
      /\ y.pc = "undo" => /\ y.op = None /\ y.saw = x.saw
                          /\ y.to = "uncollectable" => seen = "canceled"
                          /\ y.to = "held" => seen = "requires_capture" /\ ~x.redo /\ x.old
      /\ y.pc = "recapture" => y.redo = x.redo /\ y.op = None
  BY <1>1, <1>2, AfterVerifyShape, Sight
<1>4. Moves(p, y) /\ Rests
  BY <1>1, <1>2, <1>3, KeptRests, AtWork
<1>5. Grounded(y)
  BY <1>1, <1>3, Sight DEF Grounded
<1>6. ASSUME Unhurried PROVE Safe(y)
  <2>1. Safe(x)
    BY <1>1, <1>6, Working
  <2>2. y.pc = "undo" /\ y.to = "held" => Lapsed(y) /\ intent # "succeeded"
    BY <1>1, <1>3, <2>1, Sight DEF Safe, Lapsed
  <2>3. None \notin Captures
    BY DepositAssumption DEF Ops, Captures
  <2> QED BY <1>3, <2>2, <2>3, Sight DEF Safe
<1>7. \A k \in Captures : Wants(y, k) => Wants(x, k)
  BY <1>1, <1>3 DEF Wants, Verifying
<1> QED BY <1>1, <1>3, <1>4, <1>5, <1>6, <1>7, RestsKeeps DEF Before

LEMMA ReachableStatuses ==
  ASSUME NEW a, NEW b, <<a, b>> \in Transitions
  PROVE  b \in Statuses
BY DEF Transitions, Statuses, Live, NotBooked

LEMMA WriteKeeps ==
  ASSUME DepositInv, NEW p \in Proc, Write(p)
  PROVE  DepositInv'
<1>1. booking' \in Statuses
  <2>1. PICK goal : booking' = IF <<booking, goal>> \in Transitions THEN goal ELSE booking
    BY DEF Write
  <2>2. <<booking, goal>> \in Transitions => goal \in Statuses
    BY ReachableStatuses
  <2> QED BY <2>1, <2>2 DEF DepositInv, Base, Typed
<1>2. Rests /\ evening' = evening
  BY <1>1 DEF Write, Rests, provider
<1>3. h' = [h EXCEPT ![p] = Idle] /\ h[p].pc # "idle"
  BY DEF Write
<1>4. Moves(p, Idle)
  BY <1>2, <1>3, IdleShape, AtWork
<1> QED BY <1>2, <1>4, IdleShape, Plain, RestsKeeps DEF Before

LEMMA CrashKeeps ==
  ASSUME DepositInv, NEW p \in Proc, Crash(p)
  PROVE  DepositInv'
<1>1. Rests /\ Moves(p, Idle)
  BY KeptRests, IdleShape DEF Crash, Moves
<1> QED BY <1>1, IdleShape, Plain, RestsKeeps DEF Before

LEMMA CallStepKeeps ==
  ASSUME DepositInv, NEW p \in Proc, Call(p)
  PROVE  DepositInv'
<1>1. PICK x : x = h[p] /\ x.pc = "call" /\ x \in Requests /\ Shaped(x) /\ x.op \in Ops /\ x.op \in Keys
  BY Working DEF Call, Shaped, Keys
<1>a. PICK answer \in {"ok", "no", "lost"} :
        Reach(x.op, answer) /\ h' = [h EXCEPT ![p] = AfterCall(x, answer)]
  BY <1>1, Working DEF Call
<1>2. PICK y : Reach(x.op, answer) /\ h' = [h EXCEPT ![p] = y] /\ y = AfterCall(x, answer)
  BY <1>a
<1>3. UNCHANGED <<evening, booking, row, post, theirs>>
  BY DEF Call
<1>4. /\ y \in Requests /\ Shaped(y) /\ y.pc \in {"idle", "write", "pay", "find", "check"}
      /\ y.pc = "write" => answer = "ok" /\ x.op # "partial" /\ y.did = Target[x.op]
      /\ y.pc = "pay" \/ y.mine => x.mine
      /\ y.pc = "check" => y.op = x.op /\ (y.sure => answer = "no")
  BY <1>1, <1>2, AfterCallShape
<1>5. /\ Heard(x.op) /\ wire \subseteq wire' /\ wire' \subseteq wire \cup {x.op}
      /\ answer = "ok" => said'[x.op] = "ok"
      /\ answer = "no" /\ x.op # "pay" => said'[x.op] # "nothing" \/ intent # "requires_capture"
  BY <1>1, <1>2, <1>3, ReachOn DEF DepositInv
<1>6. x.op # "pay"
  BY <1>1 DEF Ops
<1>7. Moves(p, y)
  BY <1>1, <1>2, <1>3, <1>4, AtWork
<1>8. Grounded(y)'
  <2>1. ASSUME y.pc = "write"
        PROVE  \/ y.did \in {"applied", "forfeited"} /\ intent' = "succeeded"
               \/ y.did = "refunded" /\ intent' = "canceled"
    BY <1>1, <1>4, <1>5, <2>1 DEF Heard, Ledger, Ops, Captures, Target
  <2> QED BY <1>4, <2>1 DEF Grounded, Captured
<1>9. ASSUME Unhurried PROVE Safe(y)'
  <2>1. Safe(x) /\ Recorded
    BY <1>1, <1>9, Working
  <2>2. intent # "unconfirmed"
    BY <1>1, <2>1 DEF Recorded, Before
  <2>3. y.pc = "check" /\ y.sure => ~Fresh(y.op)'
    BY <1>4, <1>5, <1>6, <2>2 DEF Heard, Onward, Fresh, Open, DepositInv, Base, Typed, IntentStatus
  <2>4. ours' > 0 /\ said'["pay"] = "nothing" => ~x.mine
    BY <1>5, <2>1 DEF Heard, Onward, Safe
  <2> QED BY <1>4, <2>3, <2>4 DEF Safe
<1>10. x.op \in Captures => Wants(x, x.op)
  BY <1>1 DEF Wants
<1> QED BY <1>1, <1>3, <1>4, <1>5, <1>6, <1>7, <1>8, <1>9, <1>10, Plain, CallKeeps DEF Before

\* The refund of a part, and a no-show's second try at its forfeit.
LEMMA LastCallKeeps ==
  ASSUME DepositInv, NEW p \in Proc, NEW x, x = h[p],
         NEW k \in {"pay", "forfeit"}, NEW did \in {"partial_refunded", "forfeited"},
         \/ x.pc = "pay" /\ k = "pay" /\ did = "partial_refunded"
         \/ x.pc = "recapture" /\ k = "forfeit" /\ did = "forfeited",
         NEW answer \in {"ok", "no", "lost"}, Reach(k, answer),
         NEW y, y = IF answer = "ok" THEN Done(x, did) ELSE Idle,
         h' = [h EXCEPT ![p] = y], UNCHANGED <<evening, booking, row, post, theirs>>
  PROVE  DepositInv'
<1>1. x \in Requests /\ Shaped(x) /\ x.pc # "idle" /\ k \in Keys /\ did \in DepositStatus \cup {None}
  BY Working DEF Keys, Ops, DepositStatus, Captured
<1>2. /\ y \in Requests /\ Shaped(y) /\ y.pc \in {"idle", "write"} /\ ~y.mine
      /\ y.pc = "write" => answer = "ok" /\ y.did = did
  <2>1. CASE answer = "ok"
    BY <1>1, <2>1, DoneShape, DoneShaped, IdleShape
  <2> QED BY <2>1, IdleShape
<1>3. /\ Heard(k) /\ wire \subseteq wire' /\ wire' \subseteq wire \cup {k}
      /\ answer = "ok" => said'[k] = "ok"
  BY <1>1, ReachOn DEF DepositInv
<1>4. Moves(p, y)
  BY <1>1, <1>2, AtWork
<1>5. Grounded(y)'
  <2>1. ASSUME y.pc = "write"
        PROVE  intent' = "succeeded" /\ (y.did = "partial_refunded" => ours' > 0) /\ y.did # "refunded"
    BY <1>2, <1>3, <2>1 DEF Heard, Ledger, Captures
  <2> QED BY <1>2, <2>1 DEF Grounded
<1>6. Safe(y)'
  BY <1>2 DEF Safe
<1>7. (k \in Captures => Wants(x, k)) /\ (k = "pay" => x.pc = "pay") /\ x.pc \notin Before
  BY <1>1 DEF Wants, Captures, Before, Verifying, Shaped
<1> QED BY <1>1, <1>2, <1>3, <1>4, <1>5, <1>6, <1>7, Plain, CallKeeps

LEMMA PayKeeps ==
  ASSUME DepositInv, NEW p \in Proc, Pay(p)
  PROVE  DepositInv'
<1>a. PICK answer \in {"ok", "no", "lost"} :
        /\ Reach("pay", answer)
        /\ h' = [h EXCEPT ![p] = IF answer = "ok" THEN Done(h[p], "partial_refunded") ELSE Idle]
  BY Working DEF Pay
<1>1. PICK y :
        /\ Reach("pay", answer) /\ h' = [h EXCEPT ![p] = y]
        /\ y = IF answer = "ok" THEN Done(h[p], "partial_refunded") ELSE Idle
  BY <1>a
<1>2. h[p].pc = "pay" /\ UNCHANGED <<evening, booking, row, post, theirs>>
  BY DEF Pay
<1> QED BY <1>1, <1>2, LastCallKeeps

LEMMA RecaptureKeeps ==
  ASSUME DepositInv, NEW p \in Proc, Recapture(p)
  PROVE  DepositInv'
<1>a. PICK answer \in {"ok", "no", "lost"} :
        /\ Reach("forfeit", answer)
        /\ h' = [h EXCEPT ![p] = IF answer = "ok" THEN Done(h[p], "forfeited") ELSE Idle]
  BY Working DEF Recapture
<1>1. PICK y :
        /\ Reach("forfeit", answer) /\ h' = [h EXCEPT ![p] = y]
        /\ y = IF answer = "ok" THEN Done(h[p], "forfeited") ELSE Idle
  BY <1>a
<1>2. h[p].pc = "recapture" /\ UNCHANGED <<evening, booking, row, post, theirs>>
  BY DEF Recapture
<1> QED BY <1>1, <1>2, LastCallKeeps

-----------------------------------------------------------------------------
(* One request moves the row.                                              *)

\* A row without a charge is claimed or given up.
LEMMA RowKeeps ==
  ASSUME DepositInv, NEW p \in Proc, NEW y, Moves(p, y),
         UNCHANGED <<booking, post, provider, theirs, wire>>,
         row' \in Rows, row'.origin # None => row'.st = "forfeited", ~row'.aged,
         row'.origin = "no_show" => May("no_show") /\ evening.noShow = "forfeit",
         row'.st # "pending", row.st # "pending",
         Certain => /\ Grounded(y)'
                    /\ \A q \in Proc : q # p /\ h[q].pc = "reread" /\ h[q].op = "forfeit" =>
                         row'.st = row.st \/ row'.st # "forfeited",
         Unhurried => /\ intent # "succeeded" /\ Safe(y)'
                      /\ \A k \in Captures : Fresh(k) /\ (Wanted(k) \/ Wants(y, k)) =>
                           row'.st = Target[k]
  PROVE  DepositInv'
<1>1. evening' = evening /\ intent' = intent /\ ours' = ours /\ said' = said /\ wire' = wire
      /\ theirs' = theirs /\ post' = post /\ events' = events /\ booking' = booking
  BY DEF Moves, provider
<1>2. Base /\ Base' /\ Onward
  <2>1. WorldTyped' /\ Ledger'
    BY <1>1 DEF DepositInv, Base, Typed, Ledger, WorldTyped
  <2>2. Base'
    BY <2>1, MovesOn DEF DepositInv, Base, Typed, WorldTyped
  <2> QED BY <1>1, <2>2 DEF DepositInv, Onward
<1>3. Proven'
  BY <1>2, GroundedStep DEF DepositInv, Proven
<1>4. Timed'
  <2> SUFFICES ASSUME Unhurried PROVE (Recorded /\ Counted /\ \A q \in Proc : Safe(h[q]))'
    BY DEF Timed
  <2>1. Recorded /\ Counted /\ (\A q \in Proc : Safe(h[q])) /\ intent # "succeeded" /\ Safe(y)'
    BY DEF DepositInv, Timed
  <2>2. ~(ours > 0)
    BY <1>2, <2>1 DEF Base, Ledger
  <2>3. ASSUME NEW q \in Proc PROVE Safe(h[q])'
    <3>1. CASE q = p
      <4>1. h'[q] = y
        BY <1>2, <3>1, MovesOn
      <4> QED BY <2>1, <4>1 DEF Safe, Lapsed, Fresh, Open
    <3>2. CASE q # p
      <4>1. PICK x : x = h[q] /\ h'[q] = x /\ Safe(x) /\ (evening.alone => x.pc = "idle")
        BY <1>1, <1>2, <2>1, <3>2, MovesOn, IdleShape
      <4>2. ~Lapsed(x) \/ x.pc = "idle"
        BY <4>1 DEF Lapsed
      <4>3. Safe(x)'
        BY <1>1, <2>1, <2>2, <4>1, <4>2 DEF Safe, Fresh, Open
      <4> QED BY <4>1, <4>3 DEF Safe, Lapsed, Fresh, Open
    <3> QED BY <3>1, <3>2
  <2>4. Counted'
    BY <1>1, <2>1, <2>2 DEF Counted
  <2>5. ASSUME NEW k \in Captures, Wanted(k)', Fresh(k)' PROVE row'.st = Target[k]
    <3>1. Fresh(k)
      BY <1>1, <2>5 DEF Fresh, Open
    <3>2. CASE k \in wire'
      BY <1>1, <3>1, <3>2 DEF Wanted
    <3>3. CASE \E q \in Proc : Wants(h'[q], k)
      BY <1>2, <3>1, <3>3, MovesOn DEF Wanted
    <3>4. k \in wire' \/ \E q \in Proc : Wants(h'[q], k)
      BY <2>5 DEF Wanted, Wants
    <3> QED BY <3>2, <3>3, <3>4
  <2>6. Recorded'
    BY <1>1, <2>1, <2>2, <2>5 DEF Recorded, ChargeOnRecord, May
  <2> QED BY <2>3, <2>4, <2>6
<1> QED BY <1>2, <1>3, <1>4 DEF DepositInv

LEMMA ClaimKeeps ==
  ASSUME DepositInv, NEW p \in Proc, Claim(p)
  PROVE  DepositInv'
<1>1. PICK x : /\ x = h[p] /\ x.pc = "claim" /\ x \in Requests /\ Shaped(x) /\ x.op \in Ops
               /\ x.door \in Doors /\ May(x.door)
  BY Working DEF Claim, Shaped
<1>2. UNCHANGED <<evening, booking, post, provider, theirs, wire>>
  BY DEF Claim
<1>3. row \in Rows /\ (row.origin # None => row.st = "forfeited")
  BY DEF DepositInv, Base, Typed
<1>4. CASE row.st = "held" /\ row' = Claimed(x)
           /\ h' = [h EXCEPT ![p] = Step([x EXCEPT !.mine = TRUE], "call")]
  <2>1. PICK z : z = [x EXCEPT !.mine = TRUE]
    OBVIOUS
  <2>2. /\ z \in Requests /\ z.door = x.door /\ z.op = x.op /\ z.mine /\ z.redo = x.redo
    BY <1>1, <2>1 DEF Requests
  <2>3. PICK y : y = Step(z, "call") /\ h' = [h EXCEPT ![p] = y]
    BY <1>4, <2>1
  <2>4. y \in Requests /\ y.pc = "call" /\ y.door = x.door /\ y.op = x.op /\ y.mine
    BY <2>2, <2>3, StepShape DEF Pcs
  <2>5. Shaped(y)
    BY <1>1, <2>4, DepositAssumption DEF Shaped, Verifying, Ops
  <2>6. Moves(p, y)
    BY <1>1, <1>2, <2>3, <2>4, <2>5, AtWork
  <2>7. /\ row'.st = Target[x.op] /\ ~row'.aged
        /\ row'.origin = IF x.op = "forfeit" THEN Origin[x.door] ELSE row.origin
    BY <1>4 DEF Claimed
  <2>8. row.origin = None /\ row'.st \in DepositStatus /\ row'.st # "pending"
        /\ (row'.st = "forfeited" <=> x.op = "forfeit")
    BY <1>1, <1>3, <1>4, <2>7 DEF Target, Ops, DepositStatus, Captured
  <2>9. x.op = "forfeit" => /\ Origin[x.door] \in {"cancellation", "no_show", "staff"}
                            /\ Origin[x.door] = "no_show" => x.door = "no_show" /\ evening.noShow = "forfeit"
    BY <1>1 DEF Shaped, Origin
  <2>10. row' \in Rows
    <3>1. row'.origin \in {None, "cancellation", "no_show", "staff"}
      BY <2>7, <2>8, <2>9
    <3>2. Claimed(x) = [st |-> row'.st, origin |-> row'.origin, aged |-> FALSE]
      BY <1>4, <2>7 DEF Claimed
    <3> QED BY <1>4, <2>8, <3>1, <3>2 DEF Rows
  <2>11. /\ row'.origin # None => row'.st = "forfeited"
         /\ row'.origin = "no_show" => May("no_show") /\ evening.noShow = "forfeit"
    BY <1>1, <2>7, <2>8, <2>9, DepositAssumption DEF Settling
  <2>12. ASSUME Certain, NEW q \in Proc, q # p, h[q].pc = "reread", h[q].op = "forfeit" PROVE FALSE
    <3>1. evening.noShow = "forfeit" /\ May("no_show") /\ evening \in Evenings
      BY <2>12, Working DEF Shaped, DepositInv, Base, Typed
    <3>2. evening.alone
      BY <2>12, <3>1 DEF Certain, May
    <3> QED BY <1>1, <2>12, <3>2, IdleShape DEF DepositInv, Base, InTurn
  <2>13. Grounded(y)'
    BY <2>4 DEF Grounded
  <2>14. ASSUME Unhurried
         PROVE  /\ intent # "succeeded" /\ Safe(y)'
                /\ \A k \in Captures : Fresh(k) /\ (Wanted(k) \/ Wants(y, k)) => row'.st = Target[k]
    <3>1. Recorded
      BY <2>14, Working
    <3>2. intent # "succeeded" /\ ~(ours > 0) /\ ours' = ours
      BY <1>2, <1>4, <3>1 DEF Recorded, ChargeOnRecord, Captured, DepositInv, Base, Ledger, provider
    <3>3. Safe(y)'
      BY <2>4, <3>2 DEF Safe
    <3>4. ASSUME NEW k \in Captures, Fresh(k), Wanted(k) PROVE FALSE
      BY <1>4, <3>1, <3>4 DEF Recorded, Captures, Target
    <3>5. ASSUME NEW k \in Captures, Wants(y, k) PROVE k = x.op
      BY <2>4, <3>5 DEF Wants, Verifying
    <3> QED BY <2>7, <3>2, <3>3, <3>4, <3>5
  <2> QED BY <1>2, <1>4, <2>6, <2>7, <2>8, <2>10, <2>11, <2>12, <2>13, <2>14, RowKeeps
<1>5. CASE row' = row /\ row.st = "partial_refunded" /\ x.op = "partial"
           /\ h' = [h EXCEPT ![p] = Step(x, "recheck")]
  <2>1. PICK y : y = Step(x, "recheck") /\ h' = [h EXCEPT ![p] = y]
    BY <1>5
  <2>2. Kin(y, x) /\ y.pc = "recheck"
    BY <1>1, <2>1, StepShape DEF Kin, Pcs
  <2>3. Shaped(y)
    BY <1>1, <1>5, <2>2, DepositAssumption DEF Shaped, Kin, Verifying, Ops
  <2>4. Moves(p, y) /\ Rests
    BY <1>1, <1>2, <1>5, <2>1, <2>2, <2>3, AtWork DEF Kin, Rests, provider, DepositInv, Base, Typed
  <2>5. Grounded(y) /\ (Unhurried => Safe(y))
    BY <1>1, <2>2, Plain, Working, StillSafe DEF Kin
  <2>6. \A k \in Captures : Wants(y, k) => Due(k)
    BY <1>5, <2>2 DEF Wants, Kin, Verifying, Due, Target
  <2> QED BY <1>5, <2>4, <2>5, <2>6, RestsKeeps
<1>6. CASE row' = row /\ h' = [h EXCEPT ![p] = Idle]
  <2>1. Moves(p, Idle) /\ Rests
    BY <1>1, <1>2, <1>6, IdleShape, AtWork DEF Rests, provider, DepositInv, Base, Typed
  <2> QED BY <2>1, IdleShape, Plain, RestsKeeps DEF Before
<1> QED BY <1>1, <1>4, <1>5, <1>6 DEF Claim

LEMMA UndoKeeps ==
  ASSUME DepositInv, NEW p \in Proc, Undo(p)
  PROVE  DepositInv'
<1>1. PICK x : /\ x = h[p] /\ x.pc = "undo" /\ x \in Requests /\ Shaped(x)
               /\ x.to \in {"held", "uncollectable"} /\ x.op \in Ops \cup {None}
               /\ x.op = None => x.door \in Settling /\ x.saw \in {"applied", "forfeited"}
               /\ x.to = "held" => x.mine \/ x.op = None
               /\ x.door \in Doors /\ May(x.door)
  BY Working DEF Undo, Shaped, Requests
<1>2. UNCHANGED <<evening, booking, post, provider, theirs, wire>>
  BY DEF Undo
<1>a. PICK hit \in BOOLEAN : hit <=> row.st = Leaving(x)
  OBVIOUS
<1>b. PICK y :
        /\ h' = [h EXCEPT ![p] = y]
        /\ y = CASE x.op # None /\ x.mine -> Thrown(x)
                 [] x.op # None /\ ~x.mine ->
                      IF x.saw = "partial_refunded" THEN Done(x, None) ELSE Thrown(x)
                 [] x.op = None /\ hit /\ x.to = "uncollectable" -> Done(x, None)
                 [] x.op = None /\ hit /\ x.to = "held" ->
                      Step([Idle EXCEPT !.door = x.door], "again")
                 [] OTHER -> Idle
  BY <1>1, <1>a DEF Undo
<1>3. /\ hit <=> row.st = Leaving(x)
      /\ row' = IF hit THEN Undone(x.to) ELSE row
      /\ h' = [h EXCEPT ![p] = y]
      /\ \/ y = Thrown(x) /\ x.op \in Ops
         \/ y = Done(x, None)
         \/ x.op = None /\ y = Step([Idle EXCEPT !.door = x.door], "again")
         \/ y = Idle
  <2>1. row' = IF hit THEN Undone(x.to) ELSE row
    BY <1>1, <1>a DEF Undo
  <2>2. \/ y = Thrown(x) /\ x.op \in Ops
        \/ y = Done(x, None)
        \/ x.op = None /\ y = Step([Idle EXCEPT !.door = x.door], "again")
        \/ y = Idle
    BY <1>1, <1>b
  <2> QED BY <1>a, <1>b, <2>1, <2>2
<1>4. /\ y \in Requests /\ Shaped(y) /\ y.pc \in {"idle", "write", "reread", "again"}
      /\ y.pc = "write" => y.did = None
      /\ y.pc = "reread" => y.op = x.op /\ x.op \in Ops
      /\ y.mine => x.mine
  <2>1. CASE y = Thrown(x) /\ x.op \in Ops
    BY <1>1, <2>1, ThrownShape, IdleShape DEF Kin
  <2>2. CASE y = Done(x, None)
    BY <1>1, <2>2, DoneShape, DoneShaped, IdleShape
  <2>3. CASE x.op = None /\ y = Step([Idle EXCEPT !.door = x.door], "again")
    <3>1. PICK z : z = [Idle EXCEPT !.door = x.door]
      OBVIOUS
    <3>2. z \in Requests /\ z.door = x.door /\ z.op = None /\ ~z.mine
      BY <1>1, <3>1, IdleShape DEF Requests
    <3>3. y = Step(z, "again")
      BY <2>3, <3>1
    <3>4. y \in Requests /\ y.pc = "again" /\ y.door = x.door /\ y.op = None /\ ~y.mine
      BY <3>2, <3>3, StepShape DEF Pcs
    <3>5. Shaped(y)
      BY <1>1, <2>3, <3>4, DepositAssumption DEF Shaped, Verifying, Ops
    <3> QED BY <3>4, <3>5
  <2> QED BY <1>3, <2>1, <2>2, <2>3, IdleShape
<1>5. Moves(p, y)
  BY <1>1, <1>2, <1>3, <1>4, AtWork
<1>6. y.pc = "reread" /\ y.op = "forfeit" => row'.st # "forfeited"
  <2>1. ASSUME y.pc = "reread", y.op = "forfeit" PROVE Leaving(x) = "forfeited"
    BY <1>4, <2>1, DepositAssumption DEF Leaving, Target
  <2> QED BY <1>1, <1>3, <2>1 DEF Undone
<1>7. Grounded(y)'
  BY <1>4, <1>6, DepositAssumption DEF Grounded, DepositStatus, Captured
<1>8. \A k \in Captures : ~Wants(y, k)
  BY <1>4, Plain
<1>9. CASE ~hit
  <2>1. Rests /\ row' = row /\ row.st = row'.st
    BY <1>2, <1>3, <1>9 DEF Rests, provider, DepositInv, Base, Typed
  <2>2. ASSUME Certain PROVE Grounded(y)
    BY <1>2, <1>7, <2>1 DEF Grounded, provider
  <2>3. Unhurried => Safe(y)
    BY <1>1, <1>4, Working, StillSafe
  <2>4. ~(h[p].pc \in Before)
    BY <1>1 DEF Before
  <2> QED BY <1>5, <1>8, <2>1, <2>2, <2>3, <2>4, RestsKeeps
<1>10. CASE hit
  <2>1. row.st = Leaving(x) /\ row' = Undone(x.to)
    BY <1>3, <1>10
  <2>2. row'.st = x.to /\ row'.origin = None /\ ~row'.aged /\ row' \in Rows
    BY <1>1, <2>1 DEF Undone, Rows, DepositStatus
  <2>3. Leaving(x) \in Captured \cup {"refunded"} /\ row.st # "pending"
    BY <1>1, <2>1 DEF Leaving, Target, Ops, Captured
  <2>4. row'.st # "forfeited" /\ row'.st # "pending" /\ row'.origin # "no_show"
    BY <1>1, <2>2, DepositAssumption DEF Settling
  <2>5. ASSUME Unhurried
        PROVE  intent # "succeeded" /\ \A k \in Captures : ~(Fresh(k) /\ Wanted(k))
    <3>1. Safe(x) /\ Recorded
      BY <1>1, <2>5, Working
    <3>2. CASE x.to = "uncollectable"
      BY <1>1, <3>1, <3>2 DEF Safe, Fresh, Open
    <3>3. CASE x.to = "held" /\ x.op = None
      <4>1. Lapsed(x) /\ intent # "succeeded"
        BY <1>1, <3>1, <3>3 DEF Safe
      <4> QED BY <1>1, <3>1, <3>3, <4>1 DEF Lapsed, Recorded
    <3>4. CASE x.to = "held" /\ x.op = "refund"
      <4>1. row.st = "refunded"
        BY <2>1, <3>4, DepositAssumption DEF Leaving, Target, Ops
      <4> QED BY <3>1, <4>1 DEF Recorded, ChargeOnRecord, Captured, Captures, Target
    <3>5. CASE x.to = "held" /\ x.op \in Captures
      <4>1. row.st = Target[x.op] /\ x.op \in Ops
        BY <2>1, <3>5, DepositAssumption DEF Leaving, Captures, Ops
      <4>2. ~Fresh(x.op) /\ intent # "succeeded"
        BY <1>1, <3>1, <3>5, <4>1 DEF Safe
      <4>3. ASSUME NEW k \in Captures, Fresh(k), Wanted(k) PROVE FALSE
        <5>1. Target[k] = Target[x.op] /\ k \in Ops
          BY <3>1, <4>1, <4>3 DEF Recorded, Captures, Ops
        <5> QED BY <4>1, <4>2, <4>3, <5>1, Targets
      <4> QED BY <4>2, <4>3
    <3> QED BY <1>1, <3>2, <3>3, <3>4, <3>5 DEF Ops, Captures
  <2>6. ASSUME Unhurried PROVE Safe(y)'
    <3>1. Safe(x) /\ ours' = ours /\ said' = said
      BY <1>1, <1>2, <2>6, Working DEF provider
    <3> QED BY <1>4, <3>1 DEF Safe
  <2> QED BY <1>2, <1>5, <1>7, <1>8, <2>2, <2>3, <2>4, <2>5, <2>6, RowKeeps
<1> QED BY <1>9, <1>10

-----------------------------------------------------------------------------
(* The provider, the guest, the dashboard and the clock.                   *)

\* The requests and the row stay as they are.
LEMMA WorldKeeps ==
  ASSUME DepositInv, UNCHANGED <<row, h>>, WorldTyped', Ledger', Onward, wire' \subseteq wire,
         Unhurried => Charging /\ ours' <= 1 /\ Counted'
  PROVE  DepositInv'
<1>1. evening' = evening /\ h' = h /\ row' = row /\ Base
  BY DEF Onward, DepositInv
<1>2. Base'
  <2>1. h' \in [Proc -> Requests] /\ (\A p \in Proc : Shaped(h[p]))'
    BY <1>1 DEF Base, Typed, Shaped, May
  <2>2. InTurn'
    BY <1>1 DEF Base, InTurn
  <2> QED BY <2>1, <2>2 DEF Base, Typed, WorldTyped
<1>3. Proven'
  <2>1. ASSUME Certain, NEW q \in Proc PROVE Grounded(h[q])'
    <3>1. PICK x : x = h[q] /\ h'[q] = x /\ x \in Requests /\ Grounded(x)
      BY <1>1, <2>1, Working
    <3>2. Grounded(x)'
      BY <1>1, <3>1, GroundedOn
    <3> QED BY <3>1, <3>2 DEF Grounded
  <2> QED BY <2>1 DEF Proven
<1>4. Timed'
  <2> SUFFICES ASSUME Unhurried PROVE (Recorded /\ Counted /\ \A q \in Proc : Safe(h[q]))'
    BY DEF Timed
  <2>1. Recorded /\ Charging
    BY DEF DepositInv, Timed
  <2>2. ASSUME NEW q \in Proc PROVE Safe(h[q])'
    <3>1. PICK x : x = h[q] /\ h'[q] = x /\ x \in Requests /\ Shaped(x) /\ Safe(x)
      BY <1>1, Working
    <3>2. Safe(x)'
      BY <1>1, <2>1, <3>1, SafeOn
    <3> QED BY <3>1, <3>2 DEF Safe, Lapsed, Fresh, Open
  <2>3. ASSUME NEW k \in Captures, Wanted(k)' PROVE Wanted(k)
    BY <1>1, <2>3 DEF Wanted, Wants
  <2>4. row.st = "pending" => wire' = {} /\ \A q \in Proc : h'[q].pc \in Before
    BY <1>1, <2>1 DEF Recorded
  <2>5. ours' > 0 /\ said'["pay"] = "nothing" => "pay" \notin wire'
    BY <2>1 DEF Recorded, Onward
  <2>6. Recorded'
    BY <1>1, <2>1, <2>3, <2>4, <2>5, RecordedOn
  <2> QED BY <2>2, <2>6
<1> QED BY <1>2, <1>3, <1>4 DEF DepositInv

LEMMA LateArrivalKeeps ==
  ASSUME DepositInv, NEW k \in Keys, LateArrival(k)
  PROVE  DepositInv'
<1>1. k \in wire /\ wire' \subseteq wire /\ UNCHANGED <<evening, booking, row, post, theirs, h>> /\ Base
  BY DEF LateArrival, DepositInv
<1>2. Heard(k)
  <2>1. CASE UNCHANGED provider
    BY <1>1, <2>1, Unheard
  <2>2. CASE \E answer \in {"ok", "no"} : Answer(k, answer)
    BY <1>1, <2>2, AnswerOn
  <2> QED BY <2>1, <2>2 DEF LateArrival
<1>3. WorldTyped' /\ Ledger' /\ Onward
  BY <1>1, <1>2 DEF Base, Typed, Heard, WorldTyped
<1>4. ASSUME Unhurried PROVE Charging /\ ours' <= 1 /\ Counted'
  <2>1. Recorded /\ Counted
    BY <1>4 DEF DepositInv, Timed
  <2>2. Charging
    BY <1>1, <1>2 DEF Charging, Heard, Wanted
  <2>3. ours' <= 1
    <3>1. CASE ours' = ours
      BY <2>1, <3>1 DEF Recorded
    <3>2. CASE k = "pay" /\ said["pay"] = "nothing" /\ ours' = ours + 1
      <4>1. ~(ours > 0) /\ ours \in Nat
        BY <1>1, <2>1, <3>2 DEF Recorded, Base, Typed
      <4> QED BY <3>2, <4>1
    <3> QED BY <1>2, <3>1, <3>2 DEF Heard
  <2> QED BY <1>1, <1>2, <2>1, <2>2, <2>3, CountedOn
<1> QED BY <1>1, <1>3, <1>4, WorldKeeps

LEMMA IntentMovesKeeps ==
  ASSUME DepositInv, NEW what, NEW from \in {"unconfirmed", "requires_capture"},
         NEW to \in {"requires_capture", "canceled"}, NEW event \in EventTypes \ {"refunded"},
         IntentMoves(what, from, to, event)
  PROVE  DepositInv'
<1>1. /\ intent = from /\ intent' = to /\ events' = events \cup {Event(event, 0)}
      /\ UNCHANGED <<evening, booking, row, post, said, ours, theirs, wire, h>> /\ Base
  BY DEF IntentMoves, DepositInv
<1>2. PICK e : e = Event(event, 0) /\ e \in [type : EventTypes, amount : Nat] /\ e.type = event
  <2>1. Event(event, 0) \in [type : EventTypes, amount : Nat] /\ Event(event, 0).type = event
    BY DEF Event
  <2> QED BY <2>1
<1>3. ~(ours > 0) /\ ~(theirs > 0) /\ ours \in Nat /\ said["refund"] # "ok" /\ said["pay"] # "ok"
      /\ (\A k \in Captures : said[k] # "ok") /\ \A f \in events : f.type # "refunded"
  BY <1>1 DEF Base, Ledger, Typed
<1>4. WorldTyped'
  BY <1>1, <1>2 DEF Base, Typed, WorldTyped, IntentStatus
<1>5. Ledger'
  <2>1. \A f \in events' : f.type # "refunded"
    BY <1>1, <1>2, <1>3
  <2>2. intent' # "unconfirmed" /\ post' <= ours' + theirs'
    BY <1>1 DEF Base, Ledger
  <2> QED BY <1>1, <1>3, <2>1, <2>2 DEF Ledger
<1>6. Onward /\ Charging
  BY <1>1 DEF Onward, Charging
<1>7. ASSUME Unhurried PROVE ours' <= 1 /\ Counted'
  BY <1>1, <1>3, <1>7 DEF Counted, DepositInv, Timed, Recorded
<1> QED BY <1>1, <1>4, <1>5, <1>6, <1>7, WorldKeeps

LEMMA DashboardRefundKeeps ==
  ASSUME DepositInv, DashboardRefund
  PROVE  DepositInv'
<1>1. PICK n, u : n = ours /\ u = post
  OBVIOUS
<1>2. /\ intent = "succeeded" /\ theirs = 0 /\ theirs' = 1
      /\ events' = events \cup {Event("refunded", n + 1)} /\ ours' = n /\ post' = u
      /\ UNCHANGED <<evening, booking, row, intent, said, wire, h>> /\ Base /\ n \in Nat /\ u \in Nat
  BY <1>1 DEF DashboardRefund, DepositInv, Base, Typed
<1>3. PICK e : e = Event("refunded", n + 1) /\ e.type = "refunded" /\ e.amount = n + 1
               /\ e \in [type : EventTypes, amount : Nat]
  <2>1. PICK e : e = Event("refunded", n + 1)
    OBVIOUS
  <2>2. e.type = "refunded" /\ e.amount = n + 1 /\ e \in [type : EventTypes, amount : Nat]
    BY <1>2, <2>1 DEF Event, EventTypes
  <2> QED BY <2>1, <2>2
<1>4. events \subseteq [type : EventTypes, amount : Nat] /\ u <= n + 0
  BY <1>1, <1>2 DEF Base, Typed, Ledger
<1>5. WorldTyped'
  BY <1>2, <1>3, <1>4 DEF Base, Typed, WorldTyped
<1>6. Ledger'
  <2>1. ASSUME NEW f \in events', f.type = "refunded" PROVE f.amount <= n + 1
    <3>1. CASE f \in events
      <4>1. f.amount \in Nat /\ f.amount <= n + 0
        BY <1>1, <1>2, <1>4, <2>1, <3>1 DEF Base, Ledger
      <4> QED BY <1>2, <4>1
    <3>2. CASE f = e
      BY <1>2, <1>3, <3>2
    <3> QED BY <1>2, <1>3, <2>1, <3>1, <3>2
  <2>2. \A f \in events' : f.type = "authorized" => intent' # "unconfirmed"
    BY <1>2
  <2>3. u <= n + 1
    BY <1>2, <1>4
  <2> QED BY <1>1, <1>2, <2>1, <2>2, <2>3 DEF Base, Ledger
<1>7. Onward /\ Charging
  BY <1>1, <1>2 DEF Onward, Charging
<1>8. ASSUME Unhurried PROVE ours' <= 1 /\ Counted'
  <2>1. Recorded /\ Counted
    BY <1>8 DEF DepositInv, Timed
  <2>2. Event("refunded", ours' + theirs') \in events'
    BY <1>2
  <2>3. (ours' > 0 => row'.st = "partial_refunded") => post' <= theirs'
    BY <1>1, <1>2, <2>1 DEF Counted
  <2> QED BY <1>1, <1>2, <2>1, <2>2, <2>3 DEF Counted, Recorded
<1> QED BY <1>2, <1>5, <1>6, <1>7, <1>8, WorldKeeps

LEMMA CompleteKeeps ==
  ASSUME DepositInv, Complete
  PROVE  DepositInv'
<1>1. UNCHANGED <<evening, row, post, intent, said, ours, events, theirs, wire, h>>
      /\ booking' \in Statuses
  BY DEF Complete, provider, Statuses
<1>2. WorldTyped' /\ Ledger'
  BY <1>1 DEF DepositInv, Base, Typed, Ledger, WorldTyped
<1>3. Onward /\ Charging
  BY <1>1 DEF Onward, Charging
<1>4. Unhurried => ours' <= 1 /\ Counted'
  BY <1>1 DEF DepositInv, Timed, Recorded, Counted
<1> QED BY <1>1, <1>2, <1>3, <1>4, WorldKeeps

\* What a delivered refund adds to the count.
LEMMA CountsUp ==
  ASSUME NEW amount \in Nat, NEW own \in Nat, NEW n \in Nat, NEW t \in 0..1, NEW u \in Nat,
         amount <= n + t, own <= n,
         NEW v, v = IF amount - own > u THEN amount - own ELSE u
  PROVE  /\ v \in Nat /\ u <= v /\ (u <= n + t => v <= n + t)
         /\ amount = n + t => v >= t
         /\ own = n /\ u <= t => v <= t
OBVIOUS

LEMMA DeliverKeeps ==
  ASSUME DepositInv, NEW e \in events, Deliver(e)
  PROVE  DepositInv'
<1>1. /\ UNCHANGED <<evening, booking, intent, said, ours, theirs, wire, h>> /\ Base
      /\ events' \subseteq events /\ \A f \in events : f # e => f \in events'
      /\ OnEvent(e)
  BY DEF Deliver, DepositInv
<1>2. /\ e.type \in EventTypes /\ e.amount \in Nat /\ row \in Rows /\ post \in Nat
      /\ (row.origin # None => row.st = "forfeited") /\ ours \in Nat /\ theirs \in 0..1
      /\ post <= ours + theirs
  BY <1>1 DEF Base, Typed, Ledger
<1>3. \/ row' = row
      \/ \E st \in {"held", "refunded", "uncollectable"} : row' = [row EXCEPT !.st = st]
  BY <1>1 DEF OnEvent
<1>4. row' = row \/ (row.st \in {"pending", "held"} /\ row'.st \in {"held", "refunded", "uncollectable"}
                     /\ row'.aged = row.aged /\ row'.origin = row.origin /\ row' \in Rows)
  <2>1. CASE e.type = "authorized" /\ row.st = "pending"
    <3>1. row' = [row EXCEPT !.st = "held"]
      BY <1>1, <2>1 DEF OnEvent
    <3> QED BY <1>2, <2>1, <3>1 DEF Rows, DepositStatus
  <2>2. CASE e.type \in {"released", "refunded"} /\ row.st = "held"
    <3>1. row' = [row EXCEPT !.st = "refunded"]
      BY <1>1, <2>2 DEF OnEvent
    <3> QED BY <1>2, <2>2, <3>1 DEF Rows, DepositStatus
  <2>3. CASE e.type = "expired" /\ row.st = "held"
    <3>1. row' = [row EXCEPT !.st = "uncollectable"]
      BY <1>1, <2>3 DEF OnEvent
    <3> QED BY <1>2, <2>3, <3>1 DEF Rows, DepositStatus
  <2>4. CASE /\ ~(e.type = "authorized" /\ row.st = "pending")
             /\ ~(e.type \in {"released", "refunded"} /\ row.st = "held")
             /\ ~(e.type = "expired" /\ row.st = "held")
    BY <1>1, <2>4 DEF OnEvent
  <2> QED BY <2>1, <2>2, <2>3, <2>4
<1>5. CASE e.type = "refunded" /\ row.st \in Captured
  <2>1. row' = row /\ intent = "succeeded" /\ e.amount <= ours + theirs
    BY <1>1, <1>5 DEF OnEvent, Captured, Base, Ledger
  <2>2. PICK own \in Nat : own = OwnLeg /\ own <= ours /\ (row.st = "partial_refunded" => own = ours)
    BY <1>2 DEF OwnLeg
  <2>3. post' = IF e.amount - own > post THEN e.amount - own ELSE post
    BY <1>1, <1>5, <2>2 DEF OnEvent
  <2>4. PICK n, t, u, v : n = ours /\ t = theirs /\ u = post /\ v = post'
    OBVIOUS
  <2>5. /\ v \in Nat /\ u <= v /\ v <= n + t
        /\ e.amount = n + t => v >= t
        /\ own = n /\ u <= t => v <= t
    BY <1>2, <2>1, <2>2, <2>3, <2>4, CountsUp
  <2>6. WorldTyped' /\ Ledger' /\ Onward /\ Charging
    BY <1>1, <1>2, <2>1, <2>4, <2>5 DEF Base, Typed, Ledger, WorldTyped, Onward, Charging
  <2>7. ASSUME Unhurried PROVE ours' <= 1 /\ Counted'
    <3>1. Recorded /\ Counted
      BY <2>7 DEF DepositInv, Timed
    <3>2. ASSUME theirs' = 1 PROVE post' >= 1 \/ Event("refunded", ours' + theirs') \in events'
      <4>1. CASE post >= 1
        BY <1>2, <2>4, <2>5, <4>1
      <4>2. CASE e = Event("refunded", ours + theirs)
        <5>1. e.amount = n + t
          BY <2>4, <4>2 DEF Event
        <5> QED BY <1>1, <2>4, <2>5, <3>2, <5>1
      <4>3. CASE Event("refunded", ours + theirs) \in events /\ e # Event("refunded", ours + theirs)
        BY <1>1, <4>3
      <4> QED BY <1>1, <3>1, <3>2, <4>1, <4>2, <4>3 DEF Counted
    <3>3. ASSUME ours' > 0 => row'.st = "partial_refunded" PROVE post' <= theirs'
      <4>1. own = n
        BY <1>1, <1>2, <2>1, <2>2, <2>4, <3>3
      <4>2. u <= t
        BY <1>1, <2>1, <2>4, <3>1, <3>3 DEF Counted
      <4> QED BY <1>1, <2>4, <2>5, <4>1, <4>2
    <3> QED BY <1>1, <3>1, <3>2, <3>3 DEF Recorded, Counted
  <2> QED BY <1>1, <2>1, <2>6, <2>7, WorldKeeps
<1>6. CASE ~(e.type = "refunded" /\ row.st \in Captured)
  <2>1. post' = post
    BY <1>1, <1>6 DEF OnEvent
  <2>2. Ledger' /\ Onward /\ Charging
    BY <1>1, <2>1 DEF Base, Ledger, Onward, Charging
  <2>3. row' \in Rows /\ (row'.origin # None => row'.st = "forfeited") /\ WorldTyped'
    BY <1>1, <1>2, <1>4, <2>1 DEF Base, Typed, WorldTyped
  <2>4. Unhurried => Counted'
    <3> SUFFICES ASSUME Unhurried PROVE Counted'
      OBVIOUS
    <3>1. Recorded /\ Counted
      BY DEF DepositInv, Timed
    <3>2. row' = row \/ intent # "succeeded"
      BY <1>4, <3>1 DEF Recorded, ChargeOnRecord, Captured
    <3>3. ours > 0 => row' = row
      BY <1>1, <3>2 DEF Base, Ledger
    <3>4. e.type = "refunded" => row.st \in Captured
      BY <1>1, <3>1 DEF Base, Ledger, Recorded, ChargeOnRecord
    <3>5. e # Event("refunded", ours + theirs)
      BY <1>6, <3>4 DEF Event
    <3> QED BY <1>1, <2>1, <3>1, <3>3, <3>5 DEF Counted
  <2>5. CASE row' = row
    BY <1>1, <2>2, <2>3, <2>4, <2>5, WorldKeeps DEF DepositInv, Timed, Recorded
  <2>6. CASE row.st \in {"pending", "held"} /\ row'.st \in {"held", "refunded", "uncollectable"}
             /\ row'.aged = row.aged /\ row'.origin = row.origin
    <3>1. Base'
      <4>1. h' \in [Proc -> Requests] /\ (\A p \in Proc : Shaped(h[p]))'
        BY <1>1 DEF Base, Typed, Shaped, May
      <4>2. InTurn'
        BY <1>1 DEF Base, InTurn
      <4> QED BY <2>2, <2>3, <4>1, <4>2 DEF Base, Typed, WorldTyped
    <3>2. Proven'
      <4>1. ASSUME Certain, NEW q \in Proc PROVE Grounded(h[q])'
        <5>1. PICK x : x = h[q] /\ h'[q] = x /\ Grounded(x)
          BY <1>1, <4>1, Working
        <5> QED BY <1>1, <2>6, <5>1 DEF Grounded
      <4> QED BY <4>1 DEF Proven
    <3>3. Timed'
      <4> SUFFICES ASSUME Unhurried PROVE (Recorded /\ Counted /\ \A q \in Proc : Safe(h[q]))'
        BY DEF Timed
      <4>1. Recorded
        BY DEF DepositInv, Timed
      <4>2. intent # "succeeded" /\ intent # "unconfirmed" /\ ~row.aged /\ row.origin # "no_show"
        <5>1. intent # "succeeded" /\ ~row.aged /\ row.origin # "no_show"
          BY <1>2, <2>6, <4>1, DepositAssumption DEF Recorded, ChargeOnRecord, Captured, Settling
        <5>2. CASE row.st = "held"
          BY <4>1, <5>1, <5>2 DEF Recorded
        <5>3. CASE row.st = "pending"
          <6>1. e.type = "authorized"
            BY <1>1, <2>6, <5>3 DEF OnEvent
          <6> QED BY <1>1, <5>1, <6>1 DEF Base, Ledger
        <5> QED BY <2>6, <5>1, <5>2, <5>3
      <4>3. ASSUME NEW q \in Proc PROVE Safe(h[q])'
        <5>1. PICK x : x = h[q] /\ h'[q] = x /\ Shaped(x) /\ Safe(x)
          BY <1>1, Working
        <5>2. ~Lapsed(x) /\ ~(evening.alone /\ x.pc \in {"stamp", "verify"})
          BY <2>6, <4>2, <5>1 DEF Lapsed, Safe, Shaped, Verifying
        <5>3. Safe(x)'
          BY <1>1, <4>2, <5>1, <5>2 DEF Safe, Fresh, Open
        <5> QED BY <5>1, <5>3 DEF Safe, Lapsed, Fresh, Open
      <4>4. ASSUME NEW k \in Captures, Wanted(k)', Fresh(k)' PROVE FALSE
        <5>1. Wanted(k) /\ Fresh(k)
          BY <1>1, <4>4 DEF Wanted, Wants, Fresh, Open
        <5> QED BY <2>6, <4>1, <5>1 DEF Recorded, Captures, Target
      <4>5. Recorded'
        BY <1>1, <2>6, <4>1, <4>2, <4>4 DEF Recorded, ChargeOnRecord
      <4> QED BY <2>4, <4>3, <4>5
    <3> QED BY <3>1, <3>2, <3>3 DEF DepositInv
  <2> QED BY <1>4, <2>5, <2>6
<1> QED BY <1>5, <1>6

LEMMA WaitKeeps ==
  ASSUME DepositInv, NEW day \in BOOLEAN, Wait(day)
  PROVE  DepositInv'
<1>1. /\ UNCHANGED <<evening, booking, post, intent, ours, events, theirs, wire, h>>
      /\ May("late") /\ wire = {} /\ (\A p \in Proc : h[p] = Idle) /\ Base
      /\ row' = [row EXCEPT !.aged = row.st \in Captured]
  BY DEF Wait, Quiet, DepositInv
<1>2. \/ said' = said
      \/ said' = [k \in Keys |-> "nothing"]
  BY DEF Wait
<1>3. row \in Rows /\ (row.origin # None => row.st = "forfeited")
  BY <1>1 DEF Base, Typed
<1>4. PICK b \in BOOLEAN : b <=> row.st \in Captured
  OBVIOUS
<1>5. row' = [row EXCEPT !.aged = b]
  BY <1>1, <1>4
<1>6. row' \in Rows /\ row'.st = row.st /\ row'.origin = row.origin /\ row'.aged = b
  BY <1>3, <1>5 DEF Rows
<1>7. said' \in [Keys -> {"nothing", "ok", "no"}] /\ \A k \in Keys : said'[k] = "ok" => said[k] = "ok"
  BY <1>1, <1>2 DEF Base, Typed
<1>8. Base'
  <2>1. h' \in [Proc -> Requests] /\ (\A p \in Proc : Shaped(h[p]))'
    BY <1>1 DEF Base, Typed, Shaped, May
  <2>2. InTurn'
    BY <1>1 DEF Base, InTurn
  <2>3. {"refund", "pay"} \cup Captures \subseteq Keys
    BY DEF Keys, Ops, Captures
  <2>4. Ledger'
    BY <1>1, <1>7, <2>3 DEF Base, Ledger
  <2> QED BY <1>1, <1>3, <1>6, <1>7, <2>1, <2>2, <2>4 DEF Base, Typed
<1>9. Proven'
  BY <1>1, IdleShape DEF Proven, Grounded
<1>10. Timed'
  <2> SUFFICES ASSUME Unhurried PROVE (Recorded /\ Counted /\ \A q \in Proc : Safe(h[q]))'
    BY DEF Timed
  <2>1. Recorded /\ Counted
    BY DEF DepositInv, Timed
  <2>2. \A q \in Proc : Safe(h[q])'
    BY <1>1, IdleShape DEF Safe
  <2>3. \A k \in Captures : ~Wanted(k)'
    <3>1. \A k \in Captures, q \in Proc : ~Wants(h'[q], k)
      BY <1>1, IdleShape DEF Captures, Keys, Ops
    <3> QED BY <1>1, <3>1 DEF Wanted, Wants
  <2>4. Counted'
    BY <1>1, <1>6, <2>1 DEF Counted
  <2>5. Recorded'
    BY <1>1, <1>4, <1>6, <2>1, <2>3 DEF Recorded, ChargeOnRecord, May
  <2> QED BY <2>2, <2>4, <2>5
<1> QED BY <1>8, <1>9, <1>10 DEF DepositInv

-----------------------------------------------------------------------------
(* The whole: where a behaviour begins, and every step.                    *)

LEMMA Beginnings == ASSUME Init PROVE DepositInv
<1>1. /\ evening \in Evenings /\ booking = "CONFIRMED"
      /\ row = [st |-> evening.start, origin |-> None, aged |-> FALSE]
      /\ intent = IF evening.start = "pending" THEN "unconfirmed" ELSE "requires_capture"
      /\ post = 0 /\ ours = 0 /\ theirs = 0
      /\ said = [k \in Keys |-> "nothing"] /\ wire = {} /\ events = {}
      /\ h = [p \in Proc |-> Idle]
  BY DEF Init
<1>2. evening.start \in {"pending", "held"}
  BY <1>1, DepositAssumption
<1>3. row \in Rows /\ row.origin = None /\ row.st = evening.start /\ ~row.aged
  BY <1>1, <1>2 DEF Rows, DepositStatus
<1>4. \A p \in Proc : h[p] = Idle
  BY <1>1
<1>5. Base
  <2>1. Typed
    BY <1>1, <1>3, <1>4, IdleShape DEF Typed, Statuses, Live, IntentStatus
  <2>2. {"refund", "pay"} \cup Captures \subseteq Keys
    BY DEF Keys, Ops, Captures
  <2>3. Ledger
    BY <1>1, <2>2 DEF Ledger
  <2>4. InTurn
    BY <1>4 DEF InTurn
  <2> QED BY <2>1, <2>3, <2>4 DEF Base
<1>6. Proven
  BY <1>4, IdleShape DEF Proven, Grounded
<1>7. \A k \in Captures : ~Wanted(k)
  <2>1. \A k \in Captures : k \in Keys
    BY DEF Keys, Ops, Captures
  <2> QED BY <1>1, <1>4, <2>1, IdleShape DEF Wanted
<1>8. Recorded
  BY <1>1, <1>2, <1>3, <1>4, <1>7, IdleShape, DepositAssumption DEF Recorded, ChargeOnRecord, Before, Settling
<1>9. Counted
  BY <1>1 DEF Counted
<1>10. \A p \in Proc : Safe(h[p])
  BY <1>1, <1>4, IdleShape DEF Safe
<1> QED BY <1>5, <1>6, <1>8, <1>9, <1>10 DEF DepositInv, Timed

LEMMA StandsStill == ASSUME DepositInv, UNCHANGED vars PROVE DepositInv'
<1>1. /\ UNCHANGED <<evening, booking, row, post, theirs, wire, h>>
      /\ UNCHANGED <<intent, said, ours, events>>
  BY DEF vars, provider
<1>2. Base'
  BY <1>1 DEF DepositInv, Base, Typed, Ledger, InTurn, Shaped, May
<1>3. Proven'
  BY <1>1 DEF DepositInv, Proven, Grounded
<1>4. (Recorded /\ Counted => Recorded' /\ Counted')
      /\ ((\A p \in Proc : Safe(h[p])) => (\A p \in Proc : Safe(h[p]))')
  BY <1>1 DEF Recorded, Counted, ChargeOnRecord, Safe, Lapsed, Fresh, Open, Wanted, Wants, May
<1> QED BY <1>2, <1>3, <1>4 DEF DepositInv, Timed

LEMMA OutsideKeeps == ASSUME DepositInv, Outside PROVE DepositInv'
<1>1. CASE \E k \in Keys : LateArrival(k)
  BY <1>1, LateArrivalKeeps
<1>2. CASE Authorize
  BY <1>2, IntentMovesKeeps DEF Authorize, EventTypes
<1>3. CASE Lapse
  BY <1>3, IntentMovesKeeps DEF Lapse, EventTypes
<1>4. CASE DashboardCancel
  BY <1>4, IntentMovesKeeps DEF DashboardCancel, EventTypes
<1>5. CASE DashboardRefund
  BY <1>5, DashboardRefundKeeps
<1>6. CASE Complete
  BY <1>6, CompleteKeeps
<1>7. CASE \E e \in events : Deliver(e)
  BY <1>7, DeliverKeeps
<1>8. CASE \E day \in BOOLEAN : Wait(day)
  BY <1>8, WaitKeeps
<1> QED BY <1>1, <1>2, <1>3, <1>4, <1>5, <1>6, <1>7, <1>8 DEF Outside

LEMMA RequestKeeps == ASSUME DepositInv, NEW p \in Proc, Request(p) PROVE DepositInv'
<1>1. CASE \E door \in Routes \cup Settling : Ask(p, door)
  BY <1>1, AskKeeps DEF Doors
<1>2. CASE Look(p) \/ Claim(p) \/ Recheck(p) \/ Call(p)
  BY <1>2, LookKeeps, ClaimKeeps, RecheckKeeps, CallStepKeeps
<1>3. CASE Check(p) \/ Undo(p) \/ Again(p) \/ Reread(p)
  BY <1>3, CheckKeeps, UndoKeeps, AgainKeeps, RereadKeeps
<1>4. CASE Find(p) \/ Pay(p) \/ Stamp(p) \/ Verify(p)
  BY <1>4, FindKeeps, PayKeeps, StampKeeps, VerifyKeeps
<1>5. CASE Recapture(p) \/ Write(p) \/ Crash(p)
  BY <1>5, RecaptureKeeps, WriteKeeps, CrashKeeps
<1> QED BY <1>1, <1>2, <1>3, <1>4, <1>5 DEF Request

LEMMA StepsKeep == DepositInv /\ [Next]_vars => DepositInv'
BY OutsideKeeps, RequestKeeps, StandsStill DEF Next

LEMMA AlwaysDepositInv == Spec => []DepositInv
<1>1. Init => DepositInv
  BY Beginnings
<1> QED BY <1>1, StepsKeep, PTL DEF Spec

-----------------------------------------------------------------------------
(* What follows.                                                           *)

\* Whatever overlaps and however long it takes, rows, requests and what is on
\* its way keep their shape, an origin never outlives its forfeit, and what the
\* provider answered and announced stays true of the intent: a refund only ever
\* follows a charge, a release a cancel (deposit.ts, _rollbackToHeld and the
\* idempotency keys of its calls).
THEOREM ShapesAlwaysHold == Spec => [](Typed /\ Ledger)
<1>1. DepositInv => Typed /\ Ledger
  BY DEF DepositInv, Base
<1> QED BY <1>1, AlwaysDepositInv, PTL

\* In every unhurried evening every reachable state has its type: besides the
\* shapes, no more is recorded as refunded after the capture than the deposit is
\* worth (deposit.ts, _rollbackToHeld and recordPostCaptureRefund).
THEOREM TypeCorrect == ASSUME Unhurried PROVE Spec => []TypeOK
<1>1. DepositInv => TypeOK
  <2> SUFFICES ASSUME DepositInv PROVE TypeOK
    OBVIOUS
  <2>1. Typed /\ Ledger /\ ours <= 1
    BY Unhurried DEF DepositInv, Base, Timed, Recorded
  <2>2. post \in 0..2
    BY <2>1 DEF Typed, Ledger
  <2>3. \A p \in Proc : h[p].pc = "idle" <=> h[p] = Idle
    BY <2>1, IdleShape DEF Typed, Shaped
  <2>4. \A e \in events : e.type \in {"authorized", "released", "expired", "refunded"}
    BY <2>1 DEF Typed, EventTypes
  <2> QED BY <2>1, <2>2, <2>3, <2>4 DEF TypeOK, Typed, Rows, IntentStatus
<1> QED BY <1>1, AlwaysDepositInv, PTL

\* In every unhurried evening a card that was charged stays on record as
\* charged, however many requests overlap, die or lose their answers
\* (deposit.ts, _reconcileCaptureFailure and verifyCaptureCompleted).
THEOREM ChargeStaysOnRecord == ASSUME Unhurried PROVE Spec => []ChargeOnRecord
<1>1. DepositInv => ChargeOnRecord
  BY Unhurried DEF DepositInv, Timed, Recorded
<1> QED BY <1>1, AlwaysDepositInv, PTL

\* In every unhurried evening the guest's part goes back at most once, even
\* when the provider has forgotten its keys between two attempts: the retry
\* looks for the first refund before it sends one (deposit.ts, refundPartial).
THEOREM RefundGoesOutOnce == ASSUME Unhurried PROVE Spec => []RefundedOnce
<1>1. DepositInv => RefundedOnce
  BY Unhurried DEF DepositInv, Timed, Recorded, RefundedOnce
<1> QED BY <1>1, AlwaysDepositInv, PTL

\* In every unhurried evening, once its webhooks are delivered, in whatever
\* order and however often, the row tells exactly the dashboard's refund apart
\* from our own (deposit.ts, recordPostCaptureRefund).
THEOREM DashboardCountedExactly == ASSUME Unhurried PROVE Spec => []PostCaptureExact
<1>1. DepositInv => PostCaptureExact
  <2> SUFFICES ASSUME DepositInv, Quiet, events = {}, ours > 0 => row.st = "partial_refunded"
               PROVE  post = theirs
    BY DEF PostCaptureExact
  <2>1. Counted /\ post \in Nat /\ theirs \in 0..1
    BY Unhurried DEF DepositInv, Timed, Base, Typed
  <2> QED BY <2>1 DEF Counted
<1> QED BY <1>1, AlwaysDepositInv, PTL

\* Where a forfeiting no-show works alone and reaches the provider, no request
\* writes CANCELLED or NO_SHOW on the strength of money that did not move
\* (reservation-cancellation.ts, reservation-no-show.ts).
THEOREM StatusRestsOnProof == ASSUME Certain PROVE Spec => []WritesOnProof
<1>1. DepositInv => WritesOnProof
  BY Certain DEF DepositInv, Proven, Grounded, WritesOnProof
<1> QED BY <1>1, AlwaysDepositInv, PTL
=============================================================================
