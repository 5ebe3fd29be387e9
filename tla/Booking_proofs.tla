--------------------------- MODULE Booking_proofs ---------------------------
(***************************************************************************)
(* What TLAPS proves of Booking for any number of requests, rows, tables,  *)
(* sessions and instants: that the state keeps its types, and that no two  *)
(* bookings overlap on a table as long as an edit that moves a booking     *)
(* names its table and its end.                                            *)
(***************************************************************************)
EXTENDS Booking, TLAPS

-----------------------------------------------------------------------------
(* A request is well asked when it carries what its write needs; an edit   *)
(* carries the slot its patch asks for.                                    *)

Seen == [st : Statuses, from : Time]

WellAsked(q) ==
  /\ q.door # "hold" => q.rsv \in Rsv
  /\ IF q.door \in {"hold", "confirm", "moveTo"} THEN q.hold \in Hold ELSE q.hold = None
  /\ q.door = "hold" => q.rsv = None /\ q.win \in Slot /\ q.session \in Session
  /\ q.door = "moveTo" => Exists(q.rsv)
  /\ q.door = "edit" =>
       /\ q.patch \in Patch
       /\ q.seen \in Seen
       /\ q.patch.table # None => q.table = q.patch.table
       /\ q.patch.to # None => q.win.to = q.patch.to
       /\ q.win.from = Named(q.patch.from, q.seen.from)

AllWellAsked == \A p \in Proc : pc[p] # "idle" => WellAsked(req[p])

\* TypeOK, but for who owns the tables' locks: managers do too (ClosureCommand).
Typed ==
  /\ res \in [Rsv -> Row \cup {NoRow}]
  /\ hold \in [Hold -> HoldRow \cup {NoHold("new"), NoHold("gone")}]
  /\ shares \subseteq Proc
  /\ DOMAIN tlock = Table
  /\ pc \in [Proc -> Stages]
  /\ req \in [Proc -> Request \cup {NoReq}]
  /\ \A p \in Proc : pc[p] = "idle" <=> req[p] = NoReq

Shape == Typed /\ AllWellAsked

-----------------------------------------------------------------------------
(* Types.                                                                  *)

\* The initial state has the shape.
LEMMA InitShape == Init => Shape
BY SlotAssumption DEF Init, Shape, Typed, AllWellAsked, Stages

\* A hold row that lives is a row of the holds' type.
LEMMA LiveHold ==
  ASSUME Typed, NEW h \in Hold, IsLive(h)
  PROVE  hold[h] \in HoldRow
BY DEF Typed, IsLive, NoHold

\* A row that exists is a row of the reservations' type.
LEMMA ExistingRow ==
  ASSUME Typed, NEW r \in Rsv, Exists(r)
  PROVE  res[r] \in Row
BY DEF Typed, Exists, NoRow

\* What a request carries makes it well typed and well asked.
LEMMA AskingHold ==
  ASSUME NEW h \in Hold, NEW s \in Session, NEW t \in Table, NEW w \in Slot
  PROVE  LET q == Asking("hold", None, h, s, t, w) IN q \in Request /\ WellAsked(q)
BY SlotAssumption DEF Asking, Request, Door, WellAsked

LEMMA AskingNew ==
  ASSUME NEW r \in Rsv, NEW t \in Table, NEW w \in Slot, NEW d \in {"create", "walkin"}
  PROVE  LET q == Asking(d, r, None, None, t, w) IN q \in Request /\ WellAsked(q)
BY SlotAssumption DEF Asking, Request, Door, WellAsked

LEMMA AskingWithHold ==
  ASSUME Typed, NEW r \in Rsv, NEW h \in Hold, IsLive(h), NEW d \in {"confirm", "moveTo"},
         d = "moveTo" => Exists(r)
  PROVE  LET q == Asking(d, r, h, None, hold[h].table, hold[h].win)
         IN  q \in Request /\ WellAsked(q)
<1>1. hold[h].table \in Table /\ hold[h].win \in Window
  BY LiveHold, SlotAssumption DEF HoldRow
<1> QED BY <1>1 DEF Asking, Request, Door, WellAsked

LEMMA AskingEdit ==
  ASSUME Typed, NEW r \in Rsv, Exists(r), NEW patch \in Patch
  PROVE  LET q == Editing(r, Named(patch.table, res[r].table),
                          PatchedWin(patch, res[r].win), patch,
                          [st |-> res[r].st, from |-> res[r].win.from])
         IN  q \in Request /\ WellAsked(q)
<1> DEFINE t == Named(patch.table, res[r].table)
           w == PatchedWin(patch, res[r].win)
           seen == [st |-> res[r].st, from |-> res[r].win.from]
<1>1. res[r] \in Row
  BY ExistingRow
<1>2. seen \in Seen /\ seen.from = res[r].win.from
  BY <1>1 DEF Row, Window, Seen
<1>3. /\ t \in Table /\ (patch.table # None => t = patch.table)
      /\ w \in Window /\ (patch.to # None => w.to = patch.to)
      /\ w.from = Named(patch.from, res[r].win.from)
  BY <1>1, SlotAssumption DEF Row, Window, Named, PatchedWin
<1> HIDE DEF t, w, seen
<1>4. Editing(r, t, w, patch, seen) \in Request /\ WellAsked(Editing(r, t, w, patch, seen))
  BY <1>2, <1>3 DEF Editing, Request, Door, WellAsked, Seen
<1> QED BY <1>4 DEF t, w, seen

\* Every path begins a request that is well typed and well asked.
LEMMA AskServes ==
  ASSUME Shape, NEW p \in Proc, Ask(p)
  PROVE  \E q \in Request : Serve(p, q) /\ WellAsked(q)
<1> USE DEF Shape
<1>1. CASE \E s \in Session, t \in Table, w \in Slot : AskHold(p, s, t, w)
  BY <1>1, AskingHold DEF AskHold
<1>2. CASE \E h \in Hold : AskConfirm(p, h)
  BY <1>2, AskingWithHold DEF AskConfirm
<1>3. CASE \E r \in Rsv, h \in Hold : AskMoveTo(p, r, h)
  BY <1>3, AskingWithHold DEF AskMoveTo
<1>4. CASE \E t \in Table, w \in Slot : AskCreate(p, t, w)
  BY <1>4, AskingNew DEF AskCreate
<1>5. CASE \E r \in Rsv, patch \in Patch : AskEdit(p, r, patch)
  BY <1>5, AskingEdit DEF AskEdit
<1>6. CASE \E t \in Table, w \in Slot : AskWalkIn(p, t, w)
  BY <1>6, AskingNew DEF AskWalkIn
<1> QED BY <1>1, <1>2, <1>3, <1>4, <1>5, <1>6 DEF Ask

\* A request that begins leaves the shape.
LEMMA ServeShape ==
  ASSUME Shape, NEW p \in Proc, NEW q \in Request, Serve(p, q), WellAsked(q)
  PROVE  Shape'
<1> USE DEF Shape
<1>1. q # NoReq
  BY DEF Request, Door, NoReq, Asking
<1>2. Typed'
  BY <1>1 DEF Serve, Typed, Stages
<1>3. AllWellAsked'
  BY DEF AllWellAsked, Serve, WellAsked, Exists, Typed
<1> QED BY <1>2, <1>3

\* Rows that exist go on existing.
RowsStay == \A r \in Rsv : Exists(r) => Exists(r)'

LEMMA EndShape ==
  ASSUME Shape, NEW p \in Proc, End(p), RowsStay,
         res' \in [Rsv -> Row \cup {NoRow}],
         hold' \in [Hold -> HoldRow \cup {NoHold("new"), NoHold("gone")}]
  PROVE  Shape'
<1> USE DEF Shape
<1>1. Typed'
  BY DEF End, Typed, Stages
<1>2. AllWellAsked'
  BY DEF AllWellAsked, End, WellAsked, RowsStay, Typed
<1> QED BY <1>1, <1>2

\* Spent, released and swept holds leave well-typed rows behind.
LEMMA DropType ==
  ASSUME Typed, NEW hs
  PROVE  Drop(hs) \in [Hold -> HoldRow \cup {NoHold("new"), NoHold("gone")}]
BY DEF Typed, Drop

\* The row a booking writes is a row of the reservations' type.
LEMMA NewRowType ==
  ASSUME NEW q \in Request, NEW st \in Statuses
  PROVE  NewRow(q, st) \in Row
BY DEF NewRow, Row, Request

LEMMA Begun ==
  ASSUME Shape, NEW p \in Proc, pc[p] # "idle"
  PROVE  req[p] \in Request /\ WellAsked(req[p])
BY DEF Shape, Typed, AllWellAsked

\* Two requests that differ at most in the holds they found to replace.
SameSlot(a, b) ==
  /\ a.door = b.door /\ a.rsv = b.rsv /\ a.hold = b.hold /\ a.session = b.session
  /\ a.table = b.table /\ a.win = b.win /\ a.patch = b.patch /\ a.seen = b.seen

LEMMA StepShape ==
  ASSUME Shape, NEW p \in Proc, Step(p)
  PROVE  Shape'
<1> USE DEF Shape
<1>1. CASE PreCheck(p) \/ ShareVenue(p) \/ LockTable(p)
  <2>1. Typed'
    BY <1>1 DEF PreCheck, ShareVenue, LockTable, Typed, Stages
  <2>2. AllWellAsked'
    BY <1>1 DEF PreCheck, ShareVenue, LockTable, AllWellAsked, WellAsked, Exists, Typed
  <2> QED BY <2>1, <2>2
<1>0. CASE Check(p)
  <2>1. req[p] \in Request /\ WellAsked(req[p])
    BY <1>0, Begun DEF Check
  <2>2. PICK q : q = [req[p] EXCEPT !.drops = Replaces(req[p])]
    OBVIOUS
  <2>3. q \in Request /\ SameSlot(q, req[p])
    BY <2>1, <2>2 DEF Replaces, Request, SameSlot
  <2>4. WellAsked(q)
    BY <2>1, <2>3 DEF WellAsked, SameSlot
  <2>5. q # NoReq
    BY <2>3 DEF Request, Door, NoReq, Asking
  <2>6. req' = [req EXCEPT ![p] = q]
    BY <1>0, <2>1, <2>2 DEF Check, Typed
  <2>7. Typed'
    BY <1>0, <2>3, <2>5, <2>6 DEF Check, Typed, Stages
  <2>8. AllWellAsked'
    BY <1>0, <2>4, <2>6 DEF Check, AllWellAsked, WellAsked, Exists, Typed
  <2> QED BY <2>7, <2>8
<1>2. CASE PreCheckFails(p) \/ HoldVanished(p) \/ EditMissed(p)
  BY <1>2, EndShape DEF PreCheckFails, HoldVanished, EditMissed, RowsStay, Exists, Typed
<1>3. CASE Refuse(p)
  BY <1>3, EndShape, DropType DEF Refuse, RowsStay, Exists, Typed
<1>4. CASE WriteHold(p)
  <2>1. req[p] \in Request /\ WellAsked(req[p])
    BY <1>4, Begun DEF WriteHold
  <2> DEFINE new == [st |-> "live", table |-> req[p].table, win |-> req[p].win,
                     session |-> req[p].session, age |-> "active"]
  <2>2. new \in HoldRow
    BY <1>4, <2>1 DEF WriteHold, WellAsked, HoldRow, Request
  <2>3. hold' = [Drop(req[p].drops) EXCEPT ![req[p].hold] = new]
    BY <1>4 DEF WriteHold
  <2>4. hold' \in [Hold -> HoldRow \cup {NoHold("new"), NoHold("gone")}]
    BY <2>2, <2>3, DropType
  <2> QED BY <1>4, <2>4, EndShape DEF WriteHold, RowsStay, Exists, Typed
<1>5. CASE WriteConfirm(p) \/ WriteCreate(p) \/ WriteWalkIn(p)
  <2>1. req[p] \in Request /\ WellAsked(req[p])
    BY <1>5, Begun DEF WriteConfirm, WriteCreate, WriteWalkIn
  <2>2. PICK st \in {"CONFIRMED", "PENDING"} :
          res' = [res EXCEPT ![req[p].rsv] = NewRow(req[p], st)]
    BY <1>5 DEF WriteConfirm, WriteCreate, WriteWalkIn
  <2>3. NewRow(req[p], st) \in Row
    BY <2>1, NewRowType DEF Statuses, Live
  <2>4. res' \in [Rsv -> Row \cup {NoRow}]
    BY <2>2, <2>3 DEF Typed
  <2>5. RowsStay
    BY <2>2, <2>3 DEF RowsStay, Exists, Row, Statuses, Live, NotBooked, Typed
  <2>6. End(p) /\ hold' \in [Hold -> HoldRow \cup {NoHold("new"), NoHold("gone")}]
    BY <1>5, DropType DEF WriteConfirm, WriteCreate, WriteWalkIn, Typed
  <2> QED BY <2>4, <2>5, <2>6, EndShape
<1>6. CASE WriteMoveTo(p)
  <2>1. req[p] \in Request /\ req[p].rsv \in Rsv /\ Exists(req[p].rsv)
    BY <1>6, Begun DEF WriteMoveTo, WellAsked
  <2>2. res[req[p].rsv] \in Row
    BY <2>1, ExistingRow
  <2>3. res' \in [Rsv -> Row \cup {NoRow}]
    BY <1>6, <2>1, <2>2 DEF WriteMoveTo, Typed, Row, Request
  <2>4. RowsStay
    BY <1>6, <2>1 DEF WriteMoveTo, RowsStay, Exists, Typed, Row, NoRow
  <2> QED BY <1>6, <2>3, <2>4, EndShape, DropType DEF WriteMoveTo
<1>7. CASE WriteEdit(p)
  <2>1. req[p] \in Request /\ WellAsked(req[p])
    BY <1>7, Begun DEF WriteEdit
  <2>2. req[p].rsv \in Rsv /\ req[p].patch \in Patch /\ req[p].seen \in Seen
    BY <1>7, <2>1 DEF WriteEdit, WellAsked
  <2>3. Exists(req[p].rsv)
    BY <1>7, <2>2 DEF WriteEdit, Unchanged, Seen, Exists, Statuses, Live, NotBooked
  <2>4. res[req[p].rsv] \in Row
    BY <2>2, <2>3, ExistingRow
  <2>5. /\ Named(req[p].patch.table, res[req[p].rsv].table) \in Table
        /\ PatchedWin(req[p].patch, res[req[p].rsv].win) \in Window
    BY <2>2, <2>4, SlotAssumption DEF Row, Window, Named, PatchedWin
  <2>6. res' \in [Rsv -> Row \cup {NoRow}]
    BY <1>7, <2>2, <2>4, <2>5 DEF WriteEdit, Typed, Row
  <2>7. RowsStay
    BY <1>7, <2>2 DEF WriteEdit, RowsStay, Exists, Typed, Row, NoRow
  <2> QED BY <1>7, <2>6, <2>7, EndShape DEF WriteEdit, Typed
<1> QED BY <1>0, <1>1, <1>2, <1>3, <1>4, <1>5, <1>6, <1>7 DEF Step, Settle

LEMMA AsideShape ==
  ASSUME Shape, Aside
  PROVE  Shape'
<1> USE DEF Shape
<1>1. CASE \E r \in Rsv, st \in Statuses : ChangeStatus(r, st)
  <2>1. PICK r \in Rsv, st \in Statuses : ChangeStatus(r, st)
    BY <1>1
  <2>2. Exists(r)
    BY <2>1 DEF ChangeStatus, Transitions, Exists
  <2>3. res[r] \in Row
    BY <2>2, ExistingRow
  <2>4. Typed'
    BY <2>1, <2>3 DEF ChangeStatus, Typed, requests, Row
  <2>5. RowsStay
    BY <2>1 DEF ChangeStatus, RowsStay, Exists, Typed, Statuses, Live, NotBooked, Row, NoRow
  <2>6. AllWellAsked'
    BY <2>1, <2>5 DEF ChangeStatus, requests, AllWellAsked, WellAsked, RowsStay, Typed
  <2> QED BY <2>4, <2>6
<1>2. CASE \E h \in Hold : HoldAges(h)
  <2>1. PICK h \in Hold : HoldAges(h)
    BY <1>2
  <2>2. hold[h] \in HoldRow
    BY <2>1, LiveHold DEF HoldAges
  <2>3. Typed'
    BY <2>1, <2>2 DEF HoldAges, Typed, requests, HoldRow
  <2> QED BY <2>1, <2>3 DEF HoldAges, requests, AllWellAsked, WellAsked, Exists
<1>3. CASE (\E h \in Hold : ReleaseHold(h) \/ ReadExpired(h)) \/ CleanupExpired
  <2>1. PICK hs : hold' = Drop(hs) /\ UNCHANGED <<res, requests>>
    BY <1>3 DEF ReleaseHold, ReadExpired, CleanupExpired
  <2>2. Typed'
    BY <2>1, DropType DEF Typed, requests
  <2> QED BY <2>1, <2>2 DEF requests, AllWellAsked, WellAsked, Exists
<1> QED BY <1>1, <1>2, <1>3 DEF Aside

\* Every step of the specification keeps the shape.
LEMMA NextShape == Shape /\ [Next]_vars => Shape'
<1> SUFFICES ASSUME Shape, [Next]_vars PROVE Shape'
  OBVIOUS
<1>1. CASE \E p \in Proc : Ask(p)
  BY <1>1, AskServes, ServeShape
<1>2. CASE \E p \in Proc : Step(p)
  BY <1>2, StepShape
<1>3. CASE Aside
  BY <1>3, AsideShape
<1>4. CASE Rest \/ UNCHANGED vars
  BY <1>4 DEF Rest, vars, Shape, Typed, AllWellAsked, WellAsked, Exists
<1> QED BY <1>1, <1>2, <1>3, <1>4 DEF Next

\* The locks that requests take are theirs.
LEMMA OwnersKept ==
  ASSUME Shape, TypeOK, [Next]_vars
  PROVE  tlock' \in [Table -> Proc \cup {None}]
<1>1. CASE \E p \in Proc : Ask(p)
  BY <1>1, AskServes DEF Serve, TypeOK
<1>2. CASE \E p \in Proc : Step(p)
  BY <1>2 DEF Step, Settle, PreCheck, PreCheckFails, ShareVenue, LockTable, Check, Refuse,
              WriteHold, WriteConfirm, WriteMoveTo, WriteCreate, WriteEdit, WriteWalkIn,
              HoldVanished, EditMissed, End, TypeOK
<1>3. CASE Aside \/ Rest \/ UNCHANGED vars
  BY <1>3 DEF Aside, ChangeStatus, ReleaseHold, HoldAges, ReadExpired, CleanupExpired,
              requests, Rest, vars, TypeOK
<1> QED BY <1>1, <1>2, <1>3 DEF Next

LEMMA AlwaysTyped == Spec => [](Shape /\ TypeOK)
<1>1. Init => Shape /\ TypeOK
  BY InitShape DEF Init, Shape, Typed, TypeOK
<1>2. Shape /\ TypeOK /\ [Next]_vars => (Shape /\ TypeOK)'
  BY NextShape, OwnersKept DEF Shape, Typed, TypeOK
<1> QED BY <1>1, <1>2, PTL DEF Spec

\* Rows, locks and requests keep the shape the schema and the code give them.
THEOREM TypeCorrect == Spec => []TypeOK
BY AlwaysTyped, PTL

-----------------------------------------------------------------------------
(* No double booking. A process past the re-check holds its table's lock,  *)
(* so no other process past its own re-check is on that table: whatever    *)
(* the one writes lands on a table the verdict of the other is not about.  *)

\* Every edit that moves a booking names where it goes.
WholePatch ==
  "edit" \in Doors =>
    \A patch \in Patch : MovesSlot(patch) => patch.table # None /\ patch.to # None

LockHeld == \A p \in Proc : pc[p] \in {"locked", "passed"} => tlock[req[p].table] = p

DoorOpen == \A p \in Proc : pc[p] # "idle" => req[p].door \in Doors

Guards == NoDoubleBooking /\ HoldsGuardSlot

\* A passed hold request replaces every hold its session has on its table.
DropsMine ==
  \A p \in Proc : pc[p] = "passed" /\ req[p].door = "hold" =>
    \A h \in Hold :
      IsLive(h) /\ hold[h].session = req[p].session /\ hold[h].table = req[p].table
        => h \in req[p].drops

Locks == DoorOpen /\ LockHeld /\ DropsMine

IInv == Shape /\ Locks /\ VerdictHolds /\ Guards

\* The step adds no claim on any slot, and moves none.
Fewer ==
  /\ \A r \in Rsv : Booked(r)' =>
       Booked(r) /\ res'[r].table = res[r].table /\ res'[r].win = res[r].win
                 /\ res'[r].walkIn = res[r].walkIn
  /\ \A h \in Hold : Active(h)' => Active(h) /\ hold'[h] = hold[h]
  /\ \A h \in Hold : IsLive(h)' =>
       IsLive(h) /\ hold'[h].table = hold[h].table /\ hold'[h].session = hold[h].session

LEMMA FewerGuards ==
  ASSUME Guards, Fewer
  PROVE  Guards'
<1>1. NoDoubleBooking'
  BY DEF Guards, Fewer, NoDoubleBooking, On
<1>2. HoldsGuardSlot'
  BY DEF Guards, Fewer, HoldsGuardSlot, HeldOn, On
<1> QED BY <1>1, <1>2 DEF Guards

Verdict(q) == TableFree(q) /\ (ChecksHolds(q) => HoldsClear(q))

LEMMA FewerVerdict ==
  ASSUME NEW CONSTANT q, Verdict(q), Fewer
  PROVE  Verdict(q)'
BY DEF Verdict, Fewer, TableFree, ChecksHolds, HoldsClear, On, HeldOn

\* A process that is past its re-check after the step, and was before it,
\* keeps its verdict.
LEMMA VerdictsStay ==
  ASSUME VerdictHolds, DropsMine, Fewer,
         \A p \in Proc : pc'[p] = "passed" => pc[p] = "passed" /\ req'[p] = req[p]
  PROVE  VerdictHolds' /\ DropsMine'
<1>0. DropsMine'
  BY DEF DropsMine, Fewer
<1> SUFFICES ASSUME NEW p \in Proc, pc'[p] = "passed"
             PROVE  Verdict(req[p])'
  BY <1>0 DEF VerdictHolds, Verdict
<1>1. PICK q : q = req[p] /\ q = req'[p]
  OBVIOUS
<1>2. Verdict(q)
  BY <1>1 DEF VerdictHolds, Verdict
<1>3. Verdict(q)'
  BY <1>2, FewerVerdict
<1> QED BY <1>1, <1>3 DEF Verdict, TableFree, ChecksHolds, HoldsClear

\* The end of a request leaves the locks of the others, and no new verdict.
LEMMA EndLocks ==
  ASSUME IInv, NEW p \in Proc, End(p)
  PROVE  /\ LockHeld' /\ DoorOpen'
         /\ \A x \in Proc : pc'[x] = "passed" =>
              x # p /\ pc[x] = "passed" /\ req'[x] = req[x]
<1> USE DEF IInv, Locks, Shape
<1>1. LockHeld'
  <2> SUFFICES ASSUME NEW x \in Proc, pc'[x] \in {"locked", "passed"}
               PROVE  tlock'[req'[x].table] = x
    BY DEF LockHeld
  <2>1. x # p /\ pc[x] = pc'[x] /\ req'[x] = req[x]
    BY DEF End, Typed
  <2>2. req[x].table \in Table /\ tlock[req[x].table] = x
    BY <2>1, Begun DEF LockHeld, Request
  <2> QED BY <2>1, <2>2 DEF End
<1>2. DoorOpen'
  BY DEF End, DoorOpen, Typed
<1> QED BY <1>1, <1>2 DEF End, Typed

LEMMA EndFewer ==
  ASSUME IInv, NEW p \in Proc, End(p), Fewer
  PROVE  Locks' /\ VerdictHolds' /\ Guards'
<1> USE DEF IInv, Locks
<1>1. LockHeld' /\ DoorOpen'
  BY EndLocks
<1>2. \A x \in Proc : pc'[x] = "passed" => pc[x] = "passed" /\ req'[x] = req[x]
  BY EndLocks
<1>3. VerdictHolds' /\ DropsMine'
  BY <1>2, VerdictsStay
<1> QED BY <1>1, <1>3, FewerGuards

\* Dropping holds adds no claim.
LEMMA DropActive ==
  ASSUME NEW hs, hold' = Drop(hs)
  PROVE  \A h \in Hold :
           /\ Active(h)' => Active(h) /\ hold'[h] = hold[h] /\ h \notin hs
           /\ IsLive(h)' => IsLive(h) /\ hold'[h] = hold[h]
BY DEF Drop, Active, IsLive, NoHold

\* Two processes past their re-checks are on different tables.
LEMMA OwnTables ==
  ASSUME IInv, NEW p \in Proc, NEW x \in Proc, x # p,
         pc[p] = "passed", pc[x] = "passed"
  PROVE  req[x].table # req[p].table
BY DEF IInv, Locks, LockHeld

\* A booking written into the slot its request holds the verdict for.
LEMMA LandsKeeps ==
  ASSUME IInv, NEW p \in Proc, pc[p] = "passed", End(p),
         req[p].door # "hold",
         NEW row, row.table = req[p].table, row.win = req[p].win,
         req[p].door = "walkin" => row.walkIn,
         res' = [res EXCEPT ![req[p].rsv] = row],
         hold' = Drop({req[p].hold}) \/ (~UsesHold(req[p]) /\ hold' = hold)
  PROVE  Locks' /\ VerdictHolds' /\ Guards'
<1> DEFINE q == req[p]
<1>1. q \in Request /\ WellAsked(q)
  BY Begun DEF IInv
<1>2. q.rsv \in Rsv /\ (UsesHold(q) \/ q.hold = None)
  BY <1>1 DEF WellAsked, UsesHold
<1>3. Verdict(q)
  BY DEF IInv, VerdictHolds, Verdict
<1>4. \A h \in Hold : Active(h)' => Active(h) /\ hold'[h] = hold[h] /\ h # q.hold
  BY <1>2, DropActive, SlotAssumption DEF Active, IsLive
<1>5. /\ res'[q.rsv] = row
      /\ \A r \in Rsv \ {q.rsv} : res'[r] = res[r]
  BY <1>2 DEF IInv, Shape, Typed
<1>6. NoDoubleBooking'
  <2> SUFFICES ASSUME NEW r1 \in Rsv, NEW r2 \in Rsv, r1 # r2,
                      Booked(r1)', On(r2, res[r1].table, res[r1].win)'
               PROVE  FALSE
    BY DEF NoDoubleBooking
  <2>1. CASE r1 = q.rsv
    BY <2>1, <1>3, <1>5 DEF Verdict, TableFree, On, Booked, Exists
  <2>2. CASE r2 = q.rsv
    BY <2>2, <1>3, <1>5 DEF Verdict, TableFree, On, Booked, Exists, Overlaps
  <2>3. CASE r1 # q.rsv /\ r2 # q.rsv
    BY <2>3, <1>5 DEF IInv, Guards, NoDoubleBooking, On, Booked, Exists
  <2> QED BY <2>1, <2>2, <2>3
<1>7. HoldsGuardSlot'
  <2> SUFFICES ASSUME NEW h \in Hold, Active(h)'
               PROVE  /\ \A g \in Hold \ {h} : ~HeldOn(g, hold[h].table, hold[h].win)'
                      /\ \A r \in Rsv : On(r, hold[h].table, hold[h].win)' => res'[r].walkIn
    BY DEF HoldsGuardSlot
  <2>1. Active(h) /\ hold'[h] = hold[h] /\ h # q.hold
    BY <1>4
  <2>2. \A g \in Hold \ {h} : ~HeldOn(g, hold[h].table, hold[h].win)'
    BY <1>4, <2>1 DEF IInv, Guards, HoldsGuardSlot, HeldOn
  <2>3. ASSUME NEW r \in Rsv, On(r, hold[h].table, hold[h].win)', ~res'[r].walkIn
        PROVE  FALSE
    <3>1. CASE r # q.rsv
      BY <3>1, <2>1, <2>3, <1>5 DEF IInv, Guards, HoldsGuardSlot, On, Booked, Exists
    <3>2. CASE r = q.rsv
      <4>1. ChecksHolds(q) /\ HoldsClear(q)
        BY <3>2, <2>3, <1>3, <1>5 DEF Verdict, ChecksHolds
      <4>2. ~HeldOn(h, q.table, q.win)
        BY <4>1, <2>1 DEF HoldsClear
      <4> QED BY <4>2, <3>2, <2>1, <2>3, <1>5 DEF HeldOn, On, Overlaps
    <3> QED BY <3>1, <3>2
  <2> QED BY <2>2, <2>3
<1>8. VerdictHolds'
  <2> SUFFICES ASSUME NEW x \in Proc, pc'[x] = "passed"
               PROVE  Verdict(req[x])'
    BY DEF VerdictHolds, Verdict
  <2>1. x # p /\ pc[x] = "passed" /\ req'[x] = req[x]
    BY EndLocks
  <2>2. req[x].table # q.table
    BY <2>1, OwnTables
  <2>3. Verdict(req[x])
    BY <2>1 DEF IInv, VerdictHolds, Verdict
  <2>4. TableFree(req[x])'
    BY <2>1, <2>2, <2>3, <1>5 DEF Verdict, TableFree, On, Booked, Exists
  <2>5. ChecksHolds(req[x])' => HoldsClear(req[x])'
    BY <2>1, <2>3, <1>4 DEF Verdict, ChecksHolds, HoldsClear, HeldOn
  <2> QED BY <2>4, <2>5 DEF Verdict
<1>9. DropsMine'
  <2>1. \A h \in Hold : IsLive(h)' => IsLive(h) /\ hold'[h] = hold[h]
    BY DropActive DEF IsLive
  <2> QED BY <2>1, EndLocks DEF IInv, Locks, DropsMine
<1> QED BY <1>6, <1>7, <1>8, <1>9, EndLocks DEF Guards, Locks

\* A hold written into the slot its request holds the verdict for.
LEMMA HoldLands ==
  ASSUME IInv, NEW p \in Proc, WriteHold(p)
  PROVE  Locks' /\ VerdictHolds' /\ Guards'
<1> DEFINE q == req[p]
           new == [st |-> "live", table |-> q.table, win |-> q.win,
                   session |-> q.session, age |-> "active"]
<1>1. /\ pc[p] = "passed" /\ q.door = "hold" /\ End(p) /\ res' = res
      /\ hold' = [Drop(q.drops) EXCEPT ![q.hold] = new]
  BY DEF WriteHold
<1>2. q.hold \in Hold /\ q.rsv = None
  BY <1>1, Begun DEF IInv, WellAsked
<1>3. TableFree(q) /\ HoldsClear(q)
  BY <1>1 DEF IInv, VerdictHolds, ChecksHolds
<1>4. /\ hold'[q.hold] = new
      /\ \A h \in Hold \ {q.hold} : Active(h)' =>
           Active(h) /\ hold'[h] = hold[h] /\ h \notin q.drops
      /\ \A h \in Hold \ {q.hold} : IsLive(h)' => IsLive(h) /\ hold'[h] = hold[h]
  BY <1>1, <1>2 DEF Drop, Active, IsLive, NoHold
<1>5. \A h \in Hold \ {q.hold} :
        Active(h)' /\ hold'[h].table = q.table => ~Overlaps(hold'[h].win, q.win)
  BY <1>1, <1>3, <1>4 DEF HoldsClear, HeldOn, Active, IInv, Locks, DropsMine
<1>6. \A r \in Rsv : ~On(r, q.table, q.win)
  BY <1>2, <1>3, SlotAssumption DEF TableFree
<1>7. HoldsGuardSlot'
  <2> SUFFICES ASSUME NEW h \in Hold, Active(h)'
               PROVE  /\ \A g \in Hold \ {h} : ~HeldOn(g, hold[h].table, hold[h].win)'
                      /\ \A r \in Rsv : On(r, hold[h].table, hold[h].win)' => res'[r].walkIn
    BY DEF HoldsGuardSlot
  <2>1. CASE h = q.hold
    <3>1. hold'[h].table = q.table /\ hold'[h].win = q.win
      BY <2>1, <1>4
    <3>2. \A g \in Hold \ {h} : ~HeldOn(g, hold[h].table, hold[h].win)'
      BY <2>1, <3>1, <1>5 DEF HeldOn
    <3>3. \A r \in Rsv : ~On(r, hold[h].table, hold[h].win)'
      BY <3>1, <1>1, <1>6 DEF On, Booked, Exists
    <3> QED BY <3>2, <3>3
  <2>2. CASE h # q.hold
    <3>1. Active(h) /\ hold'[h] = hold[h]
      BY <2>2, <1>4
    <3>2. \A r \in Rsv : On(r, hold[h].table, hold[h].win)' => res'[r].walkIn
      BY <3>1, <1>1 DEF IInv, Guards, HoldsGuardSlot, On, Booked, Exists
    <3>3. ASSUME NEW g \in Hold \ {h, q.hold}
          PROVE  ~HeldOn(g, hold[h].table, hold[h].win)'
      BY <3>1, <1>4 DEF IInv, Guards, HoldsGuardSlot, HeldOn
    <3>4. ASSUME NEW g \in Hold, g = q.hold
          PROVE  ~HeldOn(g, hold[h].table, hold[h].win)'
      BY <3>4, <2>2, <3>1, <1>4, <1>5 DEF HeldOn, Overlaps
    <3> QED BY <3>2, <3>3, <3>4
  <2> QED BY <2>1, <2>2
<1>8. NoDoubleBooking'
  BY <1>1 DEF IInv, Guards, NoDoubleBooking, On, Booked, Exists
<1>9. VerdictHolds'
  <2> SUFFICES ASSUME NEW x \in Proc, pc'[x] = "passed"
               PROVE  Verdict(req[x])'
    BY DEF VerdictHolds, Verdict
  <2>1. x # p /\ pc[x] = "passed" /\ req'[x] = req[x]
    BY <1>1, EndLocks
  <2>2. req[x].table # q.table
    BY <1>1, <2>1, OwnTables
  <2>3. Verdict(req[x])
    BY <2>1 DEF IInv, VerdictHolds, Verdict
  <2>4. TableFree(req[x])'
    BY <2>1, <2>3, <1>1 DEF Verdict, TableFree, On, Booked, Exists
  <2>5. ChecksHolds(req[x])' => HoldsClear(req[x])'
    BY <2>1, <2>2, <2>3, <1>4 DEF Verdict, ChecksHolds, HoldsClear, HeldOn
  <2> QED BY <2>4, <2>5 DEF Verdict
<1>10. DropsMine'
  <2> SUFFICES ASSUME NEW x \in Proc, pc'[x] = "passed", req'[x].door = "hold",
                      NEW h \in Hold, IsLive(h)', hold'[h].session = req'[x].session,
                      hold'[h].table = req'[x].table
               PROVE  h \in req'[x].drops
    BY DEF DropsMine
  <2>1. x # p /\ pc[x] = "passed" /\ req'[x] = req[x]
    BY <1>1, EndLocks
  <2>2. req[x].table # q.table
    BY <1>1, <2>1, OwnTables
  <2>3. h # q.hold
    BY <2>1, <2>2, <1>4
  <2> QED BY <2>1, <2>3, <1>4 DEF IInv, Locks, DropsMine
<1> QED BY <1>1, <1>7, <1>8, <1>9, <1>10, EndLocks DEF Guards, Locks

\* An edit that moves its booking writes the very slot it was judged for, any
\* other leaves the row as it is.
LEMMA EditWrites ==
  ASSUME WholePatch, IInv, NEW p \in Proc, WriteEdit(p)
  PROVE  LET q == req[p] IN
         \E row \in Row :
           /\ q.rsv \in Rsv /\ res[q.rsv] \in Row /\ res[q.rsv].st = q.seen.st
           /\ res' = [res EXCEPT ![q.rsv] = row]
           /\ row.st = res[q.rsv].st /\ row.walkIn = res[q.rsv].walkIn
           /\ IF MovesSlot(q.patch) THEN row.table = q.table /\ row.win = q.win
                                    ELSE row = res[q.rsv]
<1> DEFINE q == req[p]
           old == res[q.rsv]
           row == [old EXCEPT !.table = Named(q.patch.table, old.table),
                              !.win = PatchedWin(q.patch, old.win)]
<1>1. q.door = "edit" /\ Unchanged(q) /\ q.door \in Doors
  BY DEF WriteEdit, IInv, Locks, DoorOpen
<1>2. q \in Request /\ q.rsv \in Rsv /\ q.patch \in Patch /\ q.seen \in Seen
      /\ WellAsked(q)
  BY <1>1, Begun DEF IInv, WellAsked, WriteEdit
<1>3. old \in Row /\ old.win.from = q.seen.from /\ old.st = q.seen.st
  <2>1. Exists(q.rsv) /\ old.win.from = q.seen.from /\ old.st = q.seen.st
    BY <1>1, <1>2 DEF Unchanged, Seen, Exists, Statuses, Live, NotBooked
  <2> QED BY <1>2, <2>1, ExistingRow DEF IInv, Shape
<1>4. res' = [res EXCEPT ![q.rsv] = row]
  BY <1>1, <1>2, <1>3 DEF WriteEdit, IInv, Shape, Typed, Row
<1>5. row.table = Named(q.patch.table, old.table) /\ row.win = PatchedWin(q.patch, old.win)
      /\ row.st = old.st /\ row.walkIn = old.walkIn
  BY <1>3 DEF Row
<1>6. row \in Row
  <2>1. /\ Named(q.patch.table, old.table) \in Table
        /\ PatchedWin(q.patch, old.win) \in Window
    BY <1>2, <1>3, SlotAssumption DEF Row, Window, Named, PatchedWin
  <2> QED BY <1>3, <2>1 DEF Row
<1>7. CASE MovesSlot(q.patch)
  <2>1. q.patch.table # None /\ q.patch.to # None
    BY <1>1, <1>2, <1>7 DEF WholePatch
  <2>2. row.table = q.table /\ row.win.from = q.win.from /\ row.win.to = q.win.to
    BY <1>1, <1>2, <1>3, <1>5, <2>1 DEF WellAsked, Named, PatchedWin
  <2>3. row.win = q.win
    BY <2>2, <1>2, <1>5 DEF Request, Window, PatchedWin
  <2> HIDE DEF row
  <2> QED BY <1>2, <1>3, <1>4, <1>5, <1>6, <1>7, <2>2, <2>3
<1>8. CASE ~MovesSlot(q.patch)
  <2>1. row.table = old.table /\ row.win = old.win
    BY <1>3, <1>5, <1>8 DEF MovesSlot, Named, PatchedWin, Row, Window
  <2>2. row = old
    BY <1>3, <1>5, <1>6, <2>1 DEF Row
  <2> HIDE DEF row
  <2> QED BY <1>2, <1>3, <1>4, <1>5, <1>6, <1>8, <2>2
<1> QED BY <1>7, <1>8

LEMMA EditKeeps ==
  ASSUME WholePatch, IInv, NEW p \in Proc, WriteEdit(p)
  PROVE  Locks' /\ VerdictHolds' /\ Guards'
<1>1. PICK row \in Row :
        /\ req[p].rsv \in Rsv /\ res' = [res EXCEPT ![req[p].rsv] = row]
        /\ IF MovesSlot(req[p].patch) THEN row.table = req[p].table /\ row.win = req[p].win
                                      ELSE row = res[req[p].rsv]
  BY EditWrites
<1>2. pc[p] = "passed" /\ req[p].door = "edit" /\ End(p) /\ hold' = hold
  BY DEF WriteEdit
<1>3. CASE MovesSlot(req[p].patch)
  BY <1>1, <1>2, <1>3, LandsKeeps DEF UsesHold
<1>4. CASE ~MovesSlot(req[p].patch)
  <2>1. res' = res
    BY <1>1, <1>4 DEF IInv, Shape, Typed
  <2>2. Fewer
    BY <1>2, <2>1 DEF Fewer, Booked, Exists, Active, IsLive
  <2> QED BY <1>2, <2>2, EndFewer
<1> QED BY <1>3, <1>4

\* Every step of a request keeps the guards, the locks and the verdicts.
LEMMA StepKeeps ==
  ASSUME WholePatch, IInv, NEW p \in Proc, Step(p)
  PROVE  Locks' /\ VerdictHolds' /\ Guards'
<1>1. CASE PreCheck(p) \/ ShareVenue(p) \/ LockTable(p)
  <2>1. Fewer /\ req' = req /\ \A x \in Proc : pc'[x] = "passed" => pc[x] = "passed"
    BY <1>1 DEF PreCheck, ShareVenue, LockTable, Fewer, Booked, Exists, Active, IsLive,
                IInv, Shape, Typed
  <2>2. DoorOpen'
    BY <1>1 DEF PreCheck, ShareVenue, LockTable, DoorOpen, IInv, Locks, Shape, Typed
  <2>3. LockHeld'
    <3> SUFFICES ASSUME NEW x \in Proc, pc'[x] \in {"locked", "passed"}
                 PROVE  tlock'[req[x].table] = x
      BY <2>1 DEF LockHeld
    <3>1. CASE pc[x] \in {"locked", "passed"}
      <4>1. tlock[req[x].table] = x /\ x # None /\ req[x].table \in Table
        BY <3>1, Begun, SlotAssumption DEF IInv, Locks, LockHeld, Request
      <4> QED BY <1>1, <4>1 DEF PreCheck, ShareVenue, LockTable, IInv, Shape, Typed
    <3>2. CASE pc[x] \notin {"locked", "passed"}
      <4>1. x = p /\ LockTable(p)
        BY <1>1, <3>2 DEF PreCheck, ShareVenue, LockTable, IInv, Shape, Typed
      <4>2. req[p].table \in Table
        BY <4>1, Begun DEF LockTable, IInv, Request
      <4> QED BY <4>1, <4>2 DEF LockTable, IInv, Shape, Typed
    <3> QED BY <3>1, <3>2
  <2> QED BY <2>1, <2>2, <2>3, VerdictsStay, FewerGuards DEF IInv, Locks
<1>0. CASE Check(p)
  <2>1. /\ Fewer /\ tlock' = tlock /\ hold' = hold /\ res' = res
        /\ pc' = [pc EXCEPT ![p] = "passed"] /\ pc[p] = "locked" /\ Bookable(req[p])
    BY <1>0 DEF Check, Fewer, Booked, Exists, Active, IsLive
  <2>2. /\ \A x \in Proc \ {p} : req'[x] = req[x] /\ pc'[x] = pc[x]
        /\ SameSlot(req'[p], req[p]) /\ req'[p].drops = Replaces(req[p])
    BY <1>0, Begun DEF Check, SameSlot, Request, IInv, Shape, Typed
  <2>3. DoorOpen' /\ LockHeld'
    BY <2>1, <2>2 DEF DoorOpen, LockHeld, SameSlot, IInv, Locks, Shape, Typed
  <2>4. DropsMine'
    <3> SUFFICES ASSUME NEW x \in Proc, pc'[x] = "passed", req'[x].door = "hold",
                        NEW h \in Hold, IsLive(h), hold[h].session = req'[x].session,
                        hold[h].table = req'[x].table
                 PROVE  h \in req'[x].drops
      BY <2>1 DEF DropsMine, IsLive
    <3>1. CASE x = p
      BY <3>1, <2>2 DEF SameSlot, Replaces
    <3>2. CASE x # p
      BY <3>2, <2>2 DEF DropsMine, IInv, Locks
    <3> QED BY <3>1, <3>2
  <2>5. VerdictHolds'
    <3> SUFFICES ASSUME NEW x \in Proc, pc'[x] = "passed"
                 PROVE  Verdict(req[x])'
      BY DEF VerdictHolds, Verdict
    <3>1. Verdict(req[x]) /\ SameSlot(req'[x], req[x])
      BY <2>1, <2>2 DEF Bookable, Verdict, VerdictHolds, SameSlot, IInv
    <3>2. PICK q, r : q = req[x] /\ r = req'[x]
      OBVIOUS
    <3>3. Verdict(q)'
      BY <2>1, <3>1, <3>2, FewerVerdict
    <3> QED BY <3>1, <3>2, <3>3 DEF Verdict, TableFree, ChecksHolds, HoldsClear, SameSlot
  <2> QED BY <2>1, <2>3, <2>4, <2>5, FewerGuards DEF IInv, Locks
<1>2. CASE PreCheckFails(p) \/ HoldVanished(p) \/ EditMissed(p) \/ Refuse(p)
  <2>1. res' = res /\ (hold' = hold \/ hold' = Drop({req[p].hold})) /\ End(p)
    BY <1>2 DEF PreCheckFails, HoldVanished, EditMissed, Refuse
  <2>2. Fewer
    BY <2>1, DropActive DEF Fewer, Booked, Exists, Active, IsLive
  <2> QED BY <2>1, <2>2, EndFewer
<1>3. CASE WriteHold(p)
  BY <1>3, HoldLands
<1>4. CASE WriteEdit(p)
  BY <1>4, EditKeeps
<1>5. CASE WriteConfirm(p) \/ WriteCreate(p) \/ WriteWalkIn(p)
  <2>1. PICK st : res' = [res EXCEPT ![req[p].rsv] = NewRow(req[p], st)]
    BY <1>5 DEF WriteConfirm, WriteCreate, WriteWalkIn
  <2>2. PICK row : row = NewRow(req[p], st)
    OBVIOUS
  <2>3. /\ pc[p] = "passed" /\ End(p) /\ req[p].door # "hold"
        /\ hold' = Drop({req[p].hold}) \/ (~UsesHold(req[p]) /\ hold' = hold)
    BY <1>5 DEF WriteConfirm, WriteCreate, WriteWalkIn, UsesHold
  <2>4. row.table = req[p].table /\ row.win = req[p].win
        /\ (req[p].door = "walkin" => row.walkIn)
    BY <2>2 DEF NewRow
  <2> QED BY <2>1, <2>2, <2>3, <2>4, LandsKeeps
<1>6. CASE WriteMoveTo(p)
  <2>1. req[p].rsv \in Rsv /\ Exists(req[p].rsv)
    BY <1>6, Begun DEF WriteMoveTo, WellAsked, IInv
  <2>2. res[req[p].rsv] \in Row
    BY <2>1, ExistingRow DEF IInv, Shape
  <2>3. PICK row : row = [res[req[p].rsv] EXCEPT !.table = req[p].table, !.win = req[p].win]
    OBVIOUS
  <2>4. res' = [res EXCEPT ![req[p].rsv] = row]
    BY <1>6, <2>1, <2>2, <2>3 DEF WriteMoveTo, IInv, Shape, Typed, Row
  <2>5. row.table = req[p].table /\ row.win = req[p].win
    BY <2>2, <2>3 DEF Row
  <2> QED BY <1>6, <2>4, <2>5, LandsKeeps DEF WriteMoveTo
<1> QED BY <1>0, <1>1, <1>2, <1>3, <1>4, <1>5, <1>6 DEF Step, Settle

\* A write outside the table locks adds no claim.
LEMMA AsideFewer ==
  ASSUME Shape, Aside \/ Rest \/ UNCHANGED vars
  PROVE  Fewer
<1>1. CASE \E r \in Rsv, st \in Statuses : ChangeStatus(r, st)
  <2>1. PICK r \in Rsv, st \in Statuses : ChangeStatus(r, st)
    BY <1>1
  <2>2. Booked(r) /\ res[r] \in Row
    BY <2>1, ExistingRow DEF ChangeStatus, Transitions, Exists, Booked, NotBooked, Shape
  <2> QED BY <2>1, <2>2 DEF ChangeStatus, Fewer, Booked, Exists, Active, IsLive,
                            Shape, Typed, Row
<1>2. CASE \E h \in Hold : HoldAges(h)
  <2>1. PICK h \in Hold : HoldAges(h)
    BY <1>2
  <2>2. hold[h] \in HoldRow
    BY <2>1, LiveHold DEF HoldAges, Shape
  <2> QED BY <2>1, <2>2 DEF HoldAges, Fewer, Booked, Exists, Active, IsLive,
                            Shape, Typed, HoldRow
<1>3. CASE (\E h \in Hold : ReleaseHold(h) \/ ReadExpired(h)) \/ CleanupExpired
  <2>1. PICK hs : hold' = Drop(hs) /\ res' = res
    BY <1>3 DEF ReleaseHold, ReadExpired, CleanupExpired
  <2> QED BY <2>1, DropActive DEF Fewer, Booked, Exists
<1>4. CASE Rest \/ UNCHANGED vars
  BY <1>4 DEF Rest, vars, Fewer, Booked, Exists, Active, IsLive
<1> QED BY <1>1, <1>2, <1>3, <1>4 DEF Aside

\* A request that begins, and every write outside the table locks, adds no claim.
LEMMA OthersKeep ==
  ASSUME IInv, (\E p \in Proc : Ask(p)) \/ Aside \/ Rest \/ UNCHANGED vars
  PROVE  Locks' /\ VerdictHolds' /\ Guards'
<1>1. CASE \E p \in Proc : Ask(p)
  <2>1. PICK p \in Proc, q \in Request : Serve(p, q)
    BY <1>1, AskServes DEF IInv
  <2>2. Fewer
    BY <2>1 DEF Serve, Fewer, Booked, Exists, Active, IsLive
  <2>3. DoorOpen'
    BY <2>1 DEF Serve, IInv, Locks, DoorOpen, Shape, Typed
  <2>4. LockHeld'
    BY <2>1 DEF Serve, IInv, Locks, LockHeld, Shape, Typed
  <2>5. \A x \in Proc : pc'[x] = "passed" => pc[x] = "passed" /\ req'[x] = req[x]
    BY <2>1 DEF Serve, IInv, Shape, Typed
  <2> QED BY <2>2, <2>3, <2>4, <2>5, VerdictsStay, FewerGuards DEF IInv, Locks
<1>2. CASE Aside \/ Rest \/ UNCHANGED vars
  <2>1. UNCHANGED requests
    BY <1>2 DEF Aside, ChangeStatus, ReleaseHold, HoldAges, ReadExpired, CleanupExpired,
                Rest, vars, requests
  <2>2. Fewer
    BY <1>2, AsideFewer DEF IInv
  <2>3. DoorOpen' /\ LockHeld'
    BY <2>1 DEF requests, IInv, Locks, DoorOpen, LockHeld
  <2> QED BY <2>1, <2>2, <2>3, VerdictsStay, FewerGuards DEF requests, IInv, Locks
<1> QED BY <1>1, <1>2

LEMMA InitIInv == Init => IInv
<1> SUFFICES ASSUME Init PROVE IInv
  OBVIOUS
<1>1. Shape
  BY InitShape
<1>2. Locks /\ VerdictHolds
  BY DEF Init, Locks, DoorOpen, LockHeld, DropsMine, VerdictHolds
<1>3. Guards
  BY DEF Init, Guards, NoDoubleBooking, HoldsGuardSlot, Booked, Exists, NoRow, On,
         Active, IsLive, NoHold
<1> QED BY <1>1, <1>2, <1>3 DEF IInv

LEMMA NextIInv ==
  ASSUME WholePatch
  PROVE  IInv /\ [Next]_vars => IInv'
<1> SUFFICES ASSUME IInv, [Next]_vars PROVE IInv'
  OBVIOUS
<1>1. Shape'
  BY NextShape DEF IInv
<1>2. Locks' /\ VerdictHolds' /\ Guards'
  BY StepKeeps, OthersKeep DEF Next
<1> QED BY <1>1, <1>2 DEF IInv

LEMMA AlwaysIInv ==
  ASSUME WholePatch
  PROVE  Spec => []IInv
BY InitIInv, NextIInv, PTL DEF Spec

\* As long as an edit that moves a booking names its table and its end, no two
\* bookings ever overlap on a table (book-slot.ts).
THEOREM NeverDoubleBooked ==
  ASSUME WholePatch
  PROVE  Spec => []NoDoubleBooking
BY AlwaysIInv, PTL DEF IInv, Guards

\* Under the same condition an active hold keeps its slot from every other hold
\* and from every booking but a walk-in (hold.ts, confirm-hold.ts).
THEOREM HoldsAlwaysGuard ==
  ASSUME WholePatch
  PROVE  Spec => []HoldsGuardSlot
BY AlwaysIInv, PTL DEF IInv, Guards

\* And what a request found free under its table's lock is still free when it
\* writes, whatever commits in between (book-slot.ts).
THEOREM VerdictsAlwaysHold ==
  ASSUME WholePatch
  PROVE  Spec => []VerdictHolds
BY AlwaysIInv, PTL DEF IInv
=============================================================================
