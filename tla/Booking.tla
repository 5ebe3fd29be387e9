------------------------------ MODULE Booking ------------------------------
(***************************************************************************)
(* The booking core of the reservations service: every path that writes a  *)
(* reservation or a hold into a table's slot, on one venue and one service *)
(* day.                                                                    *)
(*                                                                         *)
(* A request is served by a process. It reads outside any transaction      *)
(* (Ask...), opens a transaction that share-locks the venue row when the   *)
(* availability gate will judge it (ShareVenue), takes the table's         *)
(* advisory lock (LockTable), re-checks everything under the lock (Check   *)
(* or Refuse) and writes (Write...). Commit and rollback release the locks *)
(* in the same step as the write. The database runs at READ COMMITTED, so  *)
(* each step sees what has committed before it.                            *)
(*                                                                         *)
(* Left out: party sizes and pacing (soft limits), the table's OCCUPIED    *)
(* flag and the audit events, which are written with the rows below and    *)
(* read by none of these paths; reservations without a venue.              *)
(***************************************************************************)
EXTENDS SlotRules, FiniteSets

CONSTANTS
  Proc,        \* request handlers that may run at the same time
  Rsv, Hold,   \* ids of reservation rows and hold rows (uuids)
  Session,     \* booking sessions of guests
  Table,
  Time,        \* instants of the service day
  Slot,        \* the windows requests ask for
  Patch,       \* the bodies of staff edits: [table, from, to], None = not named
  Doors,       \* the paths requests take in this instance
  Closure, Band,
  None

Door == {"hold", "confirm", "moveTo", "create", "edit", "walkin"}

Window == [from : Time, to : Time]

ASSUME SlotAssumption ==
  /\ Time \subseteq Int
  /\ Slot \subseteq Window
  /\ Patch \subseteq [table : Table \cup {None}, from : Time \cup {None},
                      to : Time \cup {None}]
  /\ None \notin UNION {Time, Table, Proc, Rsv, Hold}
  /\ Doors \subseteq Door

ASSUME BandAssumption == \A c \in Closure : Band[c].from \in Int /\ Band[c].to \in Int

VARIABLES
  res,      \* reservations: the row of each id
  hold,     \* reservation_holds: the row of each id
  closed,   \* the closures in force, in the order they were saved; none here:
            \* ClosureCommand saves and reopens them
  shares,   \* the processes that hold the venue row FOR SHARE
  tlock,    \* the owner of each table's advisory lock, or None
  pc,       \* where each process is
  req       \* what each process is serving

vars == <<res, hold, closed, shares, tlock, pc, req>>

NoRow == [st |-> "absent", table |-> None, win |-> None, walkIn |-> FALSE]
NoHold(st) == [st |-> st, table |-> None, win |-> None, session |-> None,
               age |-> "active"]
Asking(door, r, h, s, t, w) ==
  [door |-> door, rsv |-> r, hold |-> h, session |-> s, table |-> t, win |-> w,
   patch |-> None, seen |-> None, drops |-> {}]
Editing(r, t, w, patch, seen) ==
  [door |-> "edit", rsv |-> r, hold |-> None, session |-> None, table |-> t, win |-> w,
   patch |-> patch, seen |-> seen, drops |-> {}]
NoReq == Asking("none", None, None, None, None, None)

Row == [st : Statuses, table : Table, win : Window, walkIn : BOOLEAN]
HoldRow == [st : {"live"}, table : Table, win : Slot, session : Session,
            age : {"active", "due", "expired"}]
Request == [door : Door, rsv : Rsv \cup {None}, hold : Hold \cup {None},
            session : Session \cup {None}, table : Table, win : Window,
            patch : Patch \cup {None},
            seen : [st : Statuses, from : Time] \cup {None},
            drops : SUBSET Hold]

-----------------------------------------------------------------------------
(* What the tables say.                                                    *)

Exists(r) == res[r].st # "absent"
Booked(r) == Exists(r) /\ res[r].st \notin NotBooked
IsLive(h) == hold[h].st = "live"

\* A hold guards its slot while its expiry lies in the future.
Active(h) == IsLive(h) /\ hold[h].age = "active"

On(r, t, w) == Booked(r) /\ res[r].table = t /\ Overlaps(res[r].win, w)
HeldOn(h, t, w) == Active(h) /\ hold[h].table = t /\ Overlaps(hold[h].win, w)

\* An id no row has and no request in flight is about to write.
FreshRsv(r) == ~Exists(r) /\ \A p \in Proc : req[p].rsv # r
FreshHold(h) == hold[h].st = "new" /\ \A p \in Proc : req[p].hold # h

-----------------------------------------------------------------------------
(* The checks of the seam, on a request q.                                 *)

Gated(q) == q.door # "walkin"
\* Mutant: only a new hold looks at the other holds.
ChecksHoldsOfHolds(q) == q.door = "hold"
ChecksHolds(q) == q.door # "walkin"
UsesHold(q) == q.door \in {"confirm", "moveTo"}
ChannelOf(q) == IF q.door \in {"create", "edit"} THEN "phone" ELSE "online"

\* The caller's guard: the expiry read before the lock, against the clock now.
InTime(q) == UsesHold(q) => hold[q.hold].age # "expired"

TableFree(q) == \A r \in Rsv \ {q.rsv} : ~On(r, q.table, q.win)

HoldsClear(q) ==
  \A h \in Hold \ {q.hold} :
    (q.door = "hold" => hold[h].session # q.session) => ~HeldOn(h, q.table, q.win)

\* A booking moved from inside a closure is judged against the day as planned;
\* blocked tables stay blocked.
KeptThroughClosure(q) ==
  /\ q.door = "edit"
  /\ \E c \in ToSet(closed) : ClosesSeating(Band[c], q.seen.from, "phone")

GateOpen(q) ==
  /\ \/ KeptThroughClosure(q)
     \/ \A c \in ToSet(closed) : ~ClosesSeating(Band[c], q.win.from, ChannelOf(q))
  /\ \A c \in ToSet(closed) : ~BlocksTable(Band[c], q.win.from, q.table)

Bookable(q) ==
  /\ InTime(q)
  /\ TableFree(q)
  /\ ChecksHolds(q) => HoldsClear(q)
  /\ Gated(q) => GateOpen(q)

-----------------------------------------------------------------------------
(* A patch names some fields of the slot; the others keep what was read.   *)

Named(x, y) == IF x = None THEN y ELSE x
PatchedWin(patch, win) == [from |-> Named(patch.from, win.from),
                           to |-> Named(patch.to, win.to)]
MovesSlot(patch) == patch.table # None \/ patch.from # None \/ patch.to # None

-----------------------------------------------------------------------------
Init ==
  /\ res = [r \in Rsv |-> NoRow]
  /\ hold = [h \in Hold |-> NoHold("new")]
  /\ closed = <<>>
  /\ shares = {}
  /\ tlock = [t \in Table |-> None]
  /\ pc = [p \in Proc |-> "idle"]
  /\ req = [p \in Proc |-> NoReq]

\* The end of a request, its transaction committed or rolled back.
End(p) ==
  /\ pc' = [pc EXCEPT ![p] = "idle"]
  /\ req' = [req EXCEPT ![p] = NoReq]
  /\ shares' = shares \ {p}
  /\ tlock' = [t \in Table |-> IF tlock[t] = p THEN None ELSE tlock[t]]
  /\ UNCHANGED closed

-----------------------------------------------------------------------------
(* Requests begin: the reads and refusals before the transaction.          *)

\* An edit has its pre-check still to come; walk-ins skip the gate, so their
\* transaction takes no venue lock.
Serve(p, q) ==
  /\ q.door \in Doors
  /\ pc[p] = "idle"
  /\ pc' = [pc EXCEPT ![p] = CASE q.door = "edit" -> "read"
                              [] q.door = "walkin" -> "opened"
                              [] OTHER -> "asked"]
  /\ req' = [req EXCEPT ![p] = q]
  /\ UNCHANGED <<res, hold, closed, shares, tlock>>

\* The pre-check on the slices fetched before the transaction: bookings and
\* holds of every session count.
LooksFree(self, t, w) ==
  /\ \A r \in Rsv \ {self} : ~On(r, t, w)
  /\ \A h \in Hold : ~HeldOn(h, t, w)

AskHold(p, s, t, w) ==
  /\ LooksFree(None, t, w)
  /\ \E h \in Hold :
       /\ FreshHold(h)
       /\ Serve(p, Asking("hold", None, h, s, t, w))

AskConfirm(p, h) ==
  /\ IsLive(h)
  /\ \E r \in Rsv :
       /\ FreshRsv(r)
       /\ Serve(p, Asking("confirm", r, h, None, hold[h].table, hold[h].win))

\* The manage route refuses a cancelled or completed booking, read before.
AskMoveTo(p, r, h) ==
  /\ Exists(r) /\ res[r].st \notin {"CANCELLED", "COMPLETED"}
  /\ IsLive(h)
  /\ Serve(p, Asking("moveTo", r, h, None, hold[h].table, hold[h].win))

AskCreate(p, t, w) ==
  /\ LooksFree(None, t, w)
  /\ \E r \in Rsv :
       /\ FreshRsv(r)
       /\ Serve(p, Asking("create", r, None, None, t, w))

\* A patch that names no slot field stands for a party increase, which crosses
\* the gate too; fields it leaves out are judged as they were read here.
AskEdit(p, r, patch) ==
  /\ Exists(r)
  /\ MovesSlot(patch) => res[r].st \notin NotBooked
  /\ LET t == Named(patch.table, res[r].table)
         w == PatchedWin(patch, res[r].win)
     IN  Serve(p, Editing(r, t, w, patch,
                          [st |-> res[r].st, from |-> res[r].win.from]))

\* The edit's pre-check, on slices read after the booking itself.
PreCheck(p) ==
  /\ pc[p] = "read"
  /\ LooksFree(req[p].rsv, req[p].table, req[p].win)
  /\ pc' = [pc EXCEPT ![p] = "asked"]
  /\ UNCHANGED <<res, hold, closed, shares, tlock, req>>

PreCheckFails(p) ==
  /\ pc[p] = "read"
  /\ ~LooksFree(req[p].rsv, req[p].table, req[p].win)
  /\ End(p)
  /\ UNCHANGED <<res, hold>>

AskWalkIn(p, t, w) ==
  /\ LooksFree(None, t, w)
  /\ \E r \in Rsv :
       /\ FreshRsv(r)
       /\ Serve(p, Asking("walkin", r, None, None, t, w))

Ask(p) ==
  \/ \E s \in Session, t \in Table, w \in Slot : AskHold(p, s, t, w)
  \/ \E h \in Hold : AskConfirm(p, h)
  \/ \E r \in Rsv, h \in Hold : AskMoveTo(p, r, h)
  \/ \E t \in Table, w \in Slot : AskCreate(p, t, w)
  \/ \E r \in Rsv, patch \in Patch : AskEdit(p, r, patch)
  \/ \E t \in Table, w \in Slot : AskWalkIn(p, t, w)

-----------------------------------------------------------------------------
(* The transaction of bookSlot.                                            *)

\* Lock order is venue row, then table.
ShareVenue(p) ==
  /\ pc[p] = "asked"
  /\ shares' = shares \cup {p}
  /\ pc' = [pc EXCEPT ![p] = "opened"]
  /\ UNCHANGED <<res, hold, closed, tlock, req>>

\* Mutant: the checks run without the table's lock.
LockNothing(p) ==
  /\ pc[p] = "opened"
  /\ pc' = [pc EXCEPT ![p] = "locked"]
  /\ UNCHANGED <<res, hold, closed, shares, tlock, req>>

LockTable(p) ==
  /\ pc[p] = "opened"
  /\ tlock[req[p].table] = None
  /\ tlock' = [tlock EXCEPT ![req[p].table] = p]
  /\ pc' = [pc EXCEPT ![p] = "locked"]
  /\ UNCHANGED <<res, hold, closed, shares, req>>

\* A new hold deletes every hold its session has at the venue. The delete sees
\* what is there when it runs, not what commits before its own commit does.
Replaces(q) ==
  IF q.door = "hold" THEN {h \in Hold : IsLive(h) /\ hold[h].session = q.session} ELSE {}

Check(p) ==
  /\ pc[p] = "locked"
  /\ Bookable(req[p])
  /\ pc' = [pc EXCEPT ![p] = "passed"]
  /\ req' = [req EXCEPT ![p].drops = Replaces(req[p])]
  /\ UNCHANGED <<res, hold, closed, shares, tlock>>

Drop(hs) == [h \in Hold |-> IF h \in hs THEN NoHold("gone") ELSE hold[h]]

\* A confirm that may not book consumes the hold.
Refuse(p) ==
  /\ pc[p] = "locked"
  /\ ~Bookable(req[p])
  /\ hold' = IF req[p].door = "confirm" THEN Drop({req[p].hold}) ELSE hold
  /\ End(p)
  /\ UNCHANGED res

\* Mutant: a walk-in is stored as SEATED, a status the schema does not have.
NewRowSeated(q, st) ==
  [st |-> IF q.door = "walkin" THEN "SEATED" ELSE st, table |-> q.table,
   win |-> q.win, walkIn |-> q.door = "walkin"]

NewRow(q, st) == [st |-> st, table |-> q.table, win |-> q.win,
                  walkIn |-> q.door = "walkin"]

\* Mutant: the holds the session had stay.
WriteHoldBeside(p) ==
  LET q == req[p]
  IN  /\ pc[p] = "passed" /\ q.door = "hold"
      /\ hold' = [hold EXCEPT ![q.hold] =
                    [st |-> "live", table |-> q.table, win |-> q.win,
                     session |-> q.session, age |-> "active"]]
      /\ End(p)
      /\ UNCHANGED res

WriteHold(p) ==
  LET q == req[p]
  IN  /\ pc[p] = "passed" /\ q.door = "hold"
      /\ hold' = [Drop(q.drops) EXCEPT ![q.hold] =
                    [st |-> "live", table |-> q.table, win |-> q.win,
                     session |-> q.session, age |-> "active"]]
      /\ End(p)
      /\ UNCHANGED res

WriteConfirm(p) ==
  LET q == req[p]
  IN  /\ pc[p] = "passed" /\ q.door = "confirm"
      /\ IsLive(q.hold)
      /\ res' = [res EXCEPT ![q.rsv] = NewRow(q, "CONFIRMED")]
      /\ hold' = Drop({q.hold})
      /\ End(p)

\* The update is keyed on the id alone and never writes the status.
WriteMoveTo(p) ==
  LET q == req[p]
  IN  /\ pc[p] = "passed" /\ q.door = "moveTo"
      /\ IsLive(q.hold)
      /\ res' = [res EXCEPT ![q.rsv].table = q.table, ![q.rsv].win = q.win]
      /\ hold' = Drop({q.hold})
      /\ End(p)

\* The hold was released or swept meanwhile: its delete throws, which rolls back.
HoldVanished(p) ==
  /\ pc[p] = "passed" /\ UsesHold(req[p])
  /\ ~IsLive(req[p].hold)
  /\ End(p)
  /\ UNCHANGED <<res, hold>>

WriteCreate(p) ==
  LET q == req[p]
  IN  /\ pc[p] = "passed" /\ q.door = "create"
      /\ res' = [res EXCEPT ![q.rsv] = NewRow(q, "PENDING")]
      /\ End(p)
      /\ UNCHANGED hold

\* Mutants: the compare-and-set forgets the start, or the status.
UnchangedStatus(q) == res[q.rsv].st = q.seen.st
UnchangedStart(q) == res[q.rsv].win.from = q.seen.from

\* The compare-and-set of an edit: the status and the start as first read.
Unchanged(q) == res[q.rsv].st = q.seen.st /\ res[q.rsv].win.from = q.seen.from

\* Only the fields the patch names are written.
WriteEdit(p) ==
  LET q == req[p]
  IN  /\ pc[p] = "passed" /\ q.door = "edit"
      /\ Unchanged(q)
      /\ res' = [res EXCEPT ![q.rsv].table = Named(q.patch.table, res[q.rsv].table),
                            ![q.rsv].win = PatchedWin(q.patch, res[q.rsv].win)]
      /\ End(p)
      /\ UNCHANGED hold

EditMissed(p) ==
  /\ pc[p] = "passed" /\ req[p].door = "edit"
  /\ ~Unchanged(req[p])
  /\ End(p)
  /\ UNCHANGED <<res, hold>>

WriteWalkIn(p) ==
  LET q == req[p]
  IN  /\ pc[p] = "passed" /\ q.door = "walkin"
      /\ res' = [res EXCEPT ![q.rsv] = NewRow(q, "CONFIRMED")]
      /\ End(p)
      /\ UNCHANGED hold

Settle(p) ==
  \/ WriteHold(p) \/ WriteConfirm(p) \/ WriteMoveTo(p) \/ WriteCreate(p)
  \/ WriteEdit(p) \/ WriteWalkIn(p) \/ HoldVanished(p) \/ EditMissed(p)

Step(p) ==
  \/ PreCheck(p) \/ PreCheckFails(p)
  \/ ShareVenue(p) \/ LockTable(p) \/ Check(p) \/ Refuse(p) \/ Settle(p)

-----------------------------------------------------------------------------
(* Writes that take no table lock.                                         *)

requests == <<closed, shares, tlock, pc, req>>

\* The read, the state machine and the status compare-and-set of one request.
\* No status recurs, so together they act as one step at the compare-and-set.
ChangeStatus(r, st) ==
  /\ <<res[r].st, st>> \in Transitions
  /\ res' = [res EXCEPT ![r].st = st]
  /\ UNCHANGED <<hold, requests>>

\* The session's own release of its hold.
ReleaseHold(h) ==
  /\ IsLive(h)
  /\ hold' = Drop({h})
  /\ UNCHANGED <<res, requests>>

\* The clock reaches a hold's expiry, then passes it. At the very instant the
\* hold guards nothing any more but may still be confirmed.
HoldAges(h) ==
  /\ IsLive(h) /\ hold[h].age # "expired"
  /\ hold' = [hold EXCEPT ![h].age = IF @ = "active" THEN "due" ELSE "expired"]
  /\ UNCHANGED <<res, requests>>

Expired == {h \in Hold : IsLive(h) /\ hold[h].age = "expired"}

\* A read of one expired hold deletes it.
ReadExpired(h) ==
  /\ h \in Expired
  /\ hold' = Drop({h})
  /\ UNCHANGED <<res, requests>>

\* The opportunistic sweep deletes them all.
CleanupExpired ==
  /\ Expired # {}
  /\ hold' = Drop(Expired)
  /\ UNCHANGED <<res, requests>>

\* No request in flight: the service rests until the next one. With this
\* step, a deadlock TLC reports is one of requests waiting for each other.
Rest ==
  /\ \A p \in Proc : pc[p] = "idle"
  /\ UNCHANGED vars

Aside ==
  \/ \E r \in Rsv, st \in Statuses : ChangeStatus(r, st)
  \/ \E h \in Hold : ReleaseHold(h) \/ HoldAges(h) \/ ReadExpired(h)
  \/ CleanupExpired

Next == (\E p \in Proc : Ask(p) \/ Step(p)) \/ Aside \/ Rest

Spec == Init /\ [][Next]_vars

-----------------------------------------------------------------------------
(* Properties.                                                             *)

Stages == {"idle", "read", "asked", "opened", "locked", "passed"}

\* Every row, lock and request has the shape the schema and the code give it.
TypeOK ==
  /\ res \in [Rsv -> Row \cup {NoRow}]
  /\ hold \in [Hold -> HoldRow \cup {NoHold("new"), NoHold("gone")}]
  /\ shares \subseteq Proc
  /\ tlock \in [Table -> Proc \cup {None}]
  /\ pc \in [Proc -> Stages]
  /\ req \in [Proc -> Request \cup {NoReq}]
  /\ \A p \in Proc : pc[p] = "idle" <=> req[p] = NoReq

\* No two bookings that still hold a slot overlap on one table: what the
\* advisory lock and the re-check of bookSlot are for (book-slot.ts).
NoDoubleBooking ==
  \A r1, r2 \in Rsv :
    r1 # r2 /\ Booked(r1) => ~On(r2, res[r1].table, res[r1].win)

\* A hold that has not expired keeps its slot for its guest: no other active
\* hold overlaps it, and no booking does but a walk-in, whose write re-checks
\* no hold (hold.ts, confirm-hold.ts, reservation.ts).
HoldsGuardSlot ==
  \A h \in Hold : Active(h) =>
    /\ \A g \in Hold \ {h} : ~HeldOn(g, hold[h].table, hold[h].win)
    /\ \A r \in Rsv : On(r, hold[h].table, hold[h].win) => res[r].walkIn

\* Between the re-check under the lock and the write, nothing that took no
\* lock (a cancel, a sweep, an edit on another table) makes the verdict false.
VerdictHolds ==
  \A p \in Proc : pc[p] = "passed" =>
    /\ TableFree(req[p])
    /\ ChecksHolds(req[p]) => HoldsClear(req[p])

\* A cancelled or no-show booking holds no slot, so none of the slot writes
\* moves its window or table (reservation.ts, updateWithConflictCheck).
DeadStaysPut ==
  [][\A r \in Rsv : res[r].st \in NotBooked =>
       res'[r].table = res[r].table /\ res'[r].win = res[r].win]_vars
=============================================================================
