------------------------ MODULE ClosureCommand_proofs ------------------------
(***************************************************************************)
(* What TLAPS proves of ClosureCommand for any number of managers,         *)
(* closures, requests, bookings and tables: a gate's verdict outlives no   *)
(* save, no save is lost, a decision touches only the bookings it was      *)
(* shown, the moves of closures double-book nobody and pass no hold, and a *)
(* saved closure leaves no booking inside it that nobody decided on,       *)
(* whatever requests run beside them.                                      *)
(***************************************************************************)
EXTENDS ClosureCommand, Booking_proofs, FiniteSetTheorems

-----------------------------------------------------------------------------
(* The commands.                                                           *)

\* The commands that own the venue row, and those of them that have a plan.
Owning == {"owner", "planned", "applying"}
Planning == {"planned", "applying"}

Move == [from : Time, target : Window]
Plans == UNION {[R -> Move] : R \in SUBSET Rsv}
RowsRead == UNION {[R -> Statuses \cup {"absent"}] : R \in SUBSET Rsv}

Command_ == [st : {"idle", "decided"} \cup Owning, rule : Closure \cup {None},
             action : Decision \cup {None}, ver : Nat \cup {None}, named : BOOLEAN,
             seen : SUBSET Rsv, plan : Plans \cup {None}, rows : RowsRead \cup {None}]

\* A plan is about rows that exist and, when the decision named its bookings,
\* about those.
Sound(x) ==
  /\ x.st # "idle" => x.rule \in Closure /\ x.action \in Decision
  /\ x.st \in Planning =>
       /\ x.plan \in Plans
       /\ \A r \in DOMAIN x.plan : Exists(r)
       /\ x.named => DOMAIN x.plan = x.seen

CmdShape ==
  /\ cmd \in [Mgr -> Command_]
  /\ version \in Nat
  /\ outcome \in [Closure -> [Rsv -> Decision \cup {"none"}]]
  /\ \A m \in Mgr : Sound(cmd[m])

\* The owner of the venue row is the one command past its compare-and-set, and
\* the version is still the one it matched.
OneOwner ==
  /\ owner \in Mgr \cup {None}
  /\ \A m \in Mgr :
       /\ cmd[m].st \in Owning <=> owner = m
       /\ owner = m => cmd[m].ver = version

\* A gated request shares the venue row from before its checks to its end, and
\* a save has the row alone.
Sharing ==
  \A p \in Proc : pc[p] \in {"opened", "locked", "passed"} /\ Gated(req[p]) => p \in shares
Alone == owner # None => shares = {}

CInv == Shape /\ CmdShape /\ OneOwner /\ Sharing /\ Alone /\ GateVerdictHolds

-----------------------------------------------------------------------------
(* Requests beside the commands.                                           *)

\* A step of a request, or of what runs beside requests.
Requests == (\E p \in Proc : Ask(p) \/ Step(p)) \/ Aside

LEMMA RequestShape ==
  ASSUME Shape, Requests
  PROVE  Shape' /\ closed' = closed
<1>1. Next
  BY DEF Requests, Next
<1>2. Shape'
  BY <1>1, NextShape
<1> SUFFICES closed' = closed
  BY <1>2
<1>3. CASE \E p \in Proc : Ask(p)
  BY <1>3, AskServes DEF Serve
<1>4. CASE \E p \in Proc : Step(p)
  BY <1>4 DEF Step, Settle, PreCheck, PreCheckFails, ShareVenue, LockTable, Check, Refuse,
              WriteHold, WriteConfirm, WriteMoveTo, WriteCreate, WriteEdit, WriteWalkIn,
              HoldVanished, EditMissed, End
<1>5. CASE Aside
  BY <1>5 DEF Aside, ChangeStatus, ReleaseHold, HoldAges, ReadExpired, CleanupExpired, requests
<1> QED BY <1>3, <1>4, <1>5 DEF Requests

\* No request and no status change deletes a booking's row.
LEMMA RequestRows ==
  ASSUME Shape, Requests
  PROVE  RowsStay
<1> USE DEF Shape, RowsStay, Exists
<1>1. CASE \E p \in Proc : Ask(p)
  BY <1>1, AskServes DEF Serve
<1>2. ASSUME NEW p \in Proc, Step(p) PROVE RowsStay
  <2>1. CASE WriteConfirm(p) \/ WriteCreate(p) \/ WriteWalkIn(p)
    BY <2>1 DEF WriteConfirm, WriteCreate, WriteWalkIn, NewRow, Typed
  <2>2. CASE WriteMoveTo(p)
    BY <2>2 DEF WriteMoveTo, Typed, Row, NoRow
  <2>3. CASE WriteEdit(p)
    BY <2>3 DEF WriteEdit, Typed, Row, NoRow
  <2> QED BY <1>2, <2>1, <2>2, <2>3 DEF Step, Settle, PreCheck, PreCheckFails, ShareVenue,
         LockTable, Check, Refuse, WriteHold, HoldVanished, EditMissed
<1>3. CASE \E r \in Rsv, st \in Statuses : ChangeStatus(r, st)
  BY <1>3 DEF ChangeStatus, Typed, Statuses, Live, NotBooked, Row, NoRow
<1>4. CASE \E h \in Hold : ReleaseHold(h) \/ HoldAges(h) \/ ReadExpired(h)
  BY <1>4 DEF ReleaseHold, HoldAges, ReadExpired
<1>5. CASE CleanupExpired
  BY <1>5 DEF CleanupExpired
<1> QED BY <1>1, <1>2, <1>3, <1>4, <1>5 DEF Requests, Aside

\* A gated request takes its share before the table's lock and gives it back
\* with its end.
LEMMA RequestShares ==
  ASSUME Shape, Sharing, Requests
  PROVE  Sharing'
<1> USE DEF Shape, Sharing
<1>1. ASSUME NEW p \in Proc, Ask(p) PROVE Sharing'
  <2>1. PICK q \in Request : Serve(p, q)
    BY <1>1, AskServes
  <2> QED BY <2>1 DEF Serve, Gated, Typed
<1>2. ASSUME NEW p \in Proc, Step(p) PROVE Sharing'
  <2>1. CASE PreCheck(p) \/ ShareVenue(p) \/ LockTable(p)
    BY <2>1 DEF PreCheck, ShareVenue, LockTable, Typed
  <2>2. CASE Check(p)
    <3>1. req'[p].door = req[p].door
      BY <2>2, Begun DEF Check, Typed, Request
    <3> QED BY <2>2, <3>1 DEF Check, Gated, Typed
  <2>3. CASE End(p)
    BY <2>3 DEF End, Typed
  <2> QED BY <1>2, <2>1, <2>2, <2>3 DEF Step, Settle, PreCheckFails, Refuse, WriteHold,
         WriteConfirm, WriteMoveTo, WriteCreate, WriteEdit, WriteWalkIn, HoldVanished, EditMissed
<1>3. CASE Aside
  BY <1>3 DEF Aside, ChangeStatus, ReleaseHold, HoldAges, ReadExpired, CleanupExpired, requests
<1> QED BY <1>1, <1>2, <1>3 DEF Requests

\* The gate's verdict on a request depends on what it asks and on the closures.
LEMMA GateOf ==
  ASSUME NEW q \in Request, NEW x \in Request, SameSlot(x, q), closed' = closed, GateOpen(q)
  PROVE  GateOpen(x)'
BY DEF GateOpen, KeptThroughClosure, ChannelOf, SameSlot

LEMMA RequestVerdicts ==
  ASSUME Shape, Sharing, GateVerdictHolds, Requests
  PROVE  GateVerdictHolds'
<1> USE DEF Shape
<1>0. closed' = closed
  BY RequestShape
<1> SUFFICES ASSUME NEW x \in Proc, pc'[x] = "passed", Gated(req'[x])
             PROVE  GateOpen(req[x])'
  BY DEF GateVerdictHolds, Gated
<1>1. \/ pc[x] = "passed" /\ req'[x] = req[x]
      \/ Check(x)
  <2>1. ASSUME NEW p \in Proc, Ask(p) PROVE pc[x] = "passed" /\ req'[x] = req[x]
    <3>1. PICK q \in Request : Serve(p, q)
      BY <2>1, AskServes
    <3> QED BY <3>1 DEF Serve, Typed
  <2>2. ASSUME NEW p \in Proc, Step(p) PROVE (pc[x] = "passed" /\ req'[x] = req[x]) \/ Check(x)
    <3>1. CASE PreCheck(p) \/ ShareVenue(p) \/ LockTable(p) \/ Check(p)
      BY <3>1 DEF PreCheck, ShareVenue, LockTable, Check, Typed
    <3>2. CASE End(p)
      BY <3>2 DEF End, Typed
    <3> QED BY <2>2, <3>1, <3>2 DEF Step, Settle, PreCheckFails, Refuse, WriteHold,
           WriteConfirm, WriteMoveTo, WriteCreate, WriteEdit, WriteWalkIn, HoldVanished, EditMissed
  <2>3. CASE Aside
    BY <2>3 DEF Aside, ChangeStatus, ReleaseHold, HoldAges, ReadExpired, CleanupExpired, requests
  <2> QED BY <2>1, <2>2, <2>3 DEF Requests
<1>2. CASE pc[x] = "passed" /\ req'[x] = req[x]
  <2>1. req[x] \in Request /\ GateOpen(req[x])
    BY <1>2, Begun DEF GateVerdictHolds, Gated
  <2>2. PICK q \in Request : q = req[x] /\ q = req'[x]
    BY <1>2, <2>1
  <2>3. GateOpen(q)'
    BY <1>0, <2>1, <2>2, GateOf DEF SameSlot
  <2> QED BY <2>2, <2>3 DEF GateOpen, KeptThroughClosure, ChannelOf
<1>3. CASE Check(x)
  <2>1. req[x] \in Request
    BY <1>3, Begun DEF Check
  <2>2. PICK q \in Request, y \in Request : q = req[x] /\ y = req'[x] /\ SameSlot(y, q)
    BY <1>3, <2>1 DEF Check, Typed, Request, SameSlot, Replaces
  <2>3. GateOpen(q)
    BY <1>3, <2>2 DEF Check, Bookable, Gated, SameSlot
  <2>4. GateOpen(y)'
    BY <1>0, <2>2, <2>3, GateOf
  <2> QED BY <2>2, <2>4 DEF GateOpen, KeptThroughClosure, ChannelOf
<1> QED BY <1>1, <1>2, <1>3

\* A sound command stays sound while no row goes.
LEMMA StaysSound ==
  ASSUME NEW CONSTANT x, Sound(x), RowsStay
  PROVE  Sound(x)'
<1>1. x.st \in Planning => DOMAIN x.plan \subseteq Rsv
  BY DEF Sound, Plans
<1> QED BY <1>1 DEF Sound, RowsStay

\* A step that gives one command a sound record.
LEMMA CommandGoesOn ==
  ASSUME CInv, NEW m \in Mgr, NEW x \in Command_, RowsStay, Sound(x),
         cmd' = [cmd EXCEPT ![m] = x],
         version' \in Nat, outcome' \in [Closure -> [Rsv -> Decision \cup {"none"}]]
  PROVE  CmdShape'
<1>1. cmd \in [Mgr -> Command_] /\ \A k \in Mgr : Sound(cmd[k])
  BY DEF CInv, CmdShape
<1>2. ASSUME NEW k \in Mgr PROVE Sound(cmd[k])'
  <2>1. PICK y : y = cmd'[k]
    OBVIOUS
  <2>2. Sound(y)
    BY <1>1, <2>1
  <2>3. Sound(y)'
    BY <2>2, StaysSound
  <2> QED BY <2>1, <2>3 DEF Sound
<1>3. cmd' \in [Mgr -> Command_]
  BY <1>1
<1> QED BY <1>2, <1>3 DEF CmdShape

LEMMA BookKeeps ==
  ASSUME CInv, Book
  PROVE  CInv'
<1>1. Requests /\ ShareWaits /\ UNCHANGED closureVars
  BY DEF Book, Requests
<1>2. Shape' /\ Sharing' /\ GateVerdictHolds'
  BY <1>1, RequestShape, RequestShares, RequestVerdicts DEF CInv
<1>3. CmdShape'
  <2>1. RowsStay
    BY <1>1, RequestRows DEF CInv
  <2>2. ASSUME NEW m \in Mgr PROVE Sound(cmd[m])'
    <3>1. PICK x : x = cmd[m] /\ x = cmd'[m]
      BY <1>1 DEF closureVars
    <3> QED BY <2>1, <3>1, StaysSound DEF CInv, CmdShape, Sound
  <2> QED BY <1>1, <2>2 DEF CInv, CmdShape, closureVars
<1>4. OneOwner' /\ Alone'
  BY <1>1 DEF CInv, OneOwner, Alone, ShareWaits, closureVars
<1> QED BY <1>2, <1>3, <1>4 DEF CInv

-----------------------------------------------------------------------------
(* The commands beside the requests.                                       *)

\* What no command touches.
Elsewhere == UNCHANGED <<hold, shares, pc, req>>

\* A command leaves requests as they are, and changes closures only while no
\* gated request is at work.
LEMMA ElsewhereKeeps ==
  ASSUME CInv, Elsewhere, RowsStay, res' \in [Rsv -> Row \cup {NoRow}], DOMAIN tlock' = Table,
         closed' = closed \/ shares = {}
  PROVE  Shape' /\ Sharing' /\ GateVerdictHolds'
<1> USE DEF CInv, Shape, Elsewhere
<1>1. Typed'
  BY DEF Typed
<1>2. AllWellAsked'
  BY DEF AllWellAsked, WellAsked, RowsStay, Typed
<1>3. Sharing'
  BY DEF Sharing
<1>4. GateVerdictHolds'
  <2>1. CASE closed' = closed
    BY <2>1 DEF GateVerdictHolds, GateOpen, KeptThroughClosure
  <2>2. CASE shares = {}
    BY <2>2 DEF GateVerdictHolds, Sharing
  <2> QED BY <2>1, <2>2
<1> QED BY <1>1, <1>2, <1>3, <1>4

\* The bookings a plan is made for exist, and where they go is a window.
LEMMA PlanTyped ==
  ASSUME CInv, NEW m \in Mgr, MayPlan(m)
  PROVE  /\ Planned(m) \in Plans
         /\ DOMAIN Planned(m) = Affected(cmd[m].rule)
         /\ \A r \in DOMAIN Planned(m) : Booked(r)
<1> DEFINE c == cmd[m].rule
<1>1. DOMAIN Planned(m) = Affected(c) /\ Affected(c) \subseteq Rsv
      /\ \A r \in Affected(c) : Booked(r)
  BY DEF Planned, Affected
<1>2. ASSUME NEW r \in Affected(c) PROVE Planned(m)[r] \in Move
  <2>1. res[r] \in Row
    BY <1>1, ExistingRow DEF Booked, CInv, Shape
  <2>2. Planned(m)[r].target \in Window
    <3>1. CASE cmd[m].action # "move"
      BY <3>1, <2>1 DEF Planned, Row
    <3>2. CASE cmd[m].action = "move"
      <4>1. MoveTarget(c, res[r].win) # None /\ Planned(m)[r].target = MoveTarget(c, res[r].win)
        BY <1>1, <3>2 DEF MayPlan, Planned
      <4> QED BY <4>1 DEF MoveTarget
    <3> QED BY <3>1, <3>2
  <2>3. Planned(m)[r].from \in Time
    BY <2>1 DEF Planned, Row, Window
  <2> QED BY <2>2, <2>3 DEF Planned, Move
<1>3. Planned(m) = [r \in Affected(c) |-> Planned(m)[r]]
  BY DEF Planned
<1>4. Planned(m) \in [Affected(c) -> Move]
  BY <1>2, <1>3
<1> QED BY <1>1, <1>4 DEF Plans

\* The steps of a command that write nothing but the command and the locks.
LEMMA QuietKeeps ==
  ASSUME CInv, NEW m \in Mgr,
         \/ \E c \in Closure, a \in Decisions, named \in BOOLEAN : Decide(m, c, a, named)
         \/ TakeVenue(m) \/ Plan(m) \/ ReadRows(m) \/ LockMove(m)
  PROVE  CInv'
<1>0. Elsewhere /\ res' = res /\ closed' = closed /\ DOMAIN tlock' = Table
  BY DEF Decide, TakeVenue, Plan, ReadRows, LockMove, Elsewhere, vars, CInv, Shape, Typed
<1>1. Shape' /\ Sharing' /\ GateVerdictHolds' /\ RowsStay
  BY <1>0, ElsewhereKeeps DEF RowsStay, Exists, CInv, Shape, Typed
<1>2. PICK y \in Command_ : y = cmd[m] /\ Sound(y)
  BY DEF CInv, CmdShape
<1>3. version \in Nat /\ outcome \in [Closure -> [Rsv -> Decision \cup {"none"}]]
  BY DEF CInv, CmdShape
<1>4. cmd \in [Mgr -> Command_]
  BY DEF CInv, CmdShape
<1>5. CASE \E c \in Closure, a \in Decisions, named \in BOOLEAN : Decide(m, c, a, named)
  <2>1. PICK c \in Closure, a \in Decisions, named \in BOOLEAN : Decide(m, c, a, named)
    BY <1>5
  <2>2. PICK x : x = [NoCmd EXCEPT !.st = "decided", !.rule = c, !.action = a,
                        !.ver = version, !.named = named, !.seen = Affected(c)]
    OBVIOUS
  <2>3. x \in Command_ /\ x.st = "decided" /\ x.rule = c /\ x.action = a
    BY <1>3, <2>2, ClosureAssumption DEF NoCmd, Command_, Affected
  <2>4. /\ cmd' = [cmd EXCEPT ![m] = x] /\ y.st = "idle"
        /\ UNCHANGED <<vars, version, owner, outcome>>
    BY <1>2, <2>1, <2>2 DEF Decide
  <2>5. Sound(x)
    BY <2>3, ClosureAssumption DEF Sound, Planning
  <2>6. CmdShape'
    BY <1>1, <1>3, <2>3, <2>4, <2>5, CommandGoesOn
  <2>7. OneOwner' /\ Alone'
    BY <1>2, <1>4, <2>3, <2>4 DEF CInv, OneOwner, Alone, Owning, vars
  <2> QED BY <1>1, <2>6, <2>7 DEF CInv
<1>6. CASE TakeVenue(m)
  <2>1. PICK x : x = [y EXCEPT !.st = "owner"]
    OBVIOUS
  <2>2. /\ x \in Command_ /\ x.st = "owner" /\ x.ver = y.ver /\ x.rule = y.rule
        /\ x.action = y.action
    BY <2>1 DEF Command_, Owning
  <2>3. /\ cmd' = [cmd EXCEPT ![m] = x] /\ y.st = "decided"
        /\ owner = None /\ shares = {} /\ version = y.ver
        /\ owner' = m /\ UNCHANGED <<vars, version, outcome>>
    BY <1>2, <1>6, <2>1 DEF TakeVenue
  <2>4. Sound(x)
    BY <1>2, <2>2, <2>3 DEF Sound, Planning
  <2>5. CmdShape'
    BY <1>1, <1>3, <2>2, <2>3, <2>4, CommandGoesOn
  <2>6. OneOwner' /\ Alone'
    BY <1>2, <1>4, <2>2, <2>3, ClosureAssumption DEF CInv, OneOwner, Alone, Owning, vars
  <2> QED BY <1>1, <2>5, <2>6 DEF CInv
<1>7. CASE Plan(m)
  <2>1. Planned(m) \in Plans /\ DOMAIN Planned(m) = Affected(y.rule)
        /\ \A r \in DOMAIN Planned(m) : Exists(r)
    BY <1>2, <1>7, PlanTyped DEF Plan, Booked
  <2>2. y.named => DOMAIN Planned(m) = y.seen
    BY <1>2, <1>7, <2>1 DEF Plan, MayPlan, Agreed
  <2>3. PICK x : x = [y EXCEPT !.st = "planned", !.plan = Planned(m)]
    OBVIOUS
  <2>4. /\ x \in Command_ /\ x.st = "planned" /\ x.plan = Planned(m) /\ x.rule = y.rule
        /\ x.action = y.action /\ x.named = y.named /\ x.seen = y.seen /\ x.ver = y.ver
    BY <2>1, <2>3 DEF Command_, Owning
  <2>5. /\ cmd' = [cmd EXCEPT ![m] = x] /\ y.st = "owner"
        /\ UNCHANGED <<vars, version, owner, outcome>>
    BY <1>2, <1>4, <1>7, <2>3 DEF Plan
  <2>6. Sound(x)
    BY <1>2, <2>1, <2>2, <2>4, <2>5 DEF Sound
  <2>7. CmdShape'
    BY <1>1, <1>3, <2>4, <2>5, <2>6, CommandGoesOn
  <2>8. OneOwner' /\ Alone'
    BY <1>2, <1>4, <2>4, <2>5 DEF CInv, OneOwner, Alone, Owning, vars
  <2> QED BY <1>1, <2>7, <2>8 DEF CInv
<1>8. CASE ReadRows(m)
  <2>1. PICK rows : rows = [r \in DOMAIN y.plan |-> res[r].st]
    OBVIOUS
  <2>2. rows \in RowsRead
    <3>1. y.plan \in Plans
      BY <1>2, <1>8 DEF ReadRows, Sound, Planning
    <3>2. DOMAIN y.plan \in SUBSET Rsv
      BY <3>1 DEF Plans
    <3>3. \A r \in Rsv : res[r].st \in Statuses \cup {"absent"}
      BY DEF CInv, Shape, Typed, Row, NoRow
    <3> QED BY <2>1, <3>2, <3>3 DEF RowsRead
  <2>3. PICK x : x = [y EXCEPT !.st = "applying", !.rows = rows]
    OBVIOUS
  <2>4. /\ x \in Command_ /\ x.st = "applying" /\ x.plan = y.plan /\ x.rule = y.rule
        /\ x.action = y.action /\ x.named = y.named /\ x.seen = y.seen /\ x.ver = y.ver
    BY <2>2, <2>3 DEF Command_, Owning
  <2>5. /\ cmd' = [cmd EXCEPT ![m] = x] /\ y.st = "planned"
        /\ UNCHANGED <<vars, version, owner, outcome>>
    BY <1>2, <1>4, <1>8, <2>1, <2>3 DEF ReadRows
  <2>6. Sound(x)
    BY <1>2, <2>4, <2>5 DEF Sound, Planning
  <2>7. CmdShape'
    BY <1>1, <1>3, <2>4, <2>5, <2>6, CommandGoesOn
  <2>8. OneOwner' /\ Alone'
    BY <1>2, <1>4, <2>4, <2>5 DEF CInv, OneOwner, Alone, Owning, vars
  <2> QED BY <1>1, <2>7, <2>8 DEF CInv
<1>9. CASE LockMove(m)
  <2>1. UNCHANGED closureVars /\ shares' = shares /\ res' = res
    BY <1>9 DEF LockMove
  <2> QED BY <1>1, <2>1 DEF CInv, CmdShape, OneOwner, Alone, closureVars, Sound, Exists
<1> QED BY <1>5, <1>6, <1>7, <1>8, <1>9

\* The end of a command, with what it saves, if it owns the venue row.
LEMMA EndKeeps ==
  ASSUME CInv, NEW m \in Mgr, Finish(m), RowsStay, res' \in [Rsv -> Row \cup {NoRow}],
         version' \in Nat, outcome' \in [Closure -> [Rsv -> Decision \cup {"none"}]],
         owner = m \/ UNCHANGED <<closed, version>>
  PROVE  CInv'
<1>1. owner = m => shares = {}
  BY ClosureAssumption DEF CInv, Alone
<1>2. Elsewhere /\ DOMAIN tlock' = Table
  BY DEF Finish, Elsewhere
<1>3. Shape' /\ Sharing' /\ GateVerdictHolds'
  BY <1>1, <1>2, ElsewhereKeeps
<1>4. NoCmd \in Command_ /\ Sound(NoCmd) /\ NoCmd.st = "idle"
  BY DEF NoCmd, Command_, Sound, Planning
<1>5. cmd' = [cmd EXCEPT ![m] = NoCmd] /\ owner' = (IF owner = m THEN None ELSE owner)
      /\ shares' = shares
  BY DEF Finish
<1>6. CmdShape'
  BY <1>4, <1>5, CommandGoesOn
<1>7. cmd \in [Mgr -> Command_]
  BY DEF CInv, CmdShape
<1>8. OneOwner' /\ Alone'
  BY <1>4, <1>5, <1>7, ClosureAssumption DEF CInv, OneOwner, Alone, Owning
<1> QED BY <1>3, <1>6, <1>8 DEF CInv

\* What a save writes are rows, and it deletes none.
LEMMA AppliedTyped ==
  ASSUME CInv, NEW m \in Mgr, cmd[m].st = "applying"
  PROVE  /\ Applied(m) \in [Rsv -> Row \cup {NoRow}]
         /\ \A r \in Rsv : Exists(r) => Applied(m)[r].st # "absent"
<1>1. PICK y \in Command_ : y = cmd[m] /\ Sound(y)
  BY DEF CInv, CmdShape
<1>2. y.plan \in Plans /\ \A r \in DOMAIN y.plan : Exists(r)
  BY <1>1 DEF Sound, Planning
<1>3. DOMAIN y.plan \subseteq Rsv /\ \A r \in DOMAIN y.plan : y.plan[r].target \in Window
  BY <1>2 DEF Plans, Move
<1>4. ASSUME NEW r \in Rsv
      PROVE  /\ Applied(m)[r] \in Row \cup {NoRow}
             /\ Exists(r) => Applied(m)[r].st # "absent"
  <2>1. CASE r \notin DOMAIN y.plan
    BY <1>1, <2>1 DEF Applied, Exists, CInv, Shape, Typed
  <2>2. CASE r \in DOMAIN y.plan
    <3>1. res[r] \in Row /\ Exists(r)
      BY <1>2, <2>2, ExistingRow DEF CInv, Shape
    <3>2. [res[r] EXCEPT !.st = "CANCELLED"] \in Row
      BY <3>1 DEF Row, Statuses, Live, NotBooked
    <3>3. [res[r] EXCEPT !.win = y.plan[r].target] \in Row
      BY <1>3, <2>2, <3>1 DEF Row
    <3>4. Applied(m)[r] \in {res[r], [res[r] EXCEPT !.st = "CANCELLED"],
                             [res[r] EXCEPT !.win = y.plan[r].target]}
      BY <1>1, <2>2 DEF Applied
    <3> QED BY <3>1, <3>2, <3>3, <3>4 DEF Row, Statuses, Live, NotBooked
  <2> QED BY <2>1, <2>2
<1>5. Applied(m) = [r \in Rsv |-> Applied(m)[r]]
  BY DEF Applied
<1> QED BY <1>4, <1>5

\* What the outcomes of a save say.
LEMMA Outcomes ==
  ASSUME CInv, NEW m \in Mgr, Save(m)
  PROVE  /\ outcome' \in [Closure -> [Rsv -> Decision \cup {"none"}]]
         /\ \A c \in Closure : c # cmd[m].rule => outcome'[c] = outcome[c]
         /\ {r \in Rsv : outcome'[cmd[m].rule][r] # "none"} = DOMAIN cmd[m].plan
<1>1. PICK y \in Command_ : y = cmd[m] /\ Sound(y)
  BY DEF CInv, CmdShape
<1>2. y.st = "applying"
  BY <1>1 DEF Save
<1>3. y.rule \in Closure /\ y.action \in Decision /\ y.plan \in Plans
  BY <1>1, <1>2 DEF Sound, Planning
<1>4. DOMAIN y.plan \subseteq Rsv
  BY <1>3 DEF Plans
<1>5. PICK o : o = [r \in Rsv |-> IF r \in DOMAIN y.plan THEN y.action ELSE "none"]
  OBVIOUS
<1>6. outcome' = [outcome EXCEPT ![y.rule] = o]
  BY <1>1, <1>5 DEF Save
<1>7. o \in [Rsv -> Decision \cup {"none"}] /\ {r \in Rsv : o[r] # "none"} = DOMAIN y.plan
  BY <1>3, <1>4, <1>5 DEF Decision
<1> QED BY <1>1, <1>3, <1>6, <1>7 DEF CInv, CmdShape

LEMMA SaveKeepsShape ==
  ASSUME CInv, NEW m \in Mgr, Save(m)
  PROVE  CInv'
<1>1. cmd[m].st = "applying" /\ res' = Applied(m) /\ version' = version + 1 /\ Finish(m)
  BY DEF Save
<1>2. owner = m
  BY <1>1 DEF CInv, OneOwner, Owning
<1>3. res' \in [Rsv -> Row \cup {NoRow}] /\ RowsStay
  BY <1>1, AppliedTyped DEF RowsStay, Exists
<1>4. version' \in Nat /\ outcome' \in [Closure -> [Rsv -> Decision \cup {"none"}]]
  BY <1>1, Outcomes DEF CInv, CmdShape
<1> QED BY <1>1, <1>2, <1>3, <1>4, EndKeeps

LEMMA ReopenKeeps ==
  ASSUME CInv, NEW m \in Mgr, NEW c \in Closure, Reopen(m, c)
  PROVE  CInv'
<1>1. /\ owner = None /\ shares = {} /\ version' = version + 1
      /\ UNCHANGED <<tables, tlock, owner, cmd, outcome>>
  BY DEF Reopen
<1>2. Elsewhere /\ RowsStay /\ res' \in [Rsv -> Row \cup {NoRow}] /\ DOMAIN tlock' = Table
  BY <1>1 DEF tables, Elsewhere, RowsStay, Exists, CInv, Shape, Typed
<1>3. Shape' /\ Sharing' /\ GateVerdictHolds'
  BY <1>1, <1>2, ElsewhereKeeps
<1>4. CmdShape'
  BY <1>1 DEF tables, CInv, CmdShape, Sound, Exists
<1>5. OneOwner' /\ Alone'
  BY <1>1, ClosureAssumption DEF tables, CInv, OneOwner, Alone
<1> QED BY <1>3, <1>4, <1>5 DEF CInv

LEMMA InitCInv == InitClosures => CInv
<1> SUFFICES ASSUME InitClosures PROVE CInv
  OBVIOUS
<1>1. Shape /\ pc = [p \in Proc |-> "idle"]
  BY InitShape DEF InitClosures, Init
<1>2. CmdShape
  BY DEF InitClosures, CmdShape, NoCmd, Command_, Sound, Planning, NoOutcome
<1>3. OneOwner
  BY ClosureAssumption DEF InitClosures, OneOwner, NoCmd, Owning
<1>4. Sharing /\ Alone /\ GateVerdictHolds
  BY <1>1 DEF InitClosures, Sharing, Alone, GateVerdictHolds
<1> QED BY <1>1, <1>2, <1>3, <1>4 DEF CInv

LEMMA NextCInv == CInv /\ [NextClosures]_allVars => CInv'
<1> SUFFICES ASSUME CInv, [NextClosures]_allVars PROVE CInv'
  OBVIOUS
<1>1. CASE Book
  BY <1>1, BookKeeps
<1>2. ASSUME NEW m \in Mgr,
             (\E c \in Closure, action \in Decisions, named \in BOOLEAN :
                Decide(m, c, action, named))
             \/ Command(m) \/ \E c \in Closure : Reopen(m, c)
      PROVE  CInv'
  <2>1. CASE StaleVersion(m) \/ PlanRefused(m) \/ ApplyRefused(m)
    <3>1. Finish(m) /\ UNCHANGED <<res, closed, version, outcome>>
      BY <2>1 DEF StaleVersion, PlanRefused, ApplyRefused, Refused
    <3> QED BY <3>1, EndKeeps DEF CInv, CmdShape, Shape, Typed, RowsStay, Exists
  <2>2. CASE Save(m)
    BY <2>2, SaveKeepsShape
  <2>3. CASE \E c \in Closure : Reopen(m, c)
    BY <2>3, ReopenKeeps
  <2> QED BY <1>2, <2>1, <2>2, <2>3, QuietKeeps DEF Command
<1>3. CASE AllIdle \/ UNCHANGED allVars
  <2>1. UNCHANGED allVars
    BY <1>3 DEF AllIdle
  <2>2. Elsewhere /\ res' = res /\ closed' = closed /\ tlock' = tlock /\ UNCHANGED closureVars
    BY <2>1 DEF allVars, vars, Elsewhere
  <2>3. Shape' /\ Sharing' /\ GateVerdictHolds'
    BY <2>2, ElsewhereKeeps DEF RowsStay, Exists, CInv, Shape, Typed
  <2> QED BY <2>2, <2>3 DEF CInv, CmdShape, OneOwner, Alone, closureVars, Sound, Exists, Elsewhere
<1> QED BY <1>1, <1>2, <1>3 DEF NextClosures

LEMMA AlwaysCInv == SpecClosures => []CInv
BY InitCInv, NextCInv, PTL DEF SpecClosures

\* The gate's verdict on a booking is that of the closures in force when the
\* booking is written: a save waits for the shares of the venue row, and takes it
\* from requests to come (book-slot.ts).
THEOREM GateVerdictsHold == SpecClosures => []GateVerdictHolds
BY AlwaysCInv, PTL DEF CInv

\* No save and no reopening overwrites a configuration it did not read
\* (closure-command.ts).
THEOREM NoSaveIsLost == SpecClosures => NoLostSave
<1> DEFINE Saved == closed' # closed => /\ owner' = None /\ version' = version + 1
                                        /\ \A m \in Mgr : owner = m => cmd[m].ver = version
<1>1. CInv /\ [NextClosures]_allVars => [Saved]_allVars
  <2> SUFFICES ASSUME CInv, NextClosures, closed' # closed PROVE Saved
    OBVIOUS
  <2>1. \A m \in Mgr : owner = m => cmd[m].ver = version
    BY DEF CInv, OneOwner
  <2>2. CASE Book
    BY <2>2, RequestShape DEF Book, Requests, CInv
  <2>3. ASSUME NEW m \in Mgr, Save(m) PROVE Saved
    <3>1. owner = m
      BY <2>3 DEF Save, CInv, OneOwner, Owning
    <3> QED BY <2>1, <2>3, <3>1 DEF Save, Finish
  <2>4. ASSUME NEW m \in Mgr, NEW c \in Closure, Reopen(m, c) PROVE Saved
    BY <2>1, <2>4 DEF Reopen
  <2> QED BY <2>2, <2>3, <2>4 DEF NextClosures, Command, AllIdle, allVars, vars, Decide, TakeVenue,
         StaleVersion, Plan, PlanRefused, ReadRows, LockMove, ApplyRefused, Refused
<1> QED BY <1>1, AlwaysCInv, PTL DEF SpecClosures, NoLostSave

\* A decision that named its bookings is applied to those and to no other
\* (closure-command-plan.ts).
THEOREM OnlyTheSeenTouched == SpecClosures => OnlyTheSeen
<1> DEFINE Kept == \A m \in Mgr, c \in Closure :
                     owner = m /\ cmd[m].named /\ outcome'[c] # outcome[c] =>
                       {r \in Rsv : outcome'[c][r] # "none"} = cmd[m].seen
<1>1. CInv /\ [NextClosures]_allVars => [Kept]_allVars
  <2> SUFFICES ASSUME CInv, NextClosures PROVE Kept
    OBVIOUS
  <2>1. ASSUME NEW m \in Mgr, Save(m) PROVE Kept
    <3>1. PICK y \in Command_ : y = cmd[m] /\ Sound(y) /\ y.st = "applying"
      BY <2>1 DEF Save, CInv, CmdShape
    <3>2. owner = m
      BY <3>1 DEF CInv, OneOwner, Owning
    <3>3. y.named => DOMAIN y.plan = y.seen
      BY <3>1 DEF Sound, Planning
    <3> QED BY <2>1, <3>1, <3>2, <3>3, Outcomes
  <2>2. CASE outcome' = outcome
    BY <2>2
  <2> QED BY <2>1, <2>2 DEF NextClosures, Book, closureVars, Command, AllIdle, allVars, Decide,
         TakeVenue, StaleVersion, Plan, PlanRefused, ReadRows, LockMove, ApplyRefused, Refused,
         Reopen
<1> QED BY <1>1, AlwaysCInv, PTL DEF SpecClosures, OnlyTheSeen

-----------------------------------------------------------------------------
(* The moves of closures and the slots of others. A move holds the lock of *)
(* the table it moves on, so no request is past its re-check there.        *)

\* Every window asked for ends after it starts, and an edit that moves a booking
\* names both.
ProperWindows ==
  /\ \A w \in Slot : w.from < w.to
  /\ "edit" \in Doors =>
       \A patch \in Patch : MovesSlot(patch) =>
         patch.from # None /\ patch.to # None /\ patch.from < patch.to

\* So does every window that is booked or about to be.
Proper(w) == w.from < w.to
ProperRows == \A r \in Rsv : Exists(r) => Proper(res[r].win)
ProperAsks == \A p \in Proc : pc[p] # "idle" /\ req[p].door # "edit" => req[p].win \in Slot
ProperPlans ==
  \A m \in Mgr : cmd[m].st \in Planning =>
    \A r \in DOMAIN cmd[m].plan : Proper(cmd[m].plan[r].target)
AllProper == ProperRows /\ ProperAsks /\ ProperPlans

SafeInv == CInv /\ IInv /\ AllProper

LEMMA AsksProper ==
  ASSUME Shape, ProperAsks, NEW p \in Proc, Ask(p)
  PROVE  ProperAsks'
<1> USE DEF Shape
<1>1. \E q : Serve(p, q) /\ (q.door # "edit" => q.win \in Slot)
  <2>1. CASE \E s \in Session, t \in Table, w \in Slot : AskHold(p, s, t, w)
    BY <2>1 DEF AskHold, Asking
  <2>2. CASE \E h \in Hold : AskConfirm(p, h)
    BY <2>2, LiveHold DEF AskConfirm, Asking, HoldRow
  <2>3. CASE \E r \in Rsv, h \in Hold : AskMoveTo(p, r, h)
    BY <2>3, LiveHold DEF AskMoveTo, Asking, HoldRow
  <2>4. CASE \E t \in Table, w \in Slot : AskCreate(p, t, w)
    BY <2>4 DEF AskCreate, Asking
  <2>5. CASE \E r \in Rsv, patch \in Patch : AskEdit(p, r, patch)
    BY <2>5 DEF AskEdit, Editing
  <2>6. CASE \E t \in Table, w \in Slot : AskWalkIn(p, t, w)
    BY <2>6 DEF AskWalkIn, Asking
  <2> QED BY <2>1, <2>2, <2>3, <2>4, <2>5, <2>6 DEF Ask
<1>2. PICK q : Serve(p, q) /\ (q.door # "edit" => q.win \in Slot)
  BY <1>1
<1> QED BY <1>2 DEF ProperAsks, Serve, Typed

LEMMA StepsProper ==
  ASSUME ProperWindows, Shape, DoorOpen, ProperRows, ProperAsks,
         NEW p \in Proc, Step(p)
  PROVE  ProperRows' /\ ProperAsks'
<1> USE DEF Shape
<1>1. CASE PreCheck(p) \/ ShareVenue(p) \/ LockTable(p)
  BY <1>1 DEF PreCheck, ShareVenue, LockTable, ProperRows, ProperAsks, Typed, Exists
<1>2. CASE Check(p)
  <2>1. req'[p].door = req[p].door /\ req'[p].win = req[p].win
    BY <1>2, Begun DEF Check, Typed, Request
  <2> QED BY <1>2, <2>1 DEF Check, ProperRows, ProperAsks, Typed, Exists
<1>3. CASE End(p)
  <2>1. ProperAsks'
    BY <1>3 DEF End, ProperAsks, Typed
  <2>2. ProperRows'
    <3>1. CASE res' = res
      BY <3>1 DEF ProperRows, Exists
    <3>2. CASE WriteConfirm(p) \/ WriteCreate(p) \/ WriteWalkIn(p)
      <4>1. Proper(req[p].win)
        BY <3>2 DEF WriteConfirm, WriteCreate, WriteWalkIn, ProperAsks, ProperWindows, Proper
      <4> QED BY <3>2, <4>1 DEF WriteConfirm, WriteCreate, WriteWalkIn, NewRow, ProperRows,
                                Exists, Typed
    <3>3. CASE WriteMoveTo(p)
      <4>1. Proper(req[p].win)
        BY <3>3 DEF WriteMoveTo, ProperAsks, ProperWindows, Proper
      <4>2. req[p].rsv \in Rsv /\ Exists(req[p].rsv)
        BY <3>3, Begun DEF WriteMoveTo, WellAsked
      <4>3. \A r \in Rsv : res'[r].win = IF r = req[p].rsv THEN req[p].win ELSE res[r].win
        BY <3>3, <4>2, ExistingRow DEF WriteMoveTo, Typed, Row
      <4>4. \A r \in Rsv : Exists(r)' => Exists(r)
        BY <3>3, <4>2 DEF WriteMoveTo, Exists, Typed
      <4> QED BY <4>1, <4>3, <4>4 DEF ProperRows
    <3>4. CASE WriteEdit(p)
      <4>1. req[p].rsv \in Rsv /\ req[p].patch \in Patch /\ req[p].seen \in Seen
            /\ req[p].door = "edit" /\ "edit" \in Doors
        BY <3>4, Begun DEF WriteEdit, WellAsked, DoorOpen
      <4>2. Exists(req[p].rsv)
        BY <3>4, <4>1 DEF WriteEdit, Unchanged, Seen, Exists, Statuses, Live, NotBooked
      <4>3. PICK old, new : old = res[req[p].rsv] /\ new = PatchedWin(req[p].patch, old.win)
        OBVIOUS
      <4>4. old \in Row /\ Proper(old.win)
        BY <4>1, <4>2, <4>3, ExistingRow DEF ProperRows
      <4>5. Proper(new)
        <5>1. CASE MovesSlot(req[p].patch)
          BY <4>1, <4>3, <5>1 DEF ProperWindows, PatchedWin, Named, Proper
        <5>2. CASE ~MovesSlot(req[p].patch)
          BY <4>3, <4>4, <5>2 DEF MovesSlot, PatchedWin, Named, Proper
        <5> QED BY <5>1, <5>2
      <4>6. \A r \in Rsv : res'[r].win = IF r = req[p].rsv THEN new ELSE res[r].win
        BY <3>4, <4>1, <4>3, <4>4 DEF WriteEdit, Typed, Row
      <4>7. \A r \in Rsv : Exists(r)' => Exists(r)
        BY <3>4, <4>1, <4>2 DEF WriteEdit, Exists, Typed
      <4> QED BY <4>5, <4>6, <4>7 DEF ProperRows
    <3> QED BY <1>3, Step(p), <3>1, <3>2, <3>3, <3>4 DEF Step, Settle, PreCheck, PreCheckFails,
           ShareVenue, LockTable, Check, Refuse, WriteHold, HoldVanished, EditMissed
  <2> QED BY <2>1, <2>2
<1> QED BY <1>1, <1>2, <1>3 DEF Step, Settle, PreCheckFails, Refuse, WriteHold, WriteConfirm,
       WriteMoveTo, WriteCreate, WriteEdit, WriteWalkIn, HoldVanished, EditMissed

LEMMA RequestsProper ==
  ASSUME ProperWindows, Shape, DoorOpen, ProperRows, ProperAsks, Requests
  PROVE  ProperRows' /\ ProperAsks'
<1>1. ASSUME NEW p \in Proc, Ask(p) PROVE ProperRows' /\ ProperAsks'
  <2>1. res' = res
    BY <1>1, AskServes DEF Serve
  <2> QED BY <1>1, <2>1, AsksProper DEF ProperRows, Exists
<1>2. CASE Aside
  <2>1. UNCHANGED <<pc, req>>
    BY <1>2 DEF Aside, ChangeStatus, ReleaseHold, HoldAges, ReadExpired, CleanupExpired, requests
  <2>2. \A r \in Rsv : (Exists(r)' => Exists(r)) /\ res'[r].win = res[r].win
    <3>1. CASE \E r \in Rsv, st \in Statuses : ChangeStatus(r, st)
      <4>1. PICK r \in Rsv, st \in Statuses : ChangeStatus(r, st)
        BY <3>1
      <4>2. Exists(r) /\ res[r] \in Row
        BY <4>1, ExistingRow DEF ChangeStatus, Transitions, Exists, Shape
      <4> QED BY <4>1, <4>2 DEF ChangeStatus, Exists, Shape, Typed, Row
    <3>2. CASE res' = res
      BY <3>2 DEF Exists
    <3> QED BY <1>2, <3>1, <3>2 DEF Aside, ReleaseHold, HoldAges, ReadExpired, CleanupExpired
  <2> QED BY <2>1, <2>2 DEF ProperRows, ProperAsks
<1> QED BY <1>1, <1>2, StepsProper DEF Requests

\* A command leaves the table locks of requests to them.
TheirLocks == \A t \in Table : tlock[t] \in Proc => tlock'[t] = tlock[t]

LEMMA CommandLocks ==
  ASSUME CInv, Locks, Elsewhere, TheirLocks
  PROVE  LockHeld' /\ DoorOpen'
<1>1. ASSUME NEW p \in Proc, pc[p] \in {"locked", "passed"} PROVE tlock'[req[p].table] = p
  <2>1. req[p].table \in Table /\ tlock[req[p].table] = p
    BY <1>1, Begun DEF CInv, Locks, LockHeld, Request
  <2> QED BY <2>1 DEF TheirLocks
<1> QED BY <1>1 DEF Elsewhere, LockHeld, Locks, DoorOpen

\* A command that claims no slot.
LEMMA ClaimsNothing ==
  ASSUME CInv, IInv, ProperRows, ProperAsks, Elsewhere, TheirLocks, Fewer,
         \A r \in Rsv : (Exists(r)' => Exists(r)) /\ res'[r].win = res[r].win
  PROVE  Locks' /\ VerdictHolds' /\ Guards' /\ ProperRows' /\ ProperAsks'
<1>1. LockHeld' /\ DoorOpen'
  BY CommandLocks DEF IInv
<1>2. VerdictHolds' /\ DropsMine'
  BY VerdictsStay DEF IInv, Locks, Elsewhere
<1>3. Guards'
  BY FewerGuards DEF IInv
<1> QED BY <1>1, <1>2, <1>3 DEF Locks, ProperRows, ProperAsks, Elsewhere

\* The moves of one save land beside each other, beside every other booking and
\* beside every hold.
LEMMA MovesLand ==
  ASSUME SafeInv, NEW m \in Mgr, Save(m), cmd[m].action = "move"
  PROVE  Locks' /\ VerdictHolds' /\ Guards' /\ ProperRows' /\ ProperAsks'
<1>1. PICK y \in Command_ : y = cmd[m] /\ Sound(y) /\ y.st = "applying"
  BY DEF Save, SafeInv, CInv, CmdShape
<1>2. /\ y.plan \in Plans /\ \A r \in DOMAIN y.plan : Exists(r)
      /\ \A r \in DOMAIN y.plan : Proper(y.plan[r].target)
  BY <1>1 DEF Sound, Planning, SafeInv, AllProper, ProperPlans
<1>3. DOMAIN y.plan \subseteq Rsv /\ \A r \in DOMAIN y.plan : y.plan[r] \in Move
  BY <1>2 DEF Plans
<1> DEFINE M == DOMAIN y.plan
<1>4. /\ Moves(m) = M /\ Elsewhere
      /\ \A r \in M : /\ tlock[res[r].table] = m
                      /\ res[r].win.from = y.plan[r].from
                      /\ TargetFree(m, r)
  BY <1>1 DEF Save, Moves, Unlocked, Applies, SameRow, Finish, Elsewhere
<1>5. \A r \in Rsv : /\ res'[r].st = res[r].st /\ res'[r].table = res[r].table
                     /\ res'[r].walkIn = res[r].walkIn
                     /\ res'[r].win = IF r \in M THEN y.plan[r].target ELSE res[r].win
  <2> SUFFICES ASSUME NEW r \in Rsv
               PROVE  /\ res'[r].st = res[r].st /\ res'[r].table = res[r].table
                      /\ res'[r].walkIn = res[r].walkIn
                      /\ res'[r].win = IF r \in M THEN y.plan[r].target ELSE res[r].win
    OBVIOUS
  <2>1. res'[r] = Applied(m)[r]
    BY DEF Save
  <2>2. CASE r \in M
    <3>1. res[r] \in Row
      BY <1>2, <2>2, ExistingRow DEF SafeInv, CInv, Shape
    <3> QED BY <1>1, <2>1, <2>2, <3>1 DEF Applied, Row
  <2>3. CASE r \notin M
    BY <1>1, <2>1, <2>3 DEF Applied
  <2> QED BY <2>2, <2>3
<1>6. \A r \in Rsv : (Booked(r)' <=> Booked(r)) /\ (Exists(r)' <=> Exists(r))
  BY <1>5 DEF Booked, Exists
<1>7. ProperRows' /\ ProperAsks'
  <2>1. \A r \in Rsv : Exists(r)' => Proper(res'[r].win)
    BY <1>2, <1>5, <1>6 DEF SafeInv, AllProper, ProperRows
  <2> QED BY <1>4, <2>1 DEF ProperRows, SafeInv, AllProper, ProperAsks, Elsewhere
<1>8. ASSUME NEW r \in M, NEW x \in Rsv \ {r}, Booked(x), Booked(r), res[x].table = res[r].table
      PROVE  ~Overlaps(res'[x].win, res'[r].win)
  <2>1. ~Overlaps(WindowFor(m, r, x), y.plan[r].target)
    BY <1>1, <1>4, <1>8 DEF TargetFree
  <2>2. CASE x \notin M
    BY <1>3, <1>4, <1>5, <2>1, <2>2 DEF WindowFor
  <2>3. CASE x \in M
    <3>1. CASE y.plan[x].from < y.plan[r].from
      BY <1>1, <1>3, <1>4, <1>5, <2>1, <2>3, <3>1 DEF WindowFor
    <3>2. CASE y.plan[r].from < y.plan[x].from
      <4>1. ~Overlaps(WindowFor(m, x, r), y.plan[x].target)
        BY <1>1, <1>3, <1>4, <1>8, <2>3 DEF TargetFree
      <4>2. WindowFor(m, x, r) = y.plan[r].target
        BY <1>1, <1>4, <3>2 DEF WindowFor
      <4> QED BY <1>3, <1>5, <2>3, <4>1, <4>2 DEF Overlaps
    <3>3. CASE y.plan[x].from = y.plan[r].from
      <4>1. res[x] \in Row /\ res[r] \in Row
        BY <1>2, <1>3, <2>3, ExistingRow DEF SafeInv, CInv, Shape
      <4>2. Proper(res[x].win) /\ Proper(res[r].win) /\ res[x].win.from = res[r].win.from
        BY <1>2, <1>3, <1>4, <2>3, <3>3 DEF SafeInv, AllProper, ProperRows
      <4>3. Overlaps(res[x].win, res[r].win)
        BY <4>1, <4>2, SlotAssumption DEF Row, Window, Proper, Overlaps
      <4>4. ~Overlaps(res[x].win, res[r].win)
        BY <1>3, <1>8, <4>1 DEF SafeInv, IInv, Guards, NoDoubleBooking, On
      <4> QED BY <4>3, <4>4
    <3>4. y.plan[x].from \in Int /\ y.plan[r].from \in Int
      BY <1>3, <2>3, SlotAssumption DEF Move
    <3> QED BY <3>1, <3>2, <3>3, <3>4
  <2> QED BY <2>2, <2>3
<1>9. NoDoubleBooking'
  <2> SUFFICES ASSUME NEW r1 \in Rsv, NEW r2 \in Rsv, r1 # r2, Booked(r1), Booked(r2),
                      res[r2].table = res[r1].table
               PROVE  ~Overlaps(res'[r2].win, res'[r1].win)
    BY <1>5, <1>6 DEF NoDoubleBooking, On
  <2>1. CASE r1 \in M
    BY <1>8, <2>1
  <2>2. CASE r2 \in M
    BY <1>8, <2>2 DEF Overlaps
  <2>3. CASE r1 \notin M /\ r2 \notin M
    BY <1>5, <2>3 DEF SafeInv, IInv, Guards, NoDoubleBooking, On
  <2> QED BY <2>1, <2>2, <2>3
<1>10. HoldsGuardSlot'
  <2>1. hold' = hold
    BY <1>4 DEF Elsewhere
  <2> SUFFICES ASSUME NEW h \in Hold, Active(h), NEW r \in Rsv, Booked(r),
                      res[r].table = hold[h].table, Overlaps(res'[r].win, hold[h].win)
               PROVE  res[r].walkIn
    BY <1>5, <1>6, <2>1 DEF HoldsGuardSlot, SafeInv, IInv, Guards, HeldOn, Active, IsLive, On
  <2>2. CASE r \in M
    BY <1>1, <1>4, <1>5, <2>2 DEF TargetFree, HeldOn, Overlaps
  <2>3. CASE r \notin M
    BY <1>5, <2>3 DEF SafeInv, IInv, Guards, HoldsGuardSlot, On
  <2> QED BY <2>2, <2>3
<1>11. VerdictHolds'
  <2> SUFFICES ASSUME NEW p \in Proc, pc[p] = "passed"
               PROVE  Verdict(req[p])'
    BY <1>4 DEF Elsewhere, VerdictHolds, Verdict
  <2>1. Verdict(req[p]) /\ tlock[req[p].table] = p
    BY DEF SafeInv, IInv, VerdictHolds, Verdict, Locks, LockHeld
  <2>2. \A r \in M : res[r].table # req[p].table
    BY <1>4, <2>1, ClosureAssumption
  <2>3. TableFree(req[p])'
    BY <1>4, <1>5, <1>6, <2>1, <2>2 DEF Verdict, TableFree, On, Elsewhere
  <2>4. ChecksHolds(req[p])' => HoldsClear(req[p])'
    BY <1>4, <2>1 DEF Verdict, ChecksHolds, HoldsClear, HeldOn, Active, IsLive, Elsewhere
  <2> QED BY <2>3, <2>4 DEF Verdict
<1>12. DropsMine'
  BY <1>4 DEF SafeInv, IInv, Locks, DropsMine, Elsewhere, IsLive
<1>13. LockHeld' /\ DoorOpen'
  <2>1. TheirLocks
    BY ClosureAssumption DEF Save, Finish, TheirLocks
  <2> QED BY <1>4, <2>1, CommandLocks DEF SafeInv, IInv
<1> QED BY <1>7, <1>9, <1>10, <1>11, <1>12, <1>13 DEF Guards, Locks

LEMMA SaveLands ==
  ASSUME SafeInv, NEW m \in Mgr, Save(m)
  PROVE  Locks' /\ VerdictHolds' /\ Guards' /\ ProperRows' /\ ProperAsks'
<1>1. PICK y \in Command_ : y = cmd[m] /\ Sound(y) /\ y.st = "applying"
  BY DEF Save, SafeInv, CInv, CmdShape
<1>2. y.action \in Decision /\ \A r \in DOMAIN y.plan : Exists(r)
  BY <1>1 DEF Sound, Planning
<1>3. CASE y.action = "move"
  BY <1>1, <1>3, MovesLand
<1>4. CASE y.action # "move"
  <2>1. \A r \in Rsv : res'[r] = res[r] \/ (r \in DOMAIN y.plan
                                              /\ res'[r] = [res[r] EXCEPT !.st = "CANCELLED"])
    BY <1>1, <1>4 DEF Save, Applied
  <2>2. \A r \in Rsv : /\ Booked(r)' => res'[r] = res[r]
                       /\ (Exists(r)' => Exists(r)) /\ res'[r].win = res[r].win
    <3> SUFFICES ASSUME NEW r \in Rsv, res'[r] # res[r]
                 PROVE  ~Booked(r)' /\ Exists(r) /\ res'[r].win = res[r].win
      BY DEF Exists
    <3>1. res[r] \in Row /\ Exists(r) /\ res'[r] = [res[r] EXCEPT !.st = "CANCELLED"]
      BY <1>2, <2>1, ExistingRow DEF SafeInv, CInv, Shape
    <3> QED BY <3>1 DEF Row, Booked, NotBooked
  <2>3. Elsewhere /\ TheirLocks
    BY ClosureAssumption DEF Save, Finish, Elsewhere, TheirLocks
  <2>4. Fewer
    BY <2>2, <2>3 DEF Fewer, Booked, Exists, Active, IsLive, Elsewhere
  <2> QED BY <2>2, <2>3, <2>4, ClaimsNothing DEF SafeInv, AllProper
<1> QED BY <1>3, <1>4

\* A command that writes no booking.
LEMMA OthersClaimNothing ==
  ASSUME SafeInv, Elsewhere, TheirLocks, res' = res
  PROVE  Locks' /\ VerdictHolds' /\ Guards' /\ ProperRows' /\ ProperAsks'
<1>1. Fewer
  BY DEF Fewer, Booked, Exists, Active, IsLive, Elsewhere
<1> QED BY <1>1, ClaimsNothing DEF SafeInv, AllProper, Exists

\* The windows a plan moves bookings to are as long as those they had.
LEMMA PlanProper ==
  ASSUME SafeInv, NEW m \in Mgr, Plan(m)
  PROVE  ProperPlans'
<1>1. \A r \in DOMAIN Planned(m) : Booked(r)
  BY PlanTyped DEF Plan, SafeInv
<1>2. ASSUME NEW r \in DOMAIN Planned(m) PROVE Proper(Planned(m)[r].target)
  <2> DEFINE old == res[r].win
             c == cmd[m].rule
  <2>1. r \in Rsv
    BY DEF Planned, Affected
  <2>2. old \in Window /\ Proper(old)
    BY <1>1, <2>1, ExistingRow DEF Booked, Row, SafeInv, AllProper, ProperRows, CInv, Shape
  <2>3. CASE cmd[m].action # "move"
    BY <2>2, <2>3 DEF Planned
  <2>4. CASE cmd[m].action = "move"
    <3>1. Planned(m)[r].target = MoveTarget(c, old) /\ MoveTarget(c, old) # None
      BY <2>4 DEF Planned, Plan, MayPlan
    <3>2. /\ MoveTarget(c, old) \in Window
          /\ MoveTarget(c, old).to - MoveTarget(c, old).from = old.to - old.from
      BY <3>1 DEF MoveTarget
    <3>3. PICK w \in Window : w = MoveTarget(c, old) /\ w.to - w.from = old.to - old.from
      BY <3>2
    <3>4. Proper(w)
      <4> HIDE DEF old
      <4>1. w.from \in Int /\ w.to \in Int /\ old.from \in Int /\ old.to \in Int
        BY <2>2, SlotAssumption DEF Window
      <4> QED BY <2>2, <3>3, <4>1 DEF Proper
    <3> QED BY <3>1, <3>3, <3>4
  <2> QED BY <2>3, <2>4
<1>3. /\ \A k \in Mgr \ {m} : cmd'[k] = cmd[k]
      /\ cmd'[m].plan = Planned(m)
  BY DEF Plan, SafeInv, CInv, CmdShape, Command_
<1> QED BY <1>2, <1>3 DEF SafeInv, AllProper, ProperPlans

\* The other steps keep the plans or end them.
LEMMA PlansStay ==
  ASSUME SafeInv,
         \A m \in Mgr : cmd'[m].st \in Planning => cmd[m].st \in Planning /\ cmd'[m].plan = cmd[m].plan
  PROVE  ProperPlans'
BY DEF SafeInv, AllProper, ProperPlans

LEMMA CommandSafe ==
  ASSUME SafeInv, NEW m \in Mgr,
         (\E c \in Closure, action \in Decisions, named \in BOOLEAN : Decide(m, c, action, named))
         \/ Command(m) \/ \E c \in Closure : Reopen(m, c)
  PROVE  Locks' /\ VerdictHolds' /\ Guards' /\ AllProper'
<1>0. cmd \in [Mgr -> Command_]
  BY DEF SafeInv, CInv, CmdShape
<1>1. CASE \E c \in Closure, action \in Decisions, named \in BOOLEAN : Decide(m, c, action, named)
  <2>1. Elsewhere /\ TheirLocks /\ res' = res
    BY <1>1 DEF Decide, vars, Elsewhere, TheirLocks
  <2>2. ProperPlans'
    BY <1>0, <1>1, PlansStay DEF Decide, NoCmd, Planning
  <2> QED BY <2>1, <2>2, OthersClaimNothing DEF AllProper
<1>2. CASE TakeVenue(m) \/ ReadRows(m)
  <2>1. Elsewhere /\ TheirLocks /\ res' = res
    BY <1>2 DEF TakeVenue, ReadRows, vars, Elsewhere, TheirLocks
  <2>2. ProperPlans'
    BY <1>0, <1>2, PlansStay DEF TakeVenue, ReadRows, Planning, Command_
  <2> QED BY <2>1, <2>2, OthersClaimNothing DEF AllProper
<1>3. CASE Plan(m)
  <2>1. Elsewhere /\ TheirLocks /\ res' = res
    BY <1>3 DEF Plan, vars, Elsewhere, TheirLocks
  <2> QED BY <1>3, <2>1, PlanProper, OthersClaimNothing DEF AllProper
<1>4. CASE LockMove(m)
  <2>1. Elsewhere /\ res' = res /\ UNCHANGED closureVars
    BY <1>4 DEF LockMove, Elsewhere
  <2>2. TheirLocks
    BY <1>4, SlotAssumption DEF LockMove, TheirLocks, SafeInv, CInv, Shape, Typed
  <2>3. ProperPlans'
    BY <2>1, PlansStay DEF closureVars
  <2> QED BY <2>1, <2>2, <2>3, OthersClaimNothing DEF AllProper
<1>5. CASE StaleVersion(m) \/ PlanRefused(m) \/ ApplyRefused(m)
  <2>1. Finish(m) /\ res' = res
    BY <1>5 DEF StaleVersion, PlanRefused, ApplyRefused, Refused
  <2>2. Elsewhere /\ TheirLocks
    BY <2>1, ClosureAssumption DEF Finish, Elsewhere, TheirLocks
  <2>3. ProperPlans'
    BY <1>0, <2>1, PlansStay DEF Finish, NoCmd, Planning
  <2> QED BY <2>1, <2>2, <2>3, OthersClaimNothing DEF AllProper
<1>6. CASE Save(m)
  <2>1. ProperPlans'
    BY <1>0, <1>6, PlansStay DEF Save, Finish, NoCmd, Planning
  <2> QED BY <1>6, <2>1, SaveLands DEF AllProper
<1>7. CASE \E c \in Closure : Reopen(m, c)
  <2>1. Elsewhere /\ TheirLocks /\ res' = res /\ cmd' = cmd
    BY <1>7 DEF Reopen, tables, Elsewhere, TheirLocks
  <2>2. ProperPlans'
    BY <2>1, PlansStay
  <2> QED BY <2>1, <2>2, OthersClaimNothing DEF AllProper
<1> QED BY <1>1, <1>2, <1>3, <1>4, <1>5, <1>6, <1>7 DEF Command

LEMMA NextSafe ==
  ASSUME WholePatch, ProperWindows
  PROVE  SafeInv /\ [NextClosures]_allVars => SafeInv'
<1> SUFFICES ASSUME SafeInv, [NextClosures]_allVars PROVE SafeInv'
  OBVIOUS
<1>1. CInv' /\ Shape'
  BY NextCInv DEF SafeInv, CInv
<1> SUFFICES Locks' /\ VerdictHolds' /\ Guards' /\ AllProper'
  BY <1>1 DEF SafeInv, IInv
<1>2. CASE Book
  <2>1. Requests /\ UNCHANGED closureVars
    BY <1>2 DEF Book, Requests
  <2>2. Locks' /\ VerdictHolds' /\ Guards'
    BY <2>1, StepKeeps, OthersKeep DEF Requests, SafeInv
  <2>3. ProperRows' /\ ProperAsks'
    BY <2>1, RequestsProper DEF SafeInv, IInv, Locks, AllProper
  <2>4. ProperPlans'
    BY <2>1, PlansStay DEF closureVars
  <2> QED BY <2>2, <2>3, <2>4 DEF AllProper
<1>3. CASE AllIdle \/ UNCHANGED allVars
  <2>1. UNCHANGED allVars
    BY <1>3 DEF AllIdle
  <2>2. Elsewhere /\ TheirLocks /\ res' = res /\ cmd' = cmd
    BY <2>1 DEF allVars, vars, closureVars, Elsewhere, TheirLocks
  <2>3. ProperPlans'
    BY <2>2, PlansStay
  <2> QED BY <2>2, <2>3, OthersClaimNothing DEF AllProper
<1> QED BY <1>2, <1>3, CommandSafe DEF NextClosures

LEMMA InitSafe == InitClosures => SafeInv
<1> SUFFICES ASSUME InitClosures PROVE SafeInv
  OBVIOUS
<1>1. CInv /\ IInv
  BY InitCInv, InitIInv DEF InitClosures
<1>2. AllProper
  BY DEF InitClosures, Init, AllProper, ProperRows, ProperAsks, ProperPlans, Exists, NoRow,
         NoCmd, Planning
<1> QED BY <1>1, <1>2 DEF SafeInv

LEMMA AlwaysSafe ==
  ASSUME WholePatch, ProperWindows
  PROVE  SpecClosures => []SafeInv
BY InitSafe, NextSafe, PTL DEF SpecClosures

\* Closures that move bookings double-book nobody either: neither each other's
\* bookings, nor those of requests that run beside them (closure-apply.ts).
THEOREM MovesDoubleBookNobody ==
  ASSUME WholePatch, ProperWindows
  PROVE  SpecClosures => []NoDoubleBooking
BY AlwaysSafe, PTL DEF SafeInv, IInv, Guards

\* And no booking is moved onto the slot of an active hold (closure-apply.ts).
THEOREM MovesPassNoHold ==
  ASSUME WholePatch, ProperWindows
  PROVE  SpecClosures => []HoldsGuardSlot
BY AlwaysSafe, PTL DEF SafeInv, IInv, Guards

-----------------------------------------------------------------------------
(* Closures and the bookings inside them. While a command plans and        *)
(* applies, no gated request is at work, so what the impact scan found is  *)
(* what the save meets, but for bookings that go and walk-ins that come.   *)

\* A rule that stops bookings by phone stops them on every channel: an earlier
\* stop on one channel would answer for a closure and hide whom it strands.
PhoneClosesAll ==
  \A c \in Closure : "phone" \in Band[c].channels => ClosesVenue(Band[c])

\* Where bookings are moved no table is blocked: a move looks at no block.
MovesMeetNoBlock == "move" \in Decisions => \A c \in Closure : Band[c].tables = {}

\* A booking that a closure must not meet undecided, and whether a closure stops
\* a start on a table.
Reserved(r) == Booked(r) /\ ~res[r].walkIn
StopsAt(c, table, min) ==
  \/ ClosesVenue(Band[c]) /\ InBand(min, Band[c])
  \/ BlocksTable(Band[c], min, table)
Stops(c, r) == StopsAt(c, res[r].table, res[r].win.from)

\* A plan leaves out only whom the new closure does not stop and whom someone
\* kept, and moves nobody into a closure, the new one included.
PlanDecides(x) ==
  /\ outcome[x.rule] = NoOutcome
  /\ \A r \in Rsv \ DOMAIN x.plan : Reserved(r) /\ Stops(x.rule, r) => KeptBySomeone(r)
  /\ x.action = "move" =>
       \A r \in DOMAIN x.plan, d \in ToSet(closed) \cup {x.rule} :
         ClosesVenue(Band[d]) => ~Overlaps(x.plan[r].target, Band[d])

PlansDecide ==
  \A m \in Mgr : /\ cmd[m].st # "idle" => cmd[m].action \in Decisions
                 /\ cmd[m].st \in Planning => PlanDecides(cmd[m])

DInv == SafeInv /\ closed \in Seq(Closure) /\ NoUndecidedStart /\ PlansDecide

-----------------------------------------------------------------------------
(* The rules of the impact.                                                *)

\* A set of naturals has a least one: the first rule that answers.
LEMMA LeastNatural ==
  ASSUME NEW S \in SUBSET Nat, S # {}
  PROVE  \E n \in S : \A m \in S : n <= m
<1>1. PICK x \in S : TRUE
  OBVIOUS
<1> DEFINE T == {A \in SUBSET (0..x) : \E n \in S : n <= x /\ A = 0..n}
<1>2. IsWellFoundedOn(StrictSubsetOrdering(0..x), SUBSET (0..x))
  <2>1. IsFiniteSet(0..x)
    BY <1>1, FS_Interval
  <2>2. FiniteSubsetsOf(0..x) = SUBSET (0..x)
    BY <2>1, FS_FiniteSubsetsOfFinite
  <2> QED BY <2>2, FS_StrictSubsetOrderingWellFounded
<1>3. 0..x \in T
  BY <1>1
<1>4. PICK A \in T : \A B \in T : <<B, A>> \notin StrictSubsetOrdering(0..x)
  <2> HIDE DEF T
  <2>1. T \subseteq SUBSET (0..x)
    BY DEF T
  <2> QED BY <1>2, <1>3, <2>1, WFMin
<1>5. PICK n \in S : n <= x /\ A = 0..n
  OBVIOUS
<1>6. ASSUME NEW m \in S, m < n PROVE FALSE
  <2>1. 0..m \in T
    BY <1>1, <1>5, <1>6
  <2>2. 0..m \subseteq 0..n /\ 0..m # 0..n
    BY <1>6
  <2> QED BY <1>4, <1>5, <2>1, <2>2 DEF StrictSubsetOrdering
<1> QED BY <1>6

\* Whom the rules strand, one of them stops; whom a rule stops, they strand.
LEMMA StrandedBySome ==
  ASSUME NEW rules \in Seq(Closure), NEW r \in Rsv, Stranded(rules, r)
  PROVE  \E c \in ToSet(rules) : Stops(c, r)
BY DEF Stranded, Strands, Bands, Stops, StopsAt, ClosesSeating, ToSet

LEMMA StopsStrand ==
  ASSUME PhoneClosesAll, NEW rules \in Seq(Closure), NEW r \in Rsv,
         NEW c \in ToSet(rules), Stops(c, r)
  PROVE  Stranded(rules, r)
<1> DEFINE min == res[r].win.from
           first(i) == i \in DOMAIN rules /\ ClosesSeating(Band[rules[i]], min, "phone")
           S == {i \in DOMAIN rules : ClosesSeating(Band[rules[i]], min, "phone")}
<1>1. PICK k \in DOMAIN rules : rules[k] = c
  BY DEF ToSet
<1>2. CASE S # {}
  <2>1. S \in SUBSET Nat
    OBVIOUS
  <2> HIDE DEF S
  <2>2. PICK i \in S : \A j \in S : i <= j
    BY <1>2, <2>1, LeastNatural
  <2>3. i \in DOMAIN rules /\ ClosesSeating(Band[rules[i]], min, "phone")
    BY DEF S
  <2>4. rules[i] \in Closure
    BY <2>3
  <2>5. ClosesVenue(Band[rules[i]])
    BY <2>3, <2>4 DEF PhoneClosesAll, ClosesSeating
  <2>6. \A j \in 1..(i - 1) : ~ClosesSeating(Band[rules[j]], min, "phone")
    <3> SUFFICES ASSUME NEW j \in 1..(i - 1), ClosesSeating(Band[rules[j]], min, "phone")
                 PROVE  FALSE
      OBVIOUS
    <3>1. j \in DOMAIN rules
      BY <2>3
    <3>2. j \in S
      BY <3>1 DEF S
    <3> QED BY <2>2, <2>3, <3>2
  <2> QED BY <2>3, <2>5, <2>6 DEF Stranded, Strands, Bands
<1>3. CASE S = {}
  <2>1. \A i \in DOMAIN rules : ~ClosesSeating(Band[rules[i]], min, "phone")
    BY <1>3
  <2>2. ~(ClosesVenue(Band[c]) /\ InBand(min, Band[c]))
    BY <1>1, <2>1 DEF ClosesSeating, ClosesVenue, Channels
  <2>3. BlocksTable(Band[c], min, res[r].table)
    BY <2>2 DEF Stops, StopsAt
  <2> QED BY <1>1, <2>1, <2>3 DEF Stranded, Strands, Bands
<1> QED BY <1>2, <1>3

\* What the impact scan does not affect, no rule in force and not the new one
\* stops undecided.
LEMMA UnaffectedIsKept ==
  ASSUME PhoneClosesAll, closed \in Seq(Closure), NoUndecidedStart,
         NEW c \in Closure, NEW r \in Rsv, r \notin Affected(c), Reserved(r), Stops(c, r)
  PROVE  KeptBySomeone(r)
<1>1. Append(closed, c) \in Seq(Closure) /\ c \in ToSet(Append(closed, c))
  <2>1. /\ Append(closed, c) \in Seq(Closure)
        /\ Len(closed) + 1 \in DOMAIN Append(closed, c)
        /\ Append(closed, c)[Len(closed) + 1] = c
    OBVIOUS
  <2> QED BY <2>1 DEF ToSet
<1>2. Stranded(Append(closed, c), r)
  BY <1>1, StopsStrand
<1>3. Stranded(closed, r)
  BY <1>2 DEF Affected, Reserved
<1>4. PICK d \in ToSet(closed) : Stops(d, r)
  BY <1>3, StrandedBySome
<1> QED BY <1>4 DEF NoUndecidedStart, Reserved, Stops, StopsAt

-----------------------------------------------------------------------------
(* Requests beside the closures.                                           *)

\* A booking that is where it was.
Stays(r) == Reserved(r) /\ res'[r].table = res[r].table /\ res'[r].win = res[r].win

LEMMA FewerStay ==
  ASSUME Fewer, NEW r \in Rsv, Reserved(r)'
  PROVE  Stays(r)
BY DEF Fewer, Reserved, Stays

\* What the gate lets through starts in no closure, unless it was in one before.
LEMMA GateStops ==
  ASSUME NEW q, GateOpen(q), ~KeptThroughClosure(q), NEW c \in ToSet(closed)
  PROVE  ~StopsAt(c, q.table, q.win.from)
BY DEF GateOpen, StopsAt, ClosesVenue, ClosesSeating, ChannelOf, Channels

\* A booking a step writes is where it was, or was let through by the gate while
\* its request shares the venue row, or was kept before by someone.
LEMMA StepDecides ==
  ASSUME WholePatch, PhoneClosesAll, SafeInv, closed \in Seq(Closure), NoUndecidedStart,
         NEW p \in Proc, Step(p), NEW r \in Rsv, Reserved(r)'
  PROVE  \/ Stays(r)
         \/ /\ p \in shares
            /\ \A c \in ToSet(closed) :
                 StopsAt(c, res'[r].table, res'[r].win.from) => KeptBySomeone(r)
<1> USE DEF SafeInv, IInv
<1>1. PICK q : q = req[p]
  OBVIOUS
<1>2. CASE res' = res
  BY <1>2 DEF Reserved, Stays, Booked, Exists
<1>3. ASSUME pc[p] = "passed", Gated(q), GateOpen(q), NEW row,
             res' = [res EXCEPT ![q.rsv] = row], row.table = q.table, row.win = q.win,
             KeptThroughClosure(q) => \E c \in ToSet(closed) : Stops(c, q.rsv) /\ Reserved(q.rsv)
      PROVE  \/ Stays(r)
             \/ /\ p \in shares
                /\ \A c \in ToSet(closed) :
                     StopsAt(c, res'[r].table, res'[r].win.from) => KeptBySomeone(r)
  <2>1. p \in shares
    BY <1>1, <1>3 DEF CInv, Sharing
  <2>2. CASE r # q.rsv
    BY <1>3, <2>2 DEF Reserved, Stays, Booked, Exists
  <2>3. CASE r = q.rsv
    <3>1. res'[r] = row
      BY <1>3, <2>3 DEF CInv, Shape, Typed
    <3>2. CASE KeptThroughClosure(q)
      BY <1>3, <2>1, <2>3, <3>2 DEF NoUndecidedStart, Stops, StopsAt, Reserved
    <3>3. CASE ~KeptThroughClosure(q)
      BY <1>3, <2>1, <3>1, <3>3, GateStops
    <3> QED BY <3>2, <3>3
  <2> QED BY <2>2, <2>3
<1>4. ASSUME pc[p] = "passed", Gated(q) PROVE GateOpen(q)
  BY <1>1, <1>4 DEF CInv, GateVerdictHolds
<1>5. CASE WriteConfirm(p) \/ WriteCreate(p)
  <2>1. PICK st, row : row = NewRow(q, st) /\ res' = [res EXCEPT ![q.rsv] = row]
    BY <1>1, <1>5 DEF WriteConfirm, WriteCreate
  <2>2. pc[p] = "passed" /\ Gated(q) /\ ~KeptThroughClosure(q)
    BY <1>1, <1>5 DEF WriteConfirm, WriteCreate, Gated, KeptThroughClosure
  <2>3. row.table = q.table /\ row.win = q.win
    BY <2>1 DEF NewRow
  <2> QED BY <2>1, <2>2, <2>3, <1>3, <1>4
<1>6. CASE WriteMoveTo(p)
  <2>1. pc[p] = "passed" /\ Gated(q) /\ ~KeptThroughClosure(q)
    BY <1>1, <1>6 DEF WriteMoveTo, Gated, KeptThroughClosure
  <2>2. res[q.rsv] \in Row /\ q.rsv \in Rsv
    BY <1>1, <1>6, Begun, ExistingRow DEF WriteMoveTo, WellAsked, CInv, Shape
  <2>3. PICK row : row = [res[q.rsv] EXCEPT !.table = q.table, !.win = q.win]
    OBVIOUS
  <2>4. res' = [res EXCEPT ![q.rsv] = row] /\ row.table = q.table /\ row.win = q.win
    BY <1>1, <1>6, <2>2, <2>3 DEF WriteMoveTo, CInv, Shape, Typed, Row
  <2> QED BY <2>1, <2>4, <1>3, <1>4
<1>7. CASE WriteEdit(p)
  <2>1. PICK row \in Row :
          /\ q.rsv \in Rsv /\ res[q.rsv] \in Row /\ res' = [res EXCEPT ![q.rsv] = row]
          /\ row.st = res[q.rsv].st /\ row.walkIn = res[q.rsv].walkIn
          /\ IF MovesSlot(q.patch) THEN row.table = q.table /\ row.win = q.win
                                   ELSE row = res[q.rsv]
    BY <1>1, <1>7, EditWrites
  <2>2. pc[p] = "passed" /\ Gated(q) /\ res[q.rsv].win.from = q.seen.from
    BY <1>1, <1>7 DEF WriteEdit, Gated, Unchanged
  <2>3. CASE r # q.rsv \/ ~MovesSlot(q.patch)
    <3>1. res'[r] = res[r]
      BY <2>1, <2>3 DEF CInv, Shape, Typed
    <3> QED BY <3>1 DEF Reserved, Stays, Booked, Exists
  <2>4. CASE r = q.rsv /\ MovesSlot(q.patch)
    <3>1. Reserved(q.rsv)
      <4>1. res'[r] = row /\ res[r].st = row.st /\ res[r].walkIn = row.walkIn
        BY <2>1, <2>4 DEF CInv, Shape, Typed
      <4>2. Reserved(r)
        BY <4>1 DEF Reserved, Booked, Exists
      <4> QED BY <2>4, <4>2
    <3>2. ASSUME KeptThroughClosure(q)
          PROVE  \E c \in ToSet(closed) : Stops(c, q.rsv) /\ Reserved(q.rsv)
      <4>1. PICK c \in ToSet(closed) : ClosesSeating(Band[c], q.seen.from, "phone")
        BY <3>2 DEF KeptThroughClosure
      <4>2. c \in Closure
        BY DEF ToSet
      <4>3. ClosesVenue(Band[c]) /\ InBand(res[q.rsv].win.from, Band[c])
        BY <2>2, <4>1, <4>2 DEF PhoneClosesAll, ClosesSeating
      <4> QED BY <3>1, <4>3 DEF Stops, StopsAt
    <3> QED BY <1>3, <1>4, <2>1, <2>2, <2>4, <3>2
  <2> QED BY <2>3, <2>4
<1>8. CASE WriteWalkIn(p)
  BY <1>8 DEF WriteWalkIn, NewRow, Reserved, Stays, Booked, Exists, CInv, Shape, Typed
<1> QED BY <1>2, <1>5, <1>6, <1>7, <1>8 DEF Step, Settle, PreCheck, PreCheckFails, ShareVenue,
       LockTable, Check, Refuse, WriteHold, HoldVanished, EditMissed

LEMMA BookDecides ==
  ASSUME WholePatch, PhoneClosesAll, DInv, Book
  PROVE  NoUndecidedStart' /\ PlansDecide'
<1>1. Requests /\ closed' = closed /\ cmd' = cmd /\ outcome' = outcome
  BY RequestShape DEF Book, Requests, closureVars, DInv, SafeInv, CInv
<1>2. ASSUME NEW r \in Rsv, Reserved(r)'
      PROVE  \/ Stays(r)
             \/ /\ shares # {}
                /\ \A c \in ToSet(closed) :
                     StopsAt(c, res'[r].table, res'[r].win.from) => KeptBySomeone(r)
  <2>1. CASE \E p \in Proc : Step(p)
    BY <1>2, <2>1, StepDecides DEF DInv
  <2>2. CASE \E p \in Proc : Ask(p)
    <3>1. res' = res
      BY <2>2, AskServes DEF Serve, DInv, SafeInv, IInv, Shape
    <3> QED BY <1>2, <3>1 DEF Reserved, Stays, Booked, Exists
  <2>3. CASE Aside
    BY <1>2, <2>3, AsideFewer, FewerStay DEF DInv, SafeInv, IInv
  <2> QED BY <1>1, <2>1, <2>2, <2>3 DEF Requests
<1>3. NoUndecidedStart'
  <2> SUFFICES ASSUME NEW r \in Rsv, Reserved(r)', NEW c \in ToSet(closed),
                      StopsAt(c, res'[r].table, res'[r].win.from)
               PROVE  KeptBySomeone(r)
    BY <1>1 DEF NoUndecidedStart, Reserved, StopsAt, KeptBySomeone
  <2> QED BY <1>2 DEF Stays, DInv, NoUndecidedStart, Reserved, StopsAt
<1>4. PlansDecide'
  <2> SUFFICES ASSUME NEW m \in Mgr, cmd[m].st \in Planning, NEW x, x = cmd[m],
                      NEW r \in Rsv \ DOMAIN x.plan, Reserved(r)',
                      StopsAt(x.rule, res'[r].table, res'[r].win.from)
               PROVE  KeptBySomeone(r)
    BY <1>1 DEF PlansDecide, PlanDecides, DInv, Reserved, Stops, KeptBySomeone
  <2>1. shares = {}
    BY ClosureAssumption DEF DInv, SafeInv, CInv, OneOwner, Alone, Owning, Planning
  <2> QED BY <1>2, <2>1 DEF Stays, DInv, PlansDecide, PlanDecides, Stops
<1> QED BY <1>3, <1>4

-----------------------------------------------------------------------------
(* The closures themselves.                                                *)

\* A command that writes no booking, no rule and no outcome, and whose plan,
\* when it has made one, decides.
LEMMA QuietDecides ==
  ASSUME DInv, UNCHANGED <<res, closed, outcome>>,
         \A m \in Mgr :
           /\ cmd'[m].st # "idle" => cmd'[m].action \in Decisions
           /\ cmd'[m].st \in Planning =>
                \/ PlanDecides(cmd'[m])
                \/ /\ cmd[m].st \in Planning
                   /\ cmd'[m].plan = cmd[m].plan /\ cmd'[m].rule = cmd[m].rule
                   /\ cmd'[m].action = cmd[m].action
  PROVE  NoUndecidedStart' /\ PlansDecide'
<1>1. NoUndecidedStart'
  BY DEF DInv, NoUndecidedStart, Booked, Exists, KeptBySomeone
<1>2. PlansDecide'
  <2> SUFFICES ASSUME NEW m \in Mgr, cmd'[m].st \in Planning
               PROVE  PlanDecides(cmd[m])'
    BY DEF PlansDecide
  <2>1. PlanDecides(cmd'[m])
    BY DEF DInv, PlansDecide, PlanDecides
  <2> QED BY <2>1 DEF PlanDecides, Reserved, Booked, Exists, Stops, KeptBySomeone
<1> QED BY <1>1, <1>2

\* A plan covers everyone the closure stops, and leads nobody into a closure.
LEMMA PlanIsDecided ==
  ASSUME PhoneClosesAll, DInv, NEW m \in Mgr, Plan(m)
  PROVE  PlanDecides(cmd'[m])
<1>1. PICK y \in Command_ : y = cmd[m] /\ Sound(y) /\ y.st = "owner"
  BY DEF Plan, DInv, SafeInv, CInv, CmdShape
<1>2. PICK x : x = [y EXCEPT !.st = "planned", !.plan = Planned(m)]
  OBVIOUS
<1>3. x.rule = y.rule /\ x.action = y.action /\ x.plan = Planned(m) /\ x.rule \in Closure
  BY <1>1, <1>2 DEF Command_, Sound
<1>4. cmd'[m] = x
  BY <1>1, <1>2 DEF Plan, DInv, SafeInv, CInv, CmdShape
<1>5. outcome[x.rule] = NoOutcome
  BY <1>1, <1>3 DEF Plan, MayPlan
<1>6. DOMAIN x.plan = Affected(x.rule)
  BY <1>1, <1>3 DEF Planned
<1>7. \A r \in Rsv \ DOMAIN x.plan : Reserved(r) /\ Stops(x.rule, r) => KeptBySomeone(r)
  BY <1>3, <1>6, UnaffectedIsKept DEF DInv
<1>8. ASSUME x.action = "move", NEW r \in DOMAIN x.plan, NEW d \in ToSet(closed) \cup {x.rule},
             ClosesVenue(Band[d])
      PROVE  ~Overlaps(x.plan[r].target, Band[d])
  <2>1. x.plan[r].target = MoveTarget(x.rule, res[r].win) /\ x.plan[r].target # None
    BY <1>1, <1>3, <1>6, <1>8 DEF Plan, MayPlan, Planned
  <2> QED BY <1>8, <2>1 DEF MoveTarget
<1> QED BY <1>4, <1>5, <1>7, <1>8 DEF PlanDecides

\* What a save does to whom it decides about: they go, they are kept, or they
\* start in no closure any more.
LEMMA SavedIsDecided ==
  ASSUME MovesMeetNoBlock, DInv, NEW m \in Mgr, Save(m), NEW r \in DOMAIN cmd[m].plan,
         Reserved(r)', NEW d \in ToSet(closed) \cup {cmd[m].rule},
         StopsAt(d, res'[r].table, res'[r].win.from)
  PROVE  outcome'[cmd[m].rule][r] = "keep"
<1>1. PICK y \in Command_ : y = cmd[m] /\ Sound(y) /\ y.st = "applying"
  BY DEF Save, DInv, SafeInv, CInv, CmdShape
<1>2. /\ y.plan \in Plans /\ y.rule \in Closure /\ y.action \in Decision
      /\ y.action \in Decisions /\ PlanDecides(y)
  BY <1>1 DEF Sound, Planning, DInv, PlansDecide
<1>3. r \in Rsv /\ Exists(r) /\ res[r] \in Row /\ y.plan[r].target \in Window
      /\ Proper(y.plan[r].target)
  <2>1. r \in Rsv /\ Exists(r) /\ y.plan[r] \in Move
    BY <1>1, <1>2 DEF Plans, Sound, Planning
  <2>2. Proper(y.plan[r].target)
    BY <1>1 DEF DInv, SafeInv, AllProper, ProperPlans, Planning
  <2> QED BY <2>1, <2>2, ExistingRow DEF Move, DInv, SafeInv, CInv, Shape
<1>4. d \in Closure
  BY <1>1, <1>2 DEF DInv, ToSet
<1>5. CASE y.action = "cancel"
  <2>1. res'[r] = [res[r] EXCEPT !.st = "CANCELLED"]
    BY <1>1, <1>3, <1>5 DEF Save, Applied
  <2> QED BY <1>3, <2>1 DEF Row, Reserved, Booked, NotBooked
<1>6. CASE y.action = "keep"
  <2>1. PICK o : o = [x \in Rsv |-> IF x \in DOMAIN y.plan THEN y.action ELSE "none"]
    OBVIOUS
  <2>2. outcome' = [outcome EXCEPT ![y.rule] = o]
    BY <1>1, <2>1 DEF Save
  <2> QED BY <1>1, <1>2, <1>3, <1>6, <2>1, <2>2 DEF DInv, SafeInv, CInv, CmdShape
<1>7. CASE y.action = "move"
  <2>1. PICK w \in Window : w = y.plan[r].target
    BY <1>3
  <2>2. res'[r].win = w
    BY <1>1, <1>3, <1>7, <2>1 DEF Save, Applied, Row
  <2>3. ~BlocksTable(Band[d], res'[r].win.from, res'[r].table)
    BY <1>2, <1>4, <1>7 DEF MovesMeetNoBlock, BlocksTable
  <2>4. ClosesVenue(Band[d]) /\ InBand(w.from, Band[d])
    BY <2>2, <2>3 DEF StopsAt
  <2>5. ~Overlaps(w, Band[d])
    BY <1>1, <1>2, <1>7, <2>1, <2>4 DEF PlanDecides
  <2>6. w.from \in Int /\ w.to \in Int /\ w.from < w.to
    BY <1>3, <2>1, SlotAssumption DEF Window, Proper
  <2> QED BY <1>4, <2>4, <2>5, <2>6, BandAssumption DEF Overlaps, InBand
<1> QED BY <1>2, <1>5, <1>6, <1>7 DEF Decision

LEMMA SaveDecides ==
  ASSUME MovesMeetNoBlock, DInv, NEW m \in Mgr, Save(m)
  PROVE  NoUndecidedStart' /\ PlansDecide' /\ closed' \in Seq(Closure)
<1>1. PICK y \in Command_ : y = cmd[m] /\ Sound(y) /\ y.st = "applying"
  BY DEF Save, DInv, SafeInv, CInv, CmdShape
<1>2. y.rule \in Closure /\ PlanDecides(y)
  BY <1>1 DEF Sound, Planning, DInv, PlansDecide
<1>3. closed' = Append(closed, y.rule) /\ closed' \in Seq(Closure)
      /\ ToSet(closed') = ToSet(closed) \cup {y.rule}
  <2>1. closed' = Append(closed, y.rule) /\ closed \in Seq(Closure)
    BY <1>1 DEF Save, DInv
  <2> QED BY <1>2, <2>1 DEF ToSet
<1>4. \A r \in Rsv : KeptBySomeone(r) => KeptBySomeone(r)'
  <2> SUFFICES ASSUME NEW r \in Rsv, NEW c \in Closure, outcome[c][r] = "keep"
               PROVE  outcome'[c][r] = "keep"
    BY DEF KeptBySomeone
  <2>1. c # y.rule
    BY <1>2 DEF PlanDecides, NoOutcome
  <2> QED BY <1>1, <2>1, Outcomes DEF DInv, SafeInv
<1>5. NoUndecidedStart'
  <2> SUFFICES ASSUME NEW r \in Rsv, Reserved(r)', NEW d \in ToSet(closed) \cup {y.rule},
                      StopsAt(d, res'[r].table, res'[r].win.from)
               PROVE  KeptBySomeone(r)'
    BY <1>3 DEF NoUndecidedStart, Reserved, StopsAt
  <2>1. CASE r \in DOMAIN y.plan
    BY <1>1, <1>2, <2>1, SavedIsDecided DEF KeptBySomeone
  <2>2. CASE r \notin DOMAIN y.plan
    <3>1. res'[r] = res[r]
      BY <1>1, <2>2 DEF Save, Applied
    <3>2. Reserved(r) /\ Stops(d, r)
      BY <3>1 DEF Reserved, Booked, Exists, Stops
    <3>3. KeptBySomeone(r)
      BY <1>2, <2>2, <3>2 DEF PlanDecides, DInv, NoUndecidedStart, Reserved, Stops, StopsAt
    <3> QED BY <1>4, <3>3
  <2> QED BY <2>1, <2>2
<1>6. PlansDecide'
  <2>1. /\ owner = m /\ Finish(m)
        /\ \A k \in Mgr \ {m} : cmd[k].st \notin Owning
    BY <1>1 DEF Save, DInv, SafeInv, CInv, OneOwner, Owning
  <2>2. \A k \in Mgr \ {m} : cmd'[k] = cmd[k]
    BY <2>1 DEF Finish, DInv, SafeInv, CInv, CmdShape
  <2>3. cmd'[m].st = "idle"
    BY <2>1 DEF Finish, NoCmd, DInv, SafeInv, CInv, CmdShape
  <2> QED BY <2>1, <2>2, <2>3 DEF PlansDecide, Planning, Owning, DInv
<1> QED BY <1>3, <1>5, <1>6

LEMMA ReopenDecides ==
  ASSUME DInv, NEW m \in Mgr, NEW c \in Closure, Reopen(m, c)
  PROVE  NoUndecidedStart' /\ PlansDecide' /\ closed' \in Seq(Closure)
<1>1. /\ owner = None
      /\ UNCHANGED <<res, cmd, outcome>>
  BY DEF Reopen, tables
<1>2. PICK i \in DOMAIN closed : closed' = SubSeq(closed, 1, i - 1) \o SubSeq(closed, i + 1, Len(closed))
  BY DEF Reopen, RemoveAt
<1>3. closed' \in Seq(Closure) /\ ToSet(closed') \subseteq ToSet(closed)
  <2>1. /\ SubSeq(closed, 1, i - 1) \in Seq(Closure)
        /\ SubSeq(closed, i + 1, Len(closed)) \in Seq(Closure)
        /\ ToSet(SubSeq(closed, 1, i - 1)) \subseteq ToSet(closed)
        /\ ToSet(SubSeq(closed, i + 1, Len(closed))) \subseteq ToSet(closed)
    BY DEF DInv, ToSet
  <2> QED BY <1>2, <2>1 DEF ToSet
<1>4. NoUndecidedStart'
  BY <1>1, <1>3 DEF DInv, NoUndecidedStart, Booked, Exists, KeptBySomeone
<1>5. PlansDecide'
  BY <1>1, ClosureAssumption DEF DInv, SafeInv, CInv, OneOwner, Owning, Planning, PlansDecide
<1> QED BY <1>3, <1>4, <1>5

LEMMA NextDecides ==
  ASSUME WholePatch, ProperWindows, PhoneClosesAll, MovesMeetNoBlock
  PROVE  DInv /\ [NextClosures]_allVars => DInv'
<1> SUFFICES ASSUME DInv, [NextClosures]_allVars PROVE DInv'
  OBVIOUS
<1>1. SafeInv'
  BY NextSafe DEF DInv
<1> SUFFICES NoUndecidedStart' /\ PlansDecide' /\ closed' \in Seq(Closure)
  BY <1>1 DEF DInv
<1>2. CASE Book
  BY <1>2, BookDecides, RequestShape DEF Book, Requests, DInv, SafeInv, CInv
<1>3. ASSUME NEW m \in Mgr,
             (\E c \in Closure, action \in Decisions, named \in BOOLEAN :
                Decide(m, c, action, named))
             \/ TakeVenue(m) \/ StaleVersion(m) \/ Plan(m) \/ PlanRefused(m) \/ ReadRows(m)
             \/ LockMove(m) \/ ApplyRefused(m)
      PROVE  NoUndecidedStart' /\ PlansDecide' /\ closed' \in Seq(Closure)
  <2>1. UNCHANGED <<res, closed, outcome>>
    BY <1>3 DEF Decide, TakeVenue, StaleVersion, Plan, PlanRefused, ReadRows, LockMove,
                ApplyRefused, Refused, vars, closureVars
  <2>2. \A k \in Mgr \ {m} : cmd'[k] = cmd[k]
    BY <1>3 DEF Decide, TakeVenue, StaleVersion, Plan, PlanRefused, ReadRows, LockMove,
                ApplyRefused, Refused, Finish, closureVars, DInv, SafeInv, CInv, CmdShape
  <2>3. PICK y \in Command_ : y = cmd[m]
    BY DEF DInv, SafeInv, CInv, CmdShape
  <2>4. PICK x : x = cmd'[m]
    OBVIOUS
  <2>5. /\ x.st # "idle" => x.action \in Decisions
        /\ x.st \in Planning => \/ PlanDecides(x)
                                \/ /\ y.st \in Planning /\ x.plan = y.plan
                                   /\ x.rule = y.rule /\ x.action = y.action
    <3> USE DEF DInv, SafeInv, CInv, CmdShape, PlansDecide
    <3>1. CASE \E c \in Closure, a \in Decisions, n \in BOOLEAN : Decide(m, c, a, n)
      BY <2>4, <3>1 DEF Decide, NoCmd, Planning
    <3>2. CASE TakeVenue(m)
      BY <2>3, <2>4, <3>2 DEF TakeVenue, Command_, Planning
    <3>3. CASE ReadRows(m)
      BY <2>3, <2>4, <3>3 DEF ReadRows, Command_, Planning
    <3>4. CASE LockMove(m)
      BY <2>3, <2>4, <3>4 DEF LockMove, closureVars
    <3>5. CASE StaleVersion(m) \/ PlanRefused(m) \/ ApplyRefused(m)
      BY <2>4, <3>5 DEF StaleVersion, PlanRefused, ApplyRefused, Refused, Finish, NoCmd, Planning
    <3>6. CASE Plan(m)
      <4>1. PlanDecides(x)
        BY <2>4, <3>6, PlanIsDecided
      <4>2. x.action = y.action /\ y.st = "owner"
        BY <2>3, <2>4, <3>6 DEF Plan, Command_
      <4> QED BY <2>3, <4>1, <4>2
    <3> QED BY <1>3, <3>1, <3>2, <3>3, <3>4, <3>5, <3>6
  <2> QED BY <2>1, <2>2, <2>3, <2>4, <2>5, QuietDecides DEF DInv, PlansDecide
<1>4. CASE AllIdle \/ UNCHANGED allVars
  <2>1. UNCHANGED <<res, closed, outcome, cmd>>
    BY <1>4 DEF AllIdle, allVars, vars, closureVars
  <2> QED BY <2>1, QuietDecides DEF DInv, PlansDecide
<1> QED BY <1>2, <1>3, <1>4, SaveDecides, ReopenDecides DEF NextClosures, Command

LEMMA InitDecides == InitClosures => DInv
<1> SUFFICES ASSUME InitClosures PROVE DInv
  OBVIOUS
<1>1. NoUndecidedStart /\ PlansDecide /\ closed \in Seq(Closure)
  BY DEF InitClosures, Init, NoUndecidedStart, Booked, Exists, NoRow, PlansDecide, NoCmd, Planning
<1> QED BY <1>1, InitSafe DEF DInv

\* After any saved closure, and whatever requests and reopenings follow, a booking
\* starts in a closure only when a manager chose to keep it (closure-apply.ts).
THEOREM NobodyLeftUndecided ==
  ASSUME WholePatch, ProperWindows, PhoneClosesAll, MovesMeetNoBlock
  PROVE  SpecClosures => []NoUndecidedStart
<1>1. DInv => NoUndecidedStart
  BY DEF DInv
<1> QED BY <1>1, InitDecides, NextDecides, PTL DEF SpecClosures
=============================================================================
