--------------------------- MODULE ClosureCommand ---------------------------
(***************************************************************************)
(* Closures saved and reopened while bookings go on (Booking). A manager   *)
(* previews the bookings a closure would strand and decides what happens   *)
(* to them; the save compare-and-sets the venue's availability version,    *)
(* which takes the venue row exclusively, scans the bookings again, and    *)
(* writes the rule, one outcome per affected booking and the cancels or    *)
(* moves in the same transaction. An in-flight booking holds that row FOR  *)
(* SHARE, so the two serialise.                                            *)
(*                                                                         *)
(* One service day, one decision group per closure. Left out: who may      *)
(* close (roles), the idempotent replay of a save, series edits            *)
(* (alongside), special hours and Tonight rules, refunds and notices.      *)
(***************************************************************************)
EXTENDS Booking

CONSTANTS
  Mgr,         \* managers that may be saving or reopening at the same time
  Decisions,   \* the decisions they take, of "cancel", "move", "keep"
  Windowed,    \* the closures with a window; the others close the whole day
  MaxVersion   \* bound: configuration saves in one behaviour

Decision == {"cancel", "move", "keep"}

ASSUME ClosureAssumption ==
  /\ None \notin Mgr /\ Mgr \cap Proc = {}
  /\ Decisions \subseteq Decision

VARIABLES
  version,   \* the venue's availabilityVersion
  owner,     \* the manager whose transaction has updated the venue row, or None
  cmd,       \* the closure command each manager is running
  outcome    \* closure_outcomes: what each closure did to each booking

closureVars == <<version, owner, cmd, outcome>>
allVars == <<vars, closureVars>>

NoCmd == [st |-> "idle", rule |-> None, action |-> None, ver |-> None,
          named |-> FALSE, seen |-> {}, plan |-> None, rows |-> None]

NoOutcome == [r \in Rsv |-> "none"]

-----------------------------------------------------------------------------
(* The impact of a draft closure on the bookings there are.                *)

Bands(rules) == [i \in DOMAIN rules |-> Band[rules[i]]]

Stranded(rules, r) == Strands(Bands(rules), res[r].win.from, res[r].table)

\* A booking the day served before the draft, and that the draft strands or
\* cuts into.
Affected(c) ==
  {r \in Rsv : /\ Booked(r)
               /\ ~Stranded(closed, r)
               /\ \/ Stranded(Append(closed, c), r)
                  \/ RunsIntoBand(Band[c], res[r].win)}

-----------------------------------------------------------------------------
(* Where a booking is moved to: the nearest window of its length that no   *)
(* venue-wide band of the changed day touches; None when there is none, or *)
(* when the booking is already there.                                      *)

Distance(a, b) == IF a < b THEN b - a ELSE a - b

MoveTarget(c, win) ==
  LET bands == {Band[d] : d \in ToSet(closed) \cup {c}}
      open == {w \in Window : /\ w.to - w.from = win.to - win.from
                              /\ \A b \in bands : ClosesVenue(b) => ~Overlaps(w, b)}
      nearer(w, v) == \/ Distance(w.from, win.from) < Distance(v.from, win.from)
                      \/ /\ Distance(w.from, win.from) = Distance(v.from, win.from)
                         /\ w.from <= v.from
      best == {w \in open : \A v \in open : nearer(w, v)}
  IN  IF best = {} \/ win \in best THEN None ELSE CHOOSE w \in best : TRUE

-----------------------------------------------------------------------------
InitClosures ==
  /\ Init
  /\ version = 0
  /\ owner = None
  /\ cmd = [m \in Mgr |-> NoCmd]
  /\ outcome = [c \in Closure |-> NoOutcome]

tables == <<res, hold, shares, pc, req>>

\* The preview a manager decides on. A client names the bookings it was shown;
\* an older one does not.
Decide(m, c, action, named) ==
  /\ cmd[m].st = "idle"
  /\ version < MaxVersion
  /\ c \notin ToSet(closed)
  /\ action = "move" => c \in Windowed
  /\ cmd' = [cmd EXCEPT ![m] =
               [NoCmd EXCEPT !.st = "decided", !.rule = c, !.action = action,
                             !.ver = version, !.named = named, !.seen = Affected(c)]]
  /\ UNCHANGED <<vars, version, owner, outcome>>

\* Mutants: the save does not wait for the bookings in flight, or does not
\* compare the version.
TakeVenueAtOnce(m) ==
  /\ cmd[m].st = "decided"
  /\ owner = None
  /\ version = cmd[m].ver
  /\ owner' = m
  /\ cmd' = [cmd EXCEPT ![m].st = "owner"]
  /\ UNCHANGED <<vars, version, outcome>>

TakeVenueAnyVersion(m) ==
  /\ cmd[m].st = "decided"
  /\ owner = None /\ shares = {}
  /\ owner' = m
  /\ cmd' = [cmd EXCEPT ![m].st = "owner"]
  /\ UNCHANGED <<vars, version, outcome>>

\* The update waits until no booking shares the row and no other save holds it.
TakeVenue(m) ==
  /\ cmd[m].st = "decided"
  /\ owner = None /\ shares = {}
  /\ version = cmd[m].ver
  /\ owner' = m
  /\ cmd' = [cmd EXCEPT ![m].st = "owner"]
  /\ UNCHANGED <<vars, version, outcome>>

\* Mutant: the venue row stays locked after the command.
FinishKeepingVenue(m) ==
  /\ cmd' = [cmd EXCEPT ![m] = NoCmd]
  /\ tlock' = [t \in Table |-> IF tlock[t] = m THEN None ELSE tlock[t]]
  /\ UNCHANGED <<owner, shares, pc, req, hold>>

\* The transaction's end, committed or rolled back, gives its locks back.
Finish(m) ==
  /\ owner' = IF owner = m THEN None ELSE owner
  /\ cmd' = [cmd EXCEPT ![m] = NoCmd]
  /\ tlock' = [t \in Table |-> IF tlock[t] = m THEN None ELSE tlock[t]]
  /\ UNCHANGED <<shares, pc, req, hold>>

Refused(m) ==
  /\ Finish(m)
  /\ UNCHANGED <<res, closed, version, outcome>>

StaleVersion(m) ==
  /\ cmd[m].st = "decided" /\ owner = None
  /\ version # cmd[m].ver
  /\ Refused(m)

\* Mutant: a decision stands as long as there is something to decide.
AgreedOnCount(m) == (Affected(cmd[m].rule) = {}) <=> (cmd[m].seen = {})

\* The decision covers the bookings found now: the very ones it named, or for
\* a client that names none, some now if and only if there were some then.
Agreed(m) ==
  LET found == Affected(cmd[m].rule)
  IN  IF cmd[m].named THEN found = cmd[m].seen
      ELSE found = {} <=> cmd[m].seen = {}

Planned(m) ==
  LET c == cmd[m].rule
  IN  [r \in Affected(c) |->
         [from |-> res[r].win.from,
          target |-> IF cmd[m].action = "move" THEN MoveTarget(c, res[r].win)
                     ELSE res[r].win]]

MayPlan(m) ==
  /\ outcome[cmd[m].rule] = NoOutcome
  /\ Agreed(m)
  /\ \A r \in DOMAIN Planned(m) : Planned(m)[r].target # None

Plan(m) ==
  /\ cmd[m].st = "owner"
  /\ MayPlan(m)
  /\ cmd' = [cmd EXCEPT ![m].st = "planned", ![m].plan = Planned(m)]
  /\ UNCHANGED <<vars, version, owner, outcome>>

PlanRefused(m) ==
  /\ cmd[m].st = "owner"
  /\ ~MayPlan(m)
  /\ Refused(m)

\* applyTransitions reads the rows again: a status may have changed since.
ReadRows(m) ==
  /\ cmd[m].st = "planned"
  /\ cmd' = [cmd EXCEPT ![m].st = "applying",
                        ![m].rows = [r \in DOMAIN cmd[m].plan |-> res[r].st]]
  /\ UNCHANGED <<vars, version, owner, outcome>>

Moves(m) == IF cmd[m].action = "move" THEN DOMAIN cmd[m].plan ELSE {}
Unlocked(m) == {r \in Moves(m) : tlock[res[r].table] # m}

\* A move takes its table's lock first; the moves go in the order of their starts.
LockMove(m) ==
  /\ cmd[m].st = "applying"
  /\ \E r \in Unlocked(m) :
       /\ \A x \in Unlocked(m) : cmd[m].plan[r].from <= cmd[m].plan[x].from
       /\ tlock[res[r].table] = None
       /\ tlock' = [tlock EXCEPT ![res[r].table] = m]
  /\ UNCHANGED <<res, hold, closed, shares, pc, req, closureVars>>

\* The compare-and-set of a cancel or a move: the status read by ReadRows and
\* the start the impact was computed from.
SameRow(m, r) ==
  res[r].st = cmd[m].rows[r] /\ res[r].win.from = cmd[m].plan[r].from

\* Earlier moves have landed, later ones are where they were.
WindowFor(m, r, x) ==
  IF x \in Moves(m) /\ cmd[m].plan[x].from < cmd[m].plan[r].from
  THEN cmd[m].plan[x].target ELSE res[x].win

\* Mutants: a move looks at the holds only, or at the bookings only.
TargetFreeOfHolds(m, r) ==
  \A h \in Hold : ~HeldOn(h, res[r].table, cmd[m].plan[r].target)

TargetFreeOfBookings(m, r) ==
  \A x \in Rsv \ {r} :
    Booked(x) /\ res[x].table = res[r].table =>
      ~Overlaps(WindowFor(m, r, x), cmd[m].plan[r].target)

TargetFree(m, r) ==
  LET w == cmd[m].plan[r].target
      t == res[r].table
  IN  /\ \A x \in Rsv \ {r} :
           Booked(x) /\ res[x].table = t => ~Overlaps(WindowFor(m, r, x), w)
      /\ \A h \in Hold : ~HeldOn(h, t, w)

Applies(m, r) ==
  CASE cmd[m].action = "cancel" ->
         SameRow(m, r) /\ <<cmd[m].rows[r], "CANCELLED">> \in Transitions
    [] cmd[m].action = "move" -> SameRow(m, r) /\ TargetFree(m, r)
    [] OTHER -> TRUE

Applied(m) ==
  [r \in Rsv |->
     IF r \notin DOMAIN cmd[m].plan THEN res[r]
     ELSE CASE cmd[m].action = "cancel" -> [res[r] EXCEPT !.st = "CANCELLED"]
            [] cmd[m].action = "move" -> [res[r] EXCEPT !.win = cmd[m].plan[r].target]
            [] OTHER -> res[r]]

\* The row locks a cancel or move takes last to the commit, so the tests of
\* all of them may be read at the commit.
Save(m) ==
  LET c == cmd[m].rule
  IN  /\ cmd[m].st = "applying" /\ Unlocked(m) = {}
      /\ \A r \in DOMAIN cmd[m].plan : Applies(m, r)
      /\ res' = Applied(m)
      /\ closed' = Append(closed, c)
      /\ version' = version + 1
      /\ outcome' = [outcome EXCEPT ![c] =
           [r \in Rsv |-> IF r \in DOMAIN cmd[m].plan THEN cmd[m].action ELSE "none"]]
      /\ Finish(m)

\* One transition that cannot be applied refuses the whole closure.
ApplyRefused(m) ==
  /\ cmd[m].st = "applying" /\ Unlocked(m) = {}
  /\ ~ \A r \in DOMAIN cmd[m].plan : Applies(m, r)
  /\ Refused(m)

(***************************************************************************)
(* A reopen removes the rule in one transaction on the venue row, whatever *)
(* the version; it may not strand a booking. Cancelled guests stay         *)
(* cancelled and the outcomes stay on record.                              *)
(***************************************************************************)
Reopen(m, c) ==
  /\ cmd[m].st = "idle"
  /\ owner = None /\ shares = {}
  /\ version < MaxVersion
  /\ \E i \in DOMAIN closed :
       LET rest == RemoveAt(closed, i)
       IN  /\ closed[i] = c
           /\ \A r \in Rsv : Booked(r) /\ Stranded(rest, r) => Stranded(closed, r)
           /\ closed' = rest
  /\ version' = version + 1
  /\ UNCHANGED <<tables, tlock, owner, cmd, outcome>>

Command(m) ==
  \/ TakeVenue(m) \/ StaleVersion(m) \/ Plan(m) \/ PlanRefused(m) \/ ReadRows(m)
  \/ LockMove(m) \/ Save(m) \/ ApplyRefused(m)

\* Mutant: a booking reads the configuration beside a save.
ShareAtOnce == TRUE

\* A booking's FOR SHARE waits while a save holds the venue row.
ShareWaits == owner # None => shares' \subseteq shares

Book ==
  /\ (\E p \in Proc : Ask(p) \/ Step(p)) \/ Aside
  /\ ShareWaits
  /\ UNCHANGED closureVars

AllIdle ==
  /\ \A p \in Proc : pc[p] = "idle"
  /\ \A m \in Mgr : cmd[m].st = "idle"
  /\ UNCHANGED allVars

NextClosures ==
  \/ Book
  \/ \E m \in Mgr :
       \/ \E c \in Closure, action \in Decisions, named \in BOOLEAN :
            Decide(m, c, action, named)
       \/ Command(m)
       \/ \E c \in Closure : Reopen(m, c)
  \/ AllIdle

SpecClosures == InitClosures /\ [][NextClosures]_allVars

(***************************************************************************)
(* Steps that can run do run, and a lock that is free again and again is   *)
(* granted: PostgreSQL queues the waiters of a row and of an advisory lock.*)
(***************************************************************************)
FairClosures ==
  /\ SpecClosures
  /\ \A p \in Proc :
       /\ WF_allVars(Step(p) /\ ShareWaits /\ UNCHANGED closureVars)
       /\ SF_allVars((ShareVenue(p) \/ LockTable(p)) /\ ShareWaits
                       /\ UNCHANGED closureVars)
  /\ \A m \in Mgr :
       /\ WF_allVars(Command(m))
       /\ SF_allVars(TakeVenue(m) \/ StaleVersion(m))
       /\ SF_allVars(LockMove(m))

-----------------------------------------------------------------------------
(* Properties.                                                             *)

KeptBySomeone(r) == \E c \in Closure : outcome[c][r] = "keep"

\* After any saved closure, no booking starts in the time it closes to the
\* venue, or on a table it blocks, unless a manager chose to keep it. Walk-ins
\* skip the gate and are counted, never refused (closure-apply.ts, venue-availability/prd.md).
NoUndecidedStart ==
  \A r \in Rsv : Booked(r) /\ ~res[r].walkIn =>
    \A c \in ToSet(closed) :
      \/ ClosesVenue(Band[c]) /\ InBand(res[r].win.from, Band[c])
      \/ BlocksTable(Band[c], res[r].win.from, res[r].table)
      => KeptBySomeone(r)

\* The gate's verdict is still the verdict of the configuration in force when
\* the booking is written (book-slot.ts, venueShareLockSql).
GateVerdictHolds ==
  \A p \in Proc : pc[p] = "passed" /\ Gated(req[p]) => GateOpen(req[p])

\* A decision that named its bookings is applied to those bookings only: nobody
\* is cancelled or moved whom the manager was not shown (closure-command-plan.ts).
OnlyTheSeen ==
  [][\A m \in Mgr, c \in Closure :
       owner = m /\ cmd[m].named /\ outcome'[c] # outcome[c] =>
         {r \in Rsv : outcome'[c][r] # "none"} = cmd[m].seen]_allVars

\* A save or reopen decided on one version never overwrites a configuration it
\* did not read: each commits on the version it matched or locked.
NoLostSave ==
  [][closed' # closed => owner' = None /\ version' = version + 1
       /\ \A m \in Mgr : owner = m => cmd[m].ver = version]_allVars

\* Every booking request is answered and every closure command ends, unless
\* bookings share the venue row without a gap for ever: the lock order venue
\* row, then table, leaves no cycle of waits (book-slot.ts).
AllAnswered ==
  /\ \A p \in Proc : pc[p] # "idle" ~> pc[p] = "idle"
  /\ \A m \in Mgr : cmd[m].st # "idle" ~> cmd[m].st = "idle" \/ [](shares # {})
=============================================================================
