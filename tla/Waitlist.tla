------------------------------ MODULE Waitlist ------------------------------
(***************************************************************************)
(* The walk-in waitlist of one venue: the hosts' requests, the expiry jobs *)
(* of the notified parties, and the renumbering that follows both.         *)
(*                                                                         *)
(* No request takes a lock. A renumbering reads the waiting parties, and   *)
(* later writes their positions by id, whatever they have become.          *)
(*                                                                         *)
(* Simplifications: texts and estimates are left out, and so is the clock, *)
(* so an expiry job may run at any time after it was scheduled.            *)
(***************************************************************************)
EXTENDS Naturals, FiniteSets, SequencesExt, JobQueue

CONSTANTS
  Guest,     \* parties
  Host,      \* requests of hosts and guests that may be served at one time
  Settings,  \* who comes to the venue and what may happen, in a behaviour
  Attempts,  \* attempts of an expiry job
  None

ASSUME WaitlistAssumption ==
  /\ IsFiniteSet(Guest) /\ Guest \cap Host = {}
  /\ None \notin {"end", "schedule", "throw"}
  /\ Attempts \in Nat \ {0}

VARIABLES
  setting,   \* who comes and what may happen, which never changes
  status,    \* WaitlistEntry.status, "none" before the party joined
  position,  \* WaitlistEntry.position
  arrived,   \* the parties in the order in which they joined
  offered,   \* tables the hosts have offered, the ones taken back not counted
  queue,     \* the expiry job of each party
  h          \* each request, and each job under the name of its party

vars == <<setting, status, position, arrived, offered, queue, h>>

Proc == Host \cup Guest

Status == {"none", "waiting", "notified", "seated", "cancelled", "expired"}
Gone == {"seated", "cancelled"}

Idle == [pc |-> "idle", who |-> None, count |-> 0, list |-> <<>>, then |-> None]

May(what) == what \in setting.may
Quiet == \A a \in Proc : h[a] = Idle
Waiting == {g \in Guest : status[g] = "waiting"}

\* Mutant: the order of the positions is left out.
AnyOrder == SetToSeqs(Waiting)

\* orderBy position: parties at the same position come in any order.
InOrder == {s \in SetToSeqs(Waiting) :
              \A i, j \in DOMAIN s : i < j => position[s[i]] <= position[s[j]]}

-----------------------------------------------------------------------------
(* What a request or a job does next.                                      *)

Does(a, x) == h' = [h EXCEPT ![a] = x]
Go(x, pc) == [x EXCEPT !.pc = pc]
Over(how) == [Idle EXCEPT !.pc = how]
Renumber(x, then) == [x EXCEPT !.pc = "list", !.then = then]

Rows == <<status, position, arrived, offered>>

\* Nobody else is at work, unless requests may overlap.
Enter(a) == h[a] = Idle /\ (~May("overlap") => Quiet)

SetStatus(g, to) == status' = [status EXCEPT ![g] = to]

-----------------------------------------------------------------------------
(* Joining, seating, cancelling, and expiring by hand.                     *)

\* The parties ask to join in the order of the setting.
Joining(g) == \E b \in Host : h[b].pc = "insert" /\ h[b].who = g
Came(g) == status[g] # "none" \/ Joining(g)
ComesNext(g) ==
  /\ ~Came(g)
  /\ \E i \in DOMAIN setting.parties :
       setting.parties[i] = g /\ \A j \in 1 .. i - 1 : Came(setting.parties[j])

\* create counts the waiting parties, and later inserts behind them.
Join(a, g) ==
  /\ Enter(a) /\ ComesNext(g)
  /\ Does(a, [Idle EXCEPT !.pc = "insert", !.who = g, !.count = Cardinality(Waiting)])
  /\ UNCHANGED <<setting, Rows, queue>>

\* Mutant: the new party leaves a position free before it.
CalculatePositionGap(count) == count + 2

CalculatePosition(count) == count + 1

Insert(a) ==
  LET g == h[a].who IN
  /\ h[a].pc = "insert"
  /\ SetStatus(g, "waiting")
  /\ position' = [position EXCEPT ![g] = CalculatePosition(h[a].count)]
  /\ arrived' = Append(arrived, g)
  /\ Does(a, Idle)
  /\ UNCHANGED <<setting, offered, queue>>

\* seat and cancel write whatever the status is, and renumber.
Leave(a, g, to) ==
  /\ Enter(a) /\ May(to) /\ status[g] # "none"
  /\ SetStatus(g, to)
  /\ Does(a, Renumber(Idle, "end"))
  /\ UNCHANGED <<setting, position, arrived, offered, queue>>

\* Mutant: the expiry is written whatever the status is.
ExpiredAnyway(st) == "expired"

\* expire: only a notified party expires.
Expired(st) == IF st = "notified" THEN "expired" ELSE st

ExpireByHand(g) ==
  /\ status[g] # "none" /\ (~May("overlap") => Quiet)
  /\ SetStatus(g, Expired(status[g]))
  /\ UNCHANGED <<setting, position, arrived, offered, queue, h>>

-----------------------------------------------------------------------------
(* Telling a party that its table is ready.                                *)

\* Mutant: a notified party leaves a gap behind it.
NotifyNext(x) == Go(x, "schedule")

\* After markNotified the gap behind the party is closed, then the job is
\* scheduled.
AfterMark(x) == Renumber(x, "schedule")

\* notifyTableReady for a party: only one that still waits is notified.
Mark(a, x) ==
  IF status[x.who] = "waiting"
  THEN SetStatus(x.who, "notified") /\ Does(a, AfterMark(x))
  ELSE UNCHANGED status /\ Does(a, Over("end"))

Notify(a, g) ==
  /\ Enter(a) /\ a \in Host /\ status[g] = "waiting"
  /\ Mark(a, [Idle EXCEPT !.who = g])
  /\ offered' = offered + 1
  /\ UNCHANGED <<setting, position, arrived, queue>>

\* recalculateVenuePositions: read, and later write.
ListWaiting(a) ==
  /\ h[a].pc = "list"
  /\ \E s \in InOrder : Does(a, [h[a] EXCEPT !.pc = "number", !.list = s])
  /\ UNCHANGED <<setting, Rows, queue>>

Number(a) ==
  LET s == h[a].list IN
  /\ h[a].pc = "number"
  /\ position' = [g \in Guest |-> IF Contains(s, g) THEN CHOOSE i \in DOMAIN s : s[i] = g
                                  ELSE position[g]]
  /\ Does(a, [h[a] EXCEPT !.pc = h[a].then, !.list = <<>>, !.then = None])
  /\ UNCHANGED <<setting, status, arrived, offered, queue>>

\* Mutant: an error leaves the party notified.
AfterErrorKeep == "throw"

\* An error takes the party back to the queue; without any queue it stays.
AfterError == "revert"

Schedule(a) ==
  LET g == h[a].who
      Added == queue' = [queue EXCEPT ![g] = Scheduled(@)]
  IN
  /\ h[a].pc = "schedule"
  /\ \/ ~May("absent") /\ Added /\ Does(a, Over("end"))
     \/ May("absent") /\ UNCHANGED queue /\ Does(a, Over("end"))
     \/ May("error") /\ UNCHANGED queue /\ Does(a, Go(h[a], AfterError))
     \/ May("lost") /\ Added /\ Does(a, Go(h[a], AfterError))
  /\ UNCHANGED <<setting, Rows>>

\* Mutant: the party returns to the queue whatever became of it.
RevertedAnyway(st) == "waiting"

\* revertNotified: only a party that is still notified returns to the queue,
\* under the position it had.
Reverted(st) == IF st = "notified" THEN "waiting" ELSE st

Revert(a) ==
  LET g == h[a].who
      back == status[g] = "notified"
  IN
  /\ h[a].pc = "revert"
  /\ SetStatus(g, Reverted(status[g]))
  /\ offered' = IF back /\ a \in Host THEN offered - 1 ELSE offered
  /\ Does(a, IF back THEN Renumber(Idle, "throw") ELSE Over("throw"))
  /\ UNCHANGED <<setting, position, arrived, queue>>

\* The request answers; the job ends, or is tried again after an error.
Finish(a) ==
  /\ h[a].pc \in {"end", "throw"}
  /\ Does(a, Idle)
  /\ queue' = IF a \in Host THEN queue
              ELSE [queue EXCEPT ![a] = IF h[a].pc = "end" THEN Ended(@)
                                        ELSE Thrown(@, Attempts, FALSE)]
  /\ UNCHANGED <<setting, Rows>>

-----------------------------------------------------------------------------
(* The expiry job of a party.                                              *)

\* The claim window of a notified party is over.
Fire(g) ==
  /\ queue[g].st = "ready" /\ Enter(g)
  /\ queue' = [queue EXCEPT ![g] = Taken(@)]
  /\ Does(g, [Idle EXCEPT !.pc = "expire", !.who = g])
  /\ UNCHANGED <<setting, Rows>>

\* Mutant: the job goes on although its party is gone.
AfterExpireAnyway(st) == "next"

\* handleExpiry: the table goes to the next party only if this one expired.
AfterExpire(st) == IF st = "notified" THEN "next" ELSE "end"

Expire(g) ==
  /\ h[g].pc = "expire"
  /\ SetStatus(g, Expired(status[g]))
  /\ Does(g, Over(AfterExpire(status[g])))
  /\ UNCHANGED <<setting, position, arrived, offered, queue>>

\* listWaiting: the table is offered to the first party of the queue.
OfferNext(g) ==
  /\ h[g].pc = "next"
  /\ \/ Waiting = {} /\ Does(g, Over("end"))
     \/ \E s \in InOrder : s # <<>> /\ Does(g, [h[g] EXCEPT !.pc = "mark", !.who = s[1]])
  /\ UNCHANGED <<setting, Rows, queue>>

MarkNext(g) ==
  /\ h[g].pc = "mark"
  /\ Mark(g, h[g])
  /\ UNCHANGED <<setting, position, arrived, offered, queue>>

\* A process dies. Its requests are gone; its jobs stall and come back.
Crash(a) ==
  /\ May("crash") /\ h[a] # Idle
  /\ Does(a, Idle)
  /\ UNCHANGED <<setting, Rows, queue>>

Stall(g) ==
  /\ queue[g].st = "active" /\ h[g] = Idle
  /\ \E job \in Stalled(queue[g]) : queue' = [queue EXCEPT ![g] = job]
  /\ UNCHANGED <<setting, Rows, h>>

-----------------------------------------------------------------------------
(* The specification. *)

Init ==
  /\ setting \in Settings
  /\ status = [g \in Guest |-> "none"]
  /\ position = [g \in Guest |-> 0]
  /\ arrived = <<>> /\ offered = 0
  /\ queue = [g \in Guest |-> NoJob]
  /\ h = [a \in Proc |-> Idle]

Ask(a) ==
  \/ \E g \in Guest : Join(a, g) \/ Notify(a, g)
  \/ \E g \in Guest, to \in Gone : Leave(a, g, to)

Goes(a) ==
  \/ Insert(a) \/ ListWaiting(a) \/ Number(a) \/ Schedule(a) \/ Revert(a) \/ Finish(a)

Works(g) == Expire(g) \/ OfferNext(g) \/ MarkNext(g)

Next ==
  \/ \E a \in Host : Ask(a)
  \/ \E a \in Proc : Goes(a) \/ Crash(a)
  \/ \E g \in Guest : ExpireByHand(g) \/ Fire(g) \/ Works(g) \/ Stall(g)

Spec == Init /\ [][Next]_vars

\* Requests that were asked for go on and due jobs are run. The hosts need not
\* ask for anything.
Fairness ==
  /\ \A a \in Proc : WF_vars(Goes(a))
  /\ \A g \in Guest : SF_vars(Fire(g)) /\ WF_vars(Works(g))
FairSpec == Spec /\ Fairness
-----------------------------------------------------------------------------
(* Properties. *)

\* Every variable has its type, nobody holds a position beyond the number of
\* parties, and only joined parties have jobs.
TypeOK ==
  /\ setting \in Settings
  /\ \A g \in Guest :
       /\ status[g] \in Status /\ position[g] \in 0 .. Cardinality(Guest)
       /\ queue[g].st \in JobStates /\ queue[g].tries \in 0 .. Attempts - 1
       /\ status[g] = "none" => queue[g] = NoJob
  /\ \A a \in Proc :
       /\ h[a].who \in Guest \cup {None} /\ h[a].count \in 0 .. Cardinality(Guest)
       /\ ToSet(h[a].list) \subseteq Guest
  /\ offered \in 0 .. Cardinality(Guest)

\* A party that was seated or cancelled never comes back to the queue, whatever
\* requests and jobs about it were still under way.
GoneStaysGone ==
  [][\A g \in Guest : status[g] \in Gone => status'[g] \in Gone]_vars

\* One table is never promised to two parties: as many parties hold a claim as
\* there are tables that hosts have offered, however often a job is run.
OneGuestPerTable == Cardinality({g \in Guest : status[g] = "notified"}) <= offered

\* Between requests that do not overlap and do not die, the waiting parties hold
\* the positions from one to their number.
PositionsDense ==
  Quiet /\ ~May("overlap") /\ ~May("crash") =>
    {position[g] : g \in Waiting} = 1 .. Cardinality(Waiting)

\* A waiting party is never behind one that joined after it, as long as no
\* notified party had to be taken back.
KeepsPlace ==
  Quiet /\ setting.may \cap {"overlap", "crash", "error", "lost"} = {} =>
    \A i, j \in DOMAIN arrived :
      i < j /\ {arrived[i], arrived[j]} \subseteq Waiting =>
        position[arrived[i]] < position[arrived[j]]

\* A claim ends: with a queue to run the jobs, a notified party does not hold its
\* table for ever, also when no host acts and some jobs cannot be scheduled. It says
\* nothing of settings in which an answer of the queue is lost or a process dies:
\* there a notified party can be left without a job that will end its claim.
ClaimEnds ==
  \A g \in Guest :
    (status[g] = "notified" /\ setting.may \cap {"absent", "crash", "lost"} = {})
      ~> status[g] # "notified"
=============================================================================
