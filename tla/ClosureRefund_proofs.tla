------------------------ MODULE ClosureRefund_proofs ------------------------
(***************************************************************************)
(* What TLAPS proves of ClosureRefund for any number of Retries, attempts, *)
(* rereads and faults: a refund recorded as settled is the truth at rest,  *)
(* a failure shows, and none is shown over what was settled.               *)
(***************************************************************************)
EXTENDS ClosureRefund, TLAPS

-----------------------------------------------------------------------------
(* The invariant. *)

\* Where refunds may fail after they were accepted, jobs come one after another, and
\* no outcome is recorded between the two statements of the refund webhook.
FailingAlone == \A s \in Settings : "failing" \in s.may => {"solo", "whole"} \subseteq s.may

RowStatus == {"pending", "held", "refunded", "forfeited", "uncollectable"}
IntentStatus == {"unconfirmed", "requires_capture", "canceled", "succeeded"}
WorkStates == [pc : Pcs, res : Settled \cup {None}, reads : 0 .. MaxRereads - 1,
           owed : 0 .. Paid, failed : 0 .. 1, perm : BOOLEAN]
Queued == [st : JobStates, tries : 0 .. Attempts - 1]

WorldTyped ==
  /\ row \in RowStatus /\ late \in {"claim", "capture", "done"}
  /\ intent \in IntentStatus
  /\ ours \in 0 .. Paid /\ dash \in 0 .. 1 /\ lost \in 0 .. 1 /\ ours + dash <= Paid
  /\ keys \subseteq Nat \X Nat
  /\ mail \subseteq {"authorized", "released", "expired", "refund_failed"}
  /\ faults \in 0 .. MaxFaults

Typed ==
  /\ setting \in Settings /\ outcome \in RefundStatus
  /\ queue \in [Jobs -> Queued] /\ w \in [Jobs -> WorkStates]
  /\ \A j \in Jobs : w[j] # Idle <=> w[j].pc # "idle"
  /\ \A j \in Jobs : w[j] # Idle => queue[j].st = "active"
  /\ mgr = NoRequest \/ mgr \in [step : {1, 2}, was : {"failed", "pending"}]
  /\ sweep \in BOOLEAN /\ hook \in {"idle", "mark", "look"}
  /\ WorldTyped

\* What the provider's state says about its past, and about the row.
Booked ==
  /\ ours > 0 => ours + dash = Paid
  /\ ours > 0 \/ dash > 0 \/ lost > 0 => intent = "succeeded"
  /\ CancelKey \in keys => intent = "canceled"
  /\ \A key \in keys : key # CancelKey => key[2] < lost \/ (key[2] = lost /\ ours > 0)
  /\ row # "pending" \/ "authorized" \in mail => intent # "unconfirmed"
  /\ row = "uncollectable" \/ "released" \in mail \/ "expired" \in mail => intent = "canceled"
  /\ hook # "idle" => "refund_failed" \in mail
  /\ "refund_failed" \in mail => lost > 0
  /\ lost > 0 => May("failing")

\* The guest's money is back, or was never taken.
Truth == intent = "canceled" \/ (intent = "succeeded" /\ ours + dash >= Paid)
Announced == "refund_failed" \in mail

\* An attempt goes by what still holds. Only a refund that failed after the
\* attempt saw it can make its result untrue, and then the webhook finds the
\* outcome still pending and comes back.
Grounded(x) ==
  /\ x.pc \in {"record", "write_off"} => x.res # None
  /\ x.pc \in {"hold", "void"} => intent # "unconfirmed"
  /\ x.pc \in {"find", "amounts", "count", "create"} => intent = "succeeded"
  /\ x.pc = "write_off" \/ x.res = "none" => intent = "canceled"
  /\ x.pc \in {"count", "create"} => x.owed > 0 /\ x.owed >= Paid - dash
  /\ x.pc = "create" => x.failed <= lost
  /\ May("solo") /\ x.pc \in {"amounts", "count", "create"} => ours = 0
  /\ May("solo") /\ x.pc = "create" => x.failed = lost
  /\ FailingAlone /\ x.res # None => Truth \/ (Announced /\ outcome = "pending")

Settles ==
  /\ outcome = "none" => intent = "canceled"
  /\ FailingAlone /\ outcome \in Settled => Truth \/ Announced
  /\ May("whole") /\ hook = "look" => outcome # "done"

\* Jobs that come one after another: until a refund fails, the one that runs
\* finds the outcome as the one before it left it.
Early == {"idle", "load", "recheck", "reopen", "end"}
Timely(x) ==
  May("solo") /\ lost = 0 =>
    /\ x.pc \in {"recheck", "reopen"} => outcome = "done"
    /\ x.pc \notin Early => outcome = "pending"
    /\ x.pc \in Early => x.res = None

TakesTurns ==
  May("solo") =>
    /\ \A j, k \in Jobs : LiveJob(queue[j]) /\ LiveJob(queue[k]) => j = k
    /\ mgr # NoRequest => \A j \in Jobs : ~LiveJob(queue[j])
    /\ lost = 0 /\ (mgr.step = 2 \/ \E j \in Jobs : LiveJob(queue[j])) => outcome # "failed"

\* Until something is lost: whoever leaves a pending outcome behind leaves it to
\* a job that will still say how it went, or to a Retry about to add one.
Left(j) == queue[j].st = "ended" \/ w[j].pc \in {"recheck", "end"}
WillSay(j) == queue[j].st = "ready" \/ w[j].pc \notin {"idle", "recheck", "end"}
Answered ==
  faults = 0 =>
    /\ \A j \in Jobs : queue[j].st = "active" => w[j] # Idle
    /\ outcome = "pending" /\ (\E j \in Jobs : Left(j)) =>
         mgr.step = 2 \/ \E j \in Jobs : WillSay(j)

RefundInv ==
  /\ Typed /\ Booked /\ Settles /\ TakesTurns
  /\ \A j \in Jobs : Grounded(w[j]) /\ Timely(w[j])

-----------------------------------------------------------------------------
(* Attempts and jobs.                                                      *)

LEMMA IdleShape ==
  /\ Idle \in WorkStates /\ Idle.pc = "idle" /\ Idle.res = None
  /\ NoRequest.step = 0
BY RefundAssumption DEF Idle, NoRequest, WorkStates, Pcs, Paid, Settled

\* What an attempt becomes.
LEMMA Shapes ==
  ASSUME NEW x \in WorkStates
  PROVE  /\ \A pc \in Pcs : /\ Go(x, pc) \in WorkStates /\ Go(x, pc).pc = pc
                            /\ Go(x, pc).res = x.res /\ Go(x, pc).owed = x.owed
         /\ \A res \in Settled : /\ Result(x, res) \in WorkStates /\ Result(x, res).pc = "record"
                                 /\ Result(x, res).res = res
         /\ \A p \in BOOLEAN : /\ Fails(x, p) \in WorkStates /\ Fails(x, p).pc = "throw"
                               /\ Fails(x, p).res = None
         /\ Reread(x) \in WorkStates
         /\ Reread(x).pc \in {"read", "throw"} /\ Reread(x).res \in {None, x.res}
<1>1. \A pc \in Pcs : /\ Go(x, pc) \in WorkStates /\ Go(x, pc).pc = pc
                      /\ Go(x, pc).res = x.res /\ Go(x, pc).owed = x.owed
  BY DEF Go, WorkStates
<1>2. ASSUME NEW res \in Settled
      PROVE  Result(x, res) \in WorkStates /\ Result(x, res).pc = "record" /\ Result(x, res).res = res
  <2>1. PICK y : y = [[Idle EXCEPT !.pc = "record"] EXCEPT !.res = res]
    OBVIOUS
  <2>2. y = [pc |-> "record", res |-> res, reads |-> 0, owed |-> 0, failed |-> 0, perm |-> FALSE]
    BY <2>1 DEF Idle
  <2>3. y \in WorkStates /\ y.pc = "record" /\ y.res = res
    BY <2>2, RefundAssumption DEF WorkStates, Pcs, Paid
  <2> QED BY <2>1, <2>3 DEF Result
<1>3. ASSUME NEW p \in BOOLEAN
      PROVE  Fails(x, p) \in WorkStates /\ Fails(x, p).pc = "throw" /\ Fails(x, p).res = None
  <2>1. PICK y : y = [[Idle EXCEPT !.pc = "throw"] EXCEPT !.perm = p]
    OBVIOUS
  <2>2. y = [pc |-> "throw", res |-> None, reads |-> 0, owed |-> 0, failed |-> 0, perm |-> p]
    BY <2>1 DEF Idle
  <2>3. y \in WorkStates /\ y.pc = "throw" /\ y.res = None
    BY <2>2, RefundAssumption DEF WorkStates, Pcs, Paid
  <2> QED BY <2>1, <2>3 DEF Fails
<1>4. /\ Reread(x) \in WorkStates
      /\ Reread(x).pc \in {"read", "throw"} /\ Reread(x).res \in {None, x.res}
  <2>1. CASE x.reads + 1 >= MaxRereads
    BY <1>3, <2>1 DEF Reread
  <2>2. CASE ~(x.reads + 1 >= MaxRereads)
    <3>1. x.reads + 1 \in 0 .. MaxRereads - 1
      BY <2>2, RefundAssumption DEF WorkStates
    <3>2. Reread(x) = [x EXCEPT !.pc = "read", !.reads = x.reads + 1]
      BY <2>2 DEF Reread
    <3> QED BY <3>1, <3>2 DEF WorkStates, Pcs
  <2> QED BY <2>1, <2>2
<1> QED BY <1>1, <1>2, <1>3, <1>4

LEMMA JobShapes ==
  ASSUME NEW job \in Queued
  PROVE  /\ NoJob \in Queued /\ Ready \in Queued /\ Ready.st = "ready"
         /\ Ended(job) \in Queued /\ Ended(job).st = "ended"
         /\ Taken(job) \in Queued /\ Taken(job).st = "active"
         /\ Scheduled(job) \in Queued /\ (job.st = "none" => Scheduled(job) = Ready)
         /\ Requeued(job) \in Queued /\ Requeued(job) \in {job, Ready}
         /\ \A p \in BOOLEAN :
              /\ Thrown(job, Attempts, p) \in Queued
              /\ Thrown(job, Attempts, p).st =
                   IF p \/ IsFinalAttempt(job, Attempts) THEN "ended" ELSE "ready"
         /\ \A x \in Stalled(job) : x \in Queued /\ x.st \in {"ready", "ended"}
<1>1. job.tries \in Nat /\ job.st \in JobStates /\ job.tries < Attempts /\ Attempts \in Nat
  BY RefundAssumption DEF Queued
<1>2. /\ NoJob \in Queued /\ Ready \in Queued /\ Ready.st = "ready"
  BY RefundAssumption DEF NoJob, Ready, Queued, JobStates
<1>3. /\ Ended(job) \in Queued /\ Ended(job).st = "ended"
      /\ Taken(job) \in Queued /\ Taken(job).st = "active"
      /\ [job EXCEPT !.st = "ready"] \in Queued /\ [job EXCEPT !.st = "ready"].st = "ready"
  BY DEF Ended, Taken, Queued, JobStates
<1>4. /\ Scheduled(job) \in Queued /\ (job.st = "none" => Scheduled(job) = Ready)
      /\ Requeued(job) \in Queued /\ Requeued(job) \in {job, Ready}
  BY <1>2 DEF Scheduled, Requeued
<1>5. ASSUME NEW p \in BOOLEAN
      PROVE  /\ Thrown(job, Attempts, p) \in Queued
             /\ Thrown(job, Attempts, p).st =
                  IF p \/ IsFinalAttempt(job, Attempts) THEN "ended" ELSE "ready"
  <2>1. CASE p \/ IsFinalAttempt(job, Attempts)
    BY <1>3, <2>1 DEF Thrown
  <2>2. CASE ~(p \/ IsFinalAttempt(job, Attempts))
    <3>1. Thrown(job, Attempts, p) = [st |-> "ready", tries |-> job.tries + 1]
      BY <2>2 DEF Thrown
    <3>2. job.tries + 1 \in 0 .. Attempts - 1
      BY <1>1, <2>2 DEF IsFinalAttempt
    <3> QED BY <2>2, <3>1, <3>2 DEF Queued, JobStates
  <2> QED BY <2>1, <2>2
<1>6. \A x \in Stalled(job) : x \in Queued /\ x.st \in {"ready", "ended"}
  BY <1>3 DEF Stalled
<1> QED BY <1>2, <1>3, <1>4, <1>5, <1>6

-----------------------------------------------------------------------------
(* A step of an attempt, up to where it records.                           *)

\* The provider never takes anything back, but for refunds that fail.
Forward ==
  /\ intent \in {"canceled", "succeeded"} => intent' = intent
  /\ intent # "unconfirmed" => intent' # "unconfirmed"
  /\ ours' >= ours /\ dash' >= dash /\ lost' = lost
  /\ Announced => Announced'

LEMMA Sums ==
  \A a, b, c, d \in Nat : c >= a /\ d >= b /\ a + b >= Paid => c + d >= Paid
BY DEF Paid

LEMMA TruthStays ==
  ASSUME Typed, Forward, ours' \in Nat, dash' \in Nat
  PROVE  Truth => Truth'
<1>1. ours \in Nat /\ dash \in Nat
  BY DEF Typed, WorldTyped
<1>2. ours' >= ours /\ dash' >= dash
  BY DEF Forward
<1>3. ours + dash >= Paid => ours' + dash' >= Paid
  BY <1>1, <1>2, Sums
<1> QED BY <1>3 DEF Forward, Truth

\* In turns, who is at work is alone.
LEMMA AtWorkAlone ==
  ASSUME RefundInv, NEW j \in Jobs, w[j] # Idle \/ LiveJob(queue[j]), May("solo")
  PROVE  mgr = NoRequest /\ \A k \in Jobs \ {j} : ~LiveJob(queue[k]) /\ w[k] = Idle
BY DEF RefundInv, Typed, TakesTurns, LiveJob

\* An attempt knows what it knew: what it goes by is not taken back, and in turns
\* nobody else is at work.
LEMMA StillGrounded ==
  ASSUME RefundInv, Forward, WorldTyped', setting' = setting,
         NEW x \in WorkStates, Grounded(x),
         (ours' = ours /\ outcome' = outcome) \/ (May("solo") => x = Idle)
  PROVE  Grounded(x)'
<1>1. CASE x = Idle
  <2>1. x.pc = "idle" /\ x.res = None /\ x.res # "none"
    BY <1>1, IdleShape, RefundAssumption
  <2> QED BY <2>1 DEF Grounded
<1>2. CASE x # Idle
  <2>2. Truth => Truth'
    BY TruthStays DEF RefundInv, WorldTyped, Paid
  <2>3. x.owed >= Paid - dash => x.owed >= Paid - dash'
    <3>1. dash \in Nat /\ dash' \in Nat /\ dash' >= dash /\ x.owed \in Nat
      BY DEF RefundInv, Typed, WorldTyped, Forward, WorkStates
    <3>2. \A p, d, e \in Nat : e >= d /\ p >= Paid - d => p >= Paid - e
      BY DEF Paid
    <3> QED BY <3>1, <3>2
  <2>4. /\ x.pc \in {"record", "write_off"} => x.res # None
        /\ x.pc \in {"hold", "void"} => intent' # "unconfirmed"
        /\ x.pc \in {"find", "amounts", "count", "create"} => intent' = "succeeded"
        /\ x.pc = "write_off" \/ x.res = "none" => intent' = "canceled"
        /\ x.pc \in {"count", "create"} => x.owed > 0 /\ x.owed >= Paid - dash'
        /\ x.pc = "create" => x.failed <= lost'
    BY <2>3 DEF Grounded, Forward
  <2>5. /\ May("solo")' /\ x.pc \in {"amounts", "count", "create"} => ours' = 0
        /\ May("solo")' /\ x.pc = "create" => x.failed = lost'
    BY <1>2 DEF Grounded, Forward, May
  <2>6. FailingAlone /\ x.res # None => Truth' \/ (Announced' /\ outcome' = "pending")
    <3>1. CASE May("solo")
      BY <1>2, <2>2, <3>1 DEF Grounded, Forward
    <3>2. CASE ~May("solo")
      BY <2>2, <3>2 DEF Grounded, RefundInv, Booked, Announced, May, FailingAlone, Typed
    <3> QED BY <3>1, <3>2
  <2> QED BY <2>4, <2>5, <2>6 DEF Grounded
<1> QED BY <1>1, <1>2

LEMMA OthersGrounded ==
  ASSUME RefundInv, Forward, WorldTyped', setting' = setting,
         NEW k \in Jobs, w'[k] = w[k],
         (ours' = ours /\ outcome' = outcome) \/ (May("solo") => w[k] = Idle)
  PROVE  Grounded(w[k])'
<1>1. PICK x \in WorkStates : x = w[k] /\ x = w'[k] /\ Grounded(x)
  BY DEF RefundInv, Typed
<1>2. Grounded(x)'
  BY <1>1, StillGrounded
<1> QED BY <1>1, <1>2 DEF Grounded

\* The attempt at j goes on, and has still to say how it went.
GoesOn(j) ==
  /\ UNCHANGED <<outcome, queue, requests>>
  /\ w'[j].pc \notin Early /\ \A k \in Jobs \ {j} : w'[k] = w[k]

\* A step of j that leaves the outcome and the jobs alone.
LEMMA StepKeeps ==
  ASSUME RefundInv, NEW j \in Jobs, w[j] # Idle,
         NEW y \in WorkStates, y.pc # "idle", w' = [w EXCEPT ![j] = y],
         UNCHANGED <<setting, outcome, queue, requests>>,
         Forward, WorldTyped', Booked', Grounded(y)', Timely(y)
  PROVE  RefundInv' /\ (y.pc \notin Early => GoesOn(j))
<1>1. w'[j] = y /\ y # Idle /\ \A k \in Jobs \ {j} : w'[k] = w[k]
  BY IdleShape DEF RefundInv, Typed
<1>2. Typed'
  BY <1>1 DEF RefundInv, Typed, requests
<1>3. \A k \in Jobs : Grounded(w[k])'
  <2>1. \A k \in Jobs \ {j} : May("solo") => w[k] = Idle
    BY AtWorkAlone
  <2>2. \A k \in Jobs \ {j} : Grounded(w[k])'
    BY <1>1, <2>1, OthersGrounded
  <2> QED BY <1>1, <2>2 DEF Grounded
<1>4. \A k \in Jobs : Timely(w[k])'
  BY <1>1 DEF RefundInv, Timely, Forward, May
<1>5. Settles'
  BY TruthStays DEF RefundInv, Settles, May, requests, Forward, WorldTyped, Paid, Settled
<1>6. TakesTurns'
  BY DEF RefundInv, TakesTurns, Forward, May, requests
<1> QED BY <1>1, <1>2, <1>3, <1>4, <1>5, <1>6 DEF RefundInv, GoesOn

\* A step of j that writes nothing but the row, or nothing at all.
LEMMA RowKeeps ==
  ASSUME RefundInv, NEW j \in Jobs, w[j] # Idle,
         NEW y \in WorkStates, y.pc # "idle", w' = [w EXCEPT ![j] = y],
         UNCHANGED <<setting, outcome, queue, requests, late, provider>>,
         row' \in RowStatus, row' # "pending" => intent # "unconfirmed",
         row' = "uncollectable" => intent = "canceled", faults' \in 0 .. MaxFaults,
         Grounded(y), Timely(y)
  PROVE  RefundInv' /\ (y.pc \notin Early => GoesOn(j))
<1>1. Forward /\ WorldTyped' /\ Booked'
  BY DEF RefundInv, Typed, WorldTyped, Booked, Forward, Announced, requests, provider, May, Paid
<1>2. Grounded(y)'
  BY DEF Grounded, Truth, Announced, May, provider
<1> QED BY <1>1, <1>2, StepKeeps

LEMMA LearnKeeps ==
  ASSUME RefundInv, NEW j \in Jobs, w[j] # Idle,
         NEW y \in WorkStates, y.pc # "idle", Learns(j, y), Grounded(y), Timely(y)
  PROVE  RefundInv' /\ (y.pc \notin Early => GoesOn(j))
<1>1. /\ w' = [w EXCEPT ![j] = y]
      /\ UNCHANGED <<setting, outcome, queue, requests, late, provider, row, faults>>
  BY DEF Learns, Does, Kept, deposit
<1> QED BY <1>1, RowKeeps DEF RefundInv, Booked, Typed, WorldTyped

-----------------------------------------------------------------------------
(* The steps of an attempt.                                                *)

LEMMA Working ==
  ASSUME RefundInv, NEW j \in Jobs, w[j].pc # "idle"
  PROVE  /\ w[j] # Idle /\ w[j] \in WorkStates /\ queue[j].st = "active"
         /\ Grounded(w[j]) /\ Timely(w[j])
BY DEF RefundInv, Typed

\* Where nothing is known yet of how the refund ends.
Bound == {"record", "write_off", "hold", "void", "find", "amounts", "count", "create"}

LEMMA PlainGrounded ==
  ASSUME NEW x, Grounded(x), NEW y, y.pc \notin Bound, y.res \in {None, x.res}
  PROVE  Grounded(y)
BY RefundAssumption DEF Grounded, Bound

LEMMA ResultGrounded ==
  ASSUME NEW x \in WorkStates, NEW res \in Settled, Truth, res = "none" => intent = "canceled"
  PROVE  Grounded(Result(x, res))
<1>1. PICK y : y = Result(x, res) /\ y.pc = "record" /\ y.res = res
  BY Shapes
<1>2. res # None
  BY RefundAssumption DEF Settled
<1> QED BY <1>1, <1>2 DEF Grounded

LEMMA TimelyOn ==
  ASSUME NEW x, Timely(x), x.pc \notin Early, NEW y, y.pc \notin Early
  PROVE  Timely(y)
BY DEF Timely, Early

\* What OnRead and the answers of the provider lead to.
LEMMA LoadKeeps ==
  ASSUME RefundInv, NEW j \in Jobs, Load(j) \/ Recheck(j)
  PROVE  RefundInv'
<1>1. PICK x \in WorkStates : x = w[j] /\ x.pc \in {"load", "recheck"} /\ w[j] # Idle
                          /\ Grounded(x) /\ Timely(x) /\ LiveJob(queue[j])
  BY Working DEF Load, Recheck, At, LiveJob
<1>2. PICK y : /\ Learns(j, y)
               /\ \/ y = Go(Idle, "end") \/ y = Go(x, "end")
                  \/ y = Go(x, "recheck") /\ x.pc = "load" /\ outcome = "done"
                  \/ y = Go(x, "reopen") /\ x.pc = "recheck"
                  \/ y = Go(x, "read") /\ x.pc = "load" /\ outcome \notin Settled
  BY <1>1 DEF Load, Recheck, At, Settled
<1>3. /\ y \in WorkStates /\ y.res \in {None, x.res} /\ y.pc \in {"end", "recheck", "reopen", "read"}
      /\ y.pc = "recheck" => outcome = "done"
      /\ y.pc = "reopen" => x.pc = "recheck"
      /\ y.pc = "read" => outcome \notin Settled
  BY <1>2, IdleShape, Shapes DEF Pcs
<1>4. Grounded(y)
  BY <1>1, <1>3, PlainGrounded DEF Bound
<1>5. May("solo") /\ lost = 0 => outcome # "failed"
  BY <1>1 DEF RefundInv, TakesTurns
<1>6. Timely(y)
  BY <1>1, <1>3, <1>5 DEF Timely, Early, RefundInv, Typed, RefundStatus, Settled
<1> QED BY <1>1, <1>2, <1>3, <1>4, <1>6, LearnKeeps

LEMMA ReadKeeps ==
  ASSUME RefundInv, NEW j \in Jobs, Read(j)
  PROVE  RefundInv' /\ GoesOn(j)
<1>1. PICK x \in WorkStates : x = w[j] /\ x.pc = "read" /\ w[j] # Idle /\ Grounded(x) /\ Timely(x)
  BY Working DEF Read, At
<1>2. PICK y : y = OnRead(x, row) /\ Learns(j, y)
  BY <1>1 DEF Read
<1>3. \/ y = Go(x, "void") /\ row = "refunded"
      \/ y = Result(x, "none") /\ row = "uncollectable"
      \/ \E pc \in {"claim", "captured", "resolve"} : y = Go(x, pc)
  BY <1>2 DEF OnRead, RefundInv, Typed, WorldTyped, RowStatus
<1>4. y \in WorkStates /\ y.pc \in {"void", "record", "claim", "captured", "resolve"}
  BY <1>3, Shapes DEF Pcs, Settled
<1>5. Grounded(y)
  <2>1. CASE y = Go(x, "void") /\ row = "refunded"
    <3>1. y.pc = "void" /\ y.res = x.res
      BY <2>1, Shapes DEF Pcs
    <3>2. intent # "unconfirmed"
      BY <2>1 DEF RefundInv, Booked
    <3> QED BY <1>1, <3>1, <3>2 DEF Grounded
  <2>2. CASE y = Result(x, "none") /\ row = "uncollectable"
    <3>1. intent = "canceled" /\ Truth
      BY <2>2 DEF RefundInv, Booked, Truth
    <3> QED BY <2>2, <3>1, ResultGrounded DEF Settled
  <2>3. ASSUME NEW pc \in {"claim", "captured", "resolve"}, y = Go(x, pc) PROVE Grounded(y)
    <3>1. y.pc = pc /\ y.res = x.res
      BY <2>3, Shapes DEF Pcs
    <3> QED BY <1>1, <3>1, PlainGrounded DEF Bound
  <2> QED BY <1>3, <2>1, <2>2, <2>3
<1>6. Timely(y)
  BY <1>1, <1>4, TimelyOn DEF Early
<1> QED BY <1>1, <1>2, <1>4, <1>5, <1>6, LearnKeeps DEF Early

\* The ways on for an attempt that has asked the provider.
WayOn(x, y) ==
  \/ \E pc \in Pcs \ (Bound \cup Early) : y = Go(x, pc)
  \/ intent # "unconfirmed" /\ y = Go(x, "hold")
  \/ intent = "succeeded" /\ y = Go(x, "find")
  \/ \E p \in BOOLEAN : y = Fails(x, p) \/ \E pc \in {"rollback", "reconcile"} :
                                             y = [x EXCEPT !.pc = pc, !.perm = p]
  \/ intent = "canceled" /\ \E res \in Settled :
       y = Result(x, res) \/ y = [x EXCEPT !.pc = "write_off", !.res = res]

LEMMA WayOnGrounded ==
  ASSUME NEW x \in WorkStates, Grounded(x), NEW y, WayOn(x, y)
  PROVE  y \in WorkStates /\ y.pc \notin Early /\ Grounded(y)
<1>1. CASE \E pc \in Pcs \ (Bound \cup Early) : y = Go(x, pc)
  <2>1. PICK pc \in Pcs \ (Bound \cup Early) : y = Go(x, pc)
    BY <1>1
  <2>2. y \in WorkStates /\ y.pc = pc /\ y.res = x.res
    BY <2>1, Shapes
  <2> QED BY <2>2, PlainGrounded
<1>2. CASE intent # "unconfirmed" /\ y = Go(x, "hold")
  <2>1. y \in WorkStates /\ y.pc = "hold" /\ y.res = x.res
    BY <1>2, Shapes DEF Pcs
  <2> QED BY <1>2, <2>1 DEF Early, Grounded
<1>3. CASE intent = "succeeded" /\ y = Go(x, "find")
  <2>1. y \in WorkStates /\ y.pc = "find" /\ y.res = x.res
    BY <1>3, Shapes DEF Pcs
  <2> QED BY <1>3, <2>1 DEF Early, Grounded
<1>4. CASE \E p \in BOOLEAN : y = Fails(x, p)
  <2>1. y \in WorkStates /\ y.pc = "throw" /\ y.res = None
    BY <1>4, Shapes
  <2> QED BY <2>1, PlainGrounded DEF Early, Bound
<1>5. CASE \E p \in BOOLEAN, pc \in {"rollback", "reconcile"} : y = [x EXCEPT !.pc = pc, !.perm = p]
  <2>1. y \in WorkStates /\ y.pc \in {"rollback", "reconcile"} /\ y.res = x.res
    BY <1>5 DEF WorkStates, Pcs
  <2> QED BY <2>1, PlainGrounded DEF Early, Bound
<1>6. CASE intent = "canceled" /\ \E res \in Settled : y = Result(x, res)
  <2>1. PICK res \in Settled : y = Result(x, res)
    BY <1>6
  <2>2. y \in WorkStates /\ y.pc = "record"
    BY <2>1, Shapes
  <2>3. Grounded(y)
    BY <1>6, <2>1, ResultGrounded DEF Truth
  <2> QED BY <2>2, <2>3 DEF Early
<1>7. CASE intent = "canceled" /\ \E res \in Settled : y = [x EXCEPT !.pc = "write_off", !.res = res]
  <2>1. y \in WorkStates /\ y.pc = "write_off" /\ y.res \in Settled /\ y.res # None
    BY <1>7, RefundAssumption DEF WorkStates, Pcs, Settled
  <2> QED BY <1>7, <2>1 DEF Early, Grounded, Truth
<1> QED BY <1>1, <1>2, <1>3, <1>4, <1>5, <1>6, <1>7 DEF WayOn

LEMMA AskKeeps ==
  ASSUME RefundInv, NEW j \in Jobs, AskIntent(j)
  PROVE  RefundInv' /\ GoesOn(j)
<1>1. PICK x \in WorkStates : /\ x = w[j] /\ x.pc \in {"void", "captured", "resolve", "reconcile"}
                          /\ w[j] # Idle /\ Grounded(x) /\ Timely(x)
  BY Working DEF AskIntent, At
<1>2. PICK seen, y :
        /\ seen \in {intent, None} /\ Learns(j, y)
        /\ \/ x.pc = "void" /\ y = OnVoid(x, seen)
           \/ x.pc = "captured" /\ y = OnCaptured(x, seen)
           \/ x.pc = "resolve" /\ y = OnPending(x, seen)
           \/ x.pc = "reconcile" /\ y = OnReconcile(x, seen)
  BY <1>1 DEF AskIntent, At
<1>3. intent \in IntentStatus /\ seen \in IntentStatus \cup {None} /\ x.perm \in BOOLEAN
  BY <1>2 DEF RefundInv, Typed, WorldTyped, WorkStates
<1>4. WayOn(x, y)
  <2>1. CASE x.pc = "void" /\ y = OnVoid(x, seen)
    <3>1. \/ y = Go(x, "cancel_refunded") \/ y = Fails(x, TRUE) \/ y = Fails(x, FALSE)
          \/ y = Result(x, "done") /\ seen = intent /\ intent \notin {"requires_capture", "succeeded"}
      <4>1. CASE seen \in {"requires_capture", "succeeded", None}
        BY <2>1, <4>1, RefundAssumption DEF OnVoid
      <4>2. CASE seen \notin {"requires_capture", "succeeded", None}
        BY <1>2, <2>1, <4>2 DEF OnVoid
      <4> QED BY <4>1, <4>2
    <3>2. intent # "unconfirmed"
      BY <1>1, <2>1 DEF Grounded
    <3> QED BY <1>3, <3>1, <3>2 DEF WayOn, Pcs, Bound, Early, Settled, IntentStatus
  <2>2. CASE x.pc = "captured" /\ y = OnCaptured(x, seen)
    <3>1. \/ y = [x EXCEPT !.pc = "write_off", !.res = "none"] /\ seen = "canceled"
          \/ y = Go(x, "cancel_captured") \/ y = Fails(x, FALSE)
          \/ y = Go(x, "find") /\ seen = "succeeded"
      BY <2>2 DEF OnCaptured
    <3> QED BY <1>2, <3>1, RefundAssumption DEF WayOn, Pcs, Bound, Early, Settled
  <2>3. CASE x.pc = "resolve" /\ y = OnPending(x, seen)
    <3>1. \/ y = Result(x, "none") /\ seen = "canceled"
          \/ y = Go(x, "hold") /\ seen = "requires_capture"
          \/ y = Go(x, "cancel_pending") \/ y = Fails(x, TRUE) \/ y = Fails(x, FALSE)
      BY <2>3 DEF OnPending
    <3> QED BY <1>2, <3>1, RefundAssumption DEF WayOn, Pcs, Bound, Early, Settled
  <2>4. CASE x.pc = "reconcile" /\ y = OnReconcile(x, seen)
    <3>1. \/ y = Result(x, "done") /\ seen = "canceled"
          \/ \E p \in BOOLEAN : y = [x EXCEPT !.pc = "rollback", !.perm = p]
      BY <1>3, <2>4 DEF OnReconcile
    <3> QED BY <1>2, <3>1, RefundAssumption DEF WayOn, Settled
  <2> QED BY <1>2, <2>1, <2>2, <2>3, <2>4
<1>5. y \in WorkStates /\ y.pc \notin Early /\ Grounded(y)
  BY <1>1, <1>4, WayOnGrounded
<1>6. Timely(y)
  BY <1>1, <1>5, TimelyOn DEF Early
<1> QED BY <1>1, <1>2, <1>5, <1>6, LearnKeeps DEF Early

\* Refunds that stand return the whole charge.
LEMMA WholeCharge ==
  ASSUME RefundInv, intent = "succeeded", ours > 0
  PROVE  Truth
BY DEF RefundInv, Booked, Truth, Paid

LEMMA FindKeeps ==
  ASSUME RefundInv, NEW j \in Jobs, Find(j) \/ Amounts(j) \/ Count(j)
  PROVE  RefundInv' /\ GoesOn(j)
<1>1. PICK x \in WorkStates : /\ x = w[j] /\ x.pc \in {"find", "amounts", "count"}
                          /\ w[j] # Idle /\ Grounded(x) /\ Timely(x)
  BY Working DEF Find, Amounts, Count, At
<1>2. PICK owed \in Int : owed = Paid - ours - dash
  BY DEF RefundInv, Typed, WorldTyped, Paid
<1>3. PICK y : /\ Learns(j, y)
               /\ \/ y = Fails(x, FALSE)
                  \/ y = Result(x, "done") /\ (ours > 0 \/ owed <= 0)
                  \/ y = Go(x, "amounts") /\ ~(ours > 0)
                  \/ y = [x EXCEPT !.pc = "count", !.owed = owed] /\ ~(owed <= 0) /\ x.pc = "amounts"
                  \/ y = [x EXCEPT !.pc = "create", !.failed = lost] /\ x.pc = "count"
  BY <1>1, <1>2 DEF Find, Amounts, Count, At
<1>4. y \in WorkStates /\ y.pc \notin Early /\ Grounded(y)
  <2>0. ours \in Nat /\ lost \in 0 .. 1 /\ dash \in Nat /\ ours + dash <= 2
    BY DEF RefundInv, Typed, WorldTyped, Paid
  <2>1. CASE y = Fails(x, FALSE)
    <3>1. y \in WorkStates /\ y.pc = "throw" /\ y.res = None
      BY <2>1, Shapes
    <3> QED BY <1>1, <3>1, PlainGrounded DEF Early, Bound
  <2>2. CASE y = Result(x, "done") /\ (ours > 0 \/ owed <= 0)
    <3>1. intent = "succeeded"
      BY <1>1 DEF Grounded
    <3>2. Truth
      BY <1>2, <2>0, <2>2, <3>1, WholeCharge DEF Truth, Paid
    <3>3. y \in WorkStates /\ y.pc = "record"
      BY <2>2, Shapes DEF Settled
    <3> QED BY <2>2, <3>2, <3>3, ResultGrounded DEF Settled, Early
  <2>3. CASE y = Go(x, "amounts") /\ ~(ours > 0)
    <3>1. y \in WorkStates /\ y.pc = "amounts" /\ y.res = x.res
      BY <2>3, Shapes DEF Pcs
    <3>2. intent = "succeeded" /\ ours = 0
      BY <1>1, <1>3, <2>0, <2>3 DEF Grounded
    <3> QED BY <1>1, <3>1, <3>2 DEF Grounded, Early
  <2>4. CASE y = [x EXCEPT !.pc = "count", !.owed = owed] /\ ~(owed <= 0) /\ x.pc = "amounts"
    <3>1. ours = 0
      BY <1>2, <2>0, <2>4 DEF RefundInv, Booked, Paid
    <3>2. owed \in 0 .. Paid /\ owed > 0 /\ owed >= Paid - dash
      BY <1>2, <2>0, <2>4, <3>1 DEF Paid
    <3>3. y \in WorkStates /\ y.pc = "count" /\ y.res = x.res /\ y.owed = owed
      BY <2>4, <3>2 DEF WorkStates, Pcs
    <3> QED BY <1>1, <2>4, <3>1, <3>2, <3>3 DEF Grounded, Early
  <2>5. CASE y = [x EXCEPT !.pc = "create", !.failed = lost] /\ x.pc = "count"
    <3>1. y \in WorkStates /\ y.pc = "create" /\ y.res = x.res /\ y.owed = x.owed /\ y.failed = lost
      BY <2>0, <2>5 DEF WorkStates, Pcs
    <3> QED BY <1>1, <2>0, <2>5, <3>1 DEF Grounded, Early
  <2> QED BY <1>3, <2>1, <2>2, <2>3, <2>4, <2>5
<1>5. Timely(y)
  BY <1>1, <1>4, TimelyOn DEF Early
<1> QED BY <1>1, <1>3, <1>4, <1>5, LearnKeeps DEF Early

LEMMA ClaimKeeps ==
  ASSUME RefundInv, NEW j \in Jobs,
         Claim(j) \/ Rollback(j) \/ WriteOff(j) \/ HoldRow(j)
  PROVE  RefundInv' /\ GoesOn(j)
<1>1. PICK x \in WorkStates : /\ x = w[j] /\ x.pc \in {"claim", "rollback", "write_off", "hold"}
                          /\ w[j] # Idle /\ Grounded(x) /\ Timely(x)
  BY Working DEF Claim, Rollback, WriteOff, HoldRow, At
<1>2. row \in RowStatus /\ faults \in 0 .. MaxFaults /\ MaxFaults \in Nat
  BY RefundAssumption DEF RefundInv, Typed, WorldTyped
<1>3. PICK y : /\ w' = [w EXCEPT ![j] = y]
               /\ \/ y = Reread(x) \/ y = Go(x, "cancel_held") \/ y = Fails(x, x.perm)
                  \/ x.pc = "write_off" /\ y = Result(x, x.res)
  BY <1>1 DEF Claim, Rollback, WriteOff, HoldRow, At, Does
<1>4. y \in WorkStates /\ y.pc \notin Early /\ Grounded(y)
  <2>1. CASE y = Reread(x) \/ y = Go(x, "cancel_held") \/ y = Fails(x, x.perm)
    <3>1. /\ y \in WorkStates /\ y.pc \in {"read", "throw", "cancel_held"} /\ y.res \in {None, x.res}
      BY <2>1, Shapes DEF Pcs, WorkStates
    <3> QED BY <1>1, <3>1, PlainGrounded DEF Early, Bound
  <2>2. CASE x.pc = "write_off" /\ y = Result(x, x.res)
    <3>1. x.res \in Settled /\ intent = "canceled"
      BY <1>1, <2>2 DEF Grounded, WorkStates
    <3>2. y \in WorkStates /\ y.pc = "record"
      BY <2>2, <3>1, Shapes
    <3> QED BY <2>2, <3>1, <3>2, ResultGrounded DEF Truth, Early
  <2> QED BY <1>3, <2>1, <2>2
<1>5. UNCHANGED <<setting, outcome, queue, requests, late, provider>>
  BY DEF Claim, Rollback, WriteOff, HoldRow, Kept
<1>6. /\ row' \in {row, "refunded", "held", "uncollectable"}
      /\ row' # row /\ row' \in {"refunded", "held"} => row \in {"held", "refunded"} \/ x.pc = "hold"
      /\ row' # row /\ row' = "uncollectable" => x.pc = "write_off"
  BY <1>1 DEF Claim, Rollback, WriteOff, HoldRow, At
<1>7. faults' \in 0 .. MaxFaults
  BY <1>2 DEF Claim, Rollback, WriteOff, HoldRow, Fault
<1>8. row' \in RowStatus /\ (row' # "pending" => intent # "unconfirmed")
      /\ (row' = "uncollectable" => intent = "canceled")
  BY <1>1, <1>2, <1>6 DEF RowStatus, Grounded, RefundInv, Booked
<1>9. Timely(y)
  BY <1>1, <1>4, TimelyOn DEF Early
<1> QED BY <1>1, <1>3, <1>4, <1>5, <1>7, <1>8, <1>9, RowKeeps DEF Early

\* What a cancel of the intent does at the provider.
LEMMA CancelMoves ==
  ASSUME RefundInv, NEW answer \in {"ok", "refused", "silence"}, Cancel(answer),
         UNCHANGED <<setting, requests, deposit, faults>>
  PROVE  /\ Forward /\ WorldTyped' /\ Booked' /\ ours' = ours
         /\ answer = "ok" => intent' = "canceled"
<1>1. \/ UNCHANGED provider
      \/ /\ intent \in {"unconfirmed", "requires_capture"} /\ intent' = "canceled"
         /\ mail' \in {mail, mail \cup {"released"}} /\ keys' = keys \cup {CancelKey}
         /\ UNCHANGED <<ours, dash, lost>>
  BY DEF Cancel, Release
<1>2. answer = "ok" => intent' = "canceled"
  BY DEF Cancel, Release, provider, RefundInv, Booked
<1>3. CASE UNCHANGED provider
  BY <1>2, <1>3 DEF RefundInv, Typed, WorldTyped, Booked, Forward, Announced, requests, provider,
                    deposit, May, Paid
<1>4. CASE /\ intent \in {"unconfirmed", "requires_capture"} /\ intent' = "canceled"
           /\ mail' \in {mail, mail \cup {"released"}} /\ keys' = keys \cup {CancelKey}
           /\ UNCHANGED <<ours, dash, lost>>
  <2>1. Forward
    BY <1>4 DEF Forward, Announced, RefundInv, Typed, WorldTyped, Paid
  <2>2. WorldTyped'
    BY <1>4 DEF RefundInv, Typed, WorldTyped, IntentStatus, CancelKey, deposit, Paid
  <2>3. ours = 0 /\ dash = 0 /\ lost = 0
    BY <1>4 DEF RefundInv, Booked, Typed, WorldTyped
  <2>4. Booked'
    BY <1>4, <2>3 DEF RefundInv, Booked, requests, deposit, May
  <2> QED BY <1>2, <1>4, <2>1, <2>2, <2>4
<1> QED BY <1>1, <1>3, <1>4

LEMMA CancelKeeps ==
  ASSUME RefundInv, NEW j \in Jobs, CancelIntent(j)
  PROVE  RefundInv' /\ GoesOn(j)
<1> DEFINE Cancels == {"cancel_held", "cancel_refunded", "cancel_captured", "cancel_pending"}
<1>1. PICK x \in WorkStates : /\ x = w[j] /\ x.pc \in Cancels
                          /\ w[j] # Idle /\ Grounded(x) /\ Timely(x)
  BY Working DEF CancelIntent
<1>2. PICK answer \in {"ok", "refused", "silence"} : Cancel(answer) /\ Does(j, OnCancel(x, answer))
  BY <1>1 DEF CancelIntent
<1>3. UNCHANGED <<setting, requests, deposit, faults, outcome, queue>>
  BY DEF CancelIntent, Kept
<1>4. /\ Forward /\ WorldTyped' /\ Booked' /\ ours' = ours
      /\ answer = "ok" => intent' = "canceled"
  BY <1>2, <1>3, CancelMoves
<1>5. PICK y : y = OnCancel(x, answer) /\ w' = [w EXCEPT ![j] = y]
  BY <1>2 DEF Does
<1>6. \/ \E p \in BOOLEAN : y = Fails(x, p) \/ y = [x EXCEPT !.pc = "reconcile", !.perm = p]
      \/ answer = "ok" /\ \E res \in Settled :
           y = Result(x, res) \/ y = [x EXCEPT !.pc = "write_off", !.res = res]
  BY <1>1, <1>5 DEF OnCancel, Settled
<1>7. y \in WorkStates /\ y.pc \notin Early /\ Grounded(y)'
  <2>1. CASE \E p \in BOOLEAN : y = Fails(x, p) \/ y = [x EXCEPT !.pc = "reconcile", !.perm = p]
    <3>1. y \in WorkStates /\ y.pc \in {"throw", "reconcile"} /\ y.res \in {None, x.res}
      <4>1. CASE \E p \in BOOLEAN : y = Fails(x, p)
        BY <4>1, Shapes
      <4>2. CASE \E p \in BOOLEAN : y = [x EXCEPT !.pc = "reconcile", !.perm = p]
        BY <4>2 DEF WorkStates, Pcs
      <4> QED BY <2>1, <4>1, <4>2
    <3>2. Grounded(x)'
      BY <1>1, <1>3, <1>4, StillGrounded
    <3> QED BY <3>1, <3>2, RefundAssumption DEF Grounded, Early
  <2>2. CASE answer = "ok" /\ \E res \in Settled :
               y = Result(x, res) \/ y = [x EXCEPT !.pc = "write_off", !.res = res]
    <3>1. /\ y \in WorkStates /\ y.pc \in {"record", "write_off"} /\ y.res \in Settled
      <4>1. CASE \E res \in Settled : y = Result(x, res)
        BY <4>1, Shapes
      <4>2. CASE \E res \in Settled : y = [x EXCEPT !.pc = "write_off", !.res = res]
        BY <4>2 DEF WorkStates, Pcs, Settled
      <4> QED BY <2>2, <4>1, <4>2
    <3>2. intent' = "canceled" /\ y.res # None
      BY <1>4, <2>2, <3>1, RefundAssumption DEF Settled
    <3> QED BY <3>1, <3>2 DEF Grounded, Truth, Early
  <2> QED BY <1>6, <2>1, <2>2
<1>8. Timely(y)
  BY <1>1, <1>7, TimelyOn DEF Early
<1> QED BY <1>1, <1>3, <1>4, <1>5, <1>7, <1>8, StepKeeps DEF Early

\* A refund that fits what the charge has left, of all that was owed, is the
\* first one that stands and returns the rest of the charge.
LEMMA Fitting ==
  \A owed, o, d \in Nat :
    owed > 0 /\ owed >= Paid - d /\ owed <= Paid - o - d /\ (o > 0 => o + d = Paid) =>
      o = 0 /\ o + owed = owed /\ owed + d = Paid /\ owed \in 0 .. Paid
BY DEF Paid

LEMMA CreateKeeps ==
  ASSUME RefundInv, NEW j \in Jobs, Create(j)
  PROVE  RefundInv' /\ GoesOn(j)
<1>1. PICK x \in WorkStates : /\ x = w[j] /\ x.pc = "create" /\ w[j] # Idle
                          /\ Grounded(x) /\ Timely(x)
  BY Working DEF Create, At
<1>2. PICK owed \in Nat, failed \in 0 .. 1 : owed = x.owed /\ failed = x.failed
  BY DEF WorkStates, Paid
<1>3. PICK key : key = <<owed, failed>>
  OBVIOUS
<1>4. PICK answer \in {"ok", "error"} :
        /\ Refund(owed, key, answer)
        /\ Does(j, IF answer = "ok" THEN Result(x, "done") ELSE Fails(x, FALSE))
  BY <1>1, <1>2, <1>3 DEF Create
<1>5. UNCHANGED <<setting, outcome, queue, requests, row, late, faults>>
  BY DEF Create, Kept, deposit
<1>6. /\ owed > 0 /\ owed >= Paid - dash /\ failed <= lost /\ intent = "succeeded"
      /\ May("solo") => ours = 0 /\ failed = lost
  BY <1>1, <1>2 DEF Grounded
<1>7. key # CancelKey /\ key[2] = failed /\ key \in Nat \X Nat
  BY <1>2, <1>3, <1>6 DEF CancelKey
<1>8. ours \in Nat /\ dash \in 0 .. 1 /\ lost \in 0 .. 1
  BY DEF RefundInv, Typed, WorldTyped, Paid
<1>9. \/ UNCHANGED provider /\ (answer = "ok" => key \in keys)
      \/ /\ owed <= Paid - ours - dash
         /\ ours' = ours + owed /\ keys' = keys \cup {key}
         /\ UNCHANGED <<intent, dash, lost, mail>>
  BY <1>4 DEF Refund
<1>10. Forward /\ WorldTyped' /\ Booked' /\ (FailingAlone /\ answer = "ok" => Truth')
  <2>1. CASE UNCHANGED provider /\ (answer = "ok" => key \in keys)
    <3>1. Forward /\ WorldTyped' /\ Booked'
      BY <1>5, <2>1 DEF RefundInv, Typed, WorldTyped, Booked, Forward, Announced, requests,
                        provider, May, Paid
    <3>2. answer = "ok" => key[2] < lost \/ (key[2] = lost /\ ours > 0)
      BY <1>7, <2>1 DEF RefundInv, Booked
    <3>3. FailingAlone /\ answer = "ok" => Truth
      <4>1. CASE May("solo")
        BY <1>6, <1>7, <1>8, <3>2, <4>1
      <4>2. CASE ~May("solo")
        <5>1. FailingAlone => lost = 0
          BY <1>8, <4>2 DEF RefundInv, Booked, Typed, May, FailingAlone
        <5> QED BY <1>2, <1>6, <1>7, <3>2, <5>1, WholeCharge
      <4> QED BY <4>1, <4>2
    <3> QED BY <2>1, <3>1, <3>3 DEF Truth, provider
  <2>2. CASE /\ owed <= Paid - ours - dash
             /\ ours' = ours + owed /\ keys' = keys \cup {key}
             /\ UNCHANGED <<intent, dash, lost, mail>>
    <3>1. ours = 0 /\ ours + owed = owed /\ owed + dash = Paid /\ owed \in 0 .. Paid
      <4>1. ours > 0 => ours + dash = Paid
        BY DEF RefundInv, Booked
      <4>2. dash \in Nat
        BY <1>8
      <4> QED BY <1>2, <1>6, <1>8, <2>2, <4>1, <4>2, Fitting
    <3>2. dash' = dash /\ ours' = owed
      BY <2>2, <3>1
    <3>3. ours' + dash' = Paid
      <4>1. PICK d : d = dash
        OBVIOUS
      <4>2. owed + d = Paid
        BY <3>1, <4>1
      <4>3. dash' = d /\ ours' = owed
        BY <3>2, <4>1
      <4> QED BY <4>2, <4>3
    <3>4. Forward
      BY <1>2, <1>8, <2>2, <3>1, <3>2 DEF Forward, Announced
    <3>5. WorldTyped'
      <4>1. Paid \in Nat /\ Paid <= Paid
        BY DEF Paid
      <4> QED BY <1>5, <1>7, <2>2, <3>1, <3>2, <3>3, <4>1 DEF RefundInv, Typed, WorldTyped
    <3>6. Booked'
      <4>1. \A k \in keys' : k # CancelKey => k[2] < lost \/ (k[2] = lost /\ ours' > 0)
        <5>1. ASSUME NEW k \in keys, k # CancelKey PROVE k[2] < lost \/ (k[2] = lost /\ ours' > 0)
          BY <1>6, <3>2, <5>1 DEF RefundInv, Booked
        <5>2. key[2] < lost \/ (key[2] = lost /\ ours' > 0)
          BY <1>2, <1>6, <1>7, <1>8, <3>2
        <5> QED BY <2>2, <5>1, <5>2
      <4> QED BY <1>5, <1>6, <1>7, <2>2, <3>3, <4>1 DEF RefundInv, Booked, requests, May
    <3>7. Truth'
      <4>1. Paid >= Paid
        BY DEF Paid
      <4> QED BY <1>6, <2>2, <3>3, <4>1 DEF Truth
    <3> QED BY <3>4, <3>5, <3>6, <3>7
  <2> QED BY <1>9, <2>1, <2>2
<1>11. PICK y : y = (IF answer = "ok" THEN Result(x, "done") ELSE Fails(x, FALSE))
                /\ w' = [w EXCEPT ![j] = y]
  BY <1>4 DEF Does
<1>12. y \in WorkStates /\ y.pc \in {"record", "throw"} /\ Grounded(y)'
  <2>1. CASE answer = "ok"
    <3>1. y \in WorkStates /\ y.pc = "record" /\ y.res = "done"
      BY <1>11, <2>1, Shapes DEF Settled
    <3> QED BY <1>10, <2>1, <3>1, RefundAssumption DEF Grounded
  <2>2. CASE answer # "ok"
    <3>1. y \in WorkStates /\ y.pc = "throw" /\ y.res = None
      BY <1>11, <2>2, Shapes
    <3> QED BY <3>1, RefundAssumption DEF Grounded
  <2> QED BY <2>1, <2>2
<1>13. Timely(y)
  BY <1>1, <1>12, TimelyOn DEF Early
<1> QED BY <1>1, <1>5, <1>10, <1>11, <1>12, <1>13, StepKeeps DEF Early

-----------------------------------------------------------------------------
(* The steps that record an outcome, or move a job on.                     *)

\* A step on job j that leaves the deposit and the provider alone.
LEMMA TurnKeeps ==
  ASSUME RefundInv, NEW j \in Jobs, w[j] # Idle \/ LiveJob(queue[j]),
         NEW y \in WorkStates, y # Idle <=> y.pc # "idle", w' = [w EXCEPT ![j] = y],
         NEW job \in Queued, y # Idle => job.st = "active", queue' = [queue EXCEPT ![j] = job],
         UNCHANGED <<setting, requests, deposit, provider>>, faults' \in 0 .. MaxFaults,
         outcome' \in RefundStatus, Settles', Grounded(y)', Timely(y)',
         May("solo") /\ lost = 0 /\ LiveJob(job) => outcome' # "failed"
  PROVE  RefundInv'
<1>1. /\ w'[j] = y /\ \A k \in Jobs \ {j} : w'[k] = w[k]
      /\ queue'[j] = job /\ \A k \in Jobs \ {j} : queue'[k] = queue[k]
  BY DEF RefundInv, Typed
<1>2. Forward /\ WorldTyped' /\ Booked'
  BY DEF RefundInv, Typed, WorldTyped, Booked, Forward, Announced, requests, deposit, provider,
         May, Paid
<1>3. Typed'
  BY <1>1, <1>2 DEF RefundInv, Typed, requests
<1>4. May("solo") => mgr = NoRequest /\ \A k \in Jobs \ {j} : ~LiveJob(queue[k]) /\ w[k] = Idle
  BY AtWorkAlone
<1>5. \A k \in Jobs : Grounded(w[k])'
  <2>1. \A k \in Jobs \ {j} : Grounded(w[k])'
    BY <1>1, <1>2, <1>4, OthersGrounded
  <2> QED BY <1>1, <2>1 DEF Grounded
<1>6. \A k \in Jobs : Timely(w[k])'
  BY <1>1, <1>4, IdleShape DEF Timely, May, Early
<1>7. TakesTurns'
  BY <1>1, <1>4, IdleShape DEF TakesTurns, May, requests, provider
<1> QED BY <1>2, <1>3, <1>5, <1>6, <1>7 DEF RefundInv

LEMMA IdleGrounded == Grounded(Idle) /\ Grounded(Idle)' /\ Timely(Idle)'
BY IdleShape, RefundAssumption DEF Grounded, Timely, Early

\* A worker takes a job, a process dies, a job stalls, an attempt ends.
LEMMA JobMovesKeeps ==
  ASSUME RefundInv, NEW j \in Jobs, Take(j) \/ Crash(j) \/ Stall(j) \/ End(j)
  PROVE  RefundInv'
<1>1. /\ UNCHANGED <<setting, outcome, requests, deposit, provider>>
      /\ w[j] # Idle \/ LiveJob(queue[j])
  BY IdleShape DEF Take, Crash, Stall, End, Kept, LiveJob, At
<1>2. faults' \in 0 .. MaxFaults
  BY RefundAssumption DEF Take, Crash, Stall, End, Fault, RefundInv, Typed, WorldTyped
<1>3. outcome' \in RefundStatus /\ Settles'
  BY <1>1 DEF RefundInv, Typed, Settles, May, requests, Truth, Announced, provider
<1>4. queue[j] \in Queued /\ w[j] \in WorkStates
  BY DEF RefundInv, Typed
<1>5. CASE Take(j)
  <2>1. PICK y : y = [Idle EXCEPT !.pc = "load"]
    OBVIOUS
  <2>2. y \in WorkStates /\ y.pc = "load" /\ y.res = None
    BY <2>1, IdleShape DEF WorkStates, Pcs
  <2>3. Grounded(y)' /\ Timely(y)'
    BY <2>2, RefundAssumption DEF Grounded, Timely, Early
  <2>4. w' = [w EXCEPT ![j] = y] /\ queue' = [queue EXCEPT ![j] = Taken(queue[j])]
    BY <1>5, <2>1 DEF Take, Does
  <2>5. Taken(queue[j]) \in Queued /\ Taken(queue[j]).st = "active" /\ y # Idle
    BY <1>4, <2>2, JobShapes, IdleShape
  <2>6. May("solo") /\ lost = 0 => outcome' # "failed"
    BY <1>1, <1>5 DEF RefundInv, TakesTurns, Take, LiveJob
  <2> QED BY <1>1, <1>2, <1>3, <2>2, <2>3, <2>4, <2>5, <2>6, TurnKeeps
<1>6. CASE Crash(j) \/ Stall(j) \/ End(j)
  <2>1. PICK job \in Queued : queue' = [queue EXCEPT ![j] = job] /\ (LiveJob(job) => LiveJob(queue[j]))
    <3>1. CASE Crash(j)
      BY <1>4, <3>1 DEF Crash, RefundInv, Typed
    <3>2. CASE Stall(j)
      BY <1>4, <3>2, JobShapes DEF Stall, LiveJob
    <3>3. CASE End(j)
      BY <1>4, <3>3, JobShapes DEF End, LiveJob
    <3> QED BY <1>6, <3>1, <3>2, <3>3
  <2>2. w' = [w EXCEPT ![j] = Idle]
    BY <1>4, <1>6 DEF Crash, Stall, End, Does, RefundInv, Typed
  <2>3. May("solo") /\ lost = 0 /\ LiveJob(job) => outcome' # "failed"
    BY <1>1, <2>1 DEF RefundInv, TakesTurns
  <2> QED BY <1>1, <1>2, <1>3, <2>1, <2>2, <2>3, IdleGrounded, IdleShape, TurnKeeps
<1> QED BY <1>5, <1>6

LEMMA ReopenKeeps ==
  ASSUME RefundInv, NEW j \in Jobs, Reopen(j)
  PROVE  RefundInv'
<1>1. PICK x \in WorkStates : /\ x = w[j] /\ x.pc = "reopen" /\ w[j] # Idle
                          /\ Grounded(x) /\ Timely(x) /\ queue[j].st = "active"
  BY Working DEF Reopen, At
<1>2. PICK y : y = Go(x, "read") /\ w' = [w EXCEPT ![j] = y]
  BY <1>1 DEF Reopen, Does
<1>3. y \in WorkStates /\ y.pc = "read" /\ y.res = x.res
  BY <1>2, Shapes DEF Pcs
<1>4. /\ UNCHANGED <<setting, queue, requests, deposit, provider, faults>>
      /\ outcome' = IF outcome = "done" THEN "pending" ELSE outcome
  BY DEF Reopen, Kept
<1>5. /\ outcome' \in RefundStatus /\ faults' \in 0 .. MaxFaults
      /\ queue' = [queue EXCEPT ![j] = queue[j]] /\ queue[j] \in Queued
  BY <1>4 DEF RefundInv, Typed, WorldTyped, RefundStatus
<1>6. Settles'
  BY <1>4 DEF RefundInv, Settles, May, requests, Truth, Announced, Settled, provider
<1>7. Grounded(y)'
  BY <1>1, <1>3, <1>4, RefundAssumption DEF Grounded, Truth, Announced, provider
<1>8. Timely(y)' /\ (May("solo") /\ lost = 0 => outcome' # "failed")
  BY <1>1, <1>3, <1>4 DEF Timely, Early, May, provider
<1> QED BY <1>1, <1>2, <1>3, <1>4, <1>5, <1>6, <1>7, <1>8, IdleShape, TurnKeeps

\* What is recorded is true, or the webhook that corrects it is on its way.
LEMMA RecordKeeps ==
  ASSUME RefundInv, NEW j \in Jobs, Record(j)
  PROVE  RefundInv'
<1>1. PICK x \in WorkStates : /\ x = w[j] /\ x.pc = "record" /\ w[j] # Idle
                          /\ Grounded(x) /\ Timely(x) /\ queue[j].st = "active"
  BY Working DEF Record, At
<1>2. PICK y : y = Go(Idle, "end") /\ w' = [w EXCEPT ![j] = y]
  BY DEF Record, Does
<1>3. y \in WorkStates /\ y.pc = "end" /\ y.res = None
  BY <1>2, IdleShape, Shapes DEF Pcs
<1>4. /\ UNCHANGED <<setting, queue, requests, deposit, provider, faults>>
      /\ outcome' = x.res
  BY <1>1 DEF Record, Kept
<1>5. /\ faults' \in 0 .. MaxFaults
      /\ queue' = [queue EXCEPT ![j] = queue[j]] /\ queue[j] \in Queued
  BY <1>4 DEF RefundInv, Typed, WorldTyped
<1>6. x.res \in Settled
  BY <1>1 DEF Grounded, WorkStates
<1>7. outcome' \in RefundStatus /\ outcome' # "failed" /\ outcome' # "pending"
  BY <1>4, <1>6 DEF RefundStatus, Settled
<1>8. Settles'
  <2>1. May("whole")' => hook' # "look"
    BY <1>4 DEF Record, May, requests
  <2>2. /\ outcome' = "none" => intent' = "canceled"
        /\ FailingAlone /\ outcome' \in Settled => Truth' \/ Announced'
    BY <1>1, <1>4, <1>6, RefundAssumption DEF Grounded, Truth, Announced, Settled, provider
  <2> QED BY <2>1, <2>2 DEF Settles
<1>9. Grounded(y)' /\ Timely(y)'
  BY <1>3, RefundAssumption DEF Grounded, Timely, Early
<1> QED BY <1>1, <1>2, <1>3, <1>4, <1>5, <1>7, <1>8, <1>9, IdleShape, TurnKeeps

LEMMA MarkedShapes ==
  ASSUME NEW status \in RefundStatus
  PROVE  /\ MarkedFailed(status) \in RefundStatus
         /\ MarkedFailed(status) \in Settled => MarkedFailed(status) = status
         /\ status \in Settled => MarkedFailed(status) = status
BY DEF MarkedFailed, RefundStatus, Settled

LEMMA ThrowKeeps ==
  ASSUME RefundInv, NEW j \in Jobs, Throw(j)
  PROVE  RefundInv'
<1>1. PICK x \in WorkStates : /\ x = w[j] /\ x.pc = "throw" /\ w[j] # Idle
                          /\ Grounded(x) /\ Timely(x) /\ LiveJob(queue[j])
  BY Working DEF Throw, At, LiveJob
<1>2. /\ UNCHANGED <<setting, requests, deposit, provider>> /\ w' = [w EXCEPT ![j] = Idle]
      /\ outcome' \in {outcome, MarkedFailed(outcome)} /\ faults' \in {faults, faults + 1}
  BY DEF Throw, Kept, Does, Fault
<1>3. faults' \in 0 .. MaxFaults
  BY <1>2, RefundAssumption DEF Throw, Fault, RefundInv, Typed, WorldTyped
<1>4. PICK job \in Queued :
        /\ queue' = [queue EXCEPT ![j] = job]
        /\ LiveJob(job) => outcome' = outcome
  <2>1. queue[j] \in Queued /\ x.perm \in BOOLEAN
    BY DEF RefundInv, Typed, WorkStates
  <2>2. PICK job : job = Thrown(queue[j], Attempts, x.perm) /\ queue' = [queue EXCEPT ![j] = job]
    BY <1>1 DEF Throw
  <2>3. /\ job \in Queued
        /\ job.st = IF x.perm \/ IsFinalAttempt(queue[j], Attempts) THEN "ended" ELSE "ready"
    BY <2>1, <2>2, JobShapes
  <2>4. LiveJob(job) => ~(x.perm \/ IsFinalAttempt(queue[j], Attempts))
    BY <2>3 DEF LiveJob
  <2>5. LiveJob(job) => outcome' = outcome
    BY <1>1, <2>4 DEF Throw
  <2> QED BY <2>2, <2>3, <2>5
<1>5. outcome \in RefundStatus
  BY DEF RefundInv, Typed
<1>6. outcome' \in RefundStatus /\ (outcome' \in Settled => outcome' = outcome)
  BY <1>2, <1>5, MarkedShapes
<1>7. Settles'
  BY <1>2, <1>6 DEF RefundInv, Settles, May, requests, Truth, Announced, Settled, provider
<1>8. May("solo") /\ lost = 0 /\ LiveJob(job) => outcome' # "failed"
  BY <1>1, <1>4 DEF RefundInv, TakesTurns
<1> QED BY <1>1, <1>2, <1>3, <1>4, <1>6, <1>7, <1>8, IdleGrounded, IdleShape, TurnKeeps

-----------------------------------------------------------------------------
(* The manager's Retry and the sweep.                                      *)

LEMMA RequestsKeep ==
  ASSUME RefundInv, UNCHANGED <<setting, w, hook, deposit, provider>>,
         outcome' = outcome \/ (May("solo") => \A j \in Jobs : w[j] = Idle),
         Typed', Settles', TakesTurns'
  PROVE  RefundInv'
<1>1. Forward /\ WorldTyped' /\ Booked'
  BY DEF RefundInv, Typed, Booked, WorldTyped, Forward, Announced, deposit, provider, May, Paid
<1>2. ASSUME NEW k \in Jobs PROVE Grounded(w[k])'
  <2>1. w'[k] = w[k]
    OBVIOUS
  <2> QED BY <1>1, <2>1, OthersGrounded DEF provider
<1>3. ASSUME NEW k \in Jobs PROVE Timely(w[k])'
  <2>1. CASE outcome' = outcome
    BY <2>1 DEF RefundInv, Timely, May, provider
  <2>2. CASE May("solo") => \A j \in Jobs : w[j] = Idle
    BY <2>2, IdleShape DEF Timely, May, Early
  <2> QED BY <2>1, <2>2
<1> QED BY <1>1, <1>2, <1>3 DEF RefundInv

\* In turns, nobody is at work while a Retry is under way.
LEMMA RetryAlone ==
  ASSUME RefundInv, mgr # NoRequest, May("solo")
  PROVE  \A j \in Jobs : ~LiveJob(queue[j]) /\ w[j] = Idle
BY DEF RefundInv, Typed, TakesTurns, LiveJob

LEMMA RetrySteps2 == RetrySteps = <<"reset", "schedule">> /\ Len(RetrySteps) = 2
BY DEF RetrySteps

LEMMA Doings ==
  ASSUME RefundInv
  PROVE  /\ Doing("reset") => mgr # NoRequest /\ mgr.step = 1 /\ Onward.step = 2
                              /\ Onward \in [step : {1, 2}, was : {"failed", "pending"}]
         /\ Doing("schedule") => mgr # NoRequest /\ mgr.step = 2 /\ Onward = NoRequest
<1>1. mgr = NoRequest \/ mgr \in [step : {1, 2}, was : {"failed", "pending"}]
  BY DEF RefundInv, Typed
<1>2. CASE mgr = NoRequest
  BY <1>2, IdleShape, RetrySteps2 DEF Doing
<1>3. CASE mgr \in [step : {1, 2}, was : {"failed", "pending"}]
  <2>1. mgr # NoRequest
    BY <1>3, IdleShape
  <2>2. CASE mgr.step = 1
    BY <1>3, <2>1, <2>2, RetrySteps2 DEF Doing, Onward
  <2>3. CASE mgr.step = 2
    BY <1>3, <2>1, <2>3, RetrySteps2 DEF Doing, Onward
  <2> QED BY <1>3, <2>2, <2>3
<1> QED BY <1>1, <1>2, <1>3

LEMMA SameWorld ==
  ASSUME RefundInv, UNCHANGED <<setting, w, deposit, provider>>, faults' \in 0 .. MaxFaults
  PROVE  /\ setting' \in Settings /\ WorldTyped' /\ w' \in [Jobs -> WorkStates]
         /\ \A j \in Jobs : w'[j] # Idle <=> w'[j].pc # "idle"
BY DEF RefundInv, Typed, WorldTyped, deposit, provider

LEMMA ListResetKeeps ==
  ASSUME RefundInv, List \/ Reset
  PROVE  RefundInv'
<1>1. UNCHANGED <<setting, w, queue, sweep, hook, deposit, provider, faults>>
  BY DEF List, Reset, AsksOnly
<1>2. CASE List
  <2>1. mgr' = [step |-> 1, was |-> outcome] /\ outcome \in {"failed", "pending"} /\ outcome' = outcome
    BY <1>2 DEF List
  <2>2. mgr' \in [step : {1, 2}, was : {"failed", "pending"}] /\ mgr'.step = 1
    BY <2>1
  <2>3. May("solo") => \A j \in Jobs : ~LiveJob(queue[j])
    BY <1>2 DEF List, Alone
  <2>4. Typed'
    BY <1>1, <2>1, <2>2, SameWorld DEF RefundInv, Typed, WorldTyped
  <2>5. Settles'
    BY <1>1, <2>1 DEF RefundInv, Settles, May, requests, Truth, Announced, provider
  <2>6. TakesTurns'
    BY <1>1, <2>2, <2>3 DEF TakesTurns, May
  <2> QED BY <1>1, <2>1, <2>4, <2>5, <2>6, RequestsKeep
<1>3. CASE Reset
  <2>1. /\ outcome' = IF outcome = "failed" THEN "pending" ELSE outcome
        /\ mgr' = Onward /\ Doing("reset")
    BY <1>3 DEF Reset
  <2>2. /\ mgr # NoRequest /\ mgr'.step = 2
        /\ mgr' \in [step : {1, 2}, was : {"failed", "pending"}]
    BY <2>1, Doings
  <2>3. May("solo") => \A j \in Jobs : ~LiveJob(queue[j]) /\ w[j] = Idle
    BY <2>2, RetryAlone
  <2>4. outcome' \in RefundStatus /\ outcome' # "failed" /\ (outcome' \in Settled => outcome' = outcome)
    BY <2>1 DEF RefundInv, Typed, RefundStatus, Settled
  <2>5. Typed'
    BY <1>1, <2>2, <2>4, SameWorld DEF RefundInv, Typed, WorldTyped
  <2>6. Settles'
    BY <1>1, <2>4 DEF RefundInv, Settles, May, requests, Truth, Announced, Settled, provider
  <2>7. TakesTurns'
    BY <1>1, <2>3, <2>4 DEF TakesTurns, May
  <2> QED BY <1>1, <2>3, <2>5, <2>6, <2>7, RequestsKeep
<1> QED BY <1>2, <1>3

LEMMA ScheduleKeeps ==
  ASSUME RefundInv, Schedule
  PROVE  RefundInv'
<1>1. UNCHANGED <<setting, w, sweep, hook, deposit, provider>>
  BY DEF Schedule, AsksOnly
<1>2. mgr # NoRequest /\ mgr.step = 2 /\ mgr' = NoRequest
  BY Doings DEF Schedule
<1>3. May("solo") => \A j \in Jobs : ~LiveJob(queue[j]) /\ w[j] = Idle
  BY <1>2, RetryAlone
<1>4. outcome \in RefundStatus /\ queue \in [Jobs -> Queued] /\ w \in [Jobs -> WorkStates]
  BY DEF RefundInv, Typed
<1>5. mgr'.step = 0
  BY <1>2, IdleShape
<1>6. CASE /\ \E j \in Retries : queue[j].st = "none" /\ queue' = [queue EXCEPT ![j] = Scheduled(@)]
           /\ UNCHANGED <<outcome, faults>>
  <2>1. PICK j \in Jobs : queue[j].st = "none" /\ queue' = [queue EXCEPT ![j] = Scheduled(queue[j])]
    BY <1>6 DEF Jobs
  <2>2. Scheduled(queue[j]) = Ready /\ Ready \in Queued
    BY <1>4, <2>1, JobShapes
  <2>3. w[j] = Idle
    BY <2>1 DEF RefundInv, Typed
  <2>4. Typed'
    BY <1>1, <1>2, <1>6, <2>1, <2>2, <2>3, SameWorld DEF RefundInv, Typed, WorldTyped
  <2>5. Settles'
    BY <1>1, <1>6 DEF RefundInv, Settles, May, requests, Truth, Announced, provider
  <2>6. May("solo") /\ lost = 0 => outcome # "failed"
    BY <1>2 DEF RefundInv, TakesTurns
  <2>7. TakesTurns'
    BY <1>1, <1>2, <1>3, <1>4, <1>6, <2>1, <2>6 DEF TakesTurns, May, provider
  <2> QED BY <1>1, <1>6, <2>4, <2>5, <2>7, RequestsKeep
<1>7. CASE /\ Fault /\ UNCHANGED queue
           /\ outcome' = IF mgr.was = "failed" THEN MarkedFailed(outcome) ELSE outcome
  <2>1. outcome' \in RefundStatus /\ (outcome' \in Settled => outcome' = outcome)
    BY <1>4, <1>7, MarkedShapes
  <2>2. faults' \in 0 .. MaxFaults
    BY <1>7, RefundAssumption DEF Fault, RefundInv, Typed, WorldTyped
  <2>3. Typed'
    BY <1>1, <1>2, <1>7, <2>1, <2>2, SameWorld DEF RefundInv, Typed
  <2>4. Settles'
    BY <1>1, <2>1 DEF RefundInv, Settles, May, requests, Truth, Announced, Settled, provider
  <2>5. TakesTurns'
    BY <1>1, <1>2, <1>3, <1>5, <1>7 DEF TakesTurns, May
  <2> QED BY <1>1, <1>3, <2>3, <2>4, <2>5, RequestsKeep
<1> QED BY <1>6, <1>7 DEF Schedule

LEMMA SweepKeeps ==
  ASSUME RefundInv, Sweep \/ Requeue
  PROVE  RefundInv'
<1>1. /\ UNCHANGED <<setting, outcome, w, mgr, hook, deposit, provider, faults>>
      /\ sweep' \in BOOLEAN
  BY DEF Sweep, Requeue, work
<1>2. Settles'
  BY <1>1 DEF RefundInv, Settles, May, requests, Truth, Announced, provider
<1>3. CASE Sweep
  <2>1. queue' = queue
    BY <1>3 DEF Sweep, work
  <2>2. Typed'
    BY <1>1, <2>1, SameWorld DEF RefundInv, Typed, WorldTyped
  <2>3. TakesTurns'
    BY <1>1, <2>1 DEF RefundInv, TakesTurns, May, provider
  <2> QED BY <1>1, <1>2, <2>2, <2>3, RequestsKeep
<1>4. CASE Requeue
  <2>1. PICK j \in Jobs : queue' = [queue EXCEPT ![j] = Requeued(queue[j])]
    BY <1>4 DEF Requeue, Jobs
  <2>2. queue[j] \in Queued /\ queue \in [Jobs -> Queued]
    BY DEF RefundInv, Typed
  <2>3. Requeued(queue[j]) \in Queued /\ (LiveJob(queue[j]) => Requeued(queue[j]) = queue[j])
    BY <2>2, JobShapes DEF Requeued
  <2>4. w[j] # Idle => LiveJob(queue[j])
    BY DEF RefundInv, Typed, LiveJob
  <2>5. Typed'
    BY <1>1, <2>1, <2>2, <2>3, <2>4, SameWorld DEF RefundInv, Typed, WorldTyped
  <2>6. May("solo") => mgr = NoRequest /\ outcome = "pending" /\ \A k \in Jobs : ~LiveJob(queue[k])
    BY <1>4 DEF Requeue, Alone
  <2>7. TakesTurns'
    BY <1>1, <2>1, <2>2, <2>6 DEF TakesTurns, May
  <2> QED BY <1>1, <1>2, <2>5, <2>7, RequestsKeep
<1> QED BY <1>3, <1>4

-----------------------------------------------------------------------------
(* The world and the webhooks.                                             *)

\* A step of the world or of a webhook that takes nothing back.
LEMMA ForwardKeeps ==
  ASSUME RefundInv, UNCHANGED <<setting, work, requests, faults>>,
         Forward, ours' = ours, WorldTyped', Booked'
  PROVE  RefundInv'
<1>1. UNCHANGED <<outcome, queue, w, mgr, sweep, hook>>
  BY DEF work, requests
<1>2. Typed'
  BY <1>1 DEF RefundInv, Typed
<1>3. Settles'
  BY <1>1, TruthStays DEF RefundInv, Settles, May, requests, Forward, WorldTyped, Paid, Settled
<1>4. TakesTurns'
  BY <1>1 DEF RefundInv, TakesTurns, Forward, May
<1>5. ASSUME NEW k \in Jobs PROVE Grounded(w[k])' /\ Timely(w[k])'
  <2>1. w'[k] = w[k]
    BY <1>1
  <2>2. Grounded(w[k])'
    BY <1>1, <2>1, OthersGrounded
  <2>3. Timely(w[k])'
    BY <1>1 DEF RefundInv, Timely, Forward, May
  <2> QED BY <2>2, <2>3
<1> QED BY <1>2, <1>3, <1>4, <1>5 DEF RefundInv

LEMMA ProviderKeeps ==
  ASSUME RefundInv, Authorize \/ Lapse \/ DashboardRefund
  PROVE  RefundInv'
<1>1. UNCHANGED <<setting, work, requests, deposit, faults, ours, lost, keys>>
  BY DEF Authorize, Lapse, DashboardRefund, ProviderMoves
<1>2. CASE Authorize \/ Lapse
  <2>1. /\ intent \in {"unconfirmed", "requires_capture"} /\ dash' = dash
        /\ \/ intent' = "requires_capture" /\ mail' = mail \cup {"authorized"}
           \/ intent' = "canceled" /\ mail' = mail \cup {"expired"}
    BY <1>2 DEF Authorize, Lapse
  <2>2. Forward
    BY <1>1, <2>1 DEF Forward, Announced, RefundInv, Typed, WorldTyped, Paid
  <2>3. WorldTyped'
    BY <1>1, <2>1 DEF RefundInv, Typed, WorldTyped, IntentStatus, deposit, Paid
  <2>4. ours = 0 /\ dash = 0 /\ lost = 0
    BY <2>1 DEF RefundInv, Booked, Typed, WorldTyped, Paid
  <2>5. "released" \notin mail /\ "expired" \notin mail /\ row # "uncollectable" /\ CancelKey \notin keys
    BY <2>1 DEF RefundInv, Booked
  <2>6. Booked'
    BY <1>1, <2>1, <2>4, <2>5 DEF RefundInv, Booked, deposit, requests, May
  <2> QED BY <1>1, <2>2, <2>3, <2>6, ForwardKeeps
<1>3. CASE DashboardRefund
  <2>1. /\ intent = "succeeded" /\ dash = 0 /\ ours < Paid /\ dash' = 1
        /\ UNCHANGED <<intent, mail>>
    BY <1>3 DEF DashboardRefund
  <2>2. ours \in 0 .. Paid /\ lost \in 0 .. 1
    BY DEF RefundInv, Typed, WorldTyped
  <2>3. ours = 0
    BY <2>1, <2>2 DEF RefundInv, Booked, Paid
  <2>4. ours' = 0 /\ ours' + dash' <= Paid
    BY <1>1, <2>1, <2>3 DEF Paid
  <2>5. Forward
    BY <1>1, <2>1, <2>2, <2>3, <2>4 DEF Forward, Announced
  <2>6. WorldTyped'
    BY <1>1, <2>1, <2>4 DEF RefundInv, Typed, WorldTyped, deposit, Paid
  <2>7. Booked'
    BY <1>1, <2>1, <2>3, <2>4 DEF RefundInv, Booked, deposit, requests, May
  <2> QED BY <1>1, <2>5, <2>6, <2>7, ForwardKeeps
<1> QED BY <1>2, <1>3

LEMMA LateKeeps ==
  ASSUME RefundInv, LateClaim \/ LateCapture
  PROVE  RefundInv'
<1>1. UNCHANGED <<setting, work, requests, faults, ours, dash, lost, keys, mail>>
  BY DEF LateClaim, LateCapture, LateOnly, provider
<1>2. /\ late' \in {"capture", "done"}
      /\ intent' = intent \/ (intent = "requires_capture" /\ intent' = "succeeded" /\ row' = row)
      /\ \/ row' = row
         \/ row \in {"held", "forfeited"} /\ row' \in {"held", "forfeited"}
         \/ row' = "uncollectable" /\ intent = "canceled"
  BY DEF LateClaim, LateCapture, LateCorrect, provider
<1>3. Forward
  BY <1>1, <1>2 DEF Forward, Announced, RefundInv, Typed, WorldTyped, Paid
<1>4. WorldTyped'
  BY <1>1, <1>2 DEF RefundInv, Typed, WorldTyped, RowStatus, IntentStatus, Paid
<1>5. Booked'
  BY <1>1, <1>2 DEF RefundInv, Booked, requests, May
<1> QED BY <1>1, <1>3, <1>4, <1>5, ForwardKeeps

LEMMA IntentEventKeeps ==
  ASSUME RefundInv, NEW m \in DOMAIN RowMail, OnIntentEvent(m)
  PROVE  RefundInv'
<1>1. /\ UNCHANGED <<setting, work, requests, late, faults, intent, ours, dash, lost, keys>>
      /\ m \in mail /\ mail' = mail \ {m}
  BY DEF OnIntentEvent, Delivered
<1>2. m \in {"authorized", "released", "expired"}
  BY DEF RowMail
<1>3. \/ row' = row
      \/ m = "authorized" /\ row' = "held"
      \/ m = "released" /\ row' = "refunded"
      \/ m = "expired" /\ row' = "uncollectable"
  BY <1>2 DEF OnIntentEvent, RowMail
<1>4. Forward
  BY <1>1, <1>2 DEF Forward, Announced, RefundInv, Typed, WorldTyped, Paid
<1>5. WorldTyped'
  BY <1>1, <1>3 DEF RefundInv, Typed, WorldTyped, RowStatus, Paid
<1>6. Booked'
  BY <1>1, <1>2, <1>3 DEF RefundInv, Booked, requests, May
<1> QED BY <1>1, <1>4, <1>5, <1>6, ForwardKeeps

\* A refund fails while somebody goes by it: jobs come in turns here, and the
\* one at work has left the outcome pending, so the webhook will find it so.
LEMMA FailingKeeps ==
  ASSUME RefundInv, RefundFails
  PROVE  RefundInv'
<1>1. /\ UNCHANGED <<setting, outcome, queue, w, mgr, sweep, hook, row, late, faults>>
      /\ UNCHANGED <<intent, dash, keys>>
      /\ ours > 0 /\ lost = 0 /\ ours' = 0 /\ lost' = 1 /\ mail' = mail \cup {"refund_failed"}
  BY DEF RefundFails, ProviderMoves, work, requests, deposit
<1>2. /\ intent = "succeeded" /\ May("failing")' /\ May("solo")' = May("solo")
      /\ FailingAlone => May("solo")
  BY <1>1 DEF RefundFails, RefundInv, Booked, Typed, FailingAlone, May
<1>3. Announced'
  BY <1>1 DEF Announced
<1>4. WorldTyped'
  BY <1>1 DEF RefundInv, Typed, WorldTyped, Paid
<1>5. Booked'
  <2>1. ASSUME NEW key \in keys, key # CancelKey PROVE key[2] < lost'
    BY <1>1, <2>1 DEF RefundInv, Booked, Typed, WorldTyped
  <2>2. \A key \in keys' : key # CancelKey => key[2] < lost' \/ (key[2] = lost' /\ ours' > 0)
    BY <1>1, <2>1
  <2> QED BY <1>1, <1>2, <2>2 DEF RefundInv, Booked
<1>6. Typed'
  BY <1>1, <1>4 DEF RefundInv, Typed
<1>7. Settles'
  BY <1>1, <1>2, <1>3 DEF RefundInv, Settles, May
<1>8. TakesTurns'
  BY <1>1 DEF RefundInv, TakesTurns, May
<1>9. ASSUME NEW k \in Jobs PROVE Grounded(w[k])' /\ Timely(w[k])'
  <2>1. PICK x \in WorkStates : x = w[k] /\ x = w'[k] /\ Grounded(x) /\ Timely(x)
    BY <1>1 DEF RefundInv, Typed
  <2>2. /\ x.pc # "write_off" /\ x.res # "none" /\ (x.pc = "create" => x.failed <= 1)
        /\ May("solo") => x.pc \notin {"amounts", "count", "create"}
    BY <1>1, <1>2, <2>1 DEF Grounded, WorkStates
  <2>3. FailingAlone /\ x.res # None => outcome' = "pending"
    BY <1>1, <1>2, <2>1 DEF Timely
  <2>4. Grounded(x)'
    BY <1>1, <1>2, <1>3, <2>1, <2>2, <2>3 DEF Grounded
  <2>5. Timely(x)'
    BY <1>1 DEF Timely
  <2> QED BY <2>1, <2>4, <2>5 DEF Grounded, Timely
<1> QED BY <1>5, <1>6, <1>7, <1>8, <1>9 DEF RefundInv

LEMMA FailedAskKeeps ==
  ASSUME RefundInv, OnRefundFailedAsk
  PROVE  RefundInv'
<1>1. /\ UNCHANGED <<setting, outcome, queue, w, mgr, sweep, row, late, faults>>
      /\ UNCHANGED <<intent, ours, dash, lost, keys>> /\ hook' \in {"idle", "mark"}
      /\ mail' \in {mail, mail \ {"refund_failed"}}
      /\ hook' = "mark" => "refund_failed" \in mail'
      /\ mail' = mail \/ ours > 0
  <2>1. hook = "idle"
    BY DEF OnRefundFailedAsk
  <2>2. CASE ours > 0
    <3>1. hook' = "idle" /\ Delivered("refund_failed")
      BY <2>1, <2>2 DEF OnRefundFailedAsk
    <3> QED BY <2>2, <3>1 DEF OnRefundFailedAsk, Delivered, work, deposit
  <2>3. CASE ~(ours > 0)
    <3>1. hook' = "mark" /\ UNCHANGED provider
      BY <2>3 DEF OnRefundFailedAsk
    <3> QED BY <3>1 DEF OnRefundFailedAsk, work, deposit, provider
  <2> QED BY <2>2, <2>3
<1>2. Typed'
  BY <1>1 DEF RefundInv, Typed, WorldTyped
<1>3. Booked'
  BY <1>1 DEF RefundInv, Booked, May
<1>4. Truth' <=> Truth
  BY <1>1 DEF Truth
<1>5. ours > 0 => Truth
  BY WholeCharge DEF RefundInv, Booked
<1>6. Announced => Announced' \/ Truth
  BY <1>1, <1>5 DEF Announced
<1>7. Settles'
  BY <1>1, <1>4, <1>6 DEF RefundInv, Settles
<1>8. TakesTurns'
  BY <1>1 DEF RefundInv, TakesTurns, May
<1>9. ASSUME NEW k \in Jobs PROVE Grounded(w[k])' /\ Timely(w[k])'
  <2>1. PICK x : x = w[k] /\ x = w'[k] /\ Grounded(x) /\ Timely(x)
    BY <1>1 DEF RefundInv
  <2>2. Grounded(x)'
    BY <1>1, <1>4, <1>6, <2>1 DEF Grounded, May
  <2>3. Timely(x)'
    BY <1>1, <2>1 DEF Timely, May
  <2> QED BY <2>1, <2>2, <2>3 DEF Grounded, Timely
<1> QED BY <1>2, <1>3, <1>7, <1>8, <1>9 DEF RefundInv

\* A webhook that finds the outcome done corrects it; one that finds nothing to
\* correct comes back as long as the outcome is pending.
LEMMA FailedMarkKeeps ==
  ASSUME RefundInv, OnRefundFailedMark \/ OnRefundFailedLook
  PROVE  RefundInv'
<1>1. /\ UNCHANGED <<setting, queue, w, mgr, sweep, row, late, faults>>
      /\ UNCHANGED <<intent, ours, dash, lost, keys>> /\ hook # "idle"
  BY DEF OnRefundFailedMark, OnRefundFailedLook, Delivered, work, deposit, provider
<1>2. /\ \/ hook' = "look" /\ outcome # "done" /\ outcome' = outcome /\ mail' = mail
         \/ hook' = "idle" /\ mail' \in {mail, mail \ {"refund_failed"}}
      /\ outcome' = outcome \/ (outcome = "done" /\ outcome' = "failed")
      /\ outcome = "pending" => mail' = mail
      /\ May("whole") => outcome' # "done"
  <2>1. CASE OnRefundFailedMark
    BY <2>1 DEF OnRefundFailedMark, Delivered, provider
  <2>2. CASE OnRefundFailedLook
    BY <2>2 DEF OnRefundFailedLook, Delivered, provider, work, RefundInv, Settles
  <2> QED BY <2>1, <2>2
<1>3. lost > 0 /\ lost' > 0 /\ intent = "succeeded" /\ May("failing")
  BY <1>1 DEF RefundInv, Booked
<1>4. FailingAlone => May("whole")
  BY <1>3 DEF FailingAlone, May, RefundInv, Typed
<1>5. outcome' \in RefundStatus /\ outcome' # "none"
  BY <1>2, <1>3 DEF RefundInv, Typed, Settles, RefundStatus
<1>6. Typed'
  BY <1>1, <1>2, <1>5 DEF RefundInv, Typed, WorldTyped
<1>7. Booked'
  BY <1>1, <1>2 DEF RefundInv, Booked, May
<1>8. Settles'
  BY <1>2, <1>4, <1>5 DEF Settles, Settled
<1>9. TakesTurns'
  BY <1>1, <1>3 DEF RefundInv, TakesTurns, May, Typed, WorldTyped
<1>10. Truth' <=> Truth
  BY <1>1 DEF Truth
<1>11. ASSUME NEW k \in Jobs PROVE Grounded(w[k])' /\ Timely(w[k])'
  <2>1. PICK x : x = w[k] /\ x = w'[k] /\ Grounded(x)
    BY <1>1 DEF RefundInv
  <2>2. Grounded(x)'
    BY <1>1, <1>2, <1>10, <2>1 DEF Grounded, May, Announced
  <2>3. Timely(x)'
    BY <1>3 DEF Timely, RefundInv, Typed, WorldTyped
  <2> QED BY <2>1, <2>2, <2>3 DEF Grounded, Timely
<1> QED BY <1>6, <1>7, <1>8, <1>9, <1>11 DEF RefundInv

-----------------------------------------------------------------------------
(* Every behaviour.                                                        *)

LEMMA Beginnings ==
  ASSUME Init
  PROVE  RefundInv /\ Answered
<1>1. /\ setting.row \in RowStatus /\ setting.intent \in IntentStatus
      /\ setting.owed \in {"pending", "none"}
      /\ setting.intent = "unconfirmed" => setting.row = "pending"
      /\ setting.row = "uncollectable" \/ setting.owed = "none" => setting.intent = "canceled"
  BY RefundAssumption DEF Init, RowStatus, IntentStatus
<1>2. PICK first \in {NoJob, Ready} : queue = [j \in Jobs |-> IF j = "stable" THEN first ELSE NoJob]
  BY DEF Init
<1>3. /\ NoJob \in Queued /\ Ready \in Queued
      /\ NoJob.st = "none" /\ Ready.st = "ready"
  BY RefundAssumption DEF NoJob, Ready, Queued, JobStates
<1>4. \A j \in Jobs : /\ w[j] = Idle /\ queue[j] \in Queued /\ queue[j].st \in {"none", "ready"}
                      /\ LiveJob(queue[j]) => j = "stable"
  BY <1>2, <1>3 DEF Init, LiveJob
<1>5. WorldTyped
  BY <1>1, RefundAssumption DEF Init, WorldTyped, Paid
<1>6. Typed
  BY <1>1, <1>2, <1>3, <1>5, IdleShape DEF Init, Typed, RefundStatus
<1>7. Booked
  BY <1>1 DEF Init, Booked
<1>8. Settles
  BY <1>1 DEF Init, Settles, Truth, Settled
<1>9. TakesTurns
  BY <1>1, <1>4 DEF Init, TakesTurns
<1>10. \A j \in Jobs : Grounded(w[j]) /\ Timely(w[j])
  BY <1>4, IdleShape, RefundAssumption DEF Grounded, Timely, Early
<1>11. Answered
  BY <1>4, IdleShape DEF Answered, Left
<1> QED BY <1>6, <1>7, <1>8, <1>9, <1>10, <1>11 DEF RefundInv

LEMMA StepsKeep ==
  ASSUME RefundInv, [Next]_vars
  PROVE  RefundInv'
<1>1. CASE UNCHANGED vars
  BY <1>1 DEF vars, work, requests, deposit, provider, RefundInv, Typed, WorldTyped, Booked, May,
              Settles, Truth, Announced, TakesTurns, Grounded, Timely
<1>2. ASSUME NEW j \in Jobs, Attempt(j) PROVE RefundInv'
  BY <1>2, LoadKeeps, ReopenKeeps, ReadKeeps, AskKeeps, FindKeeps, CreateKeeps, ClaimKeeps,
     CancelKeeps, RecordKeeps, ThrowKeeps, JobMovesKeeps DEF Attempt
<1>3. ASSUME NEW j \in Jobs, Take(j) \/ Crash(j) \/ Stall(j) PROVE RefundInv'
  BY <1>3, JobMovesKeeps
<1>4. CASE Asked
  BY <1>4, ListResetKeeps, ScheduleKeeps, SweepKeeps DEF Asked
<1>5. CASE World
  BY <1>5, ProviderKeeps, FailingKeeps, LateKeeps DEF World
<1>6. CASE Webhook
  BY <1>6, IntentEventKeeps, FailedAskKeeps, FailedMarkKeeps DEF Webhook
<1> QED BY <1>1, <1>2, <1>3, <1>4, <1>5, <1>6 DEF Next

LEMMA AlwaysRefundInv == Spec => []RefundInv
BY Beginnings, StepsKeep, PTL DEF Spec

-----------------------------------------------------------------------------
(* The properties.                                                         *)

LEMMA TruthAtRest == FailingAlone /\ RefundInv => SettledIsTrue
BY DEF RefundInv, Settles, SettledIsTrue, AtRest, Truth, Announced

\* Every variable has its type, and a job is worked on only while it is active
\* (job-worker.ts hands a job to one worker at a time).
THEOREM RefundTypeCorrect == Spec => []TypeOK
<1>1. RefundInv => TypeOK
  BY DEF RefundInv, Typed, WorldTyped, TypeOK, Queued, WorkStates, RowStatus, IntentStatus
<1> QED BY <1>1, AlwaysRefundInv, PTL

\* At rest, a refund recorded as settled is the truth, for any number of jobs,
\* retries and faults, and whatever the order of their steps: the card is released
\* for good or the guest has the charge back. Where a refund may fail after it was
\* accepted, FailingAlone asks for two things that the code does not ensure, and
\* without which the claim is false: jobs come in turns (failed_refund_hides), and
\* no outcome is recorded between the two statements with which the webhook marks
\* a failed refund (markDoneRefundFailed).
THEOREM SettledStaysTrue == ASSUME FailingAlone PROVE Spec => []SettledIsTrue
BY TruthAtRest, AlwaysRefundInv, PTL

LEMMA NoNewFailure ==
  ASSUME RefundInv, [Next]_vars, outcome \in Settled, outcome' = "failed"
  PROVE  lost > 0
<1>1. outcome # "failed" /\ outcome \in RefundStatus
  BY DEF Settled, RefundStatus
<1>2. MarkedFailed(outcome) = outcome
  BY DEF MarkedFailed
<1>3. outcome' # outcome
  BY <1>1
<1>4. ASSUME NEW j \in Jobs, Attempt(j) PROVE FALSE
  <2>1. CASE Reopen(j)
    BY <1>1, <2>1 DEF Reopen
  <2>2. CASE Record(j)
    <3>1. w[j].pc = "record" /\ outcome' = w[j].res
      BY <2>2 DEF Record, At
    <3>2. w[j].res \in Settled
      BY <3>1 DEF RefundInv, Typed, Grounded, WorkStates
    <3> QED BY <3>1, <3>2 DEF Settled
  <2>3. CASE Throw(j)
    BY <1>2, <1>3, <2>3 DEF Throw
  <2>4. outcome' = outcome \/ Reopen(j) \/ Record(j) \/ Throw(j)
    BY <1>4 DEF Attempt, Load, Recheck, Read, AskIntent, Find, Amounts, Count, Create, Claim,
                CancelIntent, Rollback, WriteOff, HoldRow, End, Learns
  <2> QED BY <1>3, <2>1, <2>2, <2>3, <2>4
<1>5. ASSUME NEW j \in Jobs, Take(j) \/ Crash(j) \/ Stall(j) PROVE FALSE
  BY <1>3, <1>5 DEF Take, Crash, Stall
<1>6. CASE Asked
  BY <1>1, <1>2, <1>3, <1>6 DEF Asked, List, Reset, Schedule, Sweep, Requeue, work
<1>7. CASE World
  BY <1>3, <1>7 DEF World, Authorize, Lapse, DashboardRefund, RefundFails, ProviderMoves,
                    LateClaim, LateCapture, LateOnly, work
<1>8. CASE Webhook
  <2>1. CASE OnRefundFailedMark
    BY <2>1 DEF OnRefundFailedMark, RefundInv, Booked
  <2>2. outcome' = outcome \/ OnRefundFailedMark
    BY <1>8 DEF Webhook, OnIntentEvent, OnRefundFailedAsk, OnRefundFailedLook, work
  <2> QED BY <1>3, <2>1, <2>2
<1> QED BY <1>3, <1>4, <1>5, <1>6, <1>7, <1>8 DEF Next, vars, work

\* No run of the job, and no Retry that cannot reach the queue, writes a failure
\* over what another one settled (markFailed): only the webhook of a refund that
\* failed after it was accepted does.
THEOREM SettledNotOverwritten == Spec => NoFalseFailure
<1>1. RefundInv /\ [Next]_vars => [outcome' = "failed" /\ outcome \in Settled => lost > 0]_vars
  BY NoNewFailure
<1> QED BY <1>1, AlwaysRefundInv, PTL DEF Spec, NoFalseFailure

-----------------------------------------------------------------------------
(* Who says how it went.                                                   *)

\* Some job will say so: nothing is owed to anybody else.
LEMMA SaidByOne ==
  ASSUME RefundInv, Answered, faults = 0, NEW j \in Jobs, WillSay(j)',
         \A k \in Jobs \ {j} : w'[k] = w[k] /\ (queue'[k].st = "active" => queue[k].st = "active"),
         queue'[j].st = "active" => w'[j] # Idle
  PROVE  Answered'
BY DEF Answered, RefundInv, Typed

\* The outcome is not pending, so nothing is left to be said.
LEMMA SaidAlready ==
  ASSUME Answered, faults = 0, outcome' # "pending",
         \A k \in Jobs : queue'[k].st = "active" => w'[k] # Idle
  PROVE  Answered'
BY DEF Answered

\* Nothing of what is left to be said has changed.
LEMMA SaidAsBefore ==
  ASSUME Answered, faults = 0, outcome' = outcome \/ outcome' # "pending",
         UNCHANGED <<queue, w>>, mgr.step = 2 => mgr'.step = 2
  PROVE  Answered'
BY DEF Answered, Left, WillSay

LEMMA AttemptAnswers ==
  ASSUME RefundInv, RefundInv', Answered, faults = 0, faults' = 0,
         NEW j \in Jobs, Attempt(j)
  PROVE  Answered'
<1>1. /\ queue \in [Jobs -> Queued] /\ w \in [Jobs -> WorkStates] /\ w[j] \in WorkStates /\ w'[j] \in WorkStates
      /\ \A k \in Jobs : w[k] # Idle => queue[k].st = "active"
      /\ \A k \in Jobs : w'[k] # Idle <=> w'[k].pc # "idle"
      /\ \A k \in Jobs : queue[k].st = "active" => w[k] # Idle
  BY DEF RefundInv, Typed, Answered
<1>2. /\ w[j].pc # "idle" /\ queue[j].st = "active"
  <2>1. w[j].pc # "idle"
    BY DEF Attempt, Load, Recheck, Reopen, Read, AskIntent, Find, Amounts, Count, Create, Claim,
           CancelIntent, Rollback, WriteOff, HoldRow, Record, End, Throw, At
  <2> QED BY <2>1, Working
<1>3. CASE GoesOn(j)
  <2>1. WillSay(j)' /\ w'[j] # Idle
    BY <1>1, <1>3 DEF GoesOn, WillSay, Early
  <2> QED BY <1>1, <1>3, <2>1, SaidByOne DEF GoesOn
<1>4. CASE Load(j)
  <2>1. PICK pc \in {"recheck", "end", "read"}, x \in {Idle, w[j]} :
          /\ w' = [w EXCEPT ![j] = Go(x, pc)] /\ UNCHANGED <<outcome, queue>>
          /\ pc # "read" => outcome # "pending"
    BY <1>4 DEF Load, Learns, Does
  <2>2. w'[j].pc = pc /\ \A k \in Jobs \ {j} : w'[k] = w[k]
    BY <1>1, <2>1, Shapes, IdleShape DEF Pcs
  <2>3. w'[j] # Idle
    BY <1>1, <2>2
  <2>4. CASE pc = "read"
    <3>1. WillSay(j)'
      BY <2>2, <2>4 DEF WillSay
    <3> QED BY <1>1, <2>1, <2>2, <2>3, <3>1, SaidByOne
  <2>5. CASE pc # "read"
    BY <1>1, <2>1, <2>2, <2>3, <2>5, SaidAlready
  <2> QED BY <2>4, <2>5
<1>5. CASE Recheck(j) \/ End(j)
  <2>1. Left(j) /\ ~WillSay(j)
    BY <1>2, <1>5 DEF Recheck, End, At, Left, WillSay
  <2>2. /\ UNCHANGED <<outcome, mgr>>
        /\ \A k \in Jobs \ {j} : w'[k] = w[k] /\ queue'[k] = queue[k]
        /\ queue'[j].st = "active" => w'[j] # Idle
    <3>1. CASE Recheck(j)
      <4>1. PICK pc \in {"reopen", "end"} : w' = [w EXCEPT ![j] = Go(w[j], pc)]
        BY <3>1 DEF Recheck, Learns, Does
      <4>2. w'[j] # Idle /\ \A k \in Jobs \ {j} : w'[k] = w[k]
        BY <1>1, <4>1, Shapes DEF Pcs
      <4> QED BY <3>1, <4>2 DEF Recheck, Learns, Kept, requests
    <3>2. CASE End(j)
      <4>1. Ended(queue[j]).st = "ended"
        BY <1>1, JobShapes
      <4> QED BY <1>1, <3>2, <4>1 DEF End, Does, Kept, requests
    <3> QED BY <1>5, <3>1, <3>2
  <2>3. \A k \in Jobs \ {j} : WillSay(k) => WillSay(k)'
    BY <2>2 DEF WillSay
  <2>4. outcome = "pending" => mgr.step = 2 \/ \E k \in Jobs \ {j} : WillSay(k)
    BY <2>1 DEF Answered
  <2> QED BY <1>1, <2>2, <2>3, <2>4 DEF Answered
<1>6. CASE Reopen(j)
  <2>1. /\ w' = [w EXCEPT ![j] = Go(w[j], "read")] /\ UNCHANGED queue
    BY <1>6 DEF Reopen, Does
  <2>2. w'[j].pc = "read" /\ \A k \in Jobs \ {j} : w'[k] = w[k]
    BY <1>1, <2>1, Shapes DEF Pcs
  <2>3. WillSay(j)' /\ w'[j] # Idle
    BY <1>1, <2>2 DEF WillSay
  <2> QED BY <1>1, <2>1, <2>2, <2>3, SaidByOne
<1>7. CASE Record(j)
  <2>1. /\ w' = [w EXCEPT ![j] = Go(Idle, "end")] /\ UNCHANGED queue
        /\ outcome' = w[j].res /\ w[j].pc = "record"
    BY <1>7 DEF Record, Does, At
  <2>2. w'[j].pc = "end" /\ \A k \in Jobs \ {j} : w'[k] = w[k]
    BY <1>1, <2>1, Shapes, IdleShape DEF Pcs
  <2>3. outcome' # "pending"
    BY <1>1, <2>1 DEF RefundInv, Grounded, WorkStates, Settled
  <2> QED BY <1>1, <2>1, <2>2, <2>3, SaidAlready
<1>8. CASE Throw(j)
  <2>1. PICK job : job = Thrown(queue[j], Attempts, w[j].perm) /\ queue' = [queue EXCEPT ![j] = job]
    BY <1>8 DEF Throw
  <2>2. /\ job \in Queued
        /\ job.st = IF w[j].perm \/ IsFinalAttempt(queue[j], Attempts) THEN "ended" ELSE "ready"
    <3>1. queue[j] \in Queued /\ w[j].perm \in BOOLEAN
      BY <1>1 DEF WorkStates
    <3> QED BY <2>1, <3>1, JobShapes
  <2>3. w' = [w EXCEPT ![j] = Idle]
    BY <1>8 DEF Throw, Does
  <2>4. \A k \in Jobs \ {j} : w'[k] = w[k] /\ queue'[k] = queue[k]
    BY <1>1, <2>1, <2>3
  <2>5. queue'[j] = job /\ job.st # "active"
    BY <1>1, <2>1, <2>2
  <2>6. CASE job.st = "ready"
    <3>1. WillSay(j)'
      BY <2>5, <2>6 DEF WillSay
    <3> QED BY <1>1, <2>4, <2>5, <3>1, SaidByOne
  <2>7. CASE job.st # "ready"
    <3>1. w[j].perm \/ IsFinalAttempt(queue[j], Attempts)
      BY <2>2, <2>7
    <3>2. outcome' = MarkedFailed(outcome) \/ Fault
      BY <1>8, <3>1 DEF Throw
    <3>3. ~Fault
      BY DEF Fault
    <3>4. outcome' # "pending"
      BY <3>2, <3>3 DEF MarkedFailed, Settled
    <3> QED BY <1>1, <2>4, <2>5, <3>4, SaidAlready
  <2> QED BY <2>6, <2>7
<1> QED
  BY <1>3, <1>4, <1>5, <1>6, <1>7, <1>8, ReadKeeps, AskKeeps, FindKeeps, CreateKeeps, ClaimKeeps,
     CancelKeeps DEF Attempt

LEMMA AnsweredKeeps ==
  ASSUME RefundInv, Answered, [Next]_vars
  PROVE  Answered'
<1> SUFFICES ASSUME faults' = 0 PROVE Answered'
  BY DEF Answered
<1>0. RefundInv'
  BY StepsKeep
<1>1. /\ queue \in [Jobs -> Queued] /\ w \in [Jobs -> WorkStates] /\ faults \in Nat
      /\ \A k \in Jobs : w[k] # Idle => queue[k].st = "active"
      /\ \A k \in Jobs : w[k] # Idle <=> w[k].pc # "idle"
  BY RefundAssumption DEF RefundInv, Typed, WorldTyped
<1>2. ~Fault
  BY <1>1 DEF Fault
<1>3. faults = 0
  <2>1. ASSUME NEW j \in Jobs, Attempt(j) PROVE faults' = faults
    BY <1>2, <2>1 DEF Attempt, Load, Recheck, Reopen, Read, AskIntent, Find, Amounts, Count, Create,
         Claim, CancelIntent, Rollback, WriteOff, HoldRow, Record, End, Throw, Learns
  <2>2. ASSUME NEW j \in Jobs, Take(j) \/ Crash(j) \/ Stall(j) PROVE faults' = faults
    BY <1>2, <2>2 DEF Take, Crash, Stall
  <2>3. Asked => faults' = faults
    BY <1>2 DEF Asked, List, Reset, Schedule, Sweep, Requeue
  <2>4. World => faults' = faults
    BY DEF World, Authorize, Lapse, DashboardRefund, RefundFails, ProviderMoves, LateClaim,
           LateCapture, LateOnly
  <2>5. Webhook => faults' = faults
    BY DEF Webhook, OnIntentEvent, OnRefundFailedAsk, OnRefundFailedMark, OnRefundFailedLook
  <2> QED BY <2>1, <2>2, <2>3, <2>4, <2>5 DEF Next, vars
<1>4. \A k \in Jobs : queue[k].st = "active" => w[k] # Idle
  BY <1>3 DEF Answered
<1>5. ASSUME NEW j \in Jobs, Take(j) PROVE Answered'
  <2>1. PICK y : y = [Idle EXCEPT !.pc = "load"] /\ w' = [w EXCEPT ![j] = y]
    BY <1>5 DEF Take, Does
  <2>2. y.pc = "load"
    BY <2>1, IdleShape DEF WorkStates
  <2>3. WillSay(j)' /\ w'[j] # Idle
    BY <1>1, <2>1, <2>2, IdleShape DEF WillSay
  <2>4. \A k \in Jobs \ {j} : w'[k] = w[k] /\ queue'[k] = queue[k]
    BY <1>1, <1>5, <2>1 DEF Take
  <2> QED BY <1>3, <2>3, <2>4, SaidByOne
<1>6. ASSUME NEW j \in Jobs, Crash(j) \/ Stall(j) PROVE FALSE
  BY <1>2, <1>4, <1>6 DEF Crash, Stall
<1>7. CASE List \/ Reset \/ Sweep
  <2>1. UNCHANGED <<queue, w>>
    BY <1>7 DEF List, Reset, Sweep, AsksOnly, work
  <2>2. CASE List
    <3>1. outcome' = outcome /\ mgr.step # 2
      BY <2>2, IdleShape DEF List
    <3> QED BY <1>3, <2>1, <3>1, SaidAsBefore
  <2>3. CASE Reset
    <3>1. mgr'.step = 2
      BY <2>3, Doings DEF Reset
    <3> QED BY <1>4, <2>1, <3>1 DEF Answered
  <2>4. CASE Sweep
    <3>1. UNCHANGED <<outcome, mgr>>
      BY <2>4 DEF Sweep, work
    <3> QED BY <1>3, <2>1, <3>1, SaidAsBefore
  <2> QED BY <1>7, <2>2, <2>3, <2>4
<1>8. CASE Schedule
  <2>1. PICK j \in Jobs : queue[j].st = "none" /\ queue' = [queue EXCEPT ![j] = Scheduled(queue[j])]
    BY <1>2, <1>8 DEF Schedule, Jobs
  <2>2. Scheduled(queue[j]).st = "ready" /\ w' = w
    BY <1>1, <1>8, <2>1, JobShapes DEF Schedule, AsksOnly
  <2>3. WillSay(j)' /\ queue'[j].st # "active"
    BY <1>1, <2>1, <2>2 DEF WillSay
  <2>4. \A k \in Jobs \ {j} : w'[k] = w[k] /\ queue'[k] = queue[k]
    BY <1>1, <2>1, <2>2
  <2> QED BY <1>3, <2>3, <2>4, SaidByOne
<1>9. CASE Requeue
  <2>1. PICK j \in Jobs : queue' = [queue EXCEPT ![j] = Requeued(queue[j])]
    BY <1>9 DEF Requeue, Jobs
  <2>2. UNCHANGED <<w, outcome, mgr>>
    BY <1>9 DEF Requeue
  <2>3. CASE LiveJob(queue[j])
    <3>1. queue' = queue
      BY <1>1, <2>1, <2>3 DEF Requeued
    <3> QED BY <1>3, <2>2, <3>1, SaidAsBefore
  <2>4. CASE ~LiveJob(queue[j])
    <3>1. queue'[j] = Ready /\ Ready.st = "ready"
      BY <1>1, <2>1, <2>4 DEF Requeued, Ready
    <3>2. WillSay(j)' /\ queue'[j].st # "active"
      BY <3>1 DEF WillSay
    <3>3. \A k \in Jobs \ {j} : w'[k] = w[k] /\ queue'[k] = queue[k]
      BY <1>1, <2>1, <2>2
    <3> QED BY <1>3, <3>2, <3>3, SaidByOne
  <2> QED BY <2>3, <2>4
<1>10. CASE World \/ Webhook
  <2>1. /\ UNCHANGED <<queue, w, mgr>>
        /\ outcome' = outcome \/ outcome' = "failed"
    BY <1>10 DEF World, Authorize, Lapse, DashboardRefund, RefundFails, ProviderMoves, LateClaim,
         LateCapture, LateOnly, Webhook, OnIntentEvent, OnRefundFailedAsk, OnRefundFailedMark,
         OnRefundFailedLook, work, requests
  <2> QED BY <1>3, <2>1, SaidAsBefore
<1>11. CASE UNCHANGED vars
  BY <1>3, <1>11, SaidAsBefore DEF vars, work, requests
<1> QED BY <1>0, <1>3, <1>5, <1>6, <1>7, <1>8, <1>9, <1>10, <1>11, AttemptAnswers DEF Next, Asked

\* A step elsewhere that may lose something of its own, and touches nothing here.
LEMMA ElsewhereKeeps ==
  ASSUME RefundInv, UNCHANGED <<setting, work, requests, deposit, provider>>,
         faults' \in 0 .. MaxFaults, faults' = 0 => faults = 0
  PROVE  RefundInv' /\ (Answered => Answered')
<1>1. /\ UNCHANGED <<setting, outcome, queue, w, mgr, sweep, hook, row, late>>
      /\ UNCHANGED <<intent, ours, dash, lost, keys, mail>>
  BY DEF work, requests, deposit, provider
<1>2. Typed' /\ Booked'
  BY <1>1 DEF RefundInv, Typed, WorldTyped, Booked, May
<1>3. Settles' /\ TakesTurns'
  BY <1>1 DEF RefundInv, Settles, May, requests, Truth, Announced, TakesTurns, May
<1>4. ASSUME NEW j \in Jobs PROVE Grounded(w[j])' /\ Timely(w[j])'
  BY <1>1 DEF RefundInv, Grounded, Timely, Truth, Announced, May
<1>5. Answered => Answered'
  BY <1>1 DEF Answered, Left, WillSay
<1> QED BY <1>2, <1>3, <1>4, <1>5 DEF RefundInv

LEMMA ShownAtRest == RefundInv /\ Answered => FailureShows
<1> SUFFICES ASSUME RefundInv, Answered, AtRest, faults = 0, \E j \in Jobs : queue[j].st = "ended"
             PROVE  outcome # "pending"
  BY DEF FailureShows
<1>1. \A j \in Jobs : ~WillSay(j)
  BY IdleShape DEF AtRest, WillSay, LiveJob
<1>2. mgr.step # 2
  BY IdleShape DEF AtRest
<1> QED BY <1>1, <1>2 DEF Answered, Left

\* At rest after some job ran, and if nothing was lost, the outcome is no longer
\* pending: whoever left it so left it to a job, or a Retry, that still had to say
\* how it went.
THEOREM FailureIsShown == Spec => []FailureShows
<1>1. Spec => [](RefundInv /\ Answered)
  BY Beginnings, StepsKeep, AnsweredKeeps, PTL DEF Spec
<1> QED BY <1>1, ShownAtRest, PTL
=============================================================================
