---------------------------- MODULE ClosureRefund ----------------------------
(***************************************************************************)
(* The refund a closure owes one guest: the CLOSURE_REFUND job, the sweep  *)
(* that revives lost jobs, the manager's Retry, and the webhooks.          *)
(*                                                                         *)
(* The closure cancelled the booking and left its outcome at "pending".    *)
(* The job reads the live deposit and decides; the deposit can move under  *)
(* it (a late cancellation that forfeits, a webhook, another run of the    *)
(* job), so every step up to the next await is an action of its own.       *)
(*                                                                         *)
(* Simplifications: the deposit is Paid units and has a PaymentIntent, the *)
(* captured statuses are one ("forfeited"), a call that reads the intent   *)
(* or refunds fails for a while only, and the grace period of the sweep is *)
(* left out, so a sweep may come at any moment.                            *)
(***************************************************************************)
EXTENDS Integers, Sequences, JobQueue

CONSTANTS
  Retries,     \* jobs a manager's Retry may add, each under a fresh id
  Settings,    \* what may happen in a behaviour besides the jobs
  Attempts,    \* attempts of a refund job
  MaxRereads,  \* reads of the deposit one attempt may make
  MaxFaults,   \* process deaths and lost writes of a behaviour
  None

ASSUME RefundAssumption ==
  /\ Attempts \in Nat \ {0} /\ MaxRereads \in Nat \ {0} /\ MaxFaults \in Nat
  /\ "stable" \notin Retries
  /\ None \notin {"done", "none", "unconfirmed", "requires_capture", "canceled", "succeeded"}
  /\ \A s \in Settings :
       /\ s.row \in {"pending", "held", "refunded", "forfeited", "uncollectable"}
       /\ s.intent \in {"unconfirmed", "requires_capture", "canceled", "succeeded"}
       /\ s.owed \in {"pending", "none"}
       /\ s.intent = "unconfirmed" => s.row = "pending"
       /\ s.row = "uncollectable" \/ s.owed = "none" => s.intent = "canceled"

VARIABLES
  setting,  \* how the deposit starts and what may happen, which never changes
  outcome,  \* ClosureOutcome.refund
  queue,    \* the jobs of this outcome
  w,        \* the attempt at work on each job, and what it has read
  mgr,      \* a Retry request under way, with the status it listed
  sweep,    \* whether the sweep has this outcome on its list
  hook,     \* the refund webhook: "idle", or which statement it is about to make
  row,      \* Deposit.status
  late,     \* a cancellation that read the booking before the closure
  intent,   \* status of the PaymentIntent
  ours,     \* units the closure's refunds have returned, failed ones not counted
  dash,     \* units returned from the provider's dashboard
  lost,     \* refunds of ours that failed after they were accepted
  keys,     \* idempotency keys the provider has served
  mail,     \* webhooks the provider has yet to deliver
  faults    \* how often a process died or a write was lost

deposit == <<row, late>>
provider == <<intent, ours, dash, lost, keys, mail>>
work == <<outcome, queue, w>>
requests == <<mgr, sweep, hook>>
vars == <<setting, work, requests, deposit, provider, faults>>

Jobs == {"stable"} \cup Retries
Paid == 2
RefundStatus == {"pending", "done", "none", "failed"}
Settled == {"done", "none"}

May(what) == what \in setting.may

Idle == [pc |-> "idle", res |-> None, reads |-> 0, owed |-> 0, failed |-> 0, perm |-> FALSE]
NoRequest == [step |-> 0, was |-> None]

-----------------------------------------------------------------------------
(* What an attempt does next. *)

Go(x, pc) == [x EXCEPT !.pc = pc]
Result(x, res) == [Idle EXCEPT !.pc = "record", !.res = res]
Fails(x, permanent) == [Idle EXCEPT !.pc = "throw", !.perm = permanent]

\* The row moved under the attempt: read it again, a bounded number of times.
Reread(x) ==
  IF x.reads + 1 >= MaxRereads THEN Fails(x, FALSE)
  ELSE [x EXCEPT !.pc = "read", !.reads = @ + 1]

\* Mutant: a refunded row is taken at its word.
OnReadTrusting(x, st) ==
  CASE st = "refunded" -> Result(x, "done")
    [] st = "uncollectable" -> Result(x, "none")
    [] st = "held" -> Go(x, "claim")
    [] st = "forfeited" -> Go(x, "captured")
    [] st = "pending" -> Go(x, "resolve")

\* settleOnce: the deposit's live status decides.
OnRead(x, st) ==
  CASE st = "refunded" -> Go(x, "void")
    [] st = "uncollectable" -> Result(x, "none")
    [] st = "held" -> Go(x, "claim")
    [] st = "forfeited" -> Go(x, "captured")
    [] st = "pending" -> Go(x, "resolve")

\* confirmRefundedIntentVoid: a refunded row is verified at the provider.
OnVoid(x, seen) ==
  CASE seen = "requires_capture" -> Go(x, "cancel_refunded")
    [] seen = "succeeded" -> Fails(x, TRUE)
    [] seen = None -> Fails(x, FALSE)
    [] OTHER -> Result(x, "done")

\* refundCaptured, up to the question whether anything was captured.
OnCaptured(x, seen) ==
  CASE seen = "canceled" -> [x EXCEPT !.pc = "write_off", !.res = "none"]
    [] seen = "requires_capture" -> Go(x, "cancel_captured")
    [] seen = "succeeded" -> Go(x, "find")
    [] OTHER -> Fails(x, FALSE)

\* resolvePending.
OnPending(x, seen) ==
  CASE seen = "canceled" -> Result(x, "none")
    [] seen = "requires_capture" -> Go(x, "hold")
    [] seen = "unconfirmed" -> Go(x, "cancel_pending")
    [] seen = "succeeded" -> Fails(x, TRUE)
    [] OTHER -> Fails(x, FALSE)

\* What follows a cancel of the intent, by what it was asked for.
OnCancel(x, answer) ==
  CASE x.pc = "cancel_held" ->
         IF answer = "ok" THEN Result(x, "done")
         ELSE [x EXCEPT !.pc = "reconcile", !.perm = answer = "refused"]
    [] x.pc # "cancel_held" /\ answer # "ok" -> Fails(x, answer = "refused")
    [] x.pc = "cancel_refunded" /\ answer = "ok" -> Result(x, "done")
    [] x.pc = "cancel_captured" /\ answer = "ok" -> [x EXCEPT !.pc = "write_off", !.res = "done"]
    [] x.pc = "cancel_pending" /\ answer = "ok" -> Result(x, "none")

\* _reconcileCancelFailure: the claim stands only if the intent is canceled.
OnReconcile(x, seen) ==
  IF seen = "canceled" THEN Result(x, "done")
  ELSE [x EXCEPT !.pc = "rollback", !.perm = @ \/ seen = "succeeded"]
-----------------------------------------------------------------------------
(* The provider. *)

\* Keys of refunds are their amount and the number of failed ones before them.
CancelKey == <<0, 0>>

Release(status) ==
  /\ intent' = "canceled"
  /\ mail' = IF status = "requires_capture" THEN mail \cup {"released"} ELSE mail
  /\ keys' = keys \cup {CancelKey}
  /\ UNCHANGED <<ours, dash, lost>>

\* A cancel of the intent: done, refused, or answered by silence after it
\* did or did not happen. One key serves every cancel of a deposit.
Cancel(answer) ==
  \/ /\ answer = "ok"
     /\ \/ CancelKey \in keys /\ UNCHANGED provider
        \/ CancelKey \notin keys /\ intent \in {"unconfirmed", "requires_capture"} /\ Release(intent)
  \/ /\ answer = "refused"
     /\ CancelKey \notin keys /\ intent \in {"canceled", "succeeded"}
     /\ UNCHANGED provider
  \/ /\ answer = "silence"
     /\ \/ UNCHANGED provider
        \/ CancelKey \notin keys /\ intent \in {"unconfirmed", "requires_capture"} /\ Release(intent)

\* A refund of "owed" units under its key: made once, replayed afterwards,
\* and refused when more than the charge has left.
Refund(owed, key, answer) ==
  LET fits == owed <= Paid - ours - dash
      Make == /\ ours' = ours + owed
              /\ keys' = keys \cup {key}
              /\ UNCHANGED <<intent, dash, lost, mail>>
  IN
  \/ answer = "ok" /\ key \in keys /\ UNCHANGED provider
  \/ answer = "ok" /\ key \notin keys /\ fits /\ Make
  \/ answer = "error" /\ UNCHANGED provider
  \/ answer = "error" /\ key \notin keys /\ fits /\ Make

ProviderMoves ==
  UNCHANGED <<setting, work, requests, deposit, faults>>

\* The guest confirms the card; the authorisation lapses.
Authorize ==
  /\ intent = "unconfirmed"
  /\ intent' = "requires_capture"
  /\ mail' = mail \cup {"authorized"}
  /\ UNCHANGED <<ours, dash, lost, keys>> /\ ProviderMoves

Lapse ==
  /\ May("lapse") /\ intent = "requires_capture"
  /\ intent' = "canceled"
  /\ mail' = mail \cup {"expired"}
  /\ UNCHANGED <<ours, dash, lost, keys>> /\ ProviderMoves

\* Somebody returns a unit from the dashboard.
DashboardRefund ==
  /\ May("dashboard") /\ intent = "succeeded" /\ dash = 0 /\ ours < Paid
  /\ dash' = 1
  /\ UNCHANGED <<intent, ours, lost, keys, mail>> /\ ProviderMoves

\* A refund that was accepted fails afterwards.
RefundFails ==
  /\ May("failing") /\ ours > 0 /\ lost = 0
  /\ ours' = 0 /\ lost' = lost + 1
  /\ mail' = mail \cup {"refund_failed"}
  /\ UNCHANGED <<intent, dash, keys>> /\ ProviderMoves

-----------------------------------------------------------------------------
(* One attempt of a job, up to each await.                                 *)

At(j, pc) == w[j].pc = pc
Does(j, x) == w' = [w EXCEPT ![j] = x]
Kept == UNCHANGED <<setting, requests>>
Fault == May("faults") /\ faults < MaxFaults /\ faults' = faults + 1

\* A worker takes the job.
Take(j) ==
  /\ queue[j].st = "ready" /\ w[j] = Idle
  /\ queue' = [queue EXCEPT ![j] = Taken(@)]
  /\ Does(j, [Idle EXCEPT !.pc = "load"])
  /\ Kept /\ UNCHANGED <<outcome, deposit, provider, faults>>

\* The steps that read, and write nothing.
Learns(j, x) ==
  Does(j, x) /\ Kept /\ UNCHANGED <<outcome, queue, deposit, provider, faults>>

Load(j) ==
  /\ At(j, "load")
  /\ Learns(j, CASE outcome = "none" -> Go(Idle, "end")
                 [] outcome = "done" -> Go(w[j], "recheck")
                 [] OTHER -> Go(w[j], "read"))

\* needsRelease: "done" is contradicted by a deposit that awaits a release.
Recheck(j) ==
  /\ At(j, "recheck")
  /\ Learns(j, Go(w[j], IF row \in {"held", "pending"} THEN "reopen" ELSE "end"))

Reopen(j) ==
  /\ At(j, "reopen")
  /\ outcome' = IF outcome = "done" THEN "pending" ELSE outcome
  /\ Does(j, Go(w[j], "read"))
  /\ Kept /\ UNCHANGED <<queue, deposit, provider, faults>>

Read(j) == At(j, "read") /\ Learns(j, OnRead(w[j], row))

\* What the attempt reads at the provider. Each answer may fail to come.
AskIntent(j) ==
  \E seen \in {intent, None} :
    \/ At(j, "void") /\ Learns(j, OnVoid(w[j], seen))
    \/ At(j, "captured") /\ Learns(j, OnCaptured(w[j], seen))
    \/ At(j, "resolve") /\ Learns(j, OnPending(w[j], seen))
    \/ At(j, "reconcile") /\ Learns(j, OnReconcile(w[j], seen))

\* findDepositRefund: a refund of ours that still stands settles it.
Find(j) ==
  /\ At(j, "find")
  /\ \/ Learns(j, IF ours > 0 THEN Result(w[j], "done") ELSE Go(w[j], "amounts"))
     \/ Learns(j, Fails(w[j], FALSE))

Amounts(j) ==
  LET owed == Paid - ours - dash IN
  /\ At(j, "amounts")
  /\ \/ Learns(j, IF owed <= 0 THEN Result(w[j], "done")
                  ELSE [w[j] EXCEPT !.pc = "count", !.owed = owed])
     \/ Learns(j, Fails(w[j], FALSE))

\* countFailedDepositRefunds: every refund that failed moves the key on.
Count(j) ==
  /\ At(j, "count")
  /\ \/ Learns(j, [w[j] EXCEPT !.pc = "create", !.failed = lost])
     \/ Learns(j, Fails(w[j], FALSE))

Create(j) ==
  /\ At(j, "create")
  /\ \E answer \in {"ok", "error"} :
       /\ Refund(w[j].owed, <<w[j].owed, w[j].failed>>, answer)
       /\ Does(j, IF answer = "ok" THEN Result(w[j], "done") ELSE Fails(w[j], FALSE))
  /\ Kept /\ UNCHANGED <<outcome, queue, deposit, faults>>

\* DepositService.refund: the row first, then the provider.
Claim(j) ==
  /\ At(j, "claim")
  /\ IF row = "held"
     THEN row' = "refunded" /\ Does(j, Go(w[j], "cancel_held"))
     ELSE row' = row /\ Does(j, Reread(w[j]))
  /\ Kept /\ UNCHANGED <<outcome, queue, late, provider, faults>>

CancelIntent(j) ==
  /\ w[j].pc \in {"cancel_held", "cancel_refunded", "cancel_captured", "cancel_pending"}
  /\ \E answer \in {"ok", "refused", "silence"} :
       Cancel(answer) /\ Does(j, OnCancel(w[j], answer))
  /\ Kept /\ UNCHANGED <<outcome, queue, deposit, faults>>

\* _rollbackRefundToHeld, which may be lost.
Rollback(j) ==
  /\ At(j, "rollback")
  /\ Does(j, Fails(w[j], w[j].perm))
  /\ \/ /\ row' = IF row = "refunded" THEN "held" ELSE row
        /\ UNCHANGED faults
     \/ row' = row /\ Fault
  /\ Kept /\ UNCHANGED <<outcome, queue, late, provider>>

\* writeOffUncaptured, and hold for a deposit whose webhook is late.
WriteOff(j) ==
  /\ At(j, "write_off")
  /\ IF row = "forfeited"
     THEN row' = "uncollectable" /\ Does(j, Result(w[j], w[j].res))
     ELSE row' = row /\ Does(j, Reread(w[j]))
  /\ Kept /\ UNCHANGED <<outcome, queue, late, provider, faults>>

HoldRow(j) ==
  /\ At(j, "hold")
  /\ row' = IF row = "pending" THEN "held" ELSE row
  /\ Does(j, Reread(w[j]))
  /\ Kept /\ UNCHANGED <<outcome, queue, late, provider, faults>>

\* setRefund, whatever the outcome has become meanwhile. In a "whole" setting it
\* does not fall between the two statements of the refund webhook; nothing in the
\* code keeps it from there, and a refund that failed then stays "done".
Record(j) ==
  /\ At(j, "record")
  /\ May("whole") => hook # "look"
  /\ outcome' = w[j].res
  /\ Does(j, Go(Idle, "end"))
  /\ Kept /\ UNCHANGED <<queue, deposit, provider, faults>>

End(j) ==
  /\ At(j, "end")
  /\ Does(j, Idle)
  /\ queue' = [queue EXCEPT ![j] = Ended(@)]
  /\ Kept /\ UNCHANGED <<outcome, deposit, provider, faults>>

\* Mutant: the failure is written over whatever another run recorded.
MarkedFailedAnyway(status) == "failed"

\* markFailed leaves a settled outcome alone.
MarkedFailed(status) == IF status \in Settled THEN status ELSE "failed"

\* The attempt threw. Only the last one, or a permanent failure, is recorded.
Throw(j) ==
  /\ At(j, "throw")
  /\ \/ /\ w[j].perm \/ IsFinalAttempt(queue[j], Attempts)
        /\ \/ outcome' = MarkedFailed(outcome) /\ UNCHANGED faults
           \/ UNCHANGED outcome /\ Fault
     \/ /\ ~w[j].perm /\ ~IsFinalAttempt(queue[j], Attempts)
        /\ UNCHANGED <<outcome, faults>>
  /\ queue' = [queue EXCEPT ![j] = Thrown(@, Attempts, w[j].perm)]
  /\ Does(j, Idle)
  /\ Kept /\ UNCHANGED <<deposit, provider>>

\* The process dies; later the queue notices that the job stalled.
Crash(j) ==
  /\ w[j] # Idle /\ Fault
  /\ Does(j, Idle)
  /\ Kept /\ UNCHANGED <<outcome, queue, deposit, provider>>

Stall(j) ==
  /\ queue[j].st = "active" /\ w[j] = Idle
  /\ \E job \in Stalled(queue[j]) : queue' = [queue EXCEPT ![j] = job]
  /\ Kept /\ UNCHANGED <<outcome, w, deposit, provider, faults>>
-----------------------------------------------------------------------------
(* The manager's Retry and the sweep.                                      *)

\* In a solo setting a job is added only after all others ended, and the sweep
\* never acts on a list that has gone stale.
Alone == May("solo") => mgr = NoRequest /\ \A j \in Jobs : ~LiveJob(queue[j])

AsksOnly == UNCHANGED <<setting, w, sweep, hook, deposit, provider>>

\* Mutant: the outcome is reset after the job was scheduled.
RetryStepsSwapped == <<"schedule", "reset">>

\* A Retry resets first, so that what its job records always comes later.
RetrySteps == <<"reset", "schedule">>

Doing(step) == mgr.step \in DOMAIN RetrySteps /\ RetrySteps[mgr.step] = step
Onward == IF mgr.step = Len(RetrySteps) THEN NoRequest ELSE [mgr EXCEPT !.step = @ + 1]

\* A manager retries outcomes that failed or are still pending.
List ==
  /\ mgr = NoRequest /\ outcome \in {"failed", "pending"}
  /\ \E j \in Retries : queue[j].st = "none"
  /\ Alone
  /\ mgr' = [step |-> 1, was |-> outcome]
  /\ UNCHANGED <<outcome, queue, faults>> /\ AsksOnly

Reset ==
  /\ Doing("reset")
  /\ outcome' = IF outcome = "failed" THEN "pending" ELSE outcome
  /\ mgr' = Onward
  /\ UNCHANGED <<queue, faults>> /\ AsksOnly

\* The job gets a fresh id, or the queue cannot be reached and an outcome
\* that was listed as failed is put back.
Schedule ==
  /\ Doing("schedule")
  /\ \/ /\ \E j \in Retries : queue[j].st = "none" /\ queue' = [queue EXCEPT ![j] = Scheduled(@)]
        /\ mgr' = Onward
        /\ UNCHANGED <<outcome, faults>>
     \/ /\ Fault
        /\ outcome' = IF mgr.was = "failed" THEN MarkedFailed(outcome) ELSE outcome
        /\ mgr' = NoRequest
        /\ UNCHANGED queue
  /\ AsksOnly

\* listStuckRefunds, and later the requeue under the closure's own job id.
Sweep ==
  /\ ~sweep /\ outcome = "pending"
  /\ sweep' = TRUE
  /\ UNCHANGED <<setting, work, mgr, hook, deposit, provider, faults>>

Requeue ==
  /\ sweep /\ Alone
  /\ May("solo") => outcome = "pending"
  /\ sweep' = FALSE
  /\ queue' = [queue EXCEPT !["stable"] = Requeued(@)]
  /\ UNCHANGED <<setting, outcome, w, mgr, hook, deposit, provider, faults>>
-----------------------------------------------------------------------------
(* The late cancellation: it takes the deposit and captures it.            *)

LateOnly == UNCHANGED <<setting, work, requests, faults>>

LateClaim ==
  /\ late = "claim"
  /\ IF row = "held" THEN row' = "forfeited" /\ late' = "capture"
     ELSE row' = row /\ late' = "done"
  /\ LateOnly /\ UNCHANGED provider

\* The capture's row is corrected by what the provider proves.
LateCorrect(to) == row' = IF row = "forfeited" THEN to ELSE row

LateCapture ==
  /\ late = "capture" /\ late' = "done"
  /\ \/ /\ intent = "requires_capture" /\ intent' = "succeeded"
        /\ UNCHANGED <<row, ours, dash, lost, keys, mail>>
     \/ intent = "canceled" /\ LateCorrect("uncollectable") /\ UNCHANGED provider
     \/ intent = "requires_capture" /\ LateCorrect("held") /\ UNCHANGED provider
     \/ UNCHANGED <<row, provider>>
  /\ LateOnly
-----------------------------------------------------------------------------
(* The webhooks. A delivery that throws is repeated.                       *)

Delivered(m) == mail' = mail \ {m} /\ UNCHANGED <<intent, ours, dash, lost, keys>>

RowMail == [authorized |-> <<"pending", "held">>,
            released |-> <<"held", "refunded">>,
            expired |-> <<"held", "uncollectable">>]

OnIntentEvent(m) ==
  /\ m \in mail
  /\ row' = IF row = RowMail[m][1] THEN RowMail[m][2] ELSE row
  /\ Delivered(m)
  /\ UNCHANGED <<setting, work, requests, late, faults>>

\* onChargeRefundUpdated asks whether a newer refund stands, and then writes.
OnRefundFailedAsk ==
  /\ "refund_failed" \in mail /\ hook = "idle"
  /\ IF ours > 0 THEN UNCHANGED hook /\ Delivered("refund_failed")
     ELSE hook' = "mark" /\ UNCHANGED provider
  /\ UNCHANGED <<setting, work, mgr, sweep, deposit, faults>>

\* markDoneRefundFailed updates an outcome that is done. If there is none, it
\* asks in a second statement whether the outcome is still pending.
OnRefundFailedMark ==
  /\ hook = "mark"
  /\ \/ outcome = "done" /\ outcome' = "failed" /\ hook' = "idle" /\ Delivered("refund_failed")
     \/ outcome # "done" /\ hook' = "look" /\ UNCHANGED <<outcome, provider>>
  /\ UNCHANGED <<setting, queue, w, mgr, sweep, deposit, faults>>

\* A pending outcome makes the route answer 500 and the provider repeat.
OnRefundFailedLook ==
  /\ hook = "look" /\ hook' = "idle"
  /\ IF outcome = "pending" THEN UNCHANGED provider ELSE Delivered("refund_failed")
  /\ UNCHANGED <<setting, work, mgr, sweep, deposit, faults>>
-----------------------------------------------------------------------------
(* The specification. *)

Init ==
  /\ setting \in Settings
  /\ outcome = setting.owed
  /\ \E first \in {NoJob, Ready} :
       /\ first = Ready => outcome = "pending"
       /\ queue = [j \in Jobs |-> IF j = "stable" THEN first ELSE NoJob]
  /\ w = [j \in Jobs |-> Idle]
  /\ mgr = NoRequest /\ sweep = FALSE /\ hook = "idle"
  /\ row = setting.row /\ intent = setting.intent
  /\ late = IF row = "pending" THEN "claim" ELSE "done"
  /\ ours = 0 /\ dash = 0 /\ lost = 0 /\ keys = {} /\ mail = {} /\ faults = 0

Attempt(j) ==
  \/ Load(j) \/ Recheck(j) \/ Reopen(j) \/ Read(j) \/ AskIntent(j)
  \/ Find(j) \/ Amounts(j) \/ Count(j) \/ Create(j)
  \/ Claim(j) \/ CancelIntent(j) \/ Rollback(j) \/ WriteOff(j) \/ HoldRow(j)
  \/ Record(j) \/ End(j) \/ Throw(j)

Asked == List \/ Reset \/ Schedule \/ Sweep \/ Requeue
World == Authorize \/ Lapse \/ DashboardRefund \/ RefundFails \/ LateClaim \/ LateCapture
Webhook ==
  \/ \E m \in DOMAIN RowMail : OnIntentEvent(m)
  \/ OnRefundFailedAsk \/ OnRefundFailedMark \/ OnRefundFailedLook

Next ==
  \/ \E j \in Jobs : Take(j) \/ Attempt(j) \/ Crash(j) \/ Stall(j)
  \/ Asked \/ World \/ Webhook

Spec == Init /\ [][Next]_vars

\* The workers work, stalled jobs are noticed and the sweep runs. Nobody has
\* to press Retry. The provider repeats a webhook after growing pauses, so its
\* deliveries do not keep an attempt from recording for ever.
\* ClosureNotice assumes it together with its own.
Fairness ==
  /\ \A j \in Jobs : WF_vars(Take(j) \/ Attempt(j) \/ Stall(j))
  /\ SF_vars(\E j \in Jobs : Record(j))
  /\ WF_vars(OnRefundFailedLook)
  /\ WF_vars(Reset \/ Schedule) /\ WF_vars(Sweep \/ Requeue)
-----------------------------------------------------------------------------
(* Properties. *)

Pcs == {"idle", "load", "recheck", "reopen", "read", "void", "captured", "resolve",
        "reconcile", "find", "amounts", "count", "create", "claim", "cancel_held",
        "cancel_refunded", "cancel_captured", "cancel_pending", "rollback",
        "write_off", "hold", "record", "end", "throw"}

\* Every variable has its type, and a job is worked on only while it is active.
TypeOK ==
  /\ setting \in Settings /\ outcome \in RefundStatus
  /\ \A j \in Jobs :
       /\ queue[j].st \in JobStates /\ queue[j].tries \in 0 .. Attempts - 1
       /\ w[j].pc \in Pcs /\ w[j].res \in Settled \cup {None}
       /\ w[j].reads \in 0 .. MaxRereads - 1
       /\ w[j] # Idle => queue[j].st = "active"
  /\ row \in {"pending", "held", "refunded", "forfeited", "uncollectable"}
  /\ intent \in {"unconfirmed", "requires_capture", "canceled", "succeeded"}
  /\ ours + dash <= Paid /\ faults <= MaxFaults

\* Nothing is under way for this outcome and no webhook is on its way.
AtRest ==
  /\ \A j \in Jobs : w[j] = Idle /\ ~LiveJob(queue[j])
  /\ mgr = NoRequest /\ late = "done" /\ mail = {}

\* Once everything is at rest, an outcome recorded as settled is the truth: the
\* card is released for good, or the guest has back what was charged.
SettledIsTrue ==
  AtRest /\ outcome \in Settled =>
    \/ intent = "canceled"
    \/ intent = "succeeded" /\ ours + dash >= Paid

\* Once everything is at rest after some job ran, and unless a process died or a
\* write was lost, the outcome says how it ended: a manager is never left with
\* a pending refund that nobody works on.
FailureShows ==
  AtRest /\ faults = 0 /\ (\E j \in Jobs : queue[j].st = "ended") => outcome # "pending"

\* A run that loses never marks as failed what another run settled, unless a
\* refund that had been accepted has failed since.
NoFalseFailure == [][outcome' = "failed" /\ outcome \in Settled => lost > 0]_vars
=============================================================================
