---------------------------- MODULE ClosureNotice ----------------------------
(***************************************************************************)
(* What a closure tells the guest whose booking it cancelled, beside the   *)
(* refund it owes: the CLOSURE_NOTICE jobs of one outcome (the closure's   *)
(* own and, after a reopening, a second one) and the sweep of lost ones.   *)
(*                                                                         *)
(* An attempt loads the whole column of delivery statuses, sends, and      *)
(* writes the whole column back; two attempts, a death or a lost write in  *)
(* between decide what the call list says and who is told twice.           *)
(*                                                                         *)
(* Simplifications: the texts are left out, and with them the rebook       *)
(* offers, whose failure only shortens the text; so are rebookings, which  *)
(* take a guest off the call list, and the grace period of the sweep.      *)
(***************************************************************************)
EXTENDS ClosureRefund

CONSTANT NoticeAttempts  \* attempts of a notice job

VARIABLES
  guest,       \* preference and contacts, which the guest or the staff may edit
  deliveries,  \* ClosureOutcome.deliveries, with the statuses of a reopen in it
  notices,     \* the job of each notice, and whether it is urgent
  n,           \* the attempt at work on each, and what it has read
  swept,       \* whether the sweep has this outcome on its list of notices
  told         \* how many messages of each notice went out on each channel

noticeVars == <<guest, deliveries, notices, n, swept, told>>
allVars == <<vars, noticeVars>>

Channel == {"email", "sms"}
Variant == {"closure", "reopened"}
Sent == {"sent", "failed", "skipped"}

ASSUME NoticeAssumption ==
  /\ NoticeAttempts \in Nat \ {0}
  /\ None \notin Sent \cup [Channel -> Sent \cup {None}]
  /\ \A s \in Settings : \A g \in s.guests : g.has \subseteq Channel

Unset == [c \in Channel |-> None]
NoDeliveries == [closure |-> Unset, reopened |-> None]
NoNotice == [job |-> NoJob, urgent |-> FALSE]
Resting == [pc |-> "idle", seen |-> NoDeliveries, next |-> Unset, todo |-> {}, failed |-> FALSE]
-----------------------------------------------------------------------------
(* Who is told how. *)

Preferred(preference) ==
  CASE preference = "sms_only" -> {"sms"}
    [] preference = "both" -> Channel
    [] OTHER -> {"email"}

\* closureNoticeChannels: the preferred ones, else whatever reaches the guest.
Channels(g, urgent) ==
  LET usable == (IF urgent THEN Channel ELSE Preferred(g.preference)) \cap g.has
  IN  IF usable # {} THEN usable ELSE g.has

\* The statuses of this notice in a column that was read.
Prior(column, v) == IF column[v] = None THEN Unset ELSE column[v]

\* Mutant: an earlier attempt's deliveries are not looked at.
ToSendAgain(prior, chosen) == chosen

\* A channel that was delivered is never asked again.
ToSend(prior, chosen) == {c \in chosen : prior[c] # "sent"}

\* Channels that are not chosen are skipped, unless they were delivered before.
Skipping(prior, chosen) ==
  [c \in Channel |-> IF c \notin chosen /\ prior[c] # "sent" THEN "skipped" ELSE prior[c]]

\* Mutant: the statuses of the other notice are not carried along.
MergedAlone(column, v, next) == [NoDeliveries EXCEPT ![v] = next]

\* What is written back: the new statuses, and the other notice's as they were read.
Merged(column, v, next) == [column EXCEPT ![v] = next]

\* isOnCallList, for a guest who did not rebook.
OnCallList == \A c \in Channel : deliveries.closure[c] # "sent"
-----------------------------------------------------------------------------
(* One attempt, up to each await. *)

Job(v) == notices[v].job
NoticeAt(v, pc) == n[v].pc = pc
Becomes(v, x) == n' = [n EXCEPT ![v] = x]
JobBecomes(v, job) == notices' = [notices EXCEPT ![v].job = job]
NoticeOnly == UNCHANGED <<setting, work, requests, deposit, provider, swept, guest>>

\* In an orderly setting no attempt begins while the other notice's is at work.
InTurn == May("orderly") => \A v \in Variant : n[v] = Resting

NoticeTake(v) ==
  /\ Job(v).st = "ready" /\ n[v] = Resting /\ InTurn
  /\ JobBecomes(v, Taken(Job(v)))
  /\ Becomes(v, [Resting EXCEPT !.pc = "load"])
  /\ NoticeOnly /\ UNCHANGED <<deliveries, told, faults>>

NoticeLoad(v) ==
  LET prior == Prior(deliveries, v)
      chosen == Channels(guest, notices[v].urgent)
      todo == ToSend(prior, chosen)
  IN
  /\ NoticeAt(v, "load")
  /\ Becomes(v, [pc |-> IF todo = {} THEN "record" ELSE "send", seen |-> deliveries,
                 next |-> Skipping(prior, chosen), todo |-> todo, failed |-> FALSE])
  /\ NoticeOnly /\ UNCHANGED <<deliveries, notices, told, faults>>

\* Every channel is tried. A message may go out although its sender got an
\* error. Only the last attempt calls a channel failed.
Send(v) ==
  /\ NoticeAt(v, "send")
  /\ \E out, ok \in SUBSET n[v].todo :
       /\ ok \subseteq out
       /\ IF ok = out THEN UNCHANGED faults ELSE Fault
       /\ told' = [told EXCEPT ![v] = [c \in Channel |-> @[c] + (IF c \in out THEN 1 ELSE 0)]]
       /\ Becomes(v, [n[v] EXCEPT
            !.pc = "record",
            !.failed = ok # n[v].todo,
            !.next = [c \in Channel |->
              CASE c \in ok -> "sent"
                [] c \in n[v].todo \ ok /\ IsFinalAttempt(Job(v), NoticeAttempts) -> "failed"
                [] OTHER -> @[c]]])
  /\ NoticeOnly /\ UNCHANGED <<deliveries, notices>>

\* recordDeliveries. A write that is lost makes the attempt throw.
NoticeRecord(v) ==
  /\ NoticeAt(v, "record")
  /\ \/ /\ deliveries' = Merged(n[v].seen, v, n[v].next)
        /\ Becomes(v, [n[v] EXCEPT !.pc = "end"])
        /\ UNCHANGED faults
     \/ /\ Fault
        /\ Becomes(v, [n[v] EXCEPT !.pc = "end", !.failed = TRUE])
        /\ UNCHANGED deliveries
  /\ NoticeOnly /\ UNCHANGED <<notices, told>>

NoticeEnd(v) ==
  /\ NoticeAt(v, "end")
  /\ JobBecomes(v, IF n[v].failed THEN Thrown(Job(v), NoticeAttempts, FALSE) ELSE Ended(Job(v)))
  /\ Becomes(v, Resting)
  /\ NoticeOnly /\ UNCHANGED <<deliveries, told, faults>>

NoticeCrash(v) ==
  /\ n[v] # Resting /\ Fault
  /\ Becomes(v, Resting)
  /\ NoticeOnly /\ UNCHANGED <<deliveries, notices, told>>

NoticeStall(v) ==
  /\ Job(v).st = "active" /\ n[v] = Resting
  /\ \E job \in Stalled(Job(v)) : JobBecomes(v, job)
  /\ NoticeOnly /\ UNCHANGED <<deliveries, n, told, faults>>
-----------------------------------------------------------------------------
(* Who asks for a notice. *)

AskOnly == UNCHANGED <<vars, n, told>>

\* A manager reopens the closure and has the guests it cancelled told.
TellReopened ==
  /\ May("reopen") /\ Job("reopened").st = "none"
  /\ \E u \in BOOLEAN : notices' = [notices EXCEPT !["reopened"] = [job |-> Scheduled(@.job), urgent |-> u]]
  /\ UNCHANGED <<guest, deliveries, swept>> /\ AskOnly

\* listStuckNotices: no status at all, of neither notice.
SweepNotices ==
  /\ May("notice") /\ ~swept /\ deliveries = NoDeliveries
  /\ swept' = TRUE
  /\ UNCHANGED <<guest, deliveries, notices>> /\ AskOnly

\* A live job keeps its own payload.
RequeueNotice ==
  /\ swept /\ swept' = FALSE
  /\ \E u \in BOOLEAN :
       notices' = [notices EXCEPT !["closure"] =
         IF LiveJob(@.job) THEN @ ELSE [job |-> Requeued(@.job), urgent |-> u]]
  /\ UNCHANGED <<guest, deliveries>> /\ AskOnly

EditGuest ==
  /\ May("edits")
  /\ guest' \in setting.guests
  /\ UNCHANGED <<deliveries, notices, swept>> /\ AskOnly
-----------------------------------------------------------------------------
(* The specification. *)

InitNotices ==
  /\ Init
  /\ guest \in setting.guests
  /\ deliveries = NoDeliveries
  /\ \E first \in {NoJob, Ready}, u \in BOOLEAN :
       /\ ~May("notice") => first = NoJob
       /\ first = NoJob => ~u
       /\ notices = [v \in Variant |->
            IF v = "closure" THEN [job |-> first, urgent |-> u] ELSE NoNotice]
  /\ n = [v \in Variant |-> Resting]
  /\ swept = FALSE
  /\ told = [v \in Variant |-> [c \in Channel |-> 0]]

NoticeAttempt(v) == NoticeLoad(v) \/ Send(v) \/ NoticeRecord(v) \/ NoticeEnd(v)

NextNotice ==
  \/ \E v \in Variant : NoticeTake(v) \/ NoticeAttempt(v) \/ NoticeCrash(v) \/ NoticeStall(v)
  \/ TellReopened \/ SweepNotices \/ RequeueNotice \/ EditGuest

NextJobs == (Next /\ UNCHANGED noticeVars) \/ NextNotice

SpecJobs == InitNotices /\ [][NextJobs]_allVars

\* Workers work, stalled jobs are noticed and the sweep runs, for both kinds of jobs.
FairJobs ==
  /\ SpecJobs
  /\ Fairness
  /\ \A v \in Variant : WF_allVars(NoticeTake(v) \/ NoticeAttempt(v) \/ NoticeStall(v))
  /\ WF_allVars(SweepNotices \/ RequeueNotice)
-----------------------------------------------------------------------------
(* Properties. *)

\* In an orderly setting no channel carries the same notice twice, unless a
\* death, a lost write or a sender's false error left a delivery unrecorded:
\* attempts, sweeps and the other notice's jobs repeat what failed and nothing
\* else (closure-notice.ts:141-149).
ToldOnce == \A v \in Variant, c \in Channel : told[v][c] <= 1 + faults

\* A guest whom no message reached is on the call list, whatever went wrong.
\* One who was told is off it as soon as no attempt is at work, unless
\* something was lost (isOnCallList, recordDeliveries).
CallListTrue ==
  LET untold == \A c \in Channel : told["closure"][c] = 0 IN
  /\ untold => OnCallList
  /\ OnCallList /\ faults = 0 /\ n["closure"] = Resting => untold

\* A refund is pending, or no delivery status was ever written.
Owing == outcome = "pending" \/ (May("notice") /\ deliveries = NoDeliveries)

\* An outcome does not stay for ever with a refund pending or without any
\* delivery status, whatever enqueue, job or write was lost: the sweep brings the
\* job back until an attempt says how it went (closure-outcome-sweeper.ts:8-28).
OutcomeSettles == Owing ~> ~Owing
=============================================================================
