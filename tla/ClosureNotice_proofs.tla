------------------------ MODULE ClosureNotice_proofs ------------------------
(***************************************************************************)
(* What TLAPS proves of ClosureNotice for any number of attempts, retries  *)
(* and faults: who is told twice, and what the call list says.             *)
(***************************************************************************)
EXTENDS ClosureNotice, ClosureRefund_proofs, TLAPS

-----------------------------------------------------------------------------
(* The inductive invariant.                                                *)

\* Reopenings are told only in settings whose notices take turns.
OrderlyReopens == \A s \in Settings : "reopen" \in s.may => "orderly" \in s.may

Statuses == [Channel -> Sent \cup {None}]
Columns == [closure : Statuses, reopened : Statuses \cup {None}]
Attempting == [pc : {"idle", "load", "send", "record", "end"}, seen : Columns, next : Statuses,
               todo : SUBSET Channel, failed : BOOLEAN]

NoticeTypes ==
  /\ setting \in Settings /\ guest \in setting.guests
  /\ faults \in Nat
  /\ deliveries \in Columns
  /\ DOMAIN notices = Variant
  /\ n \in [Variant -> Attempting]
  /\ told \in [Variant -> [Channel -> Nat]]

\* One notice at a time is at work, because they take turns or because there is
\* only one of them.
OneAtWork ==
  /\ \A v, u \in Variant : v = u \/ n[v] = Resting \/ n[u] = Resting
  /\ ~May("reopen") => Job("reopened") = NoJob /\ n["reopened"] = Resting

Recorded(v, c) == Prior(deliveries, v)[c] = "sent"

\* What an attempt goes by is still in the column, and it asks no channel that
\* was delivered.
Current ==
  \A v \in Variant :
    /\ n[v].pc \in {"send", "record"} =>
         n[v].seen = deliveries /\ \A c \in Channel : Recorded(v, c) => n[v].next[c] = "sent"
    /\ n[v].pc = "send" => \A c \in Channel :
         /\ n[v].next[c] = "sent" => Recorded(v, c)
         /\ c \in n[v].todo => ~Recorded(v, c)

\* A delivery that is recorded or about to be.
Known(v, c) == IF n[v].pc = "record" THEN n[v].next[c] = "sent" ELSE Recorded(v, c)

\* Every message but one per fault is known, and every message known went out.
Told ==
  \A v \in Variant, c \in Channel :
    /\ told[v][c] <= faults + (IF Known(v, c) THEN 1 ELSE 0)
    /\ Recorded(v, c) \/ Known(v, c) => told[v][c] > 0

NoticeInv == NoticeTypes /\ OneAtWork /\ Current /\ Told

-----------------------------------------------------------------------------
(* The refund jobs only add faults.                                        *)

LEMMA FaultsGrow ==
  ASSUME Next
  PROVE  setting' = setting /\ (faults' = faults \/ faults' = faults + 1)
<1>1. ASSUME NEW j \in Jobs, Take(j) \/ Crash(j) \/ Stall(j)
      PROVE  setting' = setting /\ (faults' = faults \/ faults' = faults + 1)
  BY <1>1 DEF Take, Crash, Stall, Kept, Fault
<1>2. ASSUME NEW j \in Jobs, Attempt(j)
      PROVE  setting' = setting /\ (faults' = faults \/ faults' = faults + 1)
  BY <1>2 DEF Attempt, Load, Recheck, Reopen, Read, AskIntent, Find, Amounts, Count, Create, Claim,
              CancelIntent, Rollback, WriteOff, HoldRow, Record, End, Throw, Learns, Kept, Fault
<1>3. CASE Asked
  BY <1>3 DEF Asked, List, Reset, Schedule, Sweep, Requeue, AsksOnly, Fault
<1>4. CASE World
  BY <1>4 DEF World, Authorize, Lapse, DashboardRefund, RefundFails, LateClaim, LateCapture,
              ProviderMoves, LateOnly
<1>5. CASE Webhook
  BY <1>5 DEF Webhook, OnIntentEvent, OnRefundFailedAsk, OnRefundFailedMark, OnRefundFailedLook
<1> QED BY <1>1, <1>2, <1>3, <1>4, <1>5 DEF Next

LEMMA RefundsKeep ==
  ASSUME NoticeInv, Next, UNCHANGED noticeVars
  PROVE  NoticeInv'
<1>1. setting' = setting /\ (faults' = faults \/ faults' = faults + 1)
  BY FaultsGrow
<1>2. NoticeTypes' /\ OneAtWork' /\ Current'
  BY <1>1 DEF NoticeInv, noticeVars, NoticeTypes, OneAtWork, Current, Recorded, Job, May
<1>3. Told'
  BY <1>1 DEF NoticeInv, noticeVars, NoticeTypes, Told, Known, Recorded
<1> QED BY <1>2, <1>3 DEF NoticeInv

-----------------------------------------------------------------------------
(* An attempt of a notice.                                                 *)

LEMMA RestingTyped == Resting \in Attempting /\ NoDeliveries \in Columns /\ Unset \in Statuses
BY DEF Resting, Attempting, NoDeliveries, Columns, Statuses, Unset

\* An attempt moves on: the other one stays as it is.
LEMMA Moves ==
  ASSUME NoticeTypes, NEW v \in Variant, NEW x \in Attempting, Becomes(v, x)
  PROVE  /\ n' \in [Variant -> Attempting]
         /\ n'[v] = x
         /\ \A u \in Variant \ {v} : n'[u] = n[u]
BY DEF NoticeTypes, Becomes

\* A change of jobs that no attempt sees.
LEMMA JobsOnly ==
  ASSUME NoticeInv, UNCHANGED <<setting, faults, deliveries, n, told>>,
         guest' \in setting.guests, DOMAIN notices' = Variant,
         ~May("reopen") => notices'["reopened"].job = notices["reopened"].job
  PROVE  NoticeInv'
<1>1. NoticeTypes'
  BY DEF NoticeInv, NoticeTypes
<1>2. OneAtWork'
  BY DEF NoticeInv, OneAtWork, Job, May
<1>3. Current' /\ Told'
  BY DEF NoticeInv, Current, Told, Known, Recorded
<1> QED BY <1>1, <1>2, <1>3 DEF NoticeInv

LEMMA StallsKeep ==
  ASSUME NoticeInv, NEW v \in Variant, NoticeStall(v)
  PROVE  NoticeInv'
<1>1. DOMAIN notices' = Variant /\ guest' \in setting.guests
  BY DEF NoticeStall, JobBecomes, NoticeOnly, NoticeInv, NoticeTypes
<1>2. ASSUME ~May("reopen")
      PROVE  notices'["reopened"].job = notices["reopened"].job
  <2>1. Job("reopened").st = "none"
    BY <1>2 DEF NoticeInv, OneAtWork, NoJob
  <2>2. v # "reopened"
    BY <2>1 DEF NoticeStall
  <2> QED BY <2>2 DEF NoticeStall, JobBecomes, Variant, NoticeInv, NoticeTypes
<1> QED BY <1>1, <1>2, JobsOnly DEF NoticeStall, NoticeOnly

LEMMA AsksKeep ==
  ASSUME NoticeInv, TellReopened \/ SweepNotices \/ RequeueNotice \/ EditGuest
  PROVE  NoticeInv'
<1>1. UNCHANGED <<setting, faults, deliveries, n, told>> /\ guest' \in setting.guests
  BY DEF TellReopened, SweepNotices, RequeueNotice, EditGuest, AskOnly, vars, NoticeInv, NoticeTypes
<1>2. DOMAIN notices' = Variant
  BY DEF TellReopened, SweepNotices, RequeueNotice, EditGuest, AskOnly, NoticeInv, NoticeTypes
<1>3. ~May("reopen") => notices'["reopened"].job = notices["reopened"].job
  BY DEF TellReopened, SweepNotices, RequeueNotice, EditGuest, AskOnly, NoticeInv, NoticeTypes, Variant
<1> QED BY <1>1, <1>2, <1>3, JobsOnly

LEMMA TakesKeep ==
  ASSUME OrderlyReopens, NoticeInv, NEW v \in Variant, NoticeTake(v)
  PROVE  NoticeInv'
<1> DEFINE x == [Resting EXCEPT !.pc = "load"]
<1>1. x \in Attempting /\ x.pc = "load"
  BY RestingTyped DEF Resting, Attempting
<1>2. n' \in [Variant -> Attempting] /\ n'[v] = x /\ \A u \in Variant \ {v} : n'[u] = n[u]
  BY <1>1, Moves DEF NoticeTake, NoticeInv
<1>3. v # "reopened" \/ May("reopen")
  BY DEF NoticeInv, OneAtWork, NoticeTake, NoJob
<1>4. \A u \in Variant \ {v} : n[u] = Resting
  BY <1>3 DEF NoticeInv, NoticeTypes, OneAtWork, NoticeTake, InTurn, OrderlyReopens, May, Variant
<1>5. DOMAIN notices' = Variant /\ \A u \in Variant \ {v} : notices'[u] = notices[u]
  BY DEF NoticeTake, JobBecomes, NoticeInv, NoticeTypes
<1>6. UNCHANGED <<setting, guest, deliveries, told, faults>>
  BY DEF NoticeTake, NoticeOnly
<1>7. NoticeTypes'
  BY <1>2, <1>5, <1>6 DEF NoticeInv, NoticeTypes
<1>8. OneAtWork'
  BY <1>2, <1>3, <1>4, <1>5, <1>6 DEF NoticeInv, OneAtWork, Job, May, Variant
<1>9. n[v].pc = "idle"
  BY DEF NoticeTake, Resting
<1>10. Current' /\ Told'
  <2>1. \A u \in Variant : n'[u].pc \in {"send", "record"} => n'[u] = n[u]
    BY <1>1, <1>2
  <2>2. Current'
    BY <1>1, <1>2, <1>6, <2>1 DEF NoticeInv, Current, Recorded
  <2>3. \A u \in Variant, c \in Channel : Known(u, c)' <=> Known(u, c)
    BY <1>1, <1>2, <1>6, <1>9, <2>1 DEF Known, Recorded
  <2>4. \A u \in Variant, c \in Channel : Recorded(u, c)' <=> Recorded(u, c)
    BY <1>6 DEF Recorded
  <2> QED BY <1>6, <2>2, <2>3, <2>4 DEF NoticeInv, Told
<1> QED BY <1>7, <1>8, <1>10 DEF NoticeInv

\* What every later step of an attempt leaves alone.
LEMMA AtWork ==
  ASSUME NoticeInv, NEW v \in Variant, n[v] # Resting, NEW x \in Attempting, Becomes(v, x),
         UNCHANGED <<setting, guest>>, faults' \in Nat, deliveries' \in Columns,
         DOMAIN notices' = Variant, \A u \in Variant \ {v} : notices'[u] = notices[u],
         told' \in [Variant -> [Channel -> Nat]]
  PROVE  /\ NoticeTypes' /\ OneAtWork'
         /\ n'[v] = x
         /\ \A u \in Variant \ {v} : n[u] = Resting /\ n'[u] = Resting
<1>1. n' \in [Variant -> Attempting] /\ n'[v] = x /\ \A u \in Variant \ {v} : n'[u] = n[u]
  BY Moves DEF NoticeInv
<1>2. \A u \in Variant \ {v} : n[u] = Resting
  BY DEF NoticeInv, OneAtWork
<1>3. v # "reopened" \/ May("reopen")
  BY DEF NoticeInv, OneAtWork
<1>4. NoticeTypes'
  BY <1>1 DEF NoticeInv, NoticeTypes
<1>5. OneAtWork'
  BY <1>1, <1>2, <1>3 DEF NoticeInv, OneAtWork, Job, May, Variant
<1> QED BY <1>1, <1>2, <1>4, <1>5

\* The statuses an attempt starts from are typed.
LEMMA PriorTyped ==
  ASSUME NEW column \in Columns, NEW v \in Variant
  PROVE  Prior(column, v) \in Statuses
BY RestingTyped DEF Columns, Prior, Variant

LEMMA LoadsKeep ==
  ASSUME NoticeInv, NEW v \in Variant, NoticeLoad(v)
  PROVE  NoticeInv'
<1> DEFINE prior == Prior(deliveries, v)
           chosen == Channels(guest, notices[v].urgent)
           todo == ToSend(prior, chosen)
           next == Skipping(prior, chosen)
           x == [pc |-> IF todo = {} THEN "record" ELSE "send", seen |-> deliveries,
                 next |-> next, todo |-> todo, failed |-> FALSE]
<1>1. prior \in Statuses
  BY PriorTyped DEF NoticeInv, NoticeTypes
<1>2. chosen \subseteq Channel
  <2>1. guest.has \subseteq Channel
    BY NoticeAssumption DEF NoticeInv, NoticeTypes
  <2> QED BY <2>1 DEF Channels
<1>3. next \in Statuses /\ \A c \in Channel : next[c] = "sent" <=> prior[c] = "sent"
  BY <1>1 DEF Skipping, Statuses, Sent
<1>4. todo \subseteq Channel /\ \A c \in todo : prior[c] # "sent"
  BY <1>2 DEF ToSend
<1>5. x \in Attempting /\ x.pc \in {"send", "record"} /\ x.seen = deliveries
      /\ x.next = next /\ x.todo = todo
  BY <1>3, <1>4 DEF Attempting, NoticeInv, NoticeTypes
<1>6. n[v].pc = "load" /\ n[v] # Resting
  BY DEF NoticeLoad, NoticeAt, Resting
<1>7. Becomes(v, x) /\ UNCHANGED <<setting, guest, deliveries, notices, told, faults>>
  BY DEF NoticeLoad, NoticeOnly
<1> HIDE DEF x, next, todo, chosen, prior
<1>8. /\ NoticeTypes' /\ OneAtWork' /\ n'[v] = x
      /\ \A u \in Variant \ {v} : n[u] = Resting /\ n'[u] = Resting
  BY <1>5, <1>6, <1>7, AtWork DEF NoticeInv, NoticeTypes
<1>9. \A u \in Variant, c \in Channel : Recorded(u, c)' <=> Recorded(u, c)
  BY <1>7 DEF Recorded
<1>10. \A c \in Channel : Recorded(v, c) <=> prior[c] = "sent"
  BY DEF Recorded, prior
<1>11. Current'
  BY <1>3, <1>4, <1>5, <1>7, <1>8, <1>9, <1>10 DEF Current, Resting
<1>12. \A u \in Variant, c \in Channel : Known(u, c)' <=> Known(u, c)
  BY <1>3, <1>5, <1>6, <1>8, <1>9, <1>10 DEF Known, Resting
<1>13. Told'
  BY <1>7, <1>9, <1>12 DEF NoticeInv, Told
<1> QED BY <1>8, <1>11, <1>13 DEF NoticeInv

LEMMA SendsKeep ==
  ASSUME NoticeInv, NEW v \in Variant, Send(v)
  PROVE  NoticeInv'
<1>1. PICK out \in SUBSET n[v].todo, ok \in SUBSET n[v].todo :
        /\ ok \subseteq out
        /\ IF ok = out THEN UNCHANGED faults ELSE Fault
        /\ told' = [told EXCEPT ![v] = [c \in Channel |-> @[c] + (IF c \in out THEN 1 ELSE 0)]]
        /\ Becomes(v, [n[v] EXCEPT
             !.pc = "record",
             !.failed = ok # n[v].todo,
             !.next = [c \in Channel |->
               CASE c \in ok -> "sent"
                 [] c \in n[v].todo \ ok /\ IsFinalAttempt(Job(v), NoticeAttempts) -> "failed"
                 [] OTHER -> @[c]]])
  BY DEF Send
<1> DEFINE next == [c \in Channel |->
             CASE c \in ok -> "sent"
               [] c \in n[v].todo \ ok /\ IsFinalAttempt(Job(v), NoticeAttempts) -> "failed"
               [] OTHER -> n[v].next[c]]
           x == [n[v] EXCEPT !.pc = "record", !.failed = ok # n[v].todo, !.next = next]
<1>2. n[v].pc = "send" /\ n[v] # Resting /\ n[v] \in Attempting
  BY DEF Send, NoticeAt, Resting, NoticeInv, NoticeTypes
<1>3. n[v].next \in Statuses
  BY <1>2 DEF Attempting
<1>4. /\ next \in Statuses
      /\ \A c \in ok : next[c] = "sent"
      /\ \A c \in Channel \ ok : next[c] = "sent" => n[v].next[c] = "sent"
      /\ \A c \in Channel \ n[v].todo : next[c] = n[v].next[c]
  <2>0. \A c \in Channel :
          /\ c \in ok => next[c] = "sent"
          /\ c \notin ok => next[c] = "failed" \/ next[c] = n[v].next[c]
          /\ c \notin n[v].todo => next[c] = n[v].next[c]
    OBVIOUS
  <2>1. ok \subseteq Channel
    BY <1>2 DEF Attempting
  <2>2. \A c \in Channel : next[c] \in Sent \cup {None}
    BY <1>3, <2>0 DEF Statuses, Sent
  <2> QED BY <2>0, <2>1, <2>2 DEF Statuses
<1>5. x \in Attempting /\ x.pc = "record" /\ x.seen = n[v].seen /\ x.next = next
  BY <1>2, <1>4 DEF Attempting
<1>6. Becomes(v, x) /\ UNCHANGED <<setting, guest, deliveries, notices>>
  BY <1>1 DEF Send, NoticeOnly
<1> HIDE DEF x, next
<1>7. /\ faults \in Nat /\ faults' \in Nat /\ faults' >= faults
      /\ out # ok => faults' = faults + 1
  BY <1>1 DEF Fault, NoticeInv, NoticeTypes
<1>8. /\ told' \in [Variant -> [Channel -> Nat]]
      /\ \A c \in Channel : told'[v][c] = told[v][c] + (IF c \in out THEN 1 ELSE 0)
      /\ \A u \in Variant \ {v} : told'[u] = told[u]
  BY <1>1 DEF NoticeInv, NoticeTypes
<1>9. /\ NoticeTypes' /\ OneAtWork' /\ n'[v] = x
      /\ \A u \in Variant \ {v} : n[u] = Resting /\ n'[u] = Resting
  BY <1>2, <1>5, <1>6, <1>7, <1>8, AtWork DEF NoticeInv, NoticeTypes
<1>10. \A u \in Variant, c \in Channel : Recorded(u, c)' <=> Recorded(u, c)
  BY <1>6 DEF Recorded
<1>11. /\ n[v].seen = deliveries
       /\ \A c \in Channel : Recorded(v, c) <=> n[v].next[c] = "sent"
       /\ \A c \in n[v].todo : ~Recorded(v, c)
  BY <1>2 DEF NoticeInv, Current, Attempting
<1>12. Current'
  BY <1>4, <1>5, <1>6, <1>9, <1>10, <1>11 DEF Current, Resting
<1>13. Told'
  <2> SUFFICES ASSUME NEW u \in Variant, NEW c \in Channel
               PROVE  /\ told'[u][c] <= faults' + (IF Known(u, c)' THEN 1 ELSE 0)
                      /\ Recorded(u, c)' \/ Known(u, c)' => told'[u][c] > 0
    BY DEF Told
  <2>1. /\ told[u][c] \in Nat
        /\ told[u][c] <= faults + (IF Known(u, c) THEN 1 ELSE 0)
        /\ Recorded(u, c) \/ Known(u, c) => told[u][c] > 0
    BY DEF NoticeInv, NoticeTypes, Told
  <2>2. CASE u # v
    <3>1. Known(u, c)' <=> Known(u, c)
      BY <1>9, <1>10, <2>2 DEF Known, Resting
    <3> QED BY <1>7, <1>8, <1>10, <2>1, <2>2, <3>1
  <2>3. CASE u = v /\ c \in out
    <3>1. ~Recorded(v, c) /\ ~Known(v, c) /\ ~Recorded(v, c)'
      BY <1>2, <1>10, <1>11, <2>3 DEF Known
    <3>2. told'[v][c] = told[v][c] + 1 /\ told[v][c] <= faults
      BY <1>7, <1>8, <2>1, <2>3, <3>1
    <3>3. c \in ok => Known(v, c)'
      BY <1>4, <1>5, <1>9 DEF Known
    <3>4. c \notin ok => faults' = faults + 1
      BY <1>7, <2>3
    <3> QED BY <1>7, <2>1, <2>3, <3>2, <3>3, <3>4
  <2>4. CASE u = v /\ c \notin out
    <3>1. c \notin ok
      BY <1>1, <2>4
    <3>2. Known(v, c)' => Recorded(v, c)
      BY <1>4, <1>5, <1>9, <1>11, <3>1 DEF Known
    <3>3. Recorded(v, c) => Known(v, c)'
      BY <1>4, <1>5, <1>9, <1>11 DEF Known
    <3>4. Known(v, c) <=> Recorded(v, c)
      BY <1>2 DEF Known
    <3> QED BY <1>7, <1>8, <1>10, <2>1, <2>4, <3>2, <3>3, <3>4
  <2> QED BY <2>2, <2>3, <2>4
<1> QED BY <1>9, <1>12, <1>13 DEF NoticeInv

\* An attempt that dies, or whose record is lost, costs a fault: what it sent is
\* repeated at most once for it.
LEMMA Lost ==
  ASSUME NoticeInv, NEW v \in Variant, n[v] # Resting, NEW x \in Attempting,
         x.pc \notin {"send", "record"}, Becomes(v, x), Fault,
         UNCHANGED <<setting, guest, deliveries, notices, told>>
  PROVE  NoticeInv'
<1>1. faults \in Nat /\ faults' = faults + 1
  BY DEF Fault, NoticeInv, NoticeTypes
<1>2. /\ NoticeTypes' /\ OneAtWork' /\ n'[v] = x
      /\ \A u \in Variant \ {v} : n[u] = Resting /\ n'[u] = Resting
  BY <1>1, AtWork DEF NoticeInv, NoticeTypes
<1>3. Current'
  BY <1>2 DEF Current, Resting
<1>4. \A u \in Variant, c \in Channel :
        /\ Recorded(u, c)' <=> Recorded(u, c)
        /\ Known(u, c)' <=> Recorded(u, c)
  BY <1>2 DEF Known, Recorded, Resting
<1>5. Told'
  BY <1>1, <1>4 DEF NoticeInv, NoticeTypes, Told
<1> QED BY <1>2, <1>3, <1>5 DEF NoticeInv

\* A column that is written back is that of the others, with this notice's statuses.
LEMMA RecordsKeep ==
  ASSUME NoticeInv, NEW v \in Variant, NoticeRecord(v)
  PROVE  NoticeInv'
<1>1. n[v].pc = "record" /\ n[v] # Resting /\ n[v] \in Attempting
  BY DEF NoticeRecord, NoticeAt, Resting, NoticeInv, NoticeTypes
<1>2. UNCHANGED <<setting, guest, notices, told>>
  BY DEF NoticeRecord, NoticeOnly
<1>3. \A c \in Channel : Known(v, c) <=> n[v].next[c] = "sent"
  BY <1>1 DEF Known
<1>4. CASE deliveries' = Merged(n[v].seen, v, n[v].next) /\ Becomes(v, [n[v] EXCEPT !.pc = "end"])
           /\ UNCHANGED faults
  <2> DEFINE x == [n[v] EXCEPT !.pc = "end"]
  <2>1. x \in Attempting /\ x.pc = "end"
    BY <1>1 DEF Attempting
  <2> HIDE DEF x
  <2>2. deliveries' = [deliveries EXCEPT ![v] = n[v].next]
    BY <1>1, <1>4 DEF NoticeInv, Current, Merged
  <2>3. n[v].next \in Statuses /\ n[v].next # None
    BY <1>1, NoticeAssumption DEF Attempting, Statuses
  <2>4. /\ deliveries' \in Columns /\ deliveries'[v] = n[v].next
        /\ \A u \in Variant \ {v} : deliveries'[u] = deliveries[u]
    BY <2>2, <2>3 DEF NoticeInv, NoticeTypes, Columns, Variant
  <2>5. /\ NoticeTypes' /\ OneAtWork' /\ n'[v] = x
        /\ \A u \in Variant \ {v} : n[u] = Resting /\ n'[u] = Resting
    BY <1>1, <1>2, <1>4, <2>1, <2>4, AtWork DEF x, NoticeInv, NoticeTypes
  <2>6. \A c \in Channel : Recorded(v, c)' <=> Known(v, c)
    BY <1>3, <2>3, <2>4 DEF Recorded, Prior
  <2>7. \A u \in Variant \ {v}, c \in Channel : Recorded(u, c)' <=> Recorded(u, c)
    BY <2>4 DEF Recorded, Prior
  <2>8. Current'
    BY <2>1, <2>5 DEF Current, Resting
  <2>9. \A u \in Variant, c \in Channel : Known(u, c)' <=> Known(u, c)
    BY <2>1, <2>5, <2>6, <2>7 DEF Known, Resting
  <2>10. Told'
    BY <1>2, <1>4, <2>6, <2>7, <2>9 DEF NoticeInv, Told
  <2> QED BY <2>5, <2>8, <2>10 DEF NoticeInv
<1>5. CASE Fault /\ Becomes(v, [n[v] EXCEPT !.pc = "end", !.failed = TRUE]) /\ UNCHANGED deliveries
  <2> DEFINE x == [n[v] EXCEPT !.pc = "end", !.failed = TRUE]
  <2>1. x \in Attempting /\ x.pc \notin {"send", "record"}
    BY <1>1 DEF Attempting
  <2> HIDE DEF x
  <2> QED BY <1>1, <1>2, <1>5, <2>1, Lost DEF x
<1> QED BY <1>4, <1>5 DEF NoticeRecord

LEMMA CrashesKeep ==
  ASSUME NoticeInv, NEW v \in Variant, NoticeCrash(v)
  PROVE  NoticeInv'
<1>1. Resting \in Attempting /\ Resting.pc \notin {"send", "record"}
  BY RestingTyped DEF Resting
<1> QED BY <1>1, Lost DEF NoticeCrash, NoticeOnly

LEMMA EndsKeep ==
  ASSUME NoticeInv, NEW v \in Variant, NoticeEnd(v)
  PROVE  NoticeInv'
<1>1. Resting \in Attempting /\ Resting.pc \notin {"send", "record"}
  BY RestingTyped DEF Resting
<1>2. n[v].pc = "end" /\ n[v] # Resting
  BY DEF NoticeEnd, NoticeAt, Resting
<1>3. /\ Becomes(v, Resting) /\ UNCHANGED <<setting, guest, deliveries, told, faults>>
      /\ DOMAIN notices' = Variant /\ \A u \in Variant \ {v} : notices'[u] = notices[u]
  BY DEF NoticeEnd, NoticeOnly, JobBecomes, NoticeInv, NoticeTypes
<1>4. /\ NoticeTypes' /\ OneAtWork' /\ n'[v] = Resting
      /\ \A u \in Variant \ {v} : n[u] = Resting /\ n'[u] = Resting
  BY <1>1, <1>2, <1>3, AtWork DEF NoticeInv, NoticeTypes
<1>5. \A u \in Variant, c \in Channel : Recorded(u, c)' <=> Recorded(u, c)
  BY <1>3 DEF Recorded
<1>6. \A u \in Variant, c \in Channel : Known(u, c)' <=> Known(u, c)
  BY <1>1, <1>2, <1>4, <1>5 DEF Known
<1>7. Current'
  BY <1>1, <1>4 DEF Current
<1>8. Told'
  BY <1>3, <1>5, <1>6 DEF NoticeInv, Told
<1> QED BY <1>4, <1>7, <1>8 DEF NoticeInv

-----------------------------------------------------------------------------
(* The invariant and its consequences.                                     *)

LEMMA NoticesStart ==
  ASSUME InitNotices
  PROVE  NoticeInv
<1>1. setting \in Settings /\ faults = 0
  BY DEF InitNotices, Init
<1>2. /\ deliveries = NoDeliveries /\ n = [v \in Variant |-> Resting]
      /\ told = [v \in Variant |-> [c \in Channel |-> 0]]
      /\ DOMAIN notices = Variant /\ notices["reopened"] = NoNotice
  BY DEF InitNotices, Variant
<1>3. NoticeTypes
  BY <1>1, <1>2, RestingTyped DEF NoticeTypes, InitNotices
<1>4. OneAtWork
  BY <1>2 DEF OneAtWork, Job, NoNotice, Variant
<1>5. Current
  BY <1>2 DEF Current, Resting
<1>6. ASSUME NEW v \in Variant, NEW c \in Channel
      PROVE  ~Recorded(v, c) /\ ~Known(v, c) /\ told[v][c] = 0
  <2>1. Prior(deliveries, v)[c] = None
    BY <1>2 DEF Prior, NoDeliveries, Unset, Variant
  <2> QED BY <1>2, <2>1, NoticeAssumption DEF Recorded, Known, Resting, Sent
<1>7. Told
  BY <1>1, <1>6 DEF Told
<1> QED BY <1>3, <1>4, <1>5, <1>7 DEF NoticeInv

\* The strengthening: in settings whose notices take turns, every message but
\* one per fault is recorded or about to be, whatever attempts, sweeps and
\* edits of the guest come in between.
THEOREM NoticesOrderly ==
  ASSUME OrderlyReopens
  PROVE  SpecJobs => []NoticeInv
<1>1. InitNotices => NoticeInv
  BY NoticesStart
<1>2. ASSUME NoticeInv, [NextJobs]_allVars
      PROVE  NoticeInv'
  <2>1. CASE UNCHANGED allVars
    BY <1>2, <2>1 DEF allVars, vars, noticeVars, NoticeInv, NoticeTypes, OneAtWork, Current, Told,
                      Known, Recorded, Job, May
  <2>2. CASE Next /\ UNCHANGED noticeVars
    BY <1>2, <2>2, RefundsKeep
  <2>3. ASSUME NEW v \in Variant, NoticeTake(v) \/ NoticeAttempt(v) \/ NoticeCrash(v) \/ NoticeStall(v)
        PROVE  NoticeInv'
    BY <1>2, <2>3, TakesKeep, LoadsKeep, SendsKeep, RecordsKeep, EndsKeep, CrashesKeep, StallsKeep
       DEF NoticeAttempt
  <2>4. CASE TellReopened \/ SweepNotices \/ RequeueNotice \/ EditGuest
    BY <1>2, <2>4, AsksKeep
  <2> QED BY <1>2, <2>1, <2>2, <2>3, <2>4 DEF NextJobs, NextNotice
<1> QED BY <1>1, <1>2, PTL DEF SpecJobs

\* No channel carries the same notice twice but for one repetition per fault,
\* for any number of attempts, retries and faults (closure-notice.ts:141-149).
THEOREM NobodyToldTwice ==
  ASSUME OrderlyReopens
  PROVE  SpecJobs => []ToldOnce
<1>1. NoticeInv => ToldOnce
  BY DEF NoticeInv, NoticeTypes, Told, ToldOnce
<1> QED BY <1>1, NoticesOrderly, PTL

\* A guest whom no message reached stays on the call list whatever goes wrong,
\* and one who was told leaves it unless a fault lost the record (isOnCallList).
THEOREM CallListStaysTrue ==
  ASSUME OrderlyReopens
  PROVE  SpecJobs => []CallListTrue
<1>1. ASSUME NoticeInv
      PROVE  CallListTrue
  <2>1. \A c \in Channel : Recorded("closure", c) <=> deliveries.closure[c] = "sent"
    BY <1>1, NoticeAssumption DEF NoticeInv, NoticeTypes, Columns, Statuses, Recorded, Prior
  <2>2. ASSUME n["closure"] = Resting, NEW c \in Channel
        PROVE  Known("closure", c) <=> Recorded("closure", c)
    BY <2>2 DEF Known, Resting
  <2>3. \A c \in Channel :
          /\ told["closure"][c] \in Nat
          /\ told["closure"][c] <= faults + (IF Known("closure", c) THEN 1 ELSE 0)
          /\ Recorded("closure", c) => told["closure"][c] > 0
    BY <1>1 DEF NoticeInv, NoticeTypes, Told, Variant
  <2>4. (\A c \in Channel : told["closure"][c] = 0) => OnCallList
    BY <2>1, <2>3 DEF OnCallList
  <2>5. ASSUME OnCallList, faults = 0, n["closure"] = Resting
        PROVE  \A c \in Channel : told["closure"][c] = 0
    BY <2>1, <2>2, <2>3, <2>5 DEF OnCallList
  <2> QED BY <2>4, <2>5 DEF CallListTrue
<1> QED BY <1>1, NoticesOrderly, PTL

-----------------------------------------------------------------------------
(* The refunds beside the notices.                                         *)

\* The notices' jobs and the refunds' share the setting and the faults, and no more.
LEMMA NoticesElsewhere ==
  ASSUME RefundInv, NextNotice
  PROVE  /\ UNCHANGED <<setting, work, requests, deposit, provider>>
         /\ faults' \in 0 .. MaxFaults /\ (faults' = 0 => faults = 0)
<1>1. faults \in 0 .. MaxFaults /\ MaxFaults \in Nat
  BY RefundAssumption DEF RefundInv, Typed, WorldTyped
<1>2. UNCHANGED <<setting, work, requests, deposit, provider>> /\ (faults' = faults \/ Fault)
  BY DEF NextNotice, NoticeTake, NoticeAttempt, NoticeLoad, Send, NoticeRecord, NoticeEnd,
         NoticeCrash, NoticeStall, NoticeOnly, TellReopened, SweepNotices, RequeueNotice,
         EditGuest, AskOnly, vars
<1> QED BY <1>1, <1>2 DEF Fault

LEMMA RefundsGoOn == SpecJobs => [](RefundInv /\ Answered)
<1>1. InitNotices => RefundInv /\ Answered
  BY Beginnings DEF InitNotices
<1>2. RefundInv /\ Answered /\ [NextJobs]_allVars => RefundInv' /\ Answered'
  <2> SUFFICES ASSUME RefundInv, Answered, [NextJobs]_allVars PROVE RefundInv' /\ Answered'
    OBVIOUS
  <2>1. CASE NextNotice
    BY <2>1, NoticesElsewhere, ElsewhereKeeps
  <2>2. CASE Next \/ UNCHANGED vars
    BY <2>2, StepsKeep, AnsweredKeeps
  <2> QED BY <2>1, <2>2 DEF NextJobs, allVars
<1> QED BY <1>1, <1>2, PTL DEF SpecJobs

\* Beside the notices of the same closure a refund recorded as settled is still the
\* truth at rest, under the same two conditions on refunds that fail (FailingAlone).
THEOREM SettledBesideNotices == ASSUME FailingAlone PROVE SpecJobs => []SettledIsTrue
BY TruthAtRest, RefundsGoOn, PTL

\* Beside the notices of the same closure a refund that failed still shows.
THEOREM FailureBesideNotices == SpecJobs => []FailureShows
BY ShownAtRest, RefundsGoOn, PTL
=============================================================================
