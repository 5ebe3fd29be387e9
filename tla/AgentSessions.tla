---------------------------- MODULE AgentSessions ----------------------------
(***************************************************************************)
(* The agent service: sessions that run a pipeline in the background, the  *)
(* gate that bounds how many run at once, the requests that cancel them,   *)
(* orchestrations that hold a slot of the same gate, and the breaker that  *)
(* is to stop a storm of alerts.                                           *)
(*                                                                         *)
(* Slots, abort controllers and the breaker are memory of the one process; *)
(* the rows are in the database and survive it.                            *)
(*                                                                         *)
(* Simplifications: events, ownership and budgets are left out, a pipeline *)
(* is one step that ends somehow, and the breaker may be half-opened at    *)
(* any time, for its clock is left out.                                    *)
(***************************************************************************)
EXTENDS Naturals, FiniteSets

CONSTANTS
  Session,    \* sessions that a route or a webhook may start
  Alert,      \* the sessions among them that an alert starts
  Parent,     \* orchestrations
  Canceller,  \* cancel requests and liveness checks at one time
  Limit,      \* MAX_CONCURRENT_SESSIONS
  Threshold,  \* failures in a row that open the breaker
  FaultModes, \* what may fail together: sets of calls of the store, and the process
  MaxFaults,  \* failed calls of the store and process deaths of a behaviour
  None

ASSUME AgentAssumption ==
  /\ Alert \subseteq Session /\ Session \cap Parent = {}
  /\ None \notin Session \cup Parent
  /\ IsFiniteSet(Session) /\ IsFiniteSet(Parent)
  /\ Limit \in Nat /\ Threshold \in Nat \ {0} /\ MaxFaults \in Nat

VARIABLES
  status,    \* the row of each session and orchestration
  x,         \* where the execution of each is
  result,    \* what its pipeline returned
  slots,     \* the active set of the concurrency gate
  live,      \* sessions with an abort controller
  aborted,   \* sessions whose signal was aborted
  c,         \* the session each canceller is at, and whether it aborted it
  breaker,   \* the circuit breaker of the alerts
  streak,    \* alert sessions in a row that ended as failed
  failing,   \* the fault mode of this behaviour
  faults     \* faults so far

memory == <<slots, live, aborted>>
alarm == <<breaker, streak>>
vars == <<status, x, result, memory, c, alarm, failing, faults>>

Run == Session \cup Parent
Ended == {"succeeded", "failed", "cancelled"}
Status == Ended \cup {"none", "pending", "running", "deleted"}

\* Where a pipeline is under way, and where an execution may hold a slot.
Piped == {"start", "run", "finish", "patch", "p_create", "p_start", "p_run", "p_write"}
Busy == Piped \cup {"give_up", "over", "over_thrown"}
Pcs == Busy \cup {"none", "create", "fetch", "reject", "done", "dead"}

NoCancel == [who |-> None, pc |-> "idle"]

At(s, pc) == x[s] = pc
Moves(s, pc) == x' = [x EXCEPT ![s] = pc]
Fault(call) == call \in failing /\ faults < MaxFaults /\ faults' = faults + 1

\* updateStatus: of a row that was deleted, nothing; with fromStatus, a
\* compare-and-set.
Row(s, to) == status' = [status EXCEPT ![s] = IF @ = "deleted" THEN @ ELSE to]
RowFrom(s, from, to) == status' = [status EXCEPT ![s] = IF @ \in from THEN to ELSE @]

-----------------------------------------------------------------------------
(* The gate and the breaker.                                               *)

\* Mutant: the set may grow one beyond the limit.
HasRoomLate(held) == Cardinality(held) <= Limit

HasRoom(held) == Cardinality(held) < Limit

Closed == [failures |-> 0, open |-> FALSE]

\* recordOutcome.
Recorded(b, succeeded) ==
  IF succeeded THEN Closed
  ELSE [failures |-> b.failures + 1, open |-> b.open \/ b.failures + 1 >= Threshold]

\* check, after the breaker was open for long enough.
HalfOpen ==
  /\ breaker.open
  /\ breaker' = Closed /\ streak' = 0
  /\ UNCHANGED <<status, x, result, memory, c, failing, faults>>
-----------------------------------------------------------------------------
(* triggerSession and the execution of a session.                          *)

Unmoved == UNCHANGED <<c, alarm, failing>>

\* A route or a webhook asks whether there is room, and then creates the row.
Trigger(s) ==
  /\ At(s, "none") /\ HasRoom(slots)
  /\ s \in Alert => ~breaker.open
  /\ Moves(s, "create")
  /\ UNCHANGED <<status, result, memory, faults>> /\ Unmoved

Create(s) ==
  /\ At(s, "create")
  /\ status' = [status EXCEPT ![s] = "pending"]
  /\ Moves(s, "fetch")
  /\ UNCHANGED <<result, memory, faults>> /\ Unmoved

\* The row is read, and the slot is reserved or refused in one step.
Fetch(s) ==
  /\ At(s, "fetch")
  /\ \/ Fault("fetch") /\ Moves(s, "give_up") /\ UNCHANGED memory
     \/ /\ status[s] = "deleted" /\ Moves(s, "over") /\ UNCHANGED <<memory, faults>>
     \/ /\ status[s] # "deleted" /\ HasRoom(slots)
        /\ slots' = slots \cup {s} /\ live' = live \cup {s}
        /\ Moves(s, "start") /\ UNCHANGED <<aborted, faults>>
     \/ /\ status[s] # "deleted" /\ ~HasRoom(slots)
        /\ Moves(s, "reject") /\ UNCHANGED <<memory, faults>>
  /\ UNCHANGED <<status, result>> /\ Unmoved

Reject(s) ==
  /\ At(s, "reject")
  /\ \/ Row(s, "failed") /\ Moves(s, "over") /\ UNCHANGED faults
     \/ Fault("reject") /\ Moves(s, "give_up") /\ UNCHANGED status
  /\ UNCHANGED <<result, memory>> /\ Unmoved

\* The row becomes running, whatever it was.
Start(s) ==
  /\ At(s, "start")
  /\ \/ Row(s, "running") /\ Moves(s, "run") /\ UNCHANGED faults
     \/ Fault("start") /\ Moves(s, "give_up") /\ UNCHANGED status
  /\ UNCHANGED <<result, memory>> /\ Unmoved

\* The pipeline returns or throws. An aborted one only has its result kept.
Pipeline(s) ==
  /\ At(s, "run")
  /\ \/ \E r \in {"succeeded", "failed"} :
          /\ result' = [result EXCEPT ![s] = r]
          /\ Moves(s, IF s \in aborted THEN "patch" ELSE "finish")
     \/ /\ UNCHANGED result
        /\ Moves(s, IF s \in aborted THEN "over" ELSE "give_up")
  /\ UNCHANGED <<status, memory, faults>> /\ Unmoved

Finish(s) ==
  /\ At(s, "finish")
  /\ \/ RowFrom(s, {"running"}, result[s]) /\ UNCHANGED faults
     \/ Fault("finish") /\ UNCHANGED status
  /\ Moves(s, "over")
  /\ UNCHANGED <<result, memory>> /\ Unmoved

\* The result is patched onto the row, which stays cancelled.
Patch(s) ==
  /\ At(s, "patch")
  /\ Moves(s, "over")
  /\ UNCHANGED <<status, result, memory, faults>> /\ Unmoved

\* Mutant: only a running row is marked as failed.
GivenUpFromRunning == {"running"}
GivenUpFrom == {"pending", "running"}

\* The catch: the row is marked as failed, and then the finally runs.
GiveUp(s) ==
  /\ At(s, "give_up")
  /\ \/ RowFrom(s, GivenUpFrom, "failed") /\ Moves(s, "over") /\ UNCHANGED faults
     \/ Fault("give_up") /\ Moves(s, "over_thrown") /\ UNCHANGED status
  /\ UNCHANGED <<result, memory>> /\ Unmoved

\* Mutant: the slot is given back on the way out, but not when the way out threw.
ReleasedUnlessThrown(s) == IF At(s, "over_thrown") THEN slots ELSE slots \ {s}
Released(s) == slots \ {s}

\* The finally, and the outcome for the breaker: an execution that resolves
\* counts as a success, whatever became of the session.
Over(s) ==
  /\ x[s] \in {"over", "over_thrown"}
  /\ Moves(s, "done")
  /\ slots' = Released(s) /\ live' = live \ {s} /\ aborted' = aborted \ {s}
  /\ result' = [result EXCEPT ![s] = "none"]
  /\ breaker' = IF s \in Alert THEN Recorded(breaker, At(s, "over")) ELSE breaker
  /\ streak' = IF s \notin Alert THEN streak
               ELSE IF status[s] = "failed" THEN streak + 1 ELSE 0
  /\ UNCHANGED <<status, c, failing, faults>>
-----------------------------------------------------------------------------
(* Orchestrations: a slot of their own, rows written whatever they are.    *)

Orchestrate(p) ==
  /\ At(p, "none") /\ HasRoom(slots)
  /\ slots' = slots \cup {p}
  /\ Moves(p, "p_create")
  /\ UNCHANGED <<status, result, live, aborted, faults>> /\ Unmoved

\* Mutant: what the orchestrator returned is stored as it is.
StoredAsIs(r) == r

\* An orchestration whose children are in progress stays running.
Stored(r) == IF r = "succeeded" THEN r ELSE IF r = "in_progress" THEN "running" ELSE "failed"

\* Each step writes the row or throws, and then the finally runs.
ParentWrites(p, from, to, next) ==
  /\ At(p, from)
  /\ \/ /\ IF from = "p_create" THEN status' = [status EXCEPT ![p] = to] ELSE Row(p, to)
        /\ Moves(p, next) /\ UNCHANGED faults
     \/ Fault(from) /\ Moves(p, "over") /\ UNCHANGED status
  /\ UNCHANGED <<result, memory>> /\ Unmoved

\* The run of the orchestrator ends; children may still be in progress. One
\* that succeeded in part is stored as one that failed.
ParentRuns(p) ==
  /\ At(p, "p_run")
  /\ \E r \in {"succeeded", "failed", "in_progress"} : result' = [result EXCEPT ![p] = r]
  /\ Moves(p, "p_write")
  /\ UNCHANGED <<status, memory, faults>> /\ Unmoved

ParentStep(p) ==
  \/ ParentWrites(p, "p_create", "pending", "p_start")
  \/ ParentWrites(p, "p_start", "running", "p_run")
  \/ ParentRuns(p)
  \/ ParentWrites(p, "p_write", Stored(result[p]), "over")
-----------------------------------------------------------------------------
(* Cancelling, deleting, and the death of the process.                     *)

\* The cancel route, or the liveness monitor, reads a running row.
Ask(k) ==
  /\ c[k] = NoCancel
  /\ \E s \in Run : status[s] = "running" /\ c' = [c EXCEPT ![k] = [who |-> s, pc |-> "cancel"]]
  /\ UNCHANGED <<status, x, result, memory, alarm, failing, faults>>

\* Mutant: the slot is freed while the pipeline is not told.
NotSignalled(s) == aborted
Signalled(s) == aborted \cup {s}

\* cancel: without a controller nothing happens; with one, the signal is
\* aborted and the slot is free at once.
Abort(k) ==
  LET s == c[k].who IN
  /\ c[k].pc = "cancel"
  /\ IF s \in live
     THEN /\ aborted' = Signalled(s) /\ live' = live \ {s} /\ slots' = slots \ {s}
          /\ c' = [c EXCEPT ![k].pc = "write"]
     ELSE c' = [c EXCEPT ![k] = NoCancel] /\ UNCHANGED memory
  /\ UNCHANGED <<status, x, result, alarm, failing, faults>>

\* Mutant: the cancel is written whatever the row has become.
CancelsFromAny == Status
CancelsFrom == {"running"}

WriteCancelled(k) ==
  /\ c[k].pc = "write"
  /\ c' = [c EXCEPT ![k] = NoCancel]
  /\ \/ RowFrom(c[k].who, CancelsFrom, "cancelled") /\ UNCHANGED faults
     \/ Fault("cancel") /\ UNCHANGED status
  /\ UNCHANGED <<x, result, memory, alarm, failing>>

Delete(s) ==
  /\ status[s] \notin {"none", "deleted"}
  /\ Row(s, "deleted")
  /\ UNCHANGED <<x, result, memory, c, alarm, failing, faults>>

\* The process dies and starts again: the rows stay as they are, and what it
\* was doing is gone.
Crash ==
  /\ Fault("process")
  /\ x' = [s \in Run |-> IF x[s] \in {"none", "done"} THEN x[s] ELSE "dead"]
  /\ slots' = {} /\ live' = {} /\ aborted' = {}
  /\ c' = [k \in Canceller |-> NoCancel]
  /\ breaker' = Closed /\ streak' = 0
  /\ UNCHANGED <<status, result, failing>>
-----------------------------------------------------------------------------
(* The specification. *)

Init ==
  /\ status = [s \in Run |-> "none"] /\ x = [s \in Run |-> "none"]
  /\ result = [s \in Run |-> "none"]
  /\ slots = {} /\ live = {} /\ aborted = {}
  /\ c = [k \in Canceller |-> NoCancel]
  /\ breaker = Closed /\ streak = 0
  /\ failing \in FaultModes /\ faults = 0

Executes(s) ==
  \/ Create(s) \/ Fetch(s) \/ Reject(s) \/ Start(s) \/ Pipeline(s)
  \/ Finish(s) \/ Patch(s) \/ GiveUp(s) \/ Over(s)

Next ==
  \/ \E s \in Session : Trigger(s) \/ Executes(s)
  \/ \E p \in Parent : Orchestrate(p) \/ ParentStep(p) \/ Over(p)
  \/ \E s \in Run : Delete(s)
  \/ \E k \in Canceller : Ask(k) \/ Abort(k) \/ WriteCancelled(k)
  \/ HalfOpen \/ Crash

Spec == Init /\ [][Next]_vars

\* An execution goes on until it ends, for a pipeline has its own timeouts, and a
\* cancel that was begun is carried out.
Fairness ==
  /\ \A s \in Session : WF_vars(Executes(s))
  /\ \A k \in Canceller : WF_vars(Abort(k) \/ WriteCancelled(k))
FairSpec == Spec /\ Fairness
-----------------------------------------------------------------------------
(* Properties. *)

\* Every variable has its type, and only sessions have controllers.
TypeOK ==
  /\ status \in [Run -> Status] /\ x \in [Run -> Pcs]
  /\ result \in [Run -> {"none", "succeeded", "failed", "in_progress"}]
  /\ slots \in SUBSET Run /\ live \in SUBSET Session /\ aborted \in SUBSET Session
  /\ c \in [Canceller -> [who : Run \cup {None}, pc : {"idle", "cancel", "write"}]]
  /\ breaker \in [failures : Nat, open : BOOLEAN]
  /\ streak \in Nat /\ failing \in FaultModes /\ faults \in Nat

\* No more sessions and orchestrations hold a slot than the limit allows, however
\* starting, cancelling and ending interleave.
SlotsBounded == Cardinality(slots) <= Limit

\* No slot is leaked: who holds one is under way and will give it back.
NoLeak == \A s \in slots : x[s] \in Busy

\* Nobody runs outside the gate: a pipeline that was not aborted holds a slot,
\* so a slot is never given away twice.
RunsHoldSlots == \A s \in Run : x[s] \in Piped /\ s \notin aborted => s \in slots

\* A row that reached its end keeps it: a cancel that comes too late, a pipeline
\* that ends after the cancel and a failure never overwrite one another.
EndStays ==
  [][\A s \in Session : status[s] \in Ended => status'[s] \in {status[s], "deleted"}]_vars

\* No session is stranded as pending: one that was created is refused, started
\* and ended or deleted, also when its read, or the write that refuses or starts it, fails.
\* It may still be stranded when the write of the catch fails or the process dies.
SessionsEnd ==
  \A s \in Session :
    status[s] = "pending" /\ failing \cap {"give_up", "finish", "cancel", "process"} = {}
      ~> status[s] \in Ended \cup {"deleted"}

\* After that many failed alert sessions in a row the breaker is open.
StormStopped == streak >= Threshold => breaker.open
=============================================================================
