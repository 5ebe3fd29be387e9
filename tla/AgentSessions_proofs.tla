------------------------ MODULE AgentSessions_proofs ------------------------
(***************************************************************************)
(* What TLAPS proves of AgentSessions for any number of sessions,          *)
(* orchestrations, cancel requests and faults and any limit: the gate      *)
(* bounds who holds a slot and who runs, no slot leaks, and the row of a   *)
(* session that ended is never overwritten.                                *)
(***************************************************************************)
EXTENDS AgentSessions, FiniteSetTheorems, TLAPS

-----------------------------------------------------------------------------
(* The inductive invariant.                                                *)

\* The row of a session that has not begun to run is as its creation left it.
RowsOpen ==
  \A s \in Session :
    /\ x[s] \in {"none", "create"} => status[s] = "none"
    /\ x[s] \in {"fetch", "reject", "start"} => status[s] \in {"pending", "deleted"}

\* A pipeline whose result is about to be written has one.
ResultKept == \A s \in Session : x[s] = "finish" => result[s] \in {"succeeded", "failed"}

IInv == TypeOK /\ ResultKept /\ RowsOpen /\ NoLeak /\ RunsHoldSlots /\ SlotsBounded

\* The finite sets of the gate: one more holder counts for at most one more.
LEMMA OneMore ==
  ASSUME NEW held \in SUBSET Run, NEW s \in Run, HasRoom(held)
  PROVE  Cardinality(held \cup {s}) <= Limit
<1>1. IsFiniteSet(Run)
  BY AgentAssumption, FS_Union DEF Run
<1>2. IsFiniteSet(held)
  BY <1>1, FS_Subset
<1>3. /\ Cardinality(held) \in Nat
      /\ Cardinality(held \cup {s}) = IF s \in held THEN Cardinality(held) ELSE Cardinality(held) + 1
  BY <1>2, FS_AddElement, FS_CardinalityType
<1> QED BY <1>3, AgentAssumption DEF HasRoom

\* Giving slots back never takes the gate over its limit.
LEMMA NotMore ==
  ASSUME NEW held \in SUBSET Run, NEW fewer \in SUBSET held, Cardinality(held) <= Limit
  PROVE  Cardinality(fewer) <= Limit
<1>1. IsFiniteSet(held)
  BY AgentAssumption, FS_Union, FS_Subset DEF Run
<1>2. /\ Cardinality(held) \in Nat /\ Cardinality(fewer) \in Nat
      /\ Cardinality(fewer) <= Cardinality(held)
  BY <1>1, FS_Subset, FS_CardinalityType
<1> QED BY <1>2, AgentAssumption

-----------------------------------------------------------------------------
(* Each part is kept by every step.                                        *)

\* Types.
LEMMA TypeKept ==
  ASSUME TypeOK, ResultKept, [Next]_vars
  PROVE  TypeOK'
<1> USE DEF TypeOK, ResultKept, At, Moves, memory, alarm, Run, Status, Ended, Pcs, Busy, Piped
<1>1. ASSUME NEW s \in Session, Trigger(s) PROVE TypeOK'
  BY <1>1 DEF Trigger, Unmoved
<1>2. ASSUME NEW s \in Session, Create(s) PROVE TypeOK'
  BY <1>2 DEF Create, Unmoved
<1>3. ASSUME NEW s \in Session, Fetch(s) PROVE TypeOK'
  BY <1>3 DEF Fetch, Unmoved, Fault
<1>4. ASSUME NEW s \in Session, Reject(s) PROVE TypeOK'
  BY <1>4 DEF Reject, Unmoved, Fault, Row
<1>5. ASSUME NEW s \in Session, Start(s) PROVE TypeOK'
  BY <1>5 DEF Start, Unmoved, Fault, Row
<1>6. ASSUME NEW s \in Session, Pipeline(s) PROVE TypeOK'
  BY <1>6 DEF Pipeline, Unmoved
<1>7. ASSUME NEW s \in Session, Finish(s) PROVE TypeOK'
  BY <1>7 DEF Finish, Unmoved, Fault, RowFrom
<1>8. ASSUME NEW s \in Session, Patch(s) PROVE TypeOK'
  BY <1>8 DEF Patch, Unmoved
<1>9. ASSUME NEW s \in Session, GiveUp(s) PROVE TypeOK'
  BY <1>9 DEF GiveUp, Unmoved, Fault, RowFrom, GivenUpFrom
<1>10. ASSUME NEW s \in Run, Over(s) PROVE TypeOK'
  BY <1>10 DEF Over, Released, Recorded, Closed
<1>11. ASSUME NEW p \in Parent, Orchestrate(p) PROVE TypeOK'
  BY <1>11 DEF Orchestrate, Unmoved
<1>12. ASSUME NEW p \in Parent, ParentStep(p) PROVE TypeOK'
  BY <1>12 DEF ParentStep, ParentWrites, ParentRuns, Stored, Unmoved, Fault, Row
<1>13. ASSUME NEW k \in Canceller, Ask(k) PROVE TypeOK'
  BY <1>13 DEF Ask, NoCancel
<1>14. ASSUME NEW k \in Canceller, Abort(k) PROVE TypeOK'
  BY <1>14 DEF Abort, Signalled, NoCancel
<1>15. ASSUME NEW k \in Canceller, WriteCancelled(k) PROVE TypeOK'
  BY <1>15 DEF WriteCancelled, RowFrom, CancelsFrom, Fault, NoCancel
<1>16. ASSUME NEW s \in Run, Delete(s) PROVE TypeOK'
  BY <1>16 DEF Delete, Row
<1>17. CASE HalfOpen
  BY <1>17 DEF HalfOpen, Closed
<1>18. CASE Crash
  BY <1>18 DEF Crash, Fault, Closed, NoCancel
<1>19. CASE UNCHANGED vars
  BY <1>19 DEF vars
<1> QED
  BY <1>1, <1>2, <1>3, <1>4, <1>5, <1>6, <1>7, <1>8, <1>9, <1>10,
     <1>11, <1>12, <1>13, <1>14, <1>15, <1>16, <1>17, <1>18, <1>19 DEF Next, Executes

\* The results of pipelines.
LEMMA ResultsKept ==
  ASSUME TypeOK, ResultKept, [Next]_vars
  PROVE  ResultKept'
<1> USE DEF TypeOK, ResultKept, At, Moves, Run
<1>1. ASSUME NEW s \in Session, Trigger(s) PROVE ResultKept'
  BY <1>1 DEF Trigger, Unmoved
<1>2. ASSUME NEW s \in Session, Create(s) PROVE ResultKept'
  BY <1>2 DEF Create, Unmoved
<1>3. ASSUME NEW s \in Session, Fetch(s) PROVE ResultKept'
  BY <1>3 DEF Fetch, Unmoved, Fault
<1>4. ASSUME NEW s \in Session, Reject(s) PROVE ResultKept'
  BY <1>4 DEF Reject, Unmoved, Fault, Row
<1>5. ASSUME NEW s \in Session, Start(s) PROVE ResultKept'
  BY <1>5 DEF Start, Unmoved, Fault, Row
<1>6. ASSUME NEW s \in Session, Pipeline(s) PROVE ResultKept'
  BY <1>6 DEF Pipeline, Unmoved
<1>7. ASSUME NEW s \in Session, Finish(s) PROVE ResultKept'
  BY <1>7 DEF Finish, Unmoved, Fault, RowFrom
<1>8. ASSUME NEW s \in Session, Patch(s) PROVE ResultKept'
  BY <1>8 DEF Patch, Unmoved
<1>9. ASSUME NEW s \in Session, GiveUp(s) PROVE ResultKept'
  BY <1>9 DEF GiveUp, Unmoved, Fault, RowFrom, GivenUpFrom
<1>10. ASSUME NEW s \in Run, Over(s) PROVE ResultKept'
  BY <1>10 DEF Over, Released, Recorded, Closed
<1>11. ASSUME NEW p \in Parent, Orchestrate(p) PROVE ResultKept'
  BY <1>11, AgentAssumption DEF Orchestrate, Unmoved
<1>12. ASSUME NEW p \in Parent, ParentStep(p) PROVE ResultKept'
  BY <1>12, AgentAssumption DEF ParentStep, ParentWrites, ParentRuns, Stored, Unmoved, Fault, Row
<1>13. ASSUME NEW k \in Canceller, Ask(k) PROVE ResultKept'
  BY <1>13 DEF Ask, NoCancel
<1>14. ASSUME NEW k \in Canceller, Abort(k) PROVE ResultKept'
  BY <1>14 DEF Abort, Signalled, NoCancel
<1>15. ASSUME NEW k \in Canceller, WriteCancelled(k) PROVE ResultKept'
  BY <1>15 DEF WriteCancelled, RowFrom, CancelsFrom, Fault, NoCancel
<1>16. ASSUME NEW s \in Run, Delete(s) PROVE ResultKept'
  BY <1>16 DEF Delete, Row
<1>17. CASE HalfOpen
  BY <1>17 DEF HalfOpen, Closed
<1>18. CASE Crash
  BY <1>18 DEF Crash, Fault, Closed, NoCancel
<1>19. CASE UNCHANGED vars
  BY <1>19 DEF vars
<1> QED
  BY <1>1, <1>2, <1>3, <1>4, <1>5, <1>6, <1>7, <1>8, <1>9, <1>10,
     <1>11, <1>12, <1>13, <1>14, <1>15, <1>16, <1>17, <1>18, <1>19 DEF Next, Executes

\* The rows of sessions that have not begun.
LEMMA RowsKept ==
  ASSUME TypeOK, RowsOpen, [Next]_vars
  PROVE  RowsOpen'
<1> USE DEF TypeOK, RowsOpen, At, Moves, Run
<1>1. ASSUME NEW s \in Session, Trigger(s) PROVE RowsOpen'
  BY <1>1 DEF Trigger, Unmoved
<1>2. ASSUME NEW s \in Session, Create(s) PROVE RowsOpen'
  BY <1>2 DEF Create, Unmoved
<1>3. ASSUME NEW s \in Session, Fetch(s) PROVE RowsOpen'
  BY <1>3 DEF Fetch, Unmoved, Fault
<1>4. ASSUME NEW s \in Session, Reject(s) PROVE RowsOpen'
  BY <1>4 DEF Reject, Unmoved, Fault, Row
<1>5. ASSUME NEW s \in Session, Start(s) PROVE RowsOpen'
  BY <1>5 DEF Start, Unmoved, Fault, Row
<1>6. ASSUME NEW s \in Session, Pipeline(s) PROVE RowsOpen'
  BY <1>6 DEF Pipeline, Unmoved
<1>7. ASSUME NEW s \in Session, Finish(s) PROVE RowsOpen'
  BY <1>7 DEF Finish, Unmoved, Fault, RowFrom
<1>8. ASSUME NEW s \in Session, Patch(s) PROVE RowsOpen'
  BY <1>8 DEF Patch, Unmoved
<1>9. ASSUME NEW s \in Session, GiveUp(s) PROVE RowsOpen'
  BY <1>9 DEF GiveUp, Unmoved, Fault, RowFrom, GivenUpFrom
<1>10. ASSUME NEW s \in Run, Over(s) PROVE RowsOpen'
  BY <1>10 DEF Over, Released, Recorded, Closed
<1>11. ASSUME NEW p \in Parent, Orchestrate(p) PROVE RowsOpen'
  BY <1>11, AgentAssumption DEF Orchestrate, Unmoved
<1>12. ASSUME NEW p \in Parent, ParentStep(p) PROVE RowsOpen'
  BY <1>12, AgentAssumption DEF ParentStep, ParentWrites, ParentRuns, Stored, Unmoved, Fault, Row
<1>13. ASSUME NEW k \in Canceller, Ask(k) PROVE RowsOpen'
  BY <1>13 DEF Ask, NoCancel
<1>14. ASSUME NEW k \in Canceller, Abort(k) PROVE RowsOpen'
  BY <1>14 DEF Abort, Signalled, NoCancel
<1>15. ASSUME NEW k \in Canceller, WriteCancelled(k) PROVE RowsOpen'
  BY <1>15 DEF WriteCancelled, RowFrom, CancelsFrom, Fault, NoCancel
<1>16. ASSUME NEW s \in Run, Delete(s) PROVE RowsOpen'
  BY <1>16 DEF Delete, Row
<1>17. CASE HalfOpen
  BY <1>17 DEF HalfOpen, Closed
<1>18. CASE Crash
  BY <1>18 DEF Crash, Fault, Closed, NoCancel
<1>19. CASE UNCHANGED vars
  BY <1>19 DEF vars
<1> QED
  BY <1>1, <1>2, <1>3, <1>4, <1>5, <1>6, <1>7, <1>8, <1>9, <1>10,
     <1>11, <1>12, <1>13, <1>14, <1>15, <1>16, <1>17, <1>18, <1>19 DEF Next, Executes

\* Who holds a slot is under way, and who runs holds one.
LEMMA SlotsKept ==
  ASSUME TypeOK, NoLeak, RunsHoldSlots, [Next]_vars
  PROVE  (NoLeak /\ RunsHoldSlots)'
<1> USE DEF TypeOK, NoLeak, RunsHoldSlots, At, Moves, memory, Run, Busy, Piped
<1>1. ASSUME NEW s \in Session, Trigger(s) PROVE (NoLeak /\ RunsHoldSlots)'
  BY <1>1 DEF Trigger, Unmoved
<1>2. ASSUME NEW s \in Session, Create(s) PROVE (NoLeak /\ RunsHoldSlots)'
  BY <1>2 DEF Create, Unmoved
<1>3. ASSUME NEW s \in Session, Fetch(s) PROVE (NoLeak /\ RunsHoldSlots)'
  BY <1>3 DEF Fetch, Unmoved, Fault
<1>4. ASSUME NEW s \in Session, Reject(s) PROVE (NoLeak /\ RunsHoldSlots)'
  BY <1>4 DEF Reject, Unmoved, Fault, Row
<1>5. ASSUME NEW s \in Session, Start(s) PROVE (NoLeak /\ RunsHoldSlots)'
  BY <1>5 DEF Start, Unmoved, Fault, Row
<1>6. ASSUME NEW s \in Session, Pipeline(s) PROVE (NoLeak /\ RunsHoldSlots)'
  BY <1>6 DEF Pipeline, Unmoved
<1>7. ASSUME NEW s \in Session, Finish(s) PROVE (NoLeak /\ RunsHoldSlots)'
  BY <1>7 DEF Finish, Unmoved, Fault, RowFrom
<1>8. ASSUME NEW s \in Session, Patch(s) PROVE (NoLeak /\ RunsHoldSlots)'
  BY <1>8 DEF Patch, Unmoved
<1>9. ASSUME NEW s \in Session, GiveUp(s) PROVE (NoLeak /\ RunsHoldSlots)'
  BY <1>9 DEF GiveUp, Unmoved, Fault, RowFrom, GivenUpFrom
<1>10. ASSUME NEW s \in Run, Over(s) PROVE (NoLeak /\ RunsHoldSlots)'
  BY <1>10 DEF Over, Released, Recorded, Closed
<1>11. ASSUME NEW p \in Parent, Orchestrate(p) PROVE (NoLeak /\ RunsHoldSlots)'
  BY <1>11 DEF Orchestrate, Unmoved
<1>12. ASSUME NEW p \in Parent, ParentStep(p) PROVE (NoLeak /\ RunsHoldSlots)'
  BY <1>12 DEF ParentStep, ParentWrites, ParentRuns, Stored, Unmoved, Fault, Row
<1>13. ASSUME NEW k \in Canceller, Ask(k) PROVE (NoLeak /\ RunsHoldSlots)'
  BY <1>13 DEF Ask, NoCancel
<1>14. ASSUME NEW k \in Canceller, Abort(k) PROVE (NoLeak /\ RunsHoldSlots)'
  BY <1>14 DEF Abort, Signalled, NoCancel
<1>15. ASSUME NEW k \in Canceller, WriteCancelled(k) PROVE (NoLeak /\ RunsHoldSlots)'
  BY <1>15 DEF WriteCancelled, RowFrom, CancelsFrom, Fault, NoCancel
<1>16. ASSUME NEW s \in Run, Delete(s) PROVE (NoLeak /\ RunsHoldSlots)'
  BY <1>16 DEF Delete, Row
<1>17. CASE HalfOpen
  BY <1>17 DEF HalfOpen, Closed
<1>18. CASE Crash
  BY <1>18 DEF Crash, Fault, Closed, NoCancel
<1>19. CASE UNCHANGED vars
  BY <1>19 DEF vars
<1> QED
  BY <1>1, <1>2, <1>3, <1>4, <1>5, <1>6, <1>7, <1>8, <1>9, <1>10,
     <1>11, <1>12, <1>13, <1>14, <1>15, <1>16, <1>17, <1>18, <1>19 DEF Next, Executes

\* The gate.
LEMMA BoundKept ==
  ASSUME TypeOK, SlotsBounded, [Next]_vars
  PROVE  SlotsBounded'
<1> USE DEF TypeOK, SlotsBounded, memory, Run
<1>1. ASSUME NEW s \in Session, Trigger(s) PROVE SlotsBounded'
  BY <1>1 DEF Trigger, Unmoved
<1>2. ASSUME NEW s \in Session, Create(s) PROVE SlotsBounded'
  BY <1>2 DEF Create, Unmoved
<1>3. ASSUME NEW s \in Session, Fetch(s) PROVE SlotsBounded'
  BY <1>3, OneMore DEF Fetch, Unmoved, Fault
<1>4. ASSUME NEW s \in Session, Reject(s) PROVE SlotsBounded'
  BY <1>4 DEF Reject, Unmoved, Fault, Row
<1>5. ASSUME NEW s \in Session, Start(s) PROVE SlotsBounded'
  BY <1>5 DEF Start, Unmoved, Fault, Row
<1>6. ASSUME NEW s \in Session, Pipeline(s) PROVE SlotsBounded'
  BY <1>6 DEF Pipeline, Unmoved
<1>7. ASSUME NEW s \in Session, Finish(s) PROVE SlotsBounded'
  BY <1>7 DEF Finish, Unmoved, Fault, RowFrom
<1>8. ASSUME NEW s \in Session, Patch(s) PROVE SlotsBounded'
  BY <1>8 DEF Patch, Unmoved
<1>9. ASSUME NEW s \in Session, GiveUp(s) PROVE SlotsBounded'
  BY <1>9 DEF GiveUp, Unmoved, Fault, RowFrom, GivenUpFrom
<1>10. ASSUME NEW s \in Run, Over(s) PROVE SlotsBounded'
  BY <1>10, NotMore DEF Over, Released, Recorded, Closed
<1>11. ASSUME NEW p \in Parent, Orchestrate(p) PROVE SlotsBounded'
  BY <1>11, OneMore DEF Orchestrate, Unmoved
<1>12. ASSUME NEW p \in Parent, ParentStep(p) PROVE SlotsBounded'
  BY <1>12 DEF ParentStep, ParentWrites, ParentRuns, Stored, Unmoved, Fault, Row
<1>13. ASSUME NEW k \in Canceller, Ask(k) PROVE SlotsBounded'
  BY <1>13 DEF Ask, NoCancel
<1>14. ASSUME NEW k \in Canceller, Abort(k) PROVE SlotsBounded'
  BY <1>14, NotMore DEF Abort, Signalled, NoCancel
<1>15. ASSUME NEW k \in Canceller, WriteCancelled(k) PROVE SlotsBounded'
  BY <1>15 DEF WriteCancelled, RowFrom, CancelsFrom, Fault, NoCancel
<1>16. ASSUME NEW s \in Run, Delete(s) PROVE SlotsBounded'
  BY <1>16 DEF Delete, Row
<1>17. CASE HalfOpen
  BY <1>17 DEF HalfOpen, Closed
<1>18. CASE Crash
  BY <1>18, FS_EmptySet, AgentAssumption DEF Crash, Fault, Closed, NoCancel
<1>19. CASE UNCHANGED vars
  BY <1>19 DEF vars
<1> QED
  BY <1>1, <1>2, <1>3, <1>4, <1>5, <1>6, <1>7, <1>8, <1>9, <1>10,
     <1>11, <1>12, <1>13, <1>14, <1>15, <1>16, <1>17, <1>18, <1>19 DEF Next, Executes

-----------------------------------------------------------------------------
(* The theorems.                                                           *)

LEMMA InitIInv == Init => IInv
<1> SUFFICES ASSUME Init PROVE IInv
  OBVIOUS
<1>1. TypeOK
  BY DEF Init, TypeOK, Run, Status, Ended, Pcs, NoCancel, Closed
<1>2. ResultKept /\ RowsOpen /\ NoLeak /\ RunsHoldSlots
  BY DEF Init, ResultKept, RowsOpen, NoLeak, RunsHoldSlots, Piped, Run
<1>3. SlotsBounded
  BY FS_EmptySet, AgentAssumption DEF Init, SlotsBounded
<1> QED BY <1>1, <1>2, <1>3 DEF IInv

LEMMA NextIInv == IInv /\ [Next]_vars => IInv'
BY TypeKept, ResultsKept, RowsKept, SlotsKept, BoundKept DEF IInv

LEMMA AlwaysIInv == Spec => []IInv
BY InitIInv, NextIInv, PTL DEF Spec

\* The variables keep their types, and only sessions have an abort controller
\* (session-concurrency.ts, orchestrator.ts).
THEOREM AlwaysTypeOK == Spec => []TypeOK
BY AlwaysIInv, PTL DEF IInv

\* Never more holders than the limit, whatever cancels, ends or dies when
\* (session-concurrency.ts acquire and release).
THEOREM GateBounds == Spec => []SlotsBounded
BY AlwaysIInv, PTL DEF IInv

\* Every slot that is held will be given back: its holder is under way
\* (the finally of execute, and of the orchestrate route).
THEOREM NoSlotLeaks == Spec => []NoLeak
BY AlwaysIInv, PTL DEF IInv

\* A pipeline that was not told to stop holds its slot, also when others were
\* cancelled meanwhile (cancel in orchestrator.ts).
THEOREM WhoRunsHolds == Spec => []RunsHoldSlots
BY AlwaysIInv, PTL DEF IInv

LEMMA EndKept ==
  IInv /\ [Next]_vars =>
    \A t \in Session : status[t] \in Ended => status'[t] \in {status[t], "deleted"}
<1> SUFFICES ASSUME IInv, [Next]_vars, NEW t \in Session, status[t] \in Ended
             PROVE  status'[t] \in {status[t], "deleted"}
  OBVIOUS
<1> USE DEF IInv, TypeOK, RowsOpen, At, Run, Ended
<1>1. ASSUME NEW s \in Session, Trigger(s) PROVE status'[t] \in {status[t], "deleted"}
  BY <1>1 DEF Trigger, Unmoved
<1>2. ASSUME NEW s \in Session, Create(s) PROVE status'[t] \in {status[t], "deleted"}
  BY <1>2 DEF Create, Unmoved
<1>3. ASSUME NEW s \in Session, Fetch(s) PROVE status'[t] \in {status[t], "deleted"}
  BY <1>3 DEF Fetch, Unmoved, Fault
<1>4. ASSUME NEW s \in Session, Reject(s) PROVE status'[t] \in {status[t], "deleted"}
  BY <1>4 DEF Reject, Unmoved, Fault, Row
<1>5. ASSUME NEW s \in Session, Start(s) PROVE status'[t] \in {status[t], "deleted"}
  BY <1>5 DEF Start, Unmoved, Fault, Row
<1>6. ASSUME NEW s \in Session, Pipeline(s) PROVE status'[t] \in {status[t], "deleted"}
  BY <1>6 DEF Pipeline, Unmoved
<1>7. ASSUME NEW s \in Session, Finish(s) PROVE status'[t] \in {status[t], "deleted"}
  BY <1>7 DEF Finish, Unmoved, Fault, RowFrom
<1>8. ASSUME NEW s \in Session, Patch(s) PROVE status'[t] \in {status[t], "deleted"}
  BY <1>8 DEF Patch, Unmoved
<1>9. ASSUME NEW s \in Session, GiveUp(s) PROVE status'[t] \in {status[t], "deleted"}
  BY <1>9 DEF GiveUp, Unmoved, Fault, RowFrom, GivenUpFrom
<1>10. ASSUME NEW s \in Run, Over(s) PROVE status'[t] \in {status[t], "deleted"}
  BY <1>10 DEF Over, Released, Recorded, Closed
<1>11. ASSUME NEW p \in Parent, Orchestrate(p) PROVE status'[t] \in {status[t], "deleted"}
  BY <1>11, AgentAssumption DEF Orchestrate, Unmoved
<1>12. ASSUME NEW p \in Parent, ParentStep(p) PROVE status'[t] \in {status[t], "deleted"}
  BY <1>12, AgentAssumption DEF ParentStep, ParentWrites, ParentRuns, Stored, Unmoved, Fault, Row
<1>13. ASSUME NEW k \in Canceller, Ask(k) PROVE status'[t] \in {status[t], "deleted"}
  BY <1>13 DEF Ask, NoCancel
<1>14. ASSUME NEW k \in Canceller, Abort(k) PROVE status'[t] \in {status[t], "deleted"}
  BY <1>14 DEF Abort, Signalled, NoCancel
<1>15. ASSUME NEW k \in Canceller, WriteCancelled(k) PROVE status'[t] \in {status[t], "deleted"}
  BY <1>15 DEF WriteCancelled, RowFrom, CancelsFrom, Fault, NoCancel
<1>16. ASSUME NEW s \in Run, Delete(s) PROVE status'[t] \in {status[t], "deleted"}
  BY <1>16 DEF Delete, Row
<1>17. CASE HalfOpen
  BY <1>17 DEF HalfOpen, Closed
<1>18. CASE Crash
  BY <1>18 DEF Crash, Fault, Closed, NoCancel
<1>19. CASE UNCHANGED vars
  BY <1>19 DEF vars
<1> QED
  BY <1>1, <1>2, <1>3, <1>4, <1>5, <1>6, <1>7, <1>8, <1>9, <1>10,
     <1>11, <1>12, <1>13, <1>14, <1>15, <1>16, <1>17, <1>18, <1>19 DEF Next, Executes

\* The row of a session that ended is never overwritten by a late cancel, a late
\* result or a late failure (the compare-and-sets of session-lifecycle-store.ts).
THEOREM EndsStay == Spec => EndStays
<1>1. IInv /\ [Next]_vars => [\A s \in Session : status[s] \in Ended => status'[s] \in {status[s], "deleted"}]_vars
  BY EndKept
<1> QED BY <1>1, AlwaysIInv, PTL DEF Spec, EndStays
=============================================================================
