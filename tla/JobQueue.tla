------------------------------ MODULE JobQueue ------------------------------
(***************************************************************************)
(* One job of the reservations service's queue, under its custom id.       *)
(*                                                                         *)
(* The queue itself (BullMQ on Redis) is external. What this repository    *)
(* relies on: an id that is held in any state makes a second add a no-op,  *)
(* a job that ended stays held until it is removed, and a job whose worker *)
(* died comes back or is failed without its handler running.               *)
(***************************************************************************)
EXTENDS Naturals

JobStates == {"none", "ready", "active", "ended"}

NoJob == [st |-> "none", tries |-> 0]
Ready == [st |-> "ready", tries |-> 0]
Ended(job) == [job EXCEPT !.st = "ended"]

\* A job of the id is waiting, delayed or being worked on.
LiveJob(job) == job.st \in {"ready", "active"}

\* schedule: adding under an id that is held does nothing.
Scheduled(job) == IF job.st = "none" THEN Ready ELSE job

\* Mutant: the sweep adds without removing what is retained.
RequeuedAsAdd(job) == Scheduled(job)

\* requeue: a job that ended is removed first, a live one is left alone.
Requeued(job) == IF LiveJob(job) THEN job ELSE Ready

Taken(job) == [job EXCEPT !.st = "active"]

\* Mutant: the attempts made are compared without the one under way.
IsFinalAttemptLate(job, attempts) == job.tries >= attempts

\* The attempt under way is the last one of the job's "attempts".
IsFinalAttempt(job, attempts) == job.tries + 1 >= attempts

\* The handler threw: another attempt later, unless it was the last one or
\* the error says that no retry can help.
Thrown(job, attempts, permanent) ==
  IF permanent \/ IsFinalAttempt(job, attempts)
  THEN Ended(job)
  ELSE [st |-> "ready", tries |-> job.tries + 1]

\* The worker died. The stalled job is handed out again, and failed when it
\* has stalled too often.
Stalled(job) == {[job EXCEPT !.st = "ready"], Ended(job)}
=============================================================================
