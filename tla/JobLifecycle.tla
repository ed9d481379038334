---------------------------- MODULE JobLifecycle ----------------------------
(***************************************************************************)
(* What the job queue promises of each job, whoever works on it: the state *)
(* diagram of the operations guide, with the number of attempts and of     *)
(* collections that took effect.  JobQueue implements it as long as        *)
(* workers only crash, stop or lose their transaction, and no collection   *)
(* is rolled back whose heartbeat has waited for it past the cutoff of a   *)
(* sweep.                                                                  *)
(***************************************************************************)
EXTENDS Naturals

CONSTANTS Jobs, MaxAttempts

VARIABLES status, attempts, runs

lifecycleVars == <<status, attempts, runs>>

LifecycleInit ==
    /\ status   = [j \in Jobs |-> "absent"]
    /\ attempts = [j \in Jobs |-> 0]
    /\ runs     = [j \in Jobs |-> 0]

Move(j, from, to) == status[j] = from /\ status' = [status EXCEPT ![j] = to]

\* [*] --> pending
Submitted(j) == Move(j, "absent", "pending") /\ UNCHANGED <<attempts, runs>>

\* pending --> running: claimed
Claimed(j) ==
    /\ Move(j, "pending", "running")
    /\ attempts[j] < MaxAttempts
    /\ attempts' = [attempts EXCEPT ![j] = @ + 1]
    /\ UNCHANGED runs

\* running --> completed: pipeline finished
Finished(j) ==
    /\ Move(j, "running", "completed")
    /\ runs' = [runs EXCEPT ![j] = @ + 1]
    /\ UNCHANGED attempts

\* running --> pending: failed or silent, retries remain
Requeued(j) ==
    /\ Move(j, "running", "pending")
    /\ attempts[j] < MaxAttempts
    /\ UNCHANGED <<attempts, runs>>

\* running --> failed: attempts exhausted
Exhausted(j) ==
    /\ Move(j, "running", "failed")
    /\ attempts[j] = MaxAttempts
    /\ UNCHANGED <<attempts, runs>>

LifecycleNext ==
    \E j \in Jobs : Submitted(j) \/ Claimed(j) \/ Finished(j) \/ Requeued(j) \/ Exhausted(j)

LifecycleSpec == LifecycleInit /\ [][LifecycleNext]_lifecycleVars
=============================================================================
