------------------------------ MODULE JobTable ------------------------------
(***************************************************************************)
(* One row of the table collection_jobs, and what each statement of the    *)
(* queue does to it.  Every operator here is the SET clause of one UPDATE  *)
(* or INSERT; who may issue it, and when, is the business of JobQueue.     *)
(*                                                                         *)
(* Times are abstracted to what the statements compare them with:          *)
(*   silent   heartbeat_at is older than the stale_after cutoff            *)
(*   delayed  run_after is still in the future                             *)
(* claimed_by, error, started_at and finished_at are written by the code   *)
(* and read by no statement of the queue, so they are left out.            *)
(***************************************************************************)
EXTENDS Naturals

CONSTANTS
    Sources,      \* rows of the table sources
    MaxAttempts   \* the column max_attempts

ASSUME MaxAttemptsAssumption == MaxAttempts \in Nat \ {0}

NoSource == "no source"

ASSUME NoSourceAssumption == NoSource \notin Sources

\* Statuses a row reaches; "absent" stands for an id not yet handed out.
\* The code never writes JobStatus.CANCELLED.
JobStatus == {"absent", "pending", "running", "completed", "failed"}

ACTIVE_STATUSES == {"pending", "running"}

Row == [status   : JobStatus,
        source   : Sources \cup {NoSource},
        via      : {"api", "schedule"},
        attempts : Nat,
        silent   : BOOLEAN,
        delayed  : BOOLEAN]

AbsentRow == [status |-> "absent", source |-> NoSource, via |-> "api",
              attempts |-> 0, silent |-> FALSE, delayed |-> FALSE]

\* INSERT of a job for source s, by a request ("api") or by a cron tick.
CreateRow(s, via) ==
    [AbsentRow EXCEPT !.status = "pending", !.source = s, !.via = via]

-----------------------------------------------------------------------------
(***************************************************************************)
(* Mutated forms of the statements below, for testing the properties.      *)
(***************************************************************************)
ClaimRowUncounted(r) ==                \* mutated: the attempt is not counted
    [r EXCEPT !.status = "running", !.silent = FALSE, !.delayed = FALSE]

FailRowEarly(r, seen) ==               \* mutated: one attempt too few
    IF seen + 1 < MaxAttempts
    THEN [r EXCEPT !.status = "pending", !.delayed = TRUE]
    ELSE [r EXCEPT !.status = "failed"]

SweepRowAlways(r) ==                   \* mutated: exhausted jobs are requeued
    IF r.status # "running" THEN r
    ELSE [r EXCEPT !.status = "pending", !.delayed = FALSE]

SweepRowRetriesOnly(r) ==              \* mutated: exhausted jobs are passed over
    IF r.status # "running" \/ r.attempts >= MaxAttempts THEN r
    ELSE [r EXCEPT !.status = "pending", !.delayed = FALSE]

SweepRowCancels(r) ==                  \* mutated: writes JobStatus.CANCELLED
    IF r.status # "running" THEN r
    ELSE IF r.attempts >= MaxAttempts
         THEN [r EXCEPT !.status = "cancelled"]
         ELSE [r EXCEPT !.status = "pending", !.delayed = FALSE]

-----------------------------------------------------------------------------
IsClaimable(r) == r.status = "pending" /\ ~r.delayed

\* Time passes: run_after is reached, heartbeat_at falls behind the cutoff.
DueRow(r) == [r EXCEPT !.delayed = FALSE]

SilentRow(r) == [r EXCEPT !.silent = TRUE]

ClaimRow(r) ==
    [r EXCEPT !.status   = "running",
              !.attempts = @ + 1,
              !.silent   = FALSE,
              !.delayed  = FALSE]

\* The heartbeat tests the status and not who is beating.  The time it writes
\* was read when its statement was built: late, if the statement has waited
\* for the row until that time, too, is older than the cutoff.
HeartbeatRow(r, late) ==
    IF r.status = "running" THEN [r EXCEPT !.silent = late] ELSE r

\* queue.fail decides on the attempts its caller saw when it claimed the job,
\* and tests neither the row's status nor its present attempts.
FailRow(r, seen) ==
    IF seen < MaxAttempts
    THEN [r EXCEPT !.status = "pending", !.delayed = TRUE]
    ELSE [r EXCEPT !.status = "failed"]

\* The two UPDATEs of recover_stale on one row that was silent when the sweep
\* began: the first fails it if its attempts are exhausted, the second
\* requeues it if it still runs.
SweepRow(r) ==
    IF r.status # "running" THEN r
    ELSE IF r.attempts >= MaxAttempts
         THEN [r EXCEPT !.status = "failed"]
         ELSE [r EXCEPT !.status = "pending", !.delayed = FALSE]

\* mark_finished(COMPLETED): the ORM writes the status it changed since the
\* run's own mark_running, whatever other sessions did before the row lock.
CompleteRow(r) == [r EXCEPT !.status = "completed"]
=============================================================================
