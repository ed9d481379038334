--------------------------- MODULE JobQueueProofs ---------------------------
(***************************************************************************)
(* What the runs check of JobQueue on two workers and two jobs, proved for *)
(* every set of workers and sources, every max_attempts, every number of   *)
(* jobs and every supply of faults.                                        *)
(***************************************************************************)
EXTENDS JobQueue, FiniteSetTheorems, TLAPS

-----------------------------------------------------------------------------
(***************************************************************************)
(* The statements of the queue write rows of the table.                    *)
(***************************************************************************)
LEMMA RowType ==
    \A r \in Row :
        /\ ClaimRow(r) \in Row /\ SweepRow(r) \in Row
        /\ \A late \in BOOLEAN : HeartbeatRow(r, late) \in Row
        /\ CompleteRow(r) \in Row /\ DueRow(r) \in Row /\ SilentRow(r) \in Row
        /\ \A seen \in Nat : FailRow(r, seen) \in Row
<1> SUFFICES ASSUME NEW r \in Row
             PROVE  /\ ClaimRow(r) \in Row /\ SweepRow(r) \in Row
                    /\ \A late \in BOOLEAN : HeartbeatRow(r, late) \in Row
                    /\ CompleteRow(r) \in Row
                    /\ DueRow(r) \in Row /\ SilentRow(r) \in Row
                    /\ \A seen \in Nat : FailRow(r, seen) \in Row
  OBVIOUS
<1>1. ClaimRow(r) \in Row
  <2>1. r.attempts \in Nat /\ r.attempts + 1 \in Nat
    BY DEF Row
  <2>2. QED
    BY <2>1 DEF Row, ClaimRow, JobStatus
<1>2. \A late \in BOOLEAN : HeartbeatRow(r, late) \in Row
  BY DEF Row, HeartbeatRow
<1>3. SweepRow(r) \in Row
  BY DEF Row, SweepRow, JobStatus
<1>4. CompleteRow(r) \in Row
  BY DEF Row, CompleteRow, JobStatus
<1>5. DueRow(r) \in Row
  BY DEF Row, DueRow
<1>6. SilentRow(r) \in Row
  BY DEF Row, SilentRow
<1>7. \A seen \in Nat : FailRow(r, seen) \in Row
  BY DEF Row, FailRow, JobStatus
<1>8. QED
  BY <1>1, <1>2, <1>3, <1>4, <1>5, <1>6, <1>7

\* A row that is not there yet is a row.
LEMMA AbsentRowType == AbsentRow \in Row
BY DEF Row, AbsentRow, JobStatus

\* Enqueued rows are rows.
LEMMA CreateRowType ==
    \A s \in Sources, via \in {"api", "schedule"} : CreateRow(s, via) \in Row
BY DEF Row, AbsentRow, CreateRow, JobStatus

\* Inserting a job keeps the type of the table.
LEMMA InsertType ==
    ASSUME TypeOK, NEW s \in Sources, NEW via \in {"api", "schedule"}, Insert(s, via)
    PROVE  job' \in [Jobs -> Row]
BY CreateRowType DEF TypeOK, Insert

\* Waits keep their type when processes leave them.
LEMMA WaitType ==
    ASSUME TypeOK, NEW P
    PROVE  Depart(P) \in [Process -> Wait]
BY DEF TypeOK, Depart, NotWaiting, Wait

\* Row locks keep their type when a worker releases its own.
LEMMA LockType == TypeOK => \A w \in Workers : Unlock(w) \in [Jobs -> Workers \cup {NoWorker}]
BY DEF TypeOK, Unlock

\* A worker has two processes.
LEMMA ProcessType == \A w \in Workers : Main(w) \in Process /\ Beat(w) \in Process
BY DEF Main, Beat, Process

\* Queueing behind a row lock keeps the types.
LEMMA QueueType ==
    ASSUME TypeOK, NEW p \in Process, NEW j \in Jobs \cup {NoJob}, Queue(p, j)
    PROVE  TypeOK'
BY DEF TypeOK, Queue, Waiting, NotWaiting, Wait

\* A worker that is gone leaves the types as they are.
LEMMA GoneType ==
    ASSUME TypeOK, NEW w \in Workers, Gone(w), faults' \in 0..MaxFaults
    PROVE  TypeOK'
<1>1. lock' \in [Jobs -> Workers \cup {NoWorker}]
  BY LockType DEF Gone
<1>2. wait' \in [Process -> Wait]
  BY WaitType DEF Gone
<1>3. QED
  BY <1>1, <1>2 DEF TypeOK, Gone, PC, NoClaim, NoTick

\* A worker that drops its claim keeps the types.
LEMMA LeaveType ==
    ASSUME TypeOK, NEW w \in Workers, Leave(w)
    PROVE  /\ pc' \in [Workers -> PC]
           /\ claim' \in [Workers -> [job : Jobs \cup {NoJob}, attempts : Nat]]
           /\ beat' \in [Workers -> {"off", "on", "dead"}]
           /\ wait' \in [Process -> Wait]
BY WaitType DEF TypeOK, Leave, PC, NoClaim

\* A heartbeat keeps the types.
LEMMA RefreshType ==
    ASSUME TypeOK, NEW p, NEW j, NEW passed, Refresh(p, j, passed)
    PROVE  /\ stale' \in [Workers -> SUBSET Jobs]
           /\ wait' \in [Process -> Wait]
BY WaitType DEF TypeOK, Refresh

\* Faults stay within their bound.
LEMMA FaultType == \A kind : Fault(kind) /\ TypeOK => faults' \in 0..MaxFaults
BY BoundsAssumption DEF Fault, TypeOK

\* Committing a collection keeps the types.
LEMMA CommitType ==
    ASSUME TypeOK, NEW w \in Workers, Commit(w)
    PROVE  /\ job' \in [Jobs -> Row]
           /\ runs' \in [Jobs -> Nat]
           /\ lock' \in [Jobs -> Workers \cup {NoWorker}]
<1>1. job' \in [Jobs -> Row]
  BY RowType DEF TypeOK, Commit
<1>2. runs' \in [Jobs -> Nat]
  <2>1. runs' = [j \in Jobs |-> IF j = claim[w].job THEN runs[j] + 1 ELSE runs[j]]
    BY DEF TypeOK, Commit
  <2>2. QED
    BY <2>1 DEF TypeOK
<1>3. lock' \in [Jobs -> Workers \cup {NoWorker}]
  BY LockType DEF Commit
<1>4. QED
  BY <1>1, <1>2, <1>3

(***************************************************************************)
(* Type correctness, one step per action.                                  *)
(***************************************************************************)
THEOREM TypeCorrect == Spec => []TypeOK
<1>1. Init => TypeOK
  <2> SUFFICES ASSUME Init PROVE TypeOK
    OBVIOUS
  <2>1. faults \in 0..MaxFaults
    BY BoundsAssumption DEF Init
  <2>2. job \in [Jobs -> Row]
    BY AbsentRowType DEF Init
  <2>3. QED
    BY <2>1, <2>2 DEF Init, TypeOK, NotWaiting, Wait, NoClaim, NoTick, PC
<1>2. TypeOK /\ [Next]_vars => TypeOK'
  <2> SUFFICES ASSUME TypeOK, [Next]_vars PROVE TypeOK'
    OBVIOUS
  <2>1. CASE UNCHANGED vars
    BY <2>1 DEF TypeOK, vars
  <2>3. ASSUME NEW s \in Sources, Enqueue(s) PROVE TypeOK'
    BY <2>3, InsertType DEF TypeOK, Enqueue
  <2>4. ASSUME NEW w \in Workers, Scheduler(w) PROVE TypeOK'
    <3>1. ASSUME NEW s \in Sources, TickLock(w, s) PROVE TypeOK'
      BY <3>1 DEF TypeOK, TickLock
    <3>2. CASE TickCheck(w)
      BY <3>2 DEF TypeOK, TickCheck, NoTick
    <3>3. CASE TickInsert(w)
      <4>1. tick[w].source \in Sources
        BY <3>3 DEF TickInsert, TypeOK, NoTick
      <4>2. QED
        BY <4>1, <3>3, InsertType DEF TypeOK, TickInsert, NoTick
    <3>4. QED
      BY <2>4, <3>1, <3>2, <3>3 DEF Scheduler
  <2>5. ASSUME NEW w \in Workers, MainTask(w) PROVE TypeOK'
    <3>1. CASE SweepBegin(w)
      <4>1. wait' \in [Process -> Wait]
        <5>1. wait' = [p \in Process |-> [wait[p] EXCEPT !.passed =
                                           IF wait[p].late THEN @ \cup {w} ELSE @]]
          BY <3>1 DEF SweepBegin
        <5>2. \A p \in Process : wait[p] \in Wait
          BY DEF TypeOK
        <5>3. \A p \in Process : [wait[p] EXCEPT !.passed =
                                     IF wait[p].late THEN @ \cup {w} ELSE @] \in Wait
          BY <5>2 DEF Wait
        <5>4. QED
          BY <5>1, <5>3
      <4>2. QED
        BY <3>1, <4>1 DEF TypeOK, SweepBegin, PC
    <3>2. CASE SweepEnd(w)
      BY <3>2 DEF TypeOK, SweepEnd, PC
    <3>3. ASSUME NEW j \in Jobs, SweepJob(w, j) PROVE TypeOK'
      BY <3>3, RowType, WaitType DEF TypeOK, SweepJob
    <3>4. ASSUME NEW j \in Jobs, SweepWait(w, j) PROVE TypeOK'
      BY <3>4, QueueType, ProcessType DEF SweepWait
    <3>5. CASE Claim(w)
      <4>1. PICK j \in Jobs :
                /\ job' = [job EXCEPT ![j] = ClaimRow(@)]
                /\ Refresh(Main(w), j, {})
                /\ pc' = [pc EXCEPT ![w] = "claimed"]
                /\ claim' = [claim EXCEPT ![w] = [job |-> j, attempts |-> job'[j].attempts]]
                /\ beat' = [beat EXCEPT ![w] = "on"]
                /\ UNCHANGED <<lock, runs, stalled, tick, faults>>
        BY <3>5 DEF Claim, Claimable
      <4>2. job' \in [Jobs -> Row]
        BY <4>1, RowType DEF TypeOK
      <4>3. job'[j].attempts \in Nat
        BY <4>2 DEF Row
      <4>4. QED
        BY <4>1, <4>2, <4>3, RefreshType DEF TypeOK, PC
    <3>6. CASE MarkRunning(w)
      BY <3>6, WaitType DEF TypeOK, MarkRunning, PC
    <3>7. CASE Complete(w)
      BY <3>7, CommitType, LeaveType DEF TypeOK, Complete
    <3>8. CASE RunError(w)
      BY <3>8, LockType DEF TypeOK, RunError, Rollback, PC
    <3>9. CASE Fail(w)
      <4>1. job' \in [Jobs -> Row]
        BY <3>9, RowType DEF TypeOK, Fail
      <4>2. QED
        BY <4>1, <3>9, LeaveType DEF TypeOK, Fail
    <3>10. CASE JobWait(w)
      BY <3>10, QueueType, ProcessType DEF JobWait, TypeOK
    <3>11. CASE Exit(w)
      BY <3>11, GoneType DEF Exit, TypeOK
    <3>12. CASE Restart(w)
      BY <3>12 DEF TypeOK, Restart, PC
    <3>13. QED
      BY <2>5, <3>1, <3>2, <3>3, <3>4, <3>5, <3>6, <3>7, <3>8, <3>9, <3>10, <3>11,
         <3>12 DEF MainTask
  <2>6. ASSUME NEW w \in Workers, Poll(w) PROVE TypeOK'
    BY <2>6, <2>1 DEF Poll
  <2>7. ASSUME NEW w \in Workers, BeatTask(w) PROVE TypeOK'
    <3>1. CASE BeatWait(w)
      BY <3>1, QueueType, ProcessType DEF BeatWait, TypeOK
    <3>2. CASE BeatJob(w)
      <4>1. job' \in [Jobs -> Row]
        <5>1. wait[Beat(w)].late \in BOOLEAN
          BY ProcessType DEF TypeOK, Wait
        <5>2. QED
          BY <3>2, <5>1, RowType DEF TypeOK, BeatJob
      <4>2. QED
        BY <4>1, <3>2, RefreshType, WaitType DEF TypeOK, BeatJob
    <3>3. QED
      BY <2>7, <3>1, <3>2 DEF BeatTask
  <2>8. ASSUME NEW w \in Workers, Environment(w) PROVE TypeOK'
    <3>1. CASE Crash(w)
      BY <3>1, GoneType, FaultType DEF Crash
    <3>2. CASE Stop(w)
      BY <3>2, FaultType DEF Stop, TypeOK, PC
    <3>3. CASE Stall(w)
      BY <3>3, FaultType DEF Stall, TypeOK
    <3>4. CASE Resume(w)
      BY <3>4 DEF Resume, TypeOK
    <3>5. CASE BeatError(w)
      BY <3>5, FaultType, WaitType DEF BeatError, TypeOK
    <3>6. CASE Drop(w)
      BY <3>6, FaultType, LockType DEF Drop, TypeOK, PC
    <3>7. CASE CompleteLost(w)
      BY <3>7, FaultType, CommitType DEF CompleteLost, TypeOK, PC
    <3>8. CASE RunErrorLate(w)
      BY <3>8, FaultType, LockType DEF RunErrorLate, Rollback, TypeOK, PC
    <3>9. QED
      BY <2>8, <3>1, <3>2, <3>3, <3>4, <3>5, <3>6, <3>7, <3>8 DEF Environment
  <2>9. ASSUME NEW j \in Jobs, BackoffExpires(j) PROVE TypeOK'
    BY <2>9, RowType DEF TypeOK, BackoffExpires
  <2>10. ASSUME NEW j \in Jobs, GoSilent(j) PROVE TypeOK'
    BY <2>10, RowType DEF TypeOK, GoSilent
  <2>11. ASSUME NEW w \in Workers, BeatAges(w) PROVE TypeOK'
    BY <2>11 DEF TypeOK, BeatAges, Wait
  <2>12. QED
    BY <2>1, <2>3, <2>4, <2>5, <2>6, <2>7, <2>8, <2>9, <2>10, <2>11 DEF Next
<1>3. QED
  BY <1>1, <1>2, PTL DEF Spec
-----------------------------------------------------------------------------
(***************************************************************************)
(* Claims and attempts.  What a worker holds is a snapshot: others may     *)
(* have moved the row on.  The inductive invariant says what still relates *)
(* the two: the attempt in hand is one the row has counted, no other       *)
(* holder has the same one, and a failed row has counted them all.         *)
(***************************************************************************)
Holds(w) == pc[w] \in HasClaim

ClaimOK ==
    \A w \in Workers : Holds(w) =>
        /\ claim[w].job \in Jobs
        /\ claim[w].attempts >= 1
        /\ claim[w].attempts <= job[claim[w].job].attempts

ClaimInv == ClaimOK /\ DistinctAttempts /\ FailedIsExhausted

\* Steps that give nobody a claim and take no attempt back.
MayCommit(w) == pc[w] \in {"claimed", "running"}

NoNewClaim ==
    \A w \in Workers :
        /\ Holds(w)' => Holds(w) /\ claim'[w] = claim[w]
        /\ MayCommit(w)' => MayCommit(w)

NoAttemptLost ==
    \A j \in Jobs :
        /\ job'[j].attempts >= job[j].attempts
        /\ job'[j].status = "failed" => job'[j].attempts >= MaxAttempts

\* Claims stay sound when none is new and no row forgets an attempt.
LEMMA ClaimsKept ==
    ASSUME TypeOK, TypeOK', ClaimInv, NoNewClaim, NoAttemptLost
    PROVE  ClaimInv'
<1>1. ClaimOK'
  <2> SUFFICES ASSUME NEW w \in Workers, Holds(w)'
               PROVE  /\ claim'[w].job \in Jobs
                      /\ claim'[w].attempts >= 1
                      /\ claim'[w].attempts <= job'[claim'[w].job].attempts
    BY DEF ClaimOK
  <2>1. claim'[w] = claim[w] /\ claim[w].job \in Jobs
    BY DEF ClaimInv, ClaimOK, NoNewClaim
  <2>2. claim[w].attempts \in Nat
    BY DEF TypeOK
  <2>3. job[claim[w].job].attempts \in Nat /\ job'[claim[w].job].attempts \in Nat
    BY <2>1 DEF TypeOK, Row
  <2>4. job'[claim[w].job].attempts >= job[claim[w].job].attempts
    BY <2>1 DEF NoAttemptLost
  <2>5. claim[w].attempts >= 1 /\ claim[w].attempts <= job[claim[w].job].attempts
    BY DEF ClaimInv, ClaimOK, NoNewClaim
  <2>6. QED
    BY <2>1, <2>2, <2>3, <2>4, <2>5
<1>2. DistinctAttempts'
  BY DEF ClaimInv, DistinctAttempts, NoNewClaim, Holds
<1>3. FailedIsExhausted'
  BY DEF FailedIsExhausted, NoAttemptLost
<1>4. QED
  BY <1>1, <1>2, <1>3 DEF ClaimInv

\* One statement on the row of j: every other row stays as it is.
LEMMA StatementKeeps ==
    ASSUME TypeOK, ClaimInv, NEW j, NEW r,
           job' = [job EXCEPT ![j] = r],
           j \in Jobs => /\ r.attempts = job[j].attempts
                         /\ r.status = "failed" => r.attempts >= MaxAttempts
    PROVE  NoAttemptLost
<1> SUFFICES ASSUME NEW k \in Jobs
             PROVE  /\ job'[k].attempts >= job[k].attempts
                    /\ job'[k].status = "failed" => job'[k].attempts >= MaxAttempts
  BY DEF NoAttemptLost
<1>1. job[k].attempts \in Nat
  BY DEF TypeOK, Row
<1>2. CASE k = j
  BY <1>1, <1>2 DEF TypeOK
<1>3. CASE k # j
  BY <1>1, <1>3 DEF TypeOK, ClaimInv, FailedIsExhausted
<1>4. QED
  BY <1>2, <1>3

\* A step that leaves the table alone forgets no attempt.
LEMMA UnchangedKeeps == TypeOK /\ ClaimInv /\ UNCHANGED job => NoAttemptLost
<1> SUFFICES ASSUME TypeOK, ClaimInv, UNCHANGED job, NEW k \in Jobs
             PROVE  /\ job'[k].attempts >= job[k].attempts
                    /\ job'[k].status = "failed" => job'[k].attempts >= MaxAttempts
  BY DEF NoAttemptLost
<1>1. job[k].attempts \in Nat
  BY DEF TypeOK, Row
<1>2. QED
  BY <1>1 DEF ClaimInv, FailedIsExhausted
(***************************************************************************)
(* What a step does to rows and claims: the seven effects of the queue's   *)
(* statements.  The invariants below look at these only.                   *)
(***************************************************************************)
\* No row is written: locks, waits, timers, rollbacks, crashes, restarts.
Quiet == UNCHANGED <<job, runs>> /\ NoNewClaim

Created(j, s, via) ==
    /\ job[j] = AbsentRow
    /\ job' = [job EXCEPT ![j] = CreateRow(s, via)]
    /\ UNCHANGED <<runs, pc, claim>>

\* A heartbeat that is fresh, or so late that the row stays silent.
OnTimeRow(r) == HeartbeatRow(r, FALSE)
LateRow(r) == HeartbeatRow(r, TRUE)

\* Only the clocks of the row: run_after or heartbeat_at.
Timed(j) ==
    /\ job' \in {[job EXCEPT ![j] = DueRow(@)], [job EXCEPT ![j] = SilentRow(@)],
                 [job EXCEPT ![j] = OnTimeRow(@)],
                 [job EXCEPT ![j] = LateRow(@)]}
    /\ UNCHANGED <<runs, pc, claim>>

Swept(j) ==
    /\ job' = [job EXCEPT ![j] = SweepRow(@)]
    /\ UNCHANGED <<runs, pc, claim>>

Taken(w, j) ==
    /\ IsClaimable(job[j])
    /\ ~Holds(w)
    /\ job' = [job EXCEPT ![j] = ClaimRow(@)]
    /\ pc' = [pc EXCEPT ![w] = "claimed"]
    /\ claim' = [claim EXCEPT ![w] = [job |-> j, attempts |-> job'[j].attempts]]
    /\ UNCHANGED runs

Committed(w) ==
    /\ pc[w] = "running" /\ ~MayCommit(w)'
    /\ job' = [job EXCEPT ![claim[w].job] = CompleteRow(@)]
    /\ runs' = [runs EXCEPT ![claim[w].job] = @ + 1]
    /\ NoNewClaim

GivenUp(w) ==
    /\ Holds(w) /\ ~Holds(w)'
    /\ job' = [job EXCEPT ![claim[w].job] = FailRow(@, claim[w].attempts)]
    /\ UNCHANGED runs
    /\ NoNewClaim

Effect ==
    \/ Quiet
    \/ \E j \in Jobs, s \in Sources, via \in {"api", "schedule"} : Created(j, s, via)
    \/ \E j \in Jobs : Timed(j) \/ Swept(j)
    \/ \E w \in Workers, j \in Jobs : Taken(w, j)
    \/ \E w \in Workers : Committed(w) \/ GivenUp(w)

\* Every step of the queue has one of these effects.
LEMMA StepEffect ==
    ASSUME TypeOK, ClaimInv, [Next]_vars
    PROVE  Effect
<1> USE DEF HasClaim, Holds, MayCommit
<1>1. CASE UNCHANGED vars
  BY <1>1 DEF vars, Effect, Quiet, NoNewClaim
<1>2. ASSUME NEW s \in Sources, NEW via \in {"api", "schedule"}, Insert(s, via),
             UNCHANGED <<runs, pc, claim>>
      PROVE  Effect
  BY <1>2 DEF Insert, NextId, Effect, Created
<1>3. ASSUME NEW s \in Sources, Enqueue(s) PROVE Effect
  BY <1>2, <1>3 DEF Enqueue
<1>4. ASSUME NEW w \in Workers, Scheduler(w) PROVE Effect
  <2>1. ASSUME NEW s \in Sources, TickLock(w, s) PROVE Effect
    BY <2>1 DEF TickLock, Effect, Quiet, NoNewClaim
  <2>2. CASE TickCheck(w)
    BY <2>2 DEF TickCheck, Effect, Quiet, NoNewClaim
  <2>3. CASE TickInsert(w)
    <3>1. tick[w].source \in Sources
      BY <2>3 DEF TickInsert, TypeOK, NoTick
    <3>2. QED
      BY <1>2, <2>3, <3>1 DEF TickInsert
  <2>4. QED
    BY <1>4, <2>1, <2>2, <2>3 DEF Scheduler
<1>5. ASSUME NEW w \in Workers, MainTask(w) PROVE Effect
  <2>1. CASE SweepBegin(w) \/ SweepEnd(w)
    BY <2>1 DEF SweepBegin, SweepEnd, TypeOK, Effect, Quiet, NoNewClaim
  <2>2. ASSUME NEW j \in Jobs, SweepJob(w, j) PROVE Effect
    BY <2>2 DEF SweepJob, Effect, Swept
  <2>3. ASSUME NEW j \in Jobs, SweepWait(w, j) PROVE Effect
    BY <2>3 DEF SweepWait, Queue, Effect, Quiet, NoNewClaim
  <2>4. CASE Claim(w)
    <3>1. \E j \in Jobs : Taken(w, j)
      BY <2>4 DEF Claim, Claimable, Taken
    <3>2. QED
      BY <3>1 DEF Effect
  <2>5. CASE MarkRunning(w)
    BY <2>5 DEF MarkRunning, TypeOK, Effect, Quiet, NoNewClaim
  <2>6. CASE Complete(w)
    <3>1. Committed(w)
      BY <2>6 DEF Complete, Commit, Leave, TypeOK, Committed, NoNewClaim
    <3>2. QED
      BY <3>1 DEF Effect
  <2>7. CASE RunError(w)
    BY <2>7 DEF RunError, Rollback, TypeOK, Effect, Quiet, NoNewClaim
  <2>8. CASE Fail(w)
    <3>1. GivenUp(w)
      BY <2>8 DEF Fail, Leave, TypeOK, GivenUp, NoNewClaim
    <3>2. QED
      BY <3>1 DEF Effect
  <2>9. CASE JobWait(w)
    BY <2>9 DEF JobWait, Queue, Effect, Quiet, NoNewClaim
  <2>10. CASE Exit(w) \/ Restart(w)
    BY <2>10 DEF Exit, Gone, Restart, TypeOK, Effect, Quiet, NoNewClaim
  <2>11. QED
    BY <1>5, <2>1, <2>2, <2>3, <2>4, <2>5, <2>6, <2>7, <2>8, <2>9, <2>10 DEF MainTask
<1>6. ASSUME NEW w \in Workers, Poll(w) PROVE Effect
  BY <1>1, <1>6 DEF Poll
<1>7. ASSUME NEW w \in Workers, BeatTask(w) PROVE Effect
  <2>1. CASE BeatWait(w)
    BY <2>1 DEF BeatWait, Queue, Effect, Quiet, NoNewClaim
  <2>2. CASE BeatJob(w)
    <3>1. CASE claim[w].job \in Jobs
      <4>1. wait[Beat(w)].late \in BOOLEAN
        BY ProcessType DEF TypeOK, Wait
      <4>2. QED
        BY <2>2, <3>1, <4>1 DEF BeatJob, Effect, Timed, OnTimeRow, LateRow
    <3>2. CASE claim[w].job \notin Jobs
      <4>1. UNCHANGED job
        BY <2>2, <3>2 DEF BeatJob, TypeOK
      <4>2. QED
        BY <2>2, <4>1 DEF BeatJob, Effect, Quiet, NoNewClaim
    <3>3. QED
      BY <3>1, <3>2
  <2>3. QED
    BY <1>7, <2>1, <2>2 DEF BeatTask
<1>8. ASSUME NEW w \in Workers, Environment(w) PROVE Effect
  <2>1. CASE Crash(w)
    BY <2>1 DEF Crash, Gone, TypeOK, Effect, Quiet, NoNewClaim
  <2>2. CASE Stop(w) \/ Stall(w) \/ Resume(w) \/ BeatError(w) \/ Drop(w) \/ RunErrorLate(w)
    BY <2>2 DEF Stop, Stall, Resume, BeatError, Drop, RunErrorLate, Rollback, TypeOK, Effect,
                Quiet, NoNewClaim
  <2>3. CASE CompleteLost(w)
    <3>1. Committed(w)
      BY <2>3 DEF CompleteLost, Commit, TypeOK, Committed, NoNewClaim
    <3>2. QED
      BY <3>1 DEF Effect
  <2>4. QED
    BY <1>8, <2>1, <2>2, <2>3 DEF Environment
<1>9. ASSUME NEW j \in Jobs, BackoffExpires(j) \/ GoSilent(j) PROVE Effect
  BY <1>9 DEF BackoffExpires, GoSilent, Effect, Timed
<1>10. ASSUME NEW w \in Workers, BeatAges(w) PROVE Effect
  BY <1>10 DEF BeatAges, Effect, Quiet, NoNewClaim
<1>11. QED
  BY <1>1, <1>3, <1>4, <1>5, <1>6, <1>7, <1>8, <1>9, <1>10 DEF Next
\* What a statement leaves of a row's attempts, and when it fails it.
LEMMA RowEffect ==
    ASSUME NEW r \in Row
    PROVE  /\ \A f \in {DueRow(r), SilentRow(r), OnTimeRow(r), LateRow(r),
                    CompleteRow(r)} :
                 f.attempts = r.attempts /\ (f.status = "failed" => r.status = "failed")
           /\ SweepRow(r).attempts = r.attempts
           /\ SweepRow(r).status = "failed"
                 => r.status = "failed" \/ r.attempts >= MaxAttempts
           /\ ClaimRow(r).attempts = r.attempts + 1
           /\ ClaimRow(r).status = "running"
           /\ \A seen \in Nat :
                 /\ FailRow(r, seen).attempts = r.attempts
                 /\ FailRow(r, seen).status = "failed" => seen >= MaxAttempts
<1>1. \A f \in {DueRow(r), SilentRow(r), OnTimeRow(r), LateRow(r),
                    CompleteRow(r)} :
          f.attempts = r.attempts /\ (f.status = "failed" => r.status = "failed")
  BY DEF Row, DueRow, SilentRow, OnTimeRow, LateRow, HeartbeatRow, CompleteRow
<1>2. /\ SweepRow(r).attempts = r.attempts
      /\ SweepRow(r).status = "failed" => r.status = "failed" \/ r.attempts >= MaxAttempts
  BY DEF Row, SweepRow
<1>3. ClaimRow(r).attempts = r.attempts + 1 /\ ClaimRow(r).status = "running"
  BY DEF Row, ClaimRow
<1>4. \A seen \in Nat :
          /\ FailRow(r, seen).attempts = r.attempts
          /\ FailRow(r, seen).status = "failed" => seen >= MaxAttempts
  BY MaxAttemptsAssumption DEF Row, FailRow
<1>5. QED
  BY <1>1, <1>2, <1>3, <1>4

\* Every step keeps claims sound.
LEMMA ClaimStep == TypeOK /\ TypeOK' /\ ClaimInv /\ [Next]_vars => ClaimInv'
<1> SUFFICES ASSUME TypeOK, TypeOK', ClaimInv, Effect PROVE ClaimInv'
  BY StepEffect
<1>1. CASE Quiet
  BY <1>1, UnchangedKeeps, ClaimsKept DEF Quiet
<1>2. ASSUME UNCHANGED <<pc, claim>> PROVE NoNewClaim
  BY <1>2 DEF NoNewClaim, Holds, MayCommit
<1>3. ASSUME NEW j \in Jobs, NEW s \in Sources, NEW via \in {"api", "schedule"},
             Created(j, s, via)
      PROVE  ClaimInv'
  <2>1. CreateRow(s, via).attempts = job[j].attempts
        /\ CreateRow(s, via).status # "failed"
    BY <1>3 DEF Created, CreateRow, AbsentRow
  <2>2. NoAttemptLost
    BY <1>3, <2>1, StatementKeeps DEF Created
  <2>3. QED
    BY <1>2, <1>3, <2>2, ClaimsKept DEF Created
<1>4. ASSUME NEW j \in Jobs, Timed(j) PROVE ClaimInv'
  <2>1. job[j] \in Row /\ (job[j].status = "failed" => job[j].attempts >= MaxAttempts)
    BY DEF TypeOK, ClaimInv, FailedIsExhausted
  <2>2. NoAttemptLost
    BY <1>4, <2>1, RowEffect, StatementKeeps DEF Timed
  <2>3. QED
    BY <1>2, <1>4, <2>2, ClaimsKept DEF Timed
<1>5. ASSUME NEW j \in Jobs, Swept(j) PROVE ClaimInv'
  <2>1. job[j] \in Row /\ (job[j].status = "failed" => job[j].attempts >= MaxAttempts)
    BY DEF TypeOK, ClaimInv, FailedIsExhausted
  <2>2. NoAttemptLost
    BY <1>5, <2>1, RowEffect, StatementKeeps DEF Swept
  <2>3. QED
    BY <1>2, <1>5, <2>2, ClaimsKept DEF Swept
<1>6. ASSUME NEW w \in Workers, Committed(w) PROVE ClaimInv'
  <2>1. Holds(w) /\ claim[w].job \in Jobs
    BY <1>6 DEF Committed, Holds, HasClaim, ClaimInv, ClaimOK
  <2>2. job[claim[w].job] \in Row
        /\ (job[claim[w].job].status = "failed" => job[claim[w].job].attempts >= MaxAttempts)
    BY <2>1 DEF TypeOK, ClaimInv, FailedIsExhausted
  <2>3. NoAttemptLost
    BY <1>6, <2>2, RowEffect, StatementKeeps DEF Committed
  <2>4. QED
    BY <1>6, <2>3, ClaimsKept DEF Committed
<1>7. ASSUME NEW w \in Workers, GivenUp(w) PROVE ClaimInv'
  <2> DEFINE j == claim[w].job
             r == FailRow(job[j], claim[w].attempts)
  <2>1. j \in Jobs /\ claim[w].attempts \in Nat /\ claim[w].attempts <= job[j].attempts
    BY <1>7 DEF GivenUp, ClaimInv, ClaimOK, TypeOK
  <2>2. job[j] \in Row /\ job[j].attempts \in Nat
    BY <2>1 DEF TypeOK, Row
  <2>3. r.attempts = job[j].attempts /\ (r.status = "failed" => claim[w].attempts >= MaxAttempts)
    BY <2>1, <2>2, RowEffect
  <2>4. r.status = "failed" => r.attempts >= MaxAttempts
    BY <2>1, <2>2, <2>3, MaxAttemptsAssumption
  <2>5. job' = [job EXCEPT ![j] = r]
    BY <1>7 DEF GivenUp
  <2>6. NoAttemptLost
    BY <2>3, <2>4, <2>5, StatementKeeps
  <2>7. QED
    BY <1>7, <2>6, ClaimsKept DEF GivenUp
<1>8. ASSUME NEW w \in Workers, NEW j \in Jobs, Taken(w, j) PROVE ClaimInv'
  <2>1. job[j] \in Row /\ job[j].attempts \in Nat
    BY DEF TypeOK, Row
  <2>2. job'[j].attempts = job[j].attempts + 1 /\ job'[j].status = "running"
    BY <1>8, <2>1, RowEffect DEF Taken, TypeOK
  <2>3. \A k \in Jobs : k # j => job'[k] = job[k]
    BY <1>8 DEF Taken, TypeOK
  <2>4. claim'[w].job = j /\ claim'[w].attempts = job[j].attempts + 1
    BY <1>8, <2>2 DEF Taken, TypeOK
  <2>5. \A v \in Workers \ {w} : claim'[v] = claim[v] /\ (Holds(v)' => Holds(v))
    BY <1>8 DEF Taken, TypeOK, Holds
  <2>6. ASSUME NEW v \in Workers \ {w}, Holds(v)'
        PROVE  /\ claim[v].job \in Jobs /\ claim[v].attempts \in Nat
               /\ claim[v].attempts >= 1
               /\ claim[v].attempts <= job[claim[v].job].attempts
               /\ job[claim[v].job].attempts \in Nat
    BY <2>5, <2>6 DEF ClaimInv, ClaimOK, TypeOK, Row
  <2>7. ClaimOK'
    <3> SUFFICES ASSUME NEW v \in Workers, Holds(v)'
                 PROVE  /\ claim'[v].job \in Jobs
                        /\ claim'[v].attempts >= 1
                        /\ claim'[v].attempts <= job'[claim'[v].job].attempts
      BY DEF ClaimOK
    <3>1. CASE v = w
      BY <3>1, <2>1, <2>2, <2>4
    <3>2. CASE v # w /\ claim[v].job = j
      BY <3>2, <2>1, <2>2, <2>5, <2>6
    <3>3. CASE v # w /\ claim[v].job # j
      BY <3>3, <2>3, <2>5, <2>6
    <3>4. QED
      BY <3>1, <3>2, <3>3
  <2>8. DistinctAttempts'
    <3> SUFFICES ASSUME NEW u \in Workers, NEW v \in Workers, u # v, Holds(u)', Holds(v)',
                        claim'[u].job = claim'[v].job
                 PROVE  claim'[u].attempts # claim'[v].attempts
      BY DEF DistinctAttempts, Holds
    <3>1. CASE u = w
      BY <3>1, <2>1, <2>4, <2>5, <2>6
    <3>2. CASE v = w
      BY <3>2, <2>1, <2>4, <2>5, <2>6
    <3>3. CASE u # w /\ v # w
      BY <3>3, <2>5 DEF ClaimInv, DistinctAttempts, Holds
    <3>4. QED
      BY <3>1, <3>2, <3>3
  <2>9. FailedIsExhausted'
    BY <2>2, <2>3 DEF ClaimInv, FailedIsExhausted
  <2>10. QED
    BY <2>7, <2>8, <2>9 DEF ClaimInv
<1>9. QED
  BY <1>1, <1>3, <1>4, <1>5, <1>6, <1>7, <1>8 DEF Effect

\* Under every fault, what a worker has in hand is an attempt the row has
\* counted, no two workers have the same attempt, and only a job that has used
\* all its attempts is failed.
THEOREM ClaimsSound == Spec => [](DistinctAttempts /\ FailedIsExhausted)
<1>1. Init => ClaimInv
  BY DEF Init, ClaimInv, ClaimOK, DistinctAttempts, FailedIsExhausted, Holds, HasClaim,
         AbsentRow
<1>2. TypeOK /\ TypeOK' /\ ClaimInv /\ [Next]_vars => ClaimInv'
  BY ClaimStep
<1>3. ClaimInv => DistinctAttempts /\ FailedIsExhausted
  BY DEF ClaimInv
<1>4. QED
  BY <1>1, <1>2, <1>3, TypeCorrect, PTL DEF Spec

\* A job is failed for good only when it has used all its attempts, whoever
\* failed it: a late fail, a sweep, or a worker whose claim is stale.
THEOREM FailedJobsAreExhausted == Spec => []FailedIsExhausted
BY ClaimsSound, PTL

-----------------------------------------------------------------------------
(***************************************************************************)
(* The row lock.  A collection holds the lock of its row until it ends.    *)
(***************************************************************************)
LockInv ==
    \A w \in Workers : pc[w] = "running" => lock[claim[w].job] = w

\* Every step keeps row locks with the collections that took them.
LEMMA LockStep == TypeOK /\ ClaimInv /\ LockInv /\ [Next]_vars => LockInv'
<1> SUFFICES ASSUME TypeOK, ClaimInv, LockInv, [Next]_vars, NEW v \in Workers,
                    pc'[v] = "running"
             PROVE  lock'[claim'[v].job] = v
  BY DEF LockInv
<1> USE NoWorkerAssumption
<1>0. pc[v] = "running" => claim[v].job \in Jobs /\ lock[claim[v].job] = v
  BY DEF LockInv, ClaimInv, ClaimOK, Holds, HasClaim
<1>1. CASE UNCHANGED <<lock, claim, pc>>
  BY <1>0, <1>1
<1>2. ASSUME NEW w \in Workers, lock' = Unlock(w), pc'[w] # "running",
             v # w => pc'[v] = pc[v] /\ claim'[v] = claim[v]
      PROVE  lock'[claim'[v].job] = v
  BY <1>0, <1>2 DEF Unlock
<1>3. ASSUME NEW w \in Workers, UNCHANGED lock, pc'[w] # "running",
             v # w => pc'[v] = pc[v] /\ claim'[v] = claim[v]
      PROVE  lock'[claim'[v].job] = v
  BY <1>0, <1>3
<1>4. ASSUME NEW s \in Sources, Enqueue(s) PROVE lock'[claim'[v].job] = v
  BY <1>1, <1>4 DEF Enqueue
<1>5. ASSUME NEW w \in Workers, Scheduler(w) PROVE lock'[claim'[v].job] = v
  BY <1>1, <1>5 DEF Scheduler, TickLock, TickCheck, TickInsert
<1>6. ASSUME NEW w \in Workers, MainTask(w) PROVE lock'[claim'[v].job] = v
  <2>1. CASE \E j \in Jobs : SweepJob(w, j) \/ SweepWait(w, j)
    BY <1>1, <2>1 DEF SweepJob, SweepWait, Queue
  <2>2. CASE SweepBegin(w) \/ SweepEnd(w) \/ Restart(w)
    BY <1>3, <2>2 DEF SweepBegin, SweepEnd, Restart, TypeOK
  <2>3. CASE Claim(w)
    <3>1. UNCHANGED lock /\ pc' = [pc EXCEPT ![w] = "claimed"]
          /\ \E j : claim' = [claim EXCEPT ![w] = [job |-> j, attempts |-> job'[j].attempts]]
      BY <2>3 DEF Claim
    <3>2. QED
      BY <1>3, <3>1 DEF TypeOK
  <2>4. CASE MarkRunning(w)
    <3>1. /\ lock[claim[w].job] = NoWorker
          /\ lock' = [lock EXCEPT ![claim[w].job] = w]
          /\ pc' = [pc EXCEPT ![w] = "running"]
          /\ UNCHANGED claim
      BY <2>4 DEF MarkRunning, Granted
    <3>2. claim[w].job \in Jobs
      BY <2>4 DEF MarkRunning, ClaimInv, ClaimOK, Holds, HasClaim
    <3>3. CASE v = w
      BY <3>1, <3>2, <3>3 DEF TypeOK
    <3>4. CASE v # w
      BY <1>0, <3>1, <3>2, <3>4 DEF TypeOK
    <3>5. QED
      BY <3>3, <3>4
  <2>5. CASE Complete(w)
    BY <1>2, <2>5 DEF Complete, Commit, Leave, TypeOK
  <2>6. CASE RunError(w)
    BY <1>2, <2>6 DEF RunError, Rollback, TypeOK
  <2>7. CASE Fail(w)
    BY <1>3, <2>7 DEF Fail, Leave, TypeOK
  <2>8. CASE JobWait(w)
    BY <1>1, <2>8 DEF JobWait, Queue
  <2>9. CASE Exit(w)
    BY <1>2, <2>9 DEF Exit, Gone, TypeOK
  <2>10. QED
    BY <1>6, <2>1, <2>2, <2>3, <2>4, <2>5, <2>6, <2>7, <2>8, <2>9 DEF MainTask
<1>7. ASSUME NEW w \in Workers, BeatTask(w) PROVE lock'[claim'[v].job] = v
  BY <1>1, <1>7 DEF BeatTask, BeatWait, Queue, BeatJob
<1>8. ASSUME NEW w \in Workers, Environment(w) PROVE lock'[claim'[v].job] = v
  <2>1. CASE Crash(w)
    BY <1>2, <2>1 DEF Crash, Gone, TypeOK
  <2>2. CASE Drop(w) \/ CompleteLost(w) \/ RunErrorLate(w)
    BY <1>2, <2>2 DEF Drop, CompleteLost, Commit, RunErrorLate, Rollback, TypeOK
  <2>3. CASE Stop(w)
    BY <1>3, <2>3 DEF Stop, TypeOK
  <2>4. CASE Stall(w) \/ Resume(w) \/ BeatError(w)
    BY <1>1, <2>4 DEF Stall, Resume, BeatError
  <2>5. QED
    BY <1>8, <2>1, <2>2, <2>3, <2>4 DEF Environment
<1>9. ASSUME NEW w \in Workers, Poll(w) PROVE lock'[claim'[v].job] = v
  BY <1>1, <1>9 DEF Poll, vars
<1>10. ASSUME NEW j \in Jobs, BackoffExpires(j) \/ GoSilent(j) PROVE lock'[claim'[v].job] = v
  BY <1>1, <1>10 DEF BackoffExpires, GoSilent
<1>11. CASE UNCHANGED vars
  BY <1>1, <1>11 DEF vars
<1>12. ASSUME NEW w \in Workers, BeatAges(w) PROVE lock'[claim'[v].job] = v
  BY <1>1, <1>12 DEF BeatAges
<1>13. QED
  BY <1>4, <1>5, <1>6, <1>7, <1>8, <1>9, <1>10, <1>11, <1>12 DEF Next

\* Under every fault, and however often a job is requeued under a worker that
\* has it, at most one collection of it runs: mark_running keeps its row.
THEOREM OneCollection == Spec => []OneCollectionPerJob
<1>1. Init => ClaimInv /\ LockInv
  BY DEF Init, ClaimInv, ClaimOK, DistinctAttempts, FailedIsExhausted, Holds, HasClaim,
         AbsentRow, LockInv
<1>2. TypeOK /\ TypeOK' /\ ClaimInv /\ LockInv /\ [Next]_vars => ClaimInv' /\ LockInv'
  BY ClaimStep, LockStep
<1>3. LockInv => OneCollectionPerJob
  BY DEF LockInv, OneCollectionPerJob
<1>4. QED
  BY <1>1, <1>2, <1>3, TypeCorrect, PTL DEF Spec
-----------------------------------------------------------------------------
(***************************************************************************)
(* Counting.  Attempts tell claims apart, so a set of attempts counts the  *)
(* claims that may still commit, and another the stale claims that may     *)
(* still requeue a job past its maximum.                                   *)
(***************************************************************************)
Open(j) == {a \in 1..job[j].attempts : \E w \in Workers :
               MayCommit(w) /\ claim[w].job = j /\ claim[w].attempts = a}

RunsInv == \A j \in Jobs : runs[j] + Cardinality(Open(j)) <= job[j].attempts

\* Counting subsets of intervals.
LEMMA SubsetCount ==
    ASSUME NEW n \in Nat, NEW m \in Nat, NEW S \in SUBSET (1..n), NEW T \in SUBSET (1..m), S \subseteq T
    PROVE  /\ IsFiniteSet(S) /\ IsFiniteSet(T)
           /\ Cardinality(S) \in Nat /\ Cardinality(T) \in Nat
           /\ Cardinality(S) <= Cardinality(T)
<1>1. IsFiniteSet(1..m) /\ IsFiniteSet(1..n)
  BY FS_Interval
<1>2. IsFiniteSet(T) /\ IsFiniteSet(S)
  BY <1>1, FS_Subset
<1>3. Cardinality(S) \in Nat /\ Cardinality(T) \in Nat
  BY <1>2, FS_CardinalityType
<1>4. Cardinality(S) <= Cardinality(T)
  BY <1>2, FS_Subset
<1>5. QED
  BY <1>2, <1>3, <1>4

\* An attempt is open only if it was, when none is new.
LEMMA OpenShrinks ==
    ASSUME TypeOK, TypeOK', ClaimInv, NoNewClaim, NEW j \in Jobs,
           job'[j].attempts = job[j].attempts
    PROVE  Open(j)' \subseteq Open(j)
BY DEF Open, NoNewClaim, MayCommit, Holds, HasClaim

\* Every step keeps collections within attempts.
LEMMA RunsStep == TypeOK /\ TypeOK' /\ ClaimInv /\ RunsInv /\ [Next]_vars => RunsInv'
<1> SUFFICES ASSUME TypeOK, TypeOK', ClaimInv, RunsInv, Effect, NEW k \in Jobs
             PROVE  runs'[k] + Cardinality(Open(k)') <= job'[k].attempts
  BY StepEffect DEF RunsInv
<1>0. /\ job[k] \in Row /\ job[k].attempts \in Nat /\ job'[k].attempts \in Nat
      /\ runs[k] \in Nat /\ runs'[k] \in Nat
      /\ runs[k] + Cardinality(Open(k)) <= job[k].attempts
  BY DEF TypeOK, Row, RunsInv
<1>1. ASSUME UNCHANGED runs, NoNewClaim, job'[k].attempts = job[k].attempts
      PROVE  runs'[k] + Cardinality(Open(k)') <= job'[k].attempts
  <2>1. Open(k)' \subseteq Open(k)
    BY <1>1, OpenShrinks
  <2>2. Open(k) \in SUBSET (1..job[k].attempts) /\ Open(k)' \in SUBSET (1..job[k].attempts)
    BY <2>1 DEF Open
  <2>3. /\ Cardinality(Open(k)) \in Nat /\ Cardinality(Open(k)') \in Nat
        /\ Cardinality(Open(k)') <= Cardinality(Open(k))
    BY <1>0, <2>1, <2>2, SubsetCount
  <2>4. QED
    BY <1>0, <1>1, <2>3
<1>2. ASSUME UNCHANGED <<pc, claim>> PROVE NoNewClaim
  BY <1>2 DEF NoNewClaim, Holds, MayCommit
<1>3. CASE Quiet
  BY <1>1, <1>3 DEF Quiet
<1>4. ASSUME NEW j \in Jobs, NEW s \in Sources, NEW via \in {"api", "schedule"},
             Created(j, s, via)
      PROVE  runs'[k] + Cardinality(Open(k)') <= job'[k].attempts
  <2>1. CreateRow(s, via).attempts = job[j].attempts
    BY <1>4 DEF Created, CreateRow, AbsentRow
  <2>2. job'[k].attempts = job[k].attempts
    BY <1>4, <2>1 DEF Created, TypeOK
  <2>3. QED
    BY <1>1, <1>2, <1>4, <2>2 DEF Created
<1>5. ASSUME NEW j \in Jobs, Timed(j) \/ Swept(j)
      PROVE  runs'[k] + Cardinality(Open(k)') <= job'[k].attempts
  <2>1. job \in [Jobs -> Row] /\ job[j] \in Row
    BY DEF TypeOK
  <2>2. \A r \in {DueRow(job[j]), SilentRow(job[j]), OnTimeRow(job[j]),
                    LateRow(job[j]), SweepRow(job[j])} :
            r.attempts = job[j].attempts
    BY <2>1, RowEffect
  <2>3. \E r \in {DueRow(job[j]), SilentRow(job[j]), OnTimeRow(job[j]),
                    LateRow(job[j]), SweepRow(job[j])} :
            job' = [job EXCEPT ![j] = r]
    BY <1>5 DEF Timed, Swept
  <2>4. job'[k].attempts = job[k].attempts
    BY <2>1, <2>2, <2>3
  <2>5. QED
    BY <1>1, <1>2, <1>5, <2>4 DEF Timed, Swept
<1>6. ASSUME NEW w \in Workers, GivenUp(w)
      PROVE  runs'[k] + Cardinality(Open(k)') <= job'[k].attempts
  <2>1. claim[w].attempts \in Nat
    BY DEF TypeOK
  <2>2. job'[k].attempts = job[k].attempts
    BY <1>0, <1>6, <2>1, RowEffect DEF GivenUp, TypeOK
  <2>3. QED
    BY <1>1, <1>6, <2>2 DEF GivenUp
<1>7. ASSUME NEW w \in Workers, Committed(w)
      PROVE  runs'[k] + Cardinality(Open(k)') <= job'[k].attempts
  <2> DEFINE j == claim[w].job
             a == claim[w].attempts
  <2>1. /\ MayCommit(w) /\ Holds(w) /\ j \in Jobs /\ a \in Nat /\ a >= 1
        /\ a <= job[j].attempts
    BY <1>7 DEF Committed, MayCommit, Holds, HasClaim, ClaimInv, ClaimOK, TypeOK
  <2>2. job'[k].attempts = job[k].attempts
    BY <1>0, <1>7, <2>1, RowEffect DEF Committed, TypeOK
  <2>3. Open(k)' \subseteq Open(k)
    BY <1>7, <2>2, OpenShrinks DEF Committed
  <2>4. CASE k # j
    <3>1. runs'[k] = runs[k]
      BY <1>7, <2>4 DEF Committed, TypeOK
    <3>2. Open(k) \in SUBSET (1..job[k].attempts) /\ Open(k)' \in SUBSET (1..job[k].attempts)
      BY <2>3 DEF Open
    <3>3. /\ Cardinality(Open(k)) \in Nat /\ Cardinality(Open(k)') \in Nat
          /\ Cardinality(Open(k)') <= Cardinality(Open(k))
      BY <1>0, <2>3, <3>2, SubsetCount
    <3>4. QED
      BY <1>0, <2>2, <3>1, <3>3
  <2>5. CASE k = j
    <3>1. runs'[k] = runs[k] + 1
      BY <1>7, <2>1, <2>5 DEF Committed, TypeOK
    <3>2. a \in Open(k)
      BY <1>0, <2>1, <2>5 DEF Open
    <3>3. a \notin Open(k)'
      <4> SUFFICES ASSUME NEW v \in Workers, MayCommit(v)', claim'[v].job = k,
                          claim'[v].attempts = a
                   PROVE  FALSE
        BY DEF Open
      <4>1. v # w /\ Holds(v) /\ claim'[v] = claim[v]
        BY <1>7 DEF Committed, NoNewClaim, MayCommit, Holds, HasClaim
      <4>2. QED
        BY <2>1, <2>5, <4>1 DEF ClaimInv, DistinctAttempts, Holds
    <3>4. Open(k)' \subseteq Open(k) \ {a}
      BY <2>3, <3>3
    <3>5. Open(k) \in SUBSET (1..job[k].attempts)
          /\ Open(k) \ {a} \in SUBSET (1..job[k].attempts)
          /\ Open(k)' \in SUBSET (1..job[k].attempts)
      BY <2>3 DEF Open
    <3>6. /\ IsFiniteSet(Open(k)) /\ Cardinality(Open(k)) \in Nat
          /\ Cardinality(Open(k)') \in Nat
          /\ Cardinality(Open(k)') <= Cardinality(Open(k) \ {a})
      BY <1>0, <3>4, <3>5, SubsetCount
    <3>7. Cardinality(Open(k) \ {a}) = Cardinality(Open(k)) - 1
      BY <3>2, <3>6, FS_RemoveElement
    <3>8. QED
      BY <1>0, <2>2, <3>1, <3>6, <3>7
  <2>6. QED
    BY <2>4, <2>5
<1>8. ASSUME NEW w \in Workers, NEW j \in Jobs, Taken(w, j)
      PROVE  runs'[k] + Cardinality(Open(k)') <= job'[k].attempts
  <2> DEFINE n == job[k].attempts + 1
  <2>1. \A v \in Workers \ {w} : claim'[v] = claim[v] /\ (MayCommit(v)' => MayCommit(v))
    BY <1>8 DEF Taken, TypeOK, MayCommit
  <2>2. claim'[w].job = j /\ UNCHANGED runs
    BY <1>8 DEF Taken, TypeOK
  <2>3. CASE k # j
    <3>1. job'[k] = job[k]
      BY <1>8, <2>3 DEF Taken, TypeOK
    <3>2. Open(k)' \subseteq Open(k)
      BY <2>1, <2>2, <2>3, <3>1 DEF Open
    <3>3. Open(k) \in SUBSET (1..job[k].attempts) /\ Open(k)' \in SUBSET (1..job[k].attempts)
      BY <3>2 DEF Open
    <3>4. /\ Cardinality(Open(k)) \in Nat /\ Cardinality(Open(k)') \in Nat
          /\ Cardinality(Open(k)') <= Cardinality(Open(k))
      BY <1>0, <3>2, <3>3, SubsetCount
    <3>5. QED
      BY <1>0, <2>2, <3>1, <3>4
  <2>4. CASE k = j
    <3>1. job'[k].attempts = n
      BY <1>0, <1>8, <2>4, RowEffect DEF Taken, TypeOK
    <3>2. claim'[w].attempts = n
      BY <1>8, <2>4, <3>1 DEF Taken, TypeOK
    <3>3. Open(k)' \subseteq Open(k) \cup {n}
      <4> SUFFICES ASSUME NEW b \in 1..n, NEW v \in Workers, MayCommit(v)',
                          claim'[v].job = k, claim'[v].attempts = b, b # n
                   PROVE  b \in Open(k)
        BY <3>1 DEF Open
      <4>1. v # w
        BY <3>2
      <4>2. QED
        BY <1>0, <2>1, <4>1 DEF Open
    <3>4. Open(k) \in SUBSET (1..job[k].attempts)
          /\ Open(k) \cup {n} \in SUBSET (1..n)
          /\ Open(k)' \in SUBSET (1..n)
      BY <1>0, <3>1 DEF Open
    <3>5. n \in Nat /\ n \notin Open(k)
      BY <1>0 DEF Open
    <3>6. /\ Cardinality(Open(k)') \in Nat
          /\ Cardinality(Open(k)') <= Cardinality(Open(k) \cup {n})
      BY <3>3, <3>4, <3>5, SubsetCount
    <3>7. IsFiniteSet(Open(k)) /\ Cardinality(Open(k)) \in Nat
      BY <1>0, <3>4, SubsetCount
    <3>8. Cardinality(Open(k) \cup {n}) = Cardinality(Open(k)) + 1
      BY <3>5, <3>7, FS_AddElement
    <3>9. QED
      BY <1>0, <2>2, <3>1, <3>6, <3>7, <3>8
  <2>5. QED
    BY <2>3, <2>4
<1>9. QED
  BY <1>3, <1>4, <1>5, <1>6, <1>7, <1>8 DEF Effect

\* Under every fault, a collection that commits has an attempt of its own: a
\* job takes effect at most as often as it was claimed.
THEOREM RunsAreAttempts == Spec => []RunsWithinAttempts
<1>1. Init => ClaimInv
  BY DEF Init, ClaimInv, ClaimOK, DistinctAttempts, FailedIsExhausted, Holds, HasClaim,
         AbsentRow
<1>2. Init => RunsInv
  <2> SUFFICES ASSUME Init, NEW j \in Jobs
               PROVE  runs[j] + Cardinality(Open(j)) <= job[j].attempts
    BY DEF RunsInv
  <2>1. Open(j) = {}
    BY DEF Init, Open, MayCommit
  <2>2. Cardinality(Open(j)) = 0
    BY <2>1, FS_EmptySet
  <2>3. QED
    BY <2>2 DEF Init, AbsentRow
<1>3. TypeOK /\ TypeOK' /\ ClaimInv /\ RunsInv /\ [Next]_vars => ClaimInv' /\ RunsInv'
  BY ClaimStep, RunsStep
<1>4. TypeOK /\ RunsInv => RunsWithinAttempts
  <2> SUFFICES ASSUME TypeOK, RunsInv, NEW j \in Jobs PROVE runs[j] <= job[j].attempts
    BY DEF RunsWithinAttempts
  <2>1. job[j].attempts \in Nat /\ runs[j] \in Nat
    BY DEF TypeOK, Row
  <2>2. Cardinality(Open(j)) \in Nat
    BY <2>1, SubsetCount DEF Open
  <2>3. QED
    BY <2>1, <2>2 DEF RunsInv
<1>5. QED
  BY <1>1, <1>2, <1>3, <1>4, TypeCorrect, PTL DEF Spec
\* The stale attempts in hand: each can requeue the job once more.
Requeuers(j) == {a \in 1..(MaxAttempts - 1) : \E w \in Workers :
                    Holds(w) /\ claim[w].job = j /\ claim[w].attempts = a}

Due(j) == IF job[j].status = "pending" THEN 1 ELSE 0

AttemptsInv ==
    \A j \in Jobs : job[j].attempts >= MaxAttempts =>
        job[j].attempts + Due(j) + Cardinality(Requeuers(j)) <= 2 * MaxAttempts - 1

\* Fewer than MaxAttempts claims can requeue an exhausted job.
LEMMA RequeuersFinite ==
    \A j : /\ Requeuers(j) \in SUBSET (1..(MaxAttempts - 1))
           /\ IsFiniteSet(Requeuers(j))
           /\ Cardinality(Requeuers(j)) \in Nat
           /\ Cardinality(Requeuers(j)) <= MaxAttempts - 1
<1> SUFFICES ASSUME NEW j
             PROVE  /\ Requeuers(j) \in SUBSET (1..(MaxAttempts - 1))
                    /\ IsFiniteSet(Requeuers(j))
                    /\ Cardinality(Requeuers(j)) \in Nat
                    /\ Cardinality(Requeuers(j)) <= MaxAttempts - 1
  OBVIOUS
<1>1. MaxAttempts - 1 \in Nat
  BY MaxAttemptsAssumption
<1>2. Requeuers(j) \in SUBSET (1..(MaxAttempts - 1))
  BY DEF Requeuers
<1>3. /\ IsFiniteSet(Requeuers(j)) /\ Cardinality(Requeuers(j)) \in Nat
      /\ Cardinality(Requeuers(j)) <= Cardinality(1..(MaxAttempts - 1))
  BY <1>1, <1>2, SubsetCount
<1>4. Cardinality(1..(MaxAttempts - 1)) = MaxAttempts - 1
  BY <1>1, FS_Interval
<1>5. QED
  BY <1>2, <1>3, <1>4

\* A claim can requeue an exhausted job only if it could, when none is new.
LEMMA RequeuersShrink ==
    ASSUME TypeOK, TypeOK', ClaimInv, NoNewClaim, NEW j \in Jobs
    PROVE  /\ Requeuers(j)' \subseteq Requeuers(j)
           /\ Cardinality(Requeuers(j)') \in Nat
           /\ Cardinality(Requeuers(j)') <= Cardinality(Requeuers(j))
<1>1. Requeuers(j)' \subseteq Requeuers(j)
  BY DEF Requeuers, NoNewClaim
<1>2. MaxAttempts - 1 \in Nat
  BY MaxAttemptsAssumption
<1>3. QED
  BY <1>1, <1>2, RequeuersFinite, SubsetCount

\* No statement but FailRow and SweepRow makes a row pending, and SweepRow
\* only a row with attempts left.
LEMMA DueRows ==
    ASSUME NEW r \in Row
    PROVE  /\ \A f \in {DueRow(r), SilentRow(r), OnTimeRow(r), LateRow(r),
                    CompleteRow(r)} :
                 f.status = "pending" => r.status = "pending"
           /\ SweepRow(r).status = "pending" /\ r.status # "pending"
                 => r.attempts < MaxAttempts
           /\ \A seen \in Nat : seen >= MaxAttempts => FailRow(r, seen).status = "failed"
<1>1. \A f \in {DueRow(r), SilentRow(r), OnTimeRow(r), LateRow(r),
                    CompleteRow(r)} :
          f.status = "pending" => r.status = "pending"
  BY DEF Row, DueRow, SilentRow, OnTimeRow, LateRow, HeartbeatRow, CompleteRow
<1>2. SweepRow(r).status = "pending" /\ r.status # "pending" => r.attempts < MaxAttempts
  BY MaxAttemptsAssumption DEF Row, SweepRow
<1>3. \A seen \in Nat : seen >= MaxAttempts => FailRow(r, seen).status = "failed"
  BY MaxAttemptsAssumption DEF Row, FailRow
<1>4. QED
  BY <1>1, <1>2, <1>3

\* Every step keeps attempts bounded.
LEMMA AttemptsStep ==
    TypeOK /\ TypeOK' /\ ClaimInv /\ AttemptsInv /\ [Next]_vars => AttemptsInv'
<1> SUFFICES ASSUME TypeOK, TypeOK', ClaimInv, AttemptsInv, Effect, NEW k \in Jobs,
                    job'[k].attempts >= MaxAttempts
             PROVE  job'[k].attempts + Due(k)' + Cardinality(Requeuers(k)')
                        <= 2 * MaxAttempts - 1
  BY StepEffect DEF AttemptsInv
<1>0. /\ job[k] \in Row /\ job[k].attempts \in Nat /\ job'[k].attempts \in Nat
      /\ MaxAttempts \in Nat
      /\ Due(k) \in {0, 1} /\ Due(k)' \in {0, 1}
      /\ Cardinality(Requeuers(k)) \in Nat
      /\ job[k].attempts >= MaxAttempts =>
            job[k].attempts + Due(k) + Cardinality(Requeuers(k)) <= 2 * MaxAttempts - 1
  BY MaxAttemptsAssumption, RequeuersFinite DEF TypeOK, Row, Due, AttemptsInv
<1>1. ASSUME NoNewClaim, job'[k].attempts = job[k].attempts,
             job'[k].status = "pending" => job[k].status = "pending" \/ job[k].attempts < MaxAttempts
      PROVE  job'[k].attempts + Due(k)' + Cardinality(Requeuers(k)') <= 2 * MaxAttempts - 1
  <2>1. /\ Cardinality(Requeuers(k)') \in Nat
        /\ Cardinality(Requeuers(k)') <= Cardinality(Requeuers(k))
    BY <1>1, RequeuersShrink
  <2>2. Due(k)' <= Due(k)
    BY <1>0, <1>1 DEF Due
  <2>3. QED
    BY <1>0, <1>1, <2>1, <2>2
<1>2. ASSUME UNCHANGED <<pc, claim>> PROVE NoNewClaim
  BY <1>2 DEF NoNewClaim, Holds, MayCommit
<1>3. CASE Quiet
  BY <1>1, <1>3 DEF Quiet
<1>4. ASSUME NEW j \in Jobs, NEW s \in Sources, NEW via \in {"api", "schedule"},
             Created(j, s, via)
      PROVE  job'[k].attempts + Due(k)' + Cardinality(Requeuers(k)') <= 2 * MaxAttempts - 1
  <2>1. CreateRow(s, via).attempts = 0 /\ job[j].attempts = 0
    BY <1>4 DEF Created, CreateRow, AbsentRow
  <2>2. k # j
    BY <1>4, <2>1, MaxAttemptsAssumption DEF Created, TypeOK
  <2>3. job'[k] = job[k]
    BY <1>4, <2>2 DEF Created, TypeOK
  <2>4. QED
    BY <1>1, <1>2, <1>4, <2>3 DEF Created
<1>5. ASSUME NEW j \in Jobs, Timed(j) \/ Swept(j)
      PROVE  job'[k].attempts + Due(k)' + Cardinality(Requeuers(k)') <= 2 * MaxAttempts - 1
  <2>1. job'[k] \in {job[k], DueRow(job[k]), SilentRow(job[k]),
                     OnTimeRow(job[k]), LateRow(job[k]), SweepRow(job[k])}
    BY <1>5 DEF Timed, Swept, TypeOK
  <2>2. job'[k].attempts = job[k].attempts
    BY <1>0, <2>1, RowEffect
  <2>3. job'[k].status = "pending" => job[k].status = "pending" \/ job[k].attempts < MaxAttempts
    BY <1>0, <2>1, DueRows
  <2>4. NoNewClaim
    BY <1>2, <1>5 DEF Timed, Swept
  <2>5. QED
    BY <1>1, <2>2, <2>3, <2>4
<1>6. ASSUME NEW w \in Workers, Committed(w)
      PROVE  job'[k].attempts + Due(k)' + Cardinality(Requeuers(k)') <= 2 * MaxAttempts - 1
  <2>1. job'[k].attempts = job[k].attempts
        /\ (job'[k].status = "pending" => job[k].status = "pending")
    BY <1>0, <1>6, RowEffect, DueRows DEF Committed, TypeOK
  <2>2. QED
    BY <1>1, <1>6, <2>1 DEF Committed
<1>7. ASSUME NEW w \in Workers, GivenUp(w)
      PROVE  job'[k].attempts + Due(k)' + Cardinality(Requeuers(k)') <= 2 * MaxAttempts - 1
  <2> DEFINE j == claim[w].job
             a == claim[w].attempts
  <2>1. /\ j \in Jobs /\ a \in Nat /\ a >= 1 /\ NoNewClaim
        /\ Holds(w) /\ ~Holds(w)'
    BY <1>7 DEF GivenUp, ClaimInv, ClaimOK, TypeOK
  <2>2. job'[k].attempts = job[k].attempts
    BY <1>0, <1>7, <2>1, RowEffect DEF GivenUp, TypeOK
  <2>3. CASE k # j
    BY <1>1, <1>7, <2>1, <2>2, <2>3 DEF GivenUp, TypeOK
  <2>4. CASE k = j /\ a >= MaxAttempts
    <3>1. job'[k].status = "failed"
      BY <1>0, <1>7, <2>1, <2>4, DueRows DEF GivenUp, TypeOK
    <3>2. QED
      BY <1>1, <2>1, <2>2, <3>1
  <2>5. CASE k = j /\ a < MaxAttempts
    <3>1. a \in Requeuers(k)
      BY <1>0, <2>1, <2>5 DEF Requeuers
    <3>2. a \notin Requeuers(k)'
      <4> SUFFICES ASSUME NEW v \in Workers, Holds(v)', claim'[v].job = k,
                          claim'[v].attempts = a
                   PROVE  FALSE
        BY DEF Requeuers
      <4>1. v # w /\ Holds(v) /\ claim'[v] = claim[v]
        BY <2>1 DEF NoNewClaim
      <4>2. QED
        BY <2>1, <2>5, <4>1 DEF ClaimInv, DistinctAttempts, Holds
    <3>3. Requeuers(k)' \subseteq Requeuers(k) \ {a}
      BY <2>1, <3>2, RequeuersShrink
    <3>4. /\ IsFiniteSet(Requeuers(k))
          /\ Cardinality(Requeuers(k) \ {a}) = Cardinality(Requeuers(k)) - 1
      BY <3>1, RequeuersFinite, FS_RemoveElement
    <3>5. /\ Cardinality(Requeuers(k)') \in Nat
          /\ Cardinality(Requeuers(k)') <= Cardinality(Requeuers(k) \ {a})
      <4>1. MaxAttempts - 1 \in Nat
        BY MaxAttemptsAssumption
      <4>2. /\ Requeuers(k)' \in SUBSET (1..(MaxAttempts - 1))
            /\ Requeuers(k) \ {a} \in SUBSET (1..(MaxAttempts - 1))
        BY <3>3, RequeuersFinite
      <4>3. QED
        BY <3>3, <4>1, <4>2, SubsetCount
    <3>6. QED
      BY <1>0, <2>2, <3>4, <3>5
  <2>6. QED
    BY <1>0, <2>1, <2>3, <2>4, <2>5
<1>8. ASSUME NEW w \in Workers, NEW j \in Jobs, Taken(w, j)
      PROVE  job'[k].attempts + Due(k)' + Cardinality(Requeuers(k)') <= 2 * MaxAttempts - 1
  <2>1. \A v \in Workers \ {w} : claim'[v] = claim[v] /\ (Holds(v)' => Holds(v))
    BY <1>8 DEF Taken, TypeOK, Holds
  <2>2. claim'[w] = [job |-> j, attempts |-> job'[j].attempts]
    BY <1>8 DEF Taken, TypeOK
  <2>3. MaxAttempts - 1 \in Nat /\ Requeuers(k)' \in SUBSET (1..(MaxAttempts - 1))
    BY MaxAttemptsAssumption DEF Requeuers
  <2>4. /\ Cardinality(Requeuers(k)') \in Nat
        /\ Cardinality(Requeuers(k)') <= MaxAttempts - 1
    <3>1. IsFiniteSet(1..(MaxAttempts - 1))
          /\ Cardinality(1..(MaxAttempts - 1)) = MaxAttempts - 1
      BY <2>3, FS_Interval
    <3>2. IsFiniteSet(Requeuers(k)')
          /\ Cardinality(Requeuers(k)') <= Cardinality(1..(MaxAttempts - 1))
      BY <2>3, <3>1, FS_Subset
    <3>3. QED
      BY <3>1, <3>2, FS_CardinalityType
  <2>5. CASE k # j
    <3>1. job'[k] = job[k]
      BY <1>8, <2>5 DEF Taken, TypeOK
    <3>2. Requeuers(k)' \subseteq Requeuers(k)
      BY <2>1, <2>2, <2>5 DEF Requeuers
    <3>3. Cardinality(Requeuers(k)') <= Cardinality(Requeuers(k))
      BY <2>3, <3>2, RequeuersFinite, SubsetCount
    <3>4. Due(k)' = Due(k)
      BY <3>1 DEF Due
    <3>5. QED
      BY <1>0, <2>4, <3>1, <3>3, <3>4
  <2>6. CASE k = j
    <3>1. /\ job'[k].attempts = job[k].attempts + 1 /\ job'[k].status = "running"
          /\ job[k].status = "pending"
      BY <1>0, <1>8, <2>6, RowEffect DEF Taken, TypeOK, IsClaimable
    <3>2. Due(k)' = 0 /\ Due(k) = 1
      BY <3>1 DEF Due
    <3>3. CASE job[k].attempts < MaxAttempts
      BY <1>0, <2>4, <3>1, <3>2, <3>3
    <3>4. CASE job[k].attempts >= MaxAttempts
      <4>1. Requeuers(k)' \subseteq Requeuers(k)
        BY <1>0, <2>1, <2>2, <2>6, <3>1, <3>4 DEF Requeuers
      <4>2. Cardinality(Requeuers(k)') <= Cardinality(Requeuers(k))
        BY <2>3, <4>1, RequeuersFinite, SubsetCount
      <4>3. QED
        BY <1>0, <2>4, <3>1, <3>2, <3>4, <4>2
    <3>5. QED
      BY <1>0, <3>3, <3>4
  <2>7. QED
    BY <2>5, <2>6
<1>9. QED
  BY <1>3, <1>4, <1>5, <1>6, <1>7, <1>8 DEF Effect

\* Under every fault, a job is attempted at most 2 * max_attempts - 1 times:
\* past its maximum only the claims below it can requeue it, once each.
THEOREM AttemptsAreBounded == Spec => []AttemptsBounded
<1>1. Init => ClaimInv
  BY DEF Init, ClaimInv, ClaimOK, DistinctAttempts, FailedIsExhausted, Holds, HasClaim,
         AbsentRow
<1>2. Init => AttemptsInv
  BY MaxAttemptsAssumption DEF Init, AttemptsInv, AbsentRow
<1>3. TypeOK /\ TypeOK' /\ ClaimInv /\ AttemptsInv /\ [Next]_vars => ClaimInv' /\ AttemptsInv'
  BY ClaimStep, AttemptsStep
<1>4. TypeOK /\ AttemptsInv => AttemptsBounded
  <2> SUFFICES ASSUME TypeOK, AttemptsInv, NEW j \in Jobs
               PROVE  job[j].attempts <= 2 * MaxAttempts - 1
    BY DEF AttemptsBounded
  <2>1. job[j].attempts \in Nat /\ MaxAttempts \in Nat \ {0} /\ Due(j) \in {0, 1}
    BY MaxAttemptsAssumption DEF TypeOK, Row, Due
  <2>2. QED
    BY <2>1, RequeuersFinite DEF AttemptsInv
<1>5. QED
  BY <1>1, <1>2, <1>3, <1>4, TypeCorrect, PTL DEF Spec
=============================================================================
