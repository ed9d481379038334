------------------------------ MODULE JobQueue ------------------------------
(***************************************************************************)
(* The PostgreSQL job queue of LeadPipe, its workers and their schedulers: *)
(* src/app/jobs/{queue,worker,scheduler,service}.py, with the transaction  *)
(* boundaries of src/app/pipeline/runner.py.                               *)
(*                                                                         *)
(* A worker process is two asyncio tasks while it has a job - the main     *)
(* loop and the heartbeat - and a scheduler that fires ticks.  Its session *)
(* is READ COMMITTED: the statements of queue.py are one step each (one    *)
(* statement, one commit), while run_collection is one transaction that    *)
(* takes the row lock of its job in mark_running and keeps it until it     *)
(* commits or rolls back.  Statements that meet a held lock wait in the    *)
(* order they came, and evaluate their WHERE again when they get the row;  *)
(* the times they compare and write are those at which they were built.    *)
(***************************************************************************)
EXTENDS JobTable, FiniteSets

CONSTANTS
    Workers, NoWorker,
    MaxJobs,      \* bound: ids handed out
    MaxManual,    \* bound: jobs enqueued by the API or the CLI
    MaxFaults,    \* bound: faults of the environment
    FaultKinds    \* which faults happen, of Faults below

\* crash  the process dies                  stall  it is paused for a while
\* beat   the heartbeat's session raises    drop   the run's transaction is
\* reply  a COMMIT succeeds, its reply is          lost on the server side
\*        lost                              stop   SIGTERM, or --once is over
\* late   not a fault, but counted like one, so that a run may leave it out: a
\*        collection rolls back, its heartbeat having waited for it so long
\*        that the time it carries is past the cutoff (about 70 s)
Faults == {"crash", "stall", "beat", "drop", "reply", "stop", "late"}

ASSUME NoWorkerAssumption == NoWorker \notin Workers
ASSUME BoundsAssumption ==
    MaxJobs \in Nat /\ MaxManual \in Nat /\ MaxFaults \in Nat
ASSUME FaultKindsAssumption == FaultKinds \subseteq Faults

Jobs == 1..MaxJobs
NoJob == 0

Main(w) == <<w, "main">>
Beat(w) == <<w, "beat">>
Process == Workers \X {"main", "beat"}

VARIABLES
    job,      \* job[j]: the committed row of job j
    lock,     \* lock[j]: the worker whose collection holds the row lock of j
    wait,     \* wait[p]: the row process p waits for, who came before it and,
              \*          for a heartbeat, whether the time it carries is by
              \*          now late, and whose sweeps began since it is
    runs,     \* runs[j]: collections of j that committed (history)
    pc,       \* pc[w]: where the main task of w stands
    claim,    \* claim[w]: the ClaimedJob in its hands, a snapshot
    beat,     \* beat[w]: its heartbeat task
    stale,    \* stale[w]: rows older than the cutoff of the sweep of w, not
              \*           yet visited
    stalled,  \* workers that are paused
    tick,     \* tick[w]: the scheduler tick in flight, if any
    faults    \* faults so far

vars == <<job, lock, wait, runs, pc, claim, beat, stale, stalled, tick, faults>>

PC == {"idle", "sweeping", "claimed", "running", "adrift", "failing",
       "exiting", "down"}
HasClaim == {"claimed", "running", "adrift", "failing"}

NoClaim == [job |-> NoJob, attempts |-> 0]
NotWaiting == [row |-> NoJob, ahead |-> {}, late |-> FALSE, passed |-> {}]
Wait == [row : Jobs \cup {NoJob}, ahead : SUBSET Process,
         late : BOOLEAN, passed : SUBSET Workers]
NoTick == [source |-> NoSource, idle |-> FALSE]

TypeOK ==
    /\ job     \in [Jobs -> Row]
    /\ lock    \in [Jobs -> Workers \cup {NoWorker}]
    /\ wait    \in [Process -> Wait]
    /\ runs    \in [Jobs -> Nat]
    /\ pc      \in [Workers -> PC]
    /\ claim   \in [Workers -> [job : Jobs \cup {NoJob}, attempts : Nat]]
    /\ beat    \in [Workers -> {"off", "on", "dead"}]
    /\ stale   \in [Workers -> SUBSET Jobs]
    /\ stalled \in SUBSET Workers
    /\ tick    \in [Workers -> [source : Sources, idle : BOOLEAN] \cup {NoTick}]
    /\ faults  \in 0..MaxFaults

Init ==
    /\ job     = [j \in Jobs |-> AbsentRow]
    /\ lock    = [j \in Jobs |-> NoWorker]
    /\ wait    = [p \in Process |-> NotWaiting]
    /\ runs    = [j \in Jobs |-> 0]
    /\ pc      = [w \in Workers |-> "idle"]
    /\ claim   = [w \in Workers |-> NoClaim]
    /\ beat    = [w \in Workers |-> "off"]
    /\ stale   = [w \in Workers |-> {}]
    /\ stalled = {}
    /\ tick    = [w \in Workers |-> NoTick]
    /\ faults  = 0

-----------------------------------------------------------------------------
(***************************************************************************)
(* Row locks.                                                              *)
(***************************************************************************)
Waiting(j) == {p \in Process : wait[p].row = j}

\* A statement of process p can have the row of j now.
Granted(p, j) ==
    /\ lock[j] = NoWorker
    /\ \/ wait[p].row = j /\ wait[p].ahead = {}
       \/ wait[p].row = NoJob /\ Waiting(j) = {}

\* The processes in P no longer wait.
Depart(P) ==
    [q \in Process |-> IF q \in P THEN NotWaiting
                                  ELSE [wait[q] EXCEPT !.ahead = @ \ P]]

\* Process p joins the waiters of the row of j.
Queue(p, j) ==
    /\ wait[p].row = NoJob
    /\ ~Granted(p, j)
    /\ wait' = [wait EXCEPT ![p] = [NotWaiting EXCEPT !.row = j, !.ahead = Waiting(j)]]
    /\ UNCHANGED <<job, lock, runs, pc, claim, beat, stale, stalled, tick, faults>>

Unlock(w) == [j \in Jobs |-> IF lock[j] = w THEN NoWorker ELSE lock[j]]

\* The sweeps of the workers in W that wait for j.
Sweepers(j, W) == {p \in Process : \E w \in W :
                     p = Main(w) /\ pc[w] = "sweeping" /\ wait[p].row = j}

\* A statement of p writes heartbeat_at of j.  A sweep that waits for j finds
\* it fresh and moves on, unless its cutoff is past the time written: the
\* sweeps of the workers in passed.
Refresh(p, j, passed) ==
    /\ stale' = [w \in Workers |-> IF w \in passed THEN stale[w] ELSE stale[w] \ {j}]
    /\ wait' = Depart({p} \cup Sweepers(j, Workers \ passed))

Awake(w) == w \notin stalled

\* One fault out of the bounded supply.
Fault(kind) ==
    /\ kind \in FaultKinds
    /\ faults < MaxFaults
    /\ faults' = faults + 1

-----------------------------------------------------------------------------
(***************************************************************************)
(* Enqueueing: the API, the CLI and the scheduler.                         *)
(***************************************************************************)
\* Held by SELECT ... FOR UPDATE in enqueue_if_idle; the foreign key of an
\* INSERT into collection_jobs waits for it.
SourceLocked(s) == \E w \in Workers : tick[w].source = s

NextId(j) == job[j] = AbsentRow /\ \A k \in 1..(j - 1) : job[k] # AbsentRow

\* Bound: an id is left for every tick in flight and one more.
Room == Cardinality({j \in Jobs : job[j] = AbsentRow})
            > Cardinality({w \in Workers : tick[w] # NoTick})

Insert(s, via) ==
    \E j \in Jobs : NextId(j) /\ job' = [job EXCEPT ![j] = CreateRow(s, via)]

Enqueue(s) ==
    /\ Room
    /\ Cardinality({j \in Jobs : job[j] # AbsentRow /\ job[j].via = "api"}) < MaxManual
    /\ ~SourceLocked(s)
    /\ Insert(s, "api")
    /\ UNCHANGED <<lock, wait, runs, pc, claim, beat, stale, stalled, tick, faults>>

HasActive(s) == \E j \in Jobs : job[j].source = s /\ job[j].status \in ACTIVE_STATUSES

TickLockShared(w, s) ==                \* mutated: no FOR UPDATE on the source
    /\ Awake(w) /\ pc[w] \notin {"down", "exiting"}
    /\ tick[w] = NoTick
    /\ Room
    /\ tick' = [tick EXCEPT ![w] = [source |-> s, idle |-> FALSE]]
    /\ UNCHANGED <<job, lock, wait, runs, pc, claim, beat, stale, stalled, faults>>

\* fire: the cron trigger of s is due on worker w and locks the source row.
TickLock(w, s) ==
    /\ Awake(w) /\ pc[w] \notin {"down", "exiting"}
    /\ tick[w] = NoTick
    /\ Room
    /\ ~SourceLocked(s)
    /\ tick' = [tick EXCEPT ![w] = [source |-> s, idle |-> FALSE]]
    /\ UNCHANGED <<job, lock, wait, runs, pc, claim, beat, stale, stalled, faults>>

\* The SELECT for an active job; with one, the tick is skipped.
TickCheck(w) ==
    /\ Awake(w)
    /\ tick[w] # NoTick /\ ~tick[w].idle
    /\ tick' = [tick EXCEPT ![w] = IF HasActive(tick[w].source)
                                   THEN NoTick ELSE [@ EXCEPT !.idle = TRUE]]
    /\ UNCHANGED <<job, lock, wait, runs, pc, claim, beat, stale, stalled, faults>>

\* INSERT, then the COMMIT that releases the source row.
TickInsert(w) ==
    /\ Awake(w)
    /\ tick[w].idle
    /\ Insert(tick[w].source, "schedule")
    /\ tick' = [tick EXCEPT ![w] = NoTick]
    /\ UNCHANGED <<lock, wait, runs, pc, claim, beat, stale, stalled, faults>>

BackoffExpires(j) ==
    /\ job[j].status = "pending" /\ job[j].delayed
    /\ job' = [job EXCEPT ![j] = DueRow(@)]
    /\ UNCHANGED <<lock, wait, runs, pc, claim, beat, stale, stalled, tick, faults>>

-----------------------------------------------------------------------------
(***************************************************************************)
(* The main task: run_forever and run_once.                                *)
(***************************************************************************)
\* _maybe_recover finds rows past its cutoff; with none it writes nothing.
\* That cutoff is past the time of every heartbeat that is late by now.
SweepBegin(w) ==
    LET silent == {j \in Jobs : job[j].status = "running" /\ job[j].silent} IN
    /\ Awake(w) /\ pc[w] = "idle"
    /\ silent # {}
    /\ pc' = [pc EXCEPT ![w] = "sweeping"]
    /\ stale' = [stale EXCEPT ![w] = silent]
    /\ wait' = [p \in Process |-> [wait[p] EXCEPT !.passed =
                                     IF wait[p].late THEN @ \cup {w} ELSE @]]
    /\ UNCHANGED <<job, lock, runs, claim, beat, stalled, tick, faults>>

\* recover_stale gets to one row.  Its rows commit together; they are
\* visited one by one here, and no property relates two rows of a sweep.  A
\* row that a late heartbeat sets back after the sweep began is left to the
\* next one, which may begin at any time.
SweepJob(w, j) ==
    /\ Awake(w) /\ pc[w] = "sweeping"
    /\ j \in stale[w]
    /\ Granted(Main(w), j)
    /\ job' = [job EXCEPT ![j] = SweepRow(@)]
    /\ stale' = [stale EXCEPT ![w] = @ \ {j}]
    /\ wait' = Depart({Main(w)})
    /\ UNCHANGED <<lock, runs, pc, claim, beat, stalled, tick, faults>>

SweepWait(w, j) ==
    /\ Awake(w) /\ pc[w] = "sweeping"
    /\ j \in stale[w]
    /\ Queue(Main(w), j)

SweepEnd(w) ==
    /\ Awake(w) /\ pc[w] = "sweeping"
    /\ stale[w] = {}
    /\ pc' = [pc EXCEPT ![w] = "idle"]
    /\ UNCHANGED <<job, lock, wait, runs, claim, beat, stale, stalled, tick, faults>>

\* FOR UPDATE SKIP LOCKED passes over a row some collection holds.
Claimable == {j \in Jobs : IsClaimable(job[j]) /\ lock[j] = NoWorker}

ClaimUnbeaten(w) ==                    \* mutated: the heartbeat task fails to start
    \E j \in Claimable :
        /\ Awake(w) /\ pc[w] = "idle"
        /\ \A k \in Claimable : j <= k
        /\ job' = [job EXCEPT ![j] = ClaimRow(@)]
        /\ Refresh(Main(w), j, {})
        /\ pc' = [pc EXCEPT ![w] = "claimed"]
        /\ claim' = [claim EXCEPT ![w] = [job |-> j, attempts |-> job'[j].attempts]]
        /\ UNCHANGED <<lock, runs, beat, stalled, tick, faults>>

\* claim: the oldest runnable job (ids stand for created_at, id), and the
\* heartbeat task that goes with it.
Claim(w) ==
    \E j \in Claimable :
        /\ Awake(w) /\ pc[w] = "idle"
        /\ \A k \in Claimable : j <= k
        /\ job' = [job EXCEPT ![j] = ClaimRow(@)]
        /\ Refresh(Main(w), j, {})
        /\ pc' = [pc EXCEPT ![w] = "claimed"]
        /\ claim' = [claim EXCEPT ![w] = [job |-> j, attempts |-> job'[j].attempts]]
        /\ beat' = [beat EXCEPT ![w] = "on"]
        /\ UNCHANGED <<lock, runs, stalled, tick, faults>>

\* claim returns None; the worker sleeps and polls again.
Poll(w) ==
    /\ Awake(w) /\ pc[w] = "idle"
    /\ Claimable = {}
    /\ UNCHANGED vars

MarkRunningUnlocked(w) ==              \* mutated: no UPDATE of the row yet
    /\ Awake(w) /\ pc[w] = "claimed"
    /\ wait' = Depart({Main(w)})
    /\ pc' = [pc EXCEPT ![w] = "running"]
    /\ UNCHANGED <<job, lock, runs, claim, beat, stale, stalled, tick, faults>>

\* mark_running flushes an UPDATE of the job's row inside the collection's
\* transaction, which holds the row from here on.
MarkRunning(w) ==
    /\ Awake(w) /\ pc[w] = "claimed"
    /\ Granted(Main(w), claim[w].job)
    /\ lock' = [lock EXCEPT ![claim[w].job] = w]
    /\ wait' = Depart({Main(w)})
    /\ pc' = [pc EXCEPT ![w] = "running"]
    /\ UNCHANGED <<job, runs, claim, beat, stale, stalled, tick, faults>>

\* The finally of run_once: the heartbeat is cancelled, and if it had died of
\* an exception, awaiting it raises and ends the worker.
Leave(w) ==
    /\ pc' = [pc EXCEPT ![w] = IF beat[w] = "dead" THEN "exiting" ELSE "idle"]
    /\ claim' = [claim EXCEPT ![w] = NoClaim]
    /\ beat' = [beat EXCEPT ![w] = "off"]
    /\ wait' = Depart({Main(w), Beat(w)})

\* mark_finished(COMPLETED) and the COMMIT of the collection.
Commit(w) ==
    LET j == claim[w].job IN
    /\ Awake(w) /\ pc[w] = "running"
    /\ job' = [job EXCEPT ![j] = CompleteRow(@)]
    /\ runs' = [runs EXCEPT ![j] = @ + 1]
    /\ lock' = Unlock(w)

Complete(w) ==
    /\ Commit(w)
    /\ Leave(w)
    /\ UNCHANGED <<stale, stalled, tick, faults>>

\* The server commits and the client sees an exception instead.
CompleteLost(w) ==
    /\ Fault("reply")
    /\ Commit(w)
    /\ pc' = [pc EXCEPT ![w] = "failing"]
    /\ UNCHANGED <<wait, claim, beat, stale, stalled, tick>>

\* run_collection raises (a SourceError, or a database error): its session
\* closes and rolls everything back, results and FAILED status included.
Rollback(w) ==
    /\ lock' = Unlock(w)
    /\ pc' = [pc EXCEPT ![w] = "failing"]
    /\ UNCHANGED <<job, wait, runs, claim, beat, stale, stalled, tick>>

RunError(w) ==
    /\ Awake(w)
    /\ \/ pc[w] = "running" /\ ~wait[Beat(w)].late
       \/ pc[w] = "adrift"
       \/ pc[w] = "claimed" /\ wait[Main(w)].row = NoJob
    /\ Rollback(w)
    /\ UNCHANGED faults

\* The same, its heartbeat having waited past the cutoff.
RunErrorLate(w) ==
    /\ Fault("late")
    /\ Awake(w)
    /\ pc[w] = "running" /\ wait[Beat(w)].late
    /\ Rollback(w)

\* _fail: queue.fail in a session of its own, then the finally of run_once.
Fail(w) ==
    LET j == claim[w].job IN
    /\ Awake(w) /\ pc[w] = "failing"
    /\ Granted(Main(w), j)
    /\ job' = [job EXCEPT ![j] = FailRow(@, claim[w].attempts)]
    /\ Leave(w)
    /\ UNCHANGED <<lock, runs, stale, stalled, tick, faults>>

\* mark_running or queue.fail meets a lock on the job's row.
JobWait(w) ==
    /\ Awake(w) /\ pc[w] \in {"claimed", "failing"}
    /\ Queue(Main(w), claim[w].job)

-----------------------------------------------------------------------------
(***************************************************************************)
(* The heartbeat task.                                                     *)
(***************************************************************************)
BeatWait(w) ==
    /\ Awake(w) /\ beat[w] = "on"
    /\ Queue(Beat(w), claim[w].job)

\* Time passes: the heartbeat_at that a waiting beat will write, read before
\* it came to wait, falls behind the cutoff.
BeatAges(w) ==
    /\ beat[w] = "on"
    /\ wait[Beat(w)].row # NoJob /\ ~wait[Beat(w)].late
    /\ ~Granted(Beat(w), wait[Beat(w)].row)
    /\ wait' = [wait EXCEPT ![Beat(w)].late = TRUE]
    /\ UNCHANGED <<job, lock, runs, pc, claim, beat, stale, stalled, tick, faults>>

\* The UPDATE gets the row; a beat that changes nothing is not a step.
BeatJob(w) ==
    LET j == claim[w].job
        b == wait[Beat(w)] IN
    /\ Awake(w) /\ beat[w] = "on"
    /\ Granted(Beat(w), j)
    /\ \/ b.row = j
       \/ job[j].status = "running" /\ job[j].silent
    /\ job' = [job EXCEPT ![j] = HeartbeatRow(@, b.late)]
    /\ IF job[j].status = "running"
       THEN Refresh(Beat(w), j, b.passed)
       ELSE wait' = Depart({Beat(w)}) /\ UNCHANGED stale
    /\ UNCHANGED <<lock, runs, pc, claim, beat, stalled, tick, faults>>

\* Heartbeats come every 10s and the cutoff is 60s: a running job goes silent
\* only if nobody awake beats for it, or every beat is held up at its row.
GoSilent(j) ==
    /\ job[j].status = "running" /\ ~job[j].silent
    /\ \A w \in Workers :
          (beat[w] = "on" /\ claim[w].job = j /\ Awake(w))
              => wait[Beat(w)].row = j /\ ~Granted(Beat(w), j)
    /\ job' = [job EXCEPT ![j] = SilentRow(@)]
    /\ UNCHANGED <<lock, wait, runs, pc, claim, beat, stale, stalled, tick, faults>>

-----------------------------------------------------------------------------
(***************************************************************************)
(* Faults and restarts.                                                    *)
(***************************************************************************)
\* The process of w is gone: its transactions roll back, its ticks too.
Gone(w) ==
    /\ lock' = Unlock(w)
    /\ wait' = Depart({Main(w), Beat(w)})
    /\ pc' = [pc EXCEPT ![w] = "down"]
    /\ claim' = [claim EXCEPT ![w] = NoClaim]
    /\ beat' = [beat EXCEPT ![w] = "off"]
    /\ stale' = [stale EXCEPT ![w] = {}]
    /\ stalled' = stalled \ {w}
    /\ tick' = [tick EXCEPT ![w] = NoTick]
    /\ UNCHANGED <<job, runs>>

\* Killed, or an exception outside _process escapes run_forever.
Crash(w) == pc[w] # "down" /\ Fault("crash") /\ Gone(w)

\* stop() ends the loop between two jobs.
Stop(w) ==
    /\ Fault("stop")
    /\ pc[w] = "idle"
    /\ pc' = [pc EXCEPT ![w] = "exiting"]
    /\ UNCHANGED <<job, lock, wait, runs, claim, beat, stale, stalled, tick>>

Exit(w) == pc[w] = "exiting" /\ Gone(w) /\ UNCHANGED faults

Restart(w) ==
    /\ pc[w] = "down"
    /\ pc' = [pc EXCEPT ![w] = "idle"]
    /\ UNCHANGED <<job, lock, wait, runs, claim, beat, stale, stalled, tick, faults>>

Stall(w) ==
    /\ Fault("stall")
    /\ Awake(w) /\ pc[w] \in HasClaim
    /\ stalled' = stalled \cup {w}
    /\ UNCHANGED <<job, lock, wait, runs, pc, claim, beat, stale, tick>>

Resume(w) ==
    /\ w \in stalled
    /\ stalled' = stalled \ {w}
    /\ UNCHANGED <<job, lock, wait, runs, pc, claim, beat, stale, tick, faults>>

BeatError(w) ==
    /\ Fault("beat")
    /\ Awake(w) /\ beat[w] = "on"
    /\ beat' = [beat EXCEPT ![w] = "dead"]
    /\ wait' = Depart({Beat(w)})
    /\ UNCHANGED <<job, lock, runs, pc, claim, stale, stalled, tick>>

\* The server aborts the collection; the worker, busy fetching, does not know.
\* That too rolls a collection back, so that its heartbeat may be late.
Drop(w) ==
    /\ Fault("drop")
    /\ pc[w] = "running"
    /\ wait[Beat(w)].late => "late" \in FaultKinds
    /\ lock' = Unlock(w)
    /\ pc' = [pc EXCEPT ![w] = "adrift"]
    /\ UNCHANGED <<job, wait, runs, claim, beat, stale, stalled, tick>>

-----------------------------------------------------------------------------
Scheduler(w) == (\E s \in Sources : TickLock(w, s)) \/ TickCheck(w) \/ TickInsert(w)

MainTask(w) ==
    \/ SweepBegin(w) \/ SweepEnd(w)
    \/ \E j \in Jobs : SweepJob(w, j) \/ SweepWait(w, j)
    \/ Claim(w) \/ MarkRunning(w) \/ Complete(w) \/ RunError(w) \/ Fail(w)
    \/ JobWait(w) \/ Exit(w) \/ Restart(w)

BeatTask(w) == BeatWait(w) \/ BeatJob(w)

Environment(w) ==
    \/ Crash(w) \/ Stop(w) \/ Stall(w) \/ Resume(w)
    \/ BeatError(w) \/ Drop(w) \/ CompleteLost(w) \/ RunErrorLate(w)

Next ==
    \/ \E w \in Workers :
          \/ Scheduler(w) \/ MainTask(w) \/ Poll(w)
          \/ BeatTask(w) \/ BeatAges(w) \/ Environment(w)
    \/ \E s \in Sources : Enqueue(s)
    \/ \E j \in Jobs : BackoffExpires(j) \/ GoSilent(j)

Spec == Init /\ [][Next]_vars

\* The event loop runs every task that can run; a paused worker resumes, a
\* worker that is down is started again, timers elapse.  Nothing is assumed
\* of new requests and ticks.
Fairness ==
    /\ \A w \in Workers :
          /\ WF_vars(MainTask(w))
          /\ WF_vars(BeatTask(w))
          /\ WF_vars(TickCheck(w) \/ TickInsert(w))
          /\ WF_vars(Resume(w))
    /\ \A j \in Jobs : WF_vars(BackoffExpires(j)) /\ WF_vars(GoSilent(j))

FairSpec == Spec /\ Fairness

-----------------------------------------------------------------------------
(***************************************************************************)
(* Under every fault.                                                      *)
(***************************************************************************)
\* A job is given up only after its last attempt, whoever writes the verdict:
\* a worker on the snapshot of its claim, or a sweep on the row (fail,
\* recover_stale).
FailedIsExhausted ==
    \A j \in Jobs : job[j].status = "failed" => job[j].attempts >= MaxAttempts

\* Two collections of one job never run at the same time, however often it
\* was requeued under a worker that still has it: mark_running keeps the row.
OneCollectionPerJob ==
    \A v, w \in Workers :
        pc[v] = "running" /\ pc[w] = "running" /\ claim[v].job = claim[w].job => v = w

\* Two workers may hold the same job at once, but never the same attempt of
\* it: attempts, incremented by claim, tells a stale claim from a live one.
DistinctAttempts ==
    \A v, w \in Workers :
        v # w /\ pc[v] \in HasClaim /\ pc[w] \in HasClaim /\ claim[v].job = claim[w].job
            => claim[v].attempts # claim[w].attempts

\* Attempts can exceed max_attempts, since a stale claim's fail requeues a job
\* by its own count; each attempt below the maximum can do so only once.
AttemptsBounded ==
    \A j \in Jobs : job[j].attempts <= 2 * MaxAttempts - 1

\* No claim takes effect twice: a collection that commits has an attempt of
\* its own.
RunsWithinAttempts == \A j \in Jobs : runs[j] <= job[j].attempts

(***************************************************************************)
(* Under FaultKinds \subseteq {"crash", "drop", "stop"}: a collection may   *)
(* take as long as it likes, but one whose heartbeat has waited for it     *)
(* past the cutoff commits or dies with its process; if it were rolled     *)
(* back, the heartbeat would write a time that a waiting sweep is past     *)
(* ("late"), and each of these would be false.                             *)
(***************************************************************************)
Lifecycle == INSTANCE JobLifecycle WITH
    status   <- [j \in Jobs |-> job[j].status],
    attempts <- [j \in Jobs |-> job[j].attempts]

\* Every job follows the state diagram of the operations guide: one
\* completion, no way back from completed or failed, max_attempts attempts.
FollowsLifecycle == Lifecycle!LifecycleSpec

\* A job that a worker holds is running, on that worker's attempt, and no
\* other worker holds it: sweeps and claims leave a beating claim alone even
\* while its heartbeat waits for the row lock of its own collection, unless it
\* has waited past the cutoff when that collection rolls back.
ClaimIsExclusive ==
    \A w \in Workers : pc[w] \in HasClaim =>
        /\ job[claim[w].job].status = "running"
        /\ job[claim[w].job].attempts = claim[w].attempts
        /\ \A v \in Workers \ {w} : claim[v].job # claim[w].job

\* With cron ticks alone, a source never has two active jobs, although every
\* worker fires every tick (enqueue_if_idle).
OneActivePerSource ==
    \A s \in Sources :
        Cardinality({j \in Jobs : job[j].source = s /\ job[j].status \in ACTIVE_STATUSES}) <= 1

(***************************************************************************)
(* Liveness, under every fault, as long as faults are finitely many.       *)
(***************************************************************************)
\* Every job is eventually completed or failed for good: no crash, pause or
\* lost transaction leaves it running or pending forever.
Settles == <>[](\A j \in Jobs : job[j].status \in {"absent", "completed", "failed"})

(***************************************************************************)
(* What the documentation says, which late heartbeats and faults of other  *)
(* kinds refute.                                                           *)
(***************************************************************************)
\* "so several workers can run against the same database without coordinating
\* and without processing the same job twice" (docs/operations.md:36).
ProcessedOnce == \A j \in Jobs : runs[j] <= 1

\* The state diagram has no arrow out of completed (docs/operations.md:39).
CompletedIsFinal ==
    [][\A j \in Jobs : job[j].status = "completed" => job'[j].status = "completed"]_vars

\* "Attempts per job | 3 | max_attempts column" (docs/operations.md:51).
AttemptsWithinMax == \A j \in Jobs : job[j].attempts <= MaxAttempts
=============================================================================
