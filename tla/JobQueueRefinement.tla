------------------------- MODULE JobQueueRefinement -------------------------
(***************************************************************************)
(* Workers crash, stop and lose their transaction, and their collections   *)
(* take as long as they like; nothing else fails, and no collection is     *)
(* rolled back whose heartbeat has waited for it past the cutoff.  Then a  *)
(* job that a worker holds is its own, and the queue implements the        *)
(* lifecycle of jobs.                                                      *)
(*                                                                         *)
(* The argument is about a job whose collection has the row lock: its      *)
(* heartbeat cannot get at the row and the row goes silent, but that       *)
(* heartbeat waits for the row ahead of every sweep.  If it gets the row,  *)
(* the time it carries is not late yet, and the sweeps pass over the row   *)
(* it has written; if it is late, the collection has the row until it      *)
(* commits, and then there is nothing left to sweep.                       *)
(***************************************************************************)
EXTENDS JobQueueProofs

Benign == FaultKinds \subseteq {"crash", "drop", "stop"}

\* Nobody is paused; a heartbeat is alive while its worker has a job, and a
\* worker without a job has no claim.
Calm ==
    /\ stalled = {}
    /\ \A w \in Workers :
          /\ beat[w] = (IF Holds(w) THEN "on" ELSE "off")
          /\ ~Holds(w) => claim[w] = NoClaim

\* Who waits for a row: its holder, by either task, and sweeps that still
\* have to visit it.
WaitersKnown ==
    \A w \in Workers :
        /\ wait[Beat(w)].row # NoJob => Holds(w) /\ wait[Beat(w)].row = claim[w].job
        /\ wait[Main(w)].row # NoJob =>
              \/ Holds(w) /\ wait[Main(w)].row = claim[w].job
              \/ pc[w] = "sweeping" /\ wait[Main(w)].row \in stale[w]

\* A claimed row that is silent, or that a sweep has yet to visit, has its
\* heartbeat waiting for it.
SilentWaits ==
    \A w \in Workers :
        Holds(w) /\ (job[claim[w].job].silent \/ \E v \in Workers : claim[w].job \in stale[v])
            => wait[Beat(w)].row = claim[w].job

\* No sweep waits for a claimed row ahead of its heartbeat.
BeatFirst ==
    \A v, w \in Workers :
        Holds(w) /\ pc[v] = "sweeping" /\ wait[Main(v)].row = claim[w].job
            => Beat(w) \in wait[Main(v)].ahead

Shield == Calm /\ WaitersKnown /\ SilentWaits /\ BeatFirst /\ ClaimIsExclusive

\* A heartbeat waits behind the main task of its own worker at most.  Its time
\* is late only while that worker's collection has the row, or is about to
\* take it; and only a late one is behind the cutoff of a sweep.
Timely ==
    \A w \in Workers :
        /\ wait[Beat(w)].row # NoJob => wait[Beat(w)].ahead \subseteq {Main(w)}
        /\ wait[Beat(w)].late =>
              /\ wait[Beat(w)].row # NoJob
              /\ pc[w] = "running" \/ Main(w) \in wait[Beat(w)].ahead
        /\ wait[Beat(w)].passed # {} => wait[Beat(w)].late

\* A row is locked by the collection of its job.
LockedRuns ==
    \A j \in Jobs : lock[j] # NoWorker => pc[lock[j]] = "running" /\ claim[lock[j]].job = j

\* Attempts are left to a job that is due.
AttemptsLeft ==
    \A j \in Jobs :
        /\ job[j].attempts <= MaxAttempts
        /\ job[j].status \in {"absent", "pending"} => job[j].attempts < MaxAttempts

\* A source with a tick in flight is that tick's alone, and has no active job
\* once the tick has looked.
TicksExclusive ==
    /\ \A v, w \in Workers :
          tick[v] # NoTick /\ tick[w] # NoTick /\ tick[v].source = tick[w].source => v = w
    /\ \A w \in Workers : tick[w].idle => ~HasActive(tick[w].source)

\* OneActivePerSource without counting.
Active(j) == job[j].source \in Sources /\ job[j].status \in ACTIVE_STATUSES

OneActive ==
    \A j, k \in Jobs : Active(j) /\ Active(k) /\ job[j].source = job[k].source => j = k

-----------------------------------------------------------------------------
(***************************************************************************)
(* Processes and waits.                                                    *)
(***************************************************************************)
\* The two tasks of a worker are two processes, and nobody else's.
LEMMA Tasks ==
    \A v, w \in Workers :
        /\ Main(v) # Beat(w)
        /\ v # w => Main(v) # Main(w) /\ Beat(v) # Beat(w)
BY DEF Main, Beat

\* Who departs waits for nothing; the others wait on, behind those who stay.
LEMMA Departs ==
    ASSUME TypeOK, NEW P, wait' = Depart(P), NEW p \in Process
    PROVE  /\ p \in P => wait'[p].row = NoJob
           /\ p \notin P => wait'[p].row = wait[p].row /\ wait'[p].ahead = wait[p].ahead \ P
<1>1. wait[p] \in Wait
  BY DEF TypeOK
<1>2. wait'[p] = IF p \in P THEN NotWaiting ELSE [wait[p] EXCEPT !.ahead = @ \ P]
  BY DEF Depart
<1>3. QED
  BY <1>1, <1>2 DEF NotWaiting, Wait

\* Who queues waits behind all that wait for the row; nobody else moves.
LEMMA Queues ==
    ASSUME TypeOK, NEW p \in Process, NEW j, Queue(p, j)
    PROVE  /\ wait[p].row = NoJob
           /\ wait'[p].row = j /\ wait'[p].ahead = Waiting(j)
           /\ \A q \in Process \ {p} : wait'[q] = wait[q]
           /\ UNCHANGED <<job, lock, runs, pc, claim, beat, stale, stalled, tick, faults>>
BY DEF TypeOK, Queue, NotWaiting

-----------------------------------------------------------------------------
(***************************************************************************)
(* Steps that take no job and begin neither a wait nor a sweep.            *)
(***************************************************************************)
\* Worker w keeps its claim, the row of it and its heartbeat, or has none.
HoldsOn(w) ==
    IF Holds(w)'
    THEN LET j == claim[w].job IN
         /\ Holds(w)
         /\ claim'[w] = claim[w] /\ beat'[w] = beat[w]
         /\ wait'[Beat(w)].row = wait[Beat(w)].row
         /\ job'[j].status = job[j].status /\ job'[j].attempts = job[j].attempts
         /\ job'[j].silent => job[j].silent \/ wait[Beat(w)].row = j
    ELSE claim'[w] = NoClaim /\ beat'[w] = "off" /\ wait'[Beat(w)].row = NoJob

\* Worker w waits on for the same row, behind the heartbeats that still beat.
WaitsOn(w) ==
    wait'[Main(w)].row # NoJob =>
        /\ wait'[Main(w)].row = wait[Main(w)].row
        /\ Holds(w)' \/ (pc[w] = "sweeping" /\ wait[Main(w)].row \in stale'[w])
        /\ pc'[w] = "sweeping" => pc[w] = "sweeping"
        /\ ~Holds(w)' => pc'[w] = "sweeping"
        /\ \A v \in Workers :
              Holds(v)' /\ Beat(v) \in wait[Main(w)].ahead => Beat(v) \in wait'[Main(w)].ahead

Steady ==
    /\ stalled' = {}
    /\ \A w \in Workers : HoldsOn(w) /\ WaitsOn(w) /\ stale'[w] \subseteq stale[w]

\* Such steps keep the shield of every claim.
LEMMA SteadyStep ==
    ASSUME TypeOK, ClaimInv, Shield, Steady
    PROVE  Shield'
<1> USE DEF Shield
<1>0. ASSUME NEW w \in Workers PROVE Holds(w) => claim[w].job \in Jobs /\ claim[w].job # NoJob
  BY DEF ClaimInv, ClaimOK, Jobs, NoJob
<1>1. Calm'
  BY DEF Steady, HoldsOn, Calm
<1>2. WaitersKnown'
  <2> SUFFICES ASSUME NEW w \in Workers
               PROVE  /\ wait'[Beat(w)].row # NoJob
                            => Holds(w)' /\ wait'[Beat(w)].row = claim'[w].job
                      /\ wait'[Main(w)].row # NoJob =>
                            \/ Holds(w)' /\ wait'[Main(w)].row = claim'[w].job
                            \/ pc'[w] = "sweeping" /\ wait'[Main(w)].row \in stale'[w]
    BY DEF WaitersKnown
  <2>1. wait'[Beat(w)].row # NoJob => Holds(w)' /\ wait'[Beat(w)].row = claim'[w].job
    BY DEF Steady, HoldsOn, WaitersKnown
  <2>2. CASE Holds(w)'
    <3>1. Holds(w) /\ claim'[w] = claim[w] /\ pc[w] # "sweeping"
      BY <2>2 DEF Steady, HoldsOn, Holds, HasClaim
    <3>2. QED
      BY <2>1, <2>2, <3>1 DEF Steady, WaitsOn, WaitersKnown
  <2>3. CASE ~Holds(w)'
    BY <2>1, <2>3 DEF Steady, WaitsOn
  <2>4. QED
    BY <2>2, <2>3
<1>3. SilentWaits'
  <2> SUFFICES ASSUME NEW w \in Workers, Holds(w)',
                      \/ job'[claim'[w].job].silent
                      \/ \E v \in Workers : claim'[w].job \in stale'[v]
               PROVE  wait'[Beat(w)].row = claim'[w].job
    BY DEF SilentWaits
  <2>1. HoldsOn(w)
    BY DEF Steady
  <2>2. \A v \in Workers : stale'[v] \subseteq stale[v]
    BY DEF Steady
  <2>3. wait[Beat(w)].row = claim[w].job
    BY <2>1, <2>2 DEF HoldsOn, SilentWaits
  <2>4. QED
    BY <2>1, <2>3 DEF HoldsOn
<1>4. BeatFirst'
  <2> SUFFICES ASSUME NEW v \in Workers, NEW w \in Workers, Holds(w)', pc'[v] = "sweeping",
                      wait'[Main(v)].row = claim'[w].job
               PROVE  Beat(w) \in wait'[Main(v)].ahead
    BY DEF BeatFirst
  <2>1. HoldsOn(w) /\ WaitsOn(v)
    BY DEF Steady
  <2>2. Holds(w) /\ claim'[w] = claim[w]
    BY <2>1 DEF HoldsOn
  <2>3. wait'[Main(v)].row # NoJob
    BY <1>0, <2>2
  <2>4. wait'[Main(v)].row = wait[Main(v)].row /\ pc[v] = "sweeping"
    BY <2>1, <2>3 DEF WaitsOn
  <2>5. Beat(w) \in wait[Main(v)].ahead
    BY <2>2, <2>4 DEF BeatFirst
  <2>6. QED
    BY <2>1, <2>3, <2>5 DEF WaitsOn
<1>5. ClaimIsExclusive'
  <2> SUFFICES ASSUME NEW w \in Workers, Holds(w)'
               PROVE  /\ job'[claim'[w].job].status = "running"
                      /\ job'[claim'[w].job].attempts = claim'[w].attempts
                      /\ \A v \in Workers \ {w} : claim'[v].job # claim'[w].job
    BY DEF ClaimIsExclusive, Holds
  <2>1. HoldsOn(w)
    BY DEF Steady
  <2>2. \A v \in Workers : HoldsOn(v)
    BY DEF Steady
  <2>3. \A v \in Workers \ {w} : claim'[v].job # claim'[w].job
    BY <1>0, <2>1, <2>2 DEF HoldsOn, NoClaim, ClaimIsExclusive, Holds
  <2>4. QED
    BY <2>1, <2>3 DEF HoldsOn, ClaimIsExclusive, Holds
<1>6. QED
  BY <1>1, <1>2, <1>3, <1>4, <1>5

\* Nobody moves; the rows of claimed jobs change in their silence at most.
Still ==
    /\ UNCHANGED <<claim, beat, stale, stalled>>
    /\ \A p \in Process : wait'[p].row = wait[p].row /\ wait'[p].ahead = wait[p].ahead
    /\ \A w \in Workers :
          /\ Holds(w)' <=> Holds(w)
          /\ pc'[w] = "sweeping" <=> pc[w] = "sweeping"
          /\ Holds(w) => LET j == claim[w].job IN
                /\ job'[j].status = job[j].status /\ job'[j].attempts = job[j].attempts
                /\ job'[j].silent => job[j].silent \/ wait[Beat(w)].row = j

\* When nobody moves, every claim and wait goes on.
LEMMA StillIsSteady ==
    ASSUME TypeOK, Shield, Still
    PROVE  Steady
<1> USE ProcessType DEF Shield
<1>1. stalled' = {}
  BY DEF Still, Calm
<1>2. ASSUME NEW w \in Workers PROVE HoldsOn(w)
  <2>1. CASE Holds(w)
    BY <2>1 DEF Still, HoldsOn
  <2>2. CASE ~Holds(w)
    BY <2>2 DEF Still, HoldsOn, Calm, WaitersKnown
  <2>3. QED
    BY <2>1, <2>2
<1>3. ASSUME NEW w \in Workers PROVE WaitsOn(w)
  BY DEF Still, WaitsOn, WaitersKnown
<1>4. QED
  BY <1>1, <1>2, <1>3 DEF Steady, Still

\* Worker w has done with its job, which is nobody else's: it departs, and
\* writes no other row.
Leaves(w) ==
    /\ wait' = Depart({Main(w), Beat(w)})
    /\ \A j \in Jobs : j # claim[w].job => job'[j] = job[j]
    /\ ~Holds(w)' /\ claim'[w] = NoClaim /\ beat'[w] = "off"
    /\ stalled' = {}
    /\ \A v \in Workers :
          /\ stale'[v] \subseteq stale[v]
          /\ v # w => pc'[v] = pc[v] /\ claim'[v] = claim[v] /\ beat'[v] = beat[v]
                         /\ stale'[v] = stale[v]

\* When a worker leaves, every other claim and wait goes on.
LEMMA LeavesIsSteady ==
    ASSUME TypeOK, ClaimInv, Shield, NEW w \in Workers, Leaves(w)
    PROVE  Steady
<1> USE DEF Shield
<1>1. stalled' = {} /\ \A v \in Workers : stale'[v] \subseteq stale[v]
  BY DEF Leaves
<1>2. /\ wait'[Main(w)].row = NoJob /\ wait'[Beat(w)].row = NoJob
      /\ \A v \in Workers \ {w} :
            /\ wait'[Beat(v)].row = wait[Beat(v)].row
            /\ wait'[Main(v)].row = wait[Main(v)].row
            /\ wait'[Main(v)].ahead = wait[Main(v)].ahead \ {Main(w), Beat(w)}
  <2> DEFINE P == {Main(w), Beat(w)}
  <2>1. \A p \in Process :
            /\ p \in P => wait'[p].row = NoJob
            /\ p \notin P => wait'[p].row = wait[p].row /\ wait'[p].ahead = wait[p].ahead \ P
    BY Departs DEF Leaves
  <2>2. \A v \in Workers \ {w} : Main(v) \notin P /\ Beat(v) \notin P
    BY Tasks
  <2>3. QED
    BY <2>1, <2>2, ProcessType
<1>3. ASSUME NEW v \in Workers PROVE HoldsOn(v)
  <2>1. CASE v = w
    BY <1>2, <2>1 DEF Leaves, HoldsOn
  <2>2. CASE v # w /\ ~Holds(v)
    <3>1. ~Holds(v)'
      BY <2>2 DEF Leaves, Holds
    <3>2. QED
      BY <1>2, <2>2, <3>1 DEF Leaves, HoldsOn, Calm, WaitersKnown
  <2>3. CASE v # w /\ Holds(v)
    <3>1. claim[v].job \in Jobs /\ claim[v].job # claim[w].job
      BY <2>3 DEF ClaimInv, ClaimOK, ClaimIsExclusive, Holds
    <3>2. Holds(v)'
      BY <2>3 DEF Leaves, Holds
    <3>3. QED
      BY <1>2, <2>3, <3>1, <3>2 DEF Leaves, HoldsOn
  <2>4. QED
    BY <2>1, <2>2, <2>3
<1>4. ASSUME NEW v \in Workers PROVE WaitsOn(v)
  <2>1. CASE v = w
    BY <1>2, <2>1 DEF WaitsOn
  <2>2. CASE v # w
    <3>1. pc'[v] = pc[v] /\ stale'[v] = stale[v]
      BY <2>2 DEF Leaves
    <3>2. Holds(v)' <=> Holds(v)
      BY <3>1 DEF Holds
    <3>3. ASSUME NEW u \in Workers, Holds(u)', Beat(u) \in wait[Main(v)].ahead
          PROVE  Beat(u) \in wait'[Main(v)].ahead
      <4>1. u # w
        BY <3>3 DEF Leaves
      <4>2. QED
        BY <1>2, <2>2, <3>3, <4>1, Tasks
    <3>4. QED
      BY <1>2, <2>2, <3>1, <3>2, <3>3 DEF WaitsOn, WaitersKnown
  <2>3. QED
    BY <2>1, <2>2
<1>5. QED
  BY <1>1, <1>3, <1>4 DEF Steady

\* The main task of w stops waiting, and only sweeps get on.
Proceeds(w) ==
    /\ wait' = Depart({Main(w)})
    /\ UNCHANGED <<claim, beat, stalled>>
    /\ \A v \in Workers :
          /\ Holds(v)' <=> Holds(v)
          /\ pc'[v] = "sweeping" <=> pc[v] = "sweeping"
          /\ stale'[v] \subseteq stale[v]
          /\ v # w => stale'[v] = stale[v]
          /\ Holds(v) => job'[claim[v].job] = job[claim[v].job]

\* When a task gets its row, every claim and every other wait goes on.
LEMMA ProceedsIsSteady ==
    ASSUME TypeOK, Shield, NEW w \in Workers, Proceeds(w)
    PROVE  Steady
<1> USE DEF Shield
<1>1. stalled' = {} /\ \A v \in Workers : stale'[v] \subseteq stale[v]
  BY DEF Proceeds, Calm
<1>2. /\ wait'[Main(w)].row = NoJob
      /\ \A v \in Workers : wait'[Beat(v)].row = wait[Beat(v)].row
      /\ \A v \in Workers \ {w} :
            /\ wait'[Main(v)].row = wait[Main(v)].row
            /\ wait'[Main(v)].ahead = wait[Main(v)].ahead \ {Main(w)}
  <2> DEFINE P == {Main(w)}
  <2>1. \A p \in Process :
            /\ p \in P => wait'[p].row = NoJob
            /\ p \notin P => wait'[p].row = wait[p].row /\ wait'[p].ahead = wait[p].ahead \ P
    BY Departs DEF Proceeds
  <2>2. \A v \in Workers : Beat(v) \notin P /\ (v # w => Main(v) \notin P)
    BY Tasks
  <2>3. QED
    BY <2>1, <2>2, ProcessType
<1>3. ASSUME NEW v \in Workers PROVE HoldsOn(v)
  <2>1. CASE Holds(v)
    BY <1>2, <2>1 DEF Proceeds, HoldsOn
  <2>2. CASE ~Holds(v)
    BY <1>2, <2>2 DEF Proceeds, HoldsOn, Calm, WaitersKnown
  <2>3. QED
    BY <2>1, <2>2
<1>4. ASSUME NEW v \in Workers PROVE WaitsOn(v)
  <2>1. CASE v = w
    BY <1>2, <2>1 DEF WaitsOn
  <2>2. CASE v # w
    <3>1. \A u \in Workers : Beat(u) \in wait[Main(v)].ahead => Beat(u) \in wait'[Main(v)].ahead
      BY <1>2, <2>2, Tasks
    <3>2. QED
      BY <1>2, <2>2, <3>1 DEF Proceeds, WaitsOn, WaitersKnown
  <2>3. QED
    BY <2>1, <2>2
<1>5. QED
  BY <1>1, <1>3, <1>4 DEF Steady

\* A sweep visits no claimed row: a heartbeat waits for each of those it has
\* yet to visit, and waits ahead of it.
LEMMA SweepsMissClaims ==
    ASSUME ClaimInv, Shield, NEW v \in Workers, NEW j \in Jobs, SweepJob(v, j),
           NEW w \in Workers, Holds(w)
    PROVE  claim[w].job # j
<1> SUFFICES ASSUME claim[w].job = j PROVE FALSE
  OBVIOUS
<1>1. wait[Beat(w)].row = j
  BY DEF SweepJob, Shield, SilentWaits
<1>2. Beat(w) \in Waiting(j)
  BY <1>1, ProcessType DEF Waiting
<1>3. wait[Main(v)].row = j /\ wait[Main(v)].ahead = {}
  BY <1>2 DEF SweepJob, Granted
<1>4. Beat(w) \in wait[Main(v)].ahead
  BY <1>3 DEF SweepJob, Shield, BeatFirst
<1>5. QED
  BY <1>3, <1>4

\* The visit of a sweep.
LEMMA SweepIsSteady ==
    ASSUME TypeOK, ClaimInv, Shield, NEW w \in Workers, NEW j \in Jobs, SweepJob(w, j)
    PROVE  Steady
<1>1. \A v \in Workers : Holds(v) => job'[claim[v].job] = job[claim[v].job]
  <2> SUFFICES ASSUME NEW v \in Workers, Holds(v)
               PROVE  job'[claim[v].job] = job[claim[v].job]
    OBVIOUS
  <2>1. claim[v].job # j /\ claim[v].job \in Jobs
    BY SweepsMissClaims DEF ClaimInv, ClaimOK
  <2>2. QED
    BY <2>1 DEF SweepJob, TypeOK
<1>2. Proceeds(w)
  BY <1>1 DEF SweepJob, Proceeds, Holds, TypeOK
<1>3. QED
  BY <1>2, ProceedsIsSteady

\* The steps that end a claim.
LEMMA LeaveIsSteady ==
    ASSUME TypeOK, ClaimInv, Shield, NEW w \in Workers, Complete(w) \/ Fail(w)
    PROVE  Steady
<1>1. \A j \in Jobs : j # claim[w].job => job'[j] = job[j]
  BY DEF Complete, Commit, Fail, TypeOK
<1>2. Leave(w) /\ UNCHANGED <<stale, stalled>>
  BY DEF Complete, Fail
<1>3. Leaves(w)
  BY <1>1, <1>2 DEF Leave, Leaves, Holds, HasClaim, Shield, Calm, TypeOK
<1>4. QED
  BY <1>3, LeavesIsSteady

\* A process that is gone leaves its job too.
LEMMA GoneIsSteady ==
    ASSUME TypeOK, ClaimInv, Shield, NEW w \in Workers, Gone(w)
    PROVE  Steady
<1>1. Leaves(w)
  BY DEF Gone, Leaves, Holds, HasClaim, Shield, Calm, TypeOK
<1>2. QED
  BY <1>1, LeavesIsSteady

\* The end of a sweep, which waits for nothing by then.
LEMMA SweepEndIsSteady ==
    ASSUME TypeOK, Shield, NEW w \in Workers, SweepEnd(w)
    PROVE  Steady
<1> USE DEF Shield
<1>1. ~Holds(w) /\ ~Holds(w)' /\ \A v \in Workers \ {w} : pc'[v] = pc[v] /\ (Holds(v)' <=> Holds(v))
  BY DEF SweepEnd, Holds, HasClaim, TypeOK
<1>2. wait[Main(w)].row = NoJob
  BY <1>1 DEF SweepEnd, WaitersKnown
<1>3. UNCHANGED <<job, wait, claim, beat, stale, stalled>>
  BY DEF SweepEnd
<1>4. ASSUME NEW v \in Workers PROVE HoldsOn(v)
  BY <1>1, <1>3 DEF HoldsOn, Calm, WaitersKnown
<1>5. ASSUME NEW v \in Workers PROVE WaitsOn(v)
  BY <1>1, <1>2, <1>3 DEF WaitsOn, WaitersKnown
<1>6. QED
  BY <1>3, <1>4, <1>5 DEF Steady, Calm

-----------------------------------------------------------------------------
(***************************************************************************)
(* Steps that begin a sweep or a wait, take a job, or beat for one.        *)
(***************************************************************************)
\* The beginning of a sweep moves nobody who waits.
LEMMA SweepBeginWaits ==
    ASSUME TypeOK, NEW w \in Workers, SweepBegin(w), NEW p \in Process
    PROVE  /\ wait'[p].row = wait[p].row /\ wait'[p].ahead = wait[p].ahead
           /\ wait'[p].late = wait[p].late
           /\ wait[p].late \/ wait'[p].passed = wait[p].passed
<1>1. wait[p] \in Wait
  BY DEF TypeOK
<1>2. wait'[p] = [wait[p] EXCEPT !.passed = IF wait[p].late THEN @ \cup {w} ELSE @]
  BY DEF SweepBegin
<1>3. QED
  BY <1>1, <1>2 DEF Wait

\* A sweep begins with the rows that are silent: the heartbeats of those that
\* are claimed wait for them already.
LEMMA SweepBeginKeeps ==
    ASSUME TypeOK, ClaimInv, Shield, NEW w \in Workers, SweepBegin(w)
    PROVE  Shield'
<1> USE DEF Shield
<1>1. ~Holds(w) /\ ~Holds(w)' /\ \A v \in Workers \ {w} : pc'[v] = pc[v] /\ (Holds(v)' <=> Holds(v))
  BY DEF SweepBegin, Holds, HasClaim, TypeOK
<1>2. wait[Main(w)].row = NoJob
  BY <1>1 DEF SweepBegin, WaitersKnown
<1>3. /\ UNCHANGED <<job, claim, beat, stalled>>
      /\ \A v \in Workers \ {w} : stale'[v] = stale[v]
      /\ \A j \in stale'[w] : job[j].silent
      /\ \A v \in Workers :
            /\ wait'[Main(v)].row = wait[Main(v)].row /\ wait'[Main(v)].ahead = wait[Main(v)].ahead
            /\ wait'[Beat(v)].row = wait[Beat(v)].row
  <2>1. UNCHANGED <<job, claim, beat, stalled>> /\ \A v \in Workers \ {w} : stale'[v] = stale[v]
    BY DEF SweepBegin, TypeOK
  <2>2. \A j \in stale'[w] : job[j].silent
    BY DEF SweepBegin, TypeOK
  <2>3. \A p \in Process : wait'[p].row = wait[p].row /\ wait'[p].ahead = wait[p].ahead
    BY SweepBeginWaits
  <2>4. QED
    BY <2>1, <2>2, <2>3, ProcessType
<1>4. \A v \in Workers : Holds(v)' <=> Holds(v)
  BY <1>1
<1>5. ASSUME NEW v \in Workers PROVE Holds(v) => claim[v].job \in Jobs /\ claim[v].job # NoJob
  BY DEF ClaimInv, ClaimOK, Jobs, NoJob
<1>6. Calm'
  BY <1>3, <1>4 DEF Calm
<1>7. WaitersKnown'
  BY <1>1, <1>2, <1>3, <1>4 DEF WaitersKnown
<1>8. SilentWaits'
  <2> SUFFICES ASSUME NEW v \in Workers, Holds(v),
                      job[claim[v].job].silent \/ \E u \in Workers : claim[v].job \in stale'[u]
               PROVE  wait[Beat(v)].row = claim[v].job
    BY <1>3, <1>4 DEF SilentWaits
  <2>1. job[claim[v].job].silent \/ \E u \in Workers : claim[v].job \in stale[u]
    BY <1>3
  <2>2. QED
    BY <2>1 DEF SilentWaits
<1>9. BeatFirst'
  BY <1>1, <1>2, <1>3, <1>4, <1>5 DEF BeatFirst
<1>10. ClaimIsExclusive'
  BY <1>3, <1>4 DEF ClaimIsExclusive, Holds
<1>11. QED
  BY <1>6, <1>7, <1>8, <1>9, <1>10

\* A task queues for the row of its worker's job, or a sweep for a row it has
\* yet to visit: if that row is claimed, its heartbeat is among those ahead.
LEMMA QueueKeeps ==
    ASSUME TypeOK, ClaimInv, Shield, NEW w \in Workers, NEW j \in Jobs,
           \/ BeatWait(w) /\ j = claim[w].job
           \/ JobWait(w) /\ j = claim[w].job
           \/ SweepWait(w, j)
    PROVE  Shield'
<1> USE DEF Shield
<1> DEFINE p == IF BeatWait(w) /\ j = claim[w].job THEN Beat(w) ELSE Main(w)
<1>1. Queue(p, j) /\ p \in Process
  BY ProcessType DEF BeatWait, JobWait, SweepWait
<1>2. /\ wait[p].row = NoJob
      /\ wait'[p].row = j /\ wait'[p].ahead = Waiting(j)
      /\ \A q \in Process \ {p} : wait'[q] = wait[q]
      /\ UNCHANGED <<job, pc, claim, beat, stale, stalled>>
  BY <1>1, Queues
<1>3. \A v \in Workers : Holds(v)' <=> Holds(v)
  BY <1>2 DEF Holds
<1>4. ASSUME NEW v \in Workers PROVE Holds(v) => claim[v].job \in Jobs /\ claim[v].job # NoJob
  BY DEF ClaimInv, ClaimOK, Jobs, NoJob
<1>5. j # NoJob
  BY DEF Jobs, NoJob
<1>6. Calm'
  BY <1>2, <1>3 DEF Calm
<1>7. ClaimIsExclusive'
  BY <1>2, <1>3 DEF ClaimIsExclusive, Holds
<1>8. \/ p = Beat(w) /\ Holds(w) /\ j = claim[w].job
      \/ p = Main(w) /\ Holds(w) /\ j = claim[w].job
      \/ p = Main(w) /\ pc[w] = "sweeping" /\ j \in stale[w]
  BY DEF BeatWait, JobWait, SweepWait, Holds, HasClaim, Calm
<1>9. \A v \in Workers :
          /\ wait'[Beat(v)] = wait[Beat(v)] \/ Beat(v) = p
          /\ wait'[Main(v)] = wait[Main(v)] \/ Main(v) = p
  BY <1>2, ProcessType
<1>10. \A v \in Workers : (Beat(v) = p => v = w) /\ (Main(v) = p => v = w)
  BY <1>8, Tasks
<1>11. WaitersKnown'
  <2> SUFFICES ASSUME NEW v \in Workers
               PROVE  /\ wait'[Beat(v)].row # NoJob
                            => Holds(v) /\ wait'[Beat(v)].row = claim[v].job
                      /\ wait'[Main(v)].row # NoJob =>
                            \/ Holds(v) /\ wait'[Main(v)].row = claim[v].job
                            \/ pc[v] = "sweeping" /\ wait'[Main(v)].row \in stale[v]
    BY <1>2, <1>3 DEF WaitersKnown
  <2>1. wait'[Beat(v)].row # NoJob => Holds(v) /\ wait'[Beat(v)].row = claim[v].job
    BY <1>2, <1>8, <1>9, <1>10, Tasks DEF WaitersKnown
  <2>2. wait'[Main(v)].row # NoJob =>
            \/ Holds(v) /\ wait'[Main(v)].row = claim[v].job
            \/ pc[v] = "sweeping" /\ wait'[Main(v)].row \in stale[v]
    BY <1>2, <1>8, <1>9, <1>10, Tasks DEF WaitersKnown
  <2>3. QED
    BY <2>1, <2>2
<1>12. SilentWaits'
  <2> SUFFICES ASSUME NEW v \in Workers, Holds(v),
                      job[claim[v].job].silent \/ \E u \in Workers : claim[v].job \in stale[u]
               PROVE  wait'[Beat(v)].row = claim[v].job
    BY <1>2, <1>3 DEF SilentWaits
  <2>1. wait[Beat(v)].row = claim[v].job /\ claim[v].job # NoJob
    BY <1>4 DEF SilentWaits
  <2>2. QED
    BY <1>2, <1>9, <2>1
<1>13. BeatFirst'
  <2> SUFFICES ASSUME NEW u \in Workers, NEW v \in Workers, Holds(v), pc[u] = "sweeping",
                      wait'[Main(u)].row = claim[v].job
               PROVE  Beat(v) \in wait'[Main(u)].ahead
    BY <1>2, <1>3 DEF BeatFirst
  <2>1. CASE Main(u) # p
    BY <1>9, <2>1 DEF BeatFirst
  <2>2. CASE Main(u) = p
    <3>1. u = w /\ p = Main(w) /\ ~Holds(w)
      BY <1>10, <2>2 DEF Holds, HasClaim
    <3>2. j \in stale[w] /\ claim[v].job = j
      BY <1>2, <1>8, <2>2, <3>1, Tasks
    <3>3. wait[Beat(v)].row = j
      BY <3>2 DEF SilentWaits
    <3>4. Beat(v) \in Waiting(j)
      BY <3>3, ProcessType DEF Waiting
    <3>5. QED
      BY <1>2, <2>2, <3>4
  <2>3. QED
    BY <2>1, <2>2
<1>14. QED
  BY <1>6, <1>7, <1>11, <1>12, <1>13

\* A heartbeat that is past no sweep's cutoff takes the row out of every sweep
\* and sends away the sweeps that wait for it.
LEMMA Refreshes ==
    ASSUME TypeOK, NEW p \in Process, NEW j \in Jobs, Refresh(p, j, {})
    PROVE  /\ \A v \in Workers : stale'[v] = stale[v] \ {j}
           /\ wait'[p].row = NoJob
           /\ \A v \in Workers :
                 /\ Beat(v) # p => wait'[Beat(v)].row = wait[Beat(v)].row
                 /\ pc[v] = "sweeping" => wait'[Main(v)].row # j
                 /\ wait'[Main(v)].row # NoJob =>
                       /\ wait'[Main(v)].row = wait[Main(v)].row
                       /\ \A u \in Workers : Beat(u) # p /\ Beat(u) \in wait[Main(v)].ahead
                             => Beat(u) \in wait'[Main(v)].ahead
<1> DEFINE P == {p} \cup Sweepers(j, Workers \ {})
<1>1. \A v \in Workers : stale'[v] = stale[v] \ {j}
  BY DEF Refresh, TypeOK
<1>2. \A q \in Process :
          /\ q \in P => wait'[q].row = NoJob
          /\ q \notin P => wait'[q].row = wait[q].row /\ wait'[q].ahead = wait[q].ahead \ P
  BY Departs DEF Refresh
<1>3. \A v \in Workers : Beat(v) # p => Beat(v) \notin P
  BY Tasks DEF Sweepers
<1>4. ASSUME NEW v \in Workers
      PROVE  /\ Beat(v) # p => wait'[Beat(v)].row = wait[Beat(v)].row
             /\ pc[v] = "sweeping" => wait'[Main(v)].row # j
             /\ wait'[Main(v)].row # NoJob =>
                   /\ wait'[Main(v)].row = wait[Main(v)].row
                   /\ \A u \in Workers : Beat(u) # p /\ Beat(u) \in wait[Main(v)].ahead
                         => Beat(u) \in wait'[Main(v)].ahead
  <2>1. Beat(v) # p => wait'[Beat(v)].row = wait[Beat(v)].row
    BY <1>2, <1>3, ProcessType
  <2>2. ASSUME pc[v] = "sweeping" PROVE wait'[Main(v)].row # j
    <3>1. CASE wait[Main(v)].row = j
      <4>1. Main(v) \in P
        BY <2>2, <3>1, ProcessType DEF Sweepers
      <4>2. QED
        BY <1>2, <4>1, ProcessType DEF Jobs, NoJob
    <3>2. CASE wait[Main(v)].row # j
      BY <1>2, <3>2, ProcessType DEF Jobs, NoJob
    <3>3. QED
      BY <3>1, <3>2
  <2>3. ASSUME wait'[Main(v)].row # NoJob
        PROVE  /\ wait'[Main(v)].row = wait[Main(v)].row
               /\ \A u \in Workers : Beat(u) # p /\ Beat(u) \in wait[Main(v)].ahead
                     => Beat(u) \in wait'[Main(v)].ahead
    BY <1>2, <1>3, <2>3, ProcessType
  <2>4. QED
    BY <2>1, <2>2, <2>3
<1>5. QED
  BY <1>1, <1>2, <1>4

\* A heartbeat that gets its row is not late: a late one waits for the lock of
\* its worker's collection, or behind the task that is about to take it.
LEMMA BeatsOnTime ==
    ASSUME TypeOK, ClaimInv, LockInv, Shield, Timely, NEW w \in Workers, BeatJob(w)
    PROVE  wait[Beat(w)].late = FALSE /\ wait[Beat(w)].passed = {}
<1>1. wait[Beat(w)].late \in BOOLEAN
  BY ProcessType DEF TypeOK, Wait
<1>2. ASSUME wait[Beat(w)].late PROVE FALSE
  <2>1. wait[Beat(w)].row # NoJob /\ (pc[w] = "running" \/ Main(w) \in wait[Beat(w)].ahead)
    BY <1>2 DEF Timely
  <2>2. lock[claim[w].job] = NoWorker /\ wait[Beat(w)].ahead = {}
    BY <2>1 DEF BeatJob, Granted
  <2>3. QED
    BY <2>1, <2>2, NoWorkerAssumption DEF LockInv
<1>3. QED
  BY <1>1, <1>2 DEF Timely

\* A heartbeat that gets its row writes it and lets the sweeps go by.
LEMMA BeatKeeps ==
    ASSUME TypeOK, ClaimInv, LockInv, Shield, Timely, NEW w \in Workers, BeatJob(w)
    PROVE  Shield'
<1> USE DEF Shield
<1> DEFINE j == claim[w].job
<1>1. Holds(w) /\ j \in Jobs /\ j # NoJob
  BY DEF BeatJob, Calm, ClaimInv, ClaimOK, Jobs, NoJob
<1>2. job[j].status = "running" /\ job[j].attempts = claim[w].attempts
  BY <1>1 DEF ClaimIsExclusive, Holds
<1>3. Refresh(Beat(w), j, {}) /\ UNCHANGED <<pc, claim, beat, stalled>>
  BY <1>2, BeatsOnTime DEF BeatJob
<1>4. /\ \A v \in Workers : stale'[v] = stale[v] \ {j}
      /\ wait'[Beat(w)].row = NoJob
      /\ \A v \in Workers :
            /\ Beat(v) # Beat(w) => wait'[Beat(v)].row = wait[Beat(v)].row
            /\ pc[v] = "sweeping" => wait'[Main(v)].row # j
            /\ wait'[Main(v)].row # NoJob =>
                  /\ wait'[Main(v)].row = wait[Main(v)].row
                  /\ \A u \in Workers : Beat(u) # Beat(w) /\ Beat(u) \in wait[Main(v)].ahead
                        => Beat(u) \in wait'[Main(v)].ahead
  BY <1>1, <1>3, Refreshes, ProcessType
<1>5. /\ job'[j].status = "running" /\ job'[j].attempts = job[j].attempts
      /\ job'[j].silent = FALSE
      /\ \A k \in Jobs : k # j => job'[k] = job[k]
  <2>1. job' = [job EXCEPT ![j] = HeartbeatRow(@, FALSE)]
    BY BeatsOnTime DEF BeatJob
  <2>2. QED
    BY <1>1, <1>2, <2>1 DEF HeartbeatRow, TypeOK, Row
<1>6. \A v \in Workers : Holds(v)' <=> Holds(v)
  BY <1>3 DEF Holds
<1>7. ASSUME NEW v \in Workers, Holds(v), v # w
      PROVE  claim[v].job \in Jobs /\ claim[v].job # NoJob /\ claim[v].job # j
  BY <1>7, <1>1 DEF ClaimInv, ClaimOK, ClaimIsExclusive, Holds, Jobs, NoJob
<1>8. Calm'
  BY <1>3, <1>6 DEF Calm
<1>9. WaitersKnown'
  <2> SUFFICES ASSUME NEW v \in Workers
               PROVE  /\ wait'[Beat(v)].row # NoJob
                            => Holds(v) /\ wait'[Beat(v)].row = claim[v].job
                      /\ wait'[Main(v)].row # NoJob =>
                            \/ Holds(v) /\ wait'[Main(v)].row = claim[v].job
                            \/ pc[v] = "sweeping" /\ wait'[Main(v)].row \in stale'[v]
    BY <1>3, <1>6 DEF WaitersKnown
  <2>1. wait'[Beat(v)].row # NoJob => Holds(v) /\ wait'[Beat(v)].row = claim[v].job
    BY <1>4, Tasks DEF WaitersKnown
  <2>2. ASSUME wait'[Main(v)].row # NoJob
        PROVE  \/ Holds(v) /\ wait'[Main(v)].row = claim[v].job
               \/ pc[v] = "sweeping" /\ wait'[Main(v)].row \in stale'[v]
    BY <1>4, <2>2 DEF WaitersKnown
  <2>3. QED
    BY <2>1, <2>2
<1>10. SilentWaits'
  <2> SUFFICES ASSUME NEW v \in Workers, Holds(v),
                      job'[claim[v].job].silent \/ \E u \in Workers : claim[v].job \in stale'[u]
               PROVE  wait'[Beat(v)].row = claim[v].job
    BY <1>3, <1>6 DEF SilentWaits
  <2>1. v # w
    BY <1>4, <1>5
  <2>2. job[claim[v].job].silent \/ \E u \in Workers : claim[v].job \in stale[u]
    BY <1>4, <1>5, <1>7, <2>1
  <2>3. QED
    BY <1>4, <2>1, <2>2, Tasks DEF SilentWaits
<1>11. BeatFirst'
  <2> SUFFICES ASSUME NEW u \in Workers, NEW v \in Workers, Holds(v), pc[u] = "sweeping",
                      wait'[Main(u)].row = claim[v].job
               PROVE  Beat(v) \in wait'[Main(u)].ahead
    BY <1>3, <1>6 DEF BeatFirst
  <2>1. v # w /\ Beat(v) # Beat(w) /\ wait'[Main(u)].row # NoJob
    BY <1>4, <1>7, <1>1, Tasks
  <2>2. wait[Main(u)].row = claim[v].job
    BY <1>4, <2>1
  <2>3. QED
    BY <1>4, <2>1, <2>2 DEF BeatFirst
<1>12. ClaimIsExclusive'
  <2> SUFFICES ASSUME NEW v \in Workers, Holds(v)
               PROVE  /\ job'[claim[v].job].status = "running"
                      /\ job'[claim[v].job].attempts = claim[v].attempts
    BY <1>3, <1>6 DEF ClaimIsExclusive, Holds
  <2>1. CASE v = w
    BY <1>2, <1>5, <2>1
  <2>2. CASE v # w
    BY <1>5, <1>7, <2>2 DEF ClaimIsExclusive, Holds
  <2>3. QED
    BY <2>1, <2>2
<1>13. QED
  BY <1>8, <1>9, <1>10, <1>11, <1>12

\* A claim takes a row that nobody holds, and takes it out of every sweep.
LEMMA ClaimKeeps ==
    ASSUME TypeOK, ClaimInv, Shield, NEW w \in Workers, Claim(w)
    PROVE  Shield'
<1> USE DEF Shield
<1> PICK j \in Claimable :
        /\ Awake(w) /\ pc[w] = "idle"
        /\ job' = [job EXCEPT ![j] = ClaimRow(@)]
        /\ Refresh(Main(w), j, {})
        /\ pc' = [pc EXCEPT ![w] = "claimed"]
        /\ claim' = [claim EXCEPT ![w] = [job |-> j, attempts |-> job'[j].attempts]]
        /\ beat' = [beat EXCEPT ![w] = "on"]
        /\ UNCHANGED stalled
  BY DEF Claim
<1>1. j \in Jobs /\ j # NoJob /\ job[j].status = "pending"
  BY DEF Claimable, IsClaimable, Jobs, NoJob
<1>2. ~Holds(w) /\ Holds(w)' /\ \A v \in Workers \ {w} : pc'[v] = pc[v] /\ (Holds(v)' <=> Holds(v))
  BY DEF Holds, HasClaim, TypeOK
<1>3. /\ claim'[w].job = j /\ claim'[w].attempts = job'[j].attempts
      /\ beat'[w] = "on"
      /\ \A v \in Workers \ {w} : claim'[v] = claim[v] /\ beat'[v] = beat[v]
  BY DEF TypeOK
<1>4. /\ job'[j].status = "running" /\ job'[j].silent = FALSE
      /\ \A k \in Jobs : k # j => job'[k] = job[k]
  BY <1>1 DEF ClaimRow, TypeOK, Row
<1>5. /\ \A v \in Workers : stale'[v] = stale[v] \ {j}
      /\ wait'[Main(w)].row = NoJob
      /\ \A v \in Workers :
            /\ Beat(v) # Main(w) => wait'[Beat(v)].row = wait[Beat(v)].row
            /\ pc[v] = "sweeping" => wait'[Main(v)].row # j
            /\ wait'[Main(v)].row # NoJob =>
                  /\ wait'[Main(v)].row = wait[Main(v)].row
                  /\ \A u \in Workers : Beat(u) # Main(w) /\ Beat(u) \in wait[Main(v)].ahead
                        => Beat(u) \in wait'[Main(v)].ahead
  BY <1>1, Refreshes, ProcessType
<1>6. \A v \in Workers : Beat(v) # Main(w) /\ wait'[Beat(v)].row = wait[Beat(v)].row
  BY <1>5, Tasks
<1>7. ASSUME NEW v \in Workers, Holds(v)
      PROVE  v # w /\ claim[v].job \in Jobs /\ claim[v].job # NoJob /\ claim[v].job # j
  BY <1>7, <1>1, <1>2 DEF ClaimInv, ClaimOK, ClaimIsExclusive, Holds, Jobs, NoJob
<1>8. Calm'
  BY <1>2, <1>3 DEF Calm
<1>9. WaitersKnown'
  <2> SUFFICES ASSUME NEW v \in Workers
               PROVE  /\ wait'[Beat(v)].row # NoJob
                            => Holds(v)' /\ wait'[Beat(v)].row = claim'[v].job
                      /\ wait'[Main(v)].row # NoJob =>
                            \/ Holds(v)' /\ wait'[Main(v)].row = claim'[v].job
                            \/ pc'[v] = "sweeping" /\ wait'[Main(v)].row \in stale'[v]
    BY DEF WaitersKnown
  <2>1. wait'[Beat(v)].row # NoJob => Holds(v)' /\ wait'[Beat(v)].row = claim'[v].job
    BY <1>2, <1>3, <1>6, <1>7 DEF WaitersKnown
  <2>2. ASSUME wait'[Main(v)].row # NoJob
        PROVE  \/ Holds(v)' /\ wait'[Main(v)].row = claim'[v].job
               \/ pc'[v] = "sweeping" /\ wait'[Main(v)].row \in stale'[v]
    <3>1. v # w /\ wait'[Main(v)].row = wait[Main(v)].row
      BY <1>5, <2>2
    <3>2. CASE Holds(v)
      BY <1>2, <1>3, <2>2, <3>1, <3>2 DEF WaitersKnown, Holds, HasClaim
    <3>3. CASE ~Holds(v)
      BY <1>2, <1>5, <2>2, <3>1, <3>3 DEF WaitersKnown
    <3>4. QED
      BY <3>2, <3>3
  <2>3. QED
    BY <2>1, <2>2
<1>10. SilentWaits'
  <2> SUFFICES ASSUME NEW v \in Workers, Holds(v)',
                      job'[claim'[v].job].silent \/ \E u \in Workers : claim'[v].job \in stale'[u]
               PROVE  wait'[Beat(v)].row = claim'[v].job
    BY DEF SilentWaits
  <2>1. v # w
    BY <1>3, <1>4, <1>5
  <2>2. Holds(v) /\ claim'[v] = claim[v]
    BY <1>2, <1>3, <2>1
  <2>3. job[claim[v].job].silent \/ \E u \in Workers : claim[v].job \in stale[u]
    BY <1>4, <1>5, <1>7, <2>2
  <2>4. QED
    BY <1>6, <2>2, <2>3 DEF SilentWaits
<1>11. BeatFirst'
  <2> SUFFICES ASSUME NEW u \in Workers, NEW v \in Workers, Holds(v)', pc'[u] = "sweeping",
                      wait'[Main(u)].row = claim'[v].job
               PROVE  Beat(v) \in wait'[Main(u)].ahead
    BY DEF BeatFirst
  <2>1. u # w /\ pc[u] = "sweeping"
    BY <1>2 DEF Holds, HasClaim
  <2>2. v # w
    BY <1>3, <1>5, <2>1
  <2>3. Holds(v) /\ claim'[v] = claim[v] /\ wait'[Main(u)].row # NoJob
    BY <1>2, <1>3, <1>7, <2>2
  <2>4. wait[Main(u)].row = claim[v].job
    BY <1>5, <2>3
  <2>5. QED
    BY <1>5, <1>6, <2>1, <2>3, <2>4 DEF BeatFirst
<1>12. ClaimIsExclusive'
  <2> SUFFICES ASSUME NEW v \in Workers, Holds(v)'
               PROVE  /\ job'[claim'[v].job].status = "running"
                      /\ job'[claim'[v].job].attempts = claim'[v].attempts
                      /\ \A u \in Workers \ {v} : claim'[u].job # claim'[v].job
    BY DEF ClaimIsExclusive, Holds
  <2>1. CASE v = w
    <3>1. \A u \in Workers \ {w} : claim'[u].job # j
      BY <1>1, <1>3, <1>7 DEF Calm, NoClaim
    <3>2. QED
      BY <1>3, <1>4, <2>1, <3>1
  <2>2. CASE v # w
    BY <1>2, <1>3, <1>4, <1>7, <2>2 DEF ClaimIsExclusive, Holds
  <2>3. QED
    BY <2>1, <2>2
<1>13. QED
  BY <1>8, <1>9, <1>10, <1>11, <1>12

-----------------------------------------------------------------------------
(***************************************************************************)
(* Exclusive claims.                                                       *)
(***************************************************************************)
\* Statements that concern no claimed row, and changes of state within or
\* without a claim.
LEMMA UnclaimedIsSteady ==
    ASSUME TypeOK, ClaimInv, Shield,
           UNCHANGED <<wait, claim, beat, stale, stalled, pc>>,
           \A w \in Workers : Holds(w) =>
               LET j == claim[w].job IN
               /\ job'[j].status = job[j].status /\ job'[j].attempts = job[j].attempts
               /\ job'[j].silent => job[j].silent \/ wait[Beat(w)].row = j
    PROVE  Steady
<1>1. Still
  BY DEF Still, Holds
<1>2. QED
  BY <1>1, StillIsSteady

\* A new job is nobody's.
LEMMA InsertIsSteady ==
    ASSUME TypeOK, ClaimInv, Shield, NEW s, NEW via, Insert(s, via),
           UNCHANGED <<wait, claim, beat, stale, stalled, pc>>
    PROVE  Steady
<1> PICK j \in Jobs : job[j] = AbsentRow /\ job' = [job EXCEPT ![j] = CreateRow(s, via)]
  BY DEF Insert, NextId
<1>1. ASSUME NEW w \in Workers, Holds(w) PROVE job'[claim[w].job] = job[claim[w].job]
  <2>1. claim[w].job # j
    BY <1>1 DEF Shield, ClaimIsExclusive, Holds, AbsentRow
  <2>2. QED
    BY <1>1, <2>1 DEF TypeOK, ClaimInv, ClaimOK
<1>2. QED
  BY <1>1, UnclaimedIsSteady

\* The clocks of a row.
LEMMA TimersAreSteady ==
    ASSUME TypeOK, ClaimInv, Shield, NEW j \in Jobs, BackoffExpires(j) \/ GoSilent(j)
    PROVE  Steady
<1> SUFFICES ASSUME NEW w \in Workers, Holds(w)
             PROVE  LET k == claim[w].job IN
                    /\ job'[k].status = job[k].status /\ job'[k].attempts = job[k].attempts
                    /\ job'[k].silent => job[k].silent \/ wait[Beat(w)].row = k
  BY UnclaimedIsSteady DEF BackoffExpires, GoSilent
<1>1. claim[w].job \in Jobs
  BY DEF ClaimInv, ClaimOK
<1>2. CASE BackoffExpires(j)
  BY <1>1, <1>2 DEF BackoffExpires, DueRow, TypeOK, Row
<1>3. CASE GoSilent(j) /\ claim[w].job # j
  BY <1>1, <1>3 DEF GoSilent, TypeOK
<1>4. CASE GoSilent(j) /\ claim[w].job = j
  <2>1. wait[Beat(w)].row = j
    BY <1>4 DEF GoSilent, Awake, Shield, Calm
  <2>2. QED
    BY <1>1, <1>4, <2>1 DEF GoSilent, SilentRow, TypeOK, Row
<1>5. QED
  BY <1>2, <1>3, <1>4

\* Every step keeps the shield.
LEMMA ShieldStep ==
    ASSUME Benign, TypeOK, ClaimInv, LockInv, Shield, Timely, [Next]_vars
    PROVE  Shield'
<1>1. CASE UNCHANGED vars
  BY <1>1, UnclaimedIsSteady, SteadyStep DEF vars
<1>2. ASSUME NEW s \in Sources, Enqueue(s) PROVE Shield'
  BY <1>2, InsertIsSteady, SteadyStep DEF Enqueue
<1>3. ASSUME NEW w \in Workers, Scheduler(w) PROVE Shield'
  <2>1. CASE (\E s \in Sources : TickLock(w, s)) \/ TickCheck(w)
    <3>1. UNCHANGED <<job, wait, claim, beat, stale, stalled, pc>>
      BY <2>1 DEF TickLock, TickCheck
    <3>2. QED
      BY <3>1, UnclaimedIsSteady, SteadyStep
  <2>2. CASE TickInsert(w)
    BY <2>2, InsertIsSteady, SteadyStep DEF TickInsert
  <2>3. QED
    BY <1>3, <2>1, <2>2 DEF Scheduler
<1>4. ASSUME NEW w \in Workers, MainTask(w) PROVE Shield'
  <2>1. CASE SweepBegin(w)
    BY <2>1, SweepBeginKeeps
  <2>2. CASE SweepEnd(w)
    BY <2>2, SweepEndIsSteady, SteadyStep
  <2>3. ASSUME NEW j \in Jobs, SweepJob(w, j) PROVE Shield'
    BY <2>3, SweepIsSteady, SteadyStep
  <2>4. ASSUME NEW j \in Jobs, SweepWait(w, j) PROVE Shield'
    BY <2>4, QueueKeeps
  <2>5. CASE Claim(w)
    BY <2>5, ClaimKeeps
  <2>6. CASE MarkRunning(w)
    <3>1. Proceeds(w)
      BY <2>6 DEF MarkRunning, Proceeds, Holds, HasClaim, TypeOK
    <3>2. QED
      BY <3>1, ProceedsIsSteady, SteadyStep
  <2>7. CASE Complete(w) \/ Fail(w)
    BY <2>7, LeaveIsSteady, SteadyStep
  <2>8. CASE RunError(w)
    <3>1. Still
      BY <2>8 DEF RunError, Rollback, Still, Holds, HasClaim, TypeOK
    <3>2. QED
      BY <3>1, StillIsSteady, SteadyStep
  <2>9. CASE JobWait(w)
    <3>1. claim[w].job \in Jobs
      BY <2>9 DEF JobWait, ClaimInv, ClaimOK, Holds, HasClaim
    <3>2. QED
      BY <2>9, <3>1, QueueKeeps
  <2>10. CASE Exit(w)
    BY <2>10, GoneIsSteady, SteadyStep DEF Exit
  <2>11. CASE Restart(w)
    <3>1. Still
      BY <2>11 DEF Restart, Still, Holds, HasClaim, TypeOK
    <3>2. QED
      BY <3>1, StillIsSteady, SteadyStep
  <2>12. QED
    BY <1>4, <2>1, <2>2, <2>3, <2>4, <2>5, <2>6, <2>7, <2>8, <2>9, <2>10, <2>11 DEF MainTask
<1>5. ASSUME NEW w \in Workers, Poll(w) PROVE Shield'
  BY <1>1, <1>5 DEF Poll
<1>6. ASSUME NEW w \in Workers, BeatTask(w) PROVE Shield'
  <2>1. CASE BeatWait(w)
    <3>1. claim[w].job \in Jobs
      BY <2>1 DEF BeatWait, ClaimInv, ClaimOK, Shield, Calm
    <3>2. QED
      BY <2>1, <3>1, QueueKeeps
  <2>2. CASE BeatJob(w)
    BY <2>2, BeatKeeps
  <2>3. QED
    BY <1>6, <2>1, <2>2 DEF BeatTask
<1>7. ASSUME NEW w \in Workers, Environment(w) PROVE Shield'
  <2>1. CASE Crash(w)
    BY <2>1, GoneIsSteady, SteadyStep DEF Crash
  <2>2. CASE Stop(w) \/ Drop(w)
    <3>1. Still
      BY <2>2 DEF Stop, Drop, Still, Holds, HasClaim, TypeOK
    <3>2. QED
      BY <3>1, StillIsSteady, SteadyStep
  <2>3. ~Stall(w) /\ ~Resume(w) /\ ~BeatError(w) /\ ~CompleteLost(w) /\ ~RunErrorLate(w)
    BY DEF Benign, Stall, Resume, BeatError, CompleteLost, RunErrorLate, Fault, Shield, Calm
  <2>4. QED
    BY <1>7, <2>1, <2>2, <2>3 DEF Environment
<1>8. ASSUME NEW j \in Jobs, BackoffExpires(j) \/ GoSilent(j) PROVE Shield'
  BY <1>8, TimersAreSteady, SteadyStep
<1>9. ASSUME NEW w \in Workers, BeatAges(w) PROVE Shield'
  <2>1. \A p \in Process : wait'[p].row = wait[p].row /\ wait'[p].ahead = wait[p].ahead
    BY <1>9 DEF BeatAges, TypeOK, Wait
  <2>2. Still
    BY <1>9, <2>1 DEF BeatAges, Still, Holds
  <2>3. QED
    BY <2>2, StillIsSteady, SteadyStep
<1>10. QED
  BY <1>1, <1>2, <1>3, <1>4, <1>5, <1>6, <1>7, <1>8, <1>9 DEF Next

\* At first nobody has a job.
LEMMA ShieldInit == Init => Shield
<1> SUFFICES ASSUME Init PROVE Shield
  OBVIOUS
<1>1. \A w \in Workers : ~Holds(w)
  BY DEF Init, Holds, HasClaim
<1>2. \A w \in Workers : wait[Main(w)].row = NoJob /\ wait[Beat(w)].row = NoJob
  BY ProcessType DEF Init, NotWaiting
<1>3. QED
  BY <1>1, <1>2 DEF Init, Shield, Calm, WaitersKnown, SilentWaits, BeatFirst, ClaimIsExclusive,
                    Holds

-----------------------------------------------------------------------------
(***************************************************************************)
(* Late heartbeats.                                                        *)
(***************************************************************************)
\* Every step keeps row locks to collections that run.
LEMMA LockedStep ==
    ASSUME TypeOK, TypeOK', ClaimInv, LockedRuns, [Next]_vars
    PROVE  LockedRuns'
<1> SUFFICES ASSUME NEW j \in Jobs, NEW v \in Workers, lock'[j] = v
             PROVE  pc'[v] = "running" /\ claim'[v].job = j
  BY DEF LockedRuns, TypeOK
<1> USE NoWorkerAssumption
<1>1. lock[j] = v => pc[v] = "running" /\ claim[v].job = j
  BY DEF LockedRuns
<1>2. CASE UNCHANGED <<lock, claim, pc>>
  BY <1>1, <1>2
<1>3. ASSUME NEW w \in Workers, lock' = Unlock(w),
             v # w => pc'[v] = pc[v] /\ claim'[v] = claim[v]
      PROVE  pc'[v] = "running" /\ claim'[v].job = j
  BY <1>1, <1>3 DEF Unlock
<1>4. ASSUME NEW w \in Workers, UNCHANGED lock, pc[w] # "running",
             v # w => pc'[v] = pc[v] /\ claim'[v] = claim[v]
      PROVE  pc'[v] = "running" /\ claim'[v].job = j
  BY <1>1, <1>4
<1>5. CASE UNCHANGED vars
  BY <1>2, <1>5 DEF vars
<1>6. ASSUME NEW s \in Sources, Enqueue(s) PROVE UNCHANGED <<lock, claim, pc>>
  BY <1>6 DEF Enqueue
<1>7. ASSUME NEW w \in Workers, Scheduler(w) PROVE UNCHANGED <<lock, claim, pc>>
  BY <1>7 DEF Scheduler, TickLock, TickCheck, TickInsert
<1>8. ASSUME NEW w \in Workers, MainTask(w) PROVE pc'[v] = "running" /\ claim'[v].job = j
  <2>1. CASE \E k \in Jobs : SweepJob(w, k) \/ SweepWait(w, k)
    BY <1>2, <2>1 DEF SweepJob, SweepWait, Queue
  <2>2. CASE SweepBegin(w) \/ SweepEnd(w) \/ Restart(w)
    BY <1>4, <2>2 DEF SweepBegin, SweepEnd, Restart, TypeOK
  <2>3. CASE Claim(w)
    <3>1. /\ UNCHANGED lock /\ pc[w] = "idle" /\ pc' = [pc EXCEPT ![w] = "claimed"]
          /\ \E k : claim' = [claim EXCEPT ![w] = [job |-> k, attempts |-> job'[k].attempts]]
      BY <2>3 DEF Claim
    <3>2. QED
      BY <1>4, <3>1 DEF TypeOK
  <2>4. CASE MarkRunning(w)
    <3>1. /\ pc[w] = "claimed" /\ pc' = [pc EXCEPT ![w] = "running"] /\ UNCHANGED claim
          /\ lock' = [lock EXCEPT ![claim[w].job] = w]
      BY <2>4 DEF MarkRunning
    <3>2. claim[w].job \in Jobs
      BY <3>1 DEF ClaimInv, ClaimOK, Holds, HasClaim
    <3>3. CASE j = claim[w].job
      BY <3>1, <3>2, <3>3 DEF TypeOK
    <3>4. CASE j # claim[w].job
      <4>1. lock[j] = v
        BY <3>1, <3>4 DEF TypeOK
      <4>2. v # w
        BY <1>1, <3>1, <4>1
      <4>3. QED
        BY <1>1, <3>1, <4>1, <4>2 DEF TypeOK
    <3>5. QED
      BY <3>3, <3>4
  <2>5. CASE Complete(w)
    BY <1>3, <2>5 DEF Complete, Commit, Leave, TypeOK
  <2>6. CASE RunError(w)
    BY <1>3, <2>6 DEF RunError, Rollback, TypeOK
  <2>7. CASE Fail(w)
    BY <1>4, <2>7 DEF Fail, Leave, TypeOK
  <2>8. CASE JobWait(w)
    BY <1>2, <2>8 DEF JobWait, Queue
  <2>9. CASE Exit(w)
    BY <1>3, <2>9 DEF Exit, Gone, TypeOK
  <2>10. QED
    BY <1>8, <2>1, <2>2, <2>3, <2>4, <2>5, <2>6, <2>7, <2>8, <2>9 DEF MainTask
<1>9. ASSUME NEW w \in Workers, BeatTask(w) \/ BeatAges(w) PROVE UNCHANGED <<lock, claim, pc>>
  BY <1>9 DEF BeatTask, BeatWait, Queue, BeatJob, BeatAges
<1>10. ASSUME NEW w \in Workers, Environment(w) PROVE pc'[v] = "running" /\ claim'[v].job = j
  <2>1. CASE Crash(w)
    BY <1>3, <2>1 DEF Crash, Gone, TypeOK
  <2>2. CASE Drop(w) \/ CompleteLost(w) \/ RunErrorLate(w)
    BY <1>3, <2>2 DEF Drop, CompleteLost, Commit, RunErrorLate, Rollback, TypeOK
  <2>3. CASE Stop(w)
    BY <1>4, <2>3 DEF Stop, TypeOK
  <2>4. CASE Stall(w) \/ Resume(w) \/ BeatError(w)
    BY <1>2, <2>4 DEF Stall, Resume, BeatError
  <2>5. QED
    BY <1>10, <2>1, <2>2, <2>3, <2>4 DEF Environment
<1>11. ASSUME NEW w \in Workers, Poll(w) PROVE UNCHANGED <<lock, claim, pc>>
  BY <1>11 DEF Poll, vars
<1>12. ASSUME NEW k \in Jobs, BackoffExpires(k) \/ GoSilent(k) PROVE UNCHANGED <<lock, claim, pc>>
  BY <1>12 DEF BackoffExpires, GoSilent
<1>13. QED
  BY <1>2, <1>5, <1>6, <1>7, <1>8, <1>9, <1>10, <1>11, <1>12 DEF Next

\* The heartbeat of w has left its wait, or waits on: no longer than it did,
\* no later than it was, and still for a collection that has the row.
BeatWaitsOn(w) ==
    LET b == wait[Beat(w)]
        c == wait'[Beat(w)]
    IN \/ c.row = NoJob /\ ~c.late /\ c.passed = {}
       \/ /\ c.row = b.row /\ c.ahead \subseteq b.ahead
          /\ c.late => b.late /\ (pc'[w] = "running" \/ Main(w) \in c.ahead)
          /\ c.passed # {} => c.late

\* Then no heartbeat is late where none was.
LEMMA WaitingOnIsTimely ==
    ASSUME Timely, \A w \in Workers : BeatWaitsOn(w)
    PROVE  Timely'
BY DEF Timely, BeatWaitsOn

\* Nobody moves, and collections go on.
LEMMA StayingIsTimely ==
    ASSUME Timely, UNCHANGED wait,
           \A w \in Workers : wait[Beat(w)].late /\ pc[w] = "running" => pc'[w] = "running"
    PROVE  Timely'
<1>1. ASSUME NEW w \in Workers PROVE BeatWaitsOn(w)
  BY DEF Timely, BeatWaitsOn
<1>2. QED
  BY <1>1, WaitingOnIsTimely

\* The processes in P get their rows, or are gone: a main task that has a late
\* heartbeat, and does not end it, begins its collection.
LEMMA DepartingIsTimely ==
    ASSUME TypeOK, Timely, NEW P, wait' = Depart(P),
           \A w \in Workers : wait[Beat(w)].late /\ Beat(w) \notin P =>
               /\ pc[w] = "running" => pc'[w] = "running"
               /\ Main(w) \in P => pc'[w] = "running"
    PROVE  Timely'
<1> SUFFICES ASSUME NEW w \in Workers PROVE BeatWaitsOn(w)
  BY WaitingOnIsTimely
<1>1. wait[Beat(w)] \in Wait
  BY ProcessType DEF TypeOK
<1>2. wait'[Beat(w)] = IF Beat(w) \in P THEN NotWaiting
                       ELSE [wait[Beat(w)] EXCEPT !.ahead = @ \ P]
  BY ProcessType DEF Depart
<1>3. CASE Beat(w) \in P
  BY <1>2, <1>3 DEF NotWaiting, BeatWaitsOn
<1>4. CASE Beat(w) \notin P
  <2>1. /\ wait'[Beat(w)].row = wait[Beat(w)].row
        /\ wait'[Beat(w)].ahead = wait[Beat(w)].ahead \ P
        /\ wait'[Beat(w)].late = wait[Beat(w)].late
        /\ wait'[Beat(w)].passed = wait[Beat(w)].passed
    BY <1>1, <1>2, <1>4 DEF Wait
  <2>2. QED
    BY <1>4, <2>1 DEF Timely, BeatWaitsOn
<1>5. QED
  BY <1>3, <1>4

\* Only the heartbeat of a worker with a job is late.
LEMMA LateHolds ==
    ASSUME Shield, Timely, NEW w \in Workers, wait[Beat(w)].late
    PROVE  Holds(w) /\ pc[w] \notin {"idle", "sweeping"}
BY DEF Shield, Timely, WaitersKnown, Holds, HasClaim

\* A heartbeat comes to wait when no sweep does: those that wait for the row of
\* a job that is claimed have its heartbeat ahead of them.
LEMMA BeatWaitIsTimely ==
    ASSUME TypeOK, ClaimInv, Shield, Timely, NEW w \in Workers, BeatWait(w)
    PROVE  Timely'
<1> DEFINE j == claim[w].job
<1>1. Holds(w) /\ j \in Jobs /\ j # NoJob
  BY DEF BeatWait, Shield, Calm, ClaimInv, ClaimOK, Jobs, NoJob
<1>2. /\ wait[Beat(w)].row = NoJob /\ UNCHANGED pc
      /\ wait'[Beat(w)] = [NotWaiting EXCEPT !.row = j, !.ahead = Waiting(j)]
      /\ \A q \in Process \ {Beat(w)} : wait'[q] = wait[q]
  BY ProcessType DEF BeatWait, Queue, TypeOK
<1>3. Waiting(j) \subseteq {Main(w)}
  <2> SUFFICES ASSUME NEW v \in Workers, Main(v) \in Waiting(j) \/ Beat(v) \in Waiting(j)
               PROVE  v = w /\ Beat(v) \notin Waiting(j)
    <3>1. \A q \in Process : \E v \in Workers : q = Main(v) \/ q = Beat(v)
      BY DEF Process, Main, Beat
    <3>2. QED
      BY <3>1 DEF Waiting
  <2>1. CASE Beat(v) \in Waiting(j)
    <3>1. Holds(v) /\ claim[v].job = j /\ v # w
      BY <1>1, <1>2, <2>1 DEF Waiting, Shield, WaitersKnown
    <3>2. QED
      BY <1>1, <3>1 DEF Shield, ClaimIsExclusive, Holds
  <2>2. CASE Main(v) \in Waiting(j)
    <3>1. \/ Holds(v) /\ claim[v].job = j
          \/ pc[v] = "sweeping" /\ j \in stale[v]
      BY <1>1, <2>2 DEF Waiting, Shield, WaitersKnown
    <3>2. j \notin stale[v]
      BY <1>1, <1>2 DEF Shield, SilentWaits
    <3>3. v = w
      BY <1>1, <3>1, <3>2 DEF Shield, ClaimIsExclusive, Holds
    <3>4. QED
      BY <1>1, <1>2, <3>3 DEF Waiting
  <2>3. QED
    BY <2>1, <2>2
<1>4. ASSUME NEW v \in Workers, v # w PROVE wait'[Beat(v)] = wait[Beat(v)]
  BY <1>2, <1>4, ProcessType, Tasks
<1>5. /\ wait'[Beat(w)].ahead = Waiting(j) /\ wait'[Beat(w)].late = FALSE
      /\ wait'[Beat(w)].passed = {}
  BY <1>2 DEF NotWaiting
<1>6. ASSUME NEW v \in Workers
      PROVE  /\ wait'[Beat(v)].row # NoJob => wait'[Beat(v)].ahead \subseteq {Main(v)}
             /\ wait'[Beat(v)].late =>
                   /\ wait'[Beat(v)].row # NoJob
                   /\ pc'[v] = "running" \/ Main(v) \in wait'[Beat(v)].ahead
             /\ wait'[Beat(v)].passed # {} => wait'[Beat(v)].late
  <2>1. CASE v = w
    BY <1>3, <1>5, <2>1
  <2>2. CASE v # w
    BY <1>2, <1>4, <2>2 DEF Timely
  <2>3. QED
    BY <2>1, <2>2
<1>7. QED
  BY <1>6 DEF Timely

\* A waiting heartbeat comes late only where a collection keeps it from its
\* row: its worker's, which is the only one to hold the job.
LEMMA AgingIsTimely ==
    ASSUME TypeOK, LockedRuns, Shield, Timely, NEW w \in Workers, BeatAges(w)
    PROVE  Timely'
<1> DEFINE j == wait[Beat(w)].row
<1>1. Holds(w) /\ j = claim[w].job /\ j \in Jobs /\ j # NoJob
  BY ProcessType DEF BeatAges, Shield, WaitersKnown, TypeOK, Wait
<1>2. pc[w] = "running" \/ Main(w) \in wait[Beat(w)].ahead
  <2>1. lock[j] # NoWorker \/ wait[Beat(w)].ahead # {}
    BY DEF BeatAges, Granted
  <2>2. CASE lock[j] # NoWorker
    <3>1. lock[j] \in Workers /\ pc[lock[j]] = "running" /\ claim[lock[j]].job = j
      BY <1>1, <2>2 DEF LockedRuns, TypeOK
    <3>2. QED
      BY <1>1, <3>1 DEF Shield, ClaimIsExclusive, Holds
  <2>3. CASE wait[Beat(w)].ahead # {}
    BY <1>1, <2>3 DEF Timely
  <2>4. QED
    BY <2>1, <2>2, <2>3
<1>3. /\ wait'[Beat(w)].row = j /\ wait'[Beat(w)].ahead = wait[Beat(w)].ahead
      /\ wait'[Beat(w)].late
      /\ \A v \in Workers \ {w} : wait'[Beat(v)] = wait[Beat(v)]
      /\ UNCHANGED pc
  BY ProcessType, Tasks DEF BeatAges, TypeOK, Wait
<1>4. QED
  BY <1>1, <1>2, <1>3 DEF Timely

\* Every step keeps heartbeats timely.
LEMMA TimelyStep ==
    ASSUME Benign, TypeOK, ClaimInv, LockInv, LockedRuns, Shield, Timely, [Next]_vars
    PROVE  Timely'
<1>1. CASE UNCHANGED vars
  BY <1>1, StayingIsTimely DEF vars
<1>2. ASSUME NEW s \in Sources, Enqueue(s) PROVE Timely'
  BY <1>2, StayingIsTimely DEF Enqueue
<1>3. ASSUME NEW w \in Workers, Scheduler(w) PROVE Timely'
  BY <1>3, StayingIsTimely DEF Scheduler, TickLock, TickCheck, TickInsert
<1>4. ASSUME NEW w \in Workers, MainTask(w) PROVE Timely'
  <2>1. CASE SweepBegin(w)
    <3>1. pc[w] = "idle" /\ \A v \in Workers \ {w} : pc'[v] = pc[v]
      BY <2>1 DEF SweepBegin, TypeOK
    <3>2. ASSUME NEW v \in Workers PROVE BeatWaitsOn(v)
      <4>1. /\ wait'[Beat(v)].row = wait[Beat(v)].row /\ wait'[Beat(v)].ahead = wait[Beat(v)].ahead
            /\ wait'[Beat(v)].late = wait[Beat(v)].late
            /\ wait[Beat(v)].late \/ wait'[Beat(v)].passed = wait[Beat(v)].passed
        BY <2>1, SweepBeginWaits, ProcessType
      <4>2. wait[Beat(v)].late => pc'[v] = pc[v]
        BY <3>1, LateHolds
      <4>3. QED
        BY <4>1, <4>2 DEF Timely, BeatWaitsOn
    <3>3. QED
      BY <3>2, WaitingOnIsTimely
  <2>2. CASE SweepEnd(w) \/ Restart(w)
    <3>1. UNCHANGED wait /\ pc[w] # "running" /\ \A v \in Workers \ {w} : pc'[v] = pc[v]
      BY <2>2 DEF SweepEnd, Restart, TypeOK
    <3>2. QED
      BY <3>1, StayingIsTimely
  <2>3. ASSUME NEW j \in Jobs, SweepJob(w, j) PROVE Timely'
    <3>1. wait' = Depart({Main(w)}) /\ UNCHANGED pc /\ pc[w] = "sweeping"
      BY <2>3 DEF SweepJob
    <3>2. QED
      BY <3>1, DepartingIsTimely, LateHolds, Tasks
  <2>4. CASE JobWait(w) \/ \E j \in Jobs : SweepWait(w, j)
    <3>1. UNCHANGED pc /\ \A q \in Process \ {Main(w)} : wait'[q] = wait[q]
      BY <2>4 DEF JobWait, SweepWait, Queue, TypeOK
    <3>2. \A v \in Workers : wait'[Beat(v)] = wait[Beat(v)]
      BY <3>1, ProcessType, Tasks
    <3>3. QED
      BY <3>1, <3>2 DEF Timely
  <2>5. CASE Claim(w)
    <3> DEFINE P == {Main(w)} \cup Sweepers(claim'[w].job, Workers \ {})
    <3>1. /\ pc[w] = "idle" /\ wait' = Depart(P)
          /\ \A v \in Workers \ {w} : pc'[v] = pc[v]
      BY <2>5 DEF Claim, Refresh, TypeOK
    <3>2. \A v \in Workers : Main(v) \in P => pc[v] \in {"idle", "sweeping"}
      BY <3>1, Tasks DEF Sweepers
    <3>3. \A v \in Workers : wait[Beat(v)].late => v # w /\ Main(v) \notin P
      BY <3>1, <3>2, LateHolds
    <3>4. QED
      BY <3>1, <3>3, DepartingIsTimely
  <2>6. CASE MarkRunning(w)
    <3>1. wait' = Depart({Main(w)}) /\ pc' = [pc EXCEPT ![w] = "running"]
      BY <2>6 DEF MarkRunning
    <3>2. \A v \in Workers : v # w => Main(v) \notin {Main(w)}
      BY Tasks
    <3>3. QED
      BY <3>1, <3>2, DepartingIsTimely DEF TypeOK
  <2>7. CASE Complete(w) \/ Fail(w) \/ Exit(w)
    <3>1. wait' = Depart({Main(w), Beat(w)}) /\ \A v \in Workers \ {w} : pc'[v] = pc[v]
      BY <2>7 DEF Complete, Fail, Leave, Exit, Gone, TypeOK
    <3>2. QED
      BY <3>1, DepartingIsTimely, Tasks
  <2>8. CASE RunError(w)
    <3>1. /\ UNCHANGED wait
          /\ pc[w] = "running" => ~wait[Beat(w)].late
          /\ \A v \in Workers \ {w} : pc'[v] = pc[v]
      BY <2>8 DEF RunError, Rollback, TypeOK
    <3>2. QED
      BY <3>1, StayingIsTimely
  <2>9. QED
    BY <1>4, <2>1, <2>2, <2>3, <2>4, <2>5, <2>6, <2>7, <2>8 DEF MainTask
<1>5. ASSUME NEW w \in Workers, Poll(w) PROVE Timely'
  BY <1>1, <1>5 DEF Poll
<1>6. ASSUME NEW w \in Workers, BeatTask(w) PROVE Timely'
  <2>1. CASE BeatWait(w)
    BY <2>1, BeatWaitIsTimely
  <2>2. CASE BeatJob(w)
    <3> DEFINE P == {Beat(w)} \cup Sweepers(claim[w].job, Workers \ {})
    <3>1. UNCHANGED pc /\ (wait' = Depart(P) \/ wait' = Depart({Beat(w)}))
      BY <2>2, BeatsOnTime DEF BeatJob, Refresh
    <3>2. \A v \in Workers : Main(v) \in P \cup {Beat(w)} => pc[v] = "sweeping"
      BY Tasks DEF Sweepers
    <3>3. \A v \in Workers : wait[Beat(v)].late => Main(v) \notin P \cup {Beat(w)}
      BY <3>2, LateHolds
    <3>4. CASE wait' = Depart(P)
      BY <3>1, <3>3, <3>4, DepartingIsTimely
    <3>5. CASE wait' = Depart({Beat(w)})
      BY <3>1, <3>3, <3>5, DepartingIsTimely
    <3>6. QED
      BY <3>1, <3>4, <3>5
  <2>3. QED
    BY <1>6, <2>1, <2>2 DEF BeatTask
<1>7. ASSUME NEW w \in Workers, BeatAges(w) PROVE Timely'
  BY <1>7, AgingIsTimely
<1>8. ASSUME NEW w \in Workers, Environment(w) PROVE Timely'
  <2>1. CASE Crash(w)
    <3>1. wait' = Depart({Main(w), Beat(w)}) /\ \A v \in Workers \ {w} : pc'[v] = pc[v]
      BY <2>1 DEF Crash, Gone, TypeOK
    <3>2. QED
      BY <3>1, DepartingIsTimely, Tasks
  <2>2. CASE Stop(w)
    <3>1. UNCHANGED wait /\ pc[w] # "running" /\ \A v \in Workers \ {w} : pc'[v] = pc[v]
      BY <2>2 DEF Stop, TypeOK
    <3>2. QED
      BY <3>1, StayingIsTimely
  <2>3. CASE Drop(w)
    <3>1. UNCHANGED wait /\ ~wait[Beat(w)].late /\ \A v \in Workers \ {w} : pc'[v] = pc[v]
      BY <2>3 DEF Drop, Benign, TypeOK
    <3>2. QED
      BY <3>1, StayingIsTimely
  <2>4. ~Stall(w) /\ ~Resume(w) /\ ~BeatError(w) /\ ~CompleteLost(w) /\ ~RunErrorLate(w)
    BY DEF Benign, Stall, Resume, BeatError, CompleteLost, RunErrorLate, Fault, Shield, Calm
  <2>5. QED
    BY <1>8, <2>1, <2>2, <2>3, <2>4 DEF Environment
<1>9. ASSUME NEW j \in Jobs, BackoffExpires(j) \/ GoSilent(j) PROVE Timely'
  BY <1>9, StayingIsTimely DEF BackoffExpires, GoSilent
<1>10. QED
  BY <1>1, <1>2, <1>3, <1>4, <1>5, <1>6, <1>7, <1>8, <1>9 DEF Next

-----------------------------------------------------------------------------
(***************************************************************************)
(* Exclusive claims and the lifecycle.                                     *)
(***************************************************************************)
\* Every step of every behaviour has these invariants.
LEMMA Shielded ==
    ASSUME Benign
    PROVE  Spec => [](TypeOK /\ ClaimInv /\ Shield)
<1>1. Init => ClaimInv /\ LockInv /\ LockedRuns
  BY DEF Init, ClaimInv, ClaimOK, DistinctAttempts, FailedIsExhausted, Holds, HasClaim,
         AbsentRow, LockInv, LockedRuns
<1>2. Init => Timely
  BY ProcessType DEF Init, Timely, NotWaiting
<1>3. TypeOK /\ TypeOK' /\ ClaimInv /\ LockInv /\ LockedRuns /\ Shield /\ Timely /\ [Next]_vars
          => ClaimInv' /\ LockInv' /\ LockedRuns' /\ Shield' /\ Timely'
  BY ClaimStep, LockStep, LockedStep, ShieldStep, TimelyStep
<1>4. QED
  BY <1>1, <1>2, <1>3, ShieldInit, TypeCorrect, PTL DEF Spec

\* As long as workers only crash, stop or lose their transaction, and no
\* collection whose heartbeat has waited past the cutoff is rolled back, a job
\* that a worker holds is running, on that worker's attempt and nobody else's:
\* no sweep takes it away while its heartbeat waits for the row lock of its own
\* collection, however long that collection takes.
THEOREM ClaimsAreExclusive ==
    ASSUME Benign
    PROVE  Spec => []ClaimIsExclusive
<1>1. Shield => ClaimIsExclusive
  BY DEF Shield
<1>2. QED
  BY <1>1, Shielded, PTL

-----------------------------------------------------------------------------
(***************************************************************************)
(* Refinement.                                                             *)
(***************************************************************************)
\* A step of the lifecycle, read off the rows.
Status(j) == job[j].status
Attempts(j) == job[j].attempts

\* The row of j moves along an arrow of the state diagram.
Moves(j) ==
    \/ /\ Status(j) = "absent" /\ Status(j)' = "pending"
       /\ Attempts(j)' = Attempts(j) /\ runs' = runs
    \/ /\ Status(j) = "pending" /\ Status(j)' = "running" /\ Attempts(j) < MaxAttempts
       /\ Attempts(j)' = Attempts(j) + 1 /\ runs' = runs
    \/ /\ Status(j) = "running" /\ Status(j)' = "completed"
       /\ Attempts(j)' = Attempts(j) /\ runs' = [runs EXCEPT ![j] = @ + 1]
    \/ /\ Status(j) = "running" /\ Status(j)' = "pending" /\ Attempts(j) < MaxAttempts
       /\ Attempts(j)' = Attempts(j) /\ runs' = runs
    \/ /\ Status(j) = "running" /\ Status(j)' = "failed" /\ Attempts(j) = MaxAttempts
       /\ Attempts(j)' = Attempts(j) /\ runs' = runs

\* Every other row stays where it is.
OnlyMoves(j) ==
    /\ Moves(j)
    /\ \A k \in Jobs \ {j} : job'[k] = job[k]

NoMove ==
    /\ \A j \in Jobs : Status(j)' = Status(j) /\ Attempts(j)' = Attempts(j)
    /\ runs' = runs

\* Rows move one at a time along the arrows of the diagram, or not at all.
LEMMA StepMoves ==
    ASSUME TypeOK, ClaimInv, Shield, AttemptsLeft, [Next]_vars
    PROVE  NoMove \/ \E j \in Jobs : OnlyMoves(j)
<1> USE DEF Status, Attempts
<1>1. Effect
  BY StepEffect
<1>2. CASE Quiet
  BY <1>2 DEF Quiet, NoMove
<1>3. ASSUME NEW j \in Jobs, NEW s \in Sources, NEW via \in {"api", "schedule"}, Created(j, s, via)
      PROVE  OnlyMoves(j)
  BY <1>3 DEF Created, CreateRow, AbsentRow, OnlyMoves, Moves, TypeOK
<1>4. ASSUME NEW j \in Jobs, Timed(j) PROVE NoMove
  BY <1>4 DEF Timed, DueRow, SilentRow, OnTimeRow, LateRow, HeartbeatRow, NoMove, TypeOK, Row
<1>5. ASSUME NEW j \in Jobs, Swept(j) PROVE NoMove \/ OnlyMoves(j)
  <2>1. \A k \in Jobs \ {j} : job'[k] = job[k]
    BY <1>5 DEF Swept, TypeOK
  <2>2. job'[j] = SweepRow(job[j]) /\ runs' = runs
    BY <1>5 DEF Swept, TypeOK
  <2>3. job[j] \in Row /\ job[j].attempts \in Nat /\ job[j].attempts <= MaxAttempts
    BY DEF TypeOK, Row, AttemptsLeft
  <2>4. CASE job[j].status # "running"
    BY <2>1, <2>2, <2>4 DEF SweepRow, NoMove
  <2>5. CASE job[j].status = "running" /\ job[j].attempts >= MaxAttempts
    <3>1. job'[j].status = "failed" /\ job'[j].attempts = job[j].attempts
      BY <2>2, <2>3, <2>5 DEF SweepRow, Row
    <3>2. job[j].attempts = MaxAttempts
      BY <2>3, <2>5, MaxAttemptsAssumption
    <3>3. QED
      BY <2>1, <2>2, <2>5, <3>1, <3>2 DEF OnlyMoves, Moves
  <2>6. CASE job[j].status = "running" /\ ~(job[j].attempts >= MaxAttempts)
    <3>1. job'[j].status = "pending" /\ job'[j].attempts = job[j].attempts
      BY <2>2, <2>3, <2>6 DEF SweepRow, Row
    <3>2. job[j].attempts < MaxAttempts
      BY <2>3, <2>6, MaxAttemptsAssumption
    <3>3. QED
      BY <2>1, <2>2, <2>6, <3>1, <3>2 DEF OnlyMoves, Moves
  <2>7. QED
    BY <2>4, <2>5, <2>6
<1>6. ASSUME NEW w \in Workers, NEW j \in Jobs, Taken(w, j) PROVE OnlyMoves(j)
  <2>1. job[j] \in Row /\ job[j].attempts \in Nat /\ job[j].attempts < MaxAttempts
    BY <1>6 DEF Taken, IsClaimable, TypeOK, Row, AttemptsLeft
  <2>2. job'[j] = ClaimRow(job[j]) /\ runs' = runs /\ job[j].status = "pending"
    BY <1>6 DEF Taken, IsClaimable, TypeOK
  <2>3. job'[j].status = "running" /\ job'[j].attempts = job[j].attempts + 1
    BY <2>1, <2>2, RowEffect
  <2>4. \A k \in Jobs \ {j} : job'[k] = job[k]
    BY <1>6 DEF Taken, TypeOK
  <2>5. QED
    BY <2>1, <2>2, <2>3, <2>4 DEF OnlyMoves, Moves
<1>7. ASSUME NEW w \in Workers, Holds(w)
      PROVE  /\ claim[w].job \in Jobs
             /\ job[claim[w].job].status = "running"
             /\ job[claim[w].job].attempts = claim[w].attempts
             /\ job[claim[w].job] \in Row
             /\ claim[w].attempts \in Nat /\ claim[w].attempts <= MaxAttempts
  BY <1>7 DEF Shield, ClaimIsExclusive, ClaimInv, ClaimOK, Holds, TypeOK, AttemptsLeft
<1>8. ASSUME NEW w \in Workers, Committed(w) PROVE \E j \in Jobs : OnlyMoves(j)
  <2>0. Holds(w)
    BY <1>8 DEF Committed, Holds, HasClaim
  <2> PICK j \in Jobs : j = claim[w].job
    BY <1>7, <2>0
  <2>1. job[j].status = "running" /\ job[j] \in Row
    BY <1>7, <2>0
  <2>2. /\ job' = [job EXCEPT ![j] = CompleteRow(@)]
        /\ runs' = [runs EXCEPT ![j] = @ + 1]
    BY <1>8 DEF Committed
  <2>3. job'[j] = CompleteRow(job[j]) /\ \A k \in Jobs \ {j} : job'[k] = job[k]
    BY <2>1, <2>2 DEF TypeOK
  <2>4. job'[j].status = "completed" /\ job'[j].attempts = job[j].attempts
    BY <2>1, <2>3 DEF CompleteRow, Row
  <2>5. OnlyMoves(j)
    BY <2>1, <2>2, <2>3, <2>4 DEF OnlyMoves, Moves
  <2>6. QED
    BY <2>1, <2>5
<1>9. ASSUME NEW w \in Workers, GivenUp(w) PROVE \E j \in Jobs : OnlyMoves(j)
  <2>0. Holds(w)
    BY <1>9 DEF GivenUp
  <2> PICK j \in Jobs : j = claim[w].job
    BY <1>7, <2>0
  <2>1. /\ job[j].status = "running" /\ job[j].attempts = claim[w].attempts
        /\ job[j] \in Row /\ claim[w].attempts \in Nat /\ claim[w].attempts <= MaxAttempts
    BY <1>7, <2>0
  <2>2. /\ job'[j] = FailRow(job[j], claim[w].attempts) /\ runs' = runs
        /\ \A k \in Jobs \ {j} : job'[k] = job[k]
    BY <1>9, <2>1 DEF GivenUp, TypeOK
  <2>3. CASE claim[w].attempts < MaxAttempts
    <3>1. job'[j].status = "pending" /\ job'[j].attempts = job[j].attempts
      BY <2>1, <2>2, <2>3 DEF FailRow, Row
    <3>2. QED
      BY <2>1, <2>2, <2>3, <3>1 DEF OnlyMoves, Moves
  <2>4. CASE ~(claim[w].attempts < MaxAttempts)
    <3>1. job'[j].status = "failed" /\ job'[j].attempts = job[j].attempts
      BY <2>1, <2>2, <2>4 DEF FailRow, Row
    <3>2. claim[w].attempts = MaxAttempts
      BY <2>1, <2>4, MaxAttemptsAssumption
    <3>3. QED
      BY <2>1, <2>2, <3>1, <3>2 DEF OnlyMoves, Moves
  <2>5. QED
    BY <2>3, <2>4
<1>10. QED
  BY <1>1, <1>2, <1>3, <1>4, <1>5, <1>6, <1>8, <1>9 DEF Effect

\* No attempt beyond max_attempts, and one left to every pending job.
LEMMA AttemptsLeftStep ==
    ASSUME TypeOK, ClaimInv, Shield, AttemptsLeft, [Next]_vars
    PROVE  AttemptsLeft'
<1> SUFFICES ASSUME NEW j \in Jobs
             PROVE  /\ job'[j].attempts <= MaxAttempts
                    /\ job'[j].status \in {"absent", "pending"} => job'[j].attempts < MaxAttempts
  BY DEF AttemptsLeft
<1>1. job[j].attempts \in Nat
  BY DEF TypeOK, Row
<1>2. /\ job[j].attempts <= MaxAttempts
      /\ job[j].status \in {"absent", "pending"} => job[j].attempts < MaxAttempts
  BY DEF AttemptsLeft
<1>3. CASE NoMove
  BY <1>2, <1>3 DEF NoMove, Status, Attempts
<1>4. ASSUME NEW k \in Jobs, OnlyMoves(k), k # j
      PROVE  /\ job'[j].attempts <= MaxAttempts
             /\ job'[j].status \in {"absent", "pending"} => job'[j].attempts < MaxAttempts
  BY <1>2, <1>4 DEF OnlyMoves
<1>5. CASE OnlyMoves(j)
  BY <1>1, <1>2, <1>5, MaxAttemptsAssumption DEF OnlyMoves, Moves, Status, Attempts
<1>6. QED
  BY <1>3, <1>4, <1>5, StepMoves

\* The invariants with the count of attempts.
LEMMA ShieldedAttempts ==
    ASSUME Benign
    PROVE  Spec => [](TypeOK /\ ClaimInv /\ Shield /\ AttemptsLeft)
<1>1. Init => AttemptsLeft
  BY MaxAttemptsAssumption DEF Init, AttemptsLeft, AbsentRow
<1>2. TypeOK /\ ClaimInv /\ Shield /\ AttemptsLeft /\ [Next]_vars => AttemptsLeft'
  BY AttemptsLeftStep
<1>3. QED
  BY <1>1, <1>2, Shielded, PTL DEF Spec

\* Moving along an arrow is a step of the lifecycle.
LEMMA MovesAreLifecycle ==
    ASSUME TypeOK, NEW j \in Jobs, OnlyMoves(j)
    PROVE  Lifecycle!LifecycleNext
<1> DEFINE st == [k \in Jobs |-> job[k].status]
           at == [k \in Jobs |-> job[k].attempts]
<1>1. /\ st' = [st EXCEPT ![j] = Status(j)']
      /\ at' = [at EXCEPT ![j] = Attempts(j)']
      /\ st[j] = Status(j) /\ at[j] = Attempts(j)
  BY DEF OnlyMoves, Status, Attempts
<1>2. Attempts(j)' = Attempts(j) => at' = at
  BY DEF OnlyMoves, Attempts
<1> HIDE DEF st, at
<1>3. \/ /\ st[j] = "absent" /\ st' = [st EXCEPT ![j] = "pending"]
         /\ at' = at /\ runs' = runs
      \/ /\ st[j] = "pending" /\ st' = [st EXCEPT ![j] = "running"] /\ at[j] < MaxAttempts
         /\ at' = [at EXCEPT ![j] = @ + 1] /\ runs' = runs
      \/ /\ st[j] = "running" /\ st' = [st EXCEPT ![j] = "completed"]
         /\ at' = at /\ runs' = [runs EXCEPT ![j] = @ + 1]
      \/ /\ st[j] = "running" /\ st' = [st EXCEPT ![j] = "pending"] /\ at[j] < MaxAttempts
         /\ at' = at /\ runs' = runs
      \/ /\ st[j] = "running" /\ st' = [st EXCEPT ![j] = "failed"] /\ at[j] = MaxAttempts
         /\ at' = at /\ runs' = runs
  BY <1>1, <1>2 DEF OnlyMoves, Moves
<1> USE DEF st, at
<1>4. \/ Lifecycle!Submitted(j) \/ Lifecycle!Claimed(j) \/ Lifecycle!Finished(j)
      \/ Lifecycle!Requeued(j) \/ Lifecycle!Exhausted(j)
  BY <1>3 DEF Lifecycle!Submitted, Lifecycle!Claimed, Lifecycle!Finished, Lifecycle!Requeued,
              Lifecycle!Exhausted, Lifecycle!Move
<1>5. QED
  BY <1>4 DEF Lifecycle!LifecycleNext

\* As long as workers only crash, stop or lose their transaction, and no
\* collection whose heartbeat has waited past the cutoff is rolled back, every
\* job follows the state diagram of the operations guide: one completion, no
\* way back from completed or failed, at most max_attempts attempts.
THEOREM QueueFollowsLifecycle ==
    ASSUME Benign
    PROVE  Spec => FollowsLifecycle
<1>1. Init => Lifecycle!LifecycleInit
  BY DEF Init, AbsentRow, Lifecycle!LifecycleInit
<1>2. TypeOK /\ ClaimInv /\ Shield /\ AttemptsLeft /\ [Next]_vars
          => [Lifecycle!LifecycleNext]_(Lifecycle!lifecycleVars)
  <2> SUFFICES ASSUME TypeOK, ClaimInv, Shield, AttemptsLeft, [Next]_vars
               PROVE  [Lifecycle!LifecycleNext]_(Lifecycle!lifecycleVars)
    OBVIOUS
  <2>1. CASE NoMove
    BY <2>1 DEF NoMove, Status, Attempts, Lifecycle!lifecycleVars
  <2>2. CASE \E j \in Jobs : OnlyMoves(j)
    BY <2>2, MovesAreLifecycle
  <2>3. QED
    BY <2>1, <2>2, StepMoves
<1>3. QED
  BY <1>1, <1>2, ShieldedAttempts, PTL DEF Spec, FollowsLifecycle, Lifecycle!LifecycleSpec

-----------------------------------------------------------------------------
(***************************************************************************)
(* One active job per source, when only cron ticks enqueue.                *)
(***************************************************************************)
\* No row becomes active or changes its source.
RowsStay ==
    \A j \in Jobs :
        /\ job'[j].source = job[j].source
        /\ job'[j].status \in ACTIVE_STATUSES => job[j].status \in ACTIVE_STATUSES

\* No tick begins or finds its source idle.
TicksStay == \A w \in Workers : tick'[w] \in {tick[w], NoTick}

\* One statement on a row that keeps its source and is not made active.
LEMMA StatementStays ==
    ASSUME TypeOK, NEW j \in Jobs, NEW r, job' = [job EXCEPT ![j] = r],
           r.source = job[j].source,
           r.status \in ACTIVE_STATUSES => job[j].status \in ACTIVE_STATUSES
    PROVE  RowsStay
BY DEF RowsStay, TypeOK

\* What a statement leaves of a row's source, and when the row is active.
LEMMA RowActivity ==
    ASSUME NEW r \in Row
    PROVE  /\ \A f \in {DueRow(r), SilentRow(r), OnTimeRow(r), LateRow(r), SweepRow(r)} :
                 /\ f.source = r.source
                 /\ f.status \in ACTIVE_STATUSES => r.status \in ACTIVE_STATUSES
           /\ ClaimRow(r).source = r.source
           /\ CompleteRow(r).source = r.source
           /\ CompleteRow(r).status \notin ACTIVE_STATUSES
           /\ \A seen \in Nat : FailRow(r, seen).source = r.source
<1>1. \A f \in {DueRow(r), SilentRow(r), OnTimeRow(r), LateRow(r)} :
          /\ f.source = r.source
          /\ f.status \in ACTIVE_STATUSES => r.status \in ACTIVE_STATUSES
  BY DEF Row, DueRow, SilentRow, OnTimeRow, LateRow, HeartbeatRow
<1>2. /\ SweepRow(r).source = r.source
      /\ SweepRow(r).status \in ACTIVE_STATUSES => r.status \in ACTIVE_STATUSES
  BY DEF Row, SweepRow, ACTIVE_STATUSES
<1>3. /\ ClaimRow(r).source = r.source /\ CompleteRow(r).source = r.source
      /\ CompleteRow(r).status \notin ACTIVE_STATUSES
      /\ \A seen \in Nat : FailRow(r, seen).source = r.source
  BY DEF Row, ClaimRow, CompleteRow, FailRow, ACTIVE_STATUSES
<1>4. QED
  BY <1>1, <1>2, <1>3

\* Only the insert of a tick makes a job active.
LEMMA StepStays ==
    ASSUME MaxManual = 0, TypeOK, ClaimInv, Shield, [Next]_vars
    PROVE  \/ \E w \in Workers, s \in Sources : TickLock(w, s)
           \/ \E w \in Workers : TickCheck(w) \/ TickInsert(w)
           \/ RowsStay /\ TicksStay
<1>1. ASSUME UNCHANGED job PROVE RowsStay
  BY <1>1 DEF RowsStay
<1>2. ASSUME UNCHANGED tick PROVE TicksStay
  BY <1>2 DEF TicksStay
<1>3. ASSUME NEW w \in Workers, Gone(w) PROVE RowsStay /\ TicksStay
  <2>1. TicksStay
    BY <1>3 DEF Gone, TicksStay, TypeOK
  <2>2. QED
    BY <1>1, <1>3, <2>1 DEF Gone
<1>4. CASE UNCHANGED vars
  BY <1>1, <1>2, <1>4 DEF vars
<1>5. ASSUME NEW s \in Sources, Enqueue(s) PROVE FALSE
  <2> DEFINE S == {j \in Jobs : job[j] # AbsentRow /\ job[j].via = "api"}
  <2>1. IsFiniteSet(S)
    <3>1. IsFiniteSet(Jobs)
      BY FS_Interval, BoundsAssumption DEF Jobs
    <3>2. QED
      BY <3>1, FS_Subset
  <2>2. Cardinality(S) \in Nat
    BY <2>1, FS_CardinalityType
  <2>3. Cardinality(S) < 0
    BY <1>5 DEF Enqueue
  <2>4. QED
    BY <2>2, <2>3
<1>6. ASSUME NEW w \in Workers, Holds(w)
      PROVE  /\ claim[w].job \in Jobs /\ claim[w].attempts \in Nat
             /\ job[claim[w].job] \in Row
             /\ job[claim[w].job].status \in ACTIVE_STATUSES
  BY <1>6 DEF Shield, ClaimIsExclusive, ClaimInv, ClaimOK, Holds, TypeOK, ACTIVE_STATUSES
<1>7. ASSUME NEW w \in Workers, MainTask(w) PROVE RowsStay /\ TicksStay
  <2>1. CASE SweepBegin(w) \/ SweepEnd(w) \/ MarkRunning(w) \/ RunError(w) \/ Restart(w)
    BY <1>1, <1>2, <2>1 DEF SweepBegin, SweepEnd, MarkRunning, RunError, Rollback, Restart
  <2>2. CASE JobWait(w) \/ \E j \in Jobs : SweepWait(w, j)
    BY <1>1, <1>2, <2>2 DEF JobWait, SweepWait, Queue
  <2>3. ASSUME NEW j \in Jobs, SweepJob(w, j) PROVE RowsStay /\ TicksStay
    <3>1. job[j] \in Row /\ job' = [job EXCEPT ![j] = SweepRow(job[j])] /\ UNCHANGED tick
      BY <2>3 DEF SweepJob, TypeOK
    <3>2. RowsStay
      BY <3>1, RowActivity, StatementStays
    <3>3. QED
      BY <1>2, <3>1, <3>2
  <2>4. CASE Claim(w)
    <3> PICK j \in Claimable : job' = [job EXCEPT ![j] = ClaimRow(@)] /\ UNCHANGED tick
      BY <2>4 DEF Claim
    <3>1. j \in Jobs /\ job[j] \in Row /\ job[j].status \in ACTIVE_STATUSES
      BY DEF Claimable, IsClaimable, TypeOK, ACTIVE_STATUSES
    <3>2. job' = [job EXCEPT ![j] = ClaimRow(job[j])]
      OBVIOUS
    <3>3. RowsStay
      <4>1. ClaimRow(job[j]).source = job[j].source
        BY <3>1, RowActivity
      <4>2. QED
        BY <3>1, <3>2, <4>1, StatementStays
    <3>4. QED
      BY <1>2, <3>3
  <2>5. CASE Complete(w)
    <3>1. Holds(w) /\ job' = [job EXCEPT ![claim[w].job] = CompleteRow(@)] /\ UNCHANGED tick
      BY <2>5 DEF Complete, Commit, Holds, HasClaim
    <3>2. RowsStay
      <4> PICK j \in Jobs : j = claim[w].job
        BY <1>6, <3>1
      <4>1. job[j] \in Row /\ job[j].status \in ACTIVE_STATUSES /\ claim[w].attempts \in Nat
        BY <1>6, <3>1
      <4>2. job' = [job EXCEPT ![j] = CompleteRow(job[j])]
        BY <3>1
      <4>3. QED
        BY <4>1, <4>2, RowActivity, StatementStays
    <3>3. QED
      BY <1>2, <3>1, <3>2
  <2>6. CASE Fail(w)
    <3>1. /\ Holds(w) /\ UNCHANGED tick
          /\ job' = [job EXCEPT ![claim[w].job] = FailRow(@, claim[w].attempts)]
      BY <2>6 DEF Fail, Holds, HasClaim
    <3>2. RowsStay
      <4> PICK j \in Jobs : j = claim[w].job
        BY <1>6, <3>1
      <4>1. job[j] \in Row /\ job[j].status \in ACTIVE_STATUSES /\ claim[w].attempts \in Nat
        BY <1>6, <3>1
      <4>2. job' = [job EXCEPT ![j] = FailRow(job[j], claim[w].attempts)]
        BY <3>1
      <4>3. FailRow(job[j], claim[w].attempts).source = job[j].source
        BY <4>1, RowActivity
      <4>4. QED
        BY <4>1, <4>2, <4>3, StatementStays
    <3>3. QED
      BY <1>2, <3>1, <3>2
  <2>7. CASE Exit(w)
    BY <1>3, <2>7 DEF Exit
  <2>8. QED
    BY <1>7, <2>1, <2>2, <2>3, <2>4, <2>5, <2>6, <2>7 DEF MainTask
<1>8. ASSUME NEW w \in Workers, BeatTask(w) PROVE RowsStay /\ TicksStay
  <2>1. CASE BeatWait(w)
    BY <1>1, <1>2, <2>1 DEF BeatWait, Queue
  <2>2. CASE BeatJob(w)
    <3>1. /\ Holds(w) /\ UNCHANGED tick
          /\ \/ job' = [job EXCEPT ![claim[w].job] = OnTimeRow(@)]
             \/ job' = [job EXCEPT ![claim[w].job] = LateRow(@)]
      <4>1. wait[Beat(w)].late \in BOOLEAN
        BY ProcessType DEF TypeOK, Wait
      <4>2. QED
        BY <2>2, <4>1 DEF BeatJob, OnTimeRow, LateRow, Shield, Calm
    <3>2. RowsStay
      <4> PICK j \in Jobs : j = claim[w].job
        BY <1>6, <3>1
      <4>1. job[j] \in Row /\ job[j].status \in ACTIVE_STATUSES /\ claim[w].attempts \in Nat
        BY <1>6, <3>1
      <4>2. \/ job' = [job EXCEPT ![j] = OnTimeRow(job[j])]
            \/ job' = [job EXCEPT ![j] = LateRow(job[j])]
        BY <3>1
      <4>3. QED
        BY <4>1, <4>2, RowActivity, StatementStays
    <3>3. QED
      BY <1>2, <3>1, <3>2
  <2>3. QED
    BY <1>8, <2>1, <2>2 DEF BeatTask
<1>9. ASSUME NEW w \in Workers, Environment(w) PROVE RowsStay /\ TicksStay
  <2>1. CASE Crash(w)
    BY <1>3, <2>1 DEF Crash
  <2>2. CASE Stop(w) \/ Stall(w) \/ Resume(w) \/ BeatError(w) \/ Drop(w) \/ RunErrorLate(w)
    BY <1>1, <1>2, <2>2 DEF Stop, Stall, Resume, BeatError, Drop, RunErrorLate, Rollback
  <2>3. CASE CompleteLost(w)
    <3>1. Holds(w) /\ job' = [job EXCEPT ![claim[w].job] = CompleteRow(@)] /\ UNCHANGED tick
      BY <2>3 DEF CompleteLost, Commit, Holds, HasClaim
    <3>2. RowsStay
      <4> PICK j \in Jobs : j = claim[w].job
        BY <1>6, <3>1
      <4>1. job[j] \in Row /\ job[j].status \in ACTIVE_STATUSES /\ claim[w].attempts \in Nat
        BY <1>6, <3>1
      <4>2. job' = [job EXCEPT ![j] = CompleteRow(job[j])]
        BY <3>1
      <4>3. QED
        BY <4>1, <4>2, RowActivity, StatementStays
    <3>3. QED
      BY <1>2, <3>1, <3>2
  <2>4. QED
    BY <1>9, <2>1, <2>2, <2>3 DEF Environment
<1>10. ASSUME NEW j \in Jobs, BackoffExpires(j) \/ GoSilent(j) PROVE RowsStay /\ TicksStay
  <2>1. /\ job[j] \in Row /\ UNCHANGED tick
        /\ \/ job' = [job EXCEPT ![j] = DueRow(job[j])]
           \/ job' = [job EXCEPT ![j] = SilentRow(job[j])]
    BY <1>10 DEF BackoffExpires, GoSilent, TypeOK
  <2>2. RowsStay
    BY <2>1, RowActivity, StatementStays
  <2>3. QED
    BY <1>2, <2>1, <2>2
<1>11. ASSUME NEW w \in Workers, BeatAges(w) PROVE RowsStay /\ TicksStay
  BY <1>1, <1>2, <1>11 DEF BeatAges
<1>12. QED
  BY <1>4, <1>5, <1>7, <1>8, <1>9, <1>10, <1>11 DEF Next, Scheduler, Poll

\* Every step leaves at most one active job and one tick to a source.
LEMMA OneActiveStep ==
    ASSUME MaxManual = 0, TypeOK, ClaimInv, Shield, TicksExclusive, OneActive, [Next]_vars
    PROVE  TicksExclusive' /\ OneActive'
<1>1. \A w \in Workers : tick[w] # NoTick => tick[w].source \in Sources
  BY DEF TypeOK
<1>2. NoTick.source = NoSource /\ NoTick.idle = FALSE
  BY DEF NoTick
<1>3. CASE RowsStay /\ TicksStay
  <2>1. ASSUME NEW w \in Workers, tick'[w] # NoTick PROVE tick'[w] = tick[w]
    BY <1>3, <2>1 DEF TicksStay
  <2>2. ASSUME NEW w \in Workers, tick'[w].idle, NEW j \in Jobs,
               job'[j].source = tick'[w].source, job'[j].status \in ACTIVE_STATUSES
        PROVE  FALSE
    <3>1. tick'[w] = tick[w]
      BY <1>2, <2>1, <2>2
    <3>2. job[j].source = tick[w].source /\ job[j].status \in ACTIVE_STATUSES
      BY <1>3, <2>2, <3>1 DEF RowsStay
    <3>3. QED
      BY <2>2, <3>1, <3>2 DEF TicksExclusive, HasActive
  <2>3. TicksExclusive'
    BY <2>1, <2>2 DEF TicksExclusive, HasActive
  <2>4. OneActive'
    BY <1>3 DEF RowsStay, OneActive, Active
  <2>5. QED
    BY <2>3, <2>4
<1>4. ASSUME NEW w \in Workers, NEW s \in Sources, TickLock(w, s)
      PROVE  TicksExclusive' /\ OneActive'
  <2>1. /\ UNCHANGED job
        /\ tick'[w] = [source |-> s, idle |-> FALSE]
        /\ \A v \in Workers \ {w} : tick'[v] = tick[v] /\ tick[v].source # s
    BY <1>4 DEF TickLock, SourceLocked, TypeOK
  <2>2. TicksExclusive'
    BY <2>1 DEF TicksExclusive, HasActive
  <2>3. OneActive'
    BY <2>1 DEF OneActive, Active
  <2>4. QED
    BY <2>2, <2>3
<1>5. ASSUME NEW w \in Workers, TickCheck(w) PROVE TicksExclusive' /\ OneActive'
  <2>1. /\ UNCHANGED job /\ tick[w] # NoTick
        /\ \A v \in Workers \ {w} : tick'[v] = tick[v]
        /\ \/ tick'[w] = NoTick
           \/ /\ ~HasActive(tick[w].source)
              /\ tick'[w].source = tick[w].source /\ tick'[w] # NoTick
    <3>1. tick[w] \in [source : Sources, idle : BOOLEAN] /\ tick[w] # NoTick
      BY <1>5 DEF TickCheck, TypeOK
    <3>2. tick'[w] = IF HasActive(tick[w].source) THEN NoTick ELSE [tick[w] EXCEPT !.idle = TRUE]
      BY <1>5 DEF TickCheck, TypeOK
    <3>3. [tick[w] EXCEPT !.idle = TRUE] # NoTick
          /\ [tick[w] EXCEPT !.idle = TRUE].source = tick[w].source
      BY <3>1 DEF NoTick
    <3>4. UNCHANGED job /\ \A v \in Workers \ {w} : tick'[v] = tick[v]
      BY <1>5 DEF TickCheck, TypeOK
    <3>5. QED
      BY <3>1, <3>2, <3>3, <3>4
  <2>2. \A v, u \in Workers :
            tick'[v] # NoTick /\ tick'[u] # NoTick /\ tick'[v].source = tick'[u].source => v = u
    BY <2>1 DEF TicksExclusive
  <2>3. ASSUME NEW v \in Workers, tick'[v].idle, NEW j \in Jobs,
               job'[j].source = tick'[v].source, job'[j].status \in ACTIVE_STATUSES
        PROVE  FALSE
    BY <1>2, <2>1, <2>3 DEF TicksExclusive, HasActive
  <2>4. TicksExclusive'
    BY <2>2, <2>3 DEF TicksExclusive, HasActive
  <2>5. OneActive'
    BY <2>1 DEF OneActive, Active
  <2>6. QED
    BY <2>4, <2>5
<1>6. ASSUME NEW w \in Workers, TickInsert(w) PROVE TicksExclusive' /\ OneActive'
  <2> PICK s \in Sources : s = tick[w].source
    BY <1>6, <1>1, <1>2 DEF TickInsert
  <2> PICK j \in Jobs : job[j] = AbsentRow /\ job' = [job EXCEPT ![j] = CreateRow(s, "schedule")]
    BY <1>6 DEF TickInsert, Insert, NextId
  <2>1. /\ tick[w].idle /\ tick[w] # NoTick /\ tick'[w] = NoTick
        /\ \A v \in Workers \ {w} : tick'[v] = tick[v]
    BY <1>6, <1>2 DEF TickInsert, TypeOK
  <2>2. /\ job'[j].source = s
        /\ \A k \in Jobs \ {j} : job'[k] = job[k]
    BY DEF CreateRow, AbsentRow, TypeOK
  <2>3. ~HasActive(s)
    BY <2>1 DEF TicksExclusive
  <2>4. \A k \in Jobs : ~(job[k].source = s /\ job[k].status \in ACTIVE_STATUSES)
    BY <2>3 DEF HasActive
  <2>5. \A v \in Workers : tick'[v] # NoTick => tick'[v] = tick[v] /\ tick[v].source # s
    BY <2>1 DEF TicksExclusive
  <2>6. ASSUME NEW v \in Workers, tick'[v].idle, NEW k \in Jobs,
               job'[k].source = tick'[v].source, job'[k].status \in ACTIVE_STATUSES
        PROVE  FALSE
    <3>1. tick'[v] # NoTick
      BY <1>2, <2>6
    <3>2. k # j
      BY <2>2, <2>5, <2>6, <3>1
    <3>3. QED
      BY <2>2, <2>5, <2>6, <3>1, <3>2 DEF TicksExclusive, HasActive
  <2>7. TicksExclusive'
    BY <2>5, <2>6 DEF TicksExclusive, HasActive
  <2>8. OneActive'
    BY <2>2, <2>4 DEF OneActive, Active
  <2>9. QED
    BY <2>7, <2>8
<1>7. QED
  BY <1>3, <1>4, <1>5, <1>6, StepStays

\* At most one is as many as the count says.
LEMMA OneActiveCounted == OneActive => OneActivePerSource
<1> SUFFICES ASSUME OneActive, NEW s \in Sources
             PROVE  Cardinality({j \in Jobs : job[j].source = s
                                              /\ job[j].status \in ACTIVE_STATUSES}) <= 1
  BY DEF OneActivePerSource
<1> DEFINE S == {j \in Jobs : job[j].source = s /\ job[j].status \in ACTIVE_STATUSES}
<1>1. \A j, k \in S : j = k
  BY DEF OneActive, Active
<1> HIDE DEF S
<1>2. S = {} \/ \E j : S = {j}
  BY <1>1
<1>3. Cardinality(S) = 0 \/ Cardinality(S) = 1
  BY <1>2, FS_EmptySet, FS_Singleton
<1>4. Cardinality(S) <= 1
  BY <1>3
<1>5. QED
  BY <1>4 DEF S

\* In the same scope, and when only cron ticks enqueue, a source never has two
\* active jobs, although every worker fires every tick: the tick that sees no
\* active job has the lock of the source until it has inserted one, and no
\* late fail makes a finished job active meanwhile.
THEOREM SourcesHaveOneActiveJob ==
    ASSUME Benign, MaxManual = 0
    PROVE  Spec => []OneActivePerSource
<1>1. Init => TicksExclusive /\ OneActive
  BY NoSourceAssumption DEF Init, TicksExclusive, OneActive, Active, AbsentRow, NoTick,
                            ACTIVE_STATUSES
<1>2. TypeOK /\ ClaimInv /\ Shield /\ TicksExclusive /\ OneActive /\ [Next]_vars
          => TicksExclusive' /\ OneActive'
  BY OneActiveStep
<1>3. QED
  BY <1>1, <1>2, OneActiveCounted, Shielded, PTL DEF Spec
=============================================================================
