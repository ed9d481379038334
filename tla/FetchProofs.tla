---------------------------- MODULE FetchProofs ----------------------------
(***************************************************************************)
(* What the run checks of Fetch on two tasks and two hosts, proved for     *)
(* every web, every policy and any number of tasks.                        *)
(***************************************************************************)
EXTENDS Fetch, FiniteSetTheorems, TLAPS

-----------------------------------------------------------------------------
(***************************************************************************)
(* The invariant: one part per task, one for the throttle.                 *)
(***************************************************************************)
Judged(r) ==
    r.pc \in {"permit", "throttled", "reading", "backoff"} =>
        /\ r.judged = r.url /\ Allows(r.rules, r.url)
        /\ r.from = OriginOf[r.url]
        /\ r.crawl_delay = r.rules.crawl_delay

\* The request that is under way, or that the sleep of a retry follows.
Current(r) == IF r.pc \in {"reading", "backoff"} THEN 1 ELSE 0

Counted(r) ==
    /\ r.pc \in {"idle", "checking", "robots", "loading", "permit"} => r.attempt = 0
    /\ r.pc = "backoff" => r.attempt < retries
    /\ r.requests <= r.hops * (retries + 1) + r.attempt + Current(r)

Sound(r) ==
    /\ r.pc = "idle" => r = Idle
    /\ r.pc # "idle" => r.url \in Urls
    /\ Judged(r)
    /\ Counted(r)

\* What is cached for an origin was read from it.
CacheOf(c) ==
    /\ c \in [Origins -> [rules : Rules, from : Origins]]
    /\ \A o \in Origins : c[o].from = o

TasksInv ==
    /\ task \in [Tasks -> Task] /\ CacheOf(cache)
    /\ \A t \in Tasks : Sound(task[t])

\* What the throttle makes requests wait covers what politeness asks for.
Covered == \A h \in Hosts : polite[h] <= rest[h]

HostsInv == rest \in [Hosts -> Nat] /\ polite \in [Hosts -> Nat] /\ Covered

-----------------------------------------------------------------------------
(***************************************************************************)
(* What a step makes of the record of a task.                              *)
(***************************************************************************)
LEMMA IdleSound == Idle \in Task /\ Sound(Idle)
<1>1. AllowAll \in Rules
  BY DEF AllowAll, Rules
<1>2. Idle \in Task
  BY <1>1, PolicyAssumption DEF Idle, Task
<1>3. Counted(Idle)
  <2>1. 0 * (retries + 1) = 0
    BY PolicyAssumption
  <2>2. QED
    BY <2>1, PolicyAssumption DEF Counted, Idle, Current
<1>4. QED
  BY <1>2, <1>3 DEF Sound, Judged, Idle

\* Hops times attempts is a number.
LEMMA Allowance ==
    ASSUME NEW n \in Nat
    PROVE  /\ n * (retries + 1) \in Nat
           /\ (n + 1) * (retries + 1) = n * (retries + 1) + retries + 1
BY PolicyAssumption, SMT

\* The numbers of a task.
LEMMA TaskNumbers ==
    ASSUME NEW r \in Task
    PROVE  /\ r.hops \in Nat /\ r.hops <= max_redirects
           /\ r.attempt \in Nat /\ r.attempt <= retries
           /\ r.requests \in Nat
           /\ r.hops * (retries + 1) \in Nat
<1>1. r.hops \in 0..max_redirects /\ r.attempt \in 0..retries /\ r.requests \in Nat
  BY DEF Task
<1>2. r.hops \in Nat
  BY <1>1, PolicyAssumption
<1>3. QED
  BY <1>1, <1>2, Allowance, PolicyAssumption

\* A url, of any origin, names a host.
LEMMA HostKnown ==
    ASSUME NEW u \in Urls
    PROVE  OriginOf[u] \in Origins /\ HostOfUrl(u) \in Hosts
BY WebAssumption DEF HostOfUrl

\* Intervals are numbers.
LEMMA IntervalType ==
    ASSUME NEW d \in Nat
    PROVE  PageInterval(d) \in Nat /\ PageInterval(d) >= min_interval /\ PageInterval(d) >= d
BY PolicyAssumption DEF PageInterval, Max2

LEMMA RulesTyped ==
    /\ AllowAll \in Rules /\ DenyAll \in Rules
    /\ \A o \in Origins : RobotsFiles[o] \subseteq Rules
BY WebAssumption DEF AllowAll, DenyAll, Rules

\* A step of task t leaves every record sound.
Moves(t) ==
    /\ task' \in [Tasks -> Task]
    /\ Sound(task'[t])
    /\ \A s \in Tasks \ {t} : task'[s] = task[s]

\* To move is to give the task a new record.
LEMMA MoveTo ==
    ASSUME TasksInv, NEW t \in Tasks, NEW r \in Task, Sound(r), task' = [task EXCEPT ![t] = r]
    PROVE  Moves(t)
BY DEF TasksInv, Moves

LEMMA LeaveMoves ==
    ASSUME TasksInv, NEW t \in Tasks, Leave(t)
    PROVE  Moves(t)
BY IdleSound, MoveTo DEF Leave

LEMMA JudgeMoves ==
    ASSUME TasksInv, NEW t \in Tasks, task[t].pc \in {"checking", "loading"},
           NEW rules \in Rules, NEW from, from = OriginOf[task[t].url], Judge(t, rules, from)
    PROVE  Moves(t)
<1> DEFINE u == task[t].url
           r == [task[t] EXCEPT !.pc = IF task[t].hops = 0 THEN "permit" ELSE "throttled",
                                !.crawl_delay = rules.crawl_delay,
                                !.rules = rules, !.judged = u, !.from = from]
<1>1. task[t] \in Task /\ Sound(task[t]) /\ u \in Urls /\ from \in Origins
  BY HostKnown DEF TasksInv, Sound
<1>2. CASE ~Allows(rules, u)
  BY <1>2, LeaveMoves DEF Judge, TasksInv
<1>3. CASE Allows(rules, u)
  <2>1. task' = [task EXCEPT ![t] = r]
    BY <1>1, <1>3 DEF Judge, TasksInv
  <2>2. r \in Task
    BY <1>1 DEF Task, Rules
  <2>3. Judged(r)
    BY <1>1, <1>3 DEF Judged, Task
  <2>4. Counted(r)
    BY <1>1 DEF Sound, Counted, Current, Task
  <2>5. Sound(r)
    BY <1>1, <2>3, <2>4 DEF Sound, Task
  <2>6. QED
    BY <2>1, <2>2, <2>5, MoveTo DEF TasksInv
<1>4. QED
  BY <1>2, <1>3

\* The steps of a get, one by one.
LEMMA GetMoves ==
    ASSUME TasksInv, NEW t \in Tasks, NEW u \in Urls, Get(t, u)
    PROVE  Moves(t)
<1> DEFINE r == [task[t] EXCEPT !.pc = "checking", !.url = u]
<1>1. task[t] \in Task /\ task[t] = Idle
  BY DEF TasksInv, Sound, Get
<1>2. task' = [task EXCEPT ![t] = r]
  BY DEF Get, TasksInv
<1>3. r \in Task
  BY <1>1 DEF Task
<1>4. Sound(r)
  BY <1>1, IdleSound DEF Sound, Judged, Counted, Current, Task, Idle
<1>5. QED
  BY <1>2, <1>3, <1>4, MoveTo DEF TasksInv

LEMMA WaitMoves ==
    ASSUME TasksInv, NEW t \in Tasks, AskRobots(t) \/ SendRobots(t) \/ Permit(t)
    PROVE  Moves(t)
<1>1. task[t] \in Task /\ Sound(task[t])
  BY DEF TasksInv
<1>2. ASSUME NEW pc \in {"robots", "loading", "throttled"},
             task[t].pc \in {"checking", "robots", "permit"},
             pc = "throttled" => task[t].pc = "permit",
             task' = [task EXCEPT ![t].pc = pc]
      PROVE  Moves(t)
  <2> DEFINE r == [task[t] EXCEPT !.pc = pc]
  <2>1. task' = [task EXCEPT ![t] = r]
    BY <1>2 DEF TasksInv
  <2>2. r \in Task
    BY <1>1 DEF Task
  <2>3. Sound(r)
    BY <1>1, <1>2 DEF Sound, Judged, Counted, Current, Task
  <2>4. QED
    BY <2>1, <2>2, <2>3, MoveTo DEF TasksInv
<1>3. CASE AskRobots(t)
  BY <1>2, <1>3 DEF AskRobots
<1>4. CASE SendRobots(t)
  BY <1>2, <1>4 DEF SendRobots
<1>5. CASE Permit(t)
  BY <1>2, <1>5 DEF Permit
<1>6. QED
  BY <1>3, <1>4, <1>5

LEMMA RulesMoves ==
    ASSUME TasksInv, NEW t \in Tasks,
           UseCache(t) \/ \E rules \in {DenyAll, AllowAll} \cup UNION {RobotsFiles[o] : o \in Origins} :
                             LoadRobots(t, rules)
    PROVE  Moves(t) /\ CacheOf(cache')
<1>1. CASE UseCache(t)
  <2> DEFINE o == OriginOf[task[t].url]
  <2>1. task[t].url \in Urls
    BY <1>1 DEF TasksInv, Sound, UseCache
  <2>2. cache[o].rules \in Rules /\ cache[o].from = o
    BY <2>1, HostKnown DEF TasksInv, CacheOf
  <2>3. QED
    BY <1>1, <2>2, JudgeMoves DEF UseCache, Key, TasksInv
<1>2. ASSUME NEW rules \in {DenyAll, AllowAll} \cup UNION {RobotsFiles[o] : o \in Origins},
             LoadRobots(t, rules)
      PROVE  Moves(t) /\ CacheOf(cache')
  <2>1. rules \in Rules
    <3>1. CASE rules \in UNION {RobotsFiles[o] : o \in Origins}
      <4>1. PICK S \in {RobotsFiles[o] : o \in Origins} : rules \in S
        BY <3>1
      <4>2. QED
        BY <4>1, RulesTyped
    <3>2. CASE rules \in {DenyAll, AllowAll}
      BY <3>2, RulesTyped
    <3>3. QED
      BY <1>2, <3>1, <3>2
  <2>2. Moves(t)
    BY <1>2, <2>1, JudgeMoves DEF LoadRobots
  <2>3. CacheOf(cache')
    <3> DEFINE o == OriginOf[task[t].url]
    <3>1. o \in Origins
      BY <1>2, HostKnown DEF TasksInv, Sound, LoadRobots
    <3>2. cache' = [cache EXCEPT ![o] = [rules |-> rules, from |-> o]]
      BY <1>2 DEF LoadRobots, Key
    <3>3. QED
      BY <2>1, <3>1, <3>2 DEF TasksInv, CacheOf
  <2>4. QED
    BY <2>2, <2>3
<1>3. QED
  BY <1>1, <1>2

LEMMA SendMoves ==
    ASSUME TasksInv, NEW t \in Tasks, SendPage(t)
    PROVE  Moves(t)
<1> DEFINE r == [task[t] EXCEPT !.pc = "reading", !.requests = @ + 1]
<1>1. task[t] \in Task /\ Sound(task[t]) /\ task[t].pc = "throttled"
  BY DEF TasksInv, SendPage
<1>2. task' = [task EXCEPT ![t] = r]
  BY DEF SendPage, TasksInv
<1>3. r \in Task
  <2>1. task[t].requests + 1 \in Nat
    BY <1>1, TaskNumbers
  <2>2. QED
    BY <1>1, <2>1 DEF Task
<1>4. Counted(r)
  <2>1. task[t].hops * (retries + 1) \in Nat /\ task[t].attempt \in Nat /\ task[t].requests \in Nat
    BY <1>1, TaskNumbers
  <2>2. task[t].requests <= task[t].hops * (retries + 1) + task[t].attempt
    BY <1>1, <2>1 DEF Sound, Counted, Current
  <2>3. task[t].requests + 1 <= task[t].hops * (retries + 1) + task[t].attempt + 1
    BY <2>1, <2>2
  <2>4. QED
    BY <1>1, <2>3 DEF Counted, Current, Task
<1>5. Sound(r)
  BY <1>1, <1>4 DEF Sound, Judged, Task
<1>6. QED
  BY <1>2, <1>3, <1>5, MoveTo DEF TasksInv

LEMMA RedirectMoves ==
    ASSUME TasksInv, NEW t \in Tasks, NEW u \in Urls, Redirect(t, u)
    PROVE  Moves(t)
<1> DEFINE r == [task[t] EXCEPT !.pc = "checking", !.url = u, !.hops = @ + 1, !.attempt = 0]
<1>1. task[t] \in Task /\ Sound(task[t]) /\ task[t].pc = "reading"
  BY DEF TasksInv, Redirect
<1>2. CASE task[t].hops + 1 > max_redirects \/ u \in Unsafe
  BY <1>2, LeaveMoves DEF Redirect, TasksInv
<1>3. CASE ~(task[t].hops + 1 > max_redirects \/ u \in Unsafe)
  <2>1. task' = [task EXCEPT ![t] = r]
    BY <1>3 DEF Redirect, TasksInv
  <2>2. task[t].hops \in Nat /\ task[t].hops + 1 \in 0..max_redirects
    BY <1>1, <1>3, TaskNumbers, PolicyAssumption
  <2>3. r \in Task
    <3>1. 0 \in 0..retries
      BY PolicyAssumption
    <3>2. QED
      BY <1>1, <2>2, <3>1 DEF Task
  <2>4. Counted(r)
    <3>1. task[t].requests \in Nat /\ task[t].attempt \in 0..retries
      BY <1>1 DEF Task
    <3>2. task[t].requests <= task[t].hops * (retries + 1) + task[t].attempt + 1
      BY <1>1 DEF Sound, Counted, Current
    <3>3. task[t].requests <= (task[t].hops + 1) * (retries + 1)
      <4>1. /\ task[t].hops * (retries + 1) \in Nat
            /\ (task[t].hops + 1) * (retries + 1) = task[t].hops * (retries + 1) + retries + 1
        BY <2>2, Allowance
      <4>2. QED
        BY <3>1, <3>2, <4>1, PolicyAssumption
    <3>4. (task[t].hops + 1) * (retries + 1) \in Nat
      BY <2>2, Allowance
    <3>5. r.requests <= r.hops * (retries + 1) + r.attempt + Current(r)
      BY <1>1, <3>1, <3>3, <3>4 DEF Current, Task
    <3>6. QED
      BY <1>1, <3>5 DEF Counted, Task
  <2>5. Sound(r)
    BY <1>1, <2>4 DEF Sound, Judged, Task
  <2>6. QED
    BY <2>1, <2>3, <2>5, MoveTo DEF TasksInv
<1>4. QED
  BY <1>2, <1>3

LEMMA FaultMoves ==
    ASSUME TasksInv, NEW t \in Tasks, Fault(t)
    PROVE  Moves(t)
<1> DEFINE r == [task[t] EXCEPT !.pc = "backoff"]
<1>1. task[t] \in Task /\ Sound(task[t]) /\ task[t].pc = "reading"
  BY DEF TasksInv, Fault
<1>2. CASE task[t].attempt < retries
  <2>1. task' = [task EXCEPT ![t] = r]
    BY <1>2 DEF Fault, TasksInv
  <2>2. r \in Task
    BY <1>1 DEF Task
  <2>3. Sound(r)
    BY <1>1, <1>2 DEF Sound, Judged, Counted, Current, Task
  <2>4. QED
    BY <2>1, <2>2, <2>3, MoveTo DEF TasksInv
<1>3. CASE ~(task[t].attempt < retries)
  BY <1>3, LeaveMoves DEF Fault, TasksInv
<1>4. QED
  BY <1>2, <1>3

LEMMA RetryMoves ==
    ASSUME TasksInv, NEW t \in Tasks, Retry(t)
    PROVE  Moves(t)
<1> DEFINE r == [task[t] EXCEPT !.pc = "throttled", !.attempt = @ + 1]
<1>1. task[t] \in Task /\ Sound(task[t]) /\ task[t].pc = "backoff"
  BY DEF TasksInv, Retry
<1>2. task' = [task EXCEPT ![t] = r]
  BY DEF Retry, TasksInv
<1>3. task[t].attempt < retries /\ task[t].attempt \in 0..retries
  BY <1>1 DEF Sound, Counted, Task
<1>4. r \in Task
  <2>1. task[t].attempt + 1 \in 0..retries
    BY <1>3, PolicyAssumption
  <2>2. QED
    BY <1>1, <2>1 DEF Task
<1>5. Counted(r)
  <2>1. task[t].hops * (retries + 1) \in Nat /\ task[t].requests \in Nat
    BY <1>1, TaskNumbers
  <2>2. task[t].requests <= task[t].hops * (retries + 1) + task[t].attempt + 1
    BY <1>1 DEF Sound, Counted, Current
  <2>3. task[t].requests <= task[t].hops * (retries + 1) + (task[t].attempt + 1) + 0
    BY <1>3, <2>1, <2>2
  <2>4. QED
    BY <1>1, <2>3 DEF Counted, Current, Task
<1>6. Sound(r)
  BY <1>1, <1>5 DEF Sound, Judged, Task
<1>7. QED
  BY <1>2, <1>4, <1>6, MoveTo DEF TasksInv

-----------------------------------------------------------------------------
(***************************************************************************)
(* The throttle.                                                           *)
(***************************************************************************)
\* A request passes the throttle: its host has had its rest, and gets one
\* that is as long as the interval.
LEMMA PassRests ==
    ASSUME TasksInv, HostsInv, min_interval > 0, NEW t \in Tasks, task[t].url \in Urls,
           NEW interval \in Nat, interval >= min_interval, Pass(t, interval)
    PROVE  LET h == HostOfUrl(task[t].url) IN
           /\ h \in Hosts
           /\ rest[h] = 0 /\ polite[h] = 0
           /\ rest' = [rest EXCEPT ![h] = interval]
<1> DEFINE h == HostOfUrl(task[t].url)
<1>1. h \in Hosts
  BY HostKnown
<1>2. interval > 0
  BY PolicyAssumption
<1>3. rest[h] = 0 /\ rest' = [rest EXCEPT ![h] = interval]
  BY <1>2 DEF Pass
<1>4. polite[h] \in Nat /\ polite[h] <= rest[h]
  BY <1>1 DEF HostsInv, Covered
<1>5. QED
  BY <1>1, <1>3, <1>4

\* A host that is given the rest its request asks for is covered.
LEMMA RestCovers ==
    ASSUME HostsInv, NEW h \in Hosts, NEW interval \in Nat,
           rest' = [rest EXCEPT ![h] = interval], polite' = [polite EXCEPT ![h] = interval]
    PROVE  HostsInv'
<1>1. rest' \in [Hosts -> Nat] /\ polite' \in [Hosts -> Nat]
  BY DEF HostsInv
<1>2. ASSUME NEW g \in Hosts
      PROVE  polite'[g] <= rest'[g]
  <2>1. CASE g = h
    BY <2>1 DEF HostsInv
  <2>2. CASE g # h
    BY <2>2 DEF HostsInv, Covered
  <2>3. QED
    BY <2>1, <2>2
<1>3. QED
  BY <1>1, <1>2 DEF HostsInv, Covered

LEMMA SendCovers ==
    ASSUME TasksInv, HostsInv, min_interval > 0, NEW t \in Tasks, SendPage(t) \/ SendRobots(t)
    PROVE  /\ polite[HostOfUrl(task[t].url)] = 0
           /\ HostsInv'
<1> DEFINE h == HostOfUrl(task[t].url)
<1>1. task[t] \in Task /\ Sound(task[t]) /\ task[t].url \in Urls
  BY DEF TasksInv, Sound, SendPage, SendRobots
<1>2. CASE SendPage(t)
  <2> DEFINE interval == PageInterval(task[t].crawl_delay)
  <2>1. interval \in Nat /\ interval >= min_interval
    BY <1>1, IntervalType DEF Task
  <2>2. /\ h \in Hosts /\ polite[h] = 0
        /\ rest' = [rest EXCEPT ![h] = interval]
    BY <1>1, <1>2, <2>1, PassRests DEF SendPage
  <2>3. task[t].judged = task[t].url /\ task[t].crawl_delay = task[t].rules.crawl_delay
    BY <1>1, <1>2 DEF SendPage, Sound, Judged
  <2>4. polite' = [polite EXCEPT ![h] = interval]
    BY <1>2, <2>3 DEF SendPage
  <2>5. QED
    BY <2>1, <2>2, <2>4, RestCovers
<1>3. CASE SendRobots(t)
  <2>1. min_interval \in Nat /\ min_interval >= min_interval
    BY PolicyAssumption
  <2>2. /\ h \in Hosts /\ polite[h] = 0
        /\ rest' = [rest EXCEPT ![h] = min_interval]
    BY <1>1, <1>3, <2>1, PassRests DEF SendRobots
  <2>3. polite' = [polite EXCEPT ![h] = min_interval]
    <3>1. Max2(polite[h], min_interval) = min_interval
      BY <2>1, <2>2 DEF Max2
    <3>2. polite' = [polite EXCEPT ![h] = Max2(@, min_interval)]
      BY <1>3 DEF SendRobots
    <3>3. QED
      BY <3>1, <3>2
  <2>4. QED
    BY <2>1, <2>2, <2>3, RestCovers
<1>4. QED
  BY <1>2, <1>3

LEMMA TickCovers ==
    ASSUME HostsInv, Tick
    PROVE  HostsInv'
<1>1. ASSUME NEW h \in Hosts
      PROVE  rest'[h] \in Nat /\ polite'[h] \in Nat /\ polite'[h] <= rest'[h]
  <2>1. rest[h] \in Nat /\ polite[h] \in Nat /\ polite[h] <= rest[h]
    BY DEF HostsInv, Covered
  <2>2. /\ rest'[h] = IF rest[h] > 0 THEN rest[h] - 1 ELSE 0
        /\ polite'[h] = IF polite[h] > 0 THEN polite[h] - 1 ELSE 0
    BY DEF Tick
  <2>3. QED
    BY <2>1, <2>2
<1>2. rest' = [h \in Hosts |-> rest'[h]] /\ polite' = [h \in Hosts |-> polite'[h]]
  BY DEF Tick
<1>3. QED
  BY <1>1, <1>2 DEF HostsInv, Covered

-----------------------------------------------------------------------------
(***************************************************************************)
(* The theorems.                                                           *)
(***************************************************************************)
\* Every step keeps the records of the tasks sound.
LEMMA TasksStep ==
    ASSUME TasksInv, [Next]_vars
    PROVE  TasksInv'
<1>1. ASSUME NEW t \in Tasks, Moves(t), CacheOf(cache')
      PROVE  TasksInv'
  BY <1>1 DEF TasksInv, Moves
<1>2. ASSUME NEW t \in Tasks, NEW u \in Urls, Get(t, u)
      PROVE  TasksInv'
  BY <1>1, <1>2, GetMoves DEF Get, TasksInv
<1>3. ASSUME NEW t \in Tasks, AskRobots(t) \/ SendRobots(t) \/ Permit(t)
      PROVE  TasksInv'
  BY <1>1, <1>3, WaitMoves DEF AskRobots, SendRobots, Permit, TasksInv
<1>4. ASSUME NEW t \in Tasks,
             UseCache(t) \/ \E rules \in {DenyAll, AllowAll} \cup UNION {RobotsFiles[o] : o \in Origins} :
                               LoadRobots(t, rules)
      PROVE  TasksInv'
  BY <1>1, <1>4, RulesMoves
<1>5. ASSUME NEW t \in Tasks, SendPage(t)
      PROVE  TasksInv'
  BY <1>1, <1>5, SendMoves DEF SendPage, TasksInv
<1>6. ASSUME NEW t \in Tasks, Answer(t)
      PROVE  TasksInv'
  BY <1>1, <1>6, LeaveMoves DEF Answer, TasksInv
<1>7. ASSUME NEW t \in Tasks, NEW u \in Urls, Redirect(t, u)
      PROVE  TasksInv'
  BY <1>1, <1>7, RedirectMoves DEF Redirect, TasksInv
<1>8. ASSUME NEW t \in Tasks, Fault(t)
      PROVE  TasksInv'
  BY <1>1, <1>8, FaultMoves DEF Fault, TasksInv
<1>9. ASSUME NEW t \in Tasks, Retry(t)
      PROVE  TasksInv'
  BY <1>1, <1>9, RetryMoves DEF Retry, TasksInv
<1>10. CASE Tick
  <2>1. task' = task /\ cache' = cache
    BY <1>10 DEF Tick
  <2>2. QED
    BY <2>1 DEF TasksInv
<1>11. CASE UNCHANGED vars
  BY <1>11 DEF TasksInv, vars
<1>12. QED
  BY <1>2, <1>3, <1>4, <1>5, <1>6, <1>7, <1>8, <1>9, <1>10, <1>11 DEF Next, Fetching

LEMMA TasksInit == Init => TasksInv
<1>1. CacheOf([o \in Origins |-> [rules |-> AllowAll, from |-> o]])
  BY RulesTyped DEF CacheOf
<1>2. QED
  BY <1>1, IdleSound DEF Init, TasksInv

\* A request, of a page or of robots.txt, only leaves for a host that has had
\* its rest, and every step keeps the hosts covered.
LEMMA HostsStep ==
    ASSUME TasksInv, HostsInv, min_interval > 0, [Next]_vars
    PROVE  /\ HostsInv'
           /\ \A t \in Tasks : Sends(t) \/ AsksRobots(t) => polite[HostOfUrl(task[t].url)] = 0
<1>1. ASSUME NEW t \in Tasks, SendPage(t) \/ SendRobots(t)
      PROVE  /\ HostsInv'
             /\ \A s \in Tasks : Sends(s) \/ AsksRobots(s) => polite[HostOfUrl(task[s].url)] = 0
  <2>1. HostsInv' /\ polite[HostOfUrl(task[t].url)] = 0
    BY <1>1, SendCovers
  <2>2. \A s \in Tasks \ {t} : task'[s] = task[s]
    BY <1>1, SendMoves, WaitMoves DEF Moves
  <2>3. QED
    BY <2>1, <2>2 DEF Sends, AsksRobots
<1>2. CASE Tick
  <2>1. HostsInv' /\ task' = task
    BY <1>2, TickCovers DEF Tick
  <2>2. QED
    BY <2>1 DEF Sends, AsksRobots
<1>3. ASSUME NEW t \in Tasks, rest' = rest, polite' = polite, Moves(t),
             task'[t].pc \notin {"reading", "loading"}
      PROVE  /\ HostsInv'
             /\ \A s \in Tasks : Sends(s) \/ AsksRobots(s) => polite[HostOfUrl(task[s].url)] = 0
  BY <1>3 DEF HostsInv, Covered, Moves, Sends, AsksRobots
<1>4. CASE UNCHANGED vars
  BY <1>4 DEF HostsInv, Covered, vars, Sends, AsksRobots
<1>5. ASSUME NEW t \in Tasks, NEW u \in Urls, Get(t, u)
      PROVE  rest' = rest /\ polite' = polite /\ Moves(t) /\ task'[t].pc \notin {"reading", "loading"}
  BY <1>5, GetMoves DEF Get, TasksInv, Task
<1>6. ASSUME NEW t \in Tasks, AskRobots(t) \/ Permit(t)
      PROVE  rest' = rest /\ polite' = polite /\ Moves(t) /\ task'[t].pc \notin {"reading", "loading"}
  BY <1>6, WaitMoves DEF AskRobots, Permit, TasksInv, Task
<1>7. ASSUME NEW t \in Tasks,
             UseCache(t) \/ \E rules \in {DenyAll, AllowAll} \cup UNION {RobotsFiles[o] : o \in Origins} :
                               LoadRobots(t, rules)
      PROVE  rest' = rest /\ polite' = polite /\ Moves(t) /\ task'[t].pc \notin {"reading", "loading"}
  <2>1. Moves(t)
    BY <1>7, RulesMoves
  <2>2. \A rules, from : Judge(t, rules, from) => task'[t].pc \notin {"reading", "loading"}
    BY DEF Judge, Leave, Idle, TasksInv, Task
  <2>3. QED
    BY <1>7, <2>1, <2>2 DEF UseCache, LoadRobots
<1>8. ASSUME NEW t \in Tasks, Answer(t) \/ Fault(t) \/ Retry(t) \/ \E u \in Urls : Redirect(t, u)
      PROVE  rest' = rest /\ polite' = polite /\ Moves(t) /\ task'[t].pc \notin {"reading", "loading"}
  <2>1. CASE Answer(t)
    BY <2>1, LeaveMoves DEF Answer, Leave, Idle, TasksInv
  <2>2. CASE Fault(t)
    BY <2>2, FaultMoves DEF Fault, Leave, Idle, TasksInv, Task
  <2>3. CASE Retry(t)
    BY <2>3, RetryMoves DEF Retry, TasksInv, Task
  <2>4. CASE \E u \in Urls : Redirect(t, u)
    <3>1. PICK u \in Urls : Redirect(t, u)
      BY <2>4
    <3>2. Moves(t) /\ rest' = rest /\ polite' = polite
      BY <3>1, RedirectMoves DEF Redirect
    <3>3. task'[t].pc \notin {"reading", "loading"}
      BY <3>1 DEF Redirect, Leave, Idle, TasksInv, Task
    <3>4. QED
      BY <3>2, <3>3
  <2>5. QED
    BY <1>8, <2>1, <2>2, <2>3, <2>4
<1>9. QED
  BY <1>1, <1>2, <1>3, <1>4, <1>5, <1>6, <1>7, <1>8 DEF Next, Fetching

\* Every page that is requested, redirects included, was judged by rules that
\* allow it and that were read from the robots.txt of its own origin: what the
\* cache holds under an origin came from there, however many tasks load, share
\* and expire it (CacheOf).
THEOREM RobotsAreObeyed == Spec => []RobotsObeyed
<1>1. TasksInv => RobotsObeyed
  BY DEF TasksInv, Sound, Judged, RobotsObeyed
<1>2. QED
  BY <1>1, TasksInit, TasksStep, PTL DEF Spec

\* One call of get sends at most (max_redirects + 1) * (retries + 1) requests:
\* each hop has spent no more than its own.
THEOREM RequestsAreBounded == Spec => []RequestsBounded
<1>1. ASSUME TasksInv, NEW t \in Tasks
      PROVE  task[t].requests <= (max_redirects + 1) * (retries + 1)
  <2>1. task[t] \in Task /\ Counted(task[t])
    BY <1>1 DEF TasksInv, Sound
  <2>2. task[t].requests <= (task[t].hops + 1) * (retries + 1)
    <3>1. (task[t].hops + 1) * (retries + 1) = task[t].hops * (retries + 1) + retries + 1
      BY <2>1, TaskNumbers, Allowance
    <3>2. Current(task[t]) \in {0, 1}
      BY DEF Current
    <3>3. QED
      BY <2>1, <3>1, <3>2, TaskNumbers, PolicyAssumption DEF Counted
  <2>3. (task[t].hops + 1) * (retries + 1) <= (max_redirects + 1) * (retries + 1)
    <3>1. ASSUME NEW a \in Nat, NEW b \in Nat, NEW c \in Nat, a <= b
          PROVE  a * c <= b * c
      BY <3>1, SMT
    <3>2. /\ task[t].hops + 1 \in Nat /\ max_redirects + 1 \in Nat /\ retries + 1 \in Nat
          /\ task[t].hops + 1 <= max_redirects + 1
      BY <2>1, TaskNumbers, PolicyAssumption
    <3>3. QED
      BY <3>1, <3>2
  <2>4. (task[t].hops + 1) * (retries + 1) \in Nat /\ (max_redirects + 1) * (retries + 1) \in Nat
    BY <2>1, TaskNumbers, Allowance, PolicyAssumption
  <2>5. QED
    BY <2>1, <2>2, <2>3, <2>4, TaskNumbers
<1>2. TasksInv => RequestsBounded
  BY <1>1 DEF RequestsBounded
<1>3. QED
  BY <1>2, TasksInit, TasksStep, PTL DEF Spec

\* Whatever a request is, and of whichever task, it leaves a host alone for as
\* long as the request before it asks for, when the policy limits requests.
THEOREM HostsDoRest ==
    ASSUME min_interval > 0
    PROVE  Spec => HostsRest
<1>1. Init => HostsInv
  BY DEF Init, HostsInv, Covered
<1>2. TasksInv /\ HostsInv /\ [Next]_vars =>
          /\ HostsInv'
          /\ [\A t \in Tasks : Sends(t) \/ AsksRobots(t) => polite[HostOfUrl(task[t].url)] = 0]_vars
  BY HostsStep
<1>3. QED
  BY <1>1, <1>2, TasksInit, TasksStep, PTL DEF Spec, HostsRest

-----------------------------------------------------------------------------
(***************************************************************************)
(* The semaphore and the types.                                            *)
(***************************************************************************)
OnceEach(s) == \A i, j \in 1..Len(s) : s[i] = s[j] => i = j

\* The task is past the semaphore: it reads, waits for the throttle or for a
\* retry, or checks where it was redirected to.
Inside(r) ==
    \/ r.pc \in {"throttled", "reading", "backoff"}
    \/ r.pc \in {"checking", "robots", "loading"} /\ r.hops > 0

\* Who is in line waits for a place or is inside, and who is inside has a place.
LineInv ==
    /\ semaphore \in Seq(Tasks) /\ OnceEach(semaphore)
    /\ \A t \in Tasks : InLine(semaphore, t) => task[t].pc = "permit" \/ Inside(task[t])
    /\ \A t \in Tasks : Inside(task[t]) => Holds(t)

\* Whoever leaves the line, the others stay in it and move up.
LEMMA WithoutFacts ==
    ASSUME NEW s \in Seq(Tasks), OnceEach(s), NEW t \in Tasks
    PROVE  /\ Without(s, t) \in Seq(Tasks) /\ OnceEach(Without(s, t))
           /\ ~InLine(Without(s, t), t)
           /\ \A u \in Tasks \ {t} : InLine(Without(s, t), u) => InLine(s, u)
           /\ \A u \in Tasks \ {t} : \A i \in 1..Len(s) : s[i] = u =>
                  \E j \in 1..Len(Without(s, t)) : j <= i /\ Without(s, t)[j] = u
<1> DEFINE r == Without(s, t)
<1>1. CASE ~InLine(s, t)
  <2>1. r = s
    BY <1>1 DEF Without
  <2>2. QED
    BY <1>1, <2>1
<1>2. CASE InLine(s, t)
  <2>1. PICK n \in 1..Len(s) : s[n] = t /\ r = [i \in 1..(Len(s) - 1) |-> s[IF i < n THEN i ELSE i + 1]]
    BY <1>2 DEF Without, InLine
  <2>2. Len(s) \in Nat /\ Len(s) - 1 \in Nat
    BY <2>1
  <2>3. \A i \in 1..(Len(s) - 1) : r[i] = s[IF i < n THEN i ELSE i + 1] /\ r[i] \in Tasks
    BY <2>1, <2>2
  <2>4. r \in Seq(Tasks) /\ Len(r) = Len(s) - 1
    BY <2>1, <2>2, <2>3
  <2>5. OnceEach(r)
    BY <2>1, <2>2, <2>3, <2>4 DEF OnceEach
  <2>6. ~InLine(r, t)
    BY <2>1, <2>2, <2>3, <2>4 DEF OnceEach, InLine
  <2>7. \A u \in Tasks \ {t} : InLine(r, u) => InLine(s, u)
    BY <2>1, <2>2, <2>3, <2>4 DEF InLine
  <2>8. ASSUME NEW u \in Tasks \ {t}, NEW i \in 1..Len(s), s[i] = u
        PROVE  \E j \in 1..Len(r) : j <= i /\ r[j] = u
    <3>1. CASE i < n
      <4>1. i \in 1..Len(r) /\ r[i] = u
        BY <2>1, <2>2, <2>3, <2>4, <2>8, <3>1
      <4>2. QED
        BY <4>1
    <3>2. CASE i > n
      <4>1. i - 1 \in 1..Len(r) /\ r[i - 1] = u
        BY <2>1, <2>2, <2>3, <2>4, <2>8, <3>2
      <4>2. QED
        BY <4>1
    <3>3. i # n
      BY <2>1, <2>8
    <3>4. QED
      BY <2>2, <3>1, <3>2, <3>3
  <2>9. QED
    BY <2>4, <2>5, <2>6, <2>7, <2>8
<1>3. QED
  BY <1>1, <1>2

\* A task joins the line at its end.
LEMMA JoinFacts ==
    ASSUME NEW s \in Seq(Tasks), OnceEach(s), NEW t \in Tasks, ~InLine(s, t)
    PROVE  /\ Append(s, t) \in Seq(Tasks) /\ OnceEach(Append(s, t))
           /\ \A u \in Tasks \ {t} : InLine(Append(s, t), u) => InLine(s, u)
           /\ \A i \in 1..Len(s) : i \in 1..Len(Append(s, t)) /\ Append(s, t)[i] = s[i]
<1>1. Append(s, t) \in Seq(Tasks) /\ Len(Append(s, t)) = Len(s) + 1 /\ Len(s) \in Nat
  OBVIOUS
<1>2. \A i \in 1..Len(s) : Append(s, t)[i] = s[i]
  BY <1>1
<1>3. Append(s, t)[Len(s) + 1] = t
  BY <1>1
<1>4. \A i \in 1..Len(Append(s, t)) : i \in 1..Len(s) \/ i = Len(s) + 1
  BY <1>1
<1>5. QED
  BY <1>1, <1>2, <1>3, <1>4 DEF OnceEach, InLine

\* What becomes of the line when one task moves: it stays as it is, the task
\* leaves it, or it joins it.
LEMMA LineKept ==
    ASSUME TasksInv, LineInv, NEW t \in Tasks, Moves(t), semaphore' = semaphore,
           InLine(semaphore, t) => task'[t].pc = "permit" \/ Inside(task'[t]),
           Inside(task'[t]) => Holds(t)
    PROVE  LineInv'
BY DEF LineInv, Moves, Holds

LEMMA LineLeft ==
    ASSUME TasksInv, LineInv, NEW t \in Tasks, Leave(t)
    PROVE  LineInv'
<1>1. /\ semaphore' \in Seq(Tasks) /\ OnceEach(semaphore') /\ ~InLine(semaphore', t)
      /\ \A u \in Tasks \ {t} : InLine(semaphore', u) => InLine(semaphore, u)
      /\ \A u \in Tasks \ {t} : \A i \in 1..Len(semaphore) : semaphore[i] = u =>
             \E j \in 1..Len(semaphore') : j <= i /\ semaphore'[j] = u
  <2>1. semaphore \in Seq(Tasks) /\ OnceEach(semaphore)
    BY DEF LineInv
  <2>2. PICK s \in Seq(Tasks) : s = semaphore
    BY <2>1
  <2>3. semaphore' = Without(s, t)
    BY <2>2 DEF Leave
  <2>4. OnceEach(s)
    BY <2>1, <2>2
  <2>5. /\ Without(s, t) \in Seq(Tasks) /\ OnceEach(Without(s, t)) /\ ~InLine(Without(s, t), t)
        /\ \A u \in Tasks \ {t} : InLine(Without(s, t), u) => InLine(s, u)
        /\ \A u \in Tasks \ {t} : \A i \in 1..Len(s) : s[i] = u =>
              \E j \in 1..Len(Without(s, t)) : j <= i /\ Without(s, t)[j] = u
    BY <2>4, WithoutFacts
  <2>6. QED
    BY <2>2, <2>3, <2>5
<1>2. task'[t] = Idle /\ \A u \in Tasks \ {t} : task'[u] = task[u]
  BY DEF Leave, TasksInv
<1>3. ~Inside(Idle)
  BY DEF Inside, Idle
<1>4. ASSUME NEW u \in Tasks \ {t}, Holds(u)
      PROVE  Holds(u)'
  <2>1. PICK i \in 1..Len(semaphore) : i <= max_concurrency /\ semaphore[i] = u
    BY <1>4 DEF Holds
  <2>2. PICK j \in 1..Len(semaphore') : j <= i /\ semaphore'[j] = u
    BY <1>1, <2>1
  <2>3. j <= max_concurrency
    BY <2>1, <2>2, PolicyAssumption
  <2>4. QED
    BY <2>2, <2>3 DEF Holds
<1>5. QED
  BY <1>1, <1>2, <1>3, <1>4 DEF LineInv

LEMMA LineJoined ==
    ASSUME TasksInv, LineInv, NEW t \in Tasks, Moves(t), ~InLine(semaphore, t),
           semaphore' = Append(semaphore, t), task'[t].pc = "permit"
    PROVE  LineInv'
<1>1. /\ semaphore' \in Seq(Tasks) /\ OnceEach(semaphore')
      /\ \A u \in Tasks \ {t} : InLine(semaphore', u) => InLine(semaphore, u)
      /\ \A i \in 1..Len(semaphore) : i \in 1..Len(semaphore') /\ semaphore'[i] = semaphore[i]
  BY JoinFacts DEF LineInv
<1>2. ~Inside(task'[t]) /\ \A u \in Tasks \ {t} : task'[u] = task[u]
  BY DEF Moves, Inside
<1>3. \A u \in Tasks : Holds(u) => Holds(u)'
  BY <1>1 DEF Holds
<1>4. QED
  BY <1>1, <1>2, <1>3 DEF LineInv

\* Judging moves a task inside along, and puts a new one in line.
LEMMA LineJudged ==
    ASSUME TasksInv, LineInv, NEW t \in Tasks, task[t].pc \in {"checking", "loading"},
           NEW rules \in Rules, NEW from, from = OriginOf[task[t].url], Judge(t, rules, from)
    PROVE  LineInv'
<1>1. CASE ~Allows(rules, task[t].url)
  BY <1>1, LineLeft DEF Judge
<1>2. CASE Allows(rules, task[t].url) /\ task[t].hops = 0
  <2>1. ~InLine(semaphore, t)
    BY <1>2 DEF LineInv, Inside
  <2>2. task'[t].pc = "permit" /\ semaphore' = Append(semaphore, t)
    BY <1>2 DEF Judge, TasksInv, Task
  <2>3. QED
    BY <2>1, <2>2, JudgeMoves, LineJoined
<1>3. CASE Allows(rules, task[t].url) /\ task[t].hops # 0
  <2>1. task[t].hops > 0
    BY <1>3, TaskNumbers DEF TasksInv
  <2>2. Holds(t)
    BY <2>1 DEF LineInv, Inside
  <2>3. task'[t].pc = "throttled" /\ semaphore' = semaphore
    BY <1>3 DEF Judge, TasksInv, Task
  <2>4. Inside(task'[t])
    BY <2>3 DEF Inside
  <2>5. QED
    BY <2>2, <2>3, <2>4, JudgeMoves, LineKept
<1>4. QED
  BY <1>1, <1>2, <1>3

\* Every step keeps the line.
LEMMA LineStep ==
    ASSUME TasksInv, LineInv, [Next]_vars
    PROVE  LineInv'
<1>1. ASSUME NEW t \in Tasks, NEW u \in Urls, Get(t, u)
      PROVE  LineInv'
  <2>1. task[t] = Idle /\ task'[t] = [Idle EXCEPT !.pc = "checking", !.url = u]
    BY <1>1 DEF Get, TasksInv, Sound
  <2>2. ~Inside(task[t]) /\ task[t].pc # "permit" /\ ~Inside(task'[t])
    BY <2>1 DEF Inside, Idle
  <2>3. ~InLine(semaphore, t)
    BY <2>2 DEF LineInv
  <2>4. QED
    BY <1>1, <2>2, <2>3, GetMoves, LineKept DEF Get
<1>2. ASSUME NEW t \in Tasks, AskRobots(t) \/ SendRobots(t)
      PROVE  LineInv'
  <2>1. /\ task[t].pc \in {"checking", "robots"} /\ task'[t].pc \in {"robots", "loading"}
        /\ task'[t].hops = task[t].hops /\ semaphore' = semaphore
    BY <1>2 DEF AskRobots, SendRobots, TasksInv, Task
  <2>2. Inside(task'[t]) <=> Inside(task[t])
    BY <2>1 DEF Inside
  <2>3. QED
    BY <1>2, <2>1, <2>2, WaitMoves, LineKept DEF LineInv
<1>3. ASSUME NEW t \in Tasks, Permit(t)
      PROVE  LineInv'
  <2>1. task'[t].pc = "throttled" /\ semaphore' = semaphore /\ Holds(t)
    BY <1>3 DEF Permit, TasksInv, Task
  <2>2. QED
    BY <1>3, <2>1, WaitMoves, LineKept DEF Inside
<1>4. ASSUME NEW t \in Tasks, UseCache(t)
      PROVE  LineInv'
  <2>1. /\ cache[OriginOf[task[t].url]].rules \in Rules
        /\ cache[OriginOf[task[t].url]].from = OriginOf[task[t].url]
    BY <1>4, HostKnown DEF TasksInv, CacheOf, Sound, UseCache
  <2>2. QED
    BY <1>4, <2>1, LineJudged DEF UseCache, Key
<1>5. ASSUME NEW t \in Tasks,
             \E rules \in {DenyAll, AllowAll} \cup UNION {RobotsFiles[o] : o \in Origins} :
                 LoadRobots(t, rules)
      PROVE  LineInv'
  <2>1. PICK rules : LoadRobots(t, rules)
    BY <1>5
  <2>2. task[t].url \in Urls /\ OriginOf[task[t].url] \in Origins
    BY <2>1, HostKnown DEF TasksInv, Sound, LoadRobots
  <2>3. rules \in Rules
    BY <2>1, <2>2, RulesTyped DEF LoadRobots
  <2>4. QED
    BY <2>1, <2>3, LineJudged DEF LoadRobots
<1>6. ASSUME NEW t \in Tasks, SendPage(t) \/ Retry(t)
      PROVE  LineInv'
  <2>1. /\ task[t].pc \in {"throttled", "backoff"} /\ task'[t].pc \in {"reading", "throttled"}
        /\ semaphore' = semaphore
    BY <1>6 DEF SendPage, Retry, TasksInv, Task
  <2>2. Inside(task[t]) /\ Inside(task'[t])
    BY <2>1 DEF Inside
  <2>3. QED
    BY <1>6, <2>1, <2>2, SendMoves, RetryMoves, LineKept DEF LineInv
<1>7. ASSUME NEW t \in Tasks, Answer(t)
      PROVE  LineInv'
  BY <1>7, LineLeft DEF Answer
<1>8. ASSUME NEW t \in Tasks, NEW u \in Urls, Redirect(t, u)
      PROVE  LineInv'
  <2>1. CASE task[t].hops + 1 > max_redirects \/ u \in Unsafe
    BY <1>8, <2>1, LineLeft DEF Redirect
  <2>2. CASE ~(task[t].hops + 1 > max_redirects \/ u \in Unsafe)
    <3>1. /\ task[t].pc = "reading" /\ task'[t].pc = "checking"
          /\ task'[t].hops = task[t].hops + 1 /\ semaphore' = semaphore
      BY <1>8, <2>2 DEF Redirect, TasksInv, Task
    <3>2. task[t].hops \in Nat
      BY TaskNumbers DEF TasksInv
    <3>3. Inside(task[t]) /\ Inside(task'[t])
      BY <3>1, <3>2 DEF Inside
    <3>4. QED
      BY <1>8, <3>1, <3>3, RedirectMoves, LineKept DEF LineInv
  <2>3. QED
    BY <2>1, <2>2
<1>9. ASSUME NEW t \in Tasks, Fault(t)
      PROVE  LineInv'
  <2>1. CASE task[t].attempt < retries
    <3>1. task[t].pc = "reading" /\ task'[t].pc = "backoff" /\ semaphore' = semaphore
      BY <1>9, <2>1 DEF Fault, TasksInv, Task
    <3>2. QED
      BY <1>9, <3>1, FaultMoves, LineKept DEF LineInv, Inside
  <2>2. CASE ~(task[t].attempt < retries)
    BY <1>9, <2>2, LineLeft DEF Fault
  <2>3. QED
    BY <2>1, <2>2
<1>10. CASE Tick \/ UNCHANGED vars
  <2>1. task' = task /\ semaphore' = semaphore
    BY <1>10 DEF Tick, vars
  <2>2. QED
    BY <2>1 DEF LineInv, Holds
<1>11. QED
  BY <1>1, <1>2, <1>3, <1>4, <1>5, <1>6, <1>7, <1>8, <1>9, <1>10 DEF Next, Fetching

LEMMA LineInit == Init => LineInv
<1> SUFFICES ASSUME Init PROVE LineInv
  OBVIOUS
<1>1. semaphore = <<>> /\ Len(semaphore) = 0
  BY DEF Init
<1>2. \A t \in Tasks : ~Inside(task[t])
  BY DEF Init, Inside, Idle
<1>3. QED
  BY <1>1, <1>2 DEF LineInv, OnceEach, InLine

\* At most max_concurrency tasks are past the semaphore at any time, however
\* many there are, through all redirects and retries; and none of them takes a
\* place with it when its get is over.
THEOREM ConcurrencyIsCapped == Spec => []ConcurrencyCapped
<1>1. ASSUME TasksInv, LineInv
      PROVE  ConcurrencyCapped
  <2> DEFINE S == {t \in Tasks : task[t].pc \in {"throttled", "reading", "backoff"}}
             f == [t \in S |-> CHOOSE i \in 1..Len(semaphore) : i <= max_concurrency /\ semaphore[i] = t]
  <2>1. \A t \in S : f[t] \in 1..max_concurrency /\ f[t] \in 1..Len(semaphore) /\ semaphore[f[t]] = t
    <3> SUFFICES ASSUME NEW t \in S
                 PROVE  f[t] \in 1..max_concurrency /\ f[t] \in 1..Len(semaphore) /\ semaphore[f[t]] = t
      OBVIOUS
    <3>1. Holds(t)
      BY <1>1 DEF LineInv, Inside
    <3>2. f[t] \in 1..Len(semaphore) /\ f[t] <= max_concurrency /\ semaphore[f[t]] = t
      BY <3>1 DEF Holds
    <3>3. QED
      BY <3>2, PolicyAssumption
  <2>2. f \in Injection(S, 1..max_concurrency)
    <3>1. f \in [S -> 1..max_concurrency] /\ DOMAIN f = S
      BY <2>1
    <3> HIDE DEF f
    <3>2. \A a, b \in S : f[a] = f[b] => a = b
      BY <2>1
    <3>3. \A a, b \in DOMAIN f : f[a] = f[b] => a = b
      BY <3>1, <3>2
    <3>4. QED
      BY <3>1, <3>3 DEF Injection, IsInjective
  <2>3. IsFiniteSet(1..max_concurrency) /\ Cardinality(1..max_concurrency) = max_concurrency
    BY PolicyAssumption, FS_Interval
  <2>4. Cardinality(S) <= max_concurrency
    BY <2>2, <2>3, FS_Injection
  <2>5. \A t \in Tasks : task[t].pc = "idle" => ~InLine(semaphore, t)
    BY <1>1 DEF LineInv, Inside
  <2>6. QED
    BY <2>4, <2>5 DEF ConcurrencyCapped
<1>2. QED
  BY <1>1, TasksInit, TasksStep, LineInit, LineStep, PTL DEF Spec


\* The throttles, and what is kept of time.
ThrottleType ==
    /\ rest \in [Hosts -> Nat] /\ polite \in [Hosts -> Nat]
    /\ lock \in [Hosts -> Seq(Tasks)] /\ age \in [Origins -> 0..robots_ttl]

LEMMA QueueType ==
    ASSUME ThrottleType, NEW t \in Tasks, NEW u \in Urls, NEW interval, Queue(t, u, interval)
    PROVE  lock' \in [Hosts -> Seq(Tasks)]
<1>1. HostOfUrl(u) \in Hosts /\ lock[HostOfUrl(u)] \in Seq(Tasks)
  BY HostKnown DEF ThrottleType
<1>2. Append(lock[HostOfUrl(u)], t) \in Seq(Tasks)
  BY <1>1
<1>3. QED
  BY <1>1, <1>2 DEF Queue, ThrottleType

LEMMA PassType ==
    ASSUME ThrottleType, NEW t \in Tasks, task[t].url \in Urls, NEW interval \in Nat, Pass(t, interval)
    PROVE  lock' \in [Hosts -> Seq(Tasks)] /\ rest' \in [Hosts -> Nat]
<1> DEFINE h == HostOfUrl(task[t].url)
<1>1. h \in Hosts /\ lock[h] \in Seq(Tasks)
  BY HostKnown DEF ThrottleType
<1>2. lock[h] # <<>> => Tail(lock[h]) \in Seq(Tasks)
  BY <1>1
<1>3. QED
  BY <1>1, <1>2 DEF Pass, ThrottleType

LEMMA ThrottleStep ==
    ASSUME TasksInv, ThrottleType, [Next]_vars
    PROVE  ThrottleType'
<1>1. \A t \in Tasks : task[t] \in Task /\ (task[t].pc # "idle" => task[t].url \in Urls)
  BY DEF TasksInv, Sound
<1>2. ASSUME NEW t \in Tasks, NEW rules, NEW from, Judge(t, rules, from), task[t].pc # "idle",
             UNCHANGED <<rest, polite>>, age' \in [Origins -> 0..robots_ttl]
      PROVE  ThrottleType'
  BY <1>1, <1>2, QueueType DEF Judge, ThrottleType
<1>3. ASSUME NEW t \in Tasks, NEW u \in Urls, Get(t, u) \/ Redirect(t, u)
      PROVE  ThrottleType'
  BY <1>3 DEF Get, Redirect, ThrottleType
<1>4. ASSUME NEW t \in Tasks, Answer(t) \/ Fault(t)
      PROVE  ThrottleType'
  BY <1>4 DEF Answer, Fault, ThrottleType
<1>5. ASSUME NEW t \in Tasks, AskRobots(t) \/ Permit(t) \/ Retry(t)
      PROVE  ThrottleType'
  BY <1>1, <1>5, QueueType DEF AskRobots, Permit, Retry, ThrottleType
<1>6. ASSUME NEW t \in Tasks, UseCache(t)
      PROVE  ThrottleType'
  BY <1>2, <1>6 DEF UseCache, ThrottleType
<1>7. ASSUME NEW t \in Tasks, NEW rules, LoadRobots(t, rules)
      PROVE  ThrottleType'
  <2>1. age' \in [Origins -> 0..robots_ttl]
    <3>1. 0 \in 0..robots_ttl
      BY PolicyAssumption
    <3>2. age' = [age EXCEPT ![OriginOf[task[t].url]] = 0]
      BY <1>7 DEF LoadRobots, Key
    <3>3. QED
      BY <3>1, <3>2 DEF ThrottleType
  <2>2. QED
    BY <1>2, <1>7, <2>1 DEF LoadRobots
<1>8. ASSUME NEW t \in Tasks, SendPage(t)
      PROVE  ThrottleType'
  <2>1. /\ task[t].url \in Urls /\ task[t].crawl_delay \in Nat /\ task[t].rules.crawl_delay \in Nat
        /\ min_interval \in Nat
    BY <1>1, <1>8, PolicyAssumption DEF SendPage, Task, Rules
  <2>2. PageInterval(task[t].crawl_delay) \in Nat /\ PageInterval(task[t].rules.crawl_delay) \in Nat
    BY <2>1, IntervalType
  <2>3. lock' \in [Hosts -> Seq(Tasks)] /\ rest' \in [Hosts -> Nat]
    BY <1>8, <2>1, <2>2, PassType DEF SendPage
  <2>4. polite' \in [Hosts -> Nat]
    BY <1>8, <2>1, <2>2 DEF SendPage, ThrottleType
  <2>5. QED
    BY <1>8, <2>3, <2>4 DEF SendPage, ThrottleType
<1>9. ASSUME NEW t \in Tasks, SendRobots(t)
      PROVE  ThrottleType'
  <2>1. task[t].url \in Urls /\ HostOfUrl(task[t].url) \in Hosts /\ min_interval \in Nat
    BY <1>1, <1>9, HostKnown, PolicyAssumption DEF SendRobots
  <2>2. lock' \in [Hosts -> Seq(Tasks)] /\ rest' \in [Hosts -> Nat]
    BY <1>9, <2>1, PassType DEF SendRobots
  <2>3. polite' \in [Hosts -> Nat]
    BY <1>9, <2>1 DEF SendRobots, ThrottleType, Max2
  <2>4. QED
    BY <1>9, <2>2, <2>3 DEF SendRobots, ThrottleType
<1>10. CASE Tick
  <2>1. rest' \in [Hosts -> Nat] /\ polite' \in [Hosts -> Nat]
    BY <1>10 DEF Tick, ThrottleType
  <2>2. age' \in [Origins -> 0..robots_ttl]
    BY <1>10, PolicyAssumption DEF Tick, ThrottleType
  <2>3. QED
    BY <1>10, <2>1, <2>2 DEF Tick, ThrottleType
<1>11. CASE UNCHANGED vars
  BY <1>11 DEF vars, ThrottleType
<1>12. QED
  BY <1>3, <1>4, <1>5, <1>6, <1>7, <1>8, <1>9, <1>10, <1>11 DEF Next, Fetching

\* The tasks, throttles, semaphore and cache of a fetcher keep their types: the
\* hops and attempts of a get stay within the limits of its policy.
THEOREM TypeCorrect == Spec => []TypeOK
<1>1. Init => ThrottleType
  BY PolicyAssumption DEF Init, ThrottleType
<1>2. TasksInv /\ LineInv /\ ThrottleType => TypeOK
  BY DEF TasksInv, CacheOf, LineInv, ThrottleType, TypeOK
<1>3. QED
  BY <1>1, <1>2, TasksInit, TasksStep, LineInit, LineStep, ThrottleStep, PTL DEF Spec

=============================================================================
