------------------------------- MODULE Fetch -------------------------------
(***************************************************************************)
(* The HTTP client of the adapters: Fetcher.get (src/app/fetch/client.py)  *)
(* with its redirects and retries, the throttle of each host (limits.py)   *)
(* and the cache of robots.txt rules (robots.py).  Tasks of one event loop *)
(* share a Fetcher; a step ends where a task awaits.                       *)
(*                                                                         *)
(* Time is relative: what is kept is how long a host still has to rest and *)
(* how old a cached robots.txt is, and Tick lets time pass.                *)
(***************************************************************************)
EXTENDS Integers, Sequences, FiniteSets

CONSTANTS
    Tasks,            \* callers of get
    Urls, Origins, Hosts,
    OriginOf, HostOf, \* OriginOf[u], HostOf[o]: scheme and authority, hostname
    Unsafe,           \* urls that ensure_safe_url refuses
    RedirectsTo,      \* RedirectsTo[u]: locations u may redirect to
    NoUrl, NoOrigin,  \* for a task that has no url, or no rules, yet
    RobotsFiles,      \* RobotsFiles[o]: what a robots.txt of o may say
    \* FetchPolicy
    min_interval, max_concurrency, max_redirects, retries, robots_ttl

\* Rules of robots.txt, as the parser answers for this client.
Rules == [disallowed : SUBSET Urls, crawl_delay : Nat]

ASSUME WebAssumption ==
    /\ OriginOf \in [Urls -> Origins] /\ HostOf \in [Origins -> Hosts]
    /\ Unsafe \subseteq Urls
    /\ NoUrl \notin Urls /\ RedirectsTo \in [Urls -> SUBSET Urls]
    /\ RobotsFiles \in [Origins -> SUBSET Rules]

ASSUME PolicyAssumption ==
    /\ min_interval \in Nat /\ max_concurrency \in Nat \ {0}
    /\ max_redirects \in Nat /\ retries \in Nat /\ robots_ttl \in Nat \ {0}

VARIABLES
    task,      \* task[t]: what the get of task t is doing
    rest,      \* rest[h]: time until the throttle lets a request to h pass
    lock,      \* lock[h]: tasks in the throttle of h; the first holds its lock
    semaphore, \* tasks that hold the semaphore, then those that wait for it
    cache,     \* cache[o]: rules cached for origin o, and whose they are (history)
    age,       \* age[o]: time since they were loaded, up to robots_ttl
    polite     \* polite[h]: time for which h should be left alone (history)

vars == <<task, rest, lock, semaphore, cache, age, polite>>

Max2(a, b) == IF a > b THEN a ELSE b

HostOfUrl(u) == HostOf[OriginOf[u]]

AllowAll == [disallowed |-> {}, crawl_delay |-> 0]
DenyAll == [disallowed |-> Urls, crawl_delay |-> 0]

Allows(rules, u) == u \notin rules.disallowed

Idle == [pc |-> "idle", url |-> NoUrl, hops |-> 0, attempt |-> 0, crawl_delay |-> 0,
         rules |-> AllowAll, judged |-> NoUrl, from |-> NoOrigin, requests |-> 0]

Init ==
    /\ task = [t \in Tasks |-> Idle]
    /\ rest = [h \in Hosts |-> 0]
    /\ lock = [h \in Hosts |-> <<>>]
    /\ semaphore = <<>>
    /\ cache = [o \in Origins |-> [rules |-> AllowAll, from |-> o]]
    /\ age = [o \in Origins |-> robots_ttl]
    /\ polite = [h \in Hosts |-> 0]

-----------------------------------------------------------------------------
(***************************************************************************)
(* Waiting: the semaphore of the fetcher and the throttle of a host, both  *)
(* first come, first served.                                               *)
(***************************************************************************)
\* A task is in a line once at most.
InLine(s, t) == \E i \in 1..Len(s) : s[i] = t

Without(s, t) ==
    LET n == CHOOSE i \in 1..Len(s) : s[i] = t
    IN  IF InLine(s, t) THEN [i \in 1..(Len(s) - 1) |-> s[IF i < n THEN i ELSE i + 1]] ELSE s

Holds(t) == \E i \in 1..Len(semaphore) : i <= max_concurrency /\ semaphore[i] = t

\* DomainThrottle.wait of t begins; without an interval it is over at once.
Queue(t, u, interval) ==
    lock' = IF interval = 0 THEN lock ELSE [lock EXCEPT ![HostOfUrl(u)] = Append(@, t)]

\* It returns, and the next request waits for interval.
Pass(t, interval) ==
    LET h == HostOfUrl(task[t].url) IN
    \/ interval = 0 /\ UNCHANGED <<rest, lock>>
    \/ /\ interval > 0
       /\ lock[h] # <<>> /\ Head(lock[h]) = t
       /\ rest[h] = 0
       /\ rest' = [rest EXCEPT ![h] = interval]
       /\ lock' = [lock EXCEPT ![h] = Tail(@)]

PageInterval(crawl_delay) == Max2(min_interval, crawl_delay)

LeaveHolding(t) ==               \* mutated: the semaphore is not given back
    /\ task' = [task EXCEPT ![t] = Idle]
    /\ UNCHANGED semaphore

\* get ends with a response or an exception.
Leave(t) ==
    /\ task' = [task EXCEPT ![t] = Idle]
    /\ semaphore' = Without(semaphore, t)

-----------------------------------------------------------------------------
(***************************************************************************)
(* Fetcher.get.                                                            *)
(***************************************************************************)
\* A url that is not safe raises at once and changes nothing.
Get(t, u) ==
    /\ task[t].pc = "idle"
    /\ u \notin Unsafe
    /\ task' = [task EXCEPT ![t].pc = "checking", ![t].url = u]
    /\ UNCHANGED <<rest, lock, semaphore, cache, age, polite>>

\* _check_robots, once rules_for has returned the rules of an origin; then the
\* request, at the first hop after the semaphore.
Judge(t, rules, from) ==
    LET u == task[t].url IN
    IF ~Allows(rules, u)
    THEN Leave(t) /\ UNCHANGED lock
    ELSE /\ task' = [task EXCEPT ![t].pc = IF task[t].hops = 0 THEN "permit" ELSE "throttled",
                                 ![t].crawl_delay = rules.crawl_delay,
                                 ![t].rules = rules, ![t].judged = u, ![t].from = from]
         /\ IF task[t].hops = 0
            THEN semaphore' = Append(semaphore, t) /\ UNCHANGED lock
            ELSE Queue(t, u, PageInterval(rules.crawl_delay)) /\ UNCHANGED semaphore

Fresh(o) == age[o] < robots_ttl

KeyByHost(u) == CHOOSE o \in Origins : HostOf[o] = HostOfUrl(u)     \* mutated: not the scheme

\* _origin: what rules are cached under.
Key(u) == OriginOf[u]

UseCache(t) ==
    LET o == Key(task[t].url) IN
    /\ task[t].pc = "checking"
    /\ Fresh(o)
    /\ Judge(t, cache[o].rules, cache[o].from)
    /\ UNCHANGED <<rest, cache, age, polite>>

\* The cache has nothing to say: robots.txt is asked for.
AskRobots(t) ==
    /\ task[t].pc = "checking"
    /\ ~Fresh(Key(task[t].url))
    /\ task' = [task EXCEPT ![t].pc = "robots"]
    /\ Queue(t, task[t].url, min_interval)
    /\ UNCHANGED <<rest, semaphore, cache, age, polite>>

SendRobots(t) ==
    LET h == HostOfUrl(task[t].url) IN
    /\ task[t].pc = "robots"
    /\ Pass(t, min_interval)
    /\ task' = [task EXCEPT ![t].pc = "loading"]
    /\ polite' = [polite EXCEPT ![h] = Max2(@, min_interval)]
    /\ UNCHANGED <<semaphore, cache, age>>

\* _load of the robots.txt of the url's origin: an error or a status of 500 and
\* more denies, 400 and more allows, and what else comes is parsed.
LoadRobots(t, rules) ==
    LET from == OriginOf[task[t].url]
        o == Key(task[t].url) IN
    /\ task[t].pc = "loading"
    /\ rules \in RobotsFiles[from] \cup {DenyAll, AllowAll}
    /\ cache' = [cache EXCEPT ![o] = [rules |-> rules, from |-> from]]
    /\ age' = [age EXCEPT ![o] = 0]
    /\ Judge(t, rules, from)
    /\ UNCHANGED <<rest, polite>>

PermitAll(t) ==                  \* mutated: nobody waits for the semaphore
    /\ task[t].pc = "permit"
    /\ task' = [task EXCEPT ![t].pc = "throttled"]
    /\ Queue(t, task[t].url, PageInterval(task[t].crawl_delay))
    /\ UNCHANGED <<rest, semaphore, cache, age, polite>>

\* The semaphore lets t in.
Permit(t) ==
    /\ task[t].pc = "permit"
    /\ Holds(t)
    /\ task' = [task EXCEPT ![t].pc = "throttled"]
    /\ Queue(t, task[t].url, PageInterval(task[t].crawl_delay))
    /\ UNCHANGED <<rest, semaphore, cache, age, polite>>

\* The throttle lets a request for the page pass.  By the rules of its origin
\* the host should rest from then on.
SendPage(t) ==
    LET h == HostOfUrl(task[t].url) IN
    /\ task[t].pc = "throttled"
    /\ Pass(t, PageInterval(task[t].crawl_delay))
    /\ task' = [task EXCEPT ![t].pc = "reading", ![t].requests = @ + 1]
    /\ polite' = [polite EXCEPT ![h] =
                     IF task[t].judged = task[t].url
                     THEN PageInterval(task[t].rules.crawl_delay) ELSE min_interval]
    /\ UNCHANGED <<semaphore, cache, age>>

\* A response that is neither retried nor followed; a body that is too large raises.
Answer(t) ==
    /\ task[t].pc = "reading"
    /\ Leave(t)
    /\ UNCHANGED <<rest, lock, cache, age, polite>>

RedirectUncapped(t, u) ==           \* mutated: redirects are not counted
    /\ task[t].pc = "reading"
    /\ u \in RedirectsTo[task[t].url]
    /\ IF u \in Unsafe
       THEN Leave(t)
       ELSE /\ task' = [task EXCEPT ![t].pc = "checking", ![t].url = u,
                                    ![t].attempt = 0]
            /\ UNCHANGED semaphore
    /\ UNCHANGED <<rest, lock, cache, age, polite>>

\* A redirect: counted, and checked like the first url.
Redirect(t, u) ==
    /\ task[t].pc = "reading"
    /\ u \in RedirectsTo[task[t].url]
    /\ IF task[t].hops + 1 > max_redirects \/ u \in Unsafe
       THEN Leave(t)
       ELSE /\ task' = [task EXCEPT ![t].pc = "checking", ![t].url = u,
                                    ![t].hops = @ + 1, ![t].attempt = 0]
            /\ UNCHANGED semaphore
    /\ UNCHANGED <<rest, lock, cache, age, polite>>

FaultOnceMore(t) ==              \* mutated: one retry too many
    /\ task[t].pc = "reading"
    /\ IF task[t].attempt <= retries
       THEN task' = [task EXCEPT ![t].pc = "backoff"] /\ UNCHANGED semaphore
       ELSE Leave(t)
    /\ UNCHANGED <<rest, lock, cache, age, polite>>

\* A transport error or a status to be retried.
Fault(t) ==
    /\ task[t].pc = "reading"
    /\ IF task[t].attempt < retries
       THEN task' = [task EXCEPT ![t].pc = "backoff"] /\ UNCHANGED semaphore
       ELSE Leave(t)
    /\ UNCHANGED <<rest, lock, cache, age, polite>>

RetryAtOnce(t) ==                \* mutated: retries skip the throttle
    /\ task[t].pc = "backoff"
    /\ task' = [task EXCEPT ![t].pc = "reading", ![t].attempt = @ + 1, ![t].requests = @ + 1]
    /\ UNCHANGED <<rest, lock, semaphore, cache, age, polite>>

\* The sleep of a retry is over.
Retry(t) ==
    /\ task[t].pc = "backoff"
    /\ task' = [task EXCEPT ![t].pc = "throttled", ![t].attempt = @ + 1]
    /\ Queue(t, task[t].url, PageInterval(task[t].crawl_delay))
    /\ UNCHANGED <<rest, semaphore, cache, age, polite>>

\* A unit of time goes by.
Tick ==
    LET passed(n) == IF n > 0 THEN n - 1 ELSE 0 IN
    /\ rest' = [h \in Hosts |-> passed(rest[h])]
    /\ polite' = [h \in Hosts |-> passed(polite[h])]
    /\ age' = [o \in Origins |-> IF age[o] < robots_ttl THEN age[o] + 1 ELSE robots_ttl]
    /\ UNCHANGED <<task, lock, semaphore, cache>>

\* Steps of a get that is under way.
Fetching(t) ==
    \/ UseCache(t) \/ AskRobots(t) \/ SendRobots(t)
    \/ \E rules \in {DenyAll, AllowAll} \cup UNION {RobotsFiles[o] : o \in Origins} :
          LoadRobots(t, rules)
    \/ Permit(t) \/ SendPage(t) \/ Answer(t) \/ Fault(t) \/ Retry(t)
    \/ \E u \in Urls : Redirect(t, u)

Next ==
    \/ \E t \in Tasks : (\E u \in Urls : Get(t, u)) \/ Fetching(t)
    \/ Tick

Spec == Init /\ [][Next]_vars

\* The event loop runs every task, servers answer or time out, time passes.
Fairness == WF_vars(Tick) /\ \A t \in Tasks : WF_vars(Fetching(t))

FairSpec == Spec /\ Fairness

-----------------------------------------------------------------------------
Task == [pc : {"idle", "checking", "robots", "loading", "permit", "throttled", "reading", "backoff"},
         url : Urls \cup {NoUrl}, hops : 0..max_redirects, attempt : 0..retries,
         crawl_delay : Nat, rules : Rules, judged : Urls \cup {NoUrl},
         from : Origins \cup {NoOrigin}, requests : Nat]

TypeOK ==
    /\ task \in [Tasks -> Task]
    /\ rest \in [Hosts -> Nat] /\ polite \in [Hosts -> Nat]
    /\ lock \in [Hosts -> Seq(Tasks)] /\ semaphore \in Seq(Tasks)
    /\ cache \in [Origins -> [rules : Rules, from : Origins]] /\ age \in [Origins -> 0..robots_ttl]

Sends(t) == task[t].pc # "reading" /\ task'[t].pc = "reading"

AsksRobots(t) == task[t].pc # "loading" /\ task'[t].pc = "loading"

\* "Crawl-delay is honoured", "requests are throttled per domain"
\* (docs/legal.md:36-37): whatever a request is, a first one, a retry, a hop of a
\* redirect or a robots.txt, of whichever task, it leaves a host alone for as long as the
\* request before it asks for.
HostsRest ==
    [][\A t \in Tasks : Sends(t) \/ AsksRobots(t) => polite[HostOfUrl(task[t].url)] = 0]_vars

\* "robots.txt is fetched, parsed and obeyed" (docs/legal.md:32): every url that is
\* requested, redirects included, was judged and allowed, and by rules that were read
\* from its own origin, whichever task read them and however often they expired since.
RobotsObeyed ==
    \A t \in Tasks : task[t].pc \in {"throttled", "reading", "backoff"} =>
        /\ task[t].judged = task[t].url /\ Allows(task[t].rules, task[t].url)
        /\ task[t].from = OriginOf[task[t].url]

\* One call of get sends no more than retries + 1 requests for each of the
\* urls it may be redirected to.
RequestsBounded ==
    \A t \in Tasks : task[t].requests <= (max_redirects + 1) * (retries + 1)

\* "Parallel requests" (docs/configuration.md:120): pages are read by at most
\* max_concurrency tasks, and a task that is done has given up its place.
ConcurrencyCapped ==
    /\ Cardinality({t \in Tasks : task[t].pc \in {"throttled", "reading", "backoff"}})
           <= max_concurrency
    /\ \A t \in Tasks : task[t].pc = "idle" => ~InLine(semaphore, t)

\* Whatever it waits for, get returns or raises.
GetEnds == \A t \in Tasks : task[t].pc # "idle" ~> task[t].pc = "idle"
=============================================================================
