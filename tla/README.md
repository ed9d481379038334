# LeadPipe in TLA+

LeadPipe collects company leads from configured sources (CSV files, JSON APIs, HTML
directories), normalizes and validates them, merges the records of one company into one
lead, and serves the result over an HTTP API and as exports. Collections run as jobs of a
queue in PostgreSQL, taken by any number of worker processes. These modules model the parts
of it that decide what is in the database: the job queue with its workers and schedulers,
the catalogue of leads with deduplication, merging, suppression, erasure and retention,
what reaches it (the adapters that walk a source, the HTTP client they share, the
conversions of contacts), and what is read from it page by page while it changes.

Run a configuration with `tlc -config JobQueue_faults.cfg MCJobQueue.tla`, check the proofs
with `tlapm` on `JobQueueProofs.tla`, `JobQueueRefinement.tla`, `LeadStoreProofs.tla`, `CollectionsProofs.tla`, `FetchProofs.tla`,
`SourcesProofs.tla`, `ExportProofs.tla` and `ConversionsProofs.tla` (a quarter of an hour for `CollectionsProofs.tla`, minutes for the rest). `PROJECT.json` lists components, runs, the code lines each
definition stands for, hazards, findings and theorems.

## The system

| Part | State | Operations | Here |
| --- | --- | --- | --- |
| Job queue (`jobs/queue.py`, `jobs/service.py`, `repositories/jobs.py`) | table `collection_jobs`, its row locks | claim, heartbeat, fail, recover_stale, enqueue, enqueue_if_idle, mark_running, mark_finished | `JobTable`, `JobQueue` |
| Worker (`jobs/worker.py`) | its claim, the heartbeat task, the stop flag | poll, process, fail, heartbeat, recover, stop, restart | `JobQueue` |
| Scheduler (`jobs/scheduler.py`, `config/cron.py`) | cron triggers | configure, fire | `Schedule` (on which days), `JobQueue` (what a tick does, at any time) |
| Pipeline (`pipeline/runner.py`) | one transaction per collection | run_collection, _ingest, _remerge, _best_match | `JobQueue` (its transaction), `LeadStore` (its effect), `Collections` (several at once) |
| Deduplication (`deduplication/`) | none | fingerprints, match, merge | `Deduplication`, `Merging` (the sort) |
| Catalogue (`repositories/{leads,records,suppressions}.py`) | tables `source_records`, `leads`, `lead_merges`, `suppressions` | upsert, find_candidates, link, delete, purge, suppress | `LeadStore` |
| API and command line (`api/`, `cli.py`) | none of their own | requests that enqueue, delete, suppress, purge, list, export | actions of the modules of what they act on |
| Fetching (`fetch/`) | throttle, semaphore and robots cache of a fetcher | get with retries, redirects | `Fetch` |
| Adapters (`sources/`) | position in the pages of a source | collect | `Sources` |
| Reading (`repositories/leads.py`, `exports/`, `api/routes.py`) | cursor and page of a read | list, get, export, count | `Export` |
| Normalization, validation (`normalization/`, `validation/`) | none | of emails, urls and domains; status of a lead | `Contacts` |
| Configuration, telemetry, migrations, health | none that the pipeline decides on | | not modelled but for schedules, see below |

How they interact: the scheduler, the API and the command line insert jobs; a worker claims
one in a statement of its own, runs `run_collection` in one transaction (READ COMMITTED)
that begins by marking the job as running and ends by marking it completed, and meanwhile
its heartbeat task updates the same row from another session. Whatever raises in the
collection makes the worker call `queue.fail` in a third session. Between jobs, the worker
sweeps jobs whose heartbeat is old. A collection writes records and leads; requests delete,
suppress and purge them. A collection pulls its items from an adapter, which gets page after
page from its fetcher; a fetcher may be shared by tasks, and then so are its throttle, its
semaphore and its cache. The hard parts are row locks held for a whole collection while
other statements wait for them, snapshots used after the row has changed, statements
without a guard on the row's state, failures between any two steps, and the history of a
record over many collections.

## Modules

| Module | Models |
| --- | --- |
| `JobTable` | one row of `collection_jobs`, the SET clause of every statement of the queue |
| `JobQueue` | processes, row locks, waits, faults; extends `JobTable` |
| `JobLifecycle` | the state diagram of docs/operations.md, as a specification that `JobQueue` refines |
| `JobQueueProofs` | theorems about `JobQueue` under every fault |
| `JobQueueRefinement` | theorems about `JobQueue` when processes only crash, stop or lose transactions and no late collection is rolled back, its refinement of `JobLifecycle` among them |
| `Deduplication` | fingerprints, rules, confidence, ranked merge |
| `LeadStore` | the four tables of the catalogue and every branch of `_ingest`; extends `Deduplication` |
| `LeadStoreProofs` | theorems about `LeadStore` |
| `Collections` | the statements of concurrent collections and of a deletion, on the tables of `LeadStore` |
| `CollectionsProofs` | theorems about `Collections` |
| `Fetch` | `Fetcher.get`: robots.txt, redirects, retries, the waits on throttle and semaphore |
| `FetchProofs` | theorems about `Fetch` |
| `Sources` | the page loops of the adapters, against the listing they should yield |
| `SourcesProofs` | theorems about `Sources` |
| `Export` | reads of a table page after page, while rows are inserted, committed late, rebuilt and deleted |
| `ExportProofs` | theorems about `Export` |
| `Merging` | merge.py as it computes, against `Merge` of `Deduplication`; extends `LeadStore` |
| `Contacts` | how contacts are written, normalized, validated, suppressed and released |
| `Schedule` | a source's schedule from the file to the days it fires on |
| `ConversionsProofs` | theorems about `Contacts` and `Schedule`, by way of `MCConversions` |
| `MCJobQueue`, `MCLeadStore`, `MCCollections`, `MCFetch`, `MCExport`, `MCConversions` | instances for TLC |

### JobTable and JobQueue

`job[j]` is a row of `collection_jobs`. Times are kept only as far as statements compare
them: `silent` (heartbeat older than the sweep's cutoff) and `delayed` (`run_after` in the
future); the actions `GoSilent` and `BackoffExpires` let time pass. Job ids stand for the
order of creation. `claimed_by`, `error` and time stamps are written by the code and read by
no statement of the queue.

A worker is two processes, `<<w, "main">>` and `<<w, "beat">>`. Each statement is one step
(statement and commit), except the collection: `MarkRunning` takes the row lock and `Commit`
or an error releases it. A statement that meets a held lock waits: `wait[p]` names the row
and who waits ahead, and PostgreSQL's rule is modelled that it evaluates its WHERE again when
it gets the row. What a statement writes or compares is computed before it waits: the cutoff of a sweep (queue.py:114)
and the time of a heartbeat (queue.py:83). So `wait[p]` also says of a heartbeat whether its time is older than the
cutoff of a sweep that begins now (`late`, by `BeatAges`, any time after it came to wait) and which sweeps have begun since (`passed`). When it gets the
row it writes that time: a late heartbeat leaves the row silent, and the sweeps in `passed` still take it (`Refresh`). A sweep visits the
rows that were silent when it began, one by one, in any
order, and may wait at each. A cron tick locks the source row (`TickLock`), looks for an
active job (`TickCheck`) and inserts (`TickInsert`).

Faults, each switched on by `FaultKinds` and counted by `MaxFaults`: `crash` (the process
dies, the server rolls back), `stall` (the process is paused, anything may happen meanwhile),
`beat` (the session of a heartbeat raises, which ends the heartbeat task for good), `drop` (the
server loses the transaction of a collection), `reply` (a COMMIT succeeds and its reply is
lost), `stop` (SIGTERM or `--once`). `late` is not a fault but is switched on and counted like one: a collection is rolled back after its
heartbeat has waited for it past the cutoff (`RunErrorLate`; `Drop` then needs it too). An ordinary `SourceError` after some 70 seconds of collecting
(a row is stale after 60, and the heartbeat that waits has taken its time within the first 10) is enough. Without `late`, a collection may take as long as it likes, and
one that outlasts the cutoff commits or dies with its process. The status CANCELLED exists in the schema and is written by
no code.

### Deduplication and LeadStore

A content gives a value or none to the four fields that take part in matching: email,
domain (website and website_domain travel together), phone, and the name slug with its
location. A placeholder ("n/a", a phone without "+") is stored but makes no fingerprint.
Similarity is a table of percentages. `Merge` defines a field of the merged lead as the value of
the candidate that outranks all others that have one, without a sort; `Merging` has the sort: it lists the candidates of
every lead that `LeadStore` reaches in every order, ranks the list by the tuples of `_rank`, and takes value and origin of
each field from the first candidate that has one.

`LeadStore` has a row per record key, lead id and pair of both. A collection of a source begins
and commits; in between it delivers records of that source, any number of times and in any
order (`Offers`), each in one of the three branches of `_ingest`: `Join` (an automatic match with
another lead), `Refresh` (the record has a lead), `Create`. Suppressed records are not stored. Between
collections, leads are deleted (with or without suppression) and purged, contacts are
suppressed and released. `now` counts collections: an adapter stamps all records of a
collection with the time it began. Two history variables record which leads a record left
(`past`) and which records a lead was last merged from (`built`). Time stamps of `first_seen_at` and
`last_seen_at` are kept because retention and erasure are about them.

Not in the model: `extra`, validation verdicts, the remaining columns (they merge like `phone` and
match nothing), changes of a source's priority, and rule 5 (`external_id`), which the pipeline
cannot reach: leads are compared with an empty `extra` (runner.py:209-223) and looked up by the
other four fingerprints only.

### Collections

`LeadStore` lets one collection run at a time. `Collections` composes its operators with
transactions: `record`, `lead`, `link`, `suppressed` are the committed rows, `dirty[s]` holds the rows
that session `s` has written and not committed, and a statement of `s` reads its own rows before the
committed ones (READ COMMITTED, `Overlaid`). `Committed` and `Seen(s)` are instances of `LeadStore` on the
one and the other, so that lookup, matching, merging and claiming are the definitions of that module.

A record of a collection takes the steps `Look` (suppression, `by_key`), `Store` (the flush of `upsert`),
`Match`, `Gather` (`candidates_for` and `merge`), `Apply` (the flush of the lead), `Link` and `Flag`;
`run[s].item` holds the local variables of `_ingest` between them. A new lead is `Create`d instead of gathered
and applied. `Apply` writes the columns that differ from those loaded, as SQLAlchemy does, and nothing
when none does. A deletion reads the contacts it will suppress (`Request`), deletes the lead (`Delete`), then its
records one by one (`Cascade`), and commits.

`Blockers(s)` are the sessions that the next statement of `s` waits for: those that wrote the row, or
whose claims and links refer to the lead being deleted (foreign keys lock it). When sessions wait
in a circle one of them is the `Victim`. A statement that cannot be done (`StoreBreaks`, `ApplyBreaks`,
`CreateBreaks`, `LinkBreaks`: a duplicate key, a row that is gone, a value that is too long) or a victim leaves
its session `broken`: the server has rolled back and released the locks, the code goes on
with the next record, every statement raises, and `save_results` raises out of `run_collection`
(`Fail`). `Abort` is a `SourceError` or the end of the worker.

Simplified: a collection delivers a key once (`Look`); the identity map of a session is empty between two
records; the suppressions that a deletion adds are inserted when it commits; purges and released
suppressions are left to `LeadStore`; opt-outs come from sessions that commit at once.

### Fetch

A step of `Fetch` ends where a task of the event loop awaits. `task[t]` holds the local
variables of the `get` of task `t`; `lock[h]` is the queue of the throttle of host `h`, `semaphore` that of
the fetcher, both first come, first served. `get` resolves the url, takes the rules of its origin from the cache
(`UseCache`) or asks for robots.txt (`AskRobots`, `SendRobots`, `LoadRobots`, each with a wait of its own), waits for the
semaphore (`Permit`) and for the throttle (`SendPage`), and ends, retries or follows a redirect, which is checked
like the first url while the task keeps its place in the semaphore. Several tasks can load one robots.txt at a time;
the last to arrive is what the cache keeps, under the key of the origin (`Key`): scheme, host and port, so that the two schemes of a host have a file each. An error or a status of 500 and more denies everything, one of 400 to 499
allows everything, and what else comes is parsed, redirects included.

Time is relative: `rest[h]` is how long the throttle still holds back, `age[o]` how old a cached file is, and
`Tick` lets a unit pass. `polite`, `judged`, `from` and `requests` are history: how long a host should be left alone, the
url the rules were asked about, the origin whose robots.txt they were read from (kept with the cached rules too), the requests of one call. The sleep of a retry has no length here: it may be over at any
time. Which urls are safe and what a robots.txt says are constants.

A throttle belongs to a fetcher and every adapter builds its own, so what is shown holds within a collection: two
workers that collect from one host do not wait for each other. `FetchPolicy` may switch robots.txt off; the model keeps it on.

### Sources

One collection of an adapter over a site whose pages have a number of items and a link (or none) to any page.
`options` are the limits and the way pages are found (a link, a counter, none), and TLC starts from every site and every
combination that the adapters accept; a csv file is a site of one page. An API source that is given both `next_path` and `page_param` follows links (`_next_url` never falls back to the counter), from a first
page that has the parameter in its url: it is a source of links whose page 1 is that url. An item is yielded as a record or
as a `RecordError`, which the model does not tell apart: both count for `max_items`. A page that cannot be read fails
the collection, a detail page that cannot be read does not.

### Export

`rows` is the table that is read, of leads or of jobs. An id comes from the sequence when a row is inserted (`Insert`) and
nobody sees the row before its transaction ends (`Commit`, `Rollback`): rows appear in another order than that of their
ids, and some ids never do. `Rebuild` and `Delete` change what is visible. A read is one of the five that the code has: a
page of leads or of jobs with the cursor of any earlier listing, the streamed export, the export of the command line,
which counts first, and a single lead. Each fetches pages (`Fetch`: what matches now, beyond the cursor, in order, at most so
many) and gives row after row (`Yield`, which moves the cursor); a full page is followed by another one (`AfterRow`). There is no
snapshot over the pages. `stays`, `versions` and `quiet` are history: what has matched since the read began, every version of
a row committed since, and whether nothing was.

A row has one filtered column and the set of its sources, which stand for all conditions of `_conditions`. What a cell looks
like is left out.

### Contacts

A contact is a text, written as a sequence of words (`"mailto:"`, `"WWW."`, an address, a host, a blank, a bracket). A site publishes a
page with an email and a website in some spelling (`Collect`), an operator types a contact in another (`Suppress`,
`RemoveByValue`), a lead is deleted and its stored contacts are listed (`DeleteLead`), and an entry is removed by its id (`Remove`). In between
are the conversions of the code: `normalize_email`, `normalize_url`, `extract_domain`, `normalize_value` and the validation of
both fields. They were written down as operators on words and compared with the functions on some three thousand texts
of up to three words; they agree on all but texts with a scheme after a host, which no instance contains. `optedOut` is
history: the contacts that a reader would say have opted out.

`OptOutHonoured` has a scope, and outside of it TLC refutes it: an opt-out counts if it is `Legible`, a deletion counts for
the contacts that the lead shows validly. "MAILTO:info@acme.fi" is stored as "mailto:info@acme.fi", which is no valid address, and
its deletion lists "info@acme.fi", so that the same page brings it back; so
does "<mailto:info@acme.fi>". A bare host with an umlaut is listed as it was typed and blocks nothing. Legible is one address with a link, then brackets
around it and blanks outside of the brackets or next to the address, or one host (or address) after "https://" and any number of "www.": with blanks between two
brackets ("< <info@acme.fi"), or with a second address, `normalize_email` does not find the address. `TextsAssumption` says that texts are sequences of
words; `WwwAssumption` excludes hosts with three "www.", since `normalize_url` and `extract_domain` take one off each.

### Schedule

`source.field` is a day-of-week field of one or two tokens: a day, a range, or "*" with or without a step. `Load` is the validator
of the file, which builds the trigger once; `Configure` adds a job for every source that is enabled and scheduled; `DayPasses`
lets the trigger fire, counting from Monday. `PosixDays` is what a crontab means. The tokens that `FiresOnPosixDays` leaves
out (`Plain`) are those for which it is false: "*/2" fires on Mondays, Wednesdays, Fridays and Sundays instead of
Sundays, Tuesdays, Thursdays and Saturdays; "0-7" becomes "sun-sun", Sundays alone; a range that starts with 0 becomes
one that runs backwards, which `Load` rejects. docs/configuration.md:148 promises "standard five-field POSIX cron". Steps after
days and ranges, and the day of the month, which a crontab combines with the day of the week by "or", are not modelled.

## What the runs check

| Run | Instance | Properties |
| --- | --- | --- |
| `JobQueue_faults` | 2 workers, 2 jobs from cron ticks, 2 attempts, 2 faults of all kinds, `late` included; 691 thousand states | `TypeOK`, `FailedIsExhausted`, `OneCollectionPerJob`, `DistinctAttempts`, `AttemptsBounded`, `RunsWithinAttempts` |
| `JobQueue_crash` | 3 workers, 2 jobs, 4 faults: crash, drop, stop; 57 thousand states | `FollowsLifecycle`, `ClaimIsExclusive`, `OneActivePerSource` |
| `JobQueue_settles` | 2 workers, a job, 3 faults of all kinds, `late` included; `FairSpec` | `Settles` |
| `JobQueue_twice` | 2 workers, a job, no fault, one late collection | refuted: `ProcessedOnce` |
| `LeadStore_merges` | 2 sources of different priority, 4 record keys with 5 contents, 4 leads, a lookup of 2, 3 collections; 161 thousand states | `TypeOK`, `OwnerExplained`, `NeverReturns`, `ErasureLasts`, `KnownNeverRecreated`, `MergedOnExactMatch`, `NewLeadIsNew`, `MergeIgnoresOrder` |
| `Collections_overlap` | 2 collectors, 2 sources, 3 keys, 3 leads, 2 collections, a deletion at a time; `FairSpec`; 36 thousand states | `TypeOK`, `OwnerLinked`, `LinksKnown`, `RecordsClean`, `CollectionsEnd` |
| `Collections_alone` | 1 collector, 3 collections, a lookup of 1, a deletion at a time, an opt-out, a record that cannot be stored; 193 thousand states | `LeadsComplete`, `NewLeadIsNew` |
| `Collections_bad_record` | 1 collector | refuted: `RunsSurvive` |
| `Fetch_parallel` | 2 tasks, 2 hosts, 3 origins, 4 urls; `FairSpec`; 220 thousand states | `TypeOK`, `HostsRest`, `RobotsObeyed`, `RequestsBounded`, `ConcurrencyCapped`, `GetEnds` |
| `Sources_listing` | every site of 3 pages of up to 2 items, every limit; 249 thousand states | `CollectsListing`, `CollectionEnds` |
| `Export_pages` | 3 ids, 2 writers, 2 changes, pages of 1 and 2, 3 filters; 1.4 million states | `TypeOK`, `GivenInOrder`, `NothingMissed`, `OnlyWhatWasThere`, `CountExact` |
| `Conversions` | 256 pages with 48 spellings of an address and 80 of a host, 35 texts as operators type them, 3 changes; every field of one or two tokens over 8 days, of which `FiresOnPosixDays` is about the plain ones; 279 thousand states | `OptOutHonoured`, `FiresOnPosixDays` |

Each refuting run shows one place where the code does not do what its documentation says; the findings in
`PROJECT.json` quote both. More properties are defined beside them that no run repeats. TLC refutes each when it is
checked on the instance named:

| Property | Instance | Why it fails |
| --- | --- | --- |
| `LeadsComplete` | `Collections_overlap` with `MaxTime = 3` | `_remerge` reads the records of a lead and writes it without a lock: two collections each merge without the other's record, and the later update overwrites the earlier one (runner.py:187, against docs/deduplication.md:89) |
| `ReviewedStandApart` | `Collections_overlap` with one source, keys c1 and c2, a content of c1 with only a name and one with only an email, `MaxTime = 3` | the lead of a record is read with the record (runner.py:149): while one collection moves the record to another lead, a second one still takes it for the old lead's and flags the new lead, by a weak match, as a candidate for review of its own record (leads.py:201, against docs/deduplication.md:107) |
| `DeletedWithRecords` | `LeadStore_merges` | a deletion takes the records whose `lead_id` is that lead, not those that rebuilt it without being claimed or have moved on since (leads.py:155, against docs/legal.md:77) |
| `LeadsDerived` | `LeadStore_merges` | for the same reason a lead keeps values of a record that left it |
| `SeenNeverPurged` | `LeadStore_merges` | retention goes by the time of the lead, which is not renewed when a record of it joins another |
| `SuppressedNeverWritten` | `Collections_alone` | the suppression list is read once when a collection begins |
| `DeletedContactsListed` | `Collections_alone` | the contacts of a deleted lead are read before the deletion waits for a collection that changes them |
| `NewLeadIsNew` of `Collections` | `Collections_overlap` | each of two collections looks for the company while the other has an uncommitted lead for it (runner.py:197) |
| `CompletedIsFinal`, `AttemptsWithinMax` | `JobQueue_faults` | a late fail, or the requeue after a COMMIT whose reply is lost, reopens a completed job; a stale claim adds an attempt |

What holds of the queue depends on the faults:

| | crash, stop, drop | reply | stall, beat | late |
| --- | --- | --- | --- | --- |
| attempts are distinct, one collection per attempt and at a time, attempts at most 2·max−1, failed only when exhausted, settles | yes | yes | yes | yes |
| attempts at most max_attempts | yes | yes | no | no |
| exclusive claims, the lifecycle, completed is final, ticks never pile up, processed once | yes | no | no | no |

The first row is what the code promises under any fault; the last two are what the
documentation promises. The first column is about collections of which none is rolled back after its heartbeat has waited for it past the
cutoff; the last one needs no fault at all: a collection that raises after some 70 seconds is enough. TLC refutes each property of the last row under `late` alone, and
under `reply` alone, with the other constants of `JobQueue_faults`. What breaks them is that `queue.fail` and `mark_finished` update a row by its id, whoever holds it now: a requeue under a
live claim (`beat`, `stall`, `late`) or of a completed job (`reply`) does the rest.

`JobQueue_twice` shows it: the first worker's collection is rolled back, its heartbeat writes its old time, a sweep of the second worker requeues the
job, which that worker claims, and the first worker's `fail` puts it back to pending once more. A third claim and the second one each mark it as running, collect and
complete it, one after the other.

Of the catalogue, under collections that run one after another: every stored record belongs
to a live lead by a decision not under review; a record that leaves a lead never returns; only
unknown records bring new leads; nothing merges on names alone; a suppressed contact never
shows on a lead that appeared later; and merging the records of a lead gives the same values and origins in whatever order
they are listed.

With collections at once the catalogue stays consistent: what is committed has owners, links and no dangling
rows, and every collection ends, because the database refuses or aborts whatever would
break a constraint. What is lost is what no constraint says: that a lead shows all of its records, that a link up for review
is to another lead than the record's, and that no lead is created beside one with its email, domain or phone (`NewLeadIsNew` fails
with two collectors too). With one collector a lead is still created beside such a one if as many older leads as the lookup returns
resemble the record by name: then the exact match is not among the candidates (leads.py:89). `NewLeadIsNew` says that this is the only way. The first and the last hold when collections do not overlap
(`Collections_alone`), even with deletions between any two of their statements. That two leads never share an email would be too much to say even
then: a lead that is rebuilt takes on the email of a record that joins it by its domain, and another lead may have that email.

Of fetching: a host is left alone as long as its rules or the policy ask, whichever task sends next and whatever the
request is; no page is requested that rules of its own origin did not allow, redirects included; a call sends at
most (`max_redirects` + 1)(`retries` + 1) requests and ends, although it waits for a place in the semaphore and for hosts
at the same time. Of the adapters: links in a circle, empty pages, limits in the middle of a page and detail pages
that fail neither lose nor repeat an item.

Of reading: without a snapshot over its pages, a read gives no row twice or out of order, misses none that matched from
beginning to end, gives only what was committed, and the number the command line prints before it writes is right if
nothing was committed meanwhile. What it does not promise, and the model shows it does not, is a consistent picture: a row
whose id is behind the cursor when it is committed is not given, and two rows may be of different times.

Of contacts and schedules: an opt-out in any legible spelling blocks every spelling of a site until its entry is removed. `suppress --remove` removes
entries of either kind, and the model takes both for meant: if a removal took back only the opt-out of the kind that was given, `OptOutHonoured` would fail,
since `suppress --remove acme.fi` without `--kind domain` lifts the domain's opt-out (cli.py:269); a day-of-week field in the scope stated above fires on
the days that a crontab means, and a schedule or a source that is off never does.

### Bounds

Two workers are enough for one to act on a stale claim while the other holds the job; the third
in `JobQueue_crash` sweeps while two contend for a row. Two jobs of one source let ticks pile up and
let a worker hold one job while another is swept. Two attempts make the first retry
and the exhausted attempt differ; max_attempts is 3 by default and the theorems cover every
value. Two faults let one worker's claim go stale in one way and another's in a second (a late collection and a
dead heartbeat, say); more faults have shown no new violation class on smaller instances. `JobQueue_faults` leaves out manual jobs to stay small; its properties were also
checked with one (`MaxManual = 1`, 2.6 million states, three minutes), and `JobQueue_settles` and `JobQueue_twice` have one. Three collections let a record
be created, move and be refreshed after moving; four keys and four leads let two leads compete for a
record while a third matches weakly, and let two weak matches hide an exact one; the contents cover exact matches by each
rule, a name above the threshold between different slugs and one between equal slugs, a placeholder phone and
a record whose content changes under one key. `Limit` is 20 in the code. Here it is two, and one in `Collections_alone`, so that lookups are cut off: in
both runs an exact match is hidden and a second lead is created, in the one way that `NewLeadIsNew` allows. The theorems hold for every limit.

In `Collections`, `MaxTime` bounds the collections begun and `Room` keeps a lead id for every record in progress.
Two collections at once suffice for every conflict over a row; the third in `_alone` makes the
rows that the others then rebuild. `Collections_overlap` stops at two collections, since `CollectionsEnd` is costly; the theorems
hold for any number, and their invariants, `NeverReturns` among them, were also checked with three on the smaller instance named at `ReviewedStandApart` above (an opt-out, symmetric
collectors, 439 thousand states), where a record that was moved is collected again by two sessions.

In `Fetch`, two tasks and one place in the semaphore make tasks wait for it, for a throttle and for each other's robots.txt
at once; one retry and one redirect reach both limits; four urls on two hosts give a redirect to another host, one back to the first host under its other scheme, whose robots.txt is another, and
one to a url that is not safe. A crawl delay of two units beside an interval of one, and a robots.txt that expires after one
and may come back different, let rules change between a judgement and its request. In `Sources`, three pages give every
shape of links up to a circle with a way in, and two items a page give limits within, at and across the end of a page.

In `Export`, three ids and pages of one or two rows give a full page followed by nothing, by a row or by a late one, and a page
cut short; two writers commit in another order than that of their ids; two changes delete or rebuild a row on each side of
the cursor. The theorems hold for any of these. The three candidates a lead can have in `LeadStore_merges` differ in priority,
in age, in completeness, or only in their ids. In `Conversions`, eight days cover the week and the return of its first day; two tokens suffice
since a field is the union of its tokens; three changes list, lift and list again.

### Deadlock

Every run but three checks deadlock: a collection of `Sources_listing`, a read of `Export_pages` and the bounded
days and changes of `Conversions` come to an end. A worker of `JobQueue` that is idle with nothing to claim polls (`Poll`), one
that is down restarts: what the check excludes is a state where every worker waits for a row that
nobody will release. In `LeadStore` a collection can always commit, and requests come at any time in between. Deadlocks of
`Collections` are between sessions while others go on, so that `CollectionsEnd` and not TLC's check is about them. So are those of `Fetch`, where time always passes: `GetEnds`
says that no task waits for good.

### Fairness

`JobQueue_settles` assumes weak fairness of every worker's main loop, heartbeat task and tick, of the
resumption of a paused worker, and of the passage of time (`BackoffExpires`, `GoSilent`), and that
faults are finite. Each is justified: an asyncio loop runs every ready task, PostgreSQL grants row
locks in the order they were asked for, and a container supervisor restarts the worker (`Restart`
is part of the main task; docker-compose.yml names no restart policy, so this is an assumption on the
deployment). No fairness is assumed of new work, of faults or of `stop`, nor of how long a heartbeat waits (`BeatAges`).

`Collections_overlap` assumes strong fairness of a collection's statements (`Ingest`, `Finish`, `Fail`), since a session that
waits for a row is served before those that ask for it later: deletions that keep coming cannot starve it. It
assumes weak fairness of a deletion's statements and of deadlock detection. `Look` and `Abort` are not fair: a
source may stop delivering, which ends the collection.

`Fetch_parallel` assumes weak fairness of every task's `get` once it has begun and of time: the event loop runs what is ready,
locks and semaphore of asyncio serve waiters in order, and httpx times out what does not answer. Nothing makes a task
begin a `get`. `Sources_listing` assumes that the consumer asks for items until there are none, as `run_collection`
does, and that every load ends, which is `GetEnds`.

## What is proved

`JobQueueProofs` proves for every number of workers, jobs, attempts and faults, from the named
assumptions on the constants alone:

- `TypeCorrect`: `Spec => []TypeOK`.
- `ClaimsSound`: no two workers hold the same attempt of a job, a failed job has used its attempts.
  The invariant `ClaimInv` adds that a claim's attempt number is at most the row's: claiming takes
  the next number, and no statement lowers it.
- `OneCollection`: one transaction at a time collects for a job. `LockInv` says that whoever
  collects is the recorded holder of the row lock.
- `RunsAreAttempts`: commits of a job's collection plus the attempts still open never exceed the
  attempts counted in the row (`RunsInv`); a commit closes an open attempt.
- `FailedJobsAreExhausted`: the same for the invariant `FailedIsExhausted` by itself.
- `AttemptsAreBounded`: at most 2·max_attempts − 1 attempts. A requeue at or beyond the maximum needs a claim
  with a lower number that is still open, and each such claim can requeue only once (`AttemptsInv`).

Each step of the queue is first reduced to its effect on one row (`StepEffect`: quiet, created,
timed, swept, taken, committed, given up); the invariants are then proved per effect, not per
action.

`JobQueueRefinement` assumes `Benign`: processes crash, are stopped or lose their transaction, but are not paused, no
heartbeat fails, no reply is lost, and no collection is rolled back after its heartbeat has waited for it past the cutoff (`late`). Collections may still take as long as they like: those
that outlast the cutoff commit, or die with their process. The scope is needed, since `JobQueue` refutes each of the three under `late` alone. Then, for every number of workers, jobs, attempts and such faults:

- `ClaimsAreExclusive`: what a worker holds is running, on the worker's own attempt, and claimed by nobody else. The invariant is
  `Shield`: a claimed row that has gone silent, or that a sweep has yet to visit, has the heartbeat of its holder waiting for it
  ahead of every sweep. When the row is released, the heartbeat goes first. `Timely` says that a heartbeat which could have the row is not late, because a late
  one waits for a collection that is running, or about to run (`LockedRuns`), and keeps its row until it commits; so what it writes is fresh, and a sweep whose cutoff was taken before finds the row
  refreshed. It rests on `WaitersKnown` and `SilentWaits` (who waits for a row, and since when), `Calm` (no process
  is paused or without its heartbeat) and `BeatFirst`.
- `QueueFollowsLifecycle`: `JobQueue` implements `JobLifecycle`, which takes its states and steps from the operations guide. Every
  effect of `StepEffect` is a step of the lifecycle or a stutter, by `Shield` and `AttemptsLeft` (a worker's attempt is within max_attempts).
- `SourcesHaveOneActiveJob`: with `MaxManual = 0`, no source has two active jobs. `TicksExclusive` says that the tick between its check and its
  insert has the source row, and that what it saw, no active job, is still so: no benign step makes a finished job active again.

`LeadStoreProofs` proves for every set of keys, sources, contents, opt-outs and any similarity, again
from the named assumptions alone:

- `TypeCorrect`, `OwnersAreExplained`, `RecordsNeverReturn`: the parts `TypeOK`, `OwnerExplained` and
  `NeverReturns` of `StoreInv`. What makes it inductive is `PastLinked`: a lead that a record left
  keeps its row in `lead_merges` for the pair as long as it lives, a lead id is never given out again, and
  `link` claims a record only for a pair without a row. `LinksKnown` (the foreign keys of
  `lead_merges`) is needed because a deletion must not leave a link behind for a key that comes back.
- `ErasureIsLasting`: `ErasureLasts`, strengthened by `RecordsClean` (a record collected after a
  suppression does not have the contact) and `RecordsLater` (a lead is at least as old as each of its records), so
  that a lead younger than the suppression is only ever rebuilt from clean records.
- `KnownRecordsKeepTheirLead`: only `Create` hands out a lead id, and only to a record without a
  lead, which by `StoreInv` is a record that is not stored.
- `MergesAreExact`: a match at the threshold of 85 or above is on an email, domain or phone, since the
  confidence of names is capped at 80. This holds whatever the similarity of names is.
- `MergesIgnoreOrder`: for every order of the candidates of a lead, the sort of `Merging` gives what `Merge` defines. `Told` says that stored
  records have different ids, so that the tuples of `_rank` order them strictly (`OutranksOrders`): the place of a candidate
  is the number of those that outrank it, which makes `Ranked` a permutation (`RankedSorts`) whose first member with a value is the only
  `Winner` of the field (`FirstWithIsWinner`).
- `ExactMatchesMerge`: `NewLeadIsNew` for every limit of the lookup. Take the oldest lead that matches the new one exactly: if the
  lookup returned any exact match, a best match would exist, with a confidence of at least 85, and the record would have joined it (`MergeOne`). So the oldest was cut off
  (`MissedBehind`): `Limit` candidates are older, none of them an exact match, and so all of them only resemble the record. They are older than every other exact match, too.

`CollectionsProofs` proves for any number of sessions that collect at the same time, and of collections, beside a deletion,
for all sources, keys and contents, through every deadlock, rollback and failed flush:

- `OwnersAreLinked`, `LinksAreKnown`: the parts `OwnerLinked` and `LinksKnown` of `Transactions`. `Exclusive` says that a record is written by one
  session at a time, which is what its row lock is for. `OwnedOf` says of each record that a session has written and not
  committed that it keeps its committed lead, or is new and gets a lead before the session turns to the next record, or
  is claimed for a lead that lives, is linked by the same session, and that no deletion has taken: the claim holds the key
  of the lead, so that `Delete` waits for it (`Referrers`), and `Link` waits for a deletion that came first
  (`Deleters`). `Erasing` says that a deletion only removes, and commits when no record of its lead is left.
- `SuppressionsAreHeeded`: `RecordsClean`. `Listing` says that the list a collection has loaded holds every suppression older than
  the collection, and that what it has read and written is not on that list; a suppression that is added
  later is dated after every record that is stored and every collection that has begun.
- `RecordsNeverReturn`: `NeverReturns`. By `History`, a lead that a record has left stays linked to it while it lives, and a lead that
  is written but not committed is either live or newer than anything a record has left. So the claim of a record by one
  session, which needs a pair without a link, never undoes the move that another has committed, although the lead it
  loaded with the record may be stale.
- `CollectionsTyped`: `TypeOK`, for every number of sessions, with what a session has written and with the locals of `_ingest`.

Two more need collections that do not overlap (`OneCollector`), and fail with two collectors:

- `LeadsAreComplete`: `LeadsComplete`. `Complete` says of the rows as the collection sees them that each record is among those its lead
  was last merged from, and, between `Gather` and `Apply`, that what was gathered holds every record of the lead that is about to be
  rebuilt and the one that is about to join it. Deletions keep it, since they only take records away, and they wait for a lead that the
  collection has written.
- `CollectedLeadsAreNew`: `NewLeadIsNew` for every limit. `Alone` says that from the lookup to the INSERT every lead that the
  collection sees and that has an email, domain or phone of its record was behind `Limit` weak matches at the lookup (`behind`, a history variable): nobody else inserts or rebuilds
  leads. What was hidden at the lookup is found by the argument of `ExactMatchesMerge` (`SeenMissed`).

`FetchProofs` proves for every web, policy and number of tasks:

- `HostsDoRest`: `min_interval > 0` implies `HostsRest`. The invariant is `Covered` (what the throttle still makes a host's
  requests wait is at least what politeness asks for) with `Judged` (the crawl delay a task throttles by is that of
  the rules its url was judged by). The premise is needed: with `requests_per_second` 0 a request for robots.txt does not
  look at the throttle, so that it may fall into the crawl delay of a page.
- `RobotsAreObeyed`, from `Judged` and `CacheOf`: what the cache holds under the key of an origin was read from that origin's robots.txt.
- `TypeCorrect`: `Spec => []TypeOK`.
- `ConcurrencyIsCapped`: `LineInv` says that nobody is in the semaphore's queue twice, that who is in it waits for a place or is past it,
  and that who is past it has a place.
- `RequestsAreBounded`: `Counted` says that each hop has spent at most `retries` + 1 requests.

`SourcesProofs` proves `ListingsAreCollected`: `CollectsListing` for every site, every limit and every way to page. The listing and its items are
folds; each is first shown to be a function of the number of pages (`Walk`, `Flatten`) whose values extend each other.
`Progress` then says that the pages loaded are the listing of as many turns as the loop has taken (`AlongListing`), that what was yielded begins what these
pages list, with `position` items of the page being read (`InOrder`), that the limit on items ends the loop (`WithinLimit`), and that it ends otherwise only where
the listing does (`EndsInTime`): by a page that is missing, that was seen before, or that is one too many.

Each action of `LeadStore` is first reduced to what it does to the rows (`RebuildFacts`, `CreateFacts`, `EraseFacts`
and the like), and the invariants are proved from those facts.

`ExportProofs` proves all five properties of `Export_pages` for every table, page size, set of filters and number of writers:

- `TypeCorrect`, with `Fresh`: no id beyond the sequence has a row, so that an insert takes a free one.
- `RowsInOrder`, from `PageInv`: what was given lies up to the cursor, what was fetched lies beyond it, and a page holds the first
  rows beyond the cursor at the time it was fetched.
- `ReadsMissNothing`, from `StayInv`: a row that has matched since the read began was given, is in the page, or lies beyond every
  row of a page that is full, so that another one follows.
- `NothingMadeUp`, from `VersionInv`: each row given or fetched is a committed version that matches.
- `CountsWhatItWrites`, from `CountInv`: while nothing is committed, what matches is what matched, and the ids given are as many as the
  rows given, by the order of `RowsInOrder`.

`ConversionsProofs` proves both properties of `Conversions`:

- `SchedulesFireOnPosixDays`: `FiresOnPosixDays` for every step width and number of days. `ScheduleInv` says that a running schedule was accepted and has
  fired on the days of its trigger (`FiringDays`); `TokenFires` goes through the numbers, names and ranges of a field and shows
  that the translation of each fires on its `PosixDays` if it is `Plain`, and `FieldFires` puts the tokens together.
- `OptOutsAreHonoured`: `OptOutHonoured` for all texts of any length, in the scope stated above. `OptOutInv` says that who opted out
  is on the list as the code writes the contact, and that a lead that shows a contact validly stores it that way. So a
  legible text must come to that one form (`LegibleEmail`, `LegibleDomain`), and a website of which the validator says that it is valid
  must have that domain (`ValidWebsite`); an email needs no more than that small letters stay small (`ValidEmail`). The entry of a contact is itself legible, so that its
  removal takes the opt-out back.

Only model-checked: `Settles`, `CollectionsEnd`, `GetEnds` and `CollectionEnds`, since liveness, and ENABLED under its fairness, are out of the prover's
reach. The theorems of induction, which take an operator as a parameter, and RECURSIVE operators are out of its reach too. The
definitions proved about use no RECURSIVE operator, and where a proof needs induction (over the pages of a listing, the candidates of a merge), it takes a least
counterexample: a set of numbers that is not empty has a least member (`WFMin` and `NatLessThanWellFounded` of the library).

## Not modelled

- Settings, the readers of configuration files and the sources table: read and checked once at start, and the priority of a source is
  a constant here. Migrations run offline, telemetry writes logs, the health probe asks for `SELECT 1`.
- The API key, request ids and schemas of the API: none of them changes what is stored.
- The extraction of fields from markup, JSON and rows: an item has a content when it reaches the model.
- Phones (their numbering plan is a library's), locations and names: they are values in `Deduplication`.
- The merge of `extra`, the trigram similarity of names and which urls are safe are constants or left out.

## Plan

Every safety property that a passing run checks is now a theorem as well. What is left:

1. `CollectionsEnd` rests on an order among waiting sessions that could be stated and proved as an invariant (who waits for whom, and that a circle
   has a victim), although the liveness itself cannot.
2. A refinement: with one collector and no deletion in progress, a collection of `Collections` does to the committed rows what the
   steps of `LeadStore` between `Begin` and `Commit` do.
