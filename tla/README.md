# HoneyWatch in TLA+

HoneyWatch records attacks on decoy services. Honeypots (SSH, HTTP) observe
connections and publish events to a Redis stream; event workers consume the
stream through a consumer group, classify each event and store it in
PostgreSQL; a REST API and a React dashboard read the table. This directory
holds TLA+ models of that system, the TLC instances that check them, and proofs
checked by TLAPS. Every definition is translated from the Python source; the
file and lines are in `PROJECT.json` under `map`.

## 1. Inventory

| Component | Source (under `src/src/honeywatch`) | State it keeps | Operations | What is hard | What makes it correct |
|---|---|---|---|---|---|
| Honeypot base | `honeypot/base.py` | memory buffer (deque), flush task | `emit_event`, `_flush_buffer`, `_periodic_flush`, start/stop of the flush loop | many tasks flush one deque across awaits; the deque is bounded | an event leaves the buffer only for the stream; `emit_event` always returns |
| Event queue, publishing | `collector/handler.py` | the shared connection handle `_redis` | `connect`, `publish`, `close` | the handle is reset by one task while another awaits on it; lost replies | no event vanishes; retries end |
| Event queue, consuming | `collector/handler.py` | handle; stream, group and pending list live in Redis | `consume`, `ack`, `_ensure_consumer_group` | lost group, lost reply, un-ACKed entries after a crash | nothing is handed out and forgotten |
| Event worker | `tasks/workers.py` | `_running`, the batch in memory, the retry counter | `start`, `_process_event`, `_classify_event`, `stop`, `run_worker` | crash between commit and ACK, outage longer than the retries, shutdown while reading | ACK only after the commit; each event at most one row; every event stored in the end |
| IP context | `detection/ipcontext.py` | per-IP sorted set of attempts and set of ports in Redis, with TTL | `update_and_get` | processing time is not event time; the port set has no window | counts what the time window says |
| Classifier, rules | `detection/classifier.py`, `detection/patterns.py` | rules read at start-up | `classify`, severity, rule loading | precedence of the checks, thresholds | total and deterministic (not monotonic: a port scan is MEDIUM, and with enough attempts in its context the same event is a brute force, LOW) |
| Backfill | `detection/backfill.py` | contexts rebuilt in memory, batch commits | `backfill` | interrupted between two commits and run again | the same events get the same class as in one run |
| SSH honeypot | `honeypot/ssh.py` | per connection: attempt counter, user name, pending tasks | asyncssh callbacks, start/stop, host keys | `connection_lost` while an attempt is still being emitted | every connection leaves exactly one kind of trace; nobody is answered unseen |
| HTTP honeypot | `honeypot/http.py` | none per request | request handler, login form, body limits | bodies that break off or are too large, limits met exactly | a request is recorded once, as it was answered; credentials as they were sent |
| Supervisor | `honeypot/__main__.py` | crash counter per honeypot, tasks | restart loop, graceful shutdown | a cancellation at any await, flush loops leaked by a restart or dead | a honeypot that can run does run; the shutdown ends and leaves nothing open |
| GeoIP | `analysis/geoip.py` | LRU cache of lookups, database handle | `load`, `resolve`, `close`, country aggregation | cache at its bound, negative entries | the cache is transparent and bounded |
| Repository | `db/repositories/attack.py`, `db/models.py`, `db/session.py` | none (queries), engine and session factory | list, summary, timeline, rankings | an answer is several statements, rows come in between; ties have no order | a walk through the pages skips no event; figures stay between the table before and after |
| Risk analysis | `analysis/ip.py` | none | risk score | weights and caps, inputs of different moments | between the scores of the rows before and after |
| API | `api/` | authentication dependency, period parsing | routes | period boundaries, wrong credentials | only authenticated answers; a period covers what it says |
| Configuration, logging | `core/` | settings | validation | defaults | out-of-range values are rejected at start |
| Dashboard | `frontend/src` | credentials, per-hook data | polling hooks, login, pages | late answers of old requests, 401 while polling | what appears is of the current selection, and it appears |
| Migrations, deployment | `migrations/`, `docker/` | schema | alembic scripts, compose | none at run time | not a program of its own |

How they interact: connection handlers call `emit_event` (many tasks, one event
loop per honeypot process); `emit_event` calls `EventQueue.publish`, which
XADDs to the stream; workers XREADGROUP from it, update the IP context in
Redis, call the classifier, INSERT into PostgreSQL and XACK. Honeypots and
workers are separate containers (`restart: unless-stopped`), so a crash of one
is a crash of one process. The supervisor starts and stops the honeypots of its
process, which share one queue. The API only reads the table, and resolves
places through a cache of its own; the dashboard polls the API from a browser.

## 2. The modules

| Module | Models | State and actions |
|---|---|---|
| `EventStore` | the promise of the pipeline, no implementation | `entries`, `lost`, `owed`, `stored`; Accept, Store, Settle, Reissue, Forget |
| `EventWorker` | `consume`, `ack`, `connect`, `_ensure_consumer_group`, `EventWorker`, `run_worker` | Redis (`log`, `base`, `groupExists`, `lastDelivered`, `pending`), PostgreSQL (`db`), each worker (`pc`, `running`, `connected`, `cur..last`, `attempt`) |
| `EventWorkerProofs` | theorems about `EventWorker` | - |
| `HoneypotBuffer` | `emit_event`, `_flush_buffer`, `_periodic_flush`, `publish` in one process | Redis up/down, `stream`; shared `handle` and `buffer`; each task's `stage`, `item`, `flushing`, `attempt`, `fate` |
| `HoneypotBufferProofs` | theorems about `HoneypotBuffer` | - |
| `Classifier` | `AttackClassifier`, `SeverityEvaluator`, the rules | operators only: `AttackType`, `Severity`, `Classify` |
| `IPContext` | `IPContextStore.update_and_get` as the workers call it | per address `attempts`, `ports`, `expiry` in Redis; the clock; `asked` (transactions awaited); `done` (every classification) |
| `IPContextProofs` | theorems about `IPContext` | - |
| `Backfill` | `detection/backfill.py` | `event`, `class` (the table); `todo`, `updated`, `processed`, `seenBy` (one run) |
| `BackfillProofs` | theorems about `Backfill` | - |
| `SSHSession` | the callbacks of one SSH connection | `phase`, `username`, `attempts`, `asked` and `validating` (the task of `validate_password`), `events` with what became of each, `answered` |
| `HTTPRequest` | one HTTP request, `_handle_request` and `_handle_login` | `request`, `stage` (the await), `left` and `total` (the body), `draft`, `answer`, `recorded` (with copies), `configured` (the credential limit) |
| `Sessions` | composes `SSHSession` and `HTTPRequest` | one session of either kind per behaviour |
| `SessionsProofs` | theorems about both and their composition | - |
| `Supervisor` | `run_all_honeypots`, `run_honeypot_with_restart`, start and stop of both honeypots and of their flush loops | `manager`; per honeypot `task` (the await), `cancelled`, `crashes`, `flush`, `leaked`, `listening` |
| `SupervisorProofs` | theorems about `Supervisor` | - |
| `GeoResolver` | `GeoIPResolver` and `CountryAggregator` | `reader`, `cache`; `recent`, a history of uses |
| `DashboardAPI` | the repository's queries, the risk score, the routes | `now`, `table`; `request` and `answer`; `walk`, a client that pages through the events; instantiates `GeoResolver` |
| `DashboardAPIProofs` | theorems about `DashboardAPI` | - |
| `Dashboard` | the browser tab: login, views, hooks | `stored` credentials, `authed`, `view`; per hook `selected`, `shown`, `error`; `pending` requests, a bag |
| `DashboardProofs` | theorems about `Dashboard` | - |
| `MCEventWorker`, `MCHoneypotBuffer`, `MCIPContext`, `MCBackfill`, `MCSessions`, `MCDashboardAPI`, `MCDashboard` | TLC instances | constants only |

### EventWorker

One action per await: a Redis or PostgreSQL call succeeds, fails before it took
effect, or takes effect and loses its reply. `pc` names the await: `read`
(XREADGROUP or the reconnect before it), `deliver` (the generator is about to
yield the entry at `cur`), `deadletter` (the XACK of an entry that did not
parse), `classify`, `save`, `ack`, and `down` for a process that is not
running. A batch is a run of consecutive entries, so two numbers describe it.
`FailedAttempt` is the `except Exception` of the retry loop, `Advance` the
resumption of the `consume` generator, `Reconnect` its outer `except`, `Halt`
the end of the process. `counted` is a history variable: how often the IP
context counted each entry. Faults are drawn from a budget per kind, so that a
run states which faults it allows. Entry ids are positions in `log`; a lost
stream moves `base`.

External, modelled from how the code uses it: XADD/XREADGROUP/XACK/XGROUP
CREATE of a consumer group (delivery with `>`, pending lists per consumer, XACK
removes from whichever consumer has the entry), the primary key of the table.

Left out: the sleeps between attempts (any other step may happen between two
steps anyway), logging, the contents of events, the classification itself.

### HoneypotBuffer

A process with one event loop: one task per event (its `emit_event`), one per
periodic flush loop. A step is everything a task does between two awaits,
because nothing else runs in between; usually it ends by issuing the next Redis
command. `Attempt` is the start of one attempt of `publish` (either XADD or the
XGROUP CREATE of `connect`), and reads the shared handle as it is *then*;
`Joined` re-reads it after the await, which is where the assertion can fail. A
command that is in flight when Redis goes down is `cut`: it fails later, and an
XADD may have been executed. `Escape` is any exception that neither `publish`
nor `emit_event` catches (`AssertionError`, `IndexError` of `popleft`,
`ResponseError`), and ends the task. Restarting a honeypot starts a second
flush loop without stopping the first (`start_flush_loop` overwrites
`_flush_task`), hence the runs with two loops.

### Classifier and IPContext

`Classifier` keeps the order of precedence, the thresholds and the severity
conditions, and abstracts string matching: an event says whether its text holds
an injection pattern, its credentials are weak, its path is a scanned one. The
LOW conditions need no look, LOW is also the default. `IPContext` splits
`update_and_get` at its only await: `Ask` reads the clock, `Classified` runs the
transaction (`Executed`: ZADD, ZREMRANGEBYSCORE, ZCARD, SADD, SMEMBERS, EXPIRE)
and classifies; `Degraded` and `DegradedLate` are its `except`, without and with
the transaction having run. Between the two the clock ticks and other workers
run theirs. Assumed: one clock, and no two equal readings of it (the members of
the sorted set are named by it).

### Backfill

`Process` is one pass of the loop, commit of a full batch included; `Die` and
`DieCommitted` end a run at any await, before or after a commit took effect.
Every table of four rows is an initial state. The workers store only classified
events (`_classify_event` falls back to `suspicious_request`), so no new row
concerns a run. Two backfills at once are left out.

### SSHSession and HTTPRequest

`HoneypotBuffer` has the inside of `emit_event`, and the way it raises: another
task resets the shared handle while this one awaits `connect()`, and the
assertion in `publish` fails (`handler.py:113`). Here it is what its caller sees
of it. For an SSH attempt that is one step (`Emitted` or `EmitRaises`). For an
HTTP request, whose answer depends on it, the lost replies are steps of their
own: `RequestAddedUnanswered` is an XADD that was executed although the attempt
failed, as often as `publish` tries; then `emit_event` returns
(`RequestEmitted`) or raises after all (`RequestEmitRaises`), which leaves the
copies in the stream.

asyncssh runs `validate_password` as a task of the connection and cancels it
when the client sends its next request or hangs up. What `connection_lost`
wants to record is a task that only the end of the process cancels. A cancelled
emission has reached the stream or the buffer (`kept`) or has not (`cut`).

A request to the HTTP honeypot is its method, its path, whether it is spelled
as the code spells it, and the lengths of its body and of two form fields.
aiohttp's part is external: `read()` raises for a body that breaks off or is
larger than `client_max_size` (the same limit), chunks are of any size up to a
bound, a handler that raises is answered with 500. The configured credential
limit is any integer, fixed when the process starts.

### Supervisor

`task` is the await a honeypot's task is at; `Cancel` is what a
`CancelledError` does there. It leaves `start()` for `stop()`; it escapes from
the sleep before a restart, which is outside the `try` (`__main__.py:72`), from
a task that has not begun and from `stop()` itself; in `stop_flush_loop` it is
taken for the one of the flush loop. `flush` is the loop `_flush_task` refers
to, `leaked` counts loops of earlier starts that nobody refers to any more. A
loop dies when `_flush_buffer` raises (`FlushLoopDies`; `HoneypotBuffer` shows
how it comes to that).

### DashboardAPI and GeoResolver

Each SELECT is a step, and rows are committed between two of them: late, and in
any order, since events wait in the queue. `answer` collects what the
statements returned. Only one request is under way at a time: requests read
only, and what they share, the resolver's cache, is used without an await. The
walk is a client that asks for page after page as long as the answers say there
are more. SQL without a total order (`ORDER BY timestamp`, `ORDER BY count`)
returns ties in any order, at each statement anew (`Slices`, `TopIPs`). Within a
request `resolve` is a function of the cache; `ResolveAll` folds it over the
addresses, up to the first that raises.

### Dashboard

A hook's effect is a set of requests with the flag `mounted`, which the clean-up
of the effect clears (`CleanUp`). `Rerun` is clean-up and load, `Mount` a page
in the place of another. The hook of the country summary depends on the time of
the rendering (`periodToRange`), so whenever something new is rendered it starts
over (`Unstable`). The API takes one pair of user name and password, which may
change; `Refuse` is the 401. The hooks of the dashboard are alike but for the
country summary; `"summary"` stands for the other ones.

## 3. What the runs check

Worker runs (`MCEventWorker`):

| Run | Bounds | Shows |
|---|---|---|
| `worker_safety` | 2 workers, 2 events, 2 entries, batch 2, 2 attempts, one fault of each of nine kinds | `TypeOK`; `NoAckBeforeStore`: an event handed out is stored or un-ACKed; `CountedOncePerDelivery`: retries do not count an attempt twice; `NoDoubleProcessing`: no entry is worked on by two workers; `StoreSpec`: the workers implement `EventStore` |
| `worker_liveness` | the same 2 workers and 2 entries; the database fails up to as often as an event is tried (so it may come back in time or too late), one failing Redis call, one lost group or stream, one duplicate, one unreadable entry | `EventuallyStored`, `EventuallyAcked` |
| `worker_crash` (violation) | one worker, one crash | `UnackedReprocessed` does not hold: entries handed out before a crash are never read again, because `consume` reads only `>` |

Honeypot runs (`MCHoneypotBuffer`):

| Run | Bounds | Shows |
|---|---|---|
| `buffer_safety` | 3 events, 2 flush loops, deque of 2, 2 attempts, 1 outage, 1 refused command or cancellation | `TypeOK`; `LossMatchedByDuplicate`: overlapping flushes lose at most as many events as they duplicate, plus what the full deque sheds |
| `buffer_liveness` | 3 events, 1 loop, deque of 2, 2 attempts, Redis may stay down for good | `EmitReturns`: no emit hangs; `BufferDrains`: an event buffered when Redis is up for good leaves the buffer |
| `buffer_flush_race` (violation) | deque large enough for all events | `LeavesBufferPublished` does not hold: two flushes publish the same head and pop two events |

Detection runs (`MCIPContext`, `MCBackfill`; the thresholds of the rule file
scaled down to 2, 3 and 4):

| Run | Bounds | Shows |
|---|---|---|
| `context_safety` | 2 workers, 2 addresses, 3 events (SSH login, HTTP request), clock to 6, window 2, TTL 3, one fault | `TypeOK`; `CountsOnlyTheWindow`: nothing counts but the address's own attempts in the window and those that overtook the event; `BurstIsCaught`: the newest attempt is a brute_force exactly when the window holds enough attempts |
| `backfill_safety` | every table of 4 rows, 2 addresses, 3 time stamps (ties), batch 3 (so that the last batch is incomplete), two runs that die | `TypeOK`; `CommittedInOrder`; `EvidenceForClass`; `NeverReclassified`; `CompletedIsTotal` |

Sessions, supervisor, API and dashboard:

| Run | Bounds | Shows |
|---|---|---|
| `sessions` | SSH: 2 user names, 3 passwords; HTTP: every method and path, a body of up to 2 bytes beyond a limit of 4, chunks of up to 3, fields of 0, 1 and 3, configured limits of -1, 0, 1, 3 and 4 (a default of 2, a maximum of 3), 2 attempts of `publish` | `TypeOK`; `OneKindOfTrace`: login attempts or one `ssh_connection`, never both; `AnsweredIsKept`: a client that got its refusal is recorded; `EverySessionTraced`; `RecordedAsAnswered`: before the answer, as one event, with the status sent, or not at all with 405 and 413; `TooLargeIsRefused`: login attempts exactly beyond the limit; `CredentialsAsSent`: cut to the configured limit or, where that is none, to the default |
| `supervisor` | 2 honeypots, 3 consecutive crashes | `TypeOK`; `QuietWhenClosed`: no server and no loop is left when the queue is closed, but those of a dead loop and of crashes; `GivesUpOnlyAfterMax`; `ServesInTheEnd`; `ShutdownEnds` |
| `api` | 4 rows of 3 addresses, two with one time stamp, one unclassified, one that leaves the period; pages and rankings of 2; a cache of 2 for 4 public addresses, one of them with a record that cannot be decoded | `TypeOK`; `WalkShowsAll`; `SummaryAddsUp`; `RiskBracketed`; `PlacesTrue`; `CacheIsMostRecent` |
| `dashboard` | 2 views, 2 periods, 2 pages, 2 pairs of credentials, 3 requests under way | `TypeOK`; `OnlySelectedAppears`: no answer for a former selection; `SelectedAppears` |

`EventuallyStored` and `EventuallyAcked` name what they except, and each
exception is one TLC found. A database that is away for all attempts of an event
(`Outage`) has it given up, un-ACKed, and nobody reads it again; how long that
lasts is counted in attempts, so the exception holds only in behaviours in which
the database failed that often. A dead letter whose XACK fails makes `consume`
drop the rest of the batch. An XACK that fails is not made up for. An event that is
in the table already (published twice, or read again after the group was lost)
fails its INSERT at every attempt and is given up without an ACK.

`BufferDrains` speaks of one flush loop and no task ended from outside
(`MaxMishaps = 0`), and only as long as the flush loop lives: the assertion of
`publish` also ends the background task when it fails there (`base.py:123`
catches nothing); the events then wait for the next `emit_event` of the
honeypot, and `Supervisor` shows what becomes of the shutdown.

`CountsOnlyTheWindow` has an exception, too: neither `ZREMRANGEBYSCORE` nor
`ZCARD` has an upper end (`ipcontext.py:92`), so a worker that awaits its
transaction counts the attempts whose workers read the clock later and were
faster (`Overtaking`), up to the moment its transaction runs.

`BurstIsCaught` leaves out an attempt that is older than one already counted:
the newer one has trimmed the set, so the older may count too few. It also needs
the transaction to run within TTL - window of the clock reading. It counts every
event of the address, as the code does: the rule file calls `brute_force`
repeated SSH authentication, but connections without a login count as well. With
the shipped rules `port_scan` needs three ports, and a deployment reports one
port per honeypot, that is two.

`QuietWhenClosed` has two exceptions and TLC found both. A loop that died makes
`stop_flush_loop` raise, and the server is not closed (`base.py:114`). A crash
leaves the loop of its start behind, when there is another start or when the
shutdown comes during the pause; these loops flush the one buffer together,
which is the case of two loops in `buffer_safety`.

`WalkShowsAll` needs that no row came in between the two statements of the last
page, and that the row shares its time stamp with no other one: rows that come
in only shift the others to later pages, so they are shown twice and not
skipped, while ties may be exchanged between two pages. `RiskBracketed` bounds a
ranking's score from below by the rows of the period and from above by the
address's types and severities of all times: the code reads the latter (section
5), and a code that read those of the period would keep the bounds as well.

`RecordedAsAnswered` promises nothing of a 500 but that what is recorded, if
anything, is one event with the status that would have been answered:
`emit_event` raises before an XADD or after some.

`SelectedAppears` leaves out the country summary: every rendering in which
something else arrived throws its request away. A list whose request meets a
401 shows neither data nor an error.

Why the bounds are enough: the interesting interleavings need two workers (or
two flushing tasks), a batch of two entries whose first or second one is
disturbed (a batch of one, and an entry added after the read, occur as well),
and a retry loop with a last and a not-last attempt. In the detection runs,
three attempts of a window of two show one inside, one at and one outside the
boundary, and two workers run their transactions in both orders. Each fault kind
occurs once, in every order with the others. A session needs an attempt before,
at and after the one that is cut, and a body one chunk below, at and above the
limit. Three crashes are one after a first start, one after a restart and the
last. Four rows make two pages, and a page may change while the other is shown;
a cache of two evicts with three addresses. Three requests of the dashboard are
one of a former selection, one of the present one and one of a poll.

Fairness: a worker is a task in a container that is restarted, and its awaits
return; so `Progress(w)` is weakly fair per worker. In the honeypot every task
that can take its next step eventually does. A task of the supervisor leaves its
await, or is cancelled out of it, and asyncssh's login timer ends a connection
that does not end by itself. The browser answers or fails every request, each
hook's by itself. Faults, new attacks, a signal, what the user does and the
return of Redis are never promised.

## 4. What is proved

`EventWorkerProofs`, for any number of workers, events, entries, retries and
faults (assumption `WorkerAssumption`: batch size and retries at least 1):

* `InductiveInvariant`, `TypeCorrect`, `NothingAckedUnstored`: the invariant
  adds to `NoAckBeforeStore` that a batch lies in the log (`BatchInLog`), that a
  worker's stage fits the entry it is at (`StageMatchesEntry`: in `ack` the
  event is stored, in `deadletter` the entry is unreadable) and that pending
  entries were delivered from the present stream (`PendingDelivered`). The proof
  separates what a step does to the stream (`StreamStep`, `NothingDropped`,
  `WorkerStreamEffect`) from what it does to a worker's batch (`AdvanceStep`,
  `FailedAttemptStep`, `LeaveStep`, `WorkerStage`).
* `NothingProcessedTwice`, `CountedOnce` (invariant `SharingInv`): the times an
  entry was counted and the workers that may still count it are together no more
  than the times it was handed out (`CountBound`). A worker may count the entries
  of its batch it has not classified yet, so the retry loop, which does not
  classify again, takes nothing from the bound; a read hands every entry to one
  worker, and only the loss of the group makes it hand one out again.
* `ImplementsEventStore`: `Spec => StoreSpec`; every worker step maps to Store,
  Settle or a stutter, the environment's to Accept, Reissue or Forget. `lost`
  is mapped to `base`, so only a step that loses the stream itself may map to
  Forget: a group created again at the wrong place, or an ACK without a row, is
  no step of `EventStore`.

`HoneypotBufferProofs`, for any number of events, flush loops, retries and
outages and any size of the deque (`BufferAssumption`):

* `TypeCorrect`, `LossesAreDuplicates`: the property only compares numbers, and
  a flush pops whatever is at the head when its XADD returns. The invariant says
  that the event a flush publishes is the head still or has left the deque
  (`HeadOrGone`). So an XADD and the `popleft()` after it put at most one event
  among those out of the honeypot's hands (`Gone`), and the entry pays for it
  (`EveryLossPaid`); the full deque pays for what it sheds itself.

`BackfillProofs`, for any table, rules, batch size and number of runs that die
(`BackfillAssumption`, `RulesAssumption`):

* `TypeCorrect`, `PrefixCommitted`, `ClassHasEvidence`, `ClassesKept`,
  `CompletedCovers`: what is committed is what was pending in the session, so
  both maps of classes are shown to be fit to be committed (`Sound`: they keep
  the committed classes, cover a prefix in time and have their evidence). The
  pending one stays so because the rows still to do are exactly those without an
  update, sorted (`RunConsistent`), and because the counters in memory have a
  row for everything they count (`CountersBacked`).

`IPContextProofs`, for any number of workers, addresses, events and faults, any
window, TTL and rules (`RulesAssumption`, `ContextAssumption`):

* `ContextInvariant`, `ContextTypeCorrect`, `NothingElseCounted`: the invariant
  says that every member of a sorted set was recorded by an earlier transaction
  of the same address (`MembersRecorded`); without it nothing is known of what
  ZCARD counts. `RecordedBy` is what one transaction does, `AnswerCounts` that a
  new answer leaves the old ones as they were. The invariant bounds what is
  counted from below (`CountsSince`); that it lies in the window or overtook the
  event (`SinceParts`) follows from the time stamps, which are no later than the
  transactions that recorded them (`Stamps`).
* `BurstsCaught` (invariant `WindowInv`): the other direction, that nothing is
  missing. A recorded attempt is in its key until a later transaction of the
  address trims it or finds the key expired (`Kept`), and neither can concern an
  attempt within the window of the newest one (`SeenComplete`). The transactions
  are in the history in the order they ran, with different time stamps
  (`Stamps`).

`SupervisorProofs`, for any number of tolerated crashes
(`SupervisorAssumption`: at least one):

* `TypeCorrect`, `QuietAtTheEnd`, `GivenUpInTheEnd`: the invariant (`IInv`) says
  of each honeypot how many loops it can have at which await (`LoopsBounded`),
  that one that may be started has starts left (`StartsLeft`), at which awaits
  its server can be open (`OpenServer`), when a cancellation can be pending
  (`CancelledTask`), and what the manager knows of its tasks
  (`TasksOfManager`). One lemma per step of a honeypot, `OtherHoneypot` for the
  rest of them, and `ManagerStep`.

`SessionsProofs`, for any user names and number of password requests, any limits,
chunk size, lengths of bodies, retries and any integers configured as the
credential limit (`SessionsAssumption`: the empty name is no user's, the bound is
a number, the limits of the code are positive, the default is no more than the
maximum):

* SSH (`SessionTypeCorrect`, `OneKindRecorded`, `AnsweredRecorded`): the
  invariant (`SSHInv`) adds that an open connection has no `ssh_connection`
  event and one without attempts no login attempt (`TraceByAttempts`), and that
  the event `validate_password` awaits is still being emitted
  (`ValidatedEmitting`), so that no cancellation touches an event the client was
  answered about. `RelabelStep` is the argument of every step that changes only
  the status of events.
* HTTP (`RequestRecorded`, `LargeRefused`, `CredentialsRecorded`): the properties
  speak of the answer; the invariant follows the request to it by what may be
  recorded at each await (`RecordedByStage`: nothing before there is a
  draft, and nothing but copies of it) and by where the bytes of a body
  are: kept, still to come, or lost with a body that broke off
  (`BodyAccounted`).
* `ComposesSessions`: a session is a behaviour of both, so what is proved of
  either holds of it; `TypeCorrect` is its first use.

`DashboardAPIProofs`, for any rows, addresses, periods, page sizes and limits
(`ApiAssumption`). The statements of one answer see different tables; what makes
it right is that the table only grows:

* `WalkComplete`: a row that comes in moves others down the list, never up. The
  invariant (`WalkInv`) says that a row with a time stamp of its own that the
  client has not seen after k pages has k pages of newer rows above it, in the
  table of any later moment. At the last page, with the count of its own
  statement, there is no room for it.
* `RiskBetween`: each statement returns no less than it would have returned when
  the request came in, and no more than it would now (`ProfileInv`,
  `RankingInv`), and the score grows with the events, the types and the
  severities (`ScoreMonotonic`). The latter was not provable at first: the score
  of the severities was a CASE whose guards overlap, which TLA+ leaves open and
  TLC reads from the top. It is a maximum now, as in `ip.py:84`.
* `SummariesAddUp`: the same bounds for each statement of `get_summary`
  (`SummaryInv`). The last figure is taken last, so it makes up for the rows the
  others missed. Where one statement splits rows by a key, the counts add up to
  the rows (`SumOfCounts`), which ties the sums to cardinalities.
* `CacheLeastRecentlyUsed`: the invariant (`GeoInv`) says that the cache is a
  function of the history of the addresses used (`CacheOf`), and that no address
  is in the history twice nor one whose record cannot be decoded. A hit removes
  and appends in both (`HitStep`), a miss drops the oldest (`MissStep`); neither
  needs a bound on the size, and no room at all is a case of its own.
* `PlacesCorrect`: therefore what `resolve` returns does not depend on the cache
  (`ResolutionFacts`), nor what a list of addresses gives (`AllResolved`). The
  events of a country are those of its addresses, because the ranking names each
  address once and leaves none out (`TopIPsComplete`).
* `Typed`: an answer has as many parts as its request has statements
  (`SizeInv`), and a client walks no further than there are pages.

Sums and the resolving of a list are folds of the library, each defined by a
function on the sets of indices. That such a function exists, and that it takes
one address after the other, is shown by the least number for which it would
not (`LeastNumber`, `FoldExists`, `FoldSteps`, `SumUnique`); a theorem with an
operator as a parameter is not needed for that.

The attempts to prove these changed the model in two places. `TypeOK` allowed
an answer four parts or the ranking's number, whichever its instance needed, and
was false for one candidate; it takes the maximum now. The ranking behind
`get_country_summary` was cut at the number of addresses, which is no number
when there are infinitely many; it has no limit in the code, and the model says
so with the size of the table.

`DashboardProofs`, for any periods, filters, pages and credentials and any
number of requests under way (`DashboardAssumption`):

* `TypeCorrect`, `SelectedOnly`: `OnlySelectedAppears` is about a step, and no
  step looks at what is selected when an answer comes. The invariant says that a
  request whose effect is mounted is of what its hook has selected
  (`RequestsCurrent`): every action that selects something else or replaces the
  page cleans up the effects concerned in the same step.

TLC evaluates each of these assumptions in the runs of the same component.

Only model-checked:

* The liveness properties (`EventuallyStored`, `EventuallyAcked`, `EmitReturns`,
  `BufferDrains`, `EverySessionTraced`, `ServesInTheEnd`, `ShutdownEnds`,
  `SelectedAppears`): the prover has no support for ENABLED.

Every safety property that a passing run checks is stated by a theorem.

## 5. What the code does that its texts do not say

Two of these are runs that expect a violation (`worker_crash`,
`buffer_flush_race`); the others were met while modelling, and the models do
what the code does.

* Workers: an event met during a database outage longer than its retries is
  given up, not ACKed and never read again (`workers.py:209`; `docs/architecture.md:66`
  says it is processed after the recovery). `EventuallyStored` excepts it.
* Publishing: the assertion of `publish` loses an event (`handler.py:113`), and
  ends the flush loop it happens in.
* Contexts: the attempts of the time window, which `ipcontext.py:65` promises,
  are those since its beginning: a stalled worker also counts attempts made after
  its event's time stamp (`ipcontext.py:92`). The set of ports has no time window and is kept alive by every event
  (`ipcontext.py:96`); `port_scan.time_window` is read by nothing.
* Backfill: a run after an interrupted one starts with empty contexts and may
  give later events another class than one run would (`backfill.py:75`).
* SSH: an attempt cut while it is emitted leaves no trace (`ssh.py:202` counts
  it before). The maximum of attempts is only logged. The `client_version` of an
  `ssh_connection` is the one of `connection_made`, usually empty. A host key
  whose writing was interrupted is used by every later start (`ssh.py:359`).
* HTTP: 405 and 413 on `/login` are not recorded (`http.py:4` says every request
  is), and a 500 may have its event in the stream. A GET or POST beyond 1 MB is
  to be refused (`http.py:91`, requirement 1.6 of
  `.kiro/specs/7-feat-http-login-form-collection`): only a POST to `/login` is. A
  GET of `/login` is answered 200, its body unread, and any other path as usual,
  without a preview. Bodies are previewed up to 8192 bytes (`events.py:39` says
  1024).
* Settings: the documented `CREDENTIAL_MAX_CREDENTIAL_LENGTH` is read by
  nothing, the field listens to `CREDENTIAL_MAX_CREDENTIAL_LENGTH_RAW`
  (`config.py:116`). A value that is no integer fails at import, before the
  `except` of `get_max_credential_length`.
* Supervisor: the shutdown flushes no buffer (`__main__.py:138`), and a process
  whose honeypots were all given up stays.
* GeoIP: `geoip.py:8` promises no exceptions, `_lookup` lets those of a damaged
  record through; the request is a 500.
* API: `date_trunc` has no `quarter_hour`, so `interval=15m` fails in
  PostgreSQL; `5m` truncates to minutes. An address with few but severe events
  is not among the candidates of the ranking. The ranking of a period counts the
  period's events and reads the types and severities of all times
  (`attack.py:512`); requirements 2.2 and 7.4 of
  `.kiro/specs/5-feat-dashboard-unified-period` have all of it aggregated over the
  period.
* Dashboard: after a 401 the credentials are gone and the page stays
  (`client.ts:85` says it returns to the login); a late 401 also drops newer
  credentials. Two answers of one effect may arrive in the wrong order, and the
  older one stays until the next poll.

## 6. Not modelled

Configuration and logging but for the credential limit; migrations and
deployment; the health route; `create_bulk` and `get_by_id`; the pool of
database sessions and statements of the API that fail; texts, charts and
components; the loading of the rule file. Their behaviour over time is nil or
belongs to a library.

## 7. Plan

1. Done: the workers, the honeypot buffer, detection, backfill; sessions,
   supervisor, API with resolver, dashboard; proofs about each of them.
2. `Pipeline`: `HoneypotBuffer` and `EventWorker` composed over one stream.
3. Runs with requests of the API that fail in the middle of their statements.
