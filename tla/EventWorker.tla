---------------------------- MODULE EventWorker -----------------------------
(***************************************************************************)
(* The consuming half of the pipeline: EventQueue.consume/ack and          *)
(* _ensure_consumer_group (collector/handler.py), EventWorker              *)
(* (tasks/workers.py) and run_worker, over a Redis stream with one         *)
(* consumer group and the attack_events table.                             *)
(*                                                                         *)
(* Every await that talks to Redis or PostgreSQL is one step, and may      *)
(*   - succeed,                                                            *)
(*   - fail before it took effect          (budget "redis", "db"),         *)
(*   - take effect and lose its reply      (budget "redisLost", "dbLost"). *)
(* A worker may crash anywhere ("crash"), be told to stop anywhere         *)
(* ("stop"), and Redis may lose the group or the whole stream ("lose").    *)
(* An event may be in the stream twice ("dup"), and an entry may be        *)
(* unreadable ("junk").                                                    *)
(* The number of faults is bounded by the constant Budget; sleeps between  *)
(* attempts are left out, since any step of another process may happen     *)
(* between two steps of a worker anyway.                                   *)
(*                                                                         *)
(* Entries are numbered 1, 2, ... in XADD order (Redis entry ids grow).    *)
(* A batch is always a run of consecutive entries, cur .. last.            *)
(***************************************************************************)
EXTENDS Naturals, Sequences, Functions

CONSTANTS
    Workers,        \* consumer names of the running worker processes
    Events,         \* events a honeypot can emit (identified by their UUID)
    Malformed,      \* an entry from_json_str (or the event_json key) rejects
    BatchSize,      \* EventWorker._batch_size, COUNT of XREADGROUP
    DbMaxRetries,   \* EventWorker._db_max_retries
    MaxEntries,     \* bound: entries ever added to the stream
    Budget          \* bound: how many faults of each kind happen

FaultKinds ==
    {"db", "dbLost", "redis", "redisLost", "crash", "stop", "lose", "dup",
     "junk"}

ASSUME WorkerAssumption ==
    /\ BatchSize \in Nat \ {0}
    /\ DbMaxRetries \in Nat \ {0}
    /\ MaxEntries \in Nat
    /\ Budget \in [FaultKinds -> Nat]
    /\ Malformed \notin Events

VARIABLES
    \* Redis
    log,            \* payloads of all entries ever added
    base,           \* entries 1 .. base went with a lost stream
    groupExists,    \* the consumer group exists
    lastDelivered,  \* the group's last-delivered-id
    pending,        \* the group's pending entries, per consumer
    counted,        \* how often the IP context counted each entry (history)
    \* PostgreSQL
    db,             \* primary keys in attack_events
    \* worker processes
    pc,             \* the await each worker is at
    running,        \* EventWorker._running
    connected,      \* EventQueue._redis is not None
    cur, last,      \* the batch in memory: entries cur .. last
    attempt,        \* the retry loop's counter, from 0
    \* environment
    budget          \* faults that may still happen

redisVars  == <<log, base, groupExists, lastDelivered, pending>>
workerVars == <<pc, running, connected, cur, last, attempt>>
vars == <<redisVars, counted, db, workerVars, budget>>

Stages == {"down", "read", "deliver", "deadletter", "classify", "save", "ack"}
Entries == 1 .. MaxEntries

TypeOK ==
    /\ log \in Seq(Events \cup {Malformed})
    /\ Len(log) <= MaxEntries
    /\ base \in 0 .. Len(log)
    /\ groupExists \in BOOLEAN
    /\ lastDelivered \in base .. Len(log)
    /\ pending \in [Workers -> SUBSET (1 .. Len(log))]
    /\ counted \in [Entries -> Nat]
    /\ db \subseteq Events
    /\ pc \in [Workers -> Stages]
    /\ running \in [Workers -> BOOLEAN]
    /\ connected \in [Workers -> BOOLEAN]
    /\ cur \in [Workers -> 1 .. Len(log) + 1]
    /\ last \in [Workers -> 0 .. Len(log)]
    /\ attempt \in [Workers -> 0 .. DbMaxRetries - 1]
    /\ budget \in [FaultKinds -> Nat]

Init ==
    /\ log = <<>>
    /\ base = 0
    /\ groupExists = FALSE
    /\ lastDelivered = 0
    /\ pending = [w \in Workers |-> {}]
    /\ counted = [i \in Entries |-> 0]
    /\ db = {}
    /\ pc = [w \in Workers |-> "down"]
    /\ running = [w \in Workers |-> FALSE]
    /\ connected = [w \in Workers |-> FALSE]
    /\ cur = [w \in Workers |-> 1]
    /\ last = [w \in Workers |-> 0]
    /\ attempt = [w \in Workers |-> 0]
    /\ budget = Budget

-----------------------------------------------------------------------------
(* Building blocks.                                                        *)

\* A fault of kind k happens.
Spend(k) ==
    /\ budget[k] > 0
    /\ budget' = [budget EXCEPT ![k] = @ - 1]

\* Mutant: XGROUP CREATE with id="$" skips what is already in the stream.
EnsureGroupAtTail ==
    /\ groupExists' = TRUE
    /\ lastDelivered' = IF groupExists THEN lastDelivered ELSE Len(log)
    /\ UNCHANGED <<log, base, pending>>

\* XGROUP CREATE ... id="0" MKSTREAM; BUSYGROUP is ignored.
EnsureGroup ==
    /\ groupExists' = TRUE
    /\ lastDelivered' = IF groupExists THEN lastDelivered ELSE base
    /\ UNCHANGED <<log, base, pending>>

\* XACK: the entry leaves the pending list, whichever consumer owns it.
XAck(i) ==
    /\ pending' = [w \in Workers |-> pending[w] \ {i}]
    /\ UNCHANGED <<log, base, groupExists, lastDelivered>>

\* XREADGROUP ... COUNT batch_size STREAMS key ">" on the server.
BatchEnd ==
    IF lastDelivered + BatchSize < Len(log) THEN lastDelivered + BatchSize
                                            ELSE Len(log)

\* Mutant: XREAD instead of XREADGROUP, every worker reads from the same place.
XReadShared(w) ==
    /\ groupExists
    /\ lastDelivered < Len(log)
    /\ pending' = [pending EXCEPT ![w] = @ \cup (lastDelivered + 1 .. BatchEnd)]
    /\ UNCHANGED <<log, base, groupExists, lastDelivered>>

XReadGroup(w) ==
    /\ groupExists
    /\ lastDelivered < Len(log)
    /\ pending' = [pending EXCEPT ![w] = @ \cup (lastDelivered + 1 .. BatchEnd)]
    /\ lastDelivered' = BatchEnd
    /\ UNCHANGED <<log, base, groupExists>>

\* The worker at stage s moves to stage t; the batch and the counter stay.
Goto(w, s, t) ==
    /\ pc[w] = s
    /\ pc' = [pc EXCEPT ![w] = t]

\* The in-memory batch is abandoned, whatever was left of it.
DropBatch(w) ==
    /\ cur' = [cur EXCEPT ![w] = 1]
    /\ last' = [last EXCEPT ![w] = 0]
    /\ attempt' = [attempt EXCEPT ![w] = 0]

\* The consume generator is resumed: next entry of the batch, or next read.
Advance(w) ==
    IF cur[w] < last[w]
    THEN /\ pc' = [pc EXCEPT ![w] = "deliver"]
         /\ cur' = [cur EXCEPT ![w] = @ + 1]
         /\ attempt' = [attempt EXCEPT ![w] = 0]
         /\ UNCHANGED last
    ELSE /\ pc' = [pc EXCEPT ![w] = "read"]
         /\ DropBatch(w)

\* Mutant: attempts are counted one too far.
FailedAttemptOneMore(w) ==
    IF attempt[w] < DbMaxRetries
    THEN /\ pc' = [pc EXCEPT ![w] = "save"]
         /\ attempt' = [attempt EXCEPT ![w] = @ + 1]
         /\ UNCHANGED <<cur, last>>
    ELSE Advance(w)

\* Mutant: the last attempt is never made.
FailedAttemptOneLess(w) ==
    IF attempt[w] + 1 < DbMaxRetries - 1
    THEN /\ pc' = [pc EXCEPT ![w] = "save"]
         /\ attempt' = [attempt EXCEPT ![w] = @ + 1]
         /\ UNCHANGED <<cur, last>>
    ELSE Advance(w)

\* Mutant: classification inside the retry loop.
FailedAttemptReclassify(w) ==
    IF attempt[w] < DbMaxRetries - 1
    THEN /\ pc' = [pc EXCEPT ![w] = "classify"]
         /\ attempt' = [attempt EXCEPT ![w] = @ + 1]
         /\ UNCHANGED <<cur, last>>
    ELSE Advance(w)

\* except Exception in _process_event: sleep and retry the whole attempt, or
\* give up without ACK and go on with the next event.
FailedAttempt(w) ==
    IF attempt[w] < DbMaxRetries - 1
    THEN /\ pc' = [pc EXCEPT ![w] = "save"]
         /\ attempt' = [attempt EXCEPT ![w] = @ + 1]
         /\ UNCHANGED <<cur, last>>
    ELSE Advance(w)

\* The process ends; nothing it held in memory survives.
Halt(w) ==
    /\ pc' = [pc EXCEPT ![w] = "down"]
    /\ running' = [running EXCEPT ![w] = FALSE]
    /\ connected' = [connected EXCEPT ![w] = FALSE]
    /\ DropBatch(w)

\* The payload of the entry worker w is at.
Payload(w) == log[cur[w]]

-----------------------------------------------------------------------------
(* The environment: honeypots publishing, and Redis losing data.           *)

\* XADD by a honeypot.  Publishing an event again is the retry of an XADD
\* whose reply was lost, or a race of two flushes; an unreadable entry was
\* written by another version of the code, or by hand.
Publish(p) ==
    /\ Len(log) < MaxEntries
    /\ \/ p \in Events /\ p \notin Range(log) /\ UNCHANGED budget
       \/ p \in Events /\ p \in Range(log) /\ Spend("dup")
       \/ p = Malformed /\ Spend("junk")
    /\ log' = Append(log, p)
    /\ UNCHANGED <<base, groupExists, lastDelivered, pending, counted, db,
                   workerVars>>

\* A honeypot's EventQueue.connect() makes sure of the group, too.
PublisherConnects ==
    /\ ~groupExists
    /\ EnsureGroup
    /\ UNCHANGED <<counted, db, workerVars, budget>>

\* The group is lost and the entries survive, or the stream is lost with it.
LoseGroup ==
    /\ Spend("lose")
    /\ groupExists' = FALSE
    /\ pending' = [w \in Workers |-> {}]
    /\ \/ base' = base
       \/ base' = Len(log)
    /\ lastDelivered' = base'
    /\ UNCHANGED <<log, counted, db, workerVars>>

-----------------------------------------------------------------------------
(* EventWorker.start and EventQueue.connect.                               *)

\* start(): init_db, connect the queue, load the rules, running = True.
Start(w) ==
    /\ Goto(w, "down", "read")
    /\ running' = [running EXCEPT ![w] = TRUE]
    /\ connected' = [connected EXCEPT ![w] = TRUE]
    /\ EnsureGroup
    /\ UNCHANGED <<counted, db, cur, last, attempt, budget>>

\* connect() raises in start(): the worker task dies, the process restarts.
StartFails(w) ==
    /\ pc[w] = "down"
    /\ \/ Spend("redis") /\ UNCHANGED redisVars
       \/ Spend("redisLost") /\ EnsureGroup
    /\ UNCHANGED <<counted, db, workerVars>>

\* connect() where consume or ack found _redis to be None.
Connect(w) ==
    /\ pc[w] \in {"read", "deadletter", "ack"}
    /\ ~connected[w]
    /\ connected' = [connected EXCEPT ![w] = TRUE]
    /\ EnsureGroup
    /\ UNCHANGED <<counted, db, pc, running, cur, last, attempt, budget>>

\* The outer except of consume: _redis = None, sleep, read again.
Reconnect(w) ==
    /\ pc' = [pc EXCEPT ![w] = "read"]
    /\ connected' = [connected EXCEPT ![w] = FALSE]
    /\ DropBatch(w)

\* connect() raises: consume starts over, _process_event counts an attempt
\* (and keeps the handle that from_url assigned before the failure).
ConnectFails(w) ==
    /\ ~connected[w]
    /\ \/ Spend("redis") /\ UNCHANGED redisVars
       \/ Spend("redisLost") /\ EnsureGroup
    /\ \/ /\ pc[w] \in {"read", "deadletter"}
          /\ Reconnect(w)
       \/ /\ pc[w] = "ack"
          /\ connected' = [connected EXCEPT ![w] = TRUE]
          /\ FailedAttempt(w)
    /\ UNCHANGED <<counted, db, running>>

-----------------------------------------------------------------------------
(* EventQueue.consume.                                                     *)

\* XREADGROUP returns a batch of new entries.
Read(w) ==
    /\ Goto(w, "read", "deliver")
    /\ connected[w]
    /\ XReadGroup(w)
    /\ cur' = [cur EXCEPT ![w] = lastDelivered + 1]
    /\ last' = [last EXCEPT ![w] = BatchEnd]
    /\ UNCHANGED <<counted, db, running, connected, attempt, budget>>

\* The blocking read times out with nothing new; the loop goes round.
ReadEmpty(w) ==
    /\ pc[w] = "read"
    /\ connected[w]
    /\ groupExists
    /\ lastDelivered = Len(log)
    /\ UNCHANGED vars

\* Mutant: NOGROUP is logged and the loop goes round.
ReadNoGroupIgnored(w) ==
    /\ pc[w] = "read"
    /\ connected[w]
    /\ ~groupExists
    /\ UNCHANGED vars

\* NOGROUP: the group is created again and the loop goes round.
ReadNoGroup(w) ==
    /\ pc[w] = "read"
    /\ connected[w]
    /\ ~groupExists
    /\ EnsureGroup
    /\ UNCHANGED <<counted, db, workerVars, budget>>

\* The connection breaks before the read was executed.
ReadFails(w) ==
    /\ pc[w] = "read"
    /\ connected[w]
    /\ Spend("redis")
    /\ Reconnect(w)
    /\ UNCHANGED <<redisVars, counted, db, running>>

\* The connection breaks after the group handed the batch out.
ReadReplyLost(w) ==
    /\ pc[w] = "read"
    /\ connected[w]
    /\ Spend("redisLost")
    /\ XReadGroup(w)
    /\ Reconnect(w)
    /\ UNCHANGED <<counted, db, running>>

\* The entry does not parse: it will be acknowledged as a dead letter.
ParseError(w) ==
    /\ Goto(w, "deliver", "deadletter")
    /\ Payload(w) = Malformed
    /\ UNCHANGED <<redisVars, counted, db, running, connected, cur, last,
                   attempt, budget>>

DeadLetterAck(w) ==
    /\ pc[w] = "deadletter"
    /\ connected[w]
    /\ XAck(cur[w])
    /\ Advance(w)
    /\ UNCHANGED <<counted, db, running, connected, budget>>

\* The ACK of a dead letter breaks out of the loop over the batch.
DeadLetterAckFails(w) ==
    /\ pc[w] = "deadletter"
    /\ connected[w]
    /\ \/ Spend("redis") /\ UNCHANGED redisVars
       \/ Spend("redisLost") /\ XAck(cur[w])
    /\ Reconnect(w)
    /\ UNCHANGED <<counted, db, running>>

\* The generator yields a parsed event to the loop of start().
TakeEvent(w) ==
    /\ Goto(w, "deliver", "classify")
    /\ Payload(w) # Malformed
    /\ running[w]
    /\ UNCHANGED <<redisVars, counted, db, running, connected, cur, last,
                   attempt, budget>>

\* ... which breaks instead once stop() was called.
LoopBreaks(w) ==
    /\ pc[w] = "deliver"
    /\ Payload(w) # Malformed
    /\ ~running[w]
    /\ Halt(w)
    /\ UNCHANGED <<redisVars, counted, db, budget>>

-----------------------------------------------------------------------------
(* EventWorker._process_event.                                             *)

\* _classify_event: one update of the IP context, before the retry loop.
Classify(w) ==
    /\ Goto(w, "classify", "save")
    /\ counted' = [counted EXCEPT ![cur[w]] = @ + 1]
    /\ UNCHANGED <<redisVars, db, running, connected, cur, last, attempt,
                   budget>>

\* The context update fails: degraded classification, the event goes on.
ClassifyDegraded(w) ==
    /\ Goto(w, "classify", "save")
    /\ \/ Spend("redis") /\ UNCHANGED counted
       \/ Spend("redisLost") /\ counted' = [counted EXCEPT ![cur[w]] = @ + 1]
    /\ UNCHANGED <<redisVars, db, running, connected, cur, last, attempt>>

\* session.add(model); commit()
Save(w) ==
    /\ Goto(w, "save", "ack")
    /\ Payload(w) \notin db
    /\ db' = db \cup {Payload(w)}
    /\ UNCHANGED <<redisVars, counted, running, connected, cur, last, attempt,
                   budget>>

\* The INSERT raises IntegrityError: the row is already there.
SaveConflict(w) ==
    /\ pc[w] = "save"
    /\ Payload(w) \in db
    /\ FailedAttempt(w)
    /\ UNCHANGED <<redisVars, counted, db, running, connected, budget>>

\* Mutant: the error of the commit is swallowed and the entry is ACKed.
SaveErrorSwallowed(w) ==
    /\ Goto(w, "save", "ack")
    /\ \/ Spend("db") /\ UNCHANGED db
       \/ Spend("dbLost") /\ db' = db \cup {Payload(w)}
    /\ UNCHANGED <<redisVars, counted, running, connected, cur, last, attempt>>

\* The commit raises: no connection, or the reply to the commit is lost.
SaveFails(w) ==
    /\ pc[w] = "save"
    /\ \/ Spend("db") /\ UNCHANGED db
       \/ Spend("dbLost") /\ db' = db \cup {Payload(w)}
    /\ FailedAttempt(w)
    /\ UNCHANGED <<redisVars, counted, running, connected>>

\* XACK after the commit; the event is done.
Ack(w) ==
    /\ pc[w] = "ack"
    /\ connected[w]
    /\ XAck(cur[w])
    /\ Advance(w)
    /\ UNCHANGED <<counted, db, running, connected, budget>>

\* XACK raises inside the same try: the attempt, commit included, is redone.
AckFails(w) ==
    /\ pc[w] = "ack"
    /\ connected[w]
    /\ \/ Spend("redis") /\ UNCHANGED redisVars
       \/ Spend("redisLost") /\ XAck(cur[w])
    /\ FailedAttempt(w)
    /\ UNCHANGED <<counted, db, running, connected>>

-----------------------------------------------------------------------------
(* run_worker: signals, cancellation, crashes.                             *)

\* SIGTERM: stop() clears _running and closes the queue, the worker task is
\* still alive until it is cancelled.
Stop(w) ==
    /\ pc[w] # "down"
    /\ running[w]
    /\ Spend("stop")
    /\ running' = [running EXCEPT ![w] = FALSE]
    /\ connected' = [connected EXCEPT ![w] = FALSE]
    /\ UNCHANGED <<redisVars, counted, db, pc, cur, last, attempt>>

\* worker_task.cancel() once stop() has returned.
Cancel(w) ==
    /\ pc[w] # "down"
    /\ ~running[w]
    /\ Halt(w)
    /\ UNCHANGED <<redisVars, counted, db, budget>>

\* The process is killed, or an exception escapes the worker task.
Crash(w) ==
    /\ pc[w] # "down"
    /\ Spend("crash")
    /\ Halt(w)
    /\ UNCHANGED <<redisVars, counted, db>>

-----------------------------------------------------------------------------

\* The code path of a worker when no call fails.
Progress(w) ==
    \/ Start(w) \/ Connect(w)
    \/ Read(w) \/ ReadNoGroup(w)
    \/ ParseError(w) \/ DeadLetterAck(w)
    \/ TakeEvent(w) \/ LoopBreaks(w)
    \/ Classify(w) \/ Save(w) \/ SaveConflict(w) \/ Ack(w)
    \/ Cancel(w)

\* What can go wrong for a worker.
Trouble(w) ==
    \/ StartFails(w) \/ ConnectFails(w)
    \/ ReadFails(w) \/ ReadReplyLost(w)
    \/ DeadLetterAckFails(w)
    \/ ClassifyDegraded(w) \/ SaveFails(w) \/ AckFails(w)
    \/ Stop(w) \/ Crash(w)

Environment ==
    \/ \E p \in Events \cup {Malformed} : Publish(p)
    \/ PublisherConnects
    \/ LoseGroup

Next ==
    \/ \E w \in Workers : Progress(w) \/ ReadEmpty(w) \/ Trouble(w)
    \/ Environment

Spec == Init /\ [][Next]_vars

\* Each worker is an asyncio task whose awaits return, in a container with
\* restart: unless-stopped.  Faults and new attacks are not promised.
Fairness == \A w \in Workers : WF_vars(Progress(w))

FairSpec == Spec /\ Fairness

-----------------------------------------------------------------------------
(* Correctness.                                                            *)

IsEvent(i) == i \in 1 .. Len(log) /\ log[i] \in Events

IsPending(i) == \E w \in Workers : i \in pending[w]

\* A worker that has entries in memory has existing ones, in order.
BatchInLog ==
    \A w \in Workers :
        pc[w] \notin {"down", "read"} => cur[w] <= last[w] /\ last[w] <= Len(log)

\* _process_event only ever sees parsed events, and the dead letter path only
\* unreadable entries; the XACK of an event is only reached once it is stored.
StageMatchesEntry ==
    \A w \in Workers :
        /\ pc[w] = "deadletter" => Payload(w) = Malformed
        /\ pc[w] \in {"classify", "save", "ack"} => Payload(w) \in Events
        /\ pc[w] = "ack" => Payload(w) \in db

\* The pending lists hold delivered entries of the present stream only, and
\* without a group nothing counts as delivered.
PendingDelivered ==
    /\ \A w \in Workers : pending[w] \subseteq base + 1 .. lastDelivered
    /\ ~groupExists => lastDelivered = base

\* Events are never dropped: every event of the stream the group has handed
\* out is in the database or still un-ACKed ("ACK only after the commit",
\* _process_event), whatever fails, crashes, stops or gets lost on the way.
NoAckBeforeStore ==
    \A i \in base + 1 .. lastDelivered :
        IsEvent(i) => log[i] \in db \/ IsPending(i)

\* Group losses that have happened so far.
Losses == Budget["lose"] - budget["lose"]

\* The IP context counts an entry once per delivery, however often the save
\* or the ACK is retried: classification is outside the retry loop.  Only the
\* loss of the group delivers (and counts) an entry again.
CountedOncePerDelivery ==
    \A i \in Entries : counted[i] <= 1 + Losses

\* The entries worker w has read and not finished with.
Held(w) == IF pc[w] \in {"down", "read"} THEN {} ELSE cur[w] .. last[w]

\* One consumer group, many workers: as long as the group is not lost, two
\* workers never work on the same entry, and an entry is pending for at most
\* one of them (scale-out is what the group is for, workers.py).
NoDoubleProcessing ==
    Losses = 0 =>
        \A v, w \in Workers : v # w =>
            /\ Held(v) \cap Held(w) = {}
            /\ pending[v] \cap pending[w] = {}
            /\ Held(v) \cap pending[w] = {}

\* What the pipeline still answers for: entries of the stream that were not
\* handed out yet, and those handed out and not ACKed.
Owed ==
    {i \in base + 1 .. Len(log) : i > lastDelivered \/ IsPending(i)}

Store ==
    INSTANCE EventStore
        WITH entries <- log, lost <- base, owed <- Owed, stored <- db

\* The workers implement the promise of EventStore: an ACK releases an entry
\* only once its event is stored (or if it never was one), a group created
\* anew answers for the whole stream, and only the stream's own loss forgets.
StoreSpec == Store!Spec

Used(kind) == budget[kind] < Budget[kind]

\* The database was away for as long as the attempts of one event last.
Outage == Budget["db"] - budget["db"] >= DbMaxRetries

\* Every event that stays in the stream is eventually in the database, unless
\*   - the database failed at as many attempts as one event gets: it is given
\*     up un-ACKed (workers.py:211), and no worker reads it again; or
\*   - an entry was unreadable and a call to Redis failed: a dead letter whose
\*     XACK fails makes consume drop the rest of the batch (handler.py:206).
EventuallyStored ==
    \A i \in Entries :
        IsEvent(i) ~> \/ i <= base
                      \/ IsEvent(i) /\ log[i] \in db
                      \/ Outage
                      \/ Used("junk") /\ Used("redis")

\* ... and is eventually ACKed: nothing stays pending for good, unless the
\* database was away for all attempts of an event, a call to Redis failed (an
\* XACK that fails is not made up for) or the event is in the table from
\* another delivery (its INSERT meets its own primary key at every attempt,
\* and an entry that is given up is not ACKed).
EventuallyAcked ==
    \A i \in Entries :
        IsPending(i) ~>
            \/ ~IsPending(i)
            \/ Outage
            \/ Used("redis")
            \/ (Used("lose") \/ Used("dup")) /\ IsEvent(i) /\ log[i] \in db

\* What workers.py:211 and the docs say of un-ACKed events: they stay in Redis
\* and are processed again once the worker is back.
UnackedReprocessed ==
    \A i \in Entries :
        (IsEvent(i) /\ IsPending(i))
            ~> (i <= base \/ (IsEvent(i) /\ log[i] \in db))


=============================================================================
