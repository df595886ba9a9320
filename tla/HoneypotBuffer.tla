--------------------------- MODULE HoneypotBuffer ---------------------------
(***************************************************************************)
(* The publishing half of the pipeline: BaseHoneypot.emit_event,           *)
(* _flush_buffer and _periodic_flush (honeypot/base.py) over               *)
(* EventQueue.publish and connect (collector/handler.py), in one honeypot  *)
(* process.                                                                *)
(*                                                                         *)
(* The process is one asyncio event loop.  Its tasks are one emit_event    *)
(* per event (the task is named by its event) and the periodic flush       *)
(* loops; several of them are in flight at once, and they share the memory *)
(* buffer and the queue's connection handle _redis.  A task runs alone     *)
(* from one await to the next, so a step below is everything a task does   *)
(* between two awaits: usually it ends by issuing the next Redis command.  *)
(*                                                                         *)
(* Redis is up or down.  A command issued while it is down is refused; one *)
(* that is in flight when Redis goes down is cut: it fails, even when      *)
(* Redis is back by then, and an XADD may have been executed or not.       *)
(***************************************************************************)
EXTENDS Naturals, Sequences, FiniteSets, Functions

CONSTANTS
    Events,         \* the events observed by the honeypot, one task each
    Loops,          \* periodic flush tasks: one, more after a restart of start()
    MaxBuffer,      \* MAX_BUFFER_SIZE, maxlen of the deque
    MaxRetries,     \* EventQueue._max_retries
    MaxOutages,     \* bound: how often Redis goes down
    MaxMishaps      \* bound: refused commands and cancelled connections

Tasks == Events \cup Loops

ASSUME BufferAssumption ==
    /\ Events \cap Loops = {}
    /\ IsFiniteSet(Events)
    /\ MaxBuffer \in Nat \ {0}
    /\ MaxRetries \in Nat \ {0}
    /\ MaxOutages \in Nat
    /\ MaxMishaps \in Nat

VARIABLES
    \* Redis
    up,             \* Redis accepts connections
    outages,        \* outages so far
    stream,         \* events added by XADD, in order
    \* shared state of the process
    handle,         \* EventQueue._redis is not None
    buffer,         \* BaseHoneypot._buffer
    shed,           \* events the full deque pushed out (history)
    \* per task
    stage,          \* the await the task is at
    item,           \* the event it is publishing
    flushing,       \* the publish was called by _flush_buffer
    attempt,        \* publish's retry counter, from 0
    fate,           \* what becomes of the command in flight
    \* environment
    mishaps         \* refusals and cancellations so far

redisVars == <<up, outages>>
taskVars  == <<stage, item, flushing, attempt, fate>>
vars == <<redisVars, stream, handle, buffer, shed, taskVars, mishaps>>

\* joining: XGROUP CREATE in connect(); adding: XADD; waiting: backoff sleep;
\* dead: an exception other than a connection error escaped, or cancelled.
Stages == {"idle", "joining", "adding", "waiting", "done", "dead"}
InFlight == {"joining", "adding"}

TypeOK ==
    /\ up \in BOOLEAN
    /\ outages \in 0 .. MaxOutages
    /\ stream \in Seq(Events)
    /\ handle \in BOOLEAN
    /\ buffer \in Seq(Events)
    /\ Len(buffer) <= MaxBuffer
    /\ shed \in Nat
    /\ stage \in [Tasks -> Stages]
    /\ item \in [Tasks -> Tasks]
    /\ flushing \in [Tasks -> BOOLEAN]
    /\ attempt \in [Tasks -> 0 .. MaxRetries - 1]
    /\ fate \in [Tasks -> {"ok", "cut", "refused"}]
    /\ mishaps \in 0 .. MaxMishaps

\* run_all_honeypots connected the queue before the honeypots were started.
Init ==
    /\ up = TRUE
    /\ outages = 0
    /\ stream = <<>>
    /\ handle = TRUE
    /\ buffer = <<>>
    /\ shed = 0
    /\ stage = [t \in Tasks |-> "idle"]
    /\ item = [t \in Tasks |-> t]
    /\ flushing = [t \in Tasks |-> FALSE]
    /\ attempt = [t \in Tasks |-> 0]
    /\ fate = [t \in Tasks |-> "ok"]
    /\ mishaps = 0

-----------------------------------------------------------------------------
(* Redis.                                                                  *)

RedisDown ==
    /\ up
    /\ outages < MaxOutages
    /\ up' = FALSE
    /\ outages' = outages + 1
    /\ fate' = [t \in Tasks |-> IF stage[t] \in InFlight /\ fate[t] = "ok"
                                THEN "cut" ELSE fate[t]]
    /\ UNCHANGED <<stream, handle, buffer, shed, stage, item, flushing,
                   attempt, mishaps>>

RedisUp ==
    /\ ~up
    /\ up' = TRUE
    /\ UNCHANGED <<outages, stream, handle, buffer, shed, taskVars, mishaps>>

-----------------------------------------------------------------------------
(* Building blocks.  Each ends at the next await of task t.                *)

\* One attempt of publish(x), as _redis is h when it starts: connect() sets
\* _redis and awaits XGROUP CREATE, otherwise XADD is issued at once.
Attempt(t, x, forFlush, n, h) ==
    /\ handle' = TRUE
    /\ stage' = [stage EXCEPT ![t] = IF h THEN "adding" ELSE "joining"]
    /\ item' = [item EXCEPT ![t] = x]
    /\ flushing' = [flushing EXCEPT ![t] = forFlush]
    /\ attempt' = [attempt EXCEPT ![t] = n]
    /\ fate' = [fate EXCEPT ![t] = IF up THEN "ok" ELSE "refused"]

\* The task is between commands: nothing of its last publish matters.
Rest(t, s) ==
    /\ stage' = [stage EXCEPT ![t] = s]
    /\ item' = [item EXCEPT ![t] = t]
    /\ flushing' = [flushing EXCEPT ![t] = FALSE]
    /\ attempt' = [attempt EXCEPT ![t] = 0]
    /\ fate' = [fate EXCEPT ![t] = "ok"]

\* An exception that neither publish nor emit_event catches ends the task.
Escape(t, h) ==
    /\ Rest(t, "dead")
    /\ handle' = h

\* Mutant: a failed flush is started over instead of broken off.
EndFlushTriesAgain(t, h) ==
    IF buffer # <<>> THEN Attempt(t, Head(buffer), TRUE, 0, h)
    ELSE IF t \in Events THEN Attempt(t, t, FALSE, 0, h)
                         ELSE Rest(t, "idle") /\ handle' = h

\* Mutant: the background task flushes once and ends.
EndFlushOnce(t, h) ==
    IF t \in Events
    THEN Attempt(t, t, FALSE, 0, h)
    ELSE Rest(t, "done") /\ handle' = h

\* _flush_buffer returns: an emitter publishes its own event next, a flush
\* loop sleeps.
EndFlush(t, h) ==
    IF t \in Events
    THEN Attempt(t, t, FALSE, 0, h)
    ELSE Rest(t, "idle") /\ handle' = h

\* while self._buffer: publish the head, or return.
FlushNext(t, buf, h) ==
    IF buf # <<>> THEN Attempt(t, Head(buf), TRUE, 0, h)
                  ELSE EndFlush(t, h)

\* publish returned to _flush_buffer: popleft() takes whatever is the head
\* now, and raises IndexError when there is none.
PopFlushed(t) ==
    IF buffer = <<>>
    THEN Escape(t, handle) /\ UNCHANGED buffer
    ELSE /\ buffer' = Tail(buffer)
         /\ FlushNext(t, Tail(buffer), handle)

\* Mutant: a deque without maxlen.
BufferOwnUnbounded(e) == buffer' = Append(buffer, e) /\ UNCHANGED shed

\* Mutant: the failure is only logged.
BufferOwnForgotten(e) == UNCHANGED <<buffer, shed>>

\* deque.append with maxlen: a full deque drops its oldest event.
BufferOwn(e) ==
    IF Len(buffer) < MaxBuffer
    THEN buffer' = Append(buffer, e) /\ UNCHANGED shed
    ELSE buffer' = Append(Tail(buffer), e) /\ shed' = shed + 1

\* XADD by task t was executed.
Executed(t) == stream' = Append(stream, item[t])

-----------------------------------------------------------------------------
(* emit_event and _periodic_flush.                                         *)

\* emit_event(e) is called: flush first if there is something to flush.
Emit(e) ==
    /\ stage[e] = "idle"
    /\ IF buffer # <<>> THEN FlushNext(e, buffer, handle)
                        ELSE Attempt(e, e, FALSE, 0, handle)
    /\ UNCHANGED <<redisVars, stream, buffer, shed, mishaps>>

\* The ten seconds of _periodic_flush are over and the buffer is not empty.
FlushTick(l) ==
    /\ stage[l] = "idle"
    /\ buffer # <<>>
    /\ FlushNext(l, buffer, handle)
    /\ UNCHANGED <<redisVars, stream, buffer, shed, mishaps>>

-----------------------------------------------------------------------------
(* EventQueue.publish.                                                     *)

\* connect() returned; the assertion that _redis is set may fail by now.
Joined(t) ==
    /\ stage[t] = "joining"
    /\ fate[t] = "ok"
    /\ IF handle THEN Attempt(t, item[t], flushing[t], attempt[t], TRUE)
                 ELSE Escape(t, FALSE)
    /\ UNCHANGED <<redisVars, stream, buffer, shed, mishaps>>

\* XADD returned the entry id.
Added(t) ==
    /\ stage[t] = "adding"
    /\ fate[t] = "ok"
    /\ Executed(t)
    /\ IF flushing[t]
       THEN PopFlushed(t)
       ELSE Rest(t, "done") /\ UNCHANGED <<handle, buffer>>
    /\ UNCHANGED <<redisVars, shed, mishaps>>

\* The command raised a connection error: _redis = None; sleep before the
\* next attempt, or give up with ConnectionError after the last one.
Failed(t) ==
    /\ stage[t] \in InFlight
    /\ fate[t] # "ok"
    /\ \/ UNCHANGED stream
       \/ stage[t] = "adding" /\ fate[t] = "cut" /\ Executed(t)
    /\ \/ /\ attempt[t] < MaxRetries - 1
          /\ handle' = FALSE
          /\ stage' = [stage EXCEPT ![t] = "waiting"]
          /\ attempt' = [attempt EXCEPT ![t] = @ + 1]
          /\ fate' = [fate EXCEPT ![t] = "ok"]
          /\ UNCHANGED <<buffer, shed, item, flushing>>
       \/ /\ attempt[t] = MaxRetries - 1
          /\ flushing[t]
          /\ EndFlush(t, FALSE)
          /\ UNCHANGED <<buffer, shed>>
       \/ /\ attempt[t] = MaxRetries - 1
          /\ ~flushing[t]
          /\ handle' = FALSE
          /\ BufferOwn(t)
          /\ Rest(t, "done")
    /\ UNCHANGED <<redisVars, mishaps>>

\* The backoff sleep is over: next attempt.
Wake(t) ==
    /\ stage[t] = "waiting"
    /\ Attempt(t, item[t], flushing[t], attempt[t], handle)
    /\ UNCHANGED <<redisVars, stream, buffer, shed, mishaps>>

\* Redis answers with an error (out of memory, read-only, not persisting):
\* a ResponseError is not retried and not buffered.
Refused(t) ==
    /\ mishaps < MaxMishaps
    /\ stage[t] \in InFlight
    /\ fate[t] = "ok"
    /\ mishaps' = mishaps + 1
    /\ Escape(t, handle)
    /\ UNCHANGED <<redisVars, stream, buffer, shed>>

\* The connection of the attacker ends and its coroutine is cancelled.
Cancel(e) ==
    /\ mishaps < MaxMishaps
    /\ stage[e] \in InFlight \cup {"waiting"}
    /\ mishaps' = mishaps + 1
    /\ \/ UNCHANGED stream
       \/ stage[e] = "adding" /\ fate[e] # "refused" /\ Executed(e)
    /\ Escape(e, handle)
    /\ UNCHANGED <<redisVars, buffer, shed>>

-----------------------------------------------------------------------------

TaskStep(t) == Joined(t) \/ Added(t) \/ Failed(t) \/ Wake(t)

Next ==
    \/ RedisDown \/ RedisUp
    \/ \E e \in Events : Emit(e) \/ Cancel(e)
    \/ \E l \in Loops : FlushTick(l)
    \/ \E t \in Tasks : TaskStep(t) \/ Refused(t)

Spec == Init /\ [][Next]_vars

\* Awaits return and sleeps end; attacks and outages are not promised.
Fairness ==
    /\ \A t \in Tasks : WF_vars(TaskStep(t))
    /\ \A l \in Loops : WF_vars(FlushTick(l))

\* Redis may stay down for good.
FairSpec == Spec /\ Fairness

-----------------------------------------------------------------------------
(* Correctness.                                                            *)

InStream(e) == e \in Range(stream)
InBuffer(e) == e \in Range(buffer)

\* Events whose emit_event returned normally and that are nowhere.
Lost == {e \in Events : stage[e] = "done" /\ ~InStream(e) /\ ~InBuffer(e)}

\* Surplus copies in the stream.
Duplicates == Len(stream) - Cardinality(Range(stream))

\* Overlapping flushes publish the head twice and pop two events.  Every pop
\* is paid for by an XADD, so at most as many events are lost from the buffer
\* as there are surplus copies in the stream, plus those the full deque shed
\* (_flush_buffer, publish before popleft).
LossMatchedByDuplicate == Cardinality(Lost) <= Duplicates + shed

\* emit_event returns (or raises), even if Redis never comes back: the flush
\* gives up at the first failure instead of keeping the attacker waiting.
EmitReturns ==
    \A e \in Events : stage[e] # "idle" ~> stage[e] \in {"done", "dead"}

\* As long as a flush loop survives, what is in the buffer when Redis is back
\* for good leaves it, without any further attack.
BufferDrains ==
    \A e \in Events :
        (InBuffer(e) /\ up /\ outages = MaxOutages)
            ~> (~InBuffer(e) \/ \A l \in Loops : stage[l] = "dead")

\* base.py:25 - "kept in the memory buffer and flushed after the reconnect":
\* an event only leaves the buffer for the stream.
LeavesBufferPublished ==
    [][\A e \in Events : InBuffer(e) /\ ~InBuffer(e)' => InStream(e)']_vars

=============================================================================
